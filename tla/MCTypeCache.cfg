CONSTANTS
  None = None
  g1 = g1
  g2 = g2
  G = {g1, g2}
  MapKeys <- MCMapKeys
  ListKeys <- MCListKeys
  Families = {"func", "struct"}
  Hashes = {"hf", "hs"}
  HashOf <- MCHash
  FamilyOf <- MCFamily
  Known = {"*linked", "*direct", "func2"}
  Direct = {"*direct"}
  MaxOps = 2
SPECIFICATION FairSpec
INVARIANTS Canonical Inv
PROPERTIES AppendOnly ImplementsIntern CallsReturn
CHECK_DEADLOCK FALSE
