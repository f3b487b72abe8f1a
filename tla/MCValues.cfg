CONSTANTS
  NoType = NoType
  Zero = Zero
  Types <- MCTypes
  rtype <- MCrtype
  MaxBits = 4
  MaxZero = 1
  Uint8 = "uint8"
  Lengths = {2}
  Registers = {r1, r2}
  r1 = r1
  r2 = r2
  Clients <- MCClients
SPECIFICATION SlicesSpec
INVARIANTS FlagsHold MemoryTyped
PROPERTIES ValuesFrozen InterfacesFrozen NumbersKept Appends
CONSTRAINT Small
SYMMETRY Symmetry
CHECK_DEADLOCK FALSE
