CONSTANTS
  None = None
  g1 = g1
  g2 = g2
  G = {g1, g2}
  K = {"*linked", "*made"}
  ForkObj = {"fork1", "fork2"}
  StdObj = {"std1", "std2"}
  Linked <- MCLinked
SPECIFICATION Spec
INVARIANT OneObjectPerType
