CONSTANTS
  NaN = NaN
  Nil = Nil
  Loc <- MCLoc
  MapObj = {"m", "n"}
  Keys = {"k", "l"}
  Addr = {"u", "v", "bu", "bv", "em", "en", "m", "n"}
  Types = {"any", "*any", "P", "S", "[]any", "map", "func()", "float64"}
  Data = {"one", NaN}
  Memories <- MCMemories
  Roots <- MCRoots
SPECIFICATION FairSpec
INVARIANTS Sound Complete
PROPERTY Terminates
CHECK_DEADLOCK FALSE
