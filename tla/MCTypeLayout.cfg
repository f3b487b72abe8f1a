CONSTANTS
  PtrSize = 8
  AddressSpace = 100000
  MaxPtrmask = 3
  Chunk = 2
  BucketSize = 8
  MaxKeySize = 16
  MaxValSize = 16
  BasicTypes <- AllBasic
  Pointer = 1
  Counts = {0, 1, 2, 3}
  MaxFields = 3
  MaxMade = 2
  Shapes <- SomeShapes
  Newest = Newest
  Receivers <- SomeReceivers
SPECIFICATION CallSpec
INVARIANTS PointerMap MapFits FieldsApart StructRules DirectIsPointer BucketsFit ArgumentsArrive ValuesKept PoolClean AlwaysScanned
CHECK_DEADLOCK FALSE
