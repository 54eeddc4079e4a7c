SPECIFICATION Spec
CONSTANTS
  Byte <- MCByte
  Absent = Absent
  MaxAddr = 6
  LowestUserAddr = 1
  AllocBase = 6
  Image <- MCImage
  Strict = TRUE
  Readers = {TRUE}
  Accesses <- TailAccesses
  Allocs = {}
  AutoSizes = {1, 2}
INVARIANTS LastStoreVisible
PROPERTY ImplementsFlatMemory
