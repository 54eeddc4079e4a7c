SPECIFICATION Spec
CONSTANTS
  Byte <- MCByte
  Absent = Absent
  MaxAddr = 6
  LowestUserAddr = 1
  AllocBase = 5
  Image <- MCImage
  Strict = TRUE
  Readers = {TRUE, FALSE}
  Accesses <- WordAccesses
  Allocs <- WordAllocs
  AutoSizes = {1, 2}
INVARIANTS TypeOK LastStoreVisible ServedRangesWhole
PROPERTY ImplementsFlatMemory
