SPECIFICATION FuncSpec
CONSTANTS
  Programs <- MCPrograms
  Entries = {2}
  Thumb = FALSE
INVARIANTS FuncTypeOK EachInsnOnce ReturnsKnown ChunksExact ChunksApartAligned FunctionBuiltWhole
CHECK_DEADLOCK FALSE
