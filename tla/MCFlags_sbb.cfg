SPECIFICATION FlagSpec
CONSTANTS
  ByteBits = 4
  Insns <- Borrows
INVARIANT FlagsAsVex
