SPECIFICATION FlagSpec
CONSTANTS
  ByteBits = 4
  Insns <- Copies
INVARIANT FlagsAsVex
