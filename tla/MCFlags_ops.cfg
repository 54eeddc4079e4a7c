SPECIFICATION FlagSpec
CONSTANTS
  ByteBits = 4
  Insns <- MCInsns
INVARIANTS FlagsAsVex ConditionsAsVex EflagsAsVex
