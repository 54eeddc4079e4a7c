SPECIFICATION LowerSpec
CONSTANTS
  ByteBits = 2
  Depth <- MCDepth
  Codes <- MCCodes
  Inputs <- MCInputs
INVARIANT ChoosesIfTrue
CHECK_DEADLOCK FALSE
