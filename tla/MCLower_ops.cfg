SPECIFICATION LowerSpec
CONSTANTS
  ByteBits = 2
  Depth <- MCDepth
  Codes <- MCCodes
  Inputs <- MCInputs
INVARIANT NoneCut
PROPERTY ExecutesBil
CHECK_DEADLOCK FALSE
