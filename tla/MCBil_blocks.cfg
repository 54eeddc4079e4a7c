SPECIFICATION ReilSpec
CONSTANTS
  Ops <- MCOps
  Emits <- MCEmits
  Refused <- MCRefused
  Names <- MCNames
  Programs <- MCPrograms
  MaxArgs = 2
INVARIANTS BilTypeOK NumberedToTheEnd JumpsResolved
PROPERTY RunsAsBil
CHECK_DEADLOCK FALSE
