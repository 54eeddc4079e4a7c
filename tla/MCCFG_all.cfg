SPECIFICATION CFGFairSpec
CONSTANTS
  Programs <- MCPrograms
  Entries = {0, 1}
  Thumb = TRUE
INVARIANTS CFGTypeOK BlocksAgree NothingForgotten EdgesExact NoFailure CoversExecution
PROPERTIES FindsReachable Terminates
CHECK_DEADLOCK FALSE
