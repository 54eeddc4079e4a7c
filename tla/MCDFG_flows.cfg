SPECIFICATION DFGFairSpec
CONSTANTS
  Programs <- MCPrograms
  Entries = {0}
  Vars = {"r", "f"}
  General = {"r"}
  LastAddr = 3
  Shapes = {"def", "inc", "jcc", "tstjcc", "defjmp", "call"}
INVARIANTS DFGTypeOK EdgesReal NoMissedFlow AnalysedWhenEntrySets
PROPERTIES DFGTerminates
CHECK_DEADLOCK FALSE
