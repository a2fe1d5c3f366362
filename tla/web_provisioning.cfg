SPECIFICATION LiveSpec
CONSTANTS
  Attempts = {1, 2}
  Chunks = 2
  MaxFaults = 3
  MaxAborts = 1
  MaxLost = 1
  MaxRemovals = 1
INVARIANTS OneUnresolved JournalTruthful
PROPERTIES HeardNotAborted AppliedConfirms
CHECK_DEADLOCK FALSE
