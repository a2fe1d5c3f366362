SPECIFICATION LiveSpec
CONSTANTS
  Ops = {1, 2}
  Units = 2
  MaxFaults = 1
  MaxAborts = 1
  StaleCancel = FALSE
INVARIANTS Custody JournalHonest
PROPERTIES CompletedRetires
CHECK_DEADLOCK FALSE
