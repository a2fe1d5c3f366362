SPECIFICATION LiveSpec
CONSTANTS
  Units = 3
  Window = 2
  MaxMissing = 1
  MaxAppend = 1
  Chunks = 2
  Markers = 2
  MaxSessions = 2
  MaxFaults = 2
  MaxLost = 2
INVARIANTS NeverRefused
PROPERTIES WindowDurable Delivers
CHECK_DEADLOCK FALSE
