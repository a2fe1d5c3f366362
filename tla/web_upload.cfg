SPECIFICATION LiveSpec
CONSTANTS
  Units = 5
  Window = 2
  BlobFrames = 2
  MaxSessions = 2
  MaxFaults = 2
  MaxAborts = 1
  MaxLost = 2
INVARIANTS Custody CheckpointBacked FreshAgrees
PROPERTIES RunsEnd
CHECK_DEADLOCK FALSE
