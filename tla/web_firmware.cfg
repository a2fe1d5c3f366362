SPECIFICATION LiveSpec
CONSTANTS
  Chunks = 5
  AckWindow = 2
  SeqMod = 4
  MaxFaults = 2
  MaxAborts = 1
  MaxLost = 1
  MaxDrops = 1
INVARIANTS CheckpointBacked
PROPERTY Retires
CHECK_DEADLOCK FALSE
