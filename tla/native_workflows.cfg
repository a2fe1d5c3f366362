SPECIFICATION NativeLiveSpec
CONSTANTS
  SeqMod = 8
  LogSeqMod = 65536
  Families = {"reset", "stream", "handoff", "logs", "discover"}
  Commands = {"c1"}
  Count = 3
  Units = 3
  ChunkSize = 2
  Attempts = 2
  Pending = 2
  Fragments = 5
  MaxOperations = 2
  MaxFaults = 2
  MaxLost = 1
  MaxDrops = 1
  MaxCancels = 1
  MaxRestarts = 1
  MaxTroubles = 2
CHECK_DEADLOCK FALSE
INVARIANTS Truthful NoSplicedLine Quiet
PROPERTIES ReceiptCovered StreamWhole OperationEnds
