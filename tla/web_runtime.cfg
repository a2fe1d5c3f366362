SPECIFICATION RuntimeLiveSpec
CONSTANTS
  MaxOps = 2
  MaxMoves = 2
INVARIANTS ReleasedClean
PROPERTIES ConfirmedNotCancelled TruthfulOutcome EndingSettles
CHECK_DEADLOCK FALSE
