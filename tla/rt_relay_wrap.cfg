SPECIFICATION Spec
CONSTANTS
  N = 3
  Relay = TRUE
  ConfirmOnCompletion = TRUE
  SeqMod = 2
  QueueCap = 2
  BatchCap = 2
  Host = "apple"
  TruncateExtends = TRUE
  Strays <- NoStrays
  CancelPhases <- BeforeConfirm
  Faults = {}
  MaxRuns = 1
  MaxFaults = 2
INVARIANTS Custody
CHECK_DEADLOCK FALSE
