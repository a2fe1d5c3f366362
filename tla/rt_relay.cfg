SPECIFICATION FairSpec
CONSTANTS
  N = 3
  Relay = TRUE
  ConfirmOnCompletion = FALSE
  SeqMod = 16
  QueueCap = 2
  BatchCap = 2
  Host = "js"
  TruncateExtends = FALSE
  Strays <- NoStrays
  CancelPhases <- BeforeConfirm
  Faults = {"duplicate", "disconnect", "opfail", "crash"}
  MaxRuns = 3
  MaxFaults = 3
INVARIANTS DeliveredWhole CheckpointExact
PROPERTIES Terminates
CHECK_DEADLOCK FALSE
