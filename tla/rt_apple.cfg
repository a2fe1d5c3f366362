SPECIFICATION Spec
CONSTANTS
  N = 3
  Relay = FALSE
  ConfirmOnCompletion = TRUE
  SeqMod = 16
  QueueCap = 2
  BatchCap = 2
  Host = "apple"
  TruncateExtends = TRUE
  Strays <- DeviceError
  CancelPhases <- BeforeConfirm
  Faults = {"lose", "duplicate", "stray", "disconnect", "opfail", "crash", "otherflow"}
  MaxRuns = 3
  MaxFaults = 3
INVARIANTS Custody
PROPERTIES KeepsCustody
CHECK_DEADLOCK FALSE
