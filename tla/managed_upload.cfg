SPECIFICATION LiveSpec
CONSTANTS
    MaxSessions = 3
    MaxNonces = 2
    MaxExpired = 1
    MaximumRecoveryHops = 1
    MaxFaults = 2
    MaxCancels = 1
    LocalWifi = TRUE
INVARIANTS SingleCreate NothingForgotten LocalResumable
PROPERTIES Progresses
CHECK_DEADLOCK FALSE
