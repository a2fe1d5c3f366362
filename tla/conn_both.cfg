CONSTANTS
  Peripherals = {1, 2, 3}
  Named = {1, 3}
  Serials = {"S1", "S2"}
  Malformed = "bad"
  Target = "S1"
  AnySerial = "any"
  Hosts = {"js", "apple"}
  Hints <- MCHints
  Faults = {"scan", "stop", "checkpoint", "save", "delete", "release", "linkloss"}
  MaxRuns = 2
  MaxFaults = 1
SPECIFICATION LiveSpec
CHECK_DEADLOCK FALSE
INVARIANTS IdentityVerified LinksOwned RetiredFirst Exhaustive
PROPERTIES EveryRunEnds
