SPECIFICATION ChanSpec
CONSTANTS
  Calls = {"histo", "listMode", "stop", "osc"}
  Punctual = TRUE
  MaxCalls = 5
  MaxFinished = 1
CHECK_DEADLOCK FALSE
INVARIANTS
  NoLostWakeup
PROPERTIES
  StopTimesOutOnFailure
  CleanStopIsReady
  CallReturns
