SPECIFICATION ChanSpec
CONSTANTS
  Calls = {"histo", "stop"}
  Punctual = TRUE
  MaxCalls = 3
  MaxFinished = 0
CHECK_DEADLOCK FALSE
PROPERTIES
  StopWaitsForReady
