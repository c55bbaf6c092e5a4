SPECIFICATION RunSpec
CONSTANTS
  m1 = m1
  m2 = m2
  Modules = {m1, m2}
  NumChannels = 2
  AllChannels <- SetOrder
  Calibrated <- AllButOne
  MaxCalls = 3
  MaxFailures = 2
CHECK_DEADLOCK FALSE
INVARIANTS
  RunningIsActive
  RunningInItsMode
PROPERTIES
  BuffersKeptWhileRunning
