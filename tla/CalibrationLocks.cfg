SPECIFICATION CalSpec
CONSTANTS
  MaxCalls = 3
  MaxFaults = 0
  MaxProgress = 1
INVARIANT
  NoLockCycle
CHECK_DEADLOCK FALSE
