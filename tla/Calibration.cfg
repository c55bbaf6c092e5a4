SPECIFICATION CalFairSpec
CONSTANTS
  MaxCalls = 4
  MaxFaults = 1
  MaxProgress = 1
INVARIANTS
  DCOffsetWaitEnds
  CalibrationCurrent
PROPERTIES
  OtherCallsReturn
CHECK_DEADLOCK FALSE
