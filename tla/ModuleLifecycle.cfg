SPECIFICATION LifeSpec
CONSTANTS
  Channels = {0, 1}
  MaxSetups = 2
  MaxTroubles = 1
  MaxData = 1
INVARIANTS
  ThreadEndsBeforeModule
  DetectorOutlivesMessage
  UpdateFindsDetector
  NothingLeftBehind
PROPERTIES
  CallsReturn
CHECK_DEADLOCK FALSE
