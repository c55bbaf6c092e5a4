SPECIFICATION ClientSpec
CONSTANTS
  Threads = {t1, t2}
  Kinds <- OneOfEach
  MaxRequests = 3
  MaxStrays = 1
  Contents <- MCContents
  Noise <- MCNoise
  MaxSent = 3
CHECK_DEADLOCK FALSE
INVARIANTS
  HandedOverOnce
  OwnAnswerInSequence
  NoLostAnswer
PROPERTIES
  Delivers
  EveryMessageReturned
