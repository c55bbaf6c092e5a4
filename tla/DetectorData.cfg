SPECIFICATION Spec
CONSTANTS
  Bins = {1, 2}
  StatsWords = 1
  ListWords = 3
  PacketSizes = {1, 2, 4}
  MaxSets = 4
  MaxRuns = 2
  MaxChanges = 1
  MaxWire = 1
  HeaderWords = 2
  LongWords = 2
  Versions = {1, 4}
  Packets <- MCPackets
  Breaks <- MCBreaks
  Parameters <- MCParameters
  MaxItems = 4
  MaxBreaks = 1
  MaxUnits = 12
  LongestRun = 6
INVARIANTS
  SpectrumIsLatest
  AnswersAgree
  WordsAccounted
  LossIsReported
  PacketsFound
CHECK_DEADLOCK FALSE
