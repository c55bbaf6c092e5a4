SPECIFICATION HandelSpec
CONSTANTS
  FwAliases = {fa, fb}
  Ptrrs = {0, 1, 2}
  PeakingTimes = {1, 2, 3}
  MaxFirmware = 4
  MaxFwCalls = 3
  ModuleAliases = {m1, m2}
  DetectorAliases = {d1}
  FirmwareAliases = {f1}
  ChannelIds = {0, 1}
  SetIds = {10, 11}
  MaxChannels = 2
  ValueNames = {v, w}
  MaxData = 3
  MaxConfigCalls = 4
  Groups <- MCGroups
  Devices <- MCDevices
  Gains = {2, 3}
  Tick = 4
  GainStep = 3
  MaxAcqCalls = 4
  MaxRefused = 1
  CharChannels = {0, 1}
  Characterizations <- MCCharacterizations
  PrintUnit = 4
  SampleLimit = 400
  PerLine = 2
  BufferLines = 14
  MaxCharCalls = 5
  Configurations <- MCConfigurations
  OlderLists <- MCOlderLists
  MaxEdits = 1
  MaxSaves = 1
INVARIANTS
  SetsHaveTheirFirmware
  ValidationExact
  DetChanIsOneChannel
  SetReachesItsChannels
  SavedIsRestored
  ValuesInForce
  RestartRestores
  RunConfigured
  CharacterizationKept
CHECK_DEADLOCK FALSE
