SPECIFICATION ReaderSpec
CONSTANTS
  HeaderWords = 1
  PixelWords = 1
  McaWords = 1
  PixelsPerBuffer = 2
  RunLengths = {0, 5, 6}
  Punctual = TRUE
  MaxSets = 6
  MaxDrop = 1
  MaxAdvance = 1
  MaxCommands = 1
  MaxRuns = 1
  PollLimit = 2
INVARIANTS
  FileComplete
PROPERTIES
  LoopTerminates
