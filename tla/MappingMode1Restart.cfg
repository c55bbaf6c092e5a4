SPECIFICATION Mm1Spec
CONSTANTS
  HeaderWords = 2
  PixelWords = 1
  McaWords = 1
  PixelsPerBuffer = 2
  RunLengths = {0, 3}
  Punctual = FALSE
  MaxSets = 3
  MaxDrop = 1
  MaxAdvance = 1
  MaxCommands = 2
  MaxRuns = 2
PROPERTIES
  StreamSafety
