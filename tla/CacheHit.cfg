SPECIFICATION Spec
CONSTANTS
  Inputs <- MCInputs
  Sessions <- CacheHitSessions
  MaxBroken = 0
  NoDir = NoDir
  NotGiven = NotGiven
  Malformed = Malformed
  HALF_WORD = 256
  WORD = 65536
  WORD_BYTES = 2
  COUNT_BYTES = 2
  COUNT_LIMIT = 1000
  PatternSize = 3
  MAX_UINT32 = 15
  MAX_VERTEX_COLOR = 5
  NoColor = NoColor
  NoPath = NoPath
  MaxTorn = 1
  Directories <- MCDirectories
  GivenMaps <- MCGivenMaps
PROPERTIES
  HitsAreOfTheGraph
CHECK_DEADLOCK FALSE
