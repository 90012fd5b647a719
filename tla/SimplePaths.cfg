SPECIFICATION DeviceSpec
CONSTANTS
  Jobs <- DirectedPathJobs
  COUNT_LIMIT = 1000
  NoJob = NoJob
  NoCounts = NoCounts
  Hash <- MCHash
  Halves <- MCHalves
  KEY_SPACE = 8
  HALF_SPACE = 8
  SPARE_BIT = 2
  GPU_MAP_INITIAL_CAPACITY = 2
  GPU_MAP_GROWTH_FACTOR = 2
  GPU_MAP_GROWTH_MAX_ATTEMPTS = 2
  GPU_KERNEL_BLOCK_DIM = 2
INVARIANTS
  PathsAreSimple
