SPECIFICATION FairSpec
CONSTANTS
  Jobs <- MCJobs
  MAX_ITERATIONS = 3
  PRUNE_WARMUP_ITERATIONS = 1
  MIN_STATES_FOR_GAP_PRUNE = 2
  NUMBER_OF_STATES_TO_RETURN = 2
  WORD = 64
  NoSearch = NoSearch
INVARIANTS
  TypeOK
  StatesAreInducedMatches
  HistogramsAreExact
  ScoresAreCurrent
  BeamStaysInBounds
  SeedsFitTheirColors
PROPERTIES
  EverySearchEnds
