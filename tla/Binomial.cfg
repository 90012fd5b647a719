SPECIFICATION Spec
CONSTANTS
  Jobs <- BinomialJobs
  MAX_ITERATIONS = 5
  PRUNE_WARMUP_ITERATIONS = 1
  MIN_STATES_FOR_GAP_PRUNE = 2
  NUMBER_OF_STATES_TO_RETURN = 2
  WORD = 64
  NoSearch = NoSearch
INVARIANT ScoresAreBinomial
