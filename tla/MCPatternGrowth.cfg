SPECIFICATION FairSpec
CONSTANTS
  Jobs <- MCJobs
  Null = Null
  NoResult = NoResult
INVARIANTS
  TypeOK
  LeavesAreMatches
  TreesAreLinked
  DeadPairsAreUnsupported
  CountsAreOfExtensions
PROPERTIES
  ImplementsPatternSearch
  EverySearchEnds
