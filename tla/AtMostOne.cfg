SPECIFICATION FairSpec
CONSTANTS
  Calls <- MCCalls
  Searchers <- MCSearchers
  BATCH_SIZE = 2
  INVALID_VERTEX_ID = INVALID_VERTEX_ID
  NoCall = NoCall
PROPERTIES
  ReturnsAtMostOne
