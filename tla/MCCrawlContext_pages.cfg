SPECIFICATION Spec
CONSTANTS
  Letters = {"a"}
  Uris <- MCUris
  Fetched <- MCFetched
  IntDigits = 1
  Chunks <- MCChunks
  MaxChunk = 3
  MaxPage = 7
  kMaxBodySize = 3
  MaxRedirs = 1
CHECK_DEADLOCK FALSE
INVARIANTS
  
  TruncatedMeansCut
  PageArrives
