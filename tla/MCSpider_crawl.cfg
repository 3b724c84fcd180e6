SPECIFICATION FairSpec
CONSTANTS
  u1 = u1
  u2 = u2
  Uris <- MCUris
  Groups <- MCGroups
  NoUri = NoUri
  kMaxTasksCnt = 1
  MaxTasks = 3
  MaxFaults = 2
CHECK_DEADLOCK FALSE
INVARIANTS
  OneTaskPerScan
PROPERTIES
  RetriesEnd
  EveryPageIsStored
