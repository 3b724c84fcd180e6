SPECIFICATION Spec
CONSTANTS
  u1 = u1
  u2 = u2
  Uris <- MCUris
  Groups <- MCGroups
  NoUri = NoUri
  kMaxTasksCnt = 1
  MaxTasks = 2
  MaxFaults = 0
CHECK_DEADLOCK FALSE
INVARIANTS
  StoredPagesWereLoaded
