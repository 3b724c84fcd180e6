SPECIFICATION FairSpec
CONSTANTS
  stats = stats
  reader = reader
  oneShot = oneShot
  Handles <- MCHandles
  Timers <- MCTimers
  Persistent <- MCPersistent
  KeepAlive = stats
  AsyncHandle = async
  NoHandle = NoHandle
  Calls = {c1, c2, c3}
CHECK_DEADLOCK FALSE
INVARIANTS
  TypeOK
  NoLostWakeup
PROPERTIES
  NoStrayCallback
  RunsCallsInOrder
  CallsRun
