SPECIFICATION FairSpec
CONSTANTS
  timer = timer
  poll = poll
  c1 = c1
  s1 = s1
  s2 = s2
  Handles <- MCHandles
  Timers <- MCTimers
  AsyncHandles = {a1, a2}
  NoHandle = NoHandle
  Calls <- MCCalls
  Stops <- MCStops
  NoCall = NoCall
CHECK_DEADLOCK FALSE
INVARIANTS
  MapsHoldOpenHandles
  NoLostWakeup
  SafeUntilStopped
PROPERTIES
  RunsCallsInOrder
  StopEnds
