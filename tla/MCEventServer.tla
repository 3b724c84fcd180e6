--------------------------- MODULE MCEventServer ----------------------------
(* Constants of the EventServer runs.                                      *)
EXTENDS EventServer

CONSTANTS stats, reader, oneShot

\* The stats timer, a descriptor as socket_cb adds it, and a timer as timer_cb
\* adds it.
MCHandles == {stats, reader, oneShot}
MCTimers == {stats, oneShot}
MCPersistent == {stats, reader}
=============================================================================
