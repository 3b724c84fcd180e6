--------------------------- MODULE MCUvEventServer ---------------------------
(* Constants of the UvEventServer run.                                     *)
EXTENDS UvEventServer

CONSTANTS timer, poll, c1, s1, s2

MCHandles == {timer, poll}
MCTimers == {timer}

\* A client's call and two stop()s.
MCCalls == {c1, s1, s2}
MCStops == {s1, s2}
=============================================================================
