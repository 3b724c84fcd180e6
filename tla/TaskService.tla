---------------------------- MODULE TaskService -----------------------------
(***************************************************************************)
(* What the fetch service promises its clients: a request for a batch of   *)
(* tasks is taken or refused as a whole, a task that was taken finishes at *)
(* most once, and a finished task is handed out in at most one result.     *)
(***************************************************************************)
CONSTANT Tasks

VARIABLE phase   \* of each task, as a client that saw everything would put it

Phases == {"new", "refused", "running", "done", "reported"}

TypeOK == phase \in [Tasks -> Phases]

Init == phase = [t \in Tasks |-> "new"]

Move(B, from, to) ==
  /\ \A t \in B : phase[t] = from
  /\ phase' = [t \in Tasks |-> IF t \in B THEN to ELSE phase[t]]

Accept(B) == Move(B, "new", "running")
Refuse(B) == Move(B, "new", "refused")
Finish(t) == Move({t}, "running", "done")
Report(B) == Move(B, "done", "reported")

Next ==
  \/ \E B \in SUBSET Tasks : Accept(B) \/ Refuse(B) \/ Report(B)
  \/ \E t \in Tasks : Finish(t)

Spec == Init /\ [][Next]_phase
=============================================================================
