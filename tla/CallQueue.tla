----------------------------- MODULE CallQueue ------------------------------
(***************************************************************************)
(* What an event loop promises to the threads that hand it calls: the loop *)
(* thread runs each call once, in the order they were handed over, until   *)
(* the queue is closed.                                                    *)
(***************************************************************************)
EXTENDS Sequences

CONSTANT Calls

VARIABLES
  queue,  \* calls handed over and not yet run, oldest first
  open    \* FALSE once the loop is gone

vars == <<queue, open>>

TypeOK == queue \in Seq(Calls) /\ open \in BOOLEAN

Init == queue = <<>> /\ open = TRUE

Post(c) ==
  /\ open
  /\ queue' = Append(queue, c)
  /\ open' = open

RunNext ==
  /\ open
  /\ queue # <<>>
  /\ queue' = Tail(queue)
  /\ open' = open

\* Calls that are still queued are dropped.
Close ==
  /\ open
  /\ open' = FALSE
  /\ queue' = <<>>

Next == (\E c \in Calls : Post(c)) \/ RunNext \/ Close

Spec == Init /\ [][Next]_vars
=============================================================================
