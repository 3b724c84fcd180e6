----------------------------- MODULE AnswerOnce -----------------------------
(***************************************************************************)
(* What a name resolver promises to the code that calls resolve(name, cb): *)
(* the callback of every request runs exactly once, with one verdict.      *)
(* Nothing is said of caching, of coalescing, of threads or of time.       *)
(***************************************************************************)
EXTENDS Naturals

CONSTANT Requests   \* one element per call of resolve()

VARIABLES
  waiting,  \* requests made so far whose callback has not run
  calls,    \* how often each request's callback ran
  result    \* the Status each callback was given last

vars == <<waiting, calls, result>>

Verdict == {"none", "ok", "error"}

TypeOK ==
  /\ waiting \in SUBSET Requests
  /\ calls \in [Requests -> Nat]
  /\ result \in [Requests -> Verdict]

Init ==
  /\ waiting = {}
  /\ calls = [r \in Requests |-> 0]
  /\ result = [r \in Requests |-> "none"]

\* A request is made once: a callback object stands for one call of resolve().
Ask(r) ==
  /\ r \notin waiting
  /\ calls[r] = 0
  /\ waiting' = waiting \cup {r}
  /\ UNCHANGED <<calls, result>>

Reply(r, verdict) ==
  /\ r \in waiting
  /\ waiting' = waiting \ {r}
  /\ calls' = [calls EXCEPT ![r] = @ + 1]
  /\ result' = [result EXCEPT ![r] = verdict]

Next ==
  \E r \in Requests :
    \/ Ask(r)
    \/ \E verdict \in {"ok", "error"} : Reply(r, verdict)

Spec == Init /\ [][Next]_vars
=============================================================================
