------------------------------ MODULE AresState ------------------------------
(***************************************************************************)
(* The state of an Ares and what is claimed of it; the steps are in Ares.  *)
(***************************************************************************)
EXTENDS Naturals

CONSTANTS
  Requests,  \* one element per call of resolve(); stands for its callback
  Hosts,     \* names that are resolved
  Literals,  \* those that c-ares answers at once
  NoHost     \* "no record": not a name

ASSUME AresAssumption ==
  /\ Literals \subseteq Hosts
  /\ NoHost \notin Hosts

VARIABLES
  life,       \* "open"; in the destructor "stopped" (set, joining the worker),
              \* "joined" (in ares_destroy); "gone"
  round,      \* the worker: "top" (tests stopped), "picking", "processing",
              \* "ended"
  mutex,      \* Impl::mutex: "free", held by a "caller" or by ares_cb
              \* ("answer"); "stuck": the worker waits for a lock it holds itself
  infos,      \* Impl::resolve_infos, one ResolveInfo per name
  new_tasks,  \* Impl::new_tasks as a bag
  queries,    \* queries c-ares has yet to answer, per name
  current,    \* the record whose callbacks are being run
  todo,       \* the callbacks still to run
  asked,      \* history: the name each request asked for
  calls,      \* history: how often each request's callback ran
  result      \* history: the Status it was given

ResolveInfo ==
  [state : {"kNew", "kInProcessing", "kDone"}, cbs : SUBSET Requests, ok : BOOLEAN]

AresTypeOK ==
  /\ life \in {"open", "stopped", "joined", "gone"}
  /\ round \in {"top", "picking", "processing", "ended"}
  /\ mutex \in {"free", "caller", "answer", "stuck"}
  /\ infos \in [Hosts -> ResolveInfo]
  /\ new_tasks \in [Hosts -> Nat]
  /\ queries \in [Hosts -> Nat]
  /\ current \in Hosts \cup {NoHost}
  /\ todo \in SUBSET Requests
  /\ asked \in [Requests -> Hosts \cup {NoHost}]
  /\ calls \in [Requests -> Nat]
  /\ result \in [Requests -> {"none", "ok", "error"}]

-----------------------------------------------------------------------------
(* Properties                                                              *)

\* A request that has not been answered waits where an answer will find it: on
\* a record that is queued and new, or queried and being processed.  However
\* often a name is queried, no later answer is needed and none comes too soon,
\* ares_destroy() leaves none behind, and a worker that is stuck has lost none.
NobodyForgotten ==
  \A r \in Requests :
    asked[r] # NoHost /\ calls[r] = 0 =>
      LET info == infos[asked[r]] IN
      \/ r \in todo
      \/ /\ r \in info.cbs
         /\ \/ info.state = "kNew" /\ new_tasks[asked[r]] > 0
            \/ info.state = "kInProcessing" /\ queries[asked[r]] > 0 /\ life # "gone"

Promise == INSTANCE AnswerOnce WITH
  waiting <- {r \in Requests : asked[r] # NoHost /\ calls[r] = 0}

\* Ares implements AnswerOnce: a name that is queried twice has its callbacks
\* run once.
RunsCallbacksOnce == Promise!Spec

\* ... and every callback runs, unless some name was one that c-ares answers
\* at once, after which nothing is resolved, or the destructor came before the
\* worker saw the name.
AnswersUnlessStuck ==
  \A r \in Requests :
    asked[r] # NoHost ~>
      \/ calls[r] = 1
      \/ mutex = "stuck"
      \/ life = "gone" /\ \E h \in Hosts : asked[r] = h /\ infos[h].state = "kNew"

\* The destructor returns, unless its worker is stuck.
DestructionEnds == life = "stopped" ~> life = "gone" \/ mutex = "stuck"
=============================================================================
