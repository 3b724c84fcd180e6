------------------------------ MODULE Resolver ------------------------------
(***************************************************************************)
(* base/Resolver: a caching DNS resolver shared by the threads that call   *)
(* resolve() and its own event-loop thread, which starts evdns queries and *)
(* receives their answers.  One mutex guards the records, and callbacks    *)
(* run while it is held, on whichever thread holds it: the caller's when   *)
(* the cache answers, the loop's when DNS does.                            *)
(*                                                                         *)
(* A critical section that calls no callback is one action; one that does  *)
(* is split at every callback, with `mutex` held in between.               *)
(***************************************************************************)
EXTENDS Naturals

CONSTANTS
  Requests,  \* one element per call of resolve(); stands for its callback
  Hosts,     \* names that are resolved
  NoHost,    \* "no record": not a name
  Ttls,      \* time-to-live values DNS may report, in seconds
  MaxNow     \* bound on the clock

ASSUME ResolverAssumption ==
  /\ NoHost \notin Hosts
  /\ Ttls \subseteq Nat
  /\ MaxNow \in Nat \ {0}

VARIABLES
  mutex,    \* Impl::mutex: "free", or the side that holds it
  infos,    \* Impl::resolve_infos, one ResolveInfo per name
  tasks,    \* Impl::tasks as a bag: how often a record is in the deque
  queries,  \* evdns requests in flight per name
  current,  \* the record whose callbacks the mutex holder is running
  todo,     \* the callbacks it has still to run
  now,      \* base::now_in_secs()
  asked,    \* history: the name each request asked for
  calls,    \* history: how often each request's callback ran
  result    \* history: the Status it was given

vars == <<mutex, infos, tasks, queries, current, todo, now, asked, calls, result>>

\* kExpired is assigned and replaced within one critical section, so no other
\* thread ever sees it in a record (see EffectiveState).  The addresses are
\* left out: a callback reads them only after it has seen an ok status.
ResolveInfo ==
  [state : {"kNew", "kInProcessing", "kDone"},
   cbs : SUBSET Requests, expire : Nat, ok : BOOLEAN]

TypeOK ==
  /\ mutex \in {"free", "caller", "loop"}
  /\ infos \in [Hosts -> ResolveInfo]
  /\ tasks \in [Hosts -> Nat]
  /\ queries \in [Hosts -> Nat]
  /\ current \in Hosts \cup {NoHost}
  /\ todo \in SUBSET Requests
  /\ now \in Nat
  /\ asked \in [Requests -> Hosts \cup {NoHost}]
  /\ calls \in [Requests -> Nat]
  /\ result \in [Requests -> {"none", "ok", "error"}]

\* The clock starts after the epoch: a record's initial expire, 0, is past.
Init ==
  /\ mutex = "free"
  /\ infos = [h \in Hosts |->
                [state |-> "kNew", cbs |-> {}, expire |-> 0, ok |-> TRUE]]
  /\ tasks = [h \in Hosts |-> 0]
  /\ queries = [h \in Hosts |-> 0]
  /\ current = NoHost
  /\ todo = {}
  /\ now = 1
  /\ asked = [r \in Requests |-> NoHost]
  /\ calls = [r \in Requests |-> 0]
  /\ result = [r \in Requests |-> "none"]

-----------------------------------------------------------------------------
(* resolve(): a calling thread                                             *)

\* The state resolve() switches on: a done record past its expiry is expired.
EffectiveState(h) ==
  IF infos[h].state = "kDone" /\ infos[h].expire < now
  THEN "kExpired" ELSE infos[h].state

\* Mutant: the record stays as it was until the loop thread picks the task up.
StartLookupUnmarked(r, h) ==
  /\ EffectiveState(h) \in {"kNew", "kExpired"}
  /\ infos' = [infos EXCEPT ![h].cbs = @ \cup {r}]
  /\ tasks' = [tasks EXCEPT ![h] = @ + 1]
  /\ UNCHANGED <<mutex, current, todo>>

\* Mutant: an expired record is marked but not queued again.
StartLookupNewOnly(r, h) ==
  /\ EffectiveState(h) \in {"kNew", "kExpired"}
  /\ infos' = [infos EXCEPT ![h].state = "kInProcessing", ![h].cbs = @ \cup {r}]
  /\ tasks' = IF EffectiveState(h) = "kNew" THEN [tasks EXCEPT ![h] = @ + 1] ELSE tasks
  /\ UNCHANGED <<mutex, current, todo>>

StartLookup(r, h) ==
  /\ EffectiveState(h) \in {"kNew", "kExpired"}
  /\ infos' = [infos EXCEPT ![h].state = "kInProcessing", ![h].cbs = @ \cup {r}]
  /\ tasks' = [tasks EXCEPT ![h] = @ + 1]
  /\ UNCHANGED <<mutex, current, todo>>

JoinLookup(r, h) ==
  /\ EffectiveState(h) = "kInProcessing"
  /\ infos' = [infos EXCEPT ![h].cbs = @ \cup {r}]
  /\ UNCHANGED <<mutex, current, todo, tasks>>

AnswerFromCache(r, h) ==
  /\ EffectiveState(h) = "kDone"
  /\ mutex' = "caller"
  /\ current' = h
  /\ todo' = {r}
  /\ UNCHANGED <<infos, tasks>>

\* Mutant: callbacks of an answer run with the mutex released.
ResolveDuringAnswer(r, h) ==
  /\ mutex \in {"free", "loop"}
  /\ asked[r] = NoHost
  /\ asked' = [asked EXCEPT ![r] = h]
  /\ StartLookup(r, h) \/ JoinLookup(r, h)
  /\ UNCHANGED <<queries, now, calls, result>>

Resolve(r, h) ==
  /\ mutex = "free"
  /\ asked[r] = NoHost
  /\ asked' = [asked EXCEPT ![r] = h]
  /\ StartLookup(r, h) \/ JoinLookup(r, h) \/ AnswerFromCache(r, h)
  /\ UNCHANGED <<queries, now, calls, result>>

FinishCached ==
  /\ mutex = "caller"
  /\ todo = {}
  /\ mutex' = "free"
  /\ current' = NoHost
  /\ UNCHANGED <<infos, tasks, queries, todo, now, asked, calls, result>>

-----------------------------------------------------------------------------
(* The event-loop thread                                                   *)

\* ev_cb: every queued record gets an evdns query.  It runs when resolve()
\* activates notify_ev and, because notify_ev is a persistent timer, once a
\* second anyway: the activation only makes it sooner and is not modelled.
EvCb ==
  /\ mutex = "free"
  /\ queries' = [h \in Hosts |-> queries[h] + tasks[h]]
  /\ tasks' = [h \in Hosts |-> 0]
  /\ UNCHANGED <<mutex, infos, current, todo, now, asked, calls, result>>

\* Mutant: a failure is given a time to live too.
AnswerCachingFailure(h) ==
  /\ mutex = "free"
  /\ queries[h] > 0
  /\ queries' = [queries EXCEPT ![h] = @ - 1]
  /\ \E ttl \in Ttls, ok \in BOOLEAN :
       infos' = [infos EXCEPT ![h].ok = ok, ![h].expire = now + ttl]
  /\ mutex' = "loop"
  /\ current' = h
  /\ todo' = infos[h].cbs
  /\ UNCHANGED <<tasks, now, asked, calls, result>>

\* Mutant: res_cb is run for a query that was already answered.
AnswerUnsolicited(h) ==
  /\ mutex = "free"
  /\ queries' = [queries EXCEPT ![h] = @ - 1]
  /\ infos' = [infos EXCEPT ![h].ok = FALSE]
  /\ mutex' = "loop"
  /\ current' = h
  /\ todo' = infos[h].cbs
  /\ UNCHANGED <<tasks, now, asked, calls, result>>

\* res_cb up to its loop over the callbacks.  A failure leaves expire alone.
Answer(h) ==
  /\ mutex = "free"
  /\ queries[h] > 0
  /\ queries' = [queries EXCEPT ![h] = @ - 1]
  /\ \/ \E ttl \in Ttls :
          infos' = [infos EXCEPT ![h].ok = TRUE, ![h].expire = now + ttl]
     \/ infos' = [infos EXCEPT ![h].ok = FALSE]
  /\ mutex' = "loop"
  /\ current' = h
  /\ todo' = infos[h].cbs
  /\ UNCHANGED <<tasks, now, asked, calls, result>>

\* One callback returns.  What the callback itself does belongs to the client.
RunCallback(r) ==
  /\ r \in todo
  /\ todo' = todo \ {r}
  /\ calls' = [calls EXCEPT ![r] = @ + 1]
  /\ result' = [result EXCEPT ![r] = IF infos[current].ok THEN "ok" ELSE "error"]
  /\ UNCHANGED <<mutex, infos, tasks, queries, current, now, asked>>

\* Mutant: the callbacks stay registered.
FinishAnswerKeepingCbs ==
  /\ mutex = "loop"
  /\ todo = {}
  /\ infos' = [infos EXCEPT ![current].state = "kDone"]
  /\ mutex' = "free"
  /\ current' = NoHost
  /\ UNCHANGED <<tasks, queries, todo, now, asked, calls, result>>

\* res_cb after its loop: the callbacks are dropped and the record is done.
FinishAnswer ==
  /\ mutex = "loop"
  /\ todo = {}
  /\ infos' = [infos EXCEPT ![current].cbs = {}, ![current].state = "kDone"]
  /\ mutex' = "free"
  /\ current' = NoHost
  /\ UNCHANGED <<tasks, queries, todo, now, asked, calls, result>>

Tick ==
  /\ now < MaxNow
  /\ now' = now + 1
  /\ UNCHANGED <<mutex, infos, tasks, queries, current, todo, asked, calls, result>>

Next ==
  \/ \E r \in Requests, h \in Hosts : Resolve(r, h)
  \/ \E r \in Requests : RunCallback(r)
  \/ \E h \in Hosts : Answer(h)
  \/ EvCb
  \/ FinishCached
  \/ FinishAnswer
  \/ Tick

Spec == Init /\ [][Next]_vars

\* The loop thread runs, evdns answers or times out every query, and a thread
\* that is inside a critical section leaves it.  Callers need not call.
Fairness ==
  /\ WF_vars(EvCb)
  /\ \A h \in Hosts : WF_vars(Answer(h))
  /\ \A r \in Requests : WF_vars(RunCallback(r))
  /\ WF_vars(FinishCached)
  /\ WF_vars(FinishAnswer)

FairSpec == Spec /\ Fairness

-----------------------------------------------------------------------------
(* Properties                                                              *)

Answering(h) == mutex = "loop" /\ current = h

\* Requests for one name are coalesced: a record that is being processed is
\* in exactly one of the task queue, the hands of evdns and res_cb, and any
\* other record is in none.  A second query would run res_cb on a record that
\* is already done and hand its answer to nobody, or to later requests.
OneQueryPerName ==
  \A h \in Hosts :
    tasks[h] + queries[h] + (IF Answering(h) THEN 1 ELSE 0)
      = IF infos[h].state = "kInProcessing" THEN 1 ELSE 0

\* A request that resolve() answers on the spot is never told "error": a
\* failed lookup is retried by the next request, because res_cb leaves expire
\* in the past.
CacheServesOnlySuccess == mutex = "caller" => infos[current].ok

\* A callback that has not run is held by the record it asked for, which is
\* being processed, or is the one the mutex holder is about to run: nobody
\* waits on a record from which no answer will come.
NobodyForgotten ==
  \A r \in Requests :
    asked[r] # NoHost /\ calls[r] = 0 =>
      \/ r \in todo
      \/ /\ r \in infos[asked[r]].cbs
         /\ infos[asked[r]].state = "kInProcessing"
         /\ ~ Answering(asked[r])

Promise == INSTANCE AnswerOnce WITH
  waiting <- {r \in Requests : asked[r] # NoHost /\ calls[r] = 0}

\* Resolver implements AnswerOnce: whatever the interleaving of requests,
\* queries, answers and expiry, every callback runs at most once, and only
\* for a request that was made.
RunsCallbacksOnce == Promise!Spec

\* ... and it does run: no request waits for ever on a record that expired,
\* failed or was joined late.
AnswersEveryRequest ==
  \A r \in Requests : asked[r] # NoHost ~> calls[r] = 1
=============================================================================
