-------------------------------- MODULE Ares ---------------------------------
(***************************************************************************)
(* base/Ares: the resolver before Resolver, over c-ares.  A worker thread  *)
(* polls: every 10 ms it starts a query for each queued record and lets    *)
(* c-ares process answers.  Unlike Resolver it marks a record only when it *)
(* is picked up, so that a name may be queued and queried several times,   *)
(* and a record that is done is never looked up again.                     *)
(*                                                                         *)
(* c-ares answers some names, such as addresses, inside ares_gethostbyname *)
(* and not later; ares_cb then locks the mutex its own thread holds.       *)
(*                                                                         *)
(* The destructor waits for the worker, and ares_destroy() then fails the  *)
(* queries that are left.  Its owner lets no resolve() run meanwhile.      *)
(***************************************************************************)
EXTENDS AresState

thread == <<life, round>>
data == <<mutex, infos, new_tasks, queries, current, todo, asked, calls, result>>
vars == <<thread, data>>

Init ==
  /\ life = "open"
  /\ round = "top"
  /\ mutex = "free"
  /\ infos = [h \in Hosts |-> [state |-> "kNew", cbs |-> {}, ok |-> TRUE]]
  /\ new_tasks = [h \in Hosts |-> 0]
  /\ queries = [h \in Hosts |-> 0]
  /\ current = NoHost
  /\ todo = {}
  /\ asked = [r \in Requests |-> NoHost]
  /\ calls = [r \in Requests |-> 0]
  /\ result = [r \in Requests |-> "none"]

-----------------------------------------------------------------------------
(* resolve(): a calling thread                                             *)

EnqueueNew(r, h) ==
  /\ infos[h].state = "kNew"
  /\ infos' = [infos EXCEPT ![h].cbs = @ \cup {r}]
  /\ new_tasks' = [new_tasks EXCEPT ![h] = @ + 1]
  /\ UNCHANGED <<mutex, current, todo>>

JoinQuery(r, h) ==
  /\ infos[h].state = "kInProcessing"
  /\ infos' = [infos EXCEPT ![h].cbs = @ \cup {r}]
  /\ UNCHANGED <<mutex, current, todo, new_tasks>>

\* A failure is served from the record as well.
AnswerFromRecord(r, h) ==
  /\ infos[h].state = "kDone"
  /\ mutex' = "caller"
  /\ current' = h
  /\ todo' = {r}
  /\ UNCHANGED <<infos, new_tasks>>

Resolve(r, h) ==
  /\ life = "open"
  /\ mutex = "free"
  /\ asked[r] = NoHost
  /\ asked' = [asked EXCEPT ![r] = h]
  /\ EnqueueNew(r, h) \/ JoinQuery(r, h) \/ AnswerFromRecord(r, h)
  /\ UNCHANGED <<thread, queries, calls, result>>

FinishCached ==
  /\ mutex = "caller"
  /\ todo = {}
  /\ mutex' = "free"
  /\ current' = NoHost
  /\ UNCHANGED <<thread, infos, new_tasks, queries, todo, asked, calls, result>>

-----------------------------------------------------------------------------
(* do_work(): the worker thread                                            *)

\* Mutant: `stopped` is not looked at.
NextRoundAlways ==
  /\ round = "top"
  /\ round' = "picking"
  /\ UNCHANGED <<life, data>>

NextRound ==
  /\ round = "top"
  /\ round' = IF life = "open" THEN "picking" ELSE "ended"
  /\ UNCHANGED <<life, data>>

Query(picked) ==
  /\ round = "picking"
  /\ mutex = "free"
  /\ round' = "processing"
  /\ infos' = [h \in Hosts |->
                 IF new_tasks[h] > 0 /\ h \in picked
                 THEN [infos[h] EXCEPT !.state = "kInProcessing"] ELSE infos[h]]
  /\ queries' = [h \in Hosts |-> queries[h] + IF h \in picked THEN new_tasks[h] ELSE 0]
  /\ new_tasks' = [h \in Hosts |-> 0]
  /\ mutex' = IF \E h \in Literals : new_tasks[h] > 0 THEN "stuck" ELSE "free"
  /\ UNCHANGED <<life, current, todo, asked, calls, result>>

\* Mutant: the queue is cleared after the first name of each round.
PickUpFirst == \E first \in Hosts : Query({first})

\* One query for every place in the queue, all with the mutex held.
PickUp == Query(Hosts)

\* The select() is over, and ares_process has no more answers.
EndRound ==
  /\ round = "processing"
  /\ mutex \notin {"answer", "stuck"}
  /\ round' = "top"
  /\ UNCHANGED <<life, data>>

\* ares_cb's verdict: ARES_EDESTRUCTION once ares_destroy() calls it.
Verdicts == IF life = "joined" THEN {FALSE} ELSE BOOLEAN

\* Mutant: ares_cb is run for a query that was already answered.
AresCbUnsolicited(h) ==
  /\ round = "processing" \/ life = "joined"
  /\ mutex = "free"
  /\ queries' = [queries EXCEPT ![h] = @ - 1]
  /\ infos' = [infos EXCEPT ![h].state = "kDone"]
  /\ mutex' = "answer"
  /\ current' = h
  /\ todo' = infos[h].cbs
  /\ UNCHANGED <<thread, new_tasks, asked, calls, result>>

\* ares_cb, up to its loop.  It may be the second answer for the record, and
\* tell the opposite of the first.
AresCb(h) ==
  /\ round = "processing" \/ life = "joined"
  /\ mutex = "free"
  /\ queries[h] > 0
  /\ queries' = [queries EXCEPT ![h] = @ - 1]
  /\ \E ok \in Verdicts :
       infos' = [infos EXCEPT ![h].state = "kDone", ![h].ok = ok]
  /\ mutex' = "answer"
  /\ current' = h
  /\ todo' = infos[h].cbs
  /\ UNCHANGED <<thread, new_tasks, asked, calls, result>>

RunCallback(r) ==
  /\ r \in todo
  /\ todo' = todo \ {r}
  /\ calls' = [calls EXCEPT ![r] = @ + 1]
  /\ result' = [result EXCEPT ![r] = IF infos[current].ok THEN "ok" ELSE "error"]
  /\ UNCHANGED <<thread, mutex, infos, new_tasks, queries, current, asked>>

\* Mutant: the callbacks stay registered.
FinishAnswerKeepingCbs ==
  /\ mutex = "answer"
  /\ todo = {}
  /\ mutex' = "free"
  /\ current' = NoHost
  /\ UNCHANGED <<thread, infos, new_tasks, queries, todo, asked, calls, result>>

FinishAnswer ==
  /\ mutex = "answer"
  /\ todo = {}
  /\ infos' = [infos EXCEPT ![current].cbs = {}]
  /\ mutex' = "free"
  /\ current' = NoHost
  /\ UNCHANGED <<thread, new_tasks, queries, todo, asked, calls, result>>

-----------------------------------------------------------------------------
(* ~Ares()                                                                 *)

Stop ==
  /\ life = "open"
  /\ mutex # "caller"
  /\ life' = "stopped"
  /\ UNCHANGED <<round, data>>

Join ==
  /\ life = "stopped"
  /\ round = "ended"
  /\ life' = "joined"
  /\ UNCHANGED <<round, data>>

\* Mutant: the channel is dropped without ares_destroy().
DestroyedEarly ==
  /\ life = "joined"
  /\ mutex = "free"
  /\ life' = "gone"
  /\ UNCHANGED <<round, data>>

\* ares_destroy() returns: it has run ares_cb for every query that was left.
\* Names that were not picked up are forgotten.
Destroyed ==
  /\ life = "joined"
  /\ mutex = "free"
  /\ \A h \in Hosts : queries[h] = 0
  /\ life' = "gone"
  /\ UNCHANGED <<round, data>>

Next ==
  \/ \E r \in Requests, h \in Hosts : Resolve(r, h)
  \/ \E r \in Requests : RunCallback(r)
  \/ \E h \in Hosts : AresCb(h)
  \/ PickUp
  \/ FinishCached
  \/ FinishAnswer
  \/ NextRound
  \/ EndRound
  \/ Stop
  \/ Join
  \/ Destroyed

Spec == Init /\ [][Next]_vars

\* The worker polls; c-ares answers every query in some round, by timeout if
\* not otherwise; a destructor that was entered goes on.  The mutex is not fair,
\* hence the strong fairness.
Fairness ==
  /\ WF_vars(NextRound) /\ SF_vars(PickUp) /\ SF_vars(EndRound)
  /\ \A h \in Hosts : SF_vars(AresCb(h))
  /\ \A r \in Requests : WF_vars(RunCallback(r))
  /\ WF_vars(FinishCached)
  /\ WF_vars(FinishAnswer)
  /\ WF_vars(Join) /\ WF_vars(Destroyed)

FairSpec == Spec /\ Fairness
=============================================================================
