------------------------ MODULE AlternativesProofs --------------------------
(***************************************************************************)
(* Theorems about the two components that no program of the repository is  *)
(* built with: UvEventServer, the server over libuv, for any handles,      *)
(* calls and stop()s; and Ares, the resolver over c-ares, for any          *)
(* requests, names and literals.                                           *)
(***************************************************************************)
EXTENDS UvEventServer, AresState, SequenceTheorems, TLAPS

A == INSTANCE Ares

-----------------------------------------------------------------------------
(* Ares: the inductive invariant, in parts                                 *)

\* The worker has ended once its destructor has joined it, which a stuck one
\* never does, and ares_destroy() leaves no query.
AresTeardown ==
  /\ mutex = "stuck" => round = "processing"
  /\ life \in {"joined", "gone"} => round = "ended"
  /\ life = "gone" => mutex = "free" /\ \A h \in Hosts : queries[h] = 0

\* What the mutex says about the record whose callbacks run under it.
AresLocked ==
  /\ mutex \in {"free", "stuck"} => todo = {} /\ current = NoHost
  /\ mutex \in {"caller", "answer"} =>
       current \in Hosts /\ infos[current].state = "kDone"
  /\ mutex = "answer" => todo \subseteq infos[current].cbs

\* A registered callback asked for its record's name and waits for what the
\* record's state promises: a round, a query, or the answer being given.
AresRegistered ==
  \A h \in Hosts :
    /\ \A r \in infos[h].cbs :
         asked[r] = h /\ (calls[r] = 0 \/ (mutex = "answer" /\ current = h))
    /\ infos[h].state = "kNew" /\ infos[h].cbs # {} => new_tasks[h] > 0
    /\ infos[h].state = "kInProcessing" => queries[h] > 0
    /\ infos[h].state = "kDone" /\ infos[h].cbs # {} => mutex = "answer" /\ current = h

\* Whose callback has run, and where those are whose has not.
AresCounted ==
  /\ \A r \in Requests : calls[r] \in {0, 1}
  /\ \A r \in Requests : asked[r] = NoHost => calls[r] = 0
  /\ \A r \in todo : calls[r] = 0 /\ asked[r] = current
  /\ \A r \in Requests : asked[r] # NoHost /\ calls[r] = 0 =>
       r \in todo \/ (r \in infos[asked[r]].cbs /\ ~ (mutex = "answer" /\ current = asked[r]))

AresIInv == AresTypeOK /\ AresTeardown /\ AresLocked /\ AresRegistered /\ AresCounted

-----------------------------------------------------------------------------
(* Ares: its steps                                                         *)

\* Nothing is asked, queued or queried at first.
LEMMA AresStarts == ASSUME A!Init PROVE AresIInv
  BY AresAssumption DEF A!Init, AresIInv, AresTypeOK, ResolveInfo, AresTeardown, AresLocked,
     AresRegistered, AresCounted

\* resolve() queues the name, joins its query, or serves the record, which has
\* no callbacks then.
LEMMA AresResolveStep ==
  ASSUME AresIInv, NEW r \in Requests, NEW h \in Hosts, A!Resolve(r, h)
  PROVE  AresIInv'
<1> USE AresAssumption DEF AresIInv, AresTypeOK, A!thread
<1>1. /\ life = "open" /\ mutex = "free" /\ asked[r] = NoHost
      /\ calls[r] = 0 /\ todo = {} /\ current = NoHost
      /\ asked' = [asked EXCEPT ![r] = h]
      /\ life' = life /\ round' = round
      /\ queries' = queries /\ calls' = calls /\ result' = result
      /\ \A g \in Hosts : r \notin infos[g].cbs
  BY DEF A!Resolve, AresLocked, AresCounted, AresRegistered
<1> DEFINE Joins ==
      /\ infos' = [infos EXCEPT ![h].cbs = @ \cup {r}]
      /\ mutex' = mutex /\ current' = current /\ todo' = todo
<1>2. ASSUME Joins, infos[h].state # "kDone",
             \A g \in Hosts : new_tasks'[g] \in Nat /\ new_tasks'[g] >= new_tasks[g],
             new_tasks' \in [Hosts -> Nat],
             infos[h].state = "kNew" => new_tasks'[h] > 0
      PROVE  AresIInv'
  <2>1. /\ infos'[h].state = infos[h].state
        /\ infos'[h].cbs = infos[h].cbs \cup {r}
        /\ \A g \in Hosts : g # h => infos'[g] = infos[g]
        /\ infos' \in [Hosts -> ResolveInfo]
    BY <1>2 DEF ResolveInfo
  <2>2. AresTypeOK'
    BY <1>1, <1>2, <2>1
  <2>3. AresTeardown'
    BY <1>1, <1>2 DEF AresTeardown
  <2>4. AresLocked'
    BY <1>1, <1>2 DEF AresLocked
  <2>5. AresRegistered'
    BY <1>1, <1>2, <2>1 DEF AresRegistered, ResolveInfo
  <2>6. AresCounted'
    BY <1>1, <1>2, <2>1 DEF AresCounted
  <2> QED
    BY <2>2, <2>3, <2>4, <2>5, <2>6
<1>3. CASE A!EnqueueNew(r, h)
  <2>1. /\ Joins /\ infos[h].state = "kNew"
        /\ new_tasks' = [new_tasks EXCEPT ![h] = @ + 1]
    BY <1>3 DEF A!EnqueueNew
  <2>2. /\ new_tasks' \in [Hosts -> Nat] /\ new_tasks'[h] > 0
        /\ \A g \in Hosts : new_tasks'[g] >= new_tasks[g]
    BY <2>1
  <2> QED
    BY <1>2, <2>1, <2>2
<1>4. CASE A!JoinQuery(r, h)
  <2>1. Joins /\ infos[h].state = "kInProcessing" /\ new_tasks' = new_tasks
    BY <1>4 DEF A!JoinQuery
  <2>2. \A g \in Hosts : new_tasks'[g] \in Nat /\ new_tasks'[g] >= new_tasks[g]
    BY <2>1
  <2> QED
    BY <1>2, <2>1, <2>2
<1>5. CASE A!AnswerFromRecord(r, h)
  <2>1. /\ infos[h].state = "kDone" /\ mutex' = "caller" /\ current' = h /\ todo' = {r}
        /\ infos' = infos /\ new_tasks' = new_tasks
    BY <1>5 DEF A!AnswerFromRecord
  <2> QED
    BY <1>1, <2>1 DEF AresTeardown, AresLocked, AresRegistered, AresCounted
<1> QED
  BY <1>3, <1>4, <1>5 DEF A!Resolve

\* A callback runs under the mutex.  If the record holds it still, ares_cb is
\* about to drop all its callbacks.
LEMMA AresRunCallbackStep ==
  ASSUME AresIInv, NEW r \in Requests, A!RunCallback(r)
  PROVE  AresIInv'
<1> USE AresAssumption DEF AresIInv, AresTypeOK, A!thread
<1>1. /\ r \in todo /\ calls[r] = 0 /\ asked[r] = current
      /\ mutex \in {"caller", "answer"} /\ current \in Hosts
  BY DEF A!RunCallback, AresCounted, AresLocked
<1>2. /\ todo' = todo \ {r} /\ calls' = [calls EXCEPT ![r] = 1]
      /\ life' = life /\ round' = round /\ mutex' = mutex /\ infos' = infos
      /\ new_tasks' = new_tasks /\ queries' = queries
      /\ current' = current /\ asked' = asked
      /\ result' \in [Requests -> {"none", "ok", "error"}]
  BY <1>1 DEF A!RunCallback
<1>3. AresTypeOK' /\ AresTeardown' /\ AresLocked'
  BY <1>1, <1>2 DEF AresTeardown, AresLocked
<1>4. AresRegistered'
  <2>1. ASSUME NEW h \in Hosts, r \in infos[h].cbs
        PROVE  mutex = "answer" /\ current = h
    <3>1. current = h /\ infos[h].state = "kDone"
      BY <1>1, <2>1 DEF AresRegistered, AresLocked
    <3> QED
      BY <2>1, <3>1 DEF AresRegistered
  <2>2. \A q \in Requests : q # r => calls'[q] = calls[q]
    BY <1>2
  <2>3. ASSUME NEW h \in Hosts, NEW q \in infos[h].cbs
        PROVE  asked[q] = h /\ (calls'[q] = 0 \/ (mutex = "answer" /\ current = h))
    <3>1. q \in Requests
      BY <2>3 DEF ResolveInfo
    <3> QED
      BY <2>1, <2>2, <2>3, <3>1 DEF AresRegistered
  <2> QED
    BY <1>2, <2>3 DEF AresRegistered
<1>5. AresCounted'
  BY <1>1, <1>2 DEF AresCounted
<1> QED
  BY <1>3, <1>4, <1>5

\* do_work() starts a query for each queued name, some for the second time.
LEMMA AresPickUpStep ==
  ASSUME AresIInv, A!PickUp
  PROVE  AresIInv'
<1> USE AresAssumption DEF AresIInv, AresTypeOK
<1>1. /\ round = "picking" /\ mutex = "free" /\ todo = {} /\ current = NoHost
      /\ round' = "processing" /\ mutex' \in {"free", "stuck"}
      /\ life' = life /\ current' = current /\ todo' = todo
      /\ asked' = asked /\ calls' = calls /\ result' = result
      /\ new_tasks' = [h \in Hosts |-> 0]
  BY DEF A!PickUp, A!Query, AresLocked
<1>2. ASSUME NEW h \in Hosts
      PROVE  /\ infos'[h].cbs = infos[h].cbs
             /\ infos'[h] \in ResolveInfo
             /\ queries'[h] \in Nat
             /\ new_tasks[h] > 0 => infos'[h].state = "kInProcessing" /\ queries'[h] > 0
             /\ new_tasks[h] = 0 => infos'[h] = infos[h] /\ queries'[h] = queries[h]
  <2>1. /\ infos'[h] = IF new_tasks[h] > 0
                       THEN [infos[h] EXCEPT !.state = "kInProcessing"] ELSE infos[h]
        /\ queries'[h] = queries[h] + new_tasks[h]
    BY DEF A!PickUp, A!Query
  <2> QED
    BY <2>1 DEF ResolveInfo
<1>3. /\ infos' \in [Hosts -> ResolveInfo] /\ queries' \in [Hosts -> Nat]
      /\ new_tasks' \in [Hosts -> Nat]
  <2>1. infos' = [h \in Hosts |-> infos'[h]] /\ queries' = [h \in Hosts |-> queries'[h]]
    BY DEF A!PickUp, A!Query
  <2> QED
    BY <1>1, <1>2, <2>1
<1>4. AresTypeOK' /\ AresTeardown' /\ AresLocked'
  BY <1>1, <1>3 DEF AresTeardown, AresLocked
<1>5. AresRegistered'
  BY <1>1, <1>2 DEF AresRegistered
<1>6. AresCounted'
  BY <1>1, <1>2 DEF AresCounted
<1> QED
  BY <1>4, <1>5, <1>6

\* Any answer but the first finds the callbacks of a new query or none.
LEMMA AresCbStep ==
  ASSUME AresIInv, NEW h \in Hosts, A!AresCb(h)
  PROVE  AresIInv'
<1> USE AresAssumption DEF AresIInv, AresTypeOK, A!thread
<1>1. /\ round = "processing" \/ life = "joined"
      /\ mutex = "free" /\ todo = {} /\ current = NoHost /\ queries[h] > 0
      /\ mutex' = "answer" /\ current' = h /\ todo' = infos[h].cbs
      /\ queries' = [queries EXCEPT ![h] = @ - 1]
      /\ life' = life /\ round' = round /\ new_tasks' = new_tasks
      /\ asked' = asked /\ calls' = calls /\ result' = result
  BY DEF A!AresCb, AresLocked
<1>2. PICK ok \in BOOLEAN : infos' = [infos EXCEPT ![h].state = "kDone", ![h].ok = ok]
  BY DEF A!AresCb, A!Verdicts
<1>3. /\ infos'[h].state = "kDone" /\ infos'[h].cbs = infos[h].cbs
      /\ \A g \in Hosts : g # h => infos'[g] = infos[g]
      /\ infos' \in [Hosts -> ResolveInfo]
  <2>1. [infos[h] EXCEPT !.state = "kDone", !.ok = ok] \in ResolveInfo
    <3>1. infos[h] \in ResolveInfo /\ ok \in BOOLEAN
      OBVIOUS
    <3> QED
      BY ONLY <3>1 DEF ResolveInfo
  <2>2. infos' = [infos EXCEPT ![h] = [infos[h] EXCEPT !.state = "kDone", !.ok = ok]]
    BY <1>2
  <2> QED
    BY <2>1, <2>2 DEF ResolveInfo
<1>4. queries' \in [Hosts -> Nat] /\ \A g \in Hosts : g # h => queries'[g] = queries[g]
  BY <1>1
<1>5. infos[h].cbs \in SUBSET Requests /\ life # "gone"
  BY <1>1 DEF ResolveInfo, AresTeardown
<1>6. AresTypeOK' /\ AresTeardown' /\ AresLocked'
  BY <1>1, <1>3, <1>4, <1>5 DEF AresTeardown, AresLocked
<1>7. AresRegistered'
  BY <1>1, <1>3, <1>4 DEF AresRegistered
<1>8. AresCounted'
  BY <1>1, <1>3 DEF AresCounted, AresRegistered
<1> QED
  BY <1>6, <1>7, <1>8

\* ares_cb leaves, and the callbacks it has run with it.
LEMMA AresFinishAnswerStep ==
  ASSUME AresIInv, A!FinishAnswer
  PROVE  AresIInv'
<1> USE AresAssumption DEF AresIInv, AresTypeOK, A!thread
<1>0. PICK h \in Hosts : h = current
  BY DEF A!FinishAnswer, AresLocked
<1>1. /\ mutex = "answer" /\ todo = {} /\ infos[h].state = "kDone"
      /\ infos' = [infos EXCEPT ![h].cbs = {}]
      /\ mutex' = "free" /\ current' = NoHost /\ todo' = todo
      /\ life' = life /\ round' = round /\ new_tasks' = new_tasks /\ queries' = queries
      /\ asked' = asked /\ calls' = calls /\ result' = result
  BY <1>0 DEF A!FinishAnswer, AresLocked
<1>2. /\ infos'[h].state = "kDone" /\ infos'[h].cbs = {}
      /\ \A g \in Hosts : g # h => infos'[g] = infos[g]
      /\ infos' \in [Hosts -> ResolveInfo]
  BY <1>1 DEF ResolveInfo
<1>3. AresTypeOK' /\ AresTeardown' /\ AresLocked'
  BY <1>1, <1>2 DEF AresTeardown, AresLocked
<1>4. AresRegistered'
  BY <1>0, <1>1, <1>2 DEF AresRegistered
<1>5. AresCounted'
  BY <1>0, <1>1, <1>2 DEF AresCounted
<1> QED
  BY <1>3, <1>4, <1>5

\* The steps that touch no record: a caller leaves, the worker goes from point
\* to point, the destructor goes on.
LEMMA AresQuietStep ==
  ASSUME AresIInv,
         \/ A!FinishCached \/ A!NextRound \/ A!EndRound
         \/ A!Stop \/ A!Join \/ A!Destroyed \/ UNCHANGED A!vars
  PROVE  AresIInv'
<1> USE AresAssumption DEF AresIInv, AresTypeOK, A!thread, A!data, AresTeardown, AresLocked
<1>1. CASE A!FinishCached
  BY <1>1 DEF A!FinishCached, AresRegistered, AresCounted
<1>2. CASE A!NextRound \/ A!EndRound \/ A!Stop \/ A!Join \/ A!Destroyed \/ UNCHANGED A!vars
  <2>1. /\ mutex' = mutex /\ infos' = infos /\ new_tasks' = new_tasks
        /\ queries' = queries /\ current' = current /\ todo' = todo /\ asked' = asked
        /\ calls' = calls /\ result' = result
    BY <1>2 DEF A!NextRound, A!EndRound, A!Stop, A!Join, A!Destroyed, A!vars
  <2>2. AresRegistered' /\ AresCounted'
    BY <2>1 DEF AresRegistered, AresCounted
  <2>3. /\ life' \in {"open", "stopped", "joined", "gone"}
        /\ round' \in {"top", "picking", "processing", "ended"}
        /\ AresTeardown'
    BY <1>2, <2>1 DEF A!NextRound, A!EndRound, A!Stop, A!Join, A!Destroyed, A!vars
  <2> QED
    BY <2>1, <2>2, <2>3
<1> QED
  BY <1>1, <1>2

\* The invariant holds in every reachable state.
THEOREM AresInvariance == A!Spec => []AresIInv
<1>1. A!Init => AresIInv
  BY AresStarts
<1>2. AresIInv /\ [A!Next]_(A!vars) => AresIInv'
  BY AresResolveStep, AresRunCallbackStep, AresPickUpStep, AresCbStep,
     AresFinishAnswerStep, AresQuietStep DEF A!Next
<1> QED
  BY <1>1, <1>2, PTL DEF A!Spec

-----------------------------------------------------------------------------
(* Ares: what follows                                                      *)

\* Ares' state is well typed: no query is answered more often than it was made.
THEOREM AresTypeCorrect == A!Spec => []AresTypeOK
<1>1. AresIInv => AresTypeOK
  BY DEF AresIInv
<1> QED
  BY <1>1, AresInvariance, PTL

\* A callback that has not run waits where a round of the worker, an answer or
\* ares_destroy() will find it, or would if the worker were not stuck.
THEOREM AresForgetsNobody == A!Spec => []NobodyForgotten
<1>1. AresIInv => NobodyForgotten
  <2> SUFFICES ASSUME AresIInv, NEW r \in Requests, asked[r] # NoHost, calls[r] = 0, r \notin todo
               PROVE  /\ r \in infos[asked[r]].cbs
                      /\ \/ infos[asked[r]].state = "kNew" /\ new_tasks[asked[r]] > 0
                         \/ infos[asked[r]].state = "kInProcessing"
                              /\ queries[asked[r]] > 0 /\ life # "gone"
    BY DEF NobodyForgotten
  <2>1. PICK h \in Hosts : h = asked[r]
    BY DEF AresIInv, AresTypeOK
  <2>2. r \in infos[h].cbs /\ ~ (mutex = "answer" /\ current = h)
    BY <2>1 DEF AresIInv, AresCounted
  <2>3. infos[h].state \in {"kNew", "kInProcessing", "kDone"} /\ queries[h] \in Nat
    BY DEF AresIInv, AresTypeOK, ResolveInfo
  <2> QED
    BY <2>1, <2>2, <2>3 DEF AresIInv, AresRegistered, AresTeardown
<1> QED
  BY <1>1, AresInvariance, PTL

\* Every step of Ares is a step of AnswerOnce or leaves it unchanged: however
\* often a name is queried, a callback runs once, after its request.
THEOREM AresImplementation == A!Spec => RunsCallbacksOnce
<1> DEFINE Waiting == {r \in Requests : asked[r] # NoHost /\ calls[r] = 0}
<1>1. A!Init => Promise!Init
  BY DEF A!Init, Promise!Init
<1>2. AresIInv /\ [A!Next]_(A!vars) => [Promise!Next]_(Promise!vars)
  <2> SUFFICES ASSUME AresIInv, [A!Next]_(A!vars) PROVE [Promise!Next]_(Promise!vars)
    OBVIOUS
  <2> USE AresAssumption DEF AresIInv, AresTypeOK
  <2>1. ASSUME NEW r \in Requests, NEW h \in Hosts, A!Resolve(r, h)
        PROVE  Promise!Ask(r)
    <3>1. /\ asked[r] = NoHost /\ calls[r] = 0
          /\ asked' = [asked EXCEPT ![r] = h] /\ calls' = calls /\ result' = result
      BY <2>1 DEF A!Resolve, AresCounted
    <3>2. Waiting' = Waiting \cup {r}
      BY <3>1
    <3> QED
      BY <3>1, <3>2 DEF Promise!Ask
  <2>2. ASSUME NEW r \in Requests, A!RunCallback(r)
        PROVE  \E verdict \in {"ok", "error"} : Promise!Reply(r, verdict)
    <3>1. r \in todo /\ asked[r] # NoHost /\ calls[r] = 0
      BY <2>2 DEF A!RunCallback, AresCounted, AresLocked
    <3>2. /\ asked' = asked /\ calls' = [calls EXCEPT ![r] = @ + 1]
          /\ result' = [result EXCEPT ![r] = IF infos[current].ok THEN "ok" ELSE "error"]
      BY <2>2 DEF A!RunCallback
    <3>3. Waiting' = Waiting \ {r}
      BY <3>1, <3>2
    <3> QED
      BY <3>1, <3>2, <3>3 DEF Promise!Reply
  <2>3. ASSUME \/ \E h \in Hosts : A!AresCb(h)
               \/ A!PickUp \/ A!FinishCached \/ A!FinishAnswer \/ A!NextRound \/ A!EndRound
               \/ A!Stop \/ A!Join \/ A!Destroyed \/ UNCHANGED A!vars
        PROVE  UNCHANGED Promise!vars
    <3>1. asked' = asked /\ calls' = calls /\ result' = result
      BY <2>3 DEF A!AresCb, A!PickUp, A!Query, A!FinishCached, A!FinishAnswer, A!NextRound,
         A!EndRound, A!Stop, A!Join, A!Destroyed, A!vars, A!data
    <3> QED
      BY <3>1 DEF Promise!vars
  <2> QED
    BY <2>1, <2>2, <2>3 DEF A!Next, Promise!Next
<1> QED
  BY <1>1, <1>2, AresInvariance, PTL DEF A!Spec, RunsCallbacksOnce, Promise!Spec

\* What is queued was asked for, and a stuck worker queried an address.
AresBlame ==
  /\ \A h \in Hosts : new_tasks[h] > 0 => \E r \in Requests : asked[r] = h
  /\ mutex = "stuck" => \E r \in Requests : asked[r] \in Literals

\* The worker gets stuck only if someone asks for a name that c-ares answers at
\* once: without addresses among the names, Ares goes on.
THEOREM AresIsStuckByAddresses ==
  A!Spec => [](mutex = "stuck" => \E r \in Requests : asked[r] \in Literals)
<1>1. A!Init => AresBlame
  BY DEF A!Init, AresBlame
<1>2. AresIInv /\ AresBlame /\ [A!Next]_(A!vars) => AresBlame'
  <2> SUFFICES ASSUME AresIInv, AresBlame, [A!Next]_(A!vars) PROVE AresBlame'
    OBVIOUS
  <2> USE AresAssumption DEF AresIInv, AresTypeOK, AresBlame
  <2>1. ASSUME NEW r \in Requests, NEW h \in Hosts, A!Resolve(r, h) PROVE AresBlame'
    <3>1. /\ asked[r] = NoHost /\ asked' = [asked EXCEPT ![r] = h]
          /\ mutex = "free" /\ mutex' # "stuck"
          /\ \A g \in Hosts : g # h => new_tasks'[g] = new_tasks[g]
      BY <2>1 DEF A!Resolve, A!EnqueueNew, A!JoinQuery, A!AnswerFromRecord
    <3>2. asked'[r] = h /\ \A q \in Requests : asked[q] # NoHost => asked'[q] = asked[q]
      BY <3>1
    <3> QED
      BY <3>1, <3>2
  <2>2. CASE A!PickUp
    <3>1. asked' = asked /\ \A h \in Hosts : new_tasks'[h] = 0
      BY <2>2 DEF A!PickUp, A!Query
    <3>2. mutex' = "stuck" => \E h \in Literals : new_tasks[h] > 0
      BY <2>2 DEF A!PickUp, A!Query
    <3> QED
      BY <3>1, <3>2
  <2>3. ASSUME \/ \E r \in Requests : A!RunCallback(r)
               \/ \E h \in Hosts : A!AresCb(h)
               \/ A!FinishCached \/ A!FinishAnswer \/ A!NextRound \/ A!EndRound
               \/ A!Stop \/ A!Join \/ A!Destroyed \/ UNCHANGED A!vars
        PROVE  AresBlame'
    <3>1. asked' = asked /\ new_tasks' = new_tasks /\ (mutex' = "stuck" => mutex = "stuck")
      BY <2>3 DEF A!RunCallback, A!AresCb, A!FinishCached, A!FinishAnswer, A!NextRound,
         A!EndRound, A!Stop, A!Join, A!Destroyed, A!vars, A!data
    <3> QED
      BY <3>1
  <2> QED
    BY <2>1, <2>2, <2>3 DEF A!Next
<1>3. AresBlame => (mutex = "stuck" => \E r \in Requests : asked[r] \in Literals)
  BY DEF AresBlame
<1> QED
  BY <1>1, <1>2, <1>3, AresInvariance, PTL DEF A!Spec

\* The worker waits for ever: callbacks and the destructor with it.
StillStuck == mutex' = "stuck" /\ calls' = calls /\ life' \in {"open", "stopped"}

\* Nothing frees a worker that waits for a lock it holds itself: no callback is
\* ever run again, nor does the destructor get past its join.
THEOREM AresStaysStuck ==
  A!Spec => [][mutex = "stuck" => StillStuck]_(A!vars)
<1>1. AresIInv /\ [A!Next]_(A!vars) =>
        [mutex = "stuck" => StillStuck]_(A!vars)
  <2> SUFFICES ASSUME AresIInv, A!Next, mutex = "stuck"
               PROVE  StillStuck
    OBVIOUS
  <2>1. todo = {} /\ round = "processing" /\ life \in {"open", "stopped"}
    BY DEF AresIInv, AresTypeOK, AresLocked, AresTeardown
  <2>2. A!Stop
    BY <2>1 DEF A!Next, A!Resolve, A!RunCallback, A!AresCb, A!PickUp, A!Query, A!FinishCached,
       A!FinishAnswer, A!NextRound, A!EndRound, A!Join, A!Destroyed
  <2> QED
    BY <2>2 DEF A!Stop, A!data, StillStuck
<1> QED
  BY <1>1, AresInvariance, PTL DEF A!Spec

-----------------------------------------------------------------------------
(* UvEventServer                                                           *)

\* Until a stop() the server has its async handle, open, every caller has seen
\* it, and the loop therefore does not return.
ServesUntilStopped ==
  ~ stopped =>
    /\ async_handle_ \in open \cap AsyncHandles
    /\ caller # NoCall => seen = async_handle_
    /\ phase \in {"idle", "running"}

\* Callbacks run inside the loop, and only the async callback has stages.
StageIsAsync ==
  /\ stage # "none" => running \in AsyncHandles
  /\ running # NoHandle => phase \in {"running", "broken"}
  /\ stage = "clearing" => stopped

\* What stop() has still to clear from the maps is closed.
WalkClosesAll == stage = "clearing" /\ phase # "broken" => open \cap Handles = {}

\* A batch exists only inside the async callback.
BatchIsRunning == stage = "none" => cbs = <<>>

IInv ==
  /\ TypeOK
  /\ ServesUntilStopped
  /\ StageIsAsync
  /\ BatchIsRunning
  /\ WalkClosesAll
  /\ MapsHoldOpenHandles
  /\ NoLostWakeup
  /\ SafeUntilStopped

USE UvEventServerAssumption
USE DEF handleVars, asyncVars, callbackVars, callerVars, queueVars, Close, TakeBatch,
        CloseAllBut, ReturnLeaving, InControl

\* The server starts with its async handle open and nobody inside a call.
LEMMA InitIInv == ASSUME Init PROVE IInv
<1> PICK h \in AsyncHandles : InitWith(h)
  BY DEF Init
<1>1. open = {h} /\ open \cap Handles = {}
  BY DEF InitWith
<1>2. TypeOK
  <2>1. /\ open \in SUBSET (Handles \cup AsyncHandles)
        /\ started \in SUBSET (open \cap Handles)
        /\ closing \in SUBSET ((Handles \cup AsyncHandles) \ open)
        /\ signalled \in SUBSET (open \cap AsyncHandles)
    BY <1>1 DEF InitWith
  <2>2. async_queue_ \in Seq(Calls) /\ cbs \in Seq(Calls)
    BY DEF InitWith
  <2> QED
    BY <2>1, <2>2 DEF InitWith, TypeOK
<1> QED
  BY <1>1, <1>2 DEF InitWith, IInv, ServesUntilStopped, StageIsAsync, BatchIsRunning, WalkClosesAll,
     MapsHoldOpenHandles, NoLostWakeup, SafeUntilStopped

\* Timers and polls come and go without the async handle.
LEMMA HandleStep ==
  ASSUME IInv, NEW h \in Handles,
         AddHandle(h) \/ StartHandle(h) \/ StopTimer(h) \/ RemoveHandle(h)
  PROVE  IInv'
<1> USE DEF IInv, TypeOK, ServesUntilStopped, StageIsAsync, BatchIsRunning, WalkClosesAll,
            MapsHoldOpenHandles, NoLostWakeup, SafeUntilStopped
<1>1. CASE AddHandle(h)
  BY <1>1 DEF AddHandle
<1>2. CASE StartHandle(h)
  BY <1>2 DEF StartHandle
<1>3. CASE StopTimer(h)
  BY <1>3 DEF StopTimer
<1>4. CASE RemoveHandle(h)
  BY <1>4 DEF RemoveHandle
<1> QED
  BY <1>1, <1>2, <1>3, <1>4

\* A call is queued and the handle signalled in one step.
LEMMA AddAsyncStep ==
  ASSUME IInv, NEW c \in Calls, AddAsync(c) \/ CallerReads(c) PROVE IInv'
<1> USE DEF IInv, TypeOK, ServesUntilStopped, StageIsAsync, BatchIsRunning, WalkClosesAll,
            MapsHoldOpenHandles, NoLostWakeup, SafeUntilStopped
<1>1. CASE AddAsync(c)
  <2>1. CASE async_handle_ = NoHandle
    BY <1>1, <2>1 DEF AddAsync, Send
  <2>2. CASE async_handle_ # NoHandle
    BY <1>1, <2>2 DEF AddAsync, Send
  <2> QED
    BY <2>1, <2>2
<1>2. CASE CallerReads(c)
  BY <1>2 DEF CallerReads
<1> QED
  BY <1>1, <1>2

\* What a caller has seen is the async handle, unless there was a stop().
LEMMA CallerStep == ASSUME IInv, CallerSends PROVE IInv'
<1> USE DEF IInv, TypeOK, ServesUntilStopped, StageIsAsync, BatchIsRunning, WalkClosesAll,
            MapsHoldOpenHandles, NoLostWakeup, SafeUntilStopped
<1>1. CASE seen = NoHandle
  BY <1>1 DEF CallerSends, Send
<1>2. CASE seen # NoHandle
  BY <1>2 DEF CallerSends, Send
<1> QED
  BY <1>1, <1>2

\* The steps of the loop thread, stop() included.
LEMMA LoopStep == ASSUME IInv, LoopNext PROVE IInv'
<1> USE DEF IInv, TypeOK, ServesUntilStopped, StageIsAsync, BatchIsRunning, WalkClosesAll,
            MapsHoldOpenHandles, NoLostWakeup, SafeUntilStopped
<1>1. CASE LoopStart
  BY <1>1 DEF LoopStart
<1>2. ASSUME NEW h \in Handles, Dispatch(h) PROVE IInv'
  BY <1>2 DEF Dispatch
<1>3. ASSUME NEW a \in AsyncHandles, DispatchAsync(a) PROVE IInv'
  BY <1>3 DEF DispatchAsync
<1>4. CASE SwapBatch
  BY <1>4 DEF SwapBatch
<1>5. CASE RunCall
  BY <1>5 DEF RunCall
<1>6. CASE StopWalk
  BY <1>6 DEF StopWalk
<1>7. CASE StopClear
  BY <1>7 DEF StopClear
<1>8. CASE Return
  BY <1>8 DEF Return
<1>9. ASSUME NEW h \in Handles \cup AsyncHandles, CloseCb(h) PROVE IInv'
  BY <1>9 DEF CloseCb
<1>10. CASE LoopReturn
  BY <1>10 DEF LoopReturn
<1>11. CASE Destroy
  BY <1>11 DEF Destroy
<1> QED
  BY <1>1, <1>2, <1>3, <1>4, <1>5, <1>6, <1>7, <1>8, <1>9, <1>10, <1>11 DEF LoopNext

\* Every step of the server or of libuv keeps the invariant.
LEMMA NextIInv == ASSUME IInv, [Next]_vars PROVE IInv'
<1>1. CASE UNCHANGED vars
  BY <1>1 DEF vars, IInv, TypeOK, ServesUntilStopped, StageIsAsync, BatchIsRunning, WalkClosesAll,
              MapsHoldOpenHandles, NoLostWakeup, SafeUntilStopped
<1> QED
  BY <1>1, HandleStep, AddAsyncStep, CallerStep, LoopStep DEF Next

\* The inductive invariant: what a stop() changes, and what holds until then.
THEOREM Invariance == Spec => []IInv
BY InitIInv, NextIInv, PTL DEF Spec

\* Handles that are open, closing and freed are kept apart: no memory is reused
\* before uv_close_cb has freed it.
THEOREM TypeCorrect == Spec => []TypeOK
<1>1. IInv => TypeOK
  BY DEF IInv
<1> QED
  BY <1>1, Invariance, PTL

\* No id or descriptor leads to a closed handle, and no open one is out of reach.
THEOREM MapsAreCurrent == Spec => []MapsHoldOpenHandles
<1>1. IInv => MapsHoldOpenHandles
  BY DEF IInv
<1> QED
  BY <1>1, Invariance, PTL

\* Before a stop() no call waits in the queue without a wake-up.
THEOREM NoWakeupIsLost == Spec => []NoLostWakeup
<1>1. IInv => NoLostWakeup
  BY DEF IInv
<1> QED
  BY <1>1, Invariance, PTL

\* Without a stop() the server keeps to libuv's contract, from any thread.
THEOREM ContractIsKept == Spec => []SafeUntilStopped
<1>1. IInv => SafeUntilStopped
  BY DEF IInv
<1> QED
  BY <1>1, Invariance, PTL

-----------------------------------------------------------------------------
(* UvEventServer implements CallQueue                                      *)

\* A call that is handed over is the last of batch and queue.
LEMMA ConcatAppend ==
  ASSUME NEW s \in Seq(Calls), NEW t \in Seq(Calls), NEW c \in Calls
  PROVE  s \o Append(t, c) = Append(s \o t, c)
<1>1. Append(t, c) = t \o <<c>> /\ Append(s \o t, c) = (s \o t) \o <<c>>
  BY ConcatProperties, AppendIsConcat
<1>2. <<c>> \in Seq(Calls)
  OBVIOUS
<1> QED
  BY <1>1, <1>2, ConcatAssociative

\* The first call of the batch is the first of batch and queue.
LEMMA TailConcat ==
  ASSUME NEW s \in Seq(Calls), NEW t \in Seq(Calls), s # <<>>
  PROVE  Tail(s) \o t = Tail(s \o t) /\ s \o t # <<>>
<1>1. /\ s \o t # <<>> /\ s \o t \in Seq(Calls)
      /\ Len(s) \in Nat /\ Len(t) \in Nat /\ Len(s) > 0
  BY ConcatEqualIffEmpty, ConcatProperties, EmptySeq, LenProperties
<1>2. /\ Tail(s) \in Seq(Calls) /\ Len(Tail(s)) = Len(s) - 1
      /\ Tail(s \o t) \in Seq(Calls) /\ Len(Tail(s \o t)) = Len(s) + Len(t) - 1
      /\ Tail(s) \o t \in Seq(Calls) /\ Len(Tail(s) \o t) = Len(s) - 1 + Len(t)
  BY <1>1, HeadTailProperties, ConcatProperties
<1>3. ASSUME NEW i \in 1 .. Len(s) + Len(t) - 1
      PROVE  (Tail(s) \o t)[i] = Tail(s \o t)[i]
  <2>1. Tail(s \o t)[i] = (s \o t)[i + 1]
    BY <1>1, <1>2, HeadTailProperties
  <2>2. CASE i < Len(s)
    BY <1>1, <1>2, <2>1, <2>2, HeadTailProperties, ConcatProperties
  <2>3. CASE i >= Len(s)
    <3>1. (Tail(s) \o t)[i] = t[i - (Len(s) - 1)]
      BY <1>1, <1>2, <2>3, ConcatProperties
    <3>2. (s \o t)[i + 1] = t[i + 1 - Len(s)]
      BY <1>1, <2>3, ConcatProperties
    <3>3. i - (Len(s) - 1) = i + 1 - Len(s)
      BY <1>1
    <3> QED
      BY <2>1, <3>1, <3>2, <3>3
  <2> QED
    BY <1>1, <2>2, <2>3
<1>4. Tail(s) \o t = Tail(s \o t)
  <2>1. Len(Tail(s) \o t) = Len(Tail(s \o t)) /\ Len(Tail(s) \o t) = Len(s) + Len(t) - 1
    BY <1>1, <1>2
  <2> QED
    BY <1>2, <1>3, <2>1, SeqEqual
<1> QED
  BY <1>1, <1>4

\* Handing over, from a callback, the owner or another thread, is a Post; a
\* client's call and a stop() are run in their turn; the swap moves calls from
\* queue to batch; and a loop that is destroyed has no batch.
THEOREM Implementation == Spec => RunsCallsInOrder
<1>1. Init => Loop!Init
  BY ConcatEmptySeq, EmptySeq DEF Init, InitWith, Loop!Init
<1>2. IInv /\ [Next]_vars => [Loop!Next]_(Loop!vars)
  <2> SUFFICES ASSUME IInv, [Next]_vars PROVE [Loop!Next]_(Loop!vars)
    OBVIOUS
  <2>0. cbs \in Seq(Calls) /\ async_queue_ \in Seq(Calls)
    BY DEF IInv, TypeOK
  <2>1. ASSUME NEW c \in Calls, AddAsync(c) PROVE Loop!Next
    <3>1. /\ async_queue_' = Append(async_queue_, c) /\ cbs' = cbs
          /\ phase # "destroyed" /\ phase' # "destroyed"
      BY <2>1 DEF AddAsync, Send
    <3> QED
      BY <2>0, <3>1, ConcatAppend DEF Loop!Post, Loop!Next
  <2>2. CASE CallerSends
    <3>1. caller \in Calls
      BY <2>2 DEF CallerSends, IInv, TypeOK
    <3>2. /\ async_queue_' = Append(async_queue_, caller) /\ cbs' = cbs
          /\ phase # "destroyed" /\ phase' # "destroyed"
      BY <2>2 DEF CallerSends, Send
    <3> QED
      BY <2>0, <3>1, <3>2, ConcatAppend DEF Loop!Post, Loop!Next
  <2>3. CASE RunCall \/ StopWalk
    <3>1. /\ cbs # <<>> /\ cbs' = Tail(cbs) /\ async_queue_' = async_queue_
          /\ phase # "destroyed" /\ phase' # "destroyed"
      BY <2>3 DEF RunCall, StopWalk
    <3>2. /\ Tail(cbs) \o async_queue_ = Tail(cbs \o async_queue_)
          /\ cbs \o async_queue_ # <<>>
      BY <2>0, <3>1, TailConcat
    <3>3. Loop!RunNext
      BY <3>1, <3>2, Zenon DEF Loop!RunNext
    <3> QED
      BY <3>3 DEF Loop!Next
  <2>4. CASE SwapBatch
    <3>1. /\ cbs = <<>> /\ cbs' = async_queue_ /\ async_queue_' = <<>>
          /\ phase' = phase
      BY <2>4 DEF SwapBatch, IInv, BatchIsRunning
    <3>2. <<>> \o async_queue_ = async_queue_ \o <<>>
      BY <2>0, ConcatEmptySeq
    <3> QED
      BY <3>1, <3>2 DEF Loop!vars
  <2>5. CASE Destroy
    <3>1. cbs = <<>> /\ cbs' = cbs /\ phase # "destroyed"
      BY <2>5 DEF Destroy, IInv, StageIsAsync, BatchIsRunning, TypeOK
    <3>2. CASE open = {}
      <4>1. phase' = "destroyed" /\ cbs' \o async_queue_' = <<>>
        BY <2>5, <3>1, <3>2, ConcatEmptySeq, EmptySeq DEF Destroy
      <4>2. Loop!Close
        BY <3>1, <4>1 DEF Loop!Close
      <4> QED
        BY <4>2 DEF Loop!Next
    <3>3. CASE open # {}
      BY <2>5, <3>1, <3>3 DEF Destroy, Loop!vars
    <3> QED
      BY <3>2, <3>3
  <2>6. ASSUME \/ \E h \in Handles : AddHandle(h) \/ StartHandle(h) \/ StopTimer(h)
                                     \/ RemoveHandle(h) \/ Dispatch(h)
               \/ \E c \in Calls : CallerReads(c)
               \/ \E a \in AsyncHandles : DispatchAsync(a)
               \/ \E h \in Handles \cup AsyncHandles : CloseCb(h)
               \/ LoopStart \/ StopClear \/ Return \/ LoopReturn \/ UNCHANGED vars
        PROVE  UNCHANGED Loop!vars
    <3>1. /\ cbs' = cbs /\ async_queue_' = async_queue_
          /\ (phase' # "destroyed") = (phase # "destroyed")
      BY <2>6 DEF AddHandle, StartHandle, StopTimer, RemoveHandle, Dispatch, CallerReads,
         DispatchAsync, CloseCb, LoopStart, StopClear, Return, LoopReturn, vars
    <3> QED
      BY <3>1 DEF Loop!vars
  <2> QED
    BY <2>1, <2>2, <2>3, <2>4, <2>5, <2>6 DEF Next, LoopNext
<1> QED
  BY <1>1, <1>2, Invariance, PTL DEF Spec, RunsCallsInOrder, Loop!Spec
=============================================================================
