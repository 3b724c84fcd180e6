--------------------------- MODULE ResolverProofs ---------------------------
(***************************************************************************)
(* Proofs about Resolver for every set of requests and names, every set of *)
(* times to live and every bound on the clock.                             *)
(***************************************************************************)
EXTENDS Resolver, TLAPS

(* The inductive invariant, in parts.                                      *)

\* A registered callback asked for the record it is registered with, which is
\* being processed.
Registered ==
  \A h \in Hosts : \A r \in infos[h].cbs :
    asked[r] = h /\ infos[h].state = "kInProcessing"

\* What the mutex says about the record whose callbacks run under it.
Locked ==
  /\ mutex = "free" => todo = {} /\ current = NoHost
  /\ mutex # "free" => current \in Hosts
  /\ mutex = "loop" => infos[current].state = "kInProcessing"
                       /\ todo \subseteq infos[current].cbs
  /\ mutex = "caller" => infos[current].ok /\ infos[current].state = "kDone"

\* Whose callback has run, and whose has yet to.
Counted ==
  /\ \A r \in Requests : calls[r] \in {0, 1}
  /\ \A r \in Requests : asked[r] = NoHost => calls[r] = 0
  /\ \A r \in todo : calls[r] = 0 /\ asked[r] = current
  /\ \A h \in Hosts : ~ Answering(h) => \A r \in infos[h].cbs : calls[r] = 0

\* A record that is to be looked up, or whose lookup failed, is past its time.
Expiring ==
  \A h \in Hosts :
    ~ infos[h].ok \/ (infos[h].state # "kDone" /\ ~ Answering(h))
      => infos[h].expire < now

IInv ==
  /\ TypeOK
  /\ OneQueryPerName
  /\ Registered
  /\ Locked
  /\ Counted
  /\ NobodyForgotten
  /\ Expiring

-----------------------------------------------------------------------------
(* Typing                                                                  *)

\* Every step of the resolver keeps its state well typed.  res_cb takes one
\* query from a count that its guard says is positive.
LEMMA TypeStep == TypeOK /\ [Next]_vars => TypeOK'
<1> SUFFICES ASSUME TypeOK, [Next]_vars PROVE TypeOK'
  OBVIOUS
<1> USE ResolverAssumption DEF TypeOK, ResolveInfo
<1>1. ASSUME NEW r \in Requests, NEW h \in Hosts, Resolve(r, h) PROVE TypeOK'
  <2>1. CASE StartLookup(r, h)
    <3>1. [infos[h] EXCEPT !.state = "kInProcessing", !.cbs = @ \cup {r}]
            \in ResolveInfo
      OBVIOUS
    <3>2. infos' = [infos EXCEPT ![h] =
            [infos[h] EXCEPT !.state = "kInProcessing", !.cbs = @ \cup {r}]]
      BY <2>1 DEF StartLookup
    <3>3. infos' \in [Hosts -> ResolveInfo]
      BY <3>1, <3>2
    <3> QED
      BY <1>1, <2>1, <3>3 DEF Resolve, StartLookup
  <2>2. CASE JoinLookup(r, h)
    BY <1>1, <2>2 DEF Resolve, JoinLookup
  <2>3. CASE AnswerFromCache(r, h)
    BY <1>1, <2>3 DEF Resolve, AnswerFromCache
  <2> QED
    BY <1>1, <2>1, <2>2, <2>3 DEF Resolve
<1>2. ASSUME NEW r \in Requests, RunCallback(r) PROVE TypeOK'
  BY <1>2 DEF RunCallback
<1>3. ASSUME NEW h \in Hosts, Answer(h) PROVE TypeOK'
  <2>1. queries[h] - 1 \in Nat
    BY <1>3 DEF Answer
  <2>2. infos' \in [Hosts -> ResolveInfo]
    <3>1. ASSUME NEW ttl \in Ttls,
                 infos' = [infos EXCEPT ![h].ok = TRUE, ![h].expire = now + ttl]
          PROVE  infos' \in [Hosts -> ResolveInfo]
      <4>1. now + ttl \in Nat
        OBVIOUS
      <4>2. [infos[h] EXCEPT !.ok = TRUE, !.expire = now + ttl] \in ResolveInfo
        BY <4>1
      <4>3. infos' = [infos EXCEPT ![h] =
                       [infos[h] EXCEPT !.ok = TRUE, !.expire = now + ttl]]
        BY <3>1
      <4> QED
        BY <4>2, <4>3
    <3>2. CASE infos' = [infos EXCEPT ![h].ok = FALSE]
      BY <3>2
    <3> QED
      BY <1>3, <3>1, <3>2 DEF Answer
  <2> QED
    BY <1>3, <2>1, <2>2 DEF Answer
<1>4. CASE EvCb
  BY <1>4 DEF EvCb
<1>5. CASE FinishCached
  BY <1>5 DEF FinishCached
<1>6. CASE FinishAnswer
  BY <1>6 DEF FinishAnswer
<1>7. CASE Tick
  BY <1>7 DEF Tick
<1>8. CASE UNCHANGED vars
  BY <1>8 DEF vars
<1> QED
  BY <1>1, <1>2, <1>3, <1>4, <1>5, <1>6, <1>7, <1>8 DEF Next

\* The resolver's state is well typed in every reachable state.
THEOREM TypeCorrect == Spec => []TypeOK
<1>1. Init => TypeOK
  BY ResolverAssumption DEF Init, TypeOK, ResolveInfo
<1> QED
  BY <1>1, TypeStep, PTL DEF Spec

-----------------------------------------------------------------------------
(* The inductive invariant                                                 *)

\* resolve() by a thread that starts a lookup.
LEMMA StartLookupStep ==
  ASSUME IInv, TypeOK', NEW r \in Requests, NEW h \in Hosts,
         Resolve(r, h), StartLookup(r, h)
  PROVE  IInv'
<1> USE ResolverAssumption DEF IInv, TypeOK, ResolveInfo
<1>1. /\ mutex = "free" /\ todo = {} /\ current = NoHost
      /\ asked[r] = NoHost /\ calls[r] = 0
      /\ infos[h].state # "kInProcessing"
      /\ infos[h].state = "kDone" => infos[h].expire < now
  BY DEF Resolve, StartLookup, EffectiveState, Locked, Counted
<1>2. /\ infos'[h].state = "kInProcessing"
      /\ infos'[h].cbs = infos[h].cbs \cup {r}
      /\ infos'[h].expire = infos[h].expire
      /\ infos'[h].ok = infos[h].ok
      /\ \A g \in Hosts : g # h => infos'[g] = infos[g]
  BY DEF StartLookup
<1>3. /\ tasks'[h] = tasks[h] + 1
      /\ \A g \in Hosts : g # h => tasks'[g] = tasks[g]
      /\ asked'[r] = h
      /\ \A q \in Requests : q # r => asked'[q] = asked[q]
      /\ mutex' = mutex /\ current' = current /\ todo' = todo
      /\ queries' = queries /\ now' = now /\ calls' = calls
  BY DEF StartLookup, Resolve
<1>4. infos[h].cbs = {}
  BY <1>1 DEF Registered
<1>5. \A g \in Hosts : ~ Answering(g) /\ ~ Answering(g)'
  BY <1>1, <1>3 DEF Answering
<1>6. OneQueryPerName'
  <2>1. tasks[h] = 0 /\ queries[h] = 0
    BY <1>1, <1>5 DEF OneQueryPerName
  <2>2. tasks'[h] + queries'[h] + (IF Answering(h)' THEN 1 ELSE 0) = 1
    BY <1>3, <1>5, <2>1
  <2>3. ASSUME NEW g \in Hosts, g # h
        PROVE  tasks'[g] + queries'[g] + (IF Answering(g)' THEN 1 ELSE 0)
                 = IF infos'[g].state = "kInProcessing" THEN 1 ELSE 0
    <3>1. /\ tasks'[g] = tasks[g] /\ queries'[g] = queries[g]
          /\ infos'[g] = infos[g]
      BY <1>2, <1>3, <2>3
    <3> QED
      BY <1>5, <3>1 DEF OneQueryPerName
  <2> QED
    BY <1>2, <2>2, <2>3 DEF OneQueryPerName
<1>7. Registered'
  <2>1. \A q \in infos'[h].cbs : asked'[q] = h
    BY <1>2, <1>3, <1>4
  <2>2. \A g \in Hosts : g # h => r \notin infos[g].cbs
    BY <1>1 DEF Registered
  <2> QED
    BY <1>2, <1>3, <2>1, <2>2 DEF Registered
<1>8. Locked'
  BY <1>1, <1>3 DEF Locked
<1>9. Counted'
  <2>1. \A g \in Hosts : \A q \in infos'[g].cbs : calls[q] = 0
    BY <1>1, <1>2, <1>4, <1>5 DEF Counted
  <2> QED
    BY <1>1, <1>3, <2>1 DEF Counted
<1>10. NobodyForgotten'
  BY <1>1, <1>2, <1>3, <1>5 DEF NobodyForgotten
<1>11. Expiring'
  BY <1>1, <1>2, <1>3, <1>5 DEF Expiring
<1> QED
  BY <1>6, <1>7, <1>8, <1>9, <1>10, <1>11

\* resolve() by a thread that joins a lookup under way.
LEMMA JoinLookupStep ==
  ASSUME IInv, TypeOK', NEW r \in Requests, NEW h \in Hosts,
         Resolve(r, h), JoinLookup(r, h)
  PROVE  IInv'
<1> USE ResolverAssumption DEF IInv, TypeOK, ResolveInfo
<1>1. /\ mutex = "free" /\ todo = {} /\ current = NoHost
      /\ asked[r] = NoHost /\ calls[r] = 0
      /\ infos[h].state = "kInProcessing"
  BY DEF Resolve, JoinLookup, EffectiveState, Locked, Counted
<1>2. /\ infos'[h].state = "kInProcessing"
      /\ infos'[h].cbs = infos[h].cbs \cup {r}
      /\ infos'[h].expire = infos[h].expire
      /\ infos'[h].ok = infos[h].ok
      /\ \A g \in Hosts : g # h => infos'[g] = infos[g]
  BY <1>1 DEF JoinLookup
<1>3. /\ asked'[r] = h
      /\ \A q \in Requests : q # r => asked'[q] = asked[q]
      /\ mutex' = mutex /\ current' = current /\ todo' = todo
      /\ queries' = queries /\ now' = now /\ calls' = calls /\ tasks' = tasks
  BY DEF JoinLookup, Resolve
<1>5. \A g \in Hosts : ~ Answering(g) /\ ~ Answering(g)'
  BY <1>1, <1>3 DEF Answering
<1>6. OneQueryPerName'
  BY <1>1, <1>2, <1>3, <1>5 DEF OneQueryPerName
<1>7. Registered'
  <2>1. \A g \in Hosts : r \notin infos[g].cbs
    BY <1>1 DEF Registered
  <2>2. \A q \in infos'[h].cbs : asked'[q] = h
    BY <1>2, <1>3, <2>1 DEF Registered
  <2> QED
    BY <1>2, <1>3, <2>1, <2>2 DEF Registered
<1>8. Locked'
  BY <1>1, <1>3 DEF Locked
<1>9. Counted'
  BY <1>1, <1>2, <1>3, <1>5 DEF Counted
<1>10. NobodyForgotten'
  BY <1>1, <1>2, <1>3, <1>5 DEF NobodyForgotten
<1>11. Expiring'
  BY <1>1, <1>2, <1>3, <1>5 DEF Expiring
<1> QED
  BY <1>6, <1>7, <1>8, <1>9, <1>10, <1>11

\* resolve() by a thread that is answered from the cache.  The record is done
\* and not yet past its time, so its last lookup did not fail.
LEMMA AnswerFromCacheStep ==
  ASSUME IInv, TypeOK', NEW r \in Requests, NEW h \in Hosts,
         Resolve(r, h), AnswerFromCache(r, h)
  PROVE  IInv'
<1> USE ResolverAssumption DEF IInv, TypeOK, ResolveInfo
<1>1. /\ mutex = "free" /\ todo = {} /\ current = NoHost
      /\ asked[r] = NoHost /\ calls[r] = 0
      /\ infos[h].state = "kDone" /\ ~ (infos[h].expire < now)
  BY DEF Resolve, AnswerFromCache, EffectiveState, Locked, Counted
<1>2. infos[h].ok
  BY <1>1 DEF Expiring
<1>3. /\ mutex' = "caller" /\ current' = h /\ todo' = {r}
      /\ infos' = infos /\ tasks' = tasks /\ queries' = queries
      /\ now' = now /\ calls' = calls /\ asked'[r] = h
      /\ \A q \in Requests : q # r => asked'[q] = asked[q]
  BY DEF Resolve, AnswerFromCache
<1>4. \A g \in Hosts : ~ Answering(g) /\ ~ Answering(g)'
  BY <1>1, <1>3 DEF Answering
<1>5. \A g \in Hosts : r \notin infos[g].cbs
  BY <1>1 DEF Registered
<1>6. OneQueryPerName'
  BY <1>3, <1>4 DEF OneQueryPerName
<1>7. Registered'
  BY <1>3, <1>5 DEF Registered
<1>8. Locked'
  BY <1>1, <1>2, <1>3 DEF Locked
<1>9. Counted'
  BY <1>1, <1>3, <1>4 DEF Counted
<1>10. NobodyForgotten'
  BY <1>1, <1>3, <1>4 DEF NobodyForgotten
<1>11. Expiring'
  BY <1>3, <1>4 DEF Expiring
<1> QED
  BY <1>6, <1>7, <1>8, <1>9, <1>10, <1>11

\* A callback runs, on either side.  The record it asked for is the one whose
\* callbacks are being run, so no other record holds it.
LEMMA RunCallbackStep ==
  ASSUME IInv, TypeOK', NEW r \in Requests, RunCallback(r)
  PROVE  IInv'
<1> USE ResolverAssumption DEF IInv, TypeOK, ResolveInfo
<1>1. /\ r \in todo /\ mutex # "free" /\ current \in Hosts
      /\ asked[r] = current /\ calls[r] = 0
  BY DEF RunCallback, Locked, Counted
<1>2. /\ calls'[r] = 1
      /\ \A q \in Requests : q # r => calls'[q] = calls[q]
      /\ todo' = todo \ {r}
      /\ mutex' = mutex /\ infos' = infos /\ tasks' = tasks
      /\ queries' = queries /\ current' = current /\ now' = now /\ asked' = asked
  BY <1>1 DEF RunCallback
<1>3. \A g \in Hosts : Answering(g)' = Answering(g)
  BY <1>2 DEF Answering
<1>4. OneQueryPerName'
  BY <1>2, <1>3 DEF OneQueryPerName
<1>5. Registered'
  BY <1>2 DEF Registered
<1>6. Locked'
  BY <1>2, <1>1 DEF Locked
<1>7. Counted'
  <2>1. ASSUME NEW g \in Hosts, ~ Answering(g) PROVE r \notin infos[g].cbs
    <3>1. SUFFICES ASSUME r \in infos[g].cbs PROVE FALSE
      OBVIOUS
    <3>2. g = current /\ infos[current].state = "kInProcessing"
      BY <1>1, <3>1 DEF Registered
    <3> QED
      BY <1>1, <2>1, <3>2 DEF Locked, Answering
  <2>2. \A g \in Hosts : ~ Answering(g)' => \A q \in infos'[g].cbs : calls'[q] = 0
    BY <1>2, <1>3, <2>1 DEF Counted
  <2>3. \A q \in Requests : calls'[q] \in {0, 1}
    BY <1>2 DEF Counted
  <2> QED
    BY <1>1, <1>2, <2>2, <2>3 DEF Counted
<1>8. NobodyForgotten'
  BY <1>1, <1>2, <1>3 DEF NobodyForgotten
<1>9. Expiring'
  BY <1>2, <1>3 DEF Expiring
<1> QED
  BY <1>4, <1>5, <1>6, <1>7, <1>8, <1>9

\* res_cb takes the record from DNS.  Only a success moves expire.
LEMMA AnswerStep ==
  ASSUME IInv, TypeOK', NEW h \in Hosts, Answer(h)
  PROVE  IInv'
<1> USE ResolverAssumption DEF IInv, TypeOK, ResolveInfo
<1>1. /\ mutex = "free" /\ todo = {} /\ current = NoHost /\ queries[h] > 0
      /\ \A g \in Hosts : ~ Answering(g)
  BY DEF Answer, Locked, Answering
<1>2. infos[h].state = "kInProcessing" /\ tasks[h] = 0 /\ queries[h] = 1
  <2>1. tasks[h] \in Nat /\ queries[h] \in Nat
    OBVIOUS
  <2>2. tasks[h] + queries[h] + 0
          = IF infos[h].state = "kInProcessing" THEN 1 ELSE 0
    BY <1>1 DEF OneQueryPerName
  <2>3. infos[h].state = "kInProcessing"
    <3>1. SUFFICES ASSUME infos[h].state # "kInProcessing" PROVE FALSE
      OBVIOUS
    <3>2. tasks[h] + queries[h] + 0 = 0
      BY <2>2, <3>1
    <3> QED
      BY ONLY <1>1, <2>1, <3>2
  <2>4. tasks[h] + queries[h] + 0 = 1
    BY <2>2, <2>3
  <2>5. tasks[h] = 0 /\ queries[h] = 1
    BY ONLY <1>1, <2>1, <2>4
  <2> QED
    BY <2>3, <2>5
<1>3. infos[h].expire < now
  BY <1>1, <1>2 DEF Expiring
<1> DEFINE Settled ==
      /\ infos'[h].state = infos[h].state /\ infos'[h].cbs = infos[h].cbs
      /\ ~ infos'[h].ok => infos'[h].expire = infos[h].expire
      /\ \A g \in Hosts : g # h => infos'[g] = infos[g]
<1>4. Settled
  <2>1. ASSUME NEW ttl \in Ttls,
               infos' = [infos EXCEPT ![h].ok = TRUE, ![h].expire = now + ttl]
        PROVE  Settled
    BY <2>1
  <2>2. ASSUME infos' = [infos EXCEPT ![h].ok = FALSE]
        PROVE  Settled
    BY <2>2
  <2> QED
    BY <2>1, <2>2 DEF Answer
<1>5. /\ mutex' = "loop" /\ current' = h /\ todo' = infos[h].cbs
      /\ queries'[h] = 0 /\ \A g \in Hosts : g # h => queries'[g] = queries[g]
      /\ tasks' = tasks /\ now' = now /\ asked' = asked /\ calls' = calls
  BY <1>2 DEF Answer
<1>6. Answering(h)' /\ \A g \in Hosts : g # h => ~ Answering(g)'
  BY <1>5 DEF Answering
<1>7. OneQueryPerName'
  <2>1. tasks'[h] + queries'[h] + (IF Answering(h)' THEN 1 ELSE 0) = 1
    BY <1>2, <1>5, <1>6
  <2>2. ASSUME NEW g \in Hosts, g # h
        PROVE  tasks'[g] + queries'[g] + (IF Answering(g)' THEN 1 ELSE 0)
                 = IF infos'[g].state = "kInProcessing" THEN 1 ELSE 0
    <3>1. queries'[g] = queries[g] /\ infos'[g] = infos[g] /\ tasks'[g] = tasks[g]
      BY <1>4, <1>5, <2>2
    <3> QED
      BY <1>1, <1>6, <2>2, <3>1 DEF OneQueryPerName
  <2> QED
    BY <1>2, <1>4, <2>1, <2>2 DEF OneQueryPerName
<1>8. Registered'
  BY <1>2, <1>4, <1>5 DEF Registered
<1>9. Locked'
  BY <1>2, <1>4, <1>5 DEF Locked
<1>10. Counted'
  <2>1. \A r \in infos[h].cbs : calls[r] = 0 /\ asked[r] = h
    BY <1>1 DEF Counted, Registered
  <2>2. \A g \in Hosts : ~ Answering(g)' => \A r \in infos'[g].cbs : calls'[r] = 0
    BY <1>1, <1>4, <1>5, <1>6 DEF Counted
  <2> QED
    BY <1>5, <2>1, <2>2 DEF Counted
<1>11. NobodyForgotten'
  BY <1>1, <1>4, <1>5, <1>6 DEF NobodyForgotten
<1>12. Expiring'
  BY <1>1, <1>3, <1>4, <1>5, <1>6 DEF Expiring
<1> QED
  BY <1>7, <1>8, <1>9, <1>10, <1>11, <1>12

\* res_cb has run all callbacks and leaves.
LEMMA FinishAnswerStep ==
  ASSUME IInv, TypeOK', FinishAnswer
  PROVE  IInv'
<1> USE ResolverAssumption DEF IInv, TypeOK, ResolveInfo
<1>0. PICK h \in Hosts : h = current
  BY DEF FinishAnswer, Locked
<1>1. /\ mutex = "loop" /\ todo = {}
      /\ infos[h].state = "kInProcessing"
      /\ Answering(h) /\ \A g \in Hosts : g # h => ~ Answering(g)
  BY <1>0 DEF FinishAnswer, Locked, Answering
<1>2. tasks[h] = 0 /\ queries[h] = 0
  <2>1. tasks[h] \in Nat /\ queries[h] \in Nat
    BY <1>1
  <2>2. tasks[h] + queries[h] + 1 = 1
    BY <1>1 DEF OneQueryPerName
  <2> QED
    BY ONLY <2>1, <2>2
<1>3. /\ infos'[h].state = "kDone" /\ infos'[h].cbs = {}
      /\ infos'[h].expire = infos[h].expire
      /\ infos'[h].ok = infos[h].ok
      /\ \A g \in Hosts : g # h => infos'[g] = infos[g]
  BY <1>0, <1>1 DEF FinishAnswer
<1>4. /\ mutex' = "free" /\ current' = NoHost /\ todo' = {}
      /\ tasks' = tasks /\ queries' = queries
      /\ now' = now /\ asked' = asked /\ calls' = calls
  BY <1>0, <1>1 DEF FinishAnswer
<1>5. \A g \in Hosts : ~ Answering(g)'
  BY <1>4 DEF Answering
<1>6. OneQueryPerName'
  <2>1. /\ tasks'[h] = 0 /\ queries'[h] = 0
        /\ ~ Answering(h)'
        /\ infos'[h].state # "kInProcessing"
    BY <1>1, <1>2, <1>3, <1>4, <1>5
  <2>2. ASSUME NEW g \in Hosts, g # h
        PROVE  tasks'[g] + queries'[g] + (IF Answering(g)' THEN 1 ELSE 0)
                 = IF infos'[g].state = "kInProcessing" THEN 1 ELSE 0
    <3>1. queries'[g] = queries[g] /\ infos'[g] = infos[g] /\ tasks'[g] = tasks[g]
      BY <1>3, <1>4, <2>2
    <3> QED
      BY <1>1, <1>5, <2>2, <3>1 DEF OneQueryPerName
  <2>3. tasks'[h] + queries'[h]
          + (IF Answering(h)' THEN 1 ELSE 0)
          = IF infos'[h].state = "kInProcessing" THEN 1 ELSE 0
    BY <2>1
  <2> QED
    BY <2>2, <2>3 DEF OneQueryPerName
<1>7. Registered'
  BY <1>1, <1>3, <1>4 DEF Registered
<1>8. Locked'
  BY <1>4 DEF Locked
<1>9. Counted'
  BY <1>1, <1>3, <1>4 DEF Counted
<1>10. NobodyForgotten'
  BY <1>1, <1>3, <1>4, <1>5 DEF NobodyForgotten
<1>11. Expiring'
  BY <1>1, <1>3, <1>4, <1>5 DEF Expiring
<1> QED
  BY <1>6, <1>7, <1>8, <1>9, <1>10, <1>11

\* The steps that touch no record: a caller leaves, queries are sent, time
\* passes, nothing happens.
LEMMA QuietStep ==
  ASSUME IInv, TypeOK', FinishCached \/ EvCb \/ Tick \/ UNCHANGED vars
  PROVE  IInv'
<1> USE ResolverAssumption DEF IInv, TypeOK, ResolveInfo
<1>1. CASE FinishCached
  <2>1. \A g \in Hosts : ~ Answering(g) /\ ~ Answering(g)'
    BY <1>1 DEF FinishCached, Answering
  <2> QED
    BY <1>1, <2>1 DEF FinishCached, OneQueryPerName, Registered, Locked, Counted,
       NobodyForgotten, Expiring
<1>2. CASE EvCb
  <2>1. \A g \in Hosts : ~ Answering(g) /\ ~ Answering(g)'
    BY <1>2 DEF EvCb, Answering
  <2>2. \A g \in Hosts : tasks'[g] + queries'[g] = tasks[g] + queries[g]
    BY <1>2 DEF EvCb
  <2>3. OneQueryPerName'
    BY <1>2, <2>1, <2>2 DEF EvCb, OneQueryPerName
  <2> QED
    BY <1>2, <2>1, <2>3 DEF EvCb, Registered, Locked, Counted, NobodyForgotten, Expiring
<1>3. CASE Tick
  <2>1. \A g \in Hosts : Answering(g)' = Answering(g)
    BY <1>3 DEF Tick, Answering
  <2>2. Expiring'
    BY <1>3, <2>1 DEF Tick, Expiring
  <2> QED
    BY <1>3, <2>1, <2>2 DEF Tick, OneQueryPerName, Registered, Locked, Counted, NobodyForgotten
<1>4. CASE UNCHANGED vars
  <2>1. \A g \in Hosts : Answering(g)' = Answering(g)
    BY <1>4 DEF vars, Answering
  <2> QED
    BY <1>4, <2>1 DEF vars, OneQueryPerName, Registered, Locked, Counted,
       NobodyForgotten, Expiring
<1> QED
  BY <1>1, <1>2, <1>3, <1>4

\* The resolver starts in the invariant.
LEMMA InitIInv == Init => IInv
<1>1. ASSUME Init PROVE TypeOK
  BY <1>1, ResolverAssumption DEF Init, TypeOK, ResolveInfo
<1> QED
  BY <1>1, ResolverAssumption DEF Init, IInv, OneQueryPerName, Registered, Locked,
     Counted, NobodyForgotten, Expiring, Answering

\* Every step of the resolver keeps the invariant.
LEMMA NextIInv == IInv /\ [Next]_vars => IInv'
<1>1. SUFFICES ASSUME IInv, [Next]_vars PROVE IInv'
  OBVIOUS
<1>2. TypeOK'
  BY <1>1, TypeStep DEF IInv
<1>3. ASSUME NEW r \in Requests, NEW h \in Hosts, Resolve(r, h) PROVE IInv'
  BY <1>1, <1>2, <1>3, StartLookupStep, JoinLookupStep, AnswerFromCacheStep DEF Resolve
<1>4. ASSUME NEW r \in Requests, RunCallback(r) PROVE IInv'
  BY <1>1, <1>2, <1>4, RunCallbackStep
<1>5. ASSUME NEW h \in Hosts, Answer(h) PROVE IInv'
  BY <1>1, <1>2, <1>5, AnswerStep
<1>6. CASE FinishAnswer
  BY <1>1, <1>2, <1>6, FinishAnswerStep
<1>7. CASE FinishCached \/ EvCb \/ Tick \/ UNCHANGED vars
  BY <1>1, <1>2, <1>7, QuietStep
<1> QED
  BY <1>1, <1>3, <1>4, <1>5, <1>6, <1>7 DEF Next

\* The invariant holds in every reachable state.
THEOREM Invariance == Spec => []IInv
<1> QED
  BY InitIInv, NextIInv, PTL DEF Spec

-----------------------------------------------------------------------------
(* What follows                                                            *)

\* However many threads ask for a name, it has one query, task or answer at a
\* time, and none once it is done.
THEOREM QueriesAreCoalesced == Spec => []OneQueryPerName
<1>1. IInv => OneQueryPerName
  BY DEF IInv
<1> QED
  BY <1>1, Invariance, PTL

\* resolve() never answers "error" on the spot: failures are not cached.
THEOREM FailuresAreNotCached == Spec => []CacheServesOnlySuccess
<1>1. IInv => CacheServesOnlySuccess
  BY DEF IInv, Locked, CacheServesOnlySuccess
<1> QED
  BY <1>1, Invariance, PTL

\* Every callback that has not run is where res_cb or resolve() will find it.
THEOREM NobodyIsForgotten == Spec => []NobodyForgotten
<1>1. IInv => NobodyForgotten
  BY DEF IInv
<1> QED
  BY <1>1, Invariance, PTL

\* Every step of the resolver is a step of AnswerOnce or leaves it unchanged:
\* a callback runs once, after its request, with the verdict of its record.
THEOREM Implementation == Spec => RunsCallbacksOnce
<1> DEFINE Waiting == {r \in Requests : asked[r] # NoHost /\ calls[r] = 0}
<1>1. Init => Promise!Init
  BY DEF Init, Promise!Init
<1>2. IInv /\ [Next]_vars => [Promise!Next]_(Promise!vars)
  <2> SUFFICES ASSUME IInv, [Next]_vars PROVE [Promise!Next]_(Promise!vars)
    OBVIOUS
  <2> USE ResolverAssumption DEF IInv, TypeOK
  <2>1. ASSUME NEW r \in Requests, NEW h \in Hosts, Resolve(r, h)
        PROVE  Promise!Ask(r)
    <3>1. asked[r] = NoHost /\ calls[r] = 0
      BY <2>1 DEF Resolve, Counted
    <3>2. /\ asked'[r] = h /\ calls' = calls /\ result' = result
          /\ \A q \in Requests : q # r => asked'[q] = asked[q]
      BY <2>1 DEF Resolve
    <3>3. Waiting' = Waiting \cup {r}
      BY <3>1, <3>2
    <3> QED
      BY <3>1, <3>2, <3>3 DEF Promise!Ask
  <2>2. ASSUME NEW r \in Requests, RunCallback(r)
        PROVE  \E verdict \in {"ok", "error"} : Promise!Reply(r, verdict)
    <3>1. r \in todo /\ asked[r] # NoHost /\ calls[r] = 0
      BY <2>2 DEF RunCallback, Counted, Locked
    <3>2. /\ asked' = asked /\ calls' = [calls EXCEPT ![r] = @ + 1]
          /\ result' = [result EXCEPT ![r] = IF infos[current].ok THEN "ok" ELSE "error"]
      BY <2>2 DEF RunCallback
    <3>3. Waiting' = Waiting \ {r}
      BY <3>1, <3>2
    <3> QED
      BY <3>1, <3>2, <3>3 DEF Promise!Reply
  <2>3. ASSUME \/ \E h \in Hosts : Answer(h)
               \/ EvCb \/ FinishCached \/ FinishAnswer \/ Tick \/ UNCHANGED vars
        PROVE  UNCHANGED Promise!vars
    <3>1. asked' = asked /\ calls' = calls /\ result' = result
      BY <2>3 DEF Answer, EvCb, FinishCached, FinishAnswer, Tick, vars
    <3> QED
      BY <3>1 DEF Promise!vars
  <2> QED
    BY <2>1, <2>2, <2>3 DEF Next, Promise!Next
<1> QED
  BY <1>1, <1>2, Invariance, PTL DEF Spec, RunsCallbacksOnce, Promise!Spec
=============================================================================
