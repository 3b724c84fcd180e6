--------------------------- MODULE FetcherProofs ----------------------------
(***************************************************************************)
(* Proofs about Fetcher for every set of tasks and names, every limit on   *)
(* tasks, every set of times to live and every bound on the clock.         *)
(*                                                                         *)
(* What the resolver does inside the Fetcher is a behaviour of Resolver,   *)
(* so that Resolver's inductive invariant is taken over from its proofs.   *)
(***************************************************************************)
EXTENDS Fetcher, SequenceTheorems, FiniteSetTheorems, TLAPS

RP == INSTANCE ResolverProofs WITH Requests <- Tasks, tasks <- lookups

-----------------------------------------------------------------------------
(* The inductive invariant, in parts                                       *)

Among(x, q) == \E i \in 1 .. Len(q) : q[i] = x

\* The loop's queue holds a call once.
Distinct(q) == \A i, j \in 1 .. Len(q) : q[i] = q[j] => i = j

\* What the HTTP thread holds at each point of its program.
HttpThread ==
  /\ httpPc = "building" => (unbuilt \cup ctxs) \cap (accepted \cup refused) = {}
  /\ httpPc = "adding" => unbuilt = {} /\ ctxs \subseteq accepted
  /\ httpPc \notin {"building", "adding"} => unbuilt = {} /\ ctxs = {}
  /\ httpPc # "replying" => resp = {}
  /\ httpPc = "waiting" <=> Queued(Drain)
  /\ accepted \cap refused = {}

\* The tasks that were given to the resolver.
Started == \A t \in Tasks : asked[t] # NoHost <=> t \in accepted \ ctxs

\* t is in the p-th of the six places, and in no other; in none if p = 0.
At(t, p) ==
  /\ p = 1 <=> asked[t] # NoHost /\ calls[t] = 0
  /\ p = 2 <=> Queued(t)
  /\ p = 3 <=> t \in tasks_
  /\ p = 4 <=> t \in resp
  /\ p = 5 <=> reports[t] = 1
  /\ p = 6 <=> result[t] = "error"

\* OnePlace for one task, as a number.
IsPlaced(t) ==
  IF asked[t] = NoHost THEN At(t, 0) ELSE \E p \in 1 .. 6 : At(t, p)

\* In which places a task is done, and what its history says.
IsFinished(t) ==
  /\ reports[t] \in {0, 1}
  /\ t \in done => \E p \in 3 .. 6 : At(t, p)
  /\ \A p \in 4 .. 6 : At(t, p) => t \in done
  /\ calls[t] = 0 => result[t] = "none"

\* TypeOK without the resolver's part, which is in RP!IInv.
OwnTypeOK ==
  /\ Loop!TypeOK
  /\ httpPc \in {"idle", "building", "adding", "waiting", "replying"}
  /\ \A s \in {unbuilt, ctxs, resp, tasks_, multi, done, accepted, refused} :
       s \in SUBSET Tasks
  /\ reports \in [Tasks -> Nat]

IInv ==
  /\ OwnTypeOK
  /\ RP!IInv
  /\ Distinct(loopQueue)
  /\ HttpThread
  /\ Started
  /\ \A t \in Tasks : IsPlaced(t) /\ IsFinished(t)
  /\ BusyTasksAreInCurl

-----------------------------------------------------------------------------
(* The loop's queue                                                        *)

\* A call that is posted is among those queued, behind the others.
LEMMA PostedCall ==
  ASSUME NEW S, NEW q \in Seq(S), NEW e \in S
  PROVE  /\ Append(q, e) \in Seq(S)
         /\ \A x : Among(x, Append(q, e)) <=> x = e \/ Among(x, q)
         /\ Distinct(q) /\ ~ Among(e, q) => Distinct(Append(q, e))
<1>1. /\ Append(q, e) \in Seq(S) /\ Len(q) \in Nat
      /\ Len(Append(q, e)) = Len(q) + 1
      /\ \A i \in 1 .. Len(q) : Append(q, e)[i] = q[i]
      /\ Append(q, e)[Len(q) + 1] = e
  BY AppendProperties, LenProperties
<1>2. 1 .. Len(q) + 1 = (1 .. Len(q)) \cup {Len(q) + 1}
  BY <1>1
<1> QED
  BY <1>1, <1>2 DEF Among, Distinct

\* The loop takes the first call: the others stay queued.
LEMMA TakenCall ==
  ASSUME NEW S, NEW q \in Seq(S), q # <<>>, Distinct(q)
  PROVE  /\ Tail(q) \in Seq(S)
         /\ Among(Head(q), q)
         /\ \A x : Among(x, Tail(q)) <=> x # Head(q) /\ Among(x, q)
         /\ Distinct(Tail(q))
<1>1. /\ Tail(q) \in Seq(S) /\ Len(q) \in Nat /\ Len(q) > 0
      /\ Len(Tail(q)) = Len(q) - 1 /\ Head(q) = q[1]
      /\ \A i \in 1 .. Len(Tail(q)) : Tail(q)[i] = q[i + 1]
  BY HeadTailProperties, LenProperties, EmptySeq
<1>2. ASSUME NEW x, Among(x, Tail(q)) PROVE x # Head(q) /\ Among(x, q)
  <2>1. PICK i \in 1 .. Len(q) - 1 : q[i + 1] = x
    BY <1>1, <1>2 DEF Among
  <2>2. i + 1 \in 1 .. Len(q) /\ 1 \in 1 .. Len(q) /\ i + 1 # 1
    BY <1>1
  <2> QED
    BY <1>1, <2>1, <2>2 DEF Among, Distinct
<1>3. ASSUME NEW x, x # Head(q), Among(x, q) PROVE Among(x, Tail(q))
  <2>1. PICK i \in 1 .. Len(q) : q[i] = x
    BY <1>3 DEF Among
  <2>2. i - 1 \in 1 .. Len(Tail(q)) /\ (i - 1) + 1 = i
    BY <1>1, <1>3, <2>1
  <2> QED
    BY <1>1, <2>1, <2>2 DEF Among
<1>4. Distinct(Tail(q))
  <2> SUFFICES ASSUME NEW i \in 1 .. Len(q) - 1, NEW j \in 1 .. Len(q) - 1,
                      q[i + 1] = q[j + 1]
               PROVE  i = j
    BY <1>1 DEF Distinct
  <2>1. i + 1 \in 1 .. Len(q) /\ j + 1 \in 1 .. Len(q)
    BY <1>1
  <2>2. i + 1 = j + 1
    BY <2>1 DEF Distinct
  <2> QED
    BY <1>1, <2>2
<1>5. Among(Head(q), q)
  BY <1>1 DEF Among
<1> QED
  BY <1>1, <1>2, <1>3, <1>4, <1>5

-----------------------------------------------------------------------------
(* The resolver within                                                     *)

\* What a step does to the resolver's variables: one step of the resolver.
LEMMA ResolverSteps == [Next]_vars => [RP!Next]_(RP!vars)
<1> SUFFICES ASSUME [Next]_vars PROVE [RP!Next]_(RP!vars)
  OBVIOUS
<1>1. ASSUME UNCHANGED resolverVars PROVE UNCHANGED RP!vars
  BY <1>1 DEF resolverVars, RP!vars
<1>2. ASSUME NEW t \in Tasks, AddTask(t) PROVE RP!Next
  BY <1>2 DEF AddTask, RP!Next, R!Resolve, RP!Resolve, R!StartLookup, RP!StartLookup,
     R!JoinLookup, RP!JoinLookup, R!AnswerFromCache, RP!AnswerFromCache,
     R!EffectiveState, RP!EffectiveState
<1>3. ASSUME NEW t \in Tasks, ResolverCb(t) PROVE RP!Next
  BY <1>3 DEF ResolverCb, RP!Next, R!RunCallback, RP!RunCallback
<1>4. ASSUME NEW h \in Hosts, Answer(h) PROVE RP!Next
  BY <1>4 DEF Answer, ResolverStep, RP!Next, R!Answer, RP!Answer
<1>5. CASE EvCb
  BY <1>5 DEF EvCb, ResolverStep, RP!Next, R!EvCb, RP!EvCb
<1>6. CASE FinishAnswer
  BY <1>6 DEF FinishAnswer, ResolverStep, RP!Next, R!FinishAnswer, RP!FinishAnswer
<1>7. CASE FinishCached
  BY <1>7 DEF FinishCached, ResolverStep, RP!Next, R!FinishCached, RP!FinishCached
<1>8. CASE Tick
  BY <1>8 DEF Tick, ResolverStep, RP!Next, R!Tick, RP!Tick
<1>9. ASSUME \/ \E B \in SUBSET Tasks : FetchRequest(B)
             \/ \E t \in Tasks : BuildTask(t) \/ StartTask(t) \/ TransferDone(t)
             \/ BuildFails \/ FetchReply \/ ResultRequest \/ ResultReply \/ RunDrain
             \/ UNCHANGED vars
      PROVE  UNCHANGED resolverVars
  BY <1>9 DEF FetchRequest, BuildTask, StartTask, TransferDone, BuildFails, FetchReply,
     ResultRequest, ResultReply, RunDrain, vars
<1> QED
  BY <1>1, <1>2, <1>3, <1>4, <1>5, <1>6, <1>7, <1>8, <1>9
     DEF Next, HttpNext, ResolverNext, LoopNext

\* The Fetcher uses the resolver as Resolver describes it: whatever the HTTP
\* and the loop thread do, its variables take a step of Resolver or none.
THEOREM UsesResolver == Spec => R!Spec
<1>1. Init => R!Init
  BY DEF Init
<1>2. [RP!Next]_(RP!vars) => [R!Next]_(R!vars)
  BY DEF RP!vars, R!vars, RP!Next, R!Next, R!Resolve, RP!Resolve, R!StartLookup,
     RP!StartLookup, R!JoinLookup, RP!JoinLookup, R!AnswerFromCache, RP!AnswerFromCache,
     R!EffectiveState, RP!EffectiveState, R!RunCallback, RP!RunCallback, R!Answer,
     RP!Answer, R!EvCb, RP!EvCb, R!FinishAnswer, RP!FinishAnswer, R!FinishCached,
     RP!FinishCached, R!Tick, RP!Tick
<1> QED
  BY <1>1, <1>2, ResolverSteps, PTL DEF Spec, R!Spec

\* Together with the Fetcher's step, the resolver's invariant is kept.
LEMMA ResolverIInv == RP!IInv /\ [Next]_vars => RP!IInv'
  BY ResolverSteps, RP!NextIInv, FetcherAssumption

\* The state is well typed: the two parts together.
LEMMA Typed == IInv => TypeOK
  BY DEF IInv, RP!IInv, RP!TypeOK, R!TypeOK, RP!ResolveInfo, R!ResolveInfo, TypeOK, OwnTypeOK

-----------------------------------------------------------------------------
(* The steps that move no task                                             *)

\* Nothing that says where t is has changed.
Stays(t) ==
  /\ asked'[t] = asked[t] /\ calls'[t] = calls[t] /\ result'[t] = result[t]
  /\ Queued(t)' <=> Queued(t)
  /\ t \in tasks_' <=> t \in tasks_
  /\ t \in resp' <=> t \in resp
  /\ t \in done' <=> t \in done
  /\ reports'[t] = reports[t]

\* A task about which nothing changed is where it was.
LEMMA Unmoved ==
  ASSUME NEW t \in Tasks, IsPlaced(t), IsFinished(t), Stays(t)
  PROVE  IsPlaced(t)' /\ IsFinished(t)'
<1>1. \A p : At(t, p)' <=> At(t, p)
  BY DEF Stays, At
<1> QED
  BY <1>1 DEF IsPlaced, IsFinished, Stays

\* What the HTTP thread does alone touches neither places nor the queue.
LEMMA HttpAlone ==
  ASSUME IInv, OwnTypeOK', RP!IInv', HttpThread', Started',
         UNCHANGED <<resolverVars, loopVars, resp, reports>>
  PROVE  IInv'
<1>1. \A t \in Tasks : Stays(t)
  BY DEF Stays, resolverVars, loopVars, Queued
<1>2. \A t \in Tasks : IsPlaced(t)' /\ IsFinished(t)'
  BY <1>1, Unmoved DEF IInv
<1>3. BusyTasksAreInCurl' /\ Distinct(loopQueue)'
  BY DEF IInv, BusyTasksAreInCurl, loopVars
<1> QED
  BY <1>2, <1>3 DEF IInv

\* Queued is a matter of the loop's queue only.
LEMMA QueueKept == ASSUME loopQueue' = loopQueue, NEW c PROVE Queued(c)' <=> Queued(c)
  BY DEF Queued

\* /fetch is refused for its size, or its members are to be parsed.
LEMMA FetchRequestStep ==
  ASSUME IInv, RP!IInv', NEW B \in SUBSET Tasks, FetchRequest(B)
  PROVE  IInv'
<1>1. OwnTypeOK'
  BY DEF IInv, OwnTypeOK, Loop!TypeOK, FetchRequest, loopVars
<1>2. Queued(Drain)' <=> Queued(Drain)
  BY QueueKept DEF FetchRequest, loopVars
<1>3. HttpThread'
  BY <1>2 DEF IInv, HttpThread, FetchRequest
<1>4. Started'
  BY DEF IInv, Started, FetchRequest, resolverVars
<1> QED
  BY <1>1, <1>3, <1>4, HttpAlone DEF FetchRequest

\* A member is parsed, perhaps the last: then the request is taken.
LEMMA BuildTaskStep ==
  ASSUME IInv, RP!IInv', NEW t \in Tasks, BuildTask(t)
  PROVE  IInv'
<1>1. OwnTypeOK'
  BY DEF IInv, OwnTypeOK, Loop!TypeOK, BuildTask, loopVars
<1>2. Queued(Drain)' <=> Queued(Drain)
  BY QueueKept DEF BuildTask, loopVars
<1>3. HttpThread'
  BY <1>2 DEF IInv, HttpThread, BuildTask
<1>4. Started'
  BY DEF IInv, Started, BuildTask, resolverVars, HttpThread
<1> QED
  BY <1>1, <1>3, <1>4, HttpAlone DEF BuildTask

\* A member is malformed, or every task of the request has been added.
LEMMA FetchEndsStep ==
  ASSUME IInv, RP!IInv', BuildFails \/ FetchReply
  PROVE  IInv'
<1>1. OwnTypeOK'
  BY DEF IInv, OwnTypeOK, Loop!TypeOK, BuildFails, FetchReply, loopVars
<1>2. Queued(Drain)' <=> Queued(Drain)
  BY QueueKept DEF BuildFails, FetchReply, loopVars
<1>3. HttpThread'
  BY <1>2 DEF IInv, HttpThread, BuildFails, FetchReply
<1>4. Started'
  BY DEF IInv, Started, BuildFails, FetchReply, resolverVars, HttpThread
<1> QED
  BY <1>1, <1>3, <1>4, HttpAlone DEF BuildFails, FetchReply

\* The resolver works by itself: callbacks neither start nor run.
LEMMA ResolverAloneStep ==
  ASSUME IInv, RP!IInv',
         \/ \E h \in Hosts : Answer(h)
         \/ EvCb \/ FinishAnswer \/ FinishCached \/ Tick
  PROVE  IInv'
<1>1. UNCHANGED <<asked, calls, result, httpVars, loopVars>>
  BY DEF Answer, EvCb, FinishAnswer, FinishCached, Tick, ResolverStep, R!Answer,
     R!EvCb, R!FinishAnswer, R!FinishCached, R!Tick
<1>2. OwnTypeOK'
  BY <1>1 DEF IInv, OwnTypeOK, Loop!TypeOK, httpVars, loopVars
<1>3. \A t \in Tasks : Stays(t)
  BY <1>1 DEF Stays, Queued, httpVars, loopVars
<1>4. \A t \in Tasks : IsPlaced(t)' /\ IsFinished(t)'
  BY <1>3, Unmoved DEF IInv
<1>5. Queued(Drain)' <=> Queued(Drain)
  BY <1>1, QueueKept DEF loopVars
<1>6. HttpThread'
  BY <1>1, <1>5 DEF IInv, HttpThread, httpVars
<1>7. Started' /\ BusyTasksAreInCurl' /\ Distinct(loopQueue)'
  BY <1>1 DEF IInv, Started, BusyTasksAreInCurl, httpVars, loopVars
<1> QED
  BY <1>2, <1>4, <1>6, <1>7 DEF IInv
-----------------------------------------------------------------------------
(* The steps that move a task                                              *)

\* A task that comes to a place is done there if and only if it should be.
LEMMA PlacedAnew ==
  ASSUME NEW t \in Tasks, NEW p \in 1 .. 6, At(t, p)',
         asked'[t] # NoHost, reports'[t] \in {0, 1},
         p \in 1 .. 2 => t \notin done', p \in 4 .. 6 => t \in done',
         calls'[t] = 0 => result'[t] = "none"
  PROVE  IsPlaced(t)' /\ IsFinished(t)'
<1>1. \A q \in 1 .. 6 : At(t, q)' => q = p
  BY DEF At
<1>2. t \in done' => p \in 3 .. 6
  OBVIOUS
<1> QED
  BY <1>1, <1>2 DEF IsPlaced, IsFinished

\* add(): from no place to the resolver.
LEMMA AddTaskStep ==
  ASSUME IInv, RP!IInv', NEW t \in Tasks, AddTask(t)
  PROVE  IInv'
<1>1. PICK h \in Hosts : R!Resolve(t, h)
  BY DEF AddTask
<1>2. asked \in [Tasks -> Hosts \cup {NoHost}] /\ h # NoHost
  BY Typed, FetcherAssumption DEF TypeOK, R!TypeOK
<1>3. /\ asked[t] = NoHost /\ asked'[t] = h
      /\ \A u \in Tasks : u # t => asked'[u] = asked[u]
      /\ calls' = calls /\ result' = result
  BY <1>1, <1>2 DEF R!Resolve
<1>4. ctxs' = ctxs \ {t} /\ t \in accepted /\ httpPc = "adding"
  BY DEF AddTask, IInv, HttpThread
<1>5. calls[t] = 0
  BY <1>3 DEF IInv, RP!IInv, RP!Counted
<1>6. \A c : Queued(c)' <=> Queued(c)
  BY DEF AddTask, loopVars, Queued
<1>7. ASSUME NEW u \in Tasks PROVE IsPlaced(u)' /\ IsFinished(u)'
  <2>1. CASE u = t
    <3>1. At(t, 0) /\ IsFinished(t)
      BY <1>3 DEF IInv, IsPlaced
    <3>2. t \notin done /\ reports[t] \in {0, 1} /\ result[t] = "none"
      BY <3>1, <1>5 DEF IsFinished, At
    <3>3. At(t, 1)'
      BY <3>1, <1>2, <1>3, <1>5, <1>6 DEF At, AddTask, loopVars
    <3> QED
      BY <2>1, <3>2, <3>3, <1>2, <1>3, PlacedAnew DEF AddTask, loopVars
  <2>2. CASE u # t
    <3>1. Stays(u)
      BY <2>2, <1>3, <1>6 DEF Stays, AddTask, loopVars
    <3> QED
      BY <3>1, Unmoved DEF IInv
  <2> QED
    BY <2>1, <2>2
<1>8. OwnTypeOK'
  BY DEF IInv, OwnTypeOK, Loop!TypeOK, AddTask, loopVars
<1>9. HttpThread'
  BY <1>4, <1>6 DEF IInv, HttpThread, AddTask
<1>10. Started'
  BY <1>2, <1>3, <1>4 DEF IInv, Started, AddTask
<1>11. BusyTasksAreInCurl' /\ Distinct(loopQueue)'
  BY DEF IInv, BusyTasksAreInCurl, AddTask, loopVars
<1> QED
  BY <1>7, <1>8, <1>9, <1>10, <1>11 DEF IInv

\* resolver_cb: from the resolver to the loop's queue, or to those that failed.
LEMMA ResolverCbStep ==
  ASSUME IInv, RP!IInv', NEW t \in Tasks, ResolverCb(t)
  PROVE  IInv'
<1>1. /\ calls \in [Tasks -> Nat]
      /\ result \in [Tasks -> {"none", "ok", "error"}]
      /\ loopQueue \in Seq(Tasks \cup {Drain})
  BY Typed DEF TypeOK, R!TypeOK, Loop!TypeOK
<1>2. t \in todo /\ calls[t] = 0 /\ asked[t] # NoHost
  BY FetcherAssumption DEF ResolverCb, R!RunCallback, IInv, RP!IInv, RP!Locked, RP!Counted
<1>3. /\ asked' = asked /\ infos' = infos
      /\ calls'[t] = 1 /\ \A u \in Tasks : u # t => calls'[u] = calls[u]
      /\ result'[t] = IF infos[current].ok THEN "ok" ELSE "error"
      /\ \A u \in Tasks : u # t => result'[u] = result[u]
  BY <1>1, <1>2 DEF ResolverCb, R!RunCallback
<1>4. At(t, 1) /\ t \notin done /\ reports[t] \in {0, 1}
  BY <1>2 DEF IInv, IsPlaced, IsFinished, At
<1>5. Drain # t /\ UNCHANGED <<httpVars, tasks_, multi>>
  BY FetcherAssumption DEF ResolverCb
<1>6. /\ loopQueue' \in Seq(Tasks \cup {Drain}) /\ Distinct(loopQueue')
      /\ \A c : Queued(c)' <=> Queued(c) \/ (c = t /\ infos[current].ok)
  <2>1. CASE infos[current].ok
    <3>1. loopQueue' = Append(loopQueue, t)
      BY <2>1 DEF ResolverCb, Loop!Post
    <3>2. ~ Among(t, loopQueue) /\ Distinct(loopQueue)
      BY <1>4 DEF IInv, At, Queued, Among
    <3>3. Distinct(loopQueue') /\ loopQueue' \in Seq(Tasks \cup {Drain})
      BY <1>1, <3>1, <3>2, PostedCall
    <3>4. \A c : Among(c, loopQueue') <=> c = t \/ Among(c, loopQueue)
      BY <1>1, <3>1, PostedCall
    <3> QED
      BY <2>1, <3>3, <3>4 DEF Queued, Among
  <2>2. CASE ~ infos[current].ok
    BY <1>1, <2>2 DEF ResolverCb, Queued, IInv
  <2> QED
    BY <2>1, <2>2
<1>7. done' = IF infos[current].ok THEN done ELSE done \cup {t}
  BY DEF ResolverCb
<1>8. ASSUME NEW u \in Tasks PROVE IsPlaced(u)' /\ IsFinished(u)'
  <2>1. CASE u = t /\ infos[current].ok
    <3>1. At(t, 2)'
      BY <2>1, <1>3, <1>4, <1>5, <1>6 DEF At, httpVars
    <3>2. t \notin done' /\ reports' = reports
      BY <2>1, <1>4, <1>5, <1>7 DEF httpVars
    <3> QED
      BY <2>1, <3>1, <3>2, <1>2, <1>3, <1>4, PlacedAnew
  <2>2. CASE u = t /\ ~ infos[current].ok
    <3>1. At(t, 6)'
      BY <2>2, <1>3, <1>4, <1>5, <1>6 DEF At, httpVars
    <3>2. t \in done' /\ reports' = reports
      BY <2>2, <1>5, <1>7 DEF httpVars
    <3> QED
      BY <2>2, <3>1, <3>2, <1>2, <1>3, <1>4, PlacedAnew
  <2>3. CASE u # t
    <3>1. Stays(u)
      BY <2>3, <1>3, <1>5, <1>6, <1>7 DEF Stays, httpVars
    <3> QED
      BY <3>1, Unmoved DEF IInv
  <2> QED
    BY <2>1, <2>2, <2>3
<1>9. OwnTypeOK'
  BY <1>5, <1>6, <1>7 DEF IInv, OwnTypeOK, Loop!TypeOK, httpVars
<1>10. HttpThread'
  BY <1>5, <1>6 DEF IInv, HttpThread, httpVars
<1>11. Started' /\ BusyTasksAreInCurl'
  BY <1>3, <1>4, <1>5, <1>7 DEF IInv, Started, BusyTasksAreInCurl, httpVars, At
<1> QED
  BY <1>6, <1>8, <1>9, <1>10, <1>11 DEF IInv

\* What taking the first call does to the queue.
LEMMA CallTaken ==
  ASSUME IInv, loopQueue # <<>>, Loop!RunNext
  PROVE  /\ loopQueue' \in Seq(Tasks \cup {Drain}) /\ Distinct(loopQueue')
         /\ Queued(Head(loopQueue))
         /\ \A c : Queued(c)' <=> c # Head(loopQueue) /\ Queued(c)
<1>1. loopQueue \in Seq(Tasks \cup {Drain}) /\ Distinct(loopQueue)
  BY Typed DEF TypeOK, Loop!TypeOK, IInv
<1>2. loopQueue' = Tail(loopQueue)
  BY DEF Loop!RunNext
<1>3. \A c : Among(c, loopQueue') <=> c # Head(loopQueue) /\ Among(c, loopQueue)
  BY <1>1, <1>2, TakenCall
<1>4. /\ loopQueue' \in Seq(Tasks \cup {Drain}) /\ Distinct(loopQueue')
      /\ Among(Head(loopQueue), loopQueue)
  BY <1>1, <1>2, TakenCall
<1> QED
  BY <1>3, <1>4 DEF Queued, Among

\* The loop starts the transfer: from the queue to the list of tasks.
LEMMA StartTaskStep ==
  ASSUME IInv, RP!IInv', NEW t \in Tasks, StartTask(t)
  PROVE  IInv'
<1>1. /\ loopQueue' \in Seq(Tasks \cup {Drain}) /\ Distinct(loopQueue')
      /\ Queued(t)
      /\ \A c : Queued(c)' <=> c # t /\ Queued(c)
  BY CallTaken DEF StartTask
<1>2. /\ multi' = multi \cup {t} /\ tasks_' = tasks_ \cup {t}
      /\ UNCHANGED <<asked, calls, result, httpVars, done>>
  BY DEF StartTask, resolverVars
<1>3. /\ At(t, 2) /\ asked[t] # NoHost /\ t \notin done /\ reports[t] \in {0, 1}
      /\ calls[t] # 0
  BY <1>1 DEF IInv, IsPlaced, IsFinished, At
<1>4. ASSUME NEW u \in Tasks PROVE IsPlaced(u)' /\ IsFinished(u)'
  <2>1. CASE u = t
    <3>1. At(t, 3)'
      BY <1>1, <1>2, <1>3 DEF At, httpVars
    <3>2. asked' = asked /\ calls' = calls /\ reports' = reports
      BY <1>2 DEF httpVars
    <3> QED
      BY <2>1, <3>1, <3>2, <1>3, PlacedAnew
  <2>2. CASE u # t
    <3>1. Stays(u)
      BY <2>2, <1>1, <1>2 DEF Stays, httpVars
    <3> QED
      BY <3>1, Unmoved DEF IInv
  <2> QED
    BY <2>1, <2>2
<1>5. OwnTypeOK'
  BY <1>1, <1>2 DEF IInv, OwnTypeOK, Loop!TypeOK, httpVars
<1>6. Drain # t
  BY FetcherAssumption
<1>7. HttpThread'
  BY <1>1, <1>2, <1>6 DEF IInv, HttpThread, httpVars
<1>8. Started' /\ BusyTasksAreInCurl'
  BY <1>2, <1>3 DEF IInv, Started, BusyTasksAreInCurl, httpVars
<1> QED
  BY <1>1, <1>4, <1>5, <1>7, <1>8 DEF IInv

\* A transfer ends.  What curl holds is on the list and not done.
LEMMA TransferDoneStep ==
  ASSUME IInv, RP!IInv', NEW t \in Tasks, TransferDone(t)
  PROVE  IInv'
<1>1. /\ t \in multi /\ multi' = multi \ {t} /\ done' = done \cup {t}
      /\ UNCHANGED <<asked, calls, result, httpVars, loopQueue, tasks_>>
  BY DEF TransferDone, resolverVars
<1>2. t \in tasks_ /\ t \notin done
  BY <1>1 DEF IInv, BusyTasksAreInCurl
<1>3. /\ At(t, 3) /\ asked[t] # NoHost /\ reports[t] \in {0, 1}
      /\ calls[t] # 0
  BY <1>2 DEF IInv, IsPlaced, IsFinished, At
<1>4. \A c : Queued(c)' <=> Queued(c)
  BY <1>1 DEF Queued
<1>5. ASSUME NEW u \in Tasks PROVE IsPlaced(u)' /\ IsFinished(u)'
  <2>1. CASE u = t
    <3>1. At(t, 3)'
      BY <1>1, <1>3, <1>4 DEF At, httpVars
    <3>2. asked' = asked /\ calls' = calls /\ reports' = reports
      BY <1>1 DEF httpVars
    <3> QED
      BY <2>1, <3>1, <3>2, <1>3, PlacedAnew
  <2>2. CASE u # t
    <3>1. Stays(u)
      BY <2>2, <1>1, <1>4 DEF Stays, httpVars
    <3> QED
      BY <3>1, Unmoved DEF IInv
  <2> QED
    BY <2>1, <2>2
<1>6. OwnTypeOK'
  BY <1>1 DEF IInv, OwnTypeOK, Loop!TypeOK, httpVars
<1>7. HttpThread'
  BY <1>1, <1>4 DEF IInv, HttpThread, httpVars
<1>8. Started' /\ BusyTasksAreInCurl' /\ Distinct(loopQueue)'
  BY <1>1, <1>2 DEF IInv, Started, BusyTasksAreInCurl, httpVars
<1> QED
  BY <1>5, <1>6, <1>7, <1>8 DEF IInv

\* The loop collects what is done: from the list to the answer, which is empty
\* before, because the HTTP thread waits.
LEMMA RunDrainStep ==
  ASSUME IInv, RP!IInv', RunDrain
  PROVE  IInv'
<1>1. /\ loopQueue' \in Seq(Tasks \cup {Drain}) /\ Distinct(loopQueue')
      /\ Queued(Drain)
      /\ \A c : Queued(c)' <=> c # Drain /\ Queued(c)
  BY CallTaken DEF RunDrain
<1>2. /\ resp' = tasks_ \cap done /\ tasks_' = tasks_ \ done /\ httpPc' = "replying"
      /\ UNCHANGED <<asked, calls, result, multi, done, unbuilt, ctxs, accepted, refused, reports>>
  BY DEF RunDrain, resolverVars
<1>3. resp = {} /\ httpPc = "waiting"
  BY <1>1 DEF IInv, HttpThread
<1>4. \A t \in Tasks : t # Drain
  BY FetcherAssumption
<1>5. ASSUME NEW u \in Tasks PROVE IsPlaced(u)' /\ IsFinished(u)'
  <2>1. CASE u \in tasks_ \cap done
    <3>1. /\ At(u, 3) /\ asked[u] # NoHost /\ reports[u] \in {0, 1} /\ calls[u] # 0
      BY <2>1 DEF IInv, IsPlaced, IsFinished, At
    <3>2. At(u, 4)'
      BY <2>1, <3>1, <1>1, <1>2 DEF At
    <3>3. u \in done' /\ asked' = asked /\ calls' = calls /\ reports' = reports
      BY <2>1, <1>2
    <3> QED
      BY <3>1, <3>2, <3>3, PlacedAnew
  <2>2. CASE u \notin tasks_ \cap done
    <3>1. Stays(u)
      BY <2>2, <1>1, <1>2, <1>3, <1>4 DEF Stays
    <3> QED
      BY <3>1, Unmoved DEF IInv
  <2> QED
    BY <2>1, <2>2
<1>6. OwnTypeOK'
  BY <1>1, <1>2 DEF IInv, OwnTypeOK, Loop!TypeOK
<1>7. HttpThread'
  BY <1>1, <1>2, <1>3 DEF IInv, HttpThread
<1>8. Started' /\ BusyTasksAreInCurl'
  BY <1>2 DEF IInv, Started, BusyTasksAreInCurl
<1> QED
  BY <1>1, <1>5, <1>6, <1>7, <1>8 DEF IInv

\* /result: the call that collects is queued, and the HTTP thread waits for it.
LEMMA ResultRequestStep ==
  ASSUME IInv, RP!IInv', ResultRequest
  PROVE  IInv'
<1>1. ~ Queued(Drain) /\ httpPc = "idle" /\ httpPc' = "waiting"
  BY DEF ResultRequest, IInv, HttpThread
<1>2. loopQueue' = Append(loopQueue, Drain) /\ loopQueue \in Seq(Tasks \cup {Drain})
  BY Typed DEF ResultRequest, Loop!Post, TypeOK, Loop!TypeOK
<1>3. ~ Among(Drain, loopQueue) /\ Distinct(loopQueue)
  BY <1>1 DEF IInv, Queued, Among
<1>4. loopQueue' \in Seq(Tasks \cup {Drain}) /\ Distinct(loopQueue')
  BY <1>2, <1>3, PostedCall
<1>5. \A c : Among(c, loopQueue') <=> c = Drain \/ Among(c, loopQueue)
  BY <1>2, PostedCall
<1>6. \A c : Queued(c)' <=> c = Drain \/ Queued(c)
  BY <1>5 DEF Queued, Among
<1>7. UNCHANGED <<asked, calls, result, unbuilt, ctxs, resp, accepted, refused, reports,
                  tasks_, multi, done>>
  BY DEF ResultRequest, resolverVars
<1>8. \A t \in Tasks : t # Drain
  BY FetcherAssumption
<1>9. \A t \in Tasks : Stays(t)
  BY <1>6, <1>7, <1>8 DEF Stays
<1>10. \A t \in Tasks : IsPlaced(t)' /\ IsFinished(t)'
  BY <1>9, Unmoved DEF IInv
<1>11. OwnTypeOK'
  BY <1>1, <1>4, <1>7 DEF IInv, OwnTypeOK, Loop!TypeOK
<1>12. HttpThread'
  BY <1>1, <1>6, <1>7 DEF IInv, HttpThread
<1>13. Started' /\ BusyTasksAreInCurl'
  BY <1>7 DEF IInv, Started, BusyTasksAreInCurl
<1> QED
  BY <1>4, <1>10, <1>11, <1>12, <1>13 DEF IInv

\* The answer is sent: its tasks have been reported, once.
LEMMA ResultReplyStep ==
  ASSUME IInv, RP!IInv', ResultReply
  PROVE  IInv'
<1>1. /\ httpPc = "replying" /\ httpPc' = "idle" /\ resp' = {}
      /\ UNCHANGED <<asked, calls, result, loopVars, unbuilt, ctxs, accepted, refused>>
  BY DEF ResultReply, resolverVars
<1>2. \A t \in Tasks : reports'[t] = IF t \in resp THEN reports[t] + 1 ELSE reports[t]
  BY DEF ResultReply
<1>3. \A c : Queued(c)' <=> Queued(c)
  BY <1>1 DEF Queued, loopVars
<1>4. ASSUME NEW u \in Tasks PROVE IsPlaced(u)' /\ IsFinished(u)'
  <2>1. CASE u \in resp
    <3>1. /\ At(u, 4) /\ asked[u] # NoHost /\ u \in done /\ reports[u] = 0
          /\ calls[u] # 0
      BY <2>1 DEF IInv, IsPlaced, IsFinished, At
    <3>2. reports'[u] = 1
      BY <2>1, <3>1, <1>2
    <3>3. At(u, 5)'
      BY <3>1, <3>2, <1>1, <1>3 DEF At, loopVars
    <3>4. u \in done' /\ asked' = asked /\ calls' = calls
      BY <3>1, <1>1 DEF loopVars
    <3> QED
      BY <3>1, <3>2, <3>3, <3>4, PlacedAnew
  <2>2. CASE u \notin resp
    <3>1. Stays(u)
      BY <2>2, <1>1, <1>2, <1>3 DEF Stays, loopVars
    <3> QED
      BY <3>1, Unmoved DEF IInv
  <2> QED
    BY <2>1, <2>2
<1>5. OwnTypeOK'
  BY <1>1 DEF IInv, OwnTypeOK, Loop!TypeOK, ResultReply, loopVars
<1>6. HttpThread'
  BY <1>1, <1>3 DEF IInv, HttpThread
<1>7. Started' /\ BusyTasksAreInCurl' /\ Distinct(loopQueue)'
  BY <1>1 DEF IInv, Started, BusyTasksAreInCurl, loopVars
<1> QED
  BY <1>4, <1>5, <1>6, <1>7 DEF IInv
-----------------------------------------------------------------------------
(* The invariant                                                           *)

\* The service starts with nothing asked for, queued or held.
LEMMA InitIInv == Init => IInv
<1> SUFFICES ASSUME Init PROVE IInv
  OBVIOUS
<1>1. RP!IInv
  <2>1. RP!Init
    BY DEF Init, R!Init, RP!Init
  <2> QED
    BY <2>1, RP!InitIInv, FetcherAssumption
<1>2. loopQueue = <<>> /\ \A c : ~ Queued(c)
  BY DEF Init, Loop!Init, Queued
<1>3. /\ asked = [t \in Tasks |-> NoHost] /\ calls = [t \in Tasks |-> 0]
      /\ result = [t \in Tasks |-> "none"]
  BY DEF Init, R!Init
<1>4. \A t \in Tasks : At(t, 0) /\ asked[t] = NoHost /\ reports[t] = 0 /\ t \notin done
  BY <1>2, <1>3 DEF Init, At
<1>5. \A t \in Tasks : IsPlaced(t) /\ IsFinished(t)
  BY <1>3, <1>4 DEF IsPlaced, IsFinished, At
<1>6. OwnTypeOK
  BY <1>2 DEF Init, OwnTypeOK, Loop!TypeOK
<1>7. HttpThread /\ Started /\ BusyTasksAreInCurl
  BY <1>2, <1>3 DEF Init, HttpThread, Started, BusyTasksAreInCurl
<1>8. Distinct(loopQueue)
  BY <1>2 DEF Distinct
<1> QED
  BY <1>1, <1>5, <1>6, <1>7, <1>8 DEF IInv

\* Whichever thread takes the next step keeps the invariant.
LEMMA NextIInv == IInv /\ [Next]_vars => IInv'
<1> SUFFICES ASSUME IInv, [Next]_vars PROVE IInv'
  OBVIOUS
<1>0. RP!IInv'
  BY ResolverIInv DEF IInv
<1>1. ASSUME NEW B \in SUBSET Tasks, FetchRequest(B) PROVE IInv'
  BY <1>0, <1>1, FetchRequestStep
<1>2. ASSUME NEW t \in Tasks, BuildTask(t) PROVE IInv'
  BY <1>0, <1>2, BuildTaskStep
<1>3. ASSUME NEW t \in Tasks, AddTask(t) PROVE IInv'
  BY <1>0, <1>3, AddTaskStep
<1>4. CASE BuildFails \/ FetchReply
  BY <1>0, <1>4, FetchEndsStep
<1>5. CASE ResultRequest
  BY <1>0, <1>5, ResultRequestStep
<1>6. CASE ResultReply
  BY <1>0, <1>6, ResultReplyStep
<1>7. ASSUME NEW t \in Tasks, ResolverCb(t) PROVE IInv'
  BY <1>0, <1>7, ResolverCbStep
<1>8. CASE (\E h \in Hosts : Answer(h)) \/ EvCb \/ FinishAnswer \/ FinishCached \/ Tick
  BY <1>0, <1>8, ResolverAloneStep
<1>9. ASSUME NEW t \in Tasks, StartTask(t) PROVE IInv'
  BY <1>0, <1>9, StartTaskStep
<1>10. ASSUME NEW t \in Tasks, TransferDone(t) PROVE IInv'
  BY <1>0, <1>10, TransferDoneStep
<1>11. CASE RunDrain
  BY <1>0, <1>11, RunDrainStep
<1>12. CASE UNCHANGED vars
  <2>1. HttpThread' /\ Started' /\ OwnTypeOK'
    BY <1>12 DEF IInv, HttpThread, Started, OwnTypeOK, Loop!TypeOK, Queued, vars,
       resolverVars, httpVars, loopVars
  <2> QED
    BY <1>0, <1>12, <2>1, HttpAlone DEF vars, httpVars
<1> QED
  BY <1>1, <1>2, <1>3, <1>4, <1>5, <1>6, <1>7, <1>8, <1>9, <1>10, <1>11, <1>12
     DEF Next, HttpNext, ResolverNext, LoopNext

\* The invariant holds in every reachable state.
THEOREM Invariance == Spec => []IInv
<1> QED
  BY InitIInv, NextIInv, PTL DEF Spec

-----------------------------------------------------------------------------
(* What follows                                                            *)

\* The service's state, the resolver's included, is well typed.
THEOREM TypeCorrect == Spec => []TypeOK
<1> QED
  BY Typed, Invariance, PTL

\* Every task whose easy handle curl holds is on the list that keeps it alive,
\* and the tasks on the list that are not done are those curl holds.
THEOREM BusyTasksStayListed == Spec => []BusyTasksAreInCurl
<1>1. IInv => BusyTasksAreInCurl
  BY DEF IInv
<1> QED
  BY <1>1, Invariance, PTL

\* A task that was given to the resolver is in one of the six places, and in
\* one only; no other task is in any.
THEOREM TasksHaveOnePlace == Spec => []OnePlace
<1>1. ASSUME NEW t \in Tasks, NEW p \in 0 .. 6, At(t, p)
      PROVE  \A i \in 1 .. 6 : Places(t)[i] <=> p = i
  <2>1. /\ Places(t)[1] <=> p = 1
        /\ Places(t)[2] <=> p = 2
        /\ Places(t)[3] <=> p = 3
        /\ Places(t)[4] <=> p = 4
        /\ Places(t)[5] <=> p = 5
        /\ Places(t)[6] <=> p = 6
    BY <1>1 DEF At, Places
  <2>2. 1 .. 6 = {1, 2, 3, 4, 5, 6}
    OBVIOUS
  <2> QED
    BY <2>1, <2>2
<1>2. IInv => OnePlace
  BY <1>1 DEF IInv, IsPlaced, OnePlace
<1> QED
  BY <1>2, Invariance, PTL

\* No task of a request that was answered with an error was ever started.
THEOREM RefusedTasksNeverStart == Spec => []RefusedNeverStarted
<1>1. IInv => RefusedNeverStarted
  BY DEF IInv, OwnTypeOK, Started, HttpThread, RefusedNeverStarted
<1> QED
  BY <1>1, Invariance, PTL
-----------------------------------------------------------------------------
(* The components within                                                   *)

\* The resolver's safety holds for the lookups of the service: a name has one
\* query at a time, no failure is served on the spot, and no task is forgotten.
THEOREM LookupsAreSafe ==
  Spec => [](R!OneQueryPerName /\ R!CacheServesOnlySuccess /\ R!NobodyForgotten)
<1>1. IInv => R!OneQueryPerName /\ R!CacheServesOnlySuccess /\ R!NobodyForgotten
  BY DEF IInv, RP!IInv, RP!OneQueryPerName, R!OneQueryPerName, RP!Answering, R!Answering,
     RP!Locked, R!CacheServesOnlySuccess, RP!NobodyForgotten, R!NobodyForgotten
<1> QED
  BY <1>1, Invariance, PTL

\* resolver_cb runs once for each task: the resolver within the service
\* implements AnswerOnce.
THEOREM LookupsAreAnsweredOnce == Spec => R!RunsCallbacksOnce
<1>1. R!Spec => RP!Spec
  <2>1. R!Init => RP!Init
    BY DEF R!Init, RP!Init
  <2>2. [R!Next]_(R!vars) => [RP!Next]_(RP!vars)
    BY DEF RP!vars, R!vars, RP!Next, R!Next, R!Resolve, RP!Resolve, R!StartLookup,
       RP!StartLookup, R!JoinLookup, RP!JoinLookup, R!AnswerFromCache, RP!AnswerFromCache,
       R!EffectiveState, RP!EffectiveState, R!RunCallback, RP!RunCallback, R!Answer,
       RP!Answer, R!EvCb, RP!EvCb, R!FinishAnswer, RP!FinishAnswer, R!FinishCached,
       RP!FinishCached, R!Tick, RP!Tick
  <2> QED
    BY <2>1, <2>2, PTL DEF R!Spec, RP!Spec
<1>2. RP!Spec => RP!RunsCallbacksOnce
  BY RP!Implementation, FetcherAssumption
<1>3. RP!RunsCallbacksOnce => R!RunsCallbacksOnce
  <2>1. RP!Promise!Init => R!Promise!Init
    BY DEF RP!Promise!Init, R!Promise!Init
  <2>2. [RP!Promise!Next]_(RP!Promise!vars) => [R!Promise!Next]_(R!Promise!vars)
    BY DEF RP!Promise!Next, R!Promise!Next, RP!Promise!vars, R!Promise!vars, RP!Promise!Ask,
       R!Promise!Ask, RP!Promise!Reply, R!Promise!Reply
  <2> QED
    BY <2>1, <2>2, PTL
       DEF RP!RunsCallbacksOnce, R!RunsCallbacksOnce, RP!Promise!Spec, R!Promise!Spec
<1> QED
  BY <1>1, <1>2, <1>3, UsesResolver, PTL

\* The Fetcher uses the loop as CallQueue describes it, which EventServer
\* implements: it posts tasks and the call that collects results, and the loop
\* takes the oldest.
THEOREM UsesCallQueue == Spec => Loop!Spec
<1>1. Init => Loop!Init
  BY DEF Init
<1>2. IInv /\ [Next]_vars => [Loop!Next]_(Loop!vars)
  <2> SUFFICES ASSUME IInv, [Next]_vars PROVE [Loop!Next]_(Loop!vars)
    OBVIOUS
  <2>1. ASSUME NEW t \in Tasks, ResolverCb(t) PROVE Loop!Next \/ UNCHANGED Loop!vars
    BY <2>1 DEF ResolverCb, Loop!Next, Loop!vars
  <2>2. CASE ResultRequest
    BY <2>2 DEF ResultRequest, Loop!Next
  <2>3. CASE RunDrain \/ \E t \in Tasks : StartTask(t)
    BY <2>3 DEF RunDrain, StartTask, Loop!Next
  <2>4. ASSUME \/ \E B \in SUBSET Tasks : FetchRequest(B)
               \/ \E t \in Tasks : BuildTask(t) \/ AddTask(t) \/ TransferDone(t)
               \/ \E h \in Hosts : Answer(h)
               \/ EvCb \/ FinishAnswer \/ FinishCached \/ Tick
               \/ BuildFails \/ FetchReply \/ ResultReply \/ UNCHANGED vars
        PROVE  UNCHANGED Loop!vars
    BY <2>4 DEF FetchRequest, BuildTask, AddTask, TransferDone, Answer, EvCb, FinishAnswer,
       FinishCached, Tick, ResolverStep, BuildFails, FetchReply, ResultReply, vars, loopVars,
       Loop!vars
  <2> QED
    BY <2>1, <2>2, <2>3, <2>4 DEF Next, HttpNext, ResolverNext, LoopNext
<1> QED
  BY <1>1, <1>2, Invariance, PTL DEF Spec, Loop!Spec

-----------------------------------------------------------------------------
(* Fetcher implements TaskService                                          *)

\* In the invariant no task is both refused and started, and a task in the
\* answer or reported has been taken and is done.
LEMMA Histories ==
  IInv => \A t \in Tasks :
    /\ ~ (t \in accepted /\ t \in refused)
    /\ reports[t] \in {0, 1}
    /\ t \in resp \/ reports[t] = 1 => t \in accepted /\ t \in done
    /\ t \in done => t \in accepted
    /\ t \in resp => reports[t] = 0
<1> SUFFICES ASSUME IInv, NEW t \in Tasks
             PROVE  /\ ~ (t \in accepted /\ t \in refused)
                    /\ reports[t] \in {0, 1}
                    /\ t \in resp \/ reports[t] = 1 => t \in accepted /\ t \in done
                    /\ t \in done => t \in accepted
                    /\ t \in resp => reports[t] = 0
  OBVIOUS
<1>1. reports[t] \in {0, 1} /\ ~ (t \in accepted /\ t \in refused)
  BY DEF IInv, IsFinished, HttpThread
<1>2. /\ t \in resp \/ reports[t] = 1 => asked[t] # NoHost /\ t \in done
      /\ t \in done => asked[t] # NoHost
      /\ t \in resp => reports[t] # 1
  BY DEF IInv, IsPlaced, IsFinished, At
<1> QED
  BY <1>1, <1>2 DEF IInv, Started

\* A step that changes no history of a task and no finished state leaves its
\* phase.
LEMMA PhaseKept ==
  ASSUME NEW t \in Tasks,
         t \in refused' <=> t \in refused, t \in accepted' <=> t \in accepted,
         t \in resp' <=> t \in resp, reports'[t] = reports[t], t \in done' <=> t \in done
  PROVE  Phase(t)' = Phase(t)
  BY DEF Phase

\* /fetch is refused for its size, or goes on.
LEMMA FetchRequestMoves ==
  ASSUME IInv, NEW B \in SUBSET Tasks, FetchRequest(B)
  PROVE  Promise!Refuse(B) \/ \A t \in Tasks : Phase(t)' = Phase(t)
<1>1. /\ refused' = refused \/ refused' = refused \cup B
      /\ UNCHANGED <<accepted, resp, reports, done>>
  BY DEF FetchRequest, loopVars
<1>2. CASE refused' = refused
  BY <1>1, <1>2, PhaseKept
<1>3. CASE refused' = refused \cup B
  <2>1. \A t \in B : Phase(t) = "new" /\ Phase(t)' = "refused"
    BY <1>1, <1>3 DEF FetchRequest, Phase
  <2>2. \A t \in Tasks \ B : Phase(t)' = Phase(t)
    BY <1>1, <1>3 DEF Phase
  <2> QED
    BY <2>1, <2>2 DEF Promise!Refuse, Promise!Move
<1> QED
  BY <1>1, <1>2, <1>3

\* The last member of a request is parsed, and the request is taken.
LEMMA BuildTaskMoves ==
  ASSUME IInv, NEW u \in Tasks, BuildTask(u)
  PROVE  \/ \E B \in SUBSET Tasks : Promise!Accept(B)
         \/ \A t \in Tasks : Phase(t)' = Phase(t)
<1>1. /\ ctxs' = ctxs \cup {u} /\ u \in unbuilt
      /\ accepted' = accepted \/ accepted' = accepted \cup ctxs'
      /\ UNCHANGED <<refused, resp, reports, done>>
  BY DEF BuildTask, loopVars
<1>2. CASE accepted' = accepted
  BY <1>1, <1>2, PhaseKept
<1>3. CASE accepted' = accepted \cup ctxs'
  <2>1. /\ ctxs' \in SUBSET Tasks
        /\ \A t \in ctxs' : t \notin accepted /\ t \notin refused
    BY <1>1 DEF BuildTask, IInv, HttpThread, OwnTypeOK
  <2>2. \A t \in ctxs' : t \notin resp /\ reports[t] = 0 /\ t \notin done
    BY <2>1, Histories
  <2>3. \A t \in ctxs' : Phase(t) = "new" /\ Phase(t)' = "running"
    BY <1>1, <1>3, <2>1, <2>2 DEF Phase
  <2>4. \A t \in Tasks \ ctxs' : Phase(t)' = Phase(t)
    BY <1>1, <1>3 DEF Phase
  <2>5. Promise!Move(ctxs', "new", "running")
    BY <2>1, <2>3, <2>4 DEF Promise!Move
  <2> QED
    BY <2>1, <2>5 DEF Promise!Accept
<1> QED
  BY <1>1, <1>2, <1>3

\* A member of a request is malformed, and the whole request is refused.
LEMMA BuildFailsMoves ==
  ASSUME IInv, BuildFails
  PROVE  \E B \in SUBSET Tasks : Promise!Refuse(B)
<1> DEFINE B == unbuilt \cup ctxs
<1>1. refused' = refused \cup B /\ UNCHANGED <<accepted, resp, reports, done>>
  BY DEF BuildFails, loopVars
<1>2. B \in SUBSET Tasks /\ \A t \in B : t \notin accepted /\ t \notin refused
  BY DEF BuildFails, IInv, HttpThread, OwnTypeOK
<1>3. \A t \in B : Phase(t) = "new" /\ Phase(t)' = "refused"
  BY <1>1, <1>2 DEF Phase
<1>4. \A t \in Tasks \ B : Phase(t)' = Phase(t)
  BY <1>1 DEF Phase
<1>5. Promise!Move(B, "new", "refused")
  BY <1>2, <1>3, <1>4 DEF Promise!Move
<1> QED
  BY <1>2, <1>5 DEF Promise!Refuse

\* A task becomes done, and nothing else happens to it or to any other.
LEMMA Finishes ==
  ASSUME IInv, NEW u \in Tasks, u \in accepted, u \notin done, done' = done \cup {u},
         UNCHANGED <<accepted, refused, resp, reports>>
  PROVE  Promise!Finish(u)
<1>1. u \notin refused /\ u \notin resp /\ reports[u] = 0
  BY Histories
<1>2. \A t \in {u} : Phase(t) = "running" /\ Phase(t)' = "done"
  BY <1>1 DEF Phase
<1>3. \A t \in Tasks \ {u} : Phase(t)' = Phase(t)
  BY DEF Phase
<1> QED
  BY <1>2, <1>3 DEF Promise!Finish, Promise!Move

\* A callback finishes the task whose host has no address.
LEMMA ResolverCbMoves ==
  ASSUME IInv, NEW u \in Tasks, ResolverCb(u)
  PROVE  Promise!Finish(u) \/ \A t \in Tasks : Phase(t)' = Phase(t)
<1>1. /\ done' = done \/ done' = done \cup {u}
      /\ UNCHANGED <<accepted, refused, resp, reports>>
  BY DEF ResolverCb, httpVars
<1>2. CASE done' = done
  BY <1>1, <1>2, PhaseKept
<1>3. CASE done' = done \cup {u}
  <2>1. calls[u] = 0 /\ asked[u] # NoHost
    BY FetcherAssumption DEF ResolverCb, R!RunCallback, IInv, RP!IInv, RP!Locked, RP!Counted
  <2>2. u \in accepted
    BY <2>1 DEF IInv, Started
  <2>3. u \notin done
    BY <2>1 DEF IInv, IsPlaced, IsFinished, At
  <2> QED
    BY <1>1, <1>3, <2>2, <2>3, Finishes
<1> QED
  BY <1>1, <1>2, <1>3

\* The end of a transfer finishes its task.
LEMMA TransferDoneMoves ==
  ASSUME IInv, NEW u \in Tasks, TransferDone(u)
  PROVE  Promise!Finish(u)
<1>1. done' = done \cup {u} /\ UNCHANGED <<accepted, refused, resp, reports>>
  BY DEF TransferDone, httpVars
<1>2. u \in tasks_ /\ u \notin done
  BY DEF TransferDone, IInv, BusyTasksAreInCurl
<1>3. u \in accepted
  BY <1>2 DEF IInv, IsPlaced, Started, At
<1> QED
  BY <1>1, <1>2, <1>3, Finishes

\* The tasks the loop collects are reported.
LEMMA RunDrainMoves ==
  ASSUME IInv, RunDrain
  PROVE  \E B \in SUBSET Tasks : Promise!Report(B)
<1> DEFINE B == tasks_ \cap done
<1>1. resp' = B /\ UNCHANGED <<accepted, refused, reports, done>>
  BY DEF RunDrain
<1>2. resp = {}
  BY CallTaken DEF RunDrain, IInv, HttpThread
<1>3. B \in SUBSET Tasks
  BY DEF IInv, OwnTypeOK
<1>4. \A t \in B : reports[t] = 0
  BY <1>3 DEF IInv, IsPlaced, IsFinished, At
<1>5. \A t \in B : t \in accepted /\ t \notin refused
  BY <1>3, Histories
<1>6. \A t \in B : Phase(t) = "done" /\ Phase(t)' = "reported"
  BY <1>1, <1>2, <1>4, <1>5 DEF Phase
<1>7. \A t \in Tasks \ B : Phase(t)' = Phase(t)
  BY <1>1, <1>2 DEF Phase
<1>8. Promise!Move(B, "done", "reported")
  BY <1>3, <1>6, <1>7 DEF Promise!Move
<1> QED
  BY <1>3, <1>8 DEF Promise!Report

\* What the answer is sent with was reported when the loop collected it.
LEMMA ResultReplyMoves ==
  ASSUME IInv, ResultReply, NEW t \in Tasks
  PROVE  Phase(t)' = Phase(t)
<1>1. /\ resp' = {} /\ UNCHANGED <<accepted, refused, done>>
      /\ reports'[t] = IF t \in resp THEN reports[t] + 1 ELSE reports[t]
  BY DEF ResultReply, loopVars
<1>2. t \in resp => reports[t] = 0
  BY Histories
<1> QED
  BY <1>1, <1>2 DEF Phase

\* Batches are taken or refused when /fetch is decided, tasks finish when their
\* lookup fails or their transfer ends, and the ones the loop collects are
\* reported.  Every other step is one no client could see.
THEOREM Implementation == Spec => KeepsPromise
<1> DEFINE phase == [t \in Tasks |-> Phase(t)]
<1>1. Init => Promise!Init
  BY DEF Init, Promise!Init, Phase
<1>2. IInv /\ [Next]_vars => [Promise!Next]_phase
  <2> SUFFICES ASSUME IInv, [Next]_vars PROVE [Promise!Next]_phase
    OBVIOUS
  <2>1. ASSUME \A t \in Tasks : Phase(t)' = Phase(t) PROVE UNCHANGED phase
    BY <2>1
  <2>2. ASSUME NEW B \in SUBSET Tasks, FetchRequest(B)
        PROVE  Promise!Next \/ UNCHANGED phase
    BY <2>1, <2>2, FetchRequestMoves DEF Promise!Next
  <2>3. ASSUME NEW t \in Tasks, BuildTask(t)
        PROVE  Promise!Next \/ UNCHANGED phase
    BY <2>1, <2>3, BuildTaskMoves DEF Promise!Next
  <2>4. ASSUME NEW t \in Tasks, ResolverCb(t)
        PROVE  Promise!Next \/ UNCHANGED phase
    BY <2>1, <2>4, ResolverCbMoves DEF Promise!Next
  <2>5. ASSUME NEW t \in Tasks, TransferDone(t) PROVE Promise!Next
    BY <2>5, TransferDoneMoves DEF Promise!Next
  <2>6. CASE BuildFails
    BY <2>6, BuildFailsMoves DEF Promise!Next
  <2>7. CASE RunDrain
    BY <2>7, RunDrainMoves DEF Promise!Next
  <2>8. CASE ResultReply
    BY <2>1, <2>8, ResultReplyMoves
  <2>9. ASSUME \/ \E t \in Tasks : AddTask(t) \/ StartTask(t)
               \/ \E h \in Hosts : Answer(h)
               \/ EvCb \/ FinishAnswer \/ FinishCached \/ Tick
               \/ FetchReply \/ ResultRequest \/ UNCHANGED vars
        PROVE  UNCHANGED phase
    <3>1. UNCHANGED <<accepted, refused, resp, reports, done>>
      BY <2>9 DEF AddTask, StartTask, Answer, EvCb, FinishAnswer, FinishCached, Tick,
         ResolverStep, FetchReply, ResultRequest, vars, httpVars, loopVars
    <3> QED
      BY <2>1, <3>1, PhaseKept
  <2> QED
    BY <2>2, <2>3, <2>4, <2>5, <2>6, <2>7, <2>8, <2>9
       DEF Next, HttpNext, ResolverNext, LoopNext
<1> QED
  BY <1>1, <1>2, Invariance, PTL DEF Spec, KeepsPromise, Promise!Spec

\* What a client can rely on: a task that was refused or reported stays so, and
\* one that was accepted is never refused.
PhaseIsKept(t) ==
  /\ Phase(t) \in {"refused", "reported"} => Phase(t)' = Phase(t)
  /\ Phase(t) \in {"running", "done"} => Phase(t)' \in {"running", "done", "reported"}

\* Answers are final, whatever the three threads do afterwards: it follows from
\* what TaskService allows.
THEOREM AnswersAreFinal == Spec => [][\A t \in Tasks : PhaseIsKept(t)]_vars
<1> DEFINE phase == [t \in Tasks |-> Phase(t)]
<1>1. [Promise!Next]_phase => \A t \in Tasks : PhaseIsKept(t)
  <2> SUFFICES ASSUME [Promise!Next]_phase, NEW t \in Tasks PROVE PhaseIsKept(t)
    OBVIOUS
  <2>0. phase[t] = Phase(t) /\ phase'[t] = Phase(t)'
    OBVIOUS
  <2>1. CASE phase' = phase
    <3>1. Phase(t)' = Phase(t)
      BY <2>0, <2>1
    <3> QED
      BY <3>1, Zenon DEF PhaseIsKept
  <2>2. ASSUME NEW B \in SUBSET Tasks, NEW p, NEW q, Promise!Move(B, p, q)
        PROVE  Phase(t)' = Phase(t) \/ (Phase(t) = p /\ Phase(t)' = q)
    BY <2>2 DEF Promise!Move
  <2>3. ASSUME NEW B \in SUBSET Tasks,
               Promise!Accept(B) \/ Promise!Refuse(B) \/ Promise!Report(B)
        PROVE  PhaseIsKept(t)
    <3>1. \/ Phase(t)' = Phase(t)
          \/ Phase(t) = "new"
          \/ Phase(t) = "done" /\ Phase(t)' = "reported"
      BY <2>2, <2>3 DEF Promise!Accept, Promise!Refuse, Promise!Report
    <3> QED
      BY <3>1 DEF PhaseIsKept
  <2>4. ASSUME NEW u \in Tasks, Promise!Finish(u) PROVE PhaseIsKept(t)
    <3>1. Phase(t)' = Phase(t) \/ (Phase(t) = "running" /\ Phase(t)' = "done")
      BY <2>2, <2>4 DEF Promise!Finish
    <3> QED
      BY <3>1 DEF PhaseIsKept
  <2> QED
    BY <2>1, <2>3, <2>4 DEF Promise!Next
<1> QED
  BY <1>1, Implementation, PTL DEF KeepsPromise, Promise!Spec

-----------------------------------------------------------------------------
(* Where the two errors stop                                               *)

\* DoneTasksAreReportable, but for the tasks whose host has no address.
FetchedAreReportable ==
  \A t \in done : result[t] # "error" => t \in tasks_ \cup resp \/ reports[t] > 0

\* The only tasks that are done and never reported are those whose host has no
\* address: all others are on the list, in an answer, or reported.
THEOREM FetchedTasksAreReportable == Spec => []FetchedAreReportable
<1>1. ASSUME IInv, NEW t \in done, result[t] # "error"
      PROVE  t \in tasks_ \cup resp \/ reports[t] > 0
  <2>1. t \in Tasks
    BY <1>1 DEF IInv, OwnTypeOK
  <2>2. PICK p \in 3 .. 6 : At(t, p)
    BY <1>1, <2>1 DEF IInv, IsFinished
  <2>3. p = 3 \/ p = 4 \/ p = 5
    BY <1>1, <2>2 DEF At
  <2> QED
    BY <2>2, <2>3 DEF At
<1>2. IInv => FetchedAreReportable
  BY <1>1 DEF FetchedAreReportable
<1> QED
  BY <1>2, Invariance, PTL

\* The size check counts the task already, or it need not.
Settled(t) == t \in tasks_ \cup resp \/ reports[t] > 0 \/ result[t] = "error"

\* Clients that send one request at a time, and the next one when the tasks of
\* the others are past their lookups and their start in the loop.
SerialNext ==
  /\ Next
  /\ \A B \in SUBSET Tasks :
       FetchRequest(B) => IsFiniteSet(B) /\ \A t \in accepted : Settled(t)

SerialSpec == Init /\ [][SerialNext]_vars

\* The tasks that are on the list or may still come to it.
Pending ==
  {t \in accepted \cup unbuilt \cup ctxs :
     t \notin resp /\ reports[t] = 0 /\ result[t] # "error"}

PendingFits == IsFiniteSet(Pending) /\ Cardinality(Pending) <= kMaxTasksCnt

\* The list is part of what is pending.
LEMMA ListedIsPending == IInv => tasks_ \subseteq Pending
<1> SUFFICES ASSUME IInv, NEW t \in tasks_ PROVE t \in Pending
  OBVIOUS
<1>1. t \in Tasks
  BY DEF IInv, OwnTypeOK
<1>2. asked[t] # NoHost /\ At(t, 3) /\ reports[t] \in {0, 1}
  BY <1>1 DEF IInv, IsPlaced, IsFinished, At
<1> QED
  BY <1>1, <1>2 DEF IInv, Started, At, Pending

\* Between requests, with all tasks settled, the loop has nothing to start, so
\* that the size the check reads is that of all that is pending.
LEMMA CheckIsExact ==
  ASSUME IInv, httpPc = "idle", \A t \in accepted : Settled(t)
  PROVE  loopQueue = <<>> /\ Pending \subseteq tasks_
<1>1. ASSUME NEW t \in accepted, t \notin tasks_
      PROVE  ~ Queued(t) /\ t \notin Pending
  <2>1. t \in Tasks /\ reports[t] \in {0, 1}
    BY <1>1 DEF IInv, OwnTypeOK, IsFinished
  <2>2. t \in resp \/ reports[t] = 1 \/ result[t] = "error"
    BY <1>1, <2>1 DEF Settled
  <2> QED
    BY <2>1, <2>2 DEF IInv, IsPlaced, At, Pending
<1>2. unbuilt = {} /\ ctxs = {} /\ ~ Queued(Drain)
  BY DEF IInv, HttpThread
<1>3. ASSUME NEW t \in Tasks PROVE ~ Queued(t)
  <2>1. Queued(t) => t \in accepted /\ t \notin tasks_
    BY DEF IInv, IsPlaced, At, Started
  <2> QED
    BY <1>1, <2>1
<1>4. loopQueue = <<>>
  <2> SUFFICES ASSUME loopQueue # <<>> PROVE FALSE
    OBVIOUS
  <2>1. loopQueue \in Seq(Tasks \cup {Drain})
    BY Typed DEF TypeOK, Loop!TypeOK
  <2>2. 1 \in 1 .. Len(loopQueue) /\ loopQueue[1] \in Tasks \cup {Drain}
    BY <2>1, EmptySeq, LenProperties, ElementOfSeq
  <2>3. Queued(loopQueue[1])
    BY <2>2 DEF Queued
  <2> QED
    BY <1>2, <1>3, <2>2, <2>3
<1>5. Pending \subseteq tasks_
  BY <1>1, <1>2 DEF Pending
<1> QED
  BY <1>4, <1>5

\* A request that is admitted fits, together with what is pending.
LEMMA AdmittedFits ==
  ASSUME IInv, PendingFits, NEW B \in SUBSET Tasks, FetchRequest(B),
         IsFiniteSet(B), \A t \in accepted : Settled(t)
  PROVE  PendingFits'
<1>1. /\ httpPc = "idle" /\ UNCHANGED <<ctxs, resp, accepted, reports, result>>
  BY DEF FetchRequest, resolverVars
<1>2. PICK admits \in BOOLEAN :
        /\ SizeCheck(B, admits)
        /\ IF admits THEN unbuilt' = B ELSE unbuilt' = unbuilt
  BY DEF FetchRequest
<1>3. CASE ~ admits
  BY <1>1, <1>2, <1>3 DEF PendingFits, Pending
<1>4. CASE admits
  <2>1. loopQueue = <<>> /\ Pending \subseteq tasks_ /\ tasks_ \subseteq Pending
    BY <1>1, CheckIsExact, ListedIsPending
  <2>2. Cardinality(tasks_) + Cardinality(B) <= kMaxTasksCnt
    BY <1>2, <1>4, <2>1 DEF SizeCheck
  <2>3. Pending' \subseteq tasks_ \cup B
    BY <1>1, <1>2, <1>4, <2>1 DEF Pending
  <2>4. IsFiniteSet(tasks_) /\ Cardinality(tasks_) \in Nat /\ Cardinality(B) \in Nat
    <3>1. IsFiniteSet(tasks_)
      BY <2>1, FS_Subset DEF PendingFits
    <3> QED
      BY <3>1, FS_CardinalityType
  <2>5. /\ IsFiniteSet(tasks_ \cup B)
        /\ Cardinality(tasks_ \cup B)
             = Cardinality(tasks_) + Cardinality(B) - Cardinality(tasks_ \cap B)
    BY <2>4, FS_Union
  <2>6. IsFiniteSet(tasks_ \cap B) /\ Cardinality(tasks_ \cap B) \in Nat
    BY <2>4, FS_Intersection, FS_CardinalityType
  <2>7. /\ IsFiniteSet(Pending')
        /\ Cardinality(Pending') <= Cardinality(tasks_ \cup B)
        /\ Cardinality(Pending') \in Nat
    BY <2>3, <2>5, FS_Subset, FS_CardinalityType
  <2> QED
    BY <2>2, <2>4, <2>5, <2>6, <2>7, FetcherAssumption DEF PendingFits
<1> QED
  BY <1>3, <1>4

\* No other step adds to what is pending.
LEMMA PendingShrinks ==
  ASSUME IInv, IInv', [Next]_vars, \A B \in SUBSET Tasks : ~ FetchRequest(B)
  PROVE  Pending' \subseteq Pending
<1> SUFFICES ASSUME NEW t \in Pending' PROVE t \in Pending
  OBVIOUS
<1>1. /\ t \in accepted' \cup unbuilt' \cup ctxs'
      /\ t \notin resp' /\ reports'[t] = 0 /\ result'[t] # "error"
  BY DEF Pending
<1>2. t \in Tasks
  BY <1>1 DEF IInv, OwnTypeOK
<1>3. t \in accepted \cup unbuilt \cup ctxs
  BY <1>1 DEF Next, HttpNext, ResolverNext, LoopNext, BuildTask, AddTask, BuildFails, FetchReply,
     ResultRequest, ResultReply, ResolverCb, Answer, EvCb, FinishAnswer, FinishCached, Tick,
     ResolverStep, StartTask, TransferDone, RunDrain, vars, httpVars
<1>4. t \notin resp /\ reports[t] = 0
  <2>1. CASE ResultReply
    BY <1>1, <1>2, <2>1 DEF ResultReply, IInv, OwnTypeOK
  <2>2. CASE RunDrain
    BY <1>1, <2>2, CallTaken DEF RunDrain, IInv, HttpThread
  <2>3. CASE ~ ResultReply /\ ~ RunDrain
    <3>1. resp' = resp /\ reports' = reports
      BY <2>3 DEF Next, HttpNext, ResolverNext, LoopNext, BuildTask, AddTask, BuildFails,
         FetchReply, ResultRequest, ResolverCb, Answer, EvCb, FinishAnswer, FinishCached, Tick,
         ResolverStep, StartTask, TransferDone, vars, httpVars
    <3> QED
      BY <1>1, <3>1
  <2> QED
    BY <2>1, <2>2, <2>3
<1>5. result[t] # "error"
  <2>1. ASSUME NEW u \in Tasks, ResolverCb(u) PROVE result[t] # "error"
    <3>1. calls[u] = 0
      BY <2>1, FetcherAssumption
         DEF ResolverCb, R!RunCallback, IInv, RP!IInv, RP!Locked, RP!Counted
    <3>2. result[u] = "none"
      BY <3>1 DEF IInv, IsFinished
    <3>3. t # u => result'[t] = result[t]
      BY <1>2, <2>1, Typed DEF ResolverCb, R!RunCallback, TypeOK, R!TypeOK
    <3> QED
      BY <1>1, <3>2, <3>3
  <2>2. CASE \A u \in Tasks : ~ ResolverCb(u)
    <3>1. result' = result
      BY <2>2 DEF Next, HttpNext, ResolverNext, LoopNext, BuildTask, AddTask, BuildFails,
         FetchReply, ResultRequest, ResultReply, Answer, EvCb, FinishAnswer, FinishCached, Tick,
         ResolverStep, StartTask, TransferDone, RunDrain, vars, resolverVars, R!Resolve,
         R!Answer, R!EvCb, R!FinishAnswer, R!FinishCached, R!Tick
    <3> QED
      BY <1>1, <3>1
  <2> QED
    BY <2>1, <2>2
<1> QED
  BY <1>3, <1>4, <1>5 DEF Pending

\* "Too many pending tasks" is kept by clients that send one request at a time:
\* the list outgrows its limit only when the check reads it too early.
THEOREM SerialRequestsAreBounded == SerialSpec => []PendingTasksAreBounded
<1>1. Init => PendingFits
  <2> SUFFICES ASSUME Init PROVE PendingFits
    OBVIOUS
  <2>1. Pending = {}
    BY DEF Init, Pending
  <2> QED
    BY <2>1, FS_EmptySet, FetcherAssumption DEF PendingFits
<1>2. SerialNext => Next
  BY DEF SerialNext
<1>3. IInv /\ IInv' /\ PendingFits /\ [SerialNext]_vars => PendingFits'
  <2> SUFFICES ASSUME IInv, IInv', PendingFits, [SerialNext]_vars PROVE PendingFits'
    OBVIOUS
  <2>1. ASSUME NEW B \in SUBSET Tasks, FetchRequest(B) PROVE PendingFits'
    <3>1. CASE SerialNext
      <4>1. IsFiniteSet(B) /\ \A t \in accepted : Settled(t)
        BY <2>1, <3>1 DEF SerialNext
      <4> QED
        BY <2>1, <4>1, AdmittedFits
    <3>2. CASE UNCHANGED vars
      BY <3>2 DEF vars, httpVars, resolverVars, PendingFits, Pending
    <3> QED
      BY <3>1, <3>2
  <2>2. CASE \A B \in SUBSET Tasks : ~ FetchRequest(B)
    <3>1. Pending' \subseteq Pending
      BY <1>2, <2>2, PendingShrinks
    <3>2. /\ IsFiniteSet(Pending') /\ Cardinality(Pending') <= Cardinality(Pending)
          /\ Cardinality(Pending') \in Nat /\ Cardinality(Pending) \in Nat
      BY <3>1, FS_Subset, FS_CardinalityType DEF PendingFits
    <3> QED
      BY <3>2, FetcherAssumption DEF PendingFits
  <2> QED
    BY <2>1, <2>2
<1>4. IInv /\ PendingFits => PendingTasksAreBounded
  <2> SUFFICES ASSUME IInv, PendingFits PROVE PendingTasksAreBounded
    OBVIOUS
  <2>1. /\ Cardinality(tasks_) <= Cardinality(Pending)
        /\ Cardinality(tasks_) \in Nat /\ Cardinality(Pending) \in Nat
    BY ListedIsPending, FS_Subset, FS_CardinalityType DEF PendingFits
  <2> QED
    BY <2>1, FetcherAssumption DEF PendingFits, PendingTasksAreBounded
<1> QED
  BY <1>1, <1>2, <1>3, <1>4, InitIInv, NextIInv, PTL DEF SerialSpec
=============================================================================
