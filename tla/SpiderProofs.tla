---------------------------- MODULE SpiderProofs -----------------------------
(***************************************************************************)
(* Theorems about Spider, for every table, limit and number of failures.   *)
(***************************************************************************)
EXTENDS Spider, TLAPS

\* A row that this scan has yet to ask for has no task of this scan, nor has
\* the row that is being asked for: its requests so far created nothing.
NotAskedYet == pc \in {"rows", "posting", "backoff"} => \A u \in rows : made[u] = 0

AskingNow ==
  pc \in {"posting", "backoff"} => uri \in Uris \ rows /\ made[uri] = 0

IInv == TypeOK /\ OneTaskPerScan /\ NotAskedYet /\ AskingNow

\* No scan has begun, and nothing was asked for.
LEMMA InitIInv == Init => IInv
BY SpiderAssumption
   DEF Init, IInv, TypeOK, OneTaskPerScan, NotAskedYet, AskingNow, NoTasks

\* fetch() is done with its row, with one task more: the row was in no other
\* request of the scan, so that one is its first.
LEMMA CreateOnce ==
  ASSUME IInv, pc = "posting", Create(uri)
  PROVE  /\ resolving' \in [Uris -> Nat]
         /\ made' \in [Uris -> Nat]
         /\ OneTaskPerScan'
         /\ \A u \in rows : made'[u] = 0
<1>1. uri \in Uris /\ uri \notin rows /\ made[uri] = 0
  BY DEF IInv, AskingNow
<1>2. /\ made' = [made EXCEPT ![uri] = @ + 1]
      /\ resolving' = [resolving EXCEPT ![uri] = @ + 1]
  BY DEF Create, Added
<1>3. /\ made \in [Uris -> Nat] /\ resolving \in [Uris -> Nat] /\ rows \subseteq Uris
      /\ \A u \in Uris : made[u] <= 1
      /\ \A u \in rows : made[u] = 0
  BY DEF IInv, TypeOK, OneTaskPerScan, NotAskedYet
<1>4. \A u \in Uris : made'[u] = IF u = uri THEN 1 ELSE made[u]
  BY <1>1, <1>2, <1>3
<1> QED
  BY <1>1, <1>2, <1>3, <1>4 DEF OneTaskPerScan

\* Scheduler's own steps: a row is asked for once it leaves the scan's list.
LEMMA SchedulerStep == ASSUME IInv, SchedulerNext PROVE IInv'
<1> USE DEF IInv, TypeOK, OneTaskPerScan, NotAskedYet, AskingNow,
            fetcherVars, parserVars
<1>1. CASE OpenScan
  BY <1>1 DEF OpenScan, NoTasks
<1>2. CASE \E u \in Uris : NextRow(u)
  BY <1>2 DEF NextRow
<1>3. CASE EndScan
  BY <1>3 DEF EndScan
<1>4. CASE PostAccepted
  BY <1>4, CreateOnce DEF PostAccepted, Create
<1>5. CASE PostRefused
  BY <1>5 DEF PostRefused
<1>6. CASE Retry
  BY <1>6 DEF Retry
<1> QED
  BY <1>1, <1>2, <1>3, <1>4, <1>5, <1>6 DEF SchedulerNext

\* What the fetcher and Parser do leaves Scheduler alone.
LEMMA OtherStep == ASSUME IInv, FetcherNext \/ ParserNext PROVE IInv'
<1> USE DEF IInv, TypeOK, OneTaskPerScan, NotAskedYet, AskingNow, schedulerVars,
            fetcherVars
<1>1. ASSUME NEW u \in Uris, StartTask(u) PROVE IInv'
  <2>1. resolving' \in [Uris -> Nat] /\ busy' \in [Uris -> Nat]
    BY <1>1 DEF StartTask, Added, Taken
  <2> QED
    BY <1>1, <2>1 DEF StartTask, parserVars
<1>2. ASSUME NEW u \in Uris, TransferDone(u) PROVE IInv'
  <2>1. busy' \in [Uris -> Nat] /\ ready' \in [Uris -> Nat]
    BY <1>2 DEF TransferDone, Added, Taken
  <2> QED
    BY <1>2, <2>1 DEF TransferDone, parserVars
<1>3. CASE Poll
  BY <1>3 DEF Poll, NoTasks
<1>4. CASE \E u \in Uris : Store(u)
  BY <1>4 DEF Store
<1>5. CASE BatchDone
  BY <1>5 DEF BatchDone
<1> QED
  BY <1>1, <1>2, <1>3, <1>4, <1>5 DEF FetcherNext, ParserNext

\* A failure ends a thread, loses an answer or restarts the fetcher; none lets
\* Scheduler ask again for a page it has a task for.
LEMMA FaultStep == ASSUME IInv, FaultNext PROVE IInv'
<1> USE DEF IInv, TypeOK, OneTaskPerScan, NotAskedYet, AskingNow
<1>0. Fault => faults' \in 0 .. MaxFaults
  BY SpiderAssumption DEF Fault
<1>1. CASE SchedulerDies
  BY <1>0, <1>1 DEF SchedulerDies, fetcherVars, parserVars
<1>2. CASE PostReplyLost
  BY <1>0, <1>2, CreateOnce DEF PostReplyLost, Create, parserVars
<1>3. ASSUME NEW u \in Uris, LookupFails(u) PROVE IInv'
  <2>1. resolving' \in [Uris -> Nat]
    BY <1>3 DEF LookupFails, Taken
  <2> QED
    BY <1>0, <1>3, <2>1 DEF LookupFails, schedulerVars, parserVars
<1>4. CASE Restart
  BY <1>0, <1>4 DEF Restart, NoTasks, schedulerVars, parserVars
<1>5. CASE PollReplyLost
  BY <1>0, <1>5 DEF PollReplyLost, NoTasks, schedulerVars, parserVars
<1>6. CASE ParserDies
  BY <1>0, <1>6 DEF ParserDies, schedulerVars, fetcherVars
<1> QED
  BY <1>1, <1>2, <1>3, <1>4, <1>5, <1>6 DEF FaultNext

\* Every step of the system keeps the invariant.
LEMMA NextIInv == IInv /\ [Next]_vars => IInv'
<1>1. IInv /\ UNCHANGED vars => IInv'
  BY DEF vars, schedulerVars, fetcherVars, parserVars,
         IInv, TypeOK, OneTaskPerScan, NotAskedYet, AskingNow
<1> QED
  BY <1>1, SchedulerStep, OtherStep, FaultStep DEF Next

\* The invariant holds in every reachable state.
THEOREM Invariance == Spec => []IInv
BY InitIInv, NextIInv, PTL DEF Spec

\* Rows, counts and program counters have their types.
THEOREM TypeCorrect == Spec => []TypeOK
BY Invariance, PTL DEF IInv

\* A scan creates at most one task for a page, although fetch() repeats its
\* request until it is taken.
THEOREM PagesAreAskedForOnce == Spec => []OneTaskPerScan
BY Invariance, PTL DEF IInv

-----------------------------------------------------------------------------
(* Where the error about stored pages stops                                *)

\* Every transfer that ends, ends with a page.
LoadingNext == Next /\ \A u \in Uris : TransferDone(u) => u \in loaded'

LoadingSpec == Init /\ [][LoadingNext]_vars

\* What is on its way to the table was loaded.
OnlyPages ==
  /\ \A u \in Uris : ready[u] > 0 => u \in loaded
  /\ batch \subseteq loaded
  /\ stored \subseteq loaded

\* A page comes to the table from a result, and there from the transfer.
LEMMA OnlyPagesStep == IInv /\ OnlyPages /\ [LoadingNext]_vars => OnlyPages'
<1> SUFFICES ASSUME IInv, OnlyPages, [LoadingNext]_vars PROVE OnlyPages'
  OBVIOUS
<1> USE DEF OnlyPages
<1>1. ASSUME NEW u \in Uris, TransferDone(u), LoadingNext PROVE OnlyPages'
  <2>1. u \in loaded' /\ loaded \subseteq loaded'
    BY <1>1 DEF LoadingNext, TransferDone
  <2>2. batch' = batch /\ stored' = stored
    BY <1>1 DEF TransferDone, parserVars
  <2>3. \A v \in Uris : v # u => ready'[v] = ready[v]
    BY <1>1 DEF TransferDone, Added, IInv, TypeOK
  <2> QED
    BY <2>1, <2>2, <2>3
<1>2. CASE Poll
  BY <1>2 DEF Poll, NoTasks
<1>3. ASSUME NEW u \in Uris, Store(u) PROVE OnlyPages'
  BY <1>3 DEF Store, fetcherVars
<1>4. CASE PollReplyLost \/ Restart
  BY <1>4 DEF PollReplyLost, Restart, NoTasks, parserVars
<1>5. ASSUME SchedulerNext \/ BatchDone \/ SchedulerDies \/ PostReplyLost \/ ParserDies
             \/ (\E u \in Uris : StartTask(u) \/ LookupFails(u)) \/ UNCHANGED vars
      PROVE  OnlyPages'
  <2>1. ready' = ready /\ batch' = batch /\ stored' = stored /\ loaded' = loaded
    BY <1>5 DEF SchedulerNext, OpenScan, NextRow, EndScan, PostAccepted, PostRefused, Retry,
       Create, BatchDone, SchedulerDies, PostReplyLost, ParserDies, StartTask, LookupFails,
       vars, fetcherVars, parserVars
  <2> QED
    BY <2>1
<1> QED
  BY <1>1, <1>2, <1>3, <1>4, <1>5
     DEF LoadingNext, Next, FetcherNext, ParserNext, FaultNext

\* StoredPagesWereLoaded fails for transfers that fail, and for nothing else:
\* lost answers, restarts and threads that die make no page of what is none.
THEOREM LoadedPagesAreStored == LoadingSpec => []StoredPagesWereLoaded
<1>1. Init => IInv /\ OnlyPages
  BY InitIInv DEF Init, OnlyPages, NoTasks
<1>2. LoadingNext => Next
  BY DEF LoadingNext
<1>3. IInv /\ [Next]_vars => IInv'
  BY NextIInv
<1>4. OnlyPages => StoredPagesWereLoaded
  BY DEF OnlyPages, StoredPagesWereLoaded
<1> QED
  BY <1>1, <1>2, <1>3, <1>4, OnlyPagesStep, PTL DEF LoadingSpec
=============================================================================
