------------------------ MODULE FetcherServerProofs -------------------------
(***************************************************************************)
(* Theorems about FetcherServer, for any sets of requests.                 *)
(***************************************************************************)
EXTENDS FetcherServer, TLAPS

WithoutLoop == {"joined", "noCurl", "noTasks", "noEs", "noNotify", "exited"}

\* Past the join there is no loop thread ...
LoopIsJoined == pc \in WithoutLoop => loopPc = "ended"

\* ... so nothing gives curl a task once it is cleaned up,
CurlIsEmpty == pc \in WithoutLoop \ {"joined"} => multi = {}

\* and without a server no lookup begins: those that may still call back were
\* open when es_ was destroyed, until evdns is freed with what it holds.
LookupsAreLate ==
  /\ pc \in {"noEs", "noNotify"} => lookups \subseteq late
  /\ pc = "exited" => lookups = {}

IInv ==
  TypeOK /\ LoopIsJoined /\ CurlIsEmpty /\ LookupsAreLate /\ NoUseAfterDestruction

USE DEF Phases, WithoutLoop, serverVars, fetcherVars, threadVars

\* Everything exists, and nothing runs yet.
LEMMA InitIInv == ASSUME Init PROVE IInv
BY DEF Init, IInv, TypeOK, LoopIsJoined, CurlIsEmpty, LookupsAreLate,
       NoUseAfterDestruction

\* While the HTTP server exists, so do all threads and all members.
LEMMA HttpStep == ASSUME IInv, HttpNext PROVE IInv'
<1> USE DEF IInv, TypeOK, LoopIsJoined, CurlIsEmpty, LookupsAreLate,
            NoUseAfterDestruction, Requests
<1>1. CASE Bind
  BY <1>1 DEF Bind
<1>2. CASE Stop
  BY <1>2 DEF Stop
<1>3. CASE RunReturns
  BY <1>3 DEF RunReturns
<1>4. CASE DispatchFails
  BY <1>4 DEF DispatchFails
<1>5. CASE FreeServer
  BY <1>5 DEF FreeServer
<1>6. ASSUME NEW r \in Requests, Accept(r) PROVE IInv'
  BY <1>6 DEF Accept
<1>7. ASSUME NEW r \in Requests, ConnectionCloses(r) PROVE IInv'
  BY <1>7 DEF ConnectionCloses
<1>8. ASSUME NEW r \in Fetches, HandleFetch(r) PROVE IInv'
  BY <1>8 DEF HandleFetch
<1>9. ASSUME NEW r \in Results, HandleResult(r) PROVE IInv'
  BY <1>9 DEF HandleResult
<1> QED
  BY <1>1, <1>2, <1>3, <1>4, <1>5, <1>6, <1>7, <1>8, <1>9 DEF HttpNext

\* The loop thread runs only while everything it uses exists; the resolver's
\* thread meets a destroyed es_ only with a lookup that is late.
LEMMA ThreadsStep == ASSUME IInv, ThreadsNext PROVE IInv'
<1> USE DEF IInv, TypeOK, LoopIsJoined, CurlIsEmpty, LookupsAreLate,
            NoUseAfterDestruction
<1>1. ASSUME NEW t \in Fetches, ResolverCb(t) PROVE IInv'
  <2>1. lookups' \subseteq lookups
    BY <1>1 DEF ResolverCb
  <2>2. ~ EsAlive => pc \in {"noEs", "noNotify"} /\ late # {}
    BY <1>1 DEF ResolverCb, EsAlive
  <2> QED
    BY <1>1, <2>1, <2>2 DEF ResolverCb, Requests, EsAlive
<1>2. loopPc = "running" /\ pc \notin {"broken", "misused"} => CurlAlive
  BY DEF CurlAlive, EsAlive
<1>3. ASSUME NEW t \in Fetches, TransferDone(t) PROVE IInv'
  BY <1>2, <1>3 DEF TransferDone
<1>4. CASE RunCall
  <2>1. Head(loopQueue) \in Requests /\ Tail(loopQueue) \in Seq(Requests)
    BY <1>4 DEF RunCall
  <2>2. pc' = pc /\ pc \notin WithoutLoop
    BY <1>2, <1>4 DEF RunCall
  <2>3. CASE Head(loopQueue) \in Fetches
    BY <1>4, <2>1, <2>2, <2>3 DEF RunCall
  <2>4. CASE Head(loopQueue) \notin Fetches
    BY <1>4, <2>1, <2>2, <2>4 DEF RunCall, Requests
  <2> QED
    BY <2>3, <2>4
<1>5. CASE LoopEnds
  BY <1>5 DEF LoopEnds
<1>6. CASE ResolverEnds
  BY <1>6 DEF ResolverEnds
<1> QED
  BY <1>1, <1>3, <1>4, <1>5, <1>6 DEF ThreadsNext

\* Each step down relies on what the one before it has stopped.
LEMMA FetcherStep == ASSUME IInv, FetcherNext PROVE IInv'
<1> USE DEF IInv, TypeOK, LoopIsJoined, CurlIsEmpty, LookupsAreLate,
            NoUseAfterDestruction
<1>1. CASE ExitLoop
  BY <1>1 DEF ExitLoop
<1>2. CASE JoinLoop
  BY <1>2 DEF JoinLoop
<1>3. CASE CleanupCurl
  BY <1>3 DEF CleanupCurl
<1>4. CASE FreeTasks
  BY <1>4 DEF FreeTasks
<1>5. CASE FreeEs
  BY <1>5 DEF FreeEs
<1>6. CASE StopResolver
  BY <1>6 DEF StopResolver
<1>7. CASE JoinResolver
  BY <1>7 DEF JoinResolver
<1> QED
  BY <1>1, <1>2, <1>3, <1>4, <1>5, <1>6, <1>7 DEF FetcherNext

\* Every step of main or of a thread keeps the invariant.
LEMMA NextIInv == ASSUME IInv, [Next]_vars PROVE IInv'
<1>1. CASE UNCHANGED vars
  BY <1>1 DEF vars, IInv, TypeOK, LoopIsJoined, CurlIsEmpty, LookupsAreLate,
              NoUseAfterDestruction
<1> QED
  BY <1>1, HttpStep, ThreadsStep, FetcherStep DEF Next

\* Main, its connections, the queues and the threads are where their types say;
\* curl holds no context that was freed.
THEOREM TypeCorrect == Spec => []TypeOK
<1>1. Init => IInv
  BY InitIInv
<1>2. IInv /\ [Next]_vars => IInv'
  BY NextIInv
<1>3. IInv => TypeOK
  BY DEF IInv
<1> QED
  BY <1>1, <1>2, <1>3, PTL DEF Spec

\* What is destroyed is not used, for any number of clients and tasks, in
\* whatever state the end of main finds them, but for lookups that were open
\* when es_ went.
THEOREM DestructionIsSafe == Spec => []NoUseAfterDestruction
<1>1. Init => IInv
  BY InitIInv
<1>2. IInv /\ [Next]_vars => IInv'
  BY NextIInv
<1>3. IInv => NoUseAfterDestruction
  BY DEF IInv
<1> QED
  BY <1>1, <1>2, <1>3, PTL DEF Spec
=============================================================================
