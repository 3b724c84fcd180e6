-------------------------- MODULE SocketWatchProofs --------------------------
(***************************************************************************)
(* Theorems about SocketWatch, for any sockets and number of transfers.    *)
(***************************************************************************)
EXTENDS SocketWatch, TLAPS

\* What event_cb remembers of curl_multi_socket_action is still true when it
\* stops the timer: check_multi_info ends no transfer and starts none.
CountIsCurrent == stage = "info" => still_running = alive

StageIsSet == (stage = "none") <=> (running = NoHandle)

IInv ==
  TypeOK /\ WatchesWhatCurlWants /\ TimeoutsAreKept /\ CountIsCurrent /\ StageIsSet

\* The watched handles, one by one.
LEMMA Pointwise ==
  (pending \ {Timer} = UNION {HandlesOf(s, want[s]) : s \in Sockets})
    <=> \A h : h \in pending /\ h # Timer
                 <=> \E s \in Sockets : h \in HandlesOf(s, want[s])
OBVIOUS

\* Curl waits for nothing, and nothing is started.
LEMMA InitIInv == ASSUME Init PROVE IInv
<1>1. TypeOK
  BY DEF Init, TypeOK
<1>2. WatchesWhatCurlWants
  <2>1. \A s \in Sockets : want[s] = {} /\ HandlesOf(s, want[s]) = {}
    BY DEF Init, HandlesOf
  <2> QED
    BY <2>1 DEF Init, WatchesWhatCurlWants
<1>3. TimeoutsAreKept /\ CountIsCurrent /\ StageIsSet
  BY DEF Init, TimeoutsAreKept, CountIsCurrent, StageIsSet
<1> QED
  BY <1>1, <1>2, <1>3 DEF IInv

\* A socket's handles are those curl's last call for it asked for; the others'
\* are as they were.
LEMMA SocketCbStep ==
  ASSUME IInv, NEW s \in Sockets, NEW dirs \in SUBSET Dirs, SocketCb(s, dirs),
         stage # "none"
  PROVE  IInv'
<1>1. /\ want \in [Sockets -> SUBSET Dirs]
      /\ want' = [want EXCEPT ![s] = dirs]
      /\ \A h : h \in pending /\ h # Timer
                 <=> \E t \in Sockets : h \in HandlesOf(t, want[t])
      /\ Timer \notin SocketHandles
  BY Pointwise, SocketWatchAssumption DEF IInv, TypeOK, WatchesWhatCurlWants, SocketCb
<1>2. \A t \in Sockets : want'[t] = IF t = s THEN dirs ELSE want[t]
  BY <1>1
<1>3. /\ pending' \in SUBSET (SocketHandles \cup {Timer})
      /\ active' \in SUBSET pending'
      /\ Timer \in pending' <=> Timer \in pending
  BY <1>1 DEF IInv, TypeOK, SocketCb, HandlesOf, SocketHandles
<1>4. \A h : h \in pending' /\ h # Timer
               <=> \E t \in Sockets : h \in HandlesOf(t, want'[t])
  <2>1. \A t \in Sockets, d \in Dirs :
          <<t, d>> \in pending' <=> d \in want'[t]
    BY <1>1, <1>2 DEF SocketCb, HandlesOf, SocketHandles
  <2> QED
    BY <1>1, <1>2, <1>3, <2>1 DEF HandlesOf, SocketHandles
<1>5. sock_ctx' = {t \in Sockets : want'[t] # {}}
  BY <1>2 DEF IInv, WatchesWhatCurlWants, SocketCb
<1>6. WatchesWhatCurlWants'
  BY <1>4, <1>5 DEF WatchesWhatCurlWants
<1>7. TypeOK'
  BY <1>1, <1>2, <1>3 DEF IInv, TypeOK, SocketCb, callbackVars
<1> QED
  BY <1>3, <1>6, <1>7
     DEF IInv, TimeoutsAreKept, CountIsCurrent, StageIsSet, SocketCb, callbackVars

\* A socket curl is done with loses its handles and its SocketCtx.
LEMMA SocketCbRemoveStep ==
  ASSUME IInv, NEW s \in Sockets, SocketCbRemove(s)
  PROVE  IInv'
<1>1. /\ want \in [Sockets -> SUBSET Dirs]
      /\ want' = [want EXCEPT ![s] = {}]
      /\ \A h : h \in pending /\ h # Timer
                 <=> \E t \in Sockets : h \in HandlesOf(t, want[t])
      /\ Timer \notin SocketHandles
  BY Pointwise, SocketWatchAssumption
     DEF IInv, TypeOK, WatchesWhatCurlWants, SocketCbRemove
<1>2. \A t \in Sockets : want'[t] = IF t = s THEN {} ELSE want[t]
  BY <1>1
<1>3. /\ pending' \in SUBSET (SocketHandles \cup {Timer})
      /\ active' \in SUBSET pending'
      /\ Timer \in pending' <=> Timer \in pending
  BY <1>1 DEF IInv, TypeOK, SocketCbRemove, HandlesOf, SocketHandles
<1>4. \A h : h \in pending' /\ h # Timer
               <=> \E t \in Sockets : h \in HandlesOf(t, want'[t])
  <2>1. \A t \in Sockets, d \in Dirs :
          <<t, d>> \in pending' <=> d \in want'[t]
    BY <1>1, <1>2 DEF SocketCbRemove, HandlesOf, SocketHandles
  <2> QED
    BY <1>1, <1>2, <1>3, <2>1 DEF HandlesOf, SocketHandles
<1>5. sock_ctx' = {t \in Sockets : want'[t] # {}}
  BY <1>2 DEF IInv, WatchesWhatCurlWants, SocketCbRemove
<1>6. WatchesWhatCurlWants'
  BY <1>4, <1>5 DEF WatchesWhatCurlWants
<1>7. TypeOK'
  BY <1>1, <1>2, <1>3 DEF IInv, TypeOK, SocketCbRemove, callbackVars
<1> QED
  BY <1>3, <1>6, <1>7
     DEF IInv, TimeoutsAreKept, CountIsCurrent, StageIsSet, SocketCbRemove, callbackVars

\* Steps that touch no socket's handles move only the timer in and out.
LEMMA OthersKeepWatch ==
  ASSUME WatchesWhatCurlWants, want' = want, sock_ctx' = sock_ctx,
         pending' \ {Timer} = pending \ {Timer}
  PROVE  WatchesWhatCurlWants'
BY DEF WatchesWhatCurlWants

\* Curl's wishes for a timeout move only the timer.
LEMMA TimerStep ==
  ASSUME IInv, StartTask \/ (stage # "none" /\ (TimerCb \/ TimerCbCancel))
  PROVE  IInv'
<1>1. WatchesWhatCurlWants'
  BY OthersKeepWatch DEF IInv, StartTask, TimerCb, TimerCbCancel
<1>2. TypeOK'
  <2>1. due' \in BOOLEAN
    BY DEF StartTask, TimerCb, TimerCbCancel
  <2>2. alive' \in Nat
    BY DEF IInv, TypeOK, StartTask, TimerCb, TimerCbCancel
  <2>3. pending' \in SUBSET (SocketHandles \cup {Timer}) /\ active' \in SUBSET pending'
    BY DEF IInv, TypeOK, StartTask, TimerCb, TimerCbCancel
  <2>4. UNCHANGED <<want, sock_ctx, running, stage, still_running>>
    BY DEF StartTask, TimerCb, TimerCbCancel, callbackVars
  <2> QED
    BY <2>1, <2>2, <2>3, <2>4 DEF IInv, TypeOK
<1>3. TimeoutsAreKept'
  BY DEF IInv, TimeoutsAreKept, StartTask, TimerCb, TimerCbCancel
<1>4. CountIsCurrent' /\ StageIsSet'
  BY DEF IInv, CountIsCurrent, StageIsSet, StartTask, TimerCb, TimerCbCancel, callbackVars
<1> QED
  BY <1>1, <1>2, <1>3, <1>4 DEF IInv

\* The loop's own steps, and those of curl that touch no handle. What becomes of the
\* timer is decided by a count that is still right.
LEMMA LoopStep ==
  ASSUME IInv,
         \/ \E h \in SocketHandles \cup {Timer} : Fires(h) \/ Dispatch(h)
         \/ TransferEnds \/ ActionReturns \/ CallbackReturns
  PROVE  IInv'
<1>1. WatchesWhatCurlWants'
  BY OthersKeepWatch
     DEF IInv, Fires, Dispatch, TransferEnds, ActionReturns, CallbackReturns, curlVars
<1>2. ASSUME NEW h \in SocketHandles \cup {Timer}, Fires(h) PROVE IInv'
  BY <1>1, <1>2 DEF IInv, TypeOK, TimeoutsAreKept, CountIsCurrent, StageIsSet,
                    Fires, curlVars, callbackVars
<1>3. ASSUME NEW h \in SocketHandles \cup {Timer}, Dispatch(h) PROVE IInv'
  BY <1>1, <1>3, SocketWatchAssumption
     DEF IInv, TypeOK, TimeoutsAreKept, CountIsCurrent, StageIsSet, Dispatch
<1>4. CASE TransferEnds
  BY <1>1, <1>4 DEF IInv, TypeOK, TimeoutsAreKept, CountIsCurrent, StageIsSet,
                    TransferEnds, callbackVars
<1>5. CASE ActionReturns
  BY <1>1, <1>5 DEF IInv, TypeOK, TimeoutsAreKept, CountIsCurrent, StageIsSet,
                    ActionReturns, curlVars
<1>6. CASE CallbackReturns
  BY <1>1, <1>6 DEF IInv, TypeOK, TimeoutsAreKept, CountIsCurrent, StageIsSet,
                    CallbackReturns, curlVars
<1> QED
  BY <1>2, <1>3, <1>4, <1>5, <1>6

\* The invariant holds in every reachable state of the fetcher's loop.
THEOREM Invariance == Spec => []IInv
<1>1. IInv /\ [Next]_vars => IInv'
  <2> SUFFICES ASSUME IInv, [Next]_vars PROVE IInv'
    OBVIOUS
  <2>1. CASE UNCHANGED vars
    BY <2>1 DEF vars, IInv, TypeOK, WatchesWhatCurlWants, TimeoutsAreKept,
                CountIsCurrent, StageIsSet
  <2>2. CASE StartTask
    BY <2>2, TimerStep
  <2>3. CASE CurlNext
    BY <2>3, SocketCbStep, SocketCbRemoveStep, TimerStep, LoopStep DEF CurlNext
  <2>4. CASE \/ \E h \in SocketHandles \cup {Timer} : Fires(h) \/ Dispatch(h)
             \/ ActionReturns \/ CallbackReturns
    BY <2>4, LoopStep
  <2> QED
    BY <2>1, <2>2, <2>3, <2>4 DEF Next
<1> QED
  BY <1>1, InitIInv, PTL DEF Spec

\* Handles that fire are started, and everything has its type.
THEOREM TypeCorrect == Spec => []TypeOK
BY Invariance, PTL DEF IInv

\* The loop watches what curl waits for, and holds a SocketCtx for just those
\* sockets.
THEOREM CurlIsWatched == Spec => []WatchesWhatCurlWants
BY Invariance, PTL DEF IInv

\* The timer is not taken away from running transfers.
THEOREM NoTimeoutIsLost == Spec => []TimeoutsAreKept
BY Invariance, PTL DEF IInv
=============================================================================
