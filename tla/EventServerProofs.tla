------------------------- MODULE EventServerProofs --------------------------
(***************************************************************************)
(* Proofs about EventServer for every set of handles and calls.            *)
(***************************************************************************)
EXTENDS EventServer, SequenceTheorems, TLAPS

(* The inductive invariant, in parts.                                      *)

\* Callbacks run inside the loop only.
OnlyLoopRuns == phase # "looping" => running = NoHandle

\* A batch exists only between the swap and the end of the async callback.
BatchIsRunning == running # AsyncHandle \/ ~ swapped => cbs = <<>>

IInv ==
  /\ TypeOK
  /\ OnlyLoopRuns
  /\ BatchIsRunning
  /\ NoLostWakeup

-----------------------------------------------------------------------------
(* Sequences                                                               *)

\* Handing over a call at the end of the queue appends it to batch and queue.
LEMMA ConcatAppend ==
  ASSUME NEW S, NEW s \in Seq(S), NEW t \in Seq(S), NEW e \in S
  PROVE  s \o Append(t, e) = Append(s \o t, e)
<1>1. Append(t, e) = t \o <<e>> /\ Append(s \o t, e) = (s \o t) \o <<e>>
  BY ConcatProperties, AppendIsConcat
<1>2. <<e>> \in Seq(S)
  OBVIOUS
<1> QED
  BY <1>1, <1>2, ConcatAssociative

\* Running the first call of the batch runs the first of batch and queue.
LEMMA TailConcat ==
  ASSUME NEW S, NEW s \in Seq(S), NEW t \in Seq(S), s # <<>>
  PROVE  Tail(s) \o t = Tail(s \o t) /\ s \o t # <<>>
<1>1. s \o t # <<>>
  BY ConcatEqualIffEmpty
<1>2. /\ s \o t \in Seq(S) /\ Len(s \o t) = Len(s) + Len(t)
      /\ \A i \in 1 .. Len(s) + Len(t) :
           (s \o t)[i] = IF i <= Len(s) THEN s[i] ELSE t[i - Len(s)]
  BY ConcatProperties
<1>3. /\ Tail(s) \in Seq(S) /\ Len(Tail(s)) = Len(s) - 1
      /\ \A i \in 1 .. Len(Tail(s)) : Tail(s)[i] = s[i + 1]
  BY HeadTailProperties
<1>4. /\ Tail(s \o t) \in Seq(S) /\ Len(Tail(s \o t)) = Len(s) + Len(t) - 1
      /\ \A i \in 1 .. Len(Tail(s \o t)) : Tail(s \o t)[i] = (s \o t)[i + 1]
  BY <1>1, <1>2, HeadTailProperties
<1>5. /\ Tail(s) \o t \in Seq(S)
      /\ Len(Tail(s) \o t) = Len(s) - 1 + Len(t)
      /\ \A i \in 1 .. Len(s) - 1 + Len(t) : (Tail(s) \o t)[i] =
           IF i <= Len(s) - 1 THEN Tail(s)[i] ELSE t[i - (Len(s) - 1)]
  BY <1>3, ConcatProperties
<1>6. Len(s) \in Nat /\ Len(t) \in Nat /\ Len(s) > 0
  BY EmptySeq, LenProperties
<1>7. ASSUME NEW i \in 1 .. Len(Tail(s) \o t)
      PROVE  (Tail(s) \o t)[i] = Tail(s \o t)[i]
  <2>1. CASE i <= Len(s) - 1
    BY <1>2, <1>3, <1>4, <1>5, <1>6, <2>1
  <2>2. CASE ~ (i <= Len(s) - 1)
    <3>1. (Tail(s) \o t)[i] = t[i - (Len(s) - 1)]
      BY <1>5, <1>6, <2>2
    <3>2. Tail(s \o t)[i] = t[i + 1 - Len(s)]
      BY <1>2, <1>4, <1>5, <1>6, <2>2
    <3>3. i - (Len(s) - 1) = i + 1 - Len(s)
      BY <1>5, <1>6
    <3> QED
      BY <3>1, <3>2, <3>3
  <2> QED
    BY <2>1, <2>2
<1>8. Len(Tail(s) \o t) = Len(Tail(s \o t))
  BY <1>4, <1>5, <1>6
<1> QED
  BY <1>1, <1>4, <1>5, <1>7, <1>8, SeqEqual

-----------------------------------------------------------------------------
(* Typing and the wake-up                                                  *)

\* Every step keeps the server's state well typed: what libevent is about to
\* run is started, and what is started has not been freed.
LEMMA TypeStep == TypeOK /\ [Next]_vars => TypeOK'
<1> SUFFICES ASSUME TypeOK, [Next]_vars PROVE TypeOK'
  OBVIOUS
<1> USE EventServerAssumption DEF TypeOK
<1>1. ASSUME NEW h \in Handles, AddHandle(h) PROVE TypeOK'
  BY <1>1 DEF AddHandle
<1>2. ASSUME NEW h \in Handles, Start(h) PROVE TypeOK'
  BY <1>2 DEF Start
<1>3. ASSUME NEW h \in Handles, Stop(h) PROVE TypeOK'
  BY <1>3 DEF Stop
<1>4. ASSUME NEW h \in Handles, Remove(h) PROVE TypeOK'
  BY <1>4 DEF Remove
<1>5. ASSUME NEW c \in Calls, AddAsync(c) PROVE TypeOK'
  BY <1>5, AppendProperties DEF AddAsync
<1>6. ASSUME NEW h \in Handles, EventFires(h) PROVE TypeOK'
  BY <1>6 DEF EventFires
<1>7. ASSUME NEW h \in Handles \cup {AsyncHandle}, Dispatch(h) PROVE TypeOK'
  BY <1>7 DEF Dispatch
<1>8. CASE RunCall
  BY <1>8, HeadTailProperties DEF RunCall
<1>9. CASE SwapBatch
  BY <1>9, EmptySeq DEF SwapBatch
<1>10. CASE Destroy
  BY <1>10, EmptySeq DEF Destroy
<1>11. CASE LoopStart \/ Return \/ LoopReturn \/ Exit \/ UNCHANGED vars
  BY <1>11 DEF LoopStart, Return, LoopReturn, Exit, vars
<1> QED
  BY <1>1, <1>2, <1>3, <1>4, <1>5, <1>6, <1>7, <1>8, <1>9, <1>10, <1>11
     DEF Next, HandleNext, LoopNext

\* The server's state is well typed in every reachable state.
THEOREM TypeCorrect == Spec => []TypeOK
<1>1. Init => TypeOK
  BY EventServerAssumption, EmptySeq DEF Init, TypeOK
<1> QED
  BY <1>1, TypeStep, PTL DEF Spec

\* Client handles and the loop's bookkeeping do not touch calls or async
\* handle, apart from libevent's own dispatch.
LEMMA InvStep == IInv /\ [Next]_vars => IInv'
<1> SUFFICES ASSUME IInv, [Next]_vars PROVE IInv'
  OBVIOUS
<1>0. TypeOK'
  BY TypeStep DEF IInv
<1> USE <1>0, EventServerAssumption
    DEF IInv, OnlyLoopRuns, BatchIsRunning, NoLostWakeup, TypeOK
<1>1. ASSUME NEW h \in Handles, AddHandle(h) PROVE IInv'
  BY <1>1 DEF AddHandle, InControl
<1>2. ASSUME NEW h \in Handles, Start(h) PROVE IInv'
  BY <1>2 DEF Start, InControl
<1>3. ASSUME NEW h \in Handles, Stop(h) PROVE IInv'
  BY <1>3 DEF Stop, InControl
<1>4. ASSUME NEW h \in Handles, Remove(h) PROVE IInv'
  BY <1>4 DEF Remove, InControl
<1>5. ASSUME NEW c \in Calls, AddAsync(c) PROVE IInv'
  BY <1>5 DEF AddAsync
<1>6. ASSUME NEW h \in Handles, EventFires(h) PROVE IInv'
  BY <1>6 DEF EventFires
<1>7. ASSUME NEW h \in Handles \cup {AsyncHandle}, Dispatch(h) PROVE IInv'
  BY <1>7 DEF Dispatch
<1>8. CASE SwapBatch
  BY <1>8 DEF SwapBatch
<1>9. CASE RunCall
  BY <1>9 DEF RunCall
<1>10. CASE Return
  BY <1>10 DEF Return
<1>11. CASE Destroy
  BY <1>11 DEF Destroy
<1>12. CASE LoopStart \/ LoopReturn \/ Exit \/ UNCHANGED vars
  BY <1>12 DEF LoopStart, LoopReturn, Exit, vars
<1> QED
  BY <1>1, <1>2, <1>3, <1>4, <1>5, <1>6, <1>7, <1>8, <1>9, <1>10, <1>11, <1>12
     DEF Next, HandleNext, LoopNext

\* The invariant holds in every reachable state.
THEOREM Invariance == Spec => []IInv
<1>1. Init => IInv
  BY EventServerAssumption, EmptySeq
     DEF Init, IInv, OnlyLoopRuns, BatchIsRunning, NoLostWakeup, TypeOK
<1> QED
  BY <1>1, InvStep, PTL DEF Spec

\* add_async() never leaves a call in the queue that no wake-up stands for,
\* whatever the loop does at that moment.
THEOREM NoWakeupIsLost == Spec => []NoLostWakeup
<1>1. IInv => NoLostWakeup
  BY DEF IInv
<1> QED
  BY <1>1, Invariance, PTL

-----------------------------------------------------------------------------
(* Callbacks and calls                                                     *)

\* Only Dispatch starts a callback, and what libevent is about to run is
\* started and not removed.
THEOREM NoCallbackIsStray == Spec => NoStrayCallback
<1> DEFINE Wanted == \A h \in Handles :
             running # h /\ running' = h => h \in pending /\ h \in handles_
<1>1. TypeOK /\ [Next]_vars => [Wanted]_vars
  <2> SUFFICES ASSUME TypeOK, Next, NEW h \in Handles, running # h, running' = h
               PROVE  h \in pending /\ h \in handles_
    BY DEF vars
  <2>1. ASSUME NEW g \in Handles \cup {AsyncHandle}, Dispatch(g)
        PROVE  h \in pending /\ h \in handles_
    BY <2>1, EventServerAssumption DEF Dispatch, TypeOK
  <2>2. running' # running /\ running' # NoHandle
    BY EventServerAssumption
  <2>3. ~ HandleNext /\ ~ (\E c \in Calls : AddAsync(c)) /\ ~ Exit /\ ~ Destroy
    BY <2>2 DEF HandleNext, AddHandle, Start, Stop, Remove, AddAsync, Exit, Destroy
  <2>4. ~ LoopStart /\ ~ SwapBatch /\ ~ RunCall /\ ~ Return /\ ~ LoopReturn
        /\ ~ \E g \in Handles : EventFires(g)
    BY <2>2 DEF LoopStart, SwapBatch, RunCall, Return, LoopReturn, EventFires
  <2> QED
    BY <2>1, <2>3, <2>4 DEF Next, LoopNext
<1> QED
  BY <1>1, TypeCorrect, PTL DEF Spec, NoStrayCallback

\* Every step is a step of CallQueue or leaves its queue alone: batch and
\* queue together are one queue, which the swap does not change.
THEOREM Implementation == Spec => RunsCallsInOrder
<1>1. Init => Loop!Init
  BY ConcatEmptySeq, EmptySeq DEF Init, Loop!Init
<1>2. IInv /\ [Next]_vars => [Loop!Next]_(Loop!vars)
  <2> SUFFICES ASSUME IInv, [Next]_vars PROVE [Loop!Next]_(Loop!vars)
    OBVIOUS
  <2>0. TypeOK /\ cbs \in Seq(Calls) /\ async_callbacks_ \in Seq(Calls)
    BY DEF IInv, TypeOK
  <2>1. ASSUME NEW c \in Calls, AddAsync(c) PROVE Loop!Post(c)
    <3>1. cbs \o Append(async_callbacks_, c) = Append(cbs \o async_callbacks_, c)
      BY <2>0, ConcatAppend
    <3> QED
      BY <2>1, <3>1 DEF AddAsync, Loop!Post
  <2>2. CASE RunCall
    <3>1. /\ Tail(cbs) \o async_callbacks_ = Tail(cbs \o async_callbacks_)
          /\ cbs \o async_callbacks_ # <<>>
      BY <2>0, <2>2, TailConcat DEF RunCall
    <3>2. phase = "looping"
      BY <2>2, EventServerAssumption DEF RunCall, IInv, OnlyLoopRuns
    <3>3. /\ phase' = phase /\ cbs' = Tail(cbs)
          /\ async_callbacks_' = async_callbacks_
      BY <2>2 DEF RunCall
    <3>4. Loop!RunNext
      BY <3>1, <3>2, <3>3, Zenon DEF Loop!RunNext
    <3> QED
      BY <3>4 DEF Loop!Next
  <2>3. CASE SwapBatch
    <3>1. cbs = <<>>
      BY <2>3 DEF SwapBatch, IInv, BatchIsRunning
    <3>2. <<>> \o async_callbacks_ = async_callbacks_ \o <<>>
      BY <2>0, ConcatEmptySeq
    <3> QED
      BY <2>3, <3>1, <3>2 DEF SwapBatch, Loop!vars
  <2>4. CASE Destroy
    <3>1. running = NoHandle
      BY <2>4 DEF Destroy, IInv, OnlyLoopRuns
    <3>2. cbs = <<>>
      BY <3>1, EventServerAssumption DEF IInv, BatchIsRunning
    <3>3. cbs' \o async_callbacks_' = <<>>
      BY <2>4, <3>2, ConcatEmptySeq, EmptySeq DEF Destroy
    <3>4. phase # "destroyed" /\ phase' = "destroyed"
      BY <2>4 DEF Destroy
    <3>5. Loop!Close
      BY <3>3, <3>4 DEF Loop!Close
    <3> QED
      BY <3>5 DEF Loop!Next
  <2>5. ASSUME \/ \E h \in Handles : AddHandle(h) \/ Start(h) \/ Stop(h) \/ Remove(h)
                                     \/ EventFires(h)
               \/ \E h \in Handles \cup {AsyncHandle} : Dispatch(h)
               \/ LoopStart \/ LoopReturn \/ Return \/ Exit \/ UNCHANGED vars
        PROVE  UNCHANGED Loop!vars
    <3>1. /\ cbs' = cbs /\ async_callbacks_' = async_callbacks_
          /\ (phase' # "destroyed") = (phase # "destroyed")
      BY <2>5 DEF AddHandle, Start, Stop, Remove, EventFires, Dispatch,
         LoopStart, LoopReturn, Return, Exit, vars
    <3> QED
      BY <3>1 DEF Loop!vars
  <2> QED
    BY <2>1, <2>2, <2>3, <2>4, <2>5 DEF Next, HandleNext, LoopNext, Loop!Next
<1> QED
  BY <1>1, <1>2, Invariance, PTL DEF Spec, RunsCallsInOrder, Loop!Spec
=============================================================================
