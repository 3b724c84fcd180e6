---------------------------- MODULE UvEventServer ----------------------------
(***************************************************************************)
(* libuves/EventServer: the event server over libuv.  As in EventServer    *)
(* one thread runs the loop and any thread hands it calls; here every      *)
(* handle is closed first and freed by the loop later, and stop() is a     *)
(* call that closes whatever the loop knows, so that start() returns.      *)
(*                                                                         *)
(* stop()'s call clears async_handle_ without the mutex under which        *)
(* add_async() reads it.  What libuv does not define (a handle closed      *)
(* twice, one used after it was freed, the loop changed from two threads)  *)
(* is the phase "broken".  The owner starts every loop before it destroys  *)
(* it, and passes only ids and descriptors that it has added.              *)
(***************************************************************************)
EXTENDS Naturals, Sequences

CONSTANTS
  Handles,       \* the client's timers and polls
  Timers,        \* those that are timers
  AsyncHandles,  \* memory for AsyncHandles
  NoHandle,      \* nullptr; "no callback is running"
  Calls,         \* closures given to add_async()
  Stops,         \* those that stop() gives it
  NoCall         \* "no other thread is inside add_async()"

ASSUME UvEventServerAssumption ==
  /\ Timers \subseteq Handles
  /\ Handles \cap AsyncHandles = {}
  /\ NoHandle \notin Handles \cup AsyncHandles
  /\ Stops \subseteq Calls
  /\ NoCall \notin Calls

VARIABLES
  phase,         \* "idle", "running", "returned", "destroyed", "broken"
  mapped,        \* timer_handles_ and poll_handles_
  open,          \* libuv: handles of the loop that are not being closed
  started,       \* libuv: timers and polls that may fire
  closing,       \* libuv: closed, and not yet freed by uv_close_cb
  async_handle_, \* the server's own handle, or nullptr
  signalled,     \* libuv: async handles that were sent to
  running,       \* the handle whose callback runs
  stage,         \* of the async callback: "none", "batch", "clearing" (in stop)
  async_queue_,  \* calls handed over and not yet picked up
  cbs,           \* calls the async callback has picked up
  caller,        \* another thread in add_async(), holding the mutex: its call
  seen,          \* ... and the async_handle_ it has read
  posted,        \* history: the calls handed over so far
  stopped        \* history: a stop() has been run

handleVars == <<mapped, open, started, closing>>
asyncVars == <<async_handle_, signalled>>
callbackVars == <<running, stage, cbs>>
callerVars == <<caller, seen>>
queueVars == <<async_queue_, posted>>
vars == <<phase, handleVars, asyncVars, callbackVars, callerVars, queueVars, stopped>>

TypeOK ==
  /\ phase \in {"idle", "running", "returned", "destroyed", "broken"}
  /\ mapped \in SUBSET Handles
  /\ open \in SUBSET (Handles \cup AsyncHandles)
  /\ started \in SUBSET (open \cap Handles)
  /\ closing \in SUBSET ((Handles \cup AsyncHandles) \ open)
  /\ async_handle_ \in AsyncHandles \cup {NoHandle}
  /\ signalled \in SUBSET (open \cap AsyncHandles)
  /\ running \in Handles \cup AsyncHandles \cup {NoHandle}
  /\ stage \in {"none", "batch", "clearing"}
  /\ async_queue_ \in Seq(Calls)
  /\ cbs \in Seq(Calls)
  /\ caller \in Calls \cup {NoCall}
  /\ seen \in AsyncHandles \cup {NoHandle}
  /\ posted \in SUBSET Calls
  /\ stopped \in BOOLEAN

InitWith(h) ==
  /\ phase = "idle"
  /\ mapped = {} /\ started = {} /\ closing = {} /\ signalled = {}
  /\ async_handle_ = h
  /\ open = {h} \ {NoHandle}
  /\ running = NoHandle /\ stage = "none"
  /\ async_queue_ = <<>> /\ cbs = <<>>
  /\ caller = NoCall /\ seen = NoHandle
  /\ posted = {}
  /\ stopped = FALSE

\* Mutant: the async handle is left to the first add_async().
InitLazily == InitWith(NoHandle)

\* The constructor makes the async handle.
Init == \E h \in AsyncHandles : InitWith(h)

-----------------------------------------------------------------------------
(* Timers and polls, on the loop thread, or by the owner without a loop    *)

InControl ==
  \/ phase = "running" /\ running # NoHandle /\ stage # "clearing"
  \/ phase \in {"idle", "returned"}

\* add_timer, add_poll.  Memory is reused once uv_close_cb has freed it.
AddHandle(h) ==
  /\ InControl
  /\ h \notin open \cup closing
  /\ mapped' = mapped \cup {h}
  /\ open' = open \cup {h}
  /\ UNCHANGED <<phase, started, closing, asyncVars, callbackVars, callerVars,
                 queueVars, stopped>>


\* start_timer, start_poll
StartHandle(h) ==
  /\ InControl
  /\ h \in mapped
  /\ started' = started \cup {h}
  /\ UNCHANGED <<phase, mapped, open, closing, asyncVars, callbackVars, callerVars,
                 queueVars, stopped>>

StopTimer(h) ==
  /\ InControl
  /\ h \in mapped \cap Timers
  /\ started' = started \ {h}
  /\ UNCHANGED <<phase, mapped, open, closing, asyncVars, callbackVars, callerVars,
                 queueVars, stopped>>

Close(h, ids) ==
  /\ InControl
  /\ h \in mapped \cap open
  /\ mapped' = ids
  /\ open' = open \ {h}
  /\ started' = started \ {h}
  /\ closing' = closing \cup {h}
  /\ UNCHANGED <<phase, asyncVars, callbackVars, callerVars, queueVars, stopped>>

\* Mutant: the id stays in its map.
RemoveHandleMapped(h) == Close(h, mapped)

\* remove_timer, remove_poll, and stop_poll, which removes the poll as well
RemoveHandle(h) == Close(h, mapped \ {h})

-----------------------------------------------------------------------------
(* add_async                                                               *)

\* The queue is written and the handle signalled, with the mutex held; h is
\* what async_handle_ was when it was read, and a new handle if that was null.
Send(c, h) ==
  /\ async_queue_' = Append(async_queue_, c)
  /\ posted' = posted \cup {c}
  /\ IF h = NoHandle
     THEN \E new \in AsyncHandles \ (open \cup closing) :
            /\ async_handle_' = new
            /\ open' = open \cup {new}
            /\ signalled' = signalled \cup {new}
     ELSE /\ signalled' = signalled \cup ({h} \cap open)
          /\ UNCHANGED <<async_handle_, open>>

\* From a callback, or by the owner without a loop; stop() is one such call.
AddAsync(c) ==
  /\ InControl
  /\ caller = NoCall
  /\ c \notin posted
  /\ Send(c, async_handle_)
  /\ UNCHANGED <<phase, mapped, started, closing, callbackVars, callerVars, stopped>>

\* From another thread: the test of async_handle_, ...
CallerReads(c) ==
  /\ phase \in {"idle", "running", "returned"}
  /\ caller = NoCall
  /\ c \notin posted
  /\ caller' = c
  /\ seen' = async_handle_
  /\ UNCHANGED <<phase, handleVars, asyncVars, callbackVars, queueVars, stopped>>

\* ... and the rest, which reads async_handle_ once more.  A handle that stop()
\* closed in between is not woken.  One that is freed or cleared, or is made
\* while the loop runs, is out of libuv's contract: anything may happen.
CallerSends ==
  /\ phase \in {"idle", "running", "returned"}
  /\ caller # NoCall
  /\ Send(caller, seen)
  /\ \/ phase' = phase
     \/ /\ IF seen = NoHandle THEN phase = "running"
           ELSE seen \notin open \cup closing \/ async_handle_ = NoHandle
        /\ phase' = "broken"
  /\ caller' = NoCall
  /\ seen' = NoHandle
  /\ UNCHANGED <<mapped, started, closing, callbackVars, stopped>>

-----------------------------------------------------------------------------
(* The loop thread                                                         *)

LoopStart ==
  /\ phase \in {"idle", "returned"}
  /\ phase' = "running"
  /\ UNCHANGED <<handleVars, asyncVars, callbackVars, callerVars, queueVars, stopped>>

\* uv_timer_cb and uv_poll_cb.  A timer without repeat is stopped by libuv.
Dispatch(h) ==
  /\ phase = "running"
  /\ running = NoHandle
  /\ h \in started
  /\ running' = h
  /\ started' \in {started, started \ (Timers \cap {h})}
  /\ UNCHANGED <<phase, mapped, open, closing, asyncVars, stage, cbs, callerVars,
                 queueVars, stopped>>

DispatchAsync(a) ==
  /\ phase = "running"
  /\ running = NoHandle
  /\ a \in signalled
  /\ running' = a
  /\ signalled' = signalled \ {a}
  /\ UNCHANGED <<phase, handleVars, async_handle_, stage, cbs, callerVars, queueVars,
                 stopped>>

TakeBatch(left) ==
  /\ phase = "running"
  /\ running \in AsyncHandles /\ stage = "none"
  /\ caller = NoCall
  /\ cbs' = async_queue_
  /\ async_queue_' = left
  /\ stage' = "batch"
  /\ UNCHANGED <<phase, handleVars, asyncVars, running, callerVars, posted, stopped>>

\* Mutant: the queue is copied, not taken.
SwapBatchCopying == TakeBatch(async_queue_)

\* uv_async_cb, under the mutex
SwapBatch == TakeBatch(<<>>)

\* A client's call.  What it does is the actions above, until the next one.
RunCall ==
  /\ phase = "running"
  /\ stage = "batch"
  /\ cbs # <<>> /\ Head(cbs) \notin Stops
  /\ cbs' = Tail(cbs)
  /\ UNCHANGED <<phase, handleVars, asyncVars, running, stage, callerVars, queueVars,
                 stopped>>

CloseAllBut(kept) ==
  /\ phase = "running"
  /\ stage = "batch"
  /\ cbs # <<>> /\ Head(cbs) \in Stops
  /\ cbs' = Tail(cbs)
  /\ IF closing # {}
     THEN phase' = "broken" /\ UNCHANGED <<open, started, closing, signalled, stage>>
     ELSE /\ closing' = open \ kept
          /\ open' = kept \cap open
          /\ started' = {}
          /\ signalled' = kept \cap signalled
          /\ stage' = "clearing"
          /\ UNCHANGED phase
  /\ stopped' = TRUE
  /\ UNCHANGED <<mapped, async_handle_, running, callerVars, queueVars>>

\* Mutant: the async handle is not closed.
StopWalkClients == CloseAllBut(AsyncHandles)

\* stop()'s call: uv_walk also comes to the handles that are being closed, and
\* uv_walk_cb closes them once more.
StopWalk == CloseAllBut({})

\* ... after which it clears the maps and async_handle_, without the mutex.
StopClear ==
  /\ phase = "running"
  /\ stage = "clearing"
  /\ mapped' = {}
  /\ async_handle_' = NoHandle
  /\ stage' = "batch"
  /\ UNCHANGED <<phase, open, started, closing, signalled, running, cbs, callerVars,
                 queueVars, stopped>>

ReturnLeaving(wakeups) ==
  /\ phase = "running"
  /\ running # NoHandle
  /\ running \in AsyncHandles => stage = "batch" /\ cbs = <<>>
  /\ running' = NoHandle
  /\ stage' = "none"
  /\ signalled' = wakeups
  /\ UNCHANGED <<phase, handleVars, async_handle_, cbs, callerVars, queueVars, stopped>>

\* Mutant: wake-ups sent while the callback ran are taken to be served.
ReturnUnsignalled == ReturnLeaving(signalled \ {running})

Return == ReturnLeaving(signalled)

\* uv_close_cb, at the end of a round
CloseCb(h) ==
  /\ phase = "running"
  /\ running = NoHandle
  /\ h \in closing
  /\ closing' = closing \ {h}
  /\ UNCHANGED <<phase, mapped, open, started, asyncVars, callbackVars, callerVars,
                 queueVars, stopped>>

\* uv_run returns when nothing is active or being closed.
LoopReturn ==
  /\ phase = "running"
  /\ running = NoHandle
  /\ started \cup closing \cup (open \cap AsyncHandles) = {}
  /\ phase' = "returned"
  /\ UNCHANGED <<handleVars, asyncVars, callbackVars, callerVars, queueVars, stopped>>

\* ~EventServer: uv_loop_close fails while the loop has handles, and CHECK_EQ
\* aborts.  Otherwise the calls still queued are dropped.
Destroy ==
  /\ phase = "returned"
  /\ caller = NoCall
  /\ phase' = IF open = {} THEN "destroyed" ELSE "broken"
  /\ async_queue_' = IF open = {} THEN <<>> ELSE async_queue_
  /\ UNCHANGED <<handleVars, asyncVars, callbackVars, callerVars, posted, stopped>>

LoopNext ==
  \/ LoopStart
  \/ \E h \in Handles : Dispatch(h)
  \/ \E a \in AsyncHandles : DispatchAsync(a)
  \/ SwapBatch
  \/ RunCall
  \/ StopWalk
  \/ StopClear
  \/ Return
  \/ \E h \in Handles \cup AsyncHandles : CloseCb(h)
  \/ LoopReturn
  \/ Destroy

Next ==
  \/ \E h \in Handles :
       AddHandle(h) \/ StartHandle(h) \/ StopTimer(h) \/ RemoveHandle(h)
  \/ \E c \in Calls : AddAsync(c) \/ CallerReads(c)
  \/ CallerSends
  \/ LoopNext

Spec == Init /\ [][Next]_vars

\* Callbacks return, a thread leaves add_async(), a handle that is signalled or
\* closed gets its callback, and uv_run returns when it can.
Fairness ==
  /\ \A a \in AsyncHandles : SF_vars(DispatchAsync(a))
  /\ SF_vars(SwapBatch)
  /\ WF_vars(RunCall) /\ WF_vars(StopWalk) /\ WF_vars(StopClear) /\ WF_vars(Return)
  /\ \A h \in Handles \cup AsyncHandles : SF_vars(CloseCb(h))
  /\ SF_vars(LoopReturn)
  /\ WF_vars(CallerSends)

FairSpec == Spec /\ Fairness

-----------------------------------------------------------------------------
(* Properties                                                              *)

\* Whenever client code runs, the maps hold just the handles that are open: no
\* id or descriptor leads to a handle that was closed or freed, in the same
\* round or by stop(), and no open handle is out of reach.
MapsHoldOpenHandles ==
  stage # "clearing" /\ phase # "broken" => mapped = open \cap Handles

\* A call waits in the queue without a wake-up only when stop() has closed the
\* async handle: until then add_async() may come at any moment.
NoLostWakeup ==
  phase \in {"idle", "running", "returned"} /\ async_queue_ # <<>> /\ ~ stopped =>
    \/ async_handle_ \in signalled
    \/ running = async_handle_ /\ stage = "none"

\* The server keeps within libuv's contract, whatever callbacks add, start and
\* remove, as long as nobody calls stop().
SafeUntilStopped == phase = "broken" => stopped

Loop == INSTANCE CallQueue WITH
  queue <- cbs \o async_queue_,
  open <- phase # "destroyed"

\* Calls run at most once and in order, from whichever thread they come and
\* however often the loop is stopped and started again.
RunsCallsInOrder == Loop!Spec

\* After stop() the loop returns, unless a callback or another thread has
\* brought it new work in the meantime.
StopEnds ==
  stage = "clearing" ~>
    \/ phase \in {"returned", "destroyed", "broken"}
    \/ started # {} \/ async_handle_ \in open
=============================================================================
