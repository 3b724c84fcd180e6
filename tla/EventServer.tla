---------------------------- MODULE EventServer -----------------------------
(***************************************************************************)
(* base/EventServer: one thread runs a libevent loop; its callbacks add,   *)
(* start, stop and remove timer and descriptor handles; any thread may     *)
(* hand the loop a call with add_async(), under a mutex of its own.        *)
(*                                                                         *)
(* Handles are addresses: an address is free again once its handle is      *)
(* removed and no callback holds it.  handles_ and the handles themselves  *)
(* are not locked, so everything but add_async() and exit() is called on   *)
(* the loop thread, or by the owner while no loop runs.                    *)
(***************************************************************************)
EXTENDS Naturals, Sequences

CONSTANTS
  Handles,      \* addresses of the client's handles
  Timers,       \* those that are timers; the others watch a descriptor
  Persistent,   \* those made with PERSIST
  KeepAlive,    \* Fetcher's stats timer
  AsyncHandle,  \* the server's own handle, behind add_async()
  NoHandle,     \* "no callback is running"
  Calls         \* closures given to add_async(), one element per call of it

ASSUME EventServerAssumption ==
  /\ Timers \subseteq Handles
  /\ Persistent \subseteq Handles
  /\ KeepAlive \in Timers \cap Persistent
  /\ AsyncHandle \notin Handles
  /\ NoHandle \notin Handles \cup {AsyncHandle}

VARIABLES
  phase,            \* of the loop: "idle", "looping", "returned", "destroyed"
  handles_,         \* handles the client has added and not removed
  pending,          \* handles started and neither stopped nor spent
  active,           \* handles whose callback libevent is about to run
  running,          \* the handle whose callback runs, and which ev_cb holds
  exiting,          \* exit() was called
  async_callbacks_, \* calls handed over and not yet picked up
  cbs,              \* calls the async callback has picked up
  swapped,          \* it has picked them up: its lock is released again
  posted            \* history: the calls handed over so far

vars == <<phase, handles_, pending, active, running, exiting,
          async_callbacks_, cbs, swapped, posted>>

TypeOK ==
  /\ phase \in {"idle", "looping", "returned", "destroyed"}
  /\ handles_ \in SUBSET Handles
  /\ pending \in SUBSET handles_
  /\ active \in SUBSET (pending \cup {AsyncHandle})
  /\ running \in Handles \cup {AsyncHandle, NoHandle}
  /\ exiting \in BOOLEAN
  /\ async_callbacks_ \in Seq(Calls)
  /\ cbs \in Seq(Calls)
  /\ swapped \in BOOLEAN
  /\ posted \in SUBSET Calls

\* Mutant: the stats timer is added but not started.
InitWithoutTimer ==
  /\ phase = "idle"
  /\ handles_ = {KeepAlive}
  /\ pending = {}
  /\ active = {}
  /\ running = NoHandle
  /\ exiting = FALSE
  /\ async_callbacks_ = <<>>
  /\ cbs = <<>>
  /\ swapped = FALSE
  /\ posted = {}

\* The server as Fetcher's constructor leaves it: the stats timer is started
\* before the loop, which would otherwise return for want of events.
Init ==
  /\ phase = "idle"
  /\ handles_ = {KeepAlive}
  /\ pending = {KeepAlive}
  /\ active = {}
  /\ running = NoHandle
  /\ exiting = FALSE
  /\ async_callbacks_ = <<>>
  /\ cbs = <<>>
  /\ swapped = FALSE
  /\ posted = {}

-----------------------------------------------------------------------------
(* Handles                                                                 *)

\* Who may touch handles: a callback, or the owner outside the loop.
InControl == phase # "destroyed" /\ (running # NoHandle \/ phase # "looping")

\* add_timer(), add_fd().  An address that ev_cb still holds is not reused.
AddHandle(h) ==
  /\ InControl
  /\ h \notin handles_
  /\ running # h
  /\ handles_' = handles_ \cup {h}
  /\ UNCHANGED <<phase, pending, active, running, exiting,
                 async_callbacks_, cbs, swapped, posted>>

\* event_add.  A timer that already expired starts over: its callback does
\* not run for the old deadline.
Start(h) ==
  /\ InControl
  /\ h \in handles_
  /\ pending' = pending \cup {h}
  /\ active' = IF h \in Timers THEN active \ {h} ELSE active
  /\ UNCHANGED <<phase, handles_, running, exiting,
                 async_callbacks_, cbs, swapped, posted>>

\* Mutant: only the future event is cancelled, not one about to be reported.
StopPendingOnly(h) ==
  /\ InControl
  /\ h \in handles_ \ {KeepAlive}
  /\ pending' = pending \ {h}
  /\ UNCHANGED <<phase, handles_, active, running, exiting,
                 async_callbacks_, cbs, swapped, posted>>

\* event_del takes an event out of the active queue too.
Stop(h) ==
  /\ InControl
  /\ h \in handles_ \ {KeepAlive}
  /\ pending' = pending \ {h}
  /\ active' = active \ {h}
  /\ UNCHANGED <<phase, handles_, running, exiting,
                 async_callbacks_, cbs, swapped, posted>>

\* Mutant: the handle is freed while libevent still holds its event.
RemoveWithoutDel(h) ==
  /\ InControl
  /\ h \in handles_ \ {KeepAlive}
  /\ handles_' = handles_ \ {h}
  /\ UNCHANGED <<phase, pending, active, running, exiting,
                 async_callbacks_, cbs, swapped, posted>>

\* event_del, event_free and erase.  If h is running, ev_cb keeps it alive.
Remove(h) ==
  /\ InControl
  /\ h \in handles_ \ {KeepAlive}
  /\ handles_' = handles_ \ {h}
  /\ pending' = pending \ {h}
  /\ active' = active \ {h}
  /\ UNCHANGED <<phase, running, exiting,
                 async_callbacks_, cbs, swapped, posted>>

-----------------------------------------------------------------------------
(* Calls from any thread                                                   *)

\* Mutant: no wake-up while the async callback is at work anyway.
AddAsyncQuietly(c) ==
  /\ phase # "destroyed"
  /\ c \notin posted
  /\ posted' = posted \cup {c}
  /\ async_callbacks_' = Append(async_callbacks_, c)
  /\ active' = IF running = AsyncHandle THEN active ELSE active \cup {AsyncHandle}
  /\ UNCHANGED <<phase, handles_, pending, running, exiting, cbs, swapped>>

AddAsync(c) ==
  /\ phase # "destroyed"
  /\ c \notin posted
  /\ posted' = posted \cup {c}
  /\ async_callbacks_' = Append(async_callbacks_, c)
  /\ active' = active \cup {AsyncHandle}
  /\ UNCHANGED <<phase, handles_, pending, running, exiting, cbs, swapped>>

\* exit(): the loop returns at some later moment, whatever is still queued.
Exit ==
  /\ phase # "destroyed"
  /\ exiting' = TRUE
  /\ UNCHANGED <<phase, handles_, pending, active, running,
                 async_callbacks_, cbs, swapped, posted>>

-----------------------------------------------------------------------------
(* The loop thread                                                         *)

LoopStart ==
  /\ phase = "idle"
  /\ phase' = "looping"
  /\ UNCHANGED <<handles_, pending, active, running, exiting,
                 async_callbacks_, cbs, swapped, posted>>

\* libevent: a deadline passed or a descriptor became ready.
EventFires(h) ==
  /\ phase = "looping"
  /\ running = NoHandle
  /\ h \in pending
  /\ active' = active \cup {h}
  /\ UNCHANGED <<phase, handles_, pending, running, exiting,
                 async_callbacks_, cbs, swapped, posted>>

\* libevent calls ev_cb: a one-shot event is spent by it.
Dispatch(h) ==
  /\ phase = "looping"
  /\ running = NoHandle
  /\ h \in active
  /\ running' = h
  /\ active' = active \ {h}
  /\ pending' = IF h \in Persistent THEN pending ELSE pending \ {h}
  /\ swapped' = FALSE
  /\ UNCHANGED <<phase, handles_, exiting, async_callbacks_, cbs, posted>>

\* Mutant: the queue is copied, not taken.
SwapBatchCopying ==
  /\ running = AsyncHandle
  /\ ~ swapped
  /\ cbs' = async_callbacks_
  /\ swapped' = TRUE
  /\ UNCHANGED <<phase, handles_, pending, active, running, exiting,
                 async_callbacks_, posted>>

\* The async callback, under the mutex: take all calls.
SwapBatch ==
  /\ running = AsyncHandle
  /\ ~ swapped
  /\ cbs' = async_callbacks_
  /\ async_callbacks_' = <<>>
  /\ swapped' = TRUE
  /\ UNCHANGED <<phase, handles_, pending, active, running, exiting, posted>>

\* ... and, without it, run them.  What a call does to handles is the actions
\* above, until the next call is run or the callback returns.
RunCall ==
  /\ running = AsyncHandle
  /\ swapped
  /\ cbs # <<>>
  /\ cbs' = Tail(cbs)
  /\ UNCHANGED <<phase, handles_, pending, active, running, exiting,
                 async_callbacks_, swapped, posted>>

Return ==
  /\ running # NoHandle
  /\ running = AsyncHandle => swapped /\ cbs = <<>>
  /\ running' = NoHandle
  /\ UNCHANGED <<phase, handles_, pending, active, exiting,
                 async_callbacks_, cbs, swapped, posted>>

\* The loop ends when told to, and when nothing is left that could happen.
LoopReturn ==
  /\ phase = "looping"
  /\ running = NoHandle
  /\ exiting \/ pending \cup active = {}
  /\ phase' = "returned"
  /\ UNCHANGED <<handles_, pending, active, running, exiting,
                 async_callbacks_, cbs, swapped, posted>>

\* ~EventServer(): every handle is removed, and queued calls are dropped.
Destroy ==
  /\ phase \in {"idle", "returned"}
  /\ phase' = "destroyed"
  /\ handles_' = {}
  /\ pending' = {}
  /\ active' = {}
  /\ async_callbacks_' = <<>>
  /\ UNCHANGED <<running, exiting, cbs, swapped, posted>>

HandleNext == \E h \in Handles : AddHandle(h) \/ Start(h) \/ Stop(h) \/ Remove(h)

LoopNext ==
  \/ LoopStart
  \/ \E h \in Handles : EventFires(h)
  \/ \E h \in Handles \cup {AsyncHandle} : Dispatch(h)
  \/ SwapBatch
  \/ RunCall
  \/ Return
  \/ LoopReturn

Next ==
  \/ HandleNext
  \/ LoopNext
  \/ \E c \in Calls : AddAsync(c)
  \/ Exit
  \/ Destroy

Spec == Init /\ [][Next]_vars

\* The owner starts the loop; callbacks return; libevent serves its active
\* queue in order, so an active handle's turn comes however often others fire.
Fairness ==
  /\ WF_vars(LoopStart)
  /\ SF_vars(Dispatch(AsyncHandle))
  /\ WF_vars(SwapBatch)
  /\ WF_vars(RunCall)
  /\ WF_vars(Return)

FairSpec == Spec /\ Fairness

-----------------------------------------------------------------------------
(* Properties                                                              *)

\* A call is never left behind in the queue: while one waits there, libevent
\* has the async handle to run, or its callback is running and has yet to take
\* the queue.  add_async() may come at any moment of that callback.
NoLostWakeup ==
  phase # "destroyed" /\ async_callbacks_ # <<>> =>
    AsyncHandle \in active \/ (running = AsyncHandle /\ ~ swapped)

\* A callback starts only for a handle that was started and has been neither
\* stopped nor removed since, although its event may have been reported in
\* between: a read callback may remove the write handle of its socket while
\* libevent is about to call it.
NoStrayCallback ==
  [][\A h \in Handles :
       running # h /\ running' = h => h \in pending /\ h \in handles_]_vars

Loop == INSTANCE CallQueue WITH
  queue <- cbs \o async_callbacks_,
  open <- phase # "destroyed"

\* EventServer implements CallQueue: calls handed over while a batch is being
\* run are not lost, run twice or overtaking it.
RunsCallsInOrder == Loop!Spec

\* ... and each is run, unless the owner told the loop to exit or never
\* started it.
CallsRun ==
  \A c \in Calls :
    c \in posted ~> \/ \A i \in 1 .. Len(cbs \o async_callbacks_) :
                         (cbs \o async_callbacks_)[i] # c
                    \/ exiting
                    \/ phase = "destroyed"
=============================================================================
