----------------------------- MODULE SocketWatch -----------------------------
(***************************************************************************)
(* How Fetcher drives curl's multi interface from the event loop.  Curl    *)
(* says what it waits for by calling socket_cb and timer_cb; Fetcher turns *)
(* that into handles of the event server and calls curl back when one of   *)
(* them fires.  All of it runs on the loop thread.  `pending` and `active` *)
(* are EventServer's variables, for these handles only.                    *)
(*                                                                         *)
(* What curl does inside its functions is nondeterministic, within what    *)
(* its documentation says: it tells of every change of its mind.           *)
(***************************************************************************)
EXTENDS Naturals

CONSTANTS
  Sockets,      \* descriptors; a number is used again for a later connection
  Timer,        \* multi_timer_handle_
  NoHandle,     \* "no callback is running"
  MaxTransfers  \* bound on transfers at a time

Dirs == {"read", "write"}
SocketHandles == Sockets \X Dirs
HandlesOf(s, dirs) == {s} \X dirs

ASSUME SocketWatchAssumption ==
  /\ Timer \notin SocketHandles
  /\ NoHandle \notin SocketHandles \cup {Timer}
  /\ MaxTransfers \in Nat

VARIABLES
  alive,     \* curl: transfers that are running
  want,      \* curl: what it waits for on each socket
  due,       \* curl: it counts on being called when its timeout is over
  sock_ctx,  \* sockets with a SocketCtx, which curl was given by curl_multi_assign
  pending,   \* handles that are started
  active,    \* handles whose callback libevent is about to run
  running,   \* the handle whose callback runs
  stage,     \* of that callback: "action" (curl_multi_socket_action), "info"
             \* (check_multi_info), or "none"
  still_running  \* what curl_multi_socket_action returned

vars == <<alive, want, due, sock_ctx, pending, active, running, stage, still_running>>
curlVars == <<alive, want, due>>
callbackVars == <<running, stage, still_running>>

TypeOK ==
  /\ alive \in Nat
  /\ want \in [Sockets -> SUBSET Dirs]
  /\ due \in BOOLEAN
  /\ sock_ctx \in SUBSET Sockets
  /\ pending \in SUBSET (SocketHandles \cup {Timer})
  /\ active \in SUBSET pending
  /\ running \in SocketHandles \cup {Timer, NoHandle}
  /\ stage \in {"none", "action", "info"}
  /\ still_running \in Nat

Init ==
  /\ alive = 0
  /\ want = [s \in Sockets |-> {}]
  /\ due = FALSE
  /\ sock_ctx = {}
  /\ pending = {}
  /\ active = {}
  /\ running = NoHandle
  /\ stage = "none"
  /\ still_running = 0

-----------------------------------------------------------------------------
(* The two callbacks of curl                                               *)

\* Mutant: the handle that is not wanted any more is left as it was.
SocketCbStartOnly(s, dirs) ==
  /\ dirs # want[s]
  /\ dirs # {}
  /\ want' = [want EXCEPT ![s] = dirs]
  /\ sock_ctx' = sock_ctx \cup {s}
  /\ pending' = pending \cup HandlesOf(s, dirs)
  /\ UNCHANGED <<alive, due, active, callbackVars>>

\* socket_cb with CURL_POLL_IN, OUT or INOUT; a socket it sees for the first
\* time gets two handles.
SocketCb(s, dirs) ==
  /\ dirs # want[s]
  /\ dirs # {}
  /\ want' = [want EXCEPT ![s] = dirs]
  /\ sock_ctx' = sock_ctx \cup {s}
  /\ pending' = (pending \ HandlesOf(s, Dirs \ dirs)) \cup HandlesOf(s, dirs)
  /\ active' = active \ HandlesOf(s, Dirs \ dirs)
  /\ UNCHANGED <<alive, due, callbackVars>>

\* Mutant: a handle is freed although libevent is about to call it.
SocketCbRemoveUncancelled(s) ==
  /\ want[s] # {}
  /\ want' = [want EXCEPT ![s] = {}]
  /\ sock_ctx' = sock_ctx \ {s}
  /\ pending' = pending \ HandlesOf(s, Dirs)
  /\ UNCHANGED <<alive, due, active, callbackVars>>

\* socket_cb with CURL_POLL_REMOVE.  The callback of one of the two handles
\* may be running, and the other's may be about to run.
SocketCbRemove(s) ==
  /\ want[s] # {}
  /\ want' = [want EXCEPT ![s] = {}]
  /\ sock_ctx' = sock_ctx \ {s}
  /\ pending' = pending \ HandlesOf(s, Dirs)
  /\ active' = active \ HandlesOf(s, Dirs)
  /\ UNCHANGED <<alive, due, callbackVars>>

\* timer_cb with a timeout: one one-shot timer, which starts over.
TimerCb ==
  /\ due' = TRUE
  /\ pending' = pending \cup {Timer}
  /\ active' = active \ {Timer}
  /\ UNCHANGED <<alive, want, sock_ctx, callbackVars>>

\* timer_cb with -1 does nothing: the timer, if started, fires for nothing.
TimerCbCancel ==
  /\ due' = FALSE
  /\ UNCHANGED <<alive, want, sock_ctx, pending, active, callbackVars>>

-----------------------------------------------------------------------------
(* The loop thread                                                         *)

\* The call that adds an easy handle to curl, which asks for a timeout of 0.
StartTask ==
  /\ running = NoHandle
  /\ alive < MaxTransfers
  /\ alive' = alive + 1
  /\ due' = TRUE
  /\ pending' = pending \cup {Timer}
  /\ active' = active \ {Timer}
  /\ UNCHANGED <<want, sock_ctx, callbackVars>>

Fires(h) ==
  /\ running = NoHandle
  /\ h \in pending
  /\ active' = active \cup {h}
  /\ UNCHANGED <<curlVars, sock_ctx, pending, callbackVars>>

\* event_cb, or the timer's callback, calls curl_multi_socket_action.
Dispatch(h) ==
  /\ running = NoHandle
  /\ h \in active
  /\ running' = h
  /\ stage' = "action"
  /\ active' = active \ {h}
  /\ IF h = Timer
     THEN pending' = pending \ {Timer} /\ due' = FALSE
     ELSE UNCHANGED <<pending, due>>
  /\ UNCHANGED <<alive, want, sock_ctx, still_running>>

TransferEnds ==
  /\ stage = "action"
  /\ alive > 0
  /\ alive' = alive - 1
  /\ UNCHANGED <<want, due, sock_ctx, pending, active, callbackVars>>

\* curl_multi_socket_action returns; check_multi_info removes what has ended.
ActionReturns ==
  /\ stage = "action"
  /\ stage' = "info"
  /\ still_running' = alive
  /\ UNCHANGED <<curlVars, sock_ctx, pending, active, running>>

\* What curl guarantees when it returns: a running transfer waits for something.
CurlWaits == alive > 0 => due \/ \E s \in Sockets : want[s] # {}

\* Mutant: event_cb stops the timer whatever is still running.
CallbackReturnsStopping ==
  /\ stage = "info"
  /\ CurlWaits
  /\ running' = NoHandle
  /\ stage' = "none"
  /\ IF running # Timer
     THEN pending' = pending \ {Timer} /\ active' = active \ {Timer}
     ELSE UNCHANGED <<pending, active>>
  /\ UNCHANGED <<curlVars, sock_ctx, still_running>>

\* event_cb stops the timer when no transfer is left.
CallbackReturns ==
  /\ stage = "info"
  /\ CurlWaits
  /\ running' = NoHandle
  /\ stage' = "none"
  /\ IF running # Timer /\ still_running = 0
     THEN pending' = pending \ {Timer} /\ active' = active \ {Timer}
     ELSE UNCHANGED <<pending, active>>
  /\ UNCHANGED <<curlVars, sock_ctx, still_running>>

\* Curl opens and watches sockets for transfers only; it drops them, and sets
\* its timeout, in curl_multi_remove_handle too.
CurlNext ==
  \/ stage = "action" /\ alive > 0 /\ \E s \in Sockets, d \in SUBSET Dirs : SocketCb(s, d)
  \/ stage # "none" /\ \E s \in Sockets : SocketCbRemove(s)
  \/ stage # "none" /\ (TimerCb \/ TimerCbCancel)
  \/ TransferEnds

Next ==
  \/ StartTask
  \/ \E h \in SocketHandles \cup {Timer} : Fires(h) \/ Dispatch(h)
  \/ CurlNext
  \/ ActionReturns
  \/ CallbackReturns

Spec == Init /\ [][Next]_vars

-----------------------------------------------------------------------------
(* Properties                                                              *)

\* The loop watches exactly what curl waits for, whatever socket_cb was told
\* from inside whose callback: a socket curl forgot to be watched on would
\* stall its transfer, one it is done with would wake it for ever or, when the
\* number is used again, report another connection's events.
WatchesWhatCurlWants ==
  /\ pending \ {Timer} = UNION {HandlesOf(s, want[s]) : s \in Sockets}
  /\ sock_ctx = {s \in Sockets : want[s] # {}}

\* While transfers run, a timeout that curl counts on is under way: neither
\* event_cb, which stops the timer, nor a timer that fired in between takes
\* it away.
TimeoutsAreKept == due /\ alive > 0 => Timer \in pending
=============================================================================
