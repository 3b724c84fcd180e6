--------------------------- MODULE FetcherServer ----------------------------
(***************************************************************************)
(* main() of FetcherServer: a Fetcher and an HttpServer are made, serve,   *)
(* and are destroyed.  Run() returns when libevent has nothing left to     *)
(* wait for: at once when the address cannot be bound, or after Stop()     *)
(* when the last connection is gone; and when libevent fails.  Then        *)
(* ~HttpServer, ~Fetcher and the Fetcher's members take down what the loop *)
(* thread and the resolver's thread are still using.                       *)
(*                                                                         *)
(* What a request or a task goes through meanwhile is Fetcher's subject;   *)
(* here a /fetch makes one task, which has the name of its request.  A use *)
(* of something destroyed is the phase "broken"; a Stop() without a bound  *)
(* socket, such as a second one, is the phase "misused".                   *)
(***************************************************************************)
EXTENDS Naturals, Sequences

CONSTANTS
  Fetches,   \* requests for /fetch
  Results    \* requests for /result

ASSUME FetcherServerAssumption == Fetches \cap Results = {}

\* Other paths have no handle, and libevent answers them.
Requests == Fetches \cup Results

VARIABLES
  pc,         \* main: how far it is
  status,     \* what Run() returned: "none", "ok", "failed"
  sock,       \* HttpServer::sock_: "unset", "bound", "null", "gone"
  conn,       \* the connection of each request
  lookups,    \* tasks with the resolver
  loopQueue,  \* the loop's queue of calls
  tasks_,     \* Fetcher::tasks_
  multi,      \* tasks curl works on
  loopPc,     \* the loop thread: "running", "ended"
  resolverPc, \* the resolver's thread: "running", "exiting", "ended"
  late        \* history: lookups that were open when es_ was destroyed

serverVars == <<status, sock, conn>>
fetcherVars == <<lookups, loopQueue, tasks_, multi>>
threadVars == <<loopPc, resolverPc, late>>
vars == <<pc, serverVars, fetcherVars, threadVars>>

\* "built" up to Run(), "serving" inside it, "ran" after it; then what is gone
\* ("exiting": es_.exit() was called, and the loop thread is being joined).
Phases ==
  {"built", "serving", "ran", "noServer", "exiting", "joined", "noCurl", "noTasks",
   "noEs", "noNotify", "exited", "broken", "misused"}

TypeOK ==
  /\ pc \in Phases
  /\ status \in {"none", "ok", "failed"}
  /\ sock \in {"unset", "bound", "null", "gone"}
  /\ conn \in [Requests -> {"none", "open", "waiting", "answered", "closed"}]
  /\ lookups \in SUBSET Fetches
  /\ loopQueue \in Seq(Requests)
  /\ tasks_ \in SUBSET Fetches
  /\ multi \in SUBSET tasks_
  /\ loopPc \in {"running", "ended"}
  /\ resolverPc \in {"running", "exiting", "ended"}
  /\ late \in SUBSET Fetches

\* Both handles are added before Run().
Init ==
  /\ pc = "built"
  /\ status = "none" /\ sock = "unset"
  /\ conn = [r \in Requests |-> "none"]
  /\ lookups = {} /\ loopQueue = <<>> /\ tasks_ = {} /\ multi = {}
  /\ loopPc = "running" /\ resolverPc = "running"
  /\ late = {}

EsAlive == pc \notin {"noEs", "noNotify", "exited"}
CurlAlive == EsAlive /\ pc \notin {"noCurl", "noTasks"}

Handling == \E r \in Results : conn[r] = "waiting"

-----------------------------------------------------------------------------
(* HttpServer                                                              *)

\* Run() goes on whether or not the address could be bound.
Bind ==
  /\ pc = "built"
  /\ sock' \in {"bound", "null"}
  /\ pc' = "serving"
  /\ UNCHANGED <<status, conn, fetcherVars, threadVars>>

Accept(r) ==
  /\ pc = "serving" /\ ~ Handling
  /\ sock = "bound"
  /\ conn[r] = "none"
  /\ conn' = [conn EXCEPT ![r] = "open"]
  /\ UNCHANGED <<pc, status, sock, fetcherVars, threadVars>>

\* The /fetch handler answers at once.  The body may be no JSON, the request
\* refused, and the address known.
HandleFetch(r) ==
  /\ pc = "serving" /\ ~ Handling
  /\ r \in Fetches /\ conn[r] = "open"
  /\ conn' = [conn EXCEPT ![r] = "answered"]
  /\ \/ UNCHANGED <<lookups, loopQueue>>
     \/ lookups' = lookups \cup {r} /\ UNCHANGED loopQueue
     \/ loopQueue' = Append(loopQueue, r) /\ UNCHANGED lookups
  /\ UNCHANGED <<pc, status, sock, tasks_, multi, threadVars>>

\* The /result handler waits for the loop, and main's thread with it.
HandleResult(r) ==
  /\ pc = "serving" /\ ~ Handling
  /\ r \in Results /\ conn[r] = "open"
  /\ conn' = [conn EXCEPT ![r] = "waiting"]
  /\ loopQueue' = Append(loopQueue, r)
  /\ UNCHANGED <<pc, status, sock, lookups, tasks_, multi, threadVars>>

\* The client closes the connection, or libevent's timeout does.
ConnectionCloses(r) ==
  /\ pc = "serving" /\ ~ Handling
  /\ conn[r] \in {"open", "answered"}
  /\ conn' = [conn EXCEPT ![r] = "closed"]
  /\ UNCHANGED <<pc, status, sock, fetcherVars, threadVars>>

\* A handler calls Stop(), as HttpServer's test does: connections stay open.
Stop ==
  /\ pc = "serving" /\ ~ Handling
  /\ IF sock = "bound" THEN sock' = "gone" /\ UNCHANGED pc
                       ELSE pc' = "misused" /\ UNCHANGED sock
  /\ UNCHANGED <<status, conn, fetcherVars, threadVars>>

\* No socket and no connection: event_base_dispatch returns 1.
RunReturns ==
  /\ pc = "serving"
  /\ sock # "bound"
  /\ \A r \in Requests : conn[r] \in {"none", "closed"}
  /\ pc' = "ran"
  /\ status' = "ok"
  /\ UNCHANGED <<sock, conn, fetcherVars, threadVars>>

DispatchFails ==
  /\ pc = "serving" /\ ~ Handling
  /\ pc' = "ran"
  /\ status' = "failed"
  /\ UNCHANGED <<sock, conn, fetcherVars, threadVars>>

\* ~HttpServer closes what is open.
FreeServer ==
  /\ pc = "ran"
  /\ pc' = "noServer"
  /\ sock' = "gone"
  /\ conn' = [r \in Requests |-> IF conn[r] = "none" THEN "none" ELSE "closed"]
  /\ UNCHANGED <<status, fetcherVars, threadVars>>

-----------------------------------------------------------------------------
(* The resolver's thread and the loop thread                               *)

\* resolver_cb: the lookup fails, or the task is handed to the loop.
ResolverCb(t) ==
  /\ pc \notin {"broken", "misused"}
  /\ resolverPc # "ended"
  /\ t \in lookups
  /\ lookups' = lookups \ {t}
  /\ \/ UNCHANGED <<pc, loopQueue>>
     \/ IF EsAlive THEN loopQueue' = Append(loopQueue, t) /\ UNCHANGED pc
                   ELSE pc' = "broken" /\ UNCHANGED loopQueue
  /\ UNCHANGED <<serverVars, tasks_, multi, threadVars>>

\* The head of the queue: a task starts, or /result gets what is done.
RunCall ==
  /\ pc \notin {"broken", "misused"}
  /\ loopPc = "running"
  /\ loopQueue # <<>>
  /\ LET c == Head(loopQueue) IN
       IF c \in Fetches
       THEN tasks_' = tasks_ \cup {c} /\ multi' = multi \cup {c} /\ UNCHANGED conn
       ELSE tasks_' = multi /\ conn' = [conn EXCEPT ![c] = "answered"] /\ UNCHANGED multi
  /\ loopQueue' = Tail(loopQueue)
  /\ pc' = IF CurlAlive THEN pc ELSE "broken"
  /\ UNCHANGED <<status, sock, lookups, threadVars>>

\* check_multi_info, from a callback of the loop
TransferDone(t) ==
  /\ pc \notin {"broken", "misused"}
  /\ loopPc = "running"
  /\ t \in multi
  /\ multi' = multi \ {t}
  /\ pc' = IF CurlAlive THEN pc ELSE "broken"
  /\ UNCHANGED <<serverVars, lookups, loopQueue, tasks_, threadVars>>

\* Mutant: nothing but sockets keeps the loop going.
LoopEndsIdle ==
  /\ pc \notin {"broken", "misused"}
  /\ loopPc = "running"
  /\ multi = {}
  /\ loopPc' = "ended"
  /\ UNCHANGED <<pc, serverVars, fetcherVars, resolverPc, late>>

\* After es_.exit() only: the stats timer keeps the loop going before.
LoopEnds ==
  /\ pc = "exiting"
  /\ loopPc = "running"
  /\ loopPc' = "ended"
  /\ UNCHANGED <<pc, serverVars, fetcherVars, resolverPc, late>>

-----------------------------------------------------------------------------
(* ~Fetcher                                                                *)

ExitLoop ==
  /\ pc = "noServer"
  /\ pc' = "exiting"
  /\ UNCHANGED <<serverVars, fetcherVars, threadVars>>

\* Mutant: the thread is not joined.
DetachLoop ==
  /\ pc = "exiting"
  /\ pc' = "joined"
  /\ UNCHANGED <<serverVars, fetcherVars, threadVars>>

JoinLoop ==
  /\ pc = "exiting"
  /\ loopPc = "ended"
  /\ pc' = "joined"
  /\ UNCHANGED <<serverVars, fetcherVars, threadVars>>

\* curl_multi_cleanup calls socket_cb for the connections it closes.
CleanupCurl ==
  /\ pc = "joined"
  /\ pc' = "noCurl"
  /\ multi' = {}
  /\ UNCHANGED <<serverVars, lookups, loopQueue, tasks_, threadVars>>

FreeTasks ==
  /\ pc = "noCurl"
  /\ pc' = "noTasks"
  /\ tasks_' = {}
  /\ UNCHANGED <<serverVars, lookups, loopQueue, multi, threadVars>>

\* ~EventServer drops the calls that are left.
FreeEs ==
  /\ pc = "noTasks"
  /\ pc' = "noEs"
  /\ loopQueue' = <<>>
  /\ late' = lookups
  /\ UNCHANGED <<serverVars, lookups, tasks_, multi, loopPc, resolverPc>>

\* Mutant: the loop is not told to exit.
StopResolverNot ==
  /\ pc = "noEs"
  /\ pc' = "noNotify"
  /\ UNCHANGED <<serverVars, fetcherVars, threadVars>>

\* ~Resolver: notify_ev is freed and the loop told to exit, ...
StopResolver ==
  /\ pc = "noEs"
  /\ pc' = "noNotify"
  /\ resolverPc' = "exiting"
  /\ UNCHANGED <<serverVars, fetcherVars, loopPc, late>>

ResolverEnds ==
  /\ resolverPc = "exiting"
  /\ resolverPc' = "ended"
  /\ UNCHANGED <<pc, serverVars, fetcherVars, loopPc, late>>

\* ... its thread joined, and evdns freed without answering what is open.
JoinResolver ==
  /\ pc = "noNotify"
  /\ resolverPc = "ended"
  /\ pc' = "exited"
  /\ lookups' = {}
  /\ UNCHANGED <<serverVars, loopQueue, tasks_, multi, threadVars>>

HttpNext ==
  \/ Bind \/ Stop \/ RunReturns \/ DispatchFails \/ FreeServer
  \/ \E r \in Requests : Accept(r) \/ ConnectionCloses(r)
  \/ \E r \in Fetches : HandleFetch(r)
  \/ \E r \in Results : HandleResult(r)

ThreadsNext ==
  \/ \E t \in Fetches : ResolverCb(t) \/ TransferDone(t)
  \/ RunCall \/ LoopEnds \/ ResolverEnds

FetcherNext ==
  \/ ExitLoop \/ JoinLoop \/ CleanupCurl \/ FreeTasks
  \/ FreeEs \/ StopResolver \/ JoinResolver

Next == HttpNext \/ ThreadsNext \/ FetcherNext

Spec == Init /\ [][Next]_vars

\* Threads that were not stopped run, those that were told to exit do, main
\* goes on, and connections end by libevent's timeout if not before.
Fairness ==
  /\ WF_vars(RunCall) /\ WF_vars(LoopEnds) /\ WF_vars(ResolverEnds)
  /\ \A r \in Requests : SF_vars(ConnectionCloses(r))
  /\ WF_vars(RunReturns) /\ WF_vars(FreeServer)
  /\ WF_vars(FetcherNext)

FairSpec == Spec /\ Fairness

-----------------------------------------------------------------------------
(* Properties                                                              *)

\* However main comes to its end, with tasks queued, being resolved or being
\* transferred, no thread uses a member of Fetcher that was destroyed, unless a
\* lookup was open when es_ was: resolver_ is destroyed after it.
NoUseAfterDestruction == pc = "broken" => late # {}

\* /result is answered whatever else is stopped: the loop that main's thread
\* waits for cannot end before main's thread tells it to.
ResultsAreAnswered == \A r \in Results : conn[r] = "waiting" ~> conn[r] = "answered"

\* Without a socket, because it could not be bound or Stop() closed it, or once
\* libevent has failed, the program ends: each join finds its thread on its way
\* out, and nothing main waits for depends on what main has stopped.
ServerEnds ==
  sock \in {"null", "gone"} \/ pc = "ran" ~> pc \in {"exited", "broken", "misused"}
=============================================================================
