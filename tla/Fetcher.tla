------------------------------ MODULE Fetcher -------------------------------
(***************************************************************************)
(* Fetcher: the download service.  Three threads meet here.                *)
(*  - The HTTP thread takes one request at a time: POST /fetch makes tasks *)
(*    and gives each to the resolver; GET /result waits for the loop.      *)
(*  - The resolver's thread (or the HTTP thread, when the cache answers)   *)
(*    runs resolver_cb, which hands the loop a call that starts the task.  *)
(*  - The loop thread starts transfers, completes them, and collects the   *)
(*    tasks that are done.  It alone writes tasks_, but create_tasks_req   *)
(*    reads tasks_.size() on the HTTP thread without synchronisation.      *)
(*                                                                         *)
(* The resolver is the Resolver module and the loop's queue of calls is    *)
(* the CallQueue that EventServer implements; their actions are conjoined  *)
(* with what the Fetcher does in the same step.                            *)
(***************************************************************************)
EXTENDS Naturals, Sequences, FiniteSets

CONSTANTS
  Tasks,         \* CrawlContexts that clients will ask for
  Drain,         \* the call that get_done_tasks_req() queues
  kMaxTasksCnt,  \* "Too many pending tasks" above this
  Hosts, NoHost, Ttls, MaxNow   \* as in Resolver

\* The last three are what the Resolver assumes of its own constants.
ASSUME FetcherAssumption ==
  /\ Drain \notin Tasks
  /\ kMaxTasksCnt \in Nat
  /\ NoHost \notin Hosts
  /\ Ttls \subseteq Nat
  /\ MaxNow \in Nat \ {0}

VARIABLES
  mutex, infos, lookups, queries, current, todo, now, asked, calls, result,
             \* the resolver's state; lookups is its `tasks`
  httpPc,    \* the HTTP thread: "idle", "building", "adding", "waiting", "replying"
  unbuilt,   \* /fetch: members of the request not yet parsed
  ctxs,      \* /fetch: parsed and not yet added
  resp,      \* /result: the tasks in the answer
  loopQueue, \* the loop's queue: a task to start, or Drain
  tasks_,    \* Fetcher::tasks_, as a set
  multi,     \* tasks whose easy handle curl holds
  done,      \* CrawlContext::done
  accepted,  \* history: tasks of requests that were taken
  refused,   \* history: tasks of requests answered with 400
  reports    \* history: how often each task was in a result

resolverVars ==
  <<mutex, infos, lookups, queries, current, todo, now, asked, calls, result>>
httpVars == <<httpPc, unbuilt, ctxs, resp, accepted, refused, reports>>
loopVars == <<loopQueue, tasks_, multi, done>>
vars == <<resolverVars, httpVars, loopVars>>

R == INSTANCE Resolver WITH Requests <- Tasks, tasks <- lookups
Loop == INSTANCE CallQueue WITH
  Calls <- Tasks \cup {Drain}, queue <- loopQueue, open <- TRUE

TypeOK ==
  /\ R!TypeOK
  /\ Loop!TypeOK
  /\ httpPc \in {"idle", "building", "adding", "waiting", "replying"}
  /\ unbuilt \in SUBSET Tasks
  /\ ctxs \in SUBSET Tasks
  /\ resp \in SUBSET Tasks
  /\ tasks_ \in SUBSET Tasks
  /\ multi \in SUBSET Tasks
  /\ done \in SUBSET Tasks
  /\ accepted \in SUBSET Tasks
  /\ refused \in SUBSET Tasks
  /\ reports \in [Tasks -> Nat]

Init ==
  /\ R!Init
  /\ Loop!Init
  /\ httpPc = "idle"
  /\ unbuilt = {}
  /\ ctxs = {}
  /\ resp = {}
  /\ tasks_ = {}
  /\ multi = {}
  /\ done = {}
  /\ accepted = {}
  /\ refused = {}
  /\ reports = [t \in Tasks |-> 0]

-----------------------------------------------------------------------------
(* POST /fetch, on the HTTP thread                                         *)

\* The size check.  A call of the loop that starts a task may be writing
\* tasks_ at that moment, and then the size that is read may be anything.
SizeCheck(B, admits) ==
  \/ admits = (Cardinality(tasks_) + Cardinality(B) <= kMaxTasksCnt)
  \/ loopQueue # <<>>

\* create_tasks_req, first line.  Each task is a new CrawlContext.
FetchRequest(B) ==
  /\ httpPc = "idle"
  /\ B # {}
  /\ B \cap (accepted \cup refused) = {}
  /\ \E admits \in BOOLEAN :
       /\ SizeCheck(B, admits)
       /\ IF admits
          THEN /\ httpPc' = "building"
               /\ unbuilt' = B
               /\ UNCHANGED refused
          ELSE /\ refused' = refused \cup B
               /\ UNCHANGED <<httpPc, unbuilt>>
  /\ UNCHANGED <<resolverVars, loopVars, ctxs, resp, accepted, reports>>

\* from_json of one member; after the last the request is taken.
BuildTask(t) ==
  /\ httpPc = "building"
  /\ t \in unbuilt
  /\ unbuilt' = unbuilt \ {t}
  /\ ctxs' = ctxs \cup {t}
  /\ IF unbuilt' = {}
     THEN httpPc' = "adding" /\ accepted' = accepted \cup ctxs'
     ELSE UNCHANGED <<httpPc, accepted>>
  /\ UNCHANGED <<resolverVars, loopVars, resp, refused, reports>>

\* from_json throws: the whole request is answered with an error.
BuildFails ==
  /\ httpPc = "building"
  /\ httpPc' = "idle"
  /\ refused' = refused \cup unbuilt \cup ctxs
  /\ unbuilt' = {}
  /\ ctxs' = {}
  /\ UNCHANGED <<resolverVars, loopVars, resp, accepted, reports>>

\* Mutant: the members are added as they are parsed.
AddTaskEarly(t) ==
  /\ httpPc \in {"building", "adding"}
  /\ t \in ctxs
  /\ asked[t] = NoHost
  /\ ctxs' = IF httpPc = "adding" THEN ctxs \ {t} ELSE ctxs
  /\ \E h \in Hosts : R!Resolve(t, h)
  /\ UNCHANGED <<loopVars, httpPc, unbuilt, resp, accepted, refused, reports>>

\* add(): the task goes to the resolver, which may run resolver_cb right away.
AddTask(t) ==
  /\ httpPc = "adding"
  /\ t \in ctxs
  /\ ctxs' = ctxs \ {t}
  /\ \E h \in Hosts : R!Resolve(t, h)
  /\ UNCHANGED <<loopVars, httpPc, unbuilt, resp, accepted, refused, reports>>

FetchReply ==
  /\ httpPc = "adding"
  /\ ctxs = {}
  /\ mutex # "caller"
  /\ httpPc' = "idle"
  /\ UNCHANGED <<resolverVars, loopVars, unbuilt, ctxs, resp, accepted, refused, reports>>

-----------------------------------------------------------------------------
(* The resolver                                                            *)

ResolverStep(A) == A /\ UNCHANGED <<httpVars, loopVars>>

\* Mutant: res_cb is run for a query that was already answered.
AnswerUnsolicited(h) == ResolverStep(R!AnswerUnsolicited(h))

EvCb == ResolverStep(R!EvCb)
Answer(h) == ResolverStep(R!Answer(h))
FinishAnswer == ResolverStep(R!FinishAnswer)
FinishCached == ResolverStep(R!FinishCached)
Tick == ResolverStep(R!Tick)

\* resolver_cb, under the resolver's mutex.  On an error the task is done, but
\* it is not put into tasks_.
ResolverCb(t) ==
  /\ R!RunCallback(t)
  /\ IF infos[current].ok
     THEN Loop!Post(t) /\ UNCHANGED done
     ELSE done' = done \cup {t} /\ UNCHANGED loopQueue
  /\ UNCHANGED <<httpVars, tasks_, multi>>

-----------------------------------------------------------------------------
(* The loop thread                                                         *)

\* Mutant: the task is not put on the list of tasks.
StartTaskUnlisted(t) ==
  /\ loopQueue # <<>> /\ Head(loopQueue) = t
  /\ Loop!RunNext
  /\ multi' = multi \cup {t}
  /\ UNCHANGED <<resolverVars, httpVars, tasks_, done>>

\* The call queued by resolver_cb.
StartTask(t) ==
  /\ loopQueue # <<>> /\ Head(loopQueue) = t
  /\ Loop!RunNext
  /\ multi' = multi \cup {t}
  /\ tasks_' = tasks_ \cup {t}
  /\ UNCHANGED <<resolverVars, httpVars, done>>

\* check_multi_info, one message.  curl's 90 s timeout ends every transfer.
TransferDone(t) ==
  /\ t \in multi
  /\ multi' = multi \ {t}
  /\ done' = done \cup {t}
  /\ UNCHANGED <<resolverVars, httpVars, loopQueue, tasks_>>

\* Mutant: the list is emptied, busy tasks and all.
RunDrainAll ==
  /\ loopQueue # <<>> /\ Head(loopQueue) = Drain
  /\ Loop!RunNext
  /\ resp' = tasks_ \cap done
  /\ tasks_' = {}
  /\ httpPc' = "replying"
  /\ UNCHANGED <<resolverVars, multi, done, unbuilt, ctxs, accepted, refused, reports>>

\* Mutant: the tasks that are done stay on the list.
RunDrainKeeping ==
  /\ loopQueue # <<>> /\ Head(loopQueue) = Drain
  /\ Loop!RunNext
  /\ resp' = tasks_ \cap done
  /\ httpPc' = "replying"
  /\ UNCHANGED <<resolverVars, tasks_, multi, done, unbuilt, ctxs, accepted, refused, reports>>

\* Mutant: busy tasks are put into the answer too.
RunDrainBusyToo ==
  /\ loopQueue # <<>> /\ Head(loopQueue) = Drain
  /\ Loop!RunNext
  /\ resp' = tasks_
  /\ tasks_' = {}
  /\ httpPc' = "replying"
  /\ UNCHANGED <<resolverVars, multi, done, unbuilt, ctxs, accepted, refused, reports>>

\* Mutant: the promise is kept only when there is something to report.
RunDrainSilent ==
  /\ loopQueue # <<>> /\ Head(loopQueue) = Drain
  /\ Loop!RunNext
  /\ resp' = tasks_ \cap done
  /\ tasks_' = tasks_ \ done
  /\ httpPc' = IF resp' = {} THEN httpPc ELSE "replying"
  /\ UNCHANGED <<resolverVars, multi, done, unbuilt, ctxs, accepted, refused, reports>>

\* The call queued by get_done_tasks_req(): done tasks are moved to the answer
\* and the promise that the HTTP thread waits for is kept.
RunDrain ==
  /\ loopQueue # <<>> /\ Head(loopQueue) = Drain
  /\ Loop!RunNext
  /\ resp' = tasks_ \cap done
  /\ tasks_' = tasks_ \ done
  /\ httpPc' = "replying"
  /\ UNCHANGED <<resolverVars, multi, done, unbuilt, ctxs, accepted, refused, reports>>

-----------------------------------------------------------------------------
(* GET /result, on the HTTP thread                                         *)

ResultRequest ==
  /\ httpPc = "idle"
  /\ httpPc' = "waiting"
  /\ Loop!Post(Drain)
  /\ UNCHANGED <<resolverVars, unbuilt, ctxs, resp, accepted, refused, reports,
                 tasks_, multi, done>>

ResultReply ==
  /\ httpPc = "replying"
  /\ httpPc' = "idle"
  /\ resp' = {}
  /\ reports' = [t \in Tasks |-> IF t \in resp THEN reports[t] + 1 ELSE reports[t]]
  /\ UNCHANGED <<resolverVars, loopVars, unbuilt, ctxs, accepted, refused>>

HttpNext ==
  \/ \E B \in SUBSET Tasks : FetchRequest(B)
  \/ \E t \in Tasks : BuildTask(t) \/ AddTask(t)
  \/ BuildFails
  \/ FetchReply
  \/ ResultRequest
  \/ ResultReply

ResolverNext ==
  \/ \E t \in Tasks : ResolverCb(t)
  \/ \E h \in Hosts : Answer(h)
  \/ EvCb
  \/ FinishAnswer
  \/ FinishCached
  \/ Tick

LoopNext ==
  \/ \E t \in Tasks : StartTask(t) \/ TransferDone(t)
  \/ RunDrain

Next == HttpNext \/ ResolverNext \/ LoopNext

Spec == Init /\ [][Next]_vars

\* Each thread goes on with what it is doing (for the loop's queue that is
\* EventServer!CallsRun), DNS and curl time out, the resolver's mutex is granted
\* to those who wait for it in the end, and a client polls /result for ever and
\* is served in turn.  Nobody has to fetch anything.
Fairness ==
  /\ SF_vars(EvCb)
  /\ SF_vars(\E h \in Hosts : Answer(h))
  /\ WF_vars((\E t \in Tasks : ResolverCb(t)) \/ FinishAnswer \/ FinishCached)
  /\ WF_vars((\E t \in Tasks : StartTask(t)) \/ RunDrain)
  /\ WF_vars(\E t \in Tasks : TransferDone(t))
  /\ WF_vars((\E t \in Tasks : BuildTask(t)) \/ FetchReply \/ ResultReply)
  /\ SF_vars(\E t \in Tasks : AddTask(t))
  /\ SF_vars(ResultRequest)

FairSpec == Spec /\ Fairness

-----------------------------------------------------------------------------
(* Properties                                                              *)

Queued(t) == \E i \in 1 .. Len(loopQueue) : loopQueue[i] = t

\* curl writes to a CrawlContext through a plain pointer (CURLOPT_PRIVATE,
\* CURLOPT_WRITEDATA), and what keeps the context alive is its entry in
\* tasks_: the tasks curl holds are those on the list that are not done.
BusyTasksAreInCurl == tasks_ \ done = multi

\* A task that is with the resolver, queued for the loop, on the list, in the
\* answer being written, reported, or failed for want of an address, is in
\* one of these places only: nothing is lost between the three threads, and
\* nothing is started or reported twice.
Places(t) ==
  <<asked[t] # NoHost /\ calls[t] = 0, Queued(t), t \in tasks_,
    t \in resp, reports[t] = 1, result[t] = "error">>

OnePlace ==
  \A t \in Tasks :
    IF asked[t] = NoHost THEN \A i \in 1 .. 6 : ~ Places(t)[i]
    ELSE \E i \in 1 .. 6 : \A j \in 1 .. 6 : Places(t)[j] <=> i = j

\* No task of a request that is answered with an error was given to the
\* resolver: the request fails before the first of its tasks starts.
RefusedNeverStarted == \A t \in refused : asked[t] = NoHost

\* Where a client that saw everything would say a task is.
Phase(t) ==
  IF t \in refused THEN "refused"
  ELSE IF t \notin accepted THEN "new"
  ELSE IF t \in resp \/ reports[t] > 0 THEN "reported"
  ELSE IF t \in done THEN "done"
  ELSE "running"

Promise == INSTANCE TaskService WITH phase <- [t \in Tasks |-> Phase(t)]

\* Fetcher implements TaskService, whatever the three threads do.
KeepsPromise == Promise!Spec

\* A poll of /result is answered, although the HTTP thread waits for the loop
\* while resolver and loop go on, and however many calls are queued before it.
PollsAreAnswered == httpPc = "waiting" ~> httpPc = "idle"

\* Every task that was taken ends, and is reported to a client that keeps
\* polling, unless its host has no address: once no more tasks are sent, none
\* is outstanding, whether it waited for a lookup of its own, another's, or none.
AcceptedTasksAreReported ==
  <>[](\A t \in accepted : t \in done /\ (reports[t] = 1 \/ result[t] = "error"))

\* A task that is done can be reported, a failed lookup included: Fetcher.h
\* documents "error": "Cannot resolve host" as a member of the result.
DoneTasksAreReportable ==
  \A t \in done : t \in tasks_ \cup resp \/ reports[t] > 0

\* "Too many pending tasks": tasks_ is not to outgrow kMaxTasksCnt.
PendingTasksAreBounded == Cardinality(tasks_) <= kMaxTasksCnt
=============================================================================
