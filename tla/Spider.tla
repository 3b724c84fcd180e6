------------------------------- MODULE Spider --------------------------------
(***************************************************************************)
(* The spider: two threads of one Java process work on the table "web".    *)
(*  - Scheduler scans it again and again, half of the rows at a time, and  *)
(*    asks the fetcher for every page that has no download_time.           *)
(*  - Parser polls the fetcher for finished tasks and stores them.         *)
(* The fetcher is what the two see of it: tasks being resolved, tasks on   *)
(* its list that are busy, and tasks on its list that are done, each       *)
(* counted by URI.  Requests and answers may be lost, the table may fail,  *)
(* and the fetcher may restart; MaxFaults bounds how often that happens.   *)
(***************************************************************************)
EXTENDS Naturals, FiniteSetsExt

CONSTANTS
  Uris,          \* row keys of the table
  Groups,        \* md5(uri) % 2
  NoUri,         \* "no row is being fetched"
  kMaxTasksCnt,  \* the fetcher's limit on its list
  MaxTasks,      \* bound on the tasks inside the fetcher
  MaxFaults      \* bound on failures of network, table and fetcher

ASSUME SpiderAssumption ==
  /\ Groups \in [Uris -> {0, 1}]
  /\ NoUri \notin Uris
  /\ kMaxTasksCnt \in Nat \ {0}
  /\ MaxTasks \in Nat /\ MaxTasks > kMaxTasksCnt
  /\ MaxFaults \in Nat

VARIABLES
  pc,         \* Scheduler: "idle", "rows", "posting", "backoff", "dead"
  group,      \* the half of the rows this scan is about
  rows,       \* rows of the scan, as the scanner read them, still to be fetched
  uri,        \* the row fetch() is called for
  made,       \* history: tasks this scan has created
  resolving,  \* fetcher: tasks created and not yet on its list
  busy,       \* fetcher: tasks on its list that are not done
  ready,      \* fetcher: tasks on its list that are done
  parserPc,   \* Parser: "polling", "storing", "dead"
  batch,      \* pages of the last answer that are not yet stored
  stored,     \* rows with a download_time
  loaded,     \* history: pages of which a transfer succeeded
  faults      \* history: failures so far

schedulerVars == <<pc, group, rows, uri, made>>
fetcherVars == <<resolving, busy, ready, loaded>>
parserVars == <<parserPc, batch, stored>>
vars == <<schedulerVars, fetcherVars, parserVars, faults>>

TypeOK ==
  /\ pc \in {"idle", "rows", "posting", "backoff", "dead"}
  /\ group \in {0, 1}
  /\ rows \in SUBSET Uris
  /\ uri \in Uris \cup {NoUri}
  /\ made \in [Uris -> Nat]
  /\ resolving \in [Uris -> Nat]
  /\ busy \in [Uris -> Nat]
  /\ ready \in [Uris -> Nat]
  /\ parserPc \in {"polling", "storing", "dead"}
  /\ batch \in SUBSET Uris
  /\ stored \in SUBSET Uris
  /\ loaded \in SUBSET Uris
  /\ faults \in 0 .. MaxFaults

NoTasks == [u \in Uris |-> 0]

\* Main.initWebTable(true): the table is made anew with the seeds, then both
\* threads start.
Init ==
  /\ pc = "idle"
  /\ group = 0
  /\ rows = {}
  /\ uri = NoUri
  /\ made = NoTasks
  /\ resolving = NoTasks
  /\ busy = NoTasks
  /\ ready = NoTasks
  /\ parserPc = "polling"
  /\ batch = {}
  /\ stored = {}
  /\ loaded = {}
  /\ faults = 0

Fault == faults < MaxFaults /\ faults' = faults + 1

-----------------------------------------------------------------------------
(* Scheduler                                                               *)

\* md5(uri) % 2 == group
InGroup(u) == Groups[u] = group

\* getScanner: a row that is stored after it was read counts as new.
OpenScan ==
  /\ pc = "idle"
  /\ pc' = "rows"
  /\ rows' = {u \in Uris \ stored : InGroup(u)}
  /\ made' = NoTasks
  /\ UNCHANGED <<group, uri, fetcherVars, parserVars, faults>>

NextRow(u) ==
  /\ pc = "rows"
  /\ u \in rows
  /\ rows' = rows \ {u}
  /\ uri' = u
  /\ pc' = "posting"
  /\ UNCHANGED <<group, made, fetcherVars, parserVars, faults>>

\* Mutant: the second half of the rows is never scanned.
EndScanSameGroup ==
  /\ pc = "rows"
  /\ rows = {}
  /\ pc' = "idle"
  /\ UNCHANGED <<group, rows, uri, made, fetcherVars, parserVars, faults>>

EndScan ==
  /\ pc = "rows"
  /\ rows = {}
  /\ group' = (group + 1) % 2
  /\ pc' = "idle"
  /\ UNCHANGED <<rows, uri, made, fetcherVars, parserVars, faults>>

Added(tasks, u) == [tasks EXCEPT ![u] = @ + 1]
Taken(tasks, u) == [tasks EXCEPT ![u] = @ - 1]
Count(tasks) == MapThenSumSet(LAMBDA u : tasks[u], Uris)
Listed == Count(busy) + Count(ready)

\* The fetcher's size check, which may read garbage while tasks that have
\* been resolved are put on the list.
Admits == Listed + 1 <= kMaxTasksCnt \/ Count(resolving) > 0
Refuses == Listed + 1 > kMaxTasksCnt \/ Count(resolving) > 0

\* The fetcher takes the task, whether or not Scheduler hears of it.
Create(u) ==
  /\ Admits
  /\ Count(resolving) + Listed < MaxTasks
  /\ resolving' = Added(resolving, u)
  /\ made' = Added(made, u)
  /\ UNCHANGED <<busy, ready, loaded>>

PostAccepted ==
  /\ pc = "posting"
  /\ Create(uri)
  /\ pc' = "rows"
  /\ uri' = NoUri
  /\ UNCHANGED <<group, rows, parserVars, faults>>

\* 400 Bad Request is a UniformInterfaceException: fetch() sleeps, ...
PostRefused ==
  /\ pc = "posting"
  /\ Refuses
  /\ pc' = "backoff"
  /\ UNCHANGED <<group, rows, uri, made, fetcherVars, parserVars, faults>>

\* ... and posts the same request again, for ever if need be.
Retry ==
  /\ pc = "backoff"
  /\ pc' = "posting"
  /\ UNCHANGED <<group, rows, uri, made, fetcherVars, parserVars, faults>>

\* Without a connection post() throws a ClientHandlerException, which neither
\* fetch() nor run() catches; nor does the scan outlive an IOException of the
\* table.  The thread ends.
SchedulerDies ==
  /\ pc \in {"idle", "rows", "posting"}
  /\ Fault
  /\ pc' = "dead"
  /\ UNCHANGED <<group, rows, uri, made, fetcherVars, parserVars>>

\* Mutant: fetch() retries after a broken connection too.
PostReplyLostRetried ==
  /\ pc = "posting"
  /\ Fault
  /\ Create(uri)
  /\ pc' = "backoff"
  /\ UNCHANGED <<group, rows, uri, parserVars>>

\* The same when the connection breaks after the fetcher took the task.
PostReplyLost ==
  /\ pc = "posting"
  /\ Fault
  /\ Create(uri)
  /\ pc' = "dead"
  /\ UNCHANGED <<group, rows, uri, parserVars>>

-----------------------------------------------------------------------------
(* The fetcher                                                             *)

StartTask(u) ==
  /\ resolving[u] > 0
  /\ resolving' = Taken(resolving, u)
  /\ busy' = Added(busy, u)
  /\ UNCHANGED <<schedulerVars, ready, loaded, parserVars, faults>>

\* A task whose host is not found is never heard of again.
LookupFails(u) ==
  /\ resolving[u] > 0
  /\ Fault
  /\ resolving' = Taken(resolving, u)
  /\ UNCHANGED <<schedulerVars, busy, ready, loaded, parserVars>>

\* curl is done, with a page or with an error; the task is listed as done.
TransferDone(u) ==
  /\ busy[u] > 0
  /\ busy' = Taken(busy, u)
  /\ ready' = Added(ready, u)
  /\ loaded' \in {loaded, loaded \cup {u}}
  /\ UNCHANGED <<schedulerVars, resolving, parserVars, faults>>

\* The process is restarted: nothing it knew is kept.
Restart ==
  /\ Fault
  /\ resolving' = NoTasks
  /\ busy' = NoTasks
  /\ ready' = NoTasks
  /\ UNCHANGED <<schedulerVars, loaded, parserVars>>

-----------------------------------------------------------------------------
(* Parser                                                                  *)

\* Mutant: the fetcher keeps the tasks it reports.
PollKeeping ==
  /\ parserPc = "polling"
  /\ batch' = {u \in Uris : ready[u] > 0}
  /\ parserPc' = "storing"
  /\ UNCHANGED <<schedulerVars, fetcherVars, stored, faults>>

\* GET /result: the fetcher forgets the tasks it answers with.
Poll ==
  /\ parserPc = "polling"
  /\ batch' = {u \in Uris : ready[u] > 0}
  /\ ready' = NoTasks
  /\ parserPc' = "storing"
  /\ UNCHANGED <<schedulerVars, resolving, busy, loaded, stored, faults>>

\* The answer is lost; the ClientHandlerException is caught in the loop.
PollReplyLost ==
  /\ parserPc = "polling"
  /\ Fault
  /\ ready' = NoTasks
  /\ UNCHANGED <<schedulerVars, resolving, busy, loaded, parserVars>>

\* One Put writes body and download_time of a page, whatever became of it.
Store(u) ==
  /\ parserPc = "storing"
  /\ u \in batch
  /\ batch' = batch \ {u}
  /\ stored' = stored \cup {u}
  /\ UNCHANGED <<schedulerVars, fetcherVars, parserPc, faults>>

BatchDone ==
  /\ parserPc = "storing"
  /\ batch = {}
  /\ parserPc' = "polling"
  /\ UNCHANGED <<schedulerVars, fetcherVars, batch, stored, faults>>

\* table.put throws: the thread ends, with what it has not stored.
ParserDies ==
  /\ parserPc = "storing"
  /\ batch # {}
  /\ Fault
  /\ parserPc' = "dead"
  /\ UNCHANGED <<schedulerVars, fetcherVars, batch, stored>>

SchedulerNext ==
  \/ OpenScan
  \/ \E u \in Uris : NextRow(u)
  \/ EndScan
  \/ PostAccepted
  \/ PostRefused
  \/ Retry

FetcherNext == \E u \in Uris : StartTask(u) \/ TransferDone(u)

ParserNext == Poll \/ (\E u \in Uris : Store(u)) \/ BatchDone

FaultNext ==
  \/ SchedulerDies
  \/ PostReplyLost
  \/ \E u \in Uris : LookupFails(u)
  \/ Restart
  \/ PollReplyLost
  \/ ParserDies

Next == SchedulerNext \/ FetcherNext \/ ParserNext \/ FaultNext

Spec == Init /\ [][Next]_vars

\* Both threads run; every lookup and every transfer ends by its timeout; one
\* poll after another is answered.
Fairness ==
  /\ WF_vars(SchedulerNext)
  /\ \A u \in Uris : WF_vars(StartTask(u)) /\ WF_vars(TransferDone(u))
  /\ WF_vars(ParserNext)

FairSpec == Spec /\ Fairness

-----------------------------------------------------------------------------
(* Properties                                                              *)

\* However often a request is refused and sent again, a scan creates one task
\* for a page: fetch() repeats only requests that created nothing.
OneTaskPerScan == \A u \in Uris : made[u] <= 1

\* Scheduler does not retry for ever: while Parser lives, a full fetcher is
\* emptied and takes the request, although all URIs wait behind this one.
RetriesEnd ==
  pc \in {"posting", "backoff"} ~>
    pc \in {"rows", "dead"} \/ parserPc = "dead"

\* While both threads live every seed is stored in the end, whatever answers,
\* lookups and tasks were lost on the way: later scans ask for it again.
EveryPageIsStored ==
  \A u \in Uris : <>(u \in stored \/ pc = "dead" \/ parserPc = "dead")

\* A page with a download_time was downloaded.
StoredPagesWereLoaded == stored \subseteq loaded
=============================================================================
