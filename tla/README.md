# webcrawl: TLA+ models, model checking and proofs

This directory holds the formal models of the crawler in `src/`: TLA+ modules
for its concurrent components, TLC configurations that check them on small
instances, and TLAPS proofs that hold for every instance. `PROJECT.json` lists
components, runs, mutants, theorems and, for every definition, the source lines
it stands for.

## 1. The system

A **fetcher** process (C++, `src/Fetcher`, on the library `src/base`) downloads
pages over HTTP; a **spider** (Java, `src/Spider`) feeds it URIs from an HBase
table and stores what it returns.

| Part | State it keeps | Operations | Interacts with |
|---|---|---|---|
| `base/Resolver` | per name a `ResolveInfo` (state, callbacks, expiry, status, addresses), a queue of names to look up, one mutex, one loop thread | `resolve()`; `ev_cb` starts evdns queries; `res_cb` takes answers and runs callbacks | called by the fetcher; calls back on the caller's thread (cache) or its own |
| `base/EventServer` | libevent base, handles, a mutex-guarded queue of calls | `add_timer/add_fd/start/stop/remove` on the loop thread; `add_async`, `exit` from any thread; `loop` | the fetcher's loop |
| `Fetcher` | `tasks_`, curl's multi handle, timers | `create_tasks_req`, `add`, `get_done_tasks_req`, `check_multi_info`, `socket_cb`, `timer_cb` | resolver callback → `add_async` → curl → `tasks_` → result |
| `FetcherServer`, `base/HttpServer` | evhttp, handlers | `POST /fetch`, `GET /result`, one at a time on one thread | the fetcher; clients |
| `CrawlContext`, `Uri`, `Base64`, `Status` | a task and its conversions | `from_json`, `to_json`, parsing, coding | the fetcher |
| `base/Ares` | as Resolver, over c-ares, polled | `resolve`, `do_work` | nothing: it is in no CMakeLists |
| `libuves/EventServer` (two identical copies) | libuv loop, handles, queue of calls | `start`, `stop`, `add_async`, timers, polls | nothing yet |
| `Scheduler`, `Parser`, `Main` | table `web`, the set of URIs seen | scan and `POST /fetch`, retry; poll `GET /result`, store | HBase, the fetcher |

Threads of the fetcher process: the HTTP thread, the resolver's loop, the
fetcher's loop. Locks: `Resolver::Impl::mutex` (held while callbacks run) and
`EventServer::mutex_`, taken in that order only. `tasks_` has no lock: the loop
thread owns it, but `create_tasks_req` reads its size on the HTTP thread.

What is hard here, and what each part owes:

- **Resolver.** Requests for a name meet it in any state: new, queued, queried,
  being answered, done, expired. It owes every request one callback, one query
  per name, and no cached failures.
- **EventServer.** Calls come at any moment of the loop's work, and callbacks
  stop or remove handles that are about to be called. It owes every call one
  execution, in order, and no callback after `stop` or `remove`.
- **Fetcher.** A task moves between three threads and is in no list while it
  does. It owes the client that batches are taken whole or refused whole, tasks
  are neither lost nor reported twice, and curl never holds a freed task.
- **Curl's handles.** Curl changes its mind about sockets and timeouts from inside
  the callbacks that serve them. It must be called for what it waits for, and
  for nothing else.
- **Spider.** Requests are refused and repeated, answers and tasks are lost, the
  table fails. It owes every seed a download, and one task per page and scan.
- **A task's content** (`CrawlContext`, `Uri`, `Base64`). A URI may have separators
  in odd places, a page may be cut off at any chunk. It owes the client the URI's
  parts as meant, the page's bytes, and a mark when some are missing.
- **The end of the program.** `Run()` may return at once, after `Stop()`, or on a
  failure, with tasks anywhere. The destructors owe the threads everything they
  still use, and each join its thread.
- **Ares.** A name is queued until the worker's next round, so it is queried
  more than once; each callback must still run once, and the destructor end.
- **libuves EventServer.** Handles are closed first and freed later, and `stop()`
  changes what other threads read. It owes calls their order, and clients maps
  without dangling handles.

The hazards, line by line, are in `PROJECT.json`.

## 2. Modules

```
AnswerOnce  <--implements--  Resolver       <-- ResolverProofs,      MCResolver
            <--implements--  Ares           <-- AlternativesProofs,  MCAres
CallQueue   <--implements--  EventServer    <-- EventServerProofs,   MCEventServer
            <--implements--  UvEventServer  <-- AlternativesProofs,  MCUvEventServer
TaskService <--implements--  Fetcher        <-- FetcherProofs,       MCFetcher
                             Fetcher = HTTP thread + INSTANCE Resolver + INSTANCE CallQueue + curl
                             SocketWatch    <-- SocketWatchProofs,   MCSocketWatch
AresState   <--extends--     Ares
Uri, Base64 <--extends--     CrawlContext   <-- CrawlContextProofs,  MCCrawlContext
                             FetcherServer  <-- FetcherServerProofs, MCFetcherServer
                             Spider         <-- SpiderProofs,        MCSpider
```

**Resolver** (`base/Resolver.cpp`). Variables are the fields of `Impl` and
`ResolveInfo`; `mutex`, `current` and `todo` are the lock, the record whose
callbacks run under it and those still to run. A critical section without
callbacks is one action (`StartLookup`, `JoinLookup`, `EvCb`); one with
callbacks is split at each (`Answer`, `RunCallback`, `FinishAnswer`, and
`AnswerFromCache`, `RunCallback`, `FinishCached` on a caller's thread), so that
everything another thread could do in between is tried. `tasks` and `queries` count a name's
places in the deque and in evdns, which is how a duplicate would show. The state
`kExpired` exists only inside one critical section (`EffectiveState`). DNS
(`Answer`'s verdict and time to live) and the clock (`Tick`) are free. Left out:
addresses, messages, and the early activation of `notify_ev`, a persistent
one-second timer whose callback is `EvCb` in either case.

**AnswerOnce** promises: a callback runs once, after its request.

**EventServer** (`base/EventServer.cpp`). `handles_`, `pending`, `active` are the
map of handles, the events that were added, and those libevent is about to
report; `running` is the handle `ev_cb` holds with `shared_from_this`. A handle
is an address, which may be used again once it is removed and not running.
libevent's part is from its documented behaviour: `event_del` also cancels a reported event; adding
an expired timer again cancels its report; a one-shot event is spent when its
callback starts; the loop returns when nothing is pending or active. The async callback is split at its mutex
(`SwapBatch`, `RunCall`), since `add_async` runs on other threads. `Init` is the
server as `Fetcher`'s constructor leaves it.

**CallQueue** promises: calls run once each, in order, until the queue closes.

**Fetcher** (`Fetcher/Fetcher.cpp`, `FetcherServer.cpp`). The HTTP thread
(`httpPc`) checks the size, parses, adds, replies, or queues `Drain` and waits.
`ResolverCb` is `Resolver!RunCallback` together with what `resolver_cb` does.
`StartTask` and `RunDrain` are the two calls the loop runs; `TransferDone` is one
message of `check_multi_info`. The unsynchronised read of `tasks_.size()` may
give any answer while a call that pushes to the vector is queued or running
(`SizeCheck`). `tasks_` is a set: the order of tasks in a result is not promised.
The resolver is used as it is, through INSTANCE; the event loop is used through
CallQueue, which EventServer implements.

**TaskService** promises: a batch is accepted or refused whole, a task finishes
at most once, and a finished task is in at most one result. Its `Accept` is the
end of the parsing loop, not the 201 reply, because tasks start before that.

**SocketWatch** (`Fetcher.cpp`: `event_cb`, `socket_cb`, `timer_cb`,
`check_multi_info`). The rest of the fetcher's loop: curl's wishes (`want`, `due`)
beside the handles that are started for them (`pending`, `active`, as in
EventServer). A callback is `Dispatch`, any number of steps of curl inside
`curl_multi_socket_action` and `check_multi_info` (`stage`), and
`CallbackReturns`. Curl is free within its documented contract: it announces each
change through `socket_cb` and `timer_cb`, and does not return with a transfer
that waits for nothing (`CurlWaits`). A socket number is used again.

**Spider** (`Scheduler.java`, `Parser.java`). Both threads, the table, and the
fetcher as they see it: tasks being resolved, busy and done, counted by URI,
because only a count shows a page that was asked for twice. The fetcher's size
check is Fetcher's `SizeCheck`, garbled reads included. Failures of connection,
lookup, table and fetcher are actions, `MaxFaults` of them in a behaviour. A
thread whose exception is not caught is "dead".

**CrawlContext** (`CrawlContext.cpp`, the write callbacks and `check_multi_info`
of `Fetcher.cpp`). One context on its way: `from_json` parses a URI that a client
made of parts (`UriText`), curl adds headers, chunks and an outcome, `to_json`
encodes. A header is a count of responses, an octet is a number. `arrived` is what
curl delivered, which no field of the program keeps.

**Uri** is the regular expression of `Uri.cpp:8`, as the places where each part
may end and the choice of the longest (`UserEnds`, `HostEnds`, `PortEnd`); with
`std::regex_match` a part gives way when the rest would not match (`UserEnd`).
Characters are the separators, `"1"` for digits and anything else for letters; upper
case in a scheme is "HTTP". **Base64** regroups bits as `transform_width` does, by
arithmetic on neighbouring elements.

**FetcherServer** (`FetcherServer.cpp`, `HttpServer.cpp`, the destructors of
`Fetcher`, `Resolver` and `EventServer`). `pc` is `main`, from `Bind` to the last
member; a step past a destructor's line is an action of its own. The loop
thread and the resolver's go on meanwhile. What they use is alive or not by `pc`
(`EsAlive`, `CurlAlive`), and using what is gone is the phase "broken". A
connection ends by its client or libevent's timeout.

**UvEventServer** (`libuves/EventServer.cpp`, either copy). `open`, `started`,
`closing` and `signalled` are libuv's view of the handles, `mapped` the server's.
`add_async` from another thread is two actions (`CallerReads`, `CallerSends`),
because `stop()`'s call changes `async_handle_` without the mutex; `stop()` itself is a call
(`StopWalk`, `StopClear`). What libuv leaves undefined is the phase "broken".

**Ares** (`base/Ares.cpp`), the resolver before Resolver; `new_tasks` and
`queries` count, since a name may be queued and queried several times. A name
that c-ares answers inside `ares_gethostbyname` makes `ares_cb` lock the mutex its
own thread holds: `mutex = "stuck"`, as `std::mutex` does in practice. The worker's
loop is in rounds (`NextRound`, `EndRound`), between which it sees that it is to stop. Its state and
its properties are in **AresState**, its steps in Ares: the two alternatives that no
program is built with share a module of proofs, which extends one and instantiates
the other.

## 3. Runs

| Run | Instance | Shows |
|---|---|---|
| `resolver_lookups` | 4 requests, 2 names, ttl 0 or 1, clock to 3, fair | `OneQueryPerName`, `CacheServesOnlySuccess`, `NobodyForgotten`, refinement of AnswerOnce; every request is answered |
| `eventserver_calls` | 3 calls; stats timer, descriptor, one-shot timer; fair | `NoLostWakeup`, `NoStrayCallback`, refinement of CallQueue; every call is run, or the loop was told to exit |
| `fetcher_service` | 3 tasks, 2 names, limit 2, clock to 2, fair | `BusyTasksAreInCurl`, `OnePlace`, `RefusedNeverStarted`, refinement of TaskService; polls are answered; accepted tasks end and are reported, or have no address |
| `fetcher_dns_failure` | 2 tasks, 1 name | finding 1: a failed lookup is never reported |
| `fetcher_overload` | 3 tasks, 1 name, limit 2 | finding 2: the limit on pending tasks is passed |
| `socketwatch_safety` | 2 sockets, 2 transfers | `WatchesWhatCurlWants`, `TimeoutsAreKept`, no deadlock |
| `crawlcontext_pages` | 2700 URIs; one page, chunks of 1 to 3 octets, limit 3 | `ParsesWhatWasMeant`, `TruncatedMeansCut`, `PageArrives` |
| `fetcherserver_shutdown` | 2 `/fetch`, 2 `/result`, fair | `NoUseAfterDestruction`; polls are answered; the program ends |
| `spider_crawl` | 2 rows, limit 1, 3 tasks in the fetcher, 2 failures, fair | `OneTaskPerScan`; retries end; every seed is stored while both threads live |
| `spider_empty_page` | 2 rows, no failures | finding 3: a failed transfer is stored as a page |
| `ares_promise` | 3 requests, 2 names and an address, fair | `NobodyForgotten`, refinement of AnswerOnce; every request is answered, and the destructor ends, unless the worker is stuck |
| `uveventserver_stop` | a timer, a poll, a call and two `stop()`s, fair | `MapsHoldOpenHandles`, `NoLostWakeup`, `SafeUntilStopped`, refinement of CallQueue; `stop()` ends the loop |

*Bounds.* Requests, names and tasks are compared only with their like. Three
requests for a name are enough to start, join and come late; the second name
shows that records do not disturb each other. The clock starts at 1; to 2, a record
with time to live 0 is served, expires and is looked up again; to 3, one with 1
is served a second longer. Three calls let one wait in the batch, one in the queue, and one arrive. Three
tasks against a limit of two are refused at once, admitted while others are
resolved, and share lookups. The clock bound `MaxNow` is a guard of `Tick`; at the bound
everything else goes on. Two sockets and two transfers let one
callback drop what another is about to serve. The URIs have each separator where it
belongs, where it is allowed and where it misleads, for each part; pages grow past
the limit in one chunk, at its border, and after it (`MaxPage` stops the page, not
the context). A fetcher that lists one task
(`kMaxTasksCnt`) and holds three (`MaxTasks`) refuses, admits and
overfills; two rows in one half, with the other half empty, are scanned, skipped and
asked for in either order; two failures let one
strike while another is being recovered from. `spider_empty_page` needs no failure of
the model's: an unsuccessful transfer is enough. Two stops let a loop be stopped,
started and stopped again. A handle, call, task or request is used once per
behaviour, except that memory of handles is reused.

*Deadlock* is checked except where the code may stop: EventServer, UvEventServer
and FetcherServer (destroyed), CrawlContext (reported),
Spider (both threads may die, and the fetcher is then idle) and Ares (the worker
is stuck, or gone). Resolver, Fetcher and SocketWatch have
no deadlock.
*Symmetry* is used in `socketwatch_safety` only; no run with
a temporal property has it.

*Fairness.* Threads run, and callbacks return (weak fairness of each step of a
critical section or callback). DNS answers or times out (evdns gives up by
itself). curl ends every transfer (`CURLOPT_TIMEOUT`, Fetcher.cpp:104). Strong
fairness stands where a step is enabled again and again but not all the time:
the async handle, since libevent serves its active queue in order; steps that
need the resolver's mutex; and `GET /result`, polled every second for ever by
`Parser` and served by evhttp in turn; `PickUp`, `EndRound` and `ares_cb` in Ares, whose
mutex callers take in between; closing and signalled handles, which libuv serves in
every round; and closing connections, which evhttp's timeout does. Spider
needs weak fairness only: of each of its threads, and of
the fetcher's lookups and transfers, which end by their timeouts. `main` goes on
past `Run()`, and joins return when their threads have. Failures are
never obliged to happen, nor is a client to fetch, anyone to call `Stop()` or the
clock to advance.

*Mutants.* For every property `PROJECT.json` names a plausible bug (an operator
marked `Mutant:` just before the one it replaces) with which TLC finds the
property violated.

## 4. Findings

1. **A failed lookup is never reported** (`fetcher_dns_failure`). `resolver_cb`
   marks the task done and returns (Fetcher.cpp:79-85); only the other path puts
   it into `tasks_`, which results are made from. Fetcher.h:54 documents
   `"error": "Cannot resolve host"` in a result. `AcceptedTasksAreReported`, which
   excepts tasks without an address, holds: what is missing is only this report.
   `FetchedTasksAreReportable` proves that no other task goes missing.
2. **The limit on pending tasks does not limit them** (`fetcher_overload`).
   Fetcher.cpp:146 counts `tasks_`, which a task enters only after its lookup and
   its turn in the loop; requests made meanwhile are admitted, and `tasks_` grows
   past `kMaxTasksCnt`. `SerialRequestsAreBounded` proves that it does not when each
   request waits until the tasks before it are counted or have failed.
3. **A failed transfer is stored as a page** (`spider_empty_page`). Parser.java:43
   gives every task of a result a `download_time`, whatever its `error_message`
   says, and Parser.java:42 prints "Downloaded page" for it. Scheduler.java:99 then
   never asks for it again. `EveryPageIsStored` is about stored rows and holds.
   `LoadedPagesAreStored` proves that failed transfers are the only cause.

What properties say with "unless", and what modelling showed besides:

- One address given to `Ares` as a name stops it for ever (`AnswersUnlessStuck`,
  `AresIsStuckByAddresses`, `AresStaysStuck`);
  names its worker has not yet picked up are forgotten by its destructor.
- `es_` is destroyed before `resolver_` (Fetcher.h:74-75): a lookup that ends in
  between calls `add_async` of a destroyed server. `NoUseAfterDestruction` holds
  for everything else. Tasks queued or unfinished at the end are dropped.
- An address that cannot be bound leaves `Run()` with nothing to wait for: it
  returns true and the program ends with status 0. A second `Stop()`, or one
  without a socket, frees a null or freed socket ("misused").
- A URI with an "@" after its host, or a query or fragment without a path, gets
  parts that are not its own, the host among them (`Plain` in
  `ParsesWhatWasMeant` excludes these). It matches all the same, but may be refused
  for a port it does not have: the host of `https://a@b?@c:99999999999` is taken to be
  "c", and its port too large.
  A context without "uri" has an empty host.
- Contexts read the member "req_headers" where Fetcher.h:32 documents "headers";
  `resp_headers` holds the headers of all responses that led to the page.
- `stop()` of the libuv server is out of libuv's contract when a handle is already
  closing, or another thread is inside `add_async` (`SafeUntilStopped`, `StopEnds`);
  its `stop_poll` removes the poll.

## 5. Proofs

`ResolverProofs` proves, for all sets of requests and names, times to live and
clock bounds (assumption `ResolverAssumption`: `NoHost` is not a name, times to
live are naturals):

- `TypeCorrect`. The one step that needs care is `Answer`, which takes one from
  a count that its guard says is positive.
- `Invariance` of `IInv`: the properties of the runs are not inductive alone.
  `Registered` says a callback sits only in the record it asked for, and only
  while that is being processed; `Locked` ties the mutex to the state of the
  current record; `Counted` says which callbacks have run; `Expiring` says that a
  record which is to be looked up, or whose lookup failed, is past its time,
  because only a success moves `expire`. Each action has a lemma, each lemma one
  step per part.
- `QueriesAreCoalesced`, `FailuresAreNotCached`, `NobodyIsForgotten` follow.
- `Implementation`: Resolver implements AnswerOnce. `Resolve` is `Ask`,
  `RunCallback` is `Reply` (by `Counted`, the callback has not run), and all else
  leaves requests, counts and verdicts alone.

`EventServerProofs` proves, for all sets of handles and calls (assumption
`EventServerAssumption`: the constants are distinct and typed as named):

- `TypeCorrect`: active handles are started and started handles are not freed;
  `NoCallbackIsStray` follows, since only `Dispatch` starts a callback.
- `Invariance` and `NoWakeupIsLost`, with `OnlyLoopRuns` (callbacks run inside
  the loop) and `BatchIsRunning` (a batch exists only after the swap).
- `Implementation`: EventServer implements CallQueue with batch and queue read as
  one queue. The swap is a stutter because the batch is empty before it;
  `ConcatAppend` and `TailConcat` are the facts about sequences it needs.

`SocketWatchProofs` proves, for all sets of sockets and any number of transfers
(assumption `SocketWatchAssumption`: the timer and "no handle" are not handles of
sockets):

- `CurlIsWatched`. `Pointwise` turns the equality of sets of handles into one
  statement per handle, and each of curl's calls into a change of one socket.
- `NoTimeoutIsLost`. Alone it is not inductive: `event_cb` decides by
  `still_running`, read before `check_multi_info` ran. `CountIsCurrent` says that
  it still is the number of transfers, and `StageIsSet` that nobody else, such as
  the call that adds a transfer, ran since.

`SpiderProofs` proves, for all tables, limits and numbers of failures (assumption
`SpiderAssumption`: every row is in one half, the bounds are naturals):

- `TypeCorrect`, and `PagesAreAskedForOnce` by `NotAskedYet` and `AskingNow`: the
  rows a scan has still to ask for, and the one it is asking for, have no task of
  this scan, because `fetch()` repeats only refusals. `CreateOnce` is that step.
- `LoadedPagesAreStored`, of the same system without failed transfers
  (`LoadingSpec`): what is in a result, a batch or the table was loaded
  (`OnlyPages`), although answers are lost, the fetcher restarts and threads die.

`FetcherServerProofs` proves, for all sets of requests (assumption
`FetcherServerAssumption`: a request is of one kind):

- `DestructionIsSafe`. Past the join there is no loop thread (`LoopIsJoined`), so
  curl stays empty once it is cleaned up (`CurlIsEmpty`), and no new lookup
  begins once there is no server (`LookupsAreLate`): the resolver's thread
  can meet a destroyed `es_` only with a lookup that was open then. `TypeCorrect`
  includes that curl holds no context that was freed.

`FetcherProofs` proves, for all sets of tasks and names, limits on tasks, times to
live and clock bounds (assumption `FetcherAssumption`: the call that collects
results is no task, and what Resolver assumes):

- `UsesResolver`: the resolver's variables inside Fetcher take a step of Resolver
  or none, whichever thread moves. So `IInv` of `ResolverProofs`, instantiated with
  tasks for requests, is an invariant here as well, and what follows builds on it:
  in particular, a callback runs only for a task that was asked for, and once.
- `Invariance` of `IInv`, which adds to it: `HttpThread`, what that thread holds at
  each point of its program, and that it waits just while its call is queued;
  `Started`, that the tasks given to the resolver are those accepted and not
  still to be added; `IsPlaced`, `OnePlace` as a number for each task, so that a
  step is a move from one number to another; `IsFinished`, in which places a task is
  done; and that the loop's queue holds no call twice, without which taking a call
  would not take it away. `PostedCall` and `TakenCall` are the two facts about that
  queue. Steps that move no task are covered by `Unmoved`; each of the others has a
  lemma.
- `BusyTasksStayListed`, `TasksHaveOnePlace`, `RefusedTasksNeverStart` and
  `TypeCorrect` follow.
- `Implementation`: Fetcher implements TaskService. Accepting is `BuildTask` with
  the last member, refusing `FetchRequest` or `BuildFails`, finishing `TransferDone`
  or `ResolverCb` with an error, reporting `RunDrain`. That each starts from the
  phase it should is where the invariant is needed: what is taken off the list has
  not been reported, and what fails to resolve was not done before. All other
  steps keep each task's `Phase`.
- `LookupsAreSafe`, `LookupsAreAnsweredOnce` and `UsesCallQueue`: the parts within
  keep to their specifications. The resolver's safety and its refinement of
  AnswerOnce hold for tasks as requests; and the queue between the HTTP thread, the
  resolver and the loop behaves as CallQueue, which EventServer was proved to
  implement.
- `AnswersAreFinal`, an action property: no step of the three threads takes back
  what a client was told. It needs no case for each action, since TaskService, which
  Fetcher implements, has only four kinds of step.
- Two theorems about the edge of the findings. `FetchedTasksAreReportable` is
  `DoneTasksAreReportable` for the tasks whose lookup succeeded. `SerialRequestsAreBounded`
  is `PendingTasksAreBounded` for clients that make one request at a time
  (`SerialSpec`). It rests on `Pending`, all that may still come to the list: its
  size grows only in the size check, which counts every task when the others are
  settled and no call to the loop is open (`CheckIsExact`), so what is admitted fits
  (`AdmittedFits`), and it shrinks otherwise (`PendingShrinks`).

`CrawlContextProofs` proves, for all limits, pages and chunks (assumption
`CrawlContextAssumption`: chunks are octets, not empty and not above `MaxChunk`;
`WellFormed`, what the expression at Uri.cpp:10 asks of the characters in each part
of a URI, and that a host has no "@"):

- `BodyIsFaithful`, by `BodyIsPrefix` and `BodyIsCutAtLimit`: nothing is appended
  after something was dropped, because a body past the limit stays past it.
- `PageReachesClient`: decoding undoes encoding, for pages of any length and
  octets. `Grouped` computes the four characters of three octets, those beyond the
  end included, `Ungrouped` the three octets of four characters, `Encoded` the
  length and the padding; `AnswerIsKept` carries the body and the two marks from the
  transfer to the answer.
- `UriIsUnderstood`, for parts of any length and any letters. `Layout` says where
  the parts stand in the text that is put together from them (`Laid`). From there,
  `Separated` says what follows each part, and `UserFound`, `HostFound`, `PortFound`
  and `RestFound` that the parser's choices include the places that were meant: so
  every text matches. That they are the choices the greedy expression takes
  (`UserIs`, and the second half of `HostFound`) holds when the text is
  `Unambiguous`: no later "@" ends a longer user, and no "?" or "#" extends a host.

`AlternativesProofs` proves of UvEventServer, for all handles, calls and stops (assumption
`UvEventServerAssumption`: handles, calls and their null values are distinct):

- `ContractIsKept`, `NoWakeupIsLost` and `MapsAreCurrent`. `ServesUntilStopped` is
  what the first two rest on: until a `stop()` the async handle is open, what a
  caller has read is this handle, and therefore `uv_run` does not return.
  `WalkClosesAll` says that what `stop()` has still to clear from the maps is closed.
- `Implementation`: UvEventServer implements CallQueue, along the same lines as
  EventServer: a batch exists only while its callback runs (`BatchIsRunning`).

It proves of Ares, for all sets of requests, names and addresses (assumption
`AresAssumption`: addresses are among the names, `NoHost` is not):

- `AresForgetsNobody`, by the invariant `AresIInv`: `AresLocked` ties the mutex to the
  record whose callbacks run, `AresRegistered` says that a record with callbacks is
  queued or queried as its state claims, `AresCounted` where the callbacks that have
  not run are, `AresTeardown` how far the end has come. What Resolver has, that a
  name is queued and queried once, is not true here and not needed: a record
  leaves "in processing" with its first answer, later ones find no callbacks.
- `AresImplementation`: Ares implements AnswerOnce as Resolver does.
- `AresIsStuckByAddresses` and `AresStaysStuck`: only an address stops the worker
  (`AresBlame`), and then for good.

Only model-checked: liveness (`AnswersEveryRequest`, `CallsRun`,
`PollsAreAnswered`, `AcceptedTasksAreReported`, `ResultsAreAnswered`, `ServerEnds`,
`RetriesEnd`, `EveryPageIsStored`, `AnswersUnlessStuck`, `DestructionEnds`,
`StopEnds`), which rests on fairness and ENABLED and is beyond the prover. Every
safety invariant, action property and refinement of the passing runs is proved.

## 6. Not modelled

- `CharsetDetector` (unused), `Experiment.cpp` (a try-out), test programs, build
  files and data. `FetchApi` and `Status` are data.
- JSON and HTTP syntax, addresses, header texts, messages, statistics; members that
  are only copied between JSON and a context (`user_data`, `method`, which neither
  curl's setup nor the handlers look at, and `redirect_uri`, which nothing sets).
- A wall clock that is set back (Resolver.cpp:77); evdns reporting an
  unexpected record type (Resolver.cpp:110) or no address (Fetcher.cpp:86); curl
  running out of memory (Fetcher.cpp:132); `notify_ev` freed under another
  thread's `resolve()` (Resolver.cpp:64), since the only caller destroys it.
- `Scheduler.stop` and `Parser.stop`, which no code sets, and the delay of
  `EventServer::exit(ms)`.

`PROJECT.json` says why for each component and hazard.

## 7. Plan

All components with logic of their own are modelled. The safety invariants, action
properties and refinements of the passing runs are proved, and so is where each
finding ends. What is left is a proof of liveness, which these provers do not
support, and the seams between components: `UsesResolver` and `UsesCallQueue` join
Fetcher to its parts, while SocketWatch, FetcherServer and Spider meet the fetcher
only in what they assume of it (sections 2 and 3).
