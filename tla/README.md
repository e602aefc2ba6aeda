# TLA+ models of Clean Disk

Clean Disk shows what fills a disk and moves what the user picks to the trash.
It is a Flutter client (`apps/clean_disk`, `features/scan`, `packages`) and a
Rust daemon, `clean-disk-server` (`apps/clean_disk_server`), which uses the
crates under `rust/crates`. Client and daemon talk over HTTP and one WebSocket.
On the web the client keeps its database in a worker,
`apps/clean_disk/web/drift_worker.js`: the database server of drift, with
SQLite's bindings and file systems, compiled from Dart to JavaScript.
Paths below are relative to `src/`; `lib.rs` alone is
`apps/clean_disk_server/src/lib.rs`, "the worker" alone is `drift_worker.js`.

This directory holds TLA+ modules of the parts of the system whose correctness
depends on order, on failure and on shared state, the TLC configurations that
check them on small instances, and proofs that TLAPS checks for all instances.

    tlasany M.tla                              parse
    tlc -workers 2 -config X.cfg M             check a run (table below)
    tlapm CleanupProofs.tla                    check proofs
          (also CleanupOnceProofs, ScanProofs, EventProofs, ClientProofs,
          WorkerProofs, IndexedDbProofs, FoldLemmas)

## 1. Inventory

### Daemon

| Part | State | Operations | Talks to |
| --- | --- | --- | --- |
| Cleanup execution (`lib.rs` 727-853, 1640-1989) | plan store, active commands, active paths; the requests in flight and their blocking workers | create plan, execute plan | journal, trash adapter, file system |
| Cleanup journal (`lib.rs` 855-1149) | one JSON-lines file | append, records, receipt for command, recovery inbox | file system |
| Session registry (`lib.rs` 351-516) | sessions with their token, flag and result; event log, sequence, broadcast channel | start, status, cancel, dispose, push event, subscribe, shutdown | scan threads, sockets |
| Admission (`fs_usage_engine/src/runtime.rs`) | `active_scans` | acquire, drop of a permit | start handler, scan thread |
| Scan session (`fs_usage_engine/src/scan.rs`) | state, snapshot | start, on one blocking thread | backend, event sink |
| Event socket (`lib.rs` 2357-2402) | receiver, copy of the log, high watermark | replay, follow, lag | registry, client |
| Queries (`lib.rs` 518-660, 1476-1640) | cursor registry | children, search, top items, details | read model |
| Read model (`fs_usage_engine/src/read_model.rs`) | immutable node arena and indexes | publish, page, search | - |
| PDU backend (`fs_usage_pdu`) | traversal thread, reporter, growing tree recorder | scan | file system, event sink |
| Platform, protocol, core types | none | conversions and validation | - |

Every shared structure of the daemon is behind a mutex or an atomic of its own,
and no handler holds two of them over a step that waits, so the interleavings
that matter are those *between* critical sections. Handlers run on the tokio
runtime; scans and cleanups run on blocking threads, which a dropped request
does not stop. Only the journal and the user's files survive a restart.

### Client

| Part | State | Operations |
| --- | --- | --- |
| Event stream client (`scan_event_stream_client.dart`) | one socket | connect, reconnect |
| Workspace store (`scan_workspace_store.dart`) | session, status, rows, growing tree, last sequence number, pending events | commands, refresh, reconcile event |
| Home page (`scan_home_page.dart`) | timers, command counter | turns gestures into commands |
| Repository, API client | none | one call per method |
| Token refresh, retry (`packages/dio_http_client`) | refresh in flight | on a 401, on a failure |
| Cache, design system, localisation, map renderer | - | - |

### Web worker

The browser runs the worker once per tab (a dedicated worker) and once for all
tabs (the shared worker), which may nest a dedicated one. All of them execute
the same file. Its names are the compiler's; `symbol` in `PROJECT.json` gives
the Dart name next to the compiled one.

| Part | State | Operations |
| --- | --- | --- |
| Checks | questions that wait, the nested worker, a lock, a file for trying | ask, pass on, detect access handles, answer |
| Servers | map of open databases, tabs of each | connect, open, close, delete |
| Database server | executors and their backlog, locks, requests in flight | open, run, begin, commit, roll back, leave |
| Files in IndexedDB | files in memory, queue of work items | calls of SQLite, storing, closing |
| Files in the OPFS | two cells shared by two workers, handles, locks | calls of SQLite, requests of the file system server |
| Fixed files | two files kept open, marks of which exist | calls of SQLite |
| SQLite bindings | connection, prepared statements, cache | prepare, bind, run, read, batch, close |
| Search | - | probe for IndexedDB and for a database, list and delete in the OPFS |
| Channel, messages | two guarded ends and a port, two protocols | add, close, encode, decode |
| Dart library | microtasks, listeners, subscriptions, collections | what the compiler took of `dart:async` and `dart:collection` |

### What is hard, and what makes each part correct

* **Cleanup.** Two workers on overlapping directories; a client that goes away
  while its worker runs; an append that fails or is torn; a crash around the
  call of the trash adapter; a retry of all that. Correct means: nobody is told
  something untrue about a file, no file is asked to be moved twice for one
  command, running cleanups do not touch each other's paths, whatever was
  cut short is shown to the user, and locks come back.
* **Scans.** Requests racing for the last permit; cancel and dispose at any
  step of a thread that does not notice; shutdown. Correct means: permits equal
  scans, what a session reports is what its events said, everything ends.
* **Events.** Numbers drawn outside the lock of the log; replay overlapping the
  live stream; lag; eviction; restart. Correct means: an order the watermark
  may rely on, nothing heard twice, and no gap the client does not see when it
  hears the next event.
* **Queries.** A registry that drops the cursors of others, disposals between
  two locks, page boundaries. Correct means: following the cursors gives the
  whole list, and a cursor is lost only in the ways the code accounts for.
* **Growing tree.** Nodes are recorded by one thread and drained by another,
  cut into batches, canceled. Correct means: parents before children, nothing
  the final batch does not repair, and the scan returns.
* **Workspace store, interceptors.** Answers and events in any order for a
  session that may not be shown any more; a second refresh of the token; nested
  retries. Correct means: what ended stays ended, a completed scan is shown, a
  request is answered, and no error is left in the queue.
* **Web worker.** Tabs that come, go and crash at any step; one queue, lock or
  answer shared by all of them; files that are stored later than SQLite was
  told. Correct means: transactions of tabs do not mix, what was committed is
  there for the next server, a lock holds, everyone is answered.

`PROJECT.json` lists every component with its status and every hazard with its
line and the properties that cover it.

## 2. Modules

| Module | What it is |
| --- | --- |
| `CleanupJournal` | operators: the records, what one append leaves in the file, receipts and inbox described declaratively |
| `CleanupExecution` | requests, workers, locks, plan store, journal, files; EXTENDS `CleanupJournal` |
| `CleanupPromise` | abstract: what a user may rely on about each item |
| `CleanupRefinement` | the mapping from `CleanupExecution` to `CleanupPromise` |
| `CleanupReceiptFold` | `build_cleanup_receipts` record by record, compared with the description |
| `CleanupProofs` | theorems about `CleanupExecution`: types, exclusion, damage |
| `CleanupOnceProofs` | a command moves an item at most once, its receipt tells so, and the promise is kept; EXTENDS `CleanupProofs` |
| `ScanSlots` | abstract: a pool of slots |
| `ScanSessions` | start, cancel, dispose, threads, permits, shutdown; implements `ScanSlots` |
| `ScanProofs` | theorems about `ScanSessions` and `GrowingTree` |
| `EventStream` | push_event, log, channel, socket, client sequence numbers |
| `EventProofs` | theorems about `EventStream` and `QueryCursors` |
| `QueryCursors` | paged queries and the registry of cursors |
| `GrowingTree` | traversal, recorder, batches, and the client's partial tree |
| `WorkspaceStore` | the client's store and polling page against a daemon |
| `HttpClient` | auth, refresh and retry interceptors |
| `ClientProofs` | theorems about `HttpClient` and `WorkspaceStore` |
| `FoldLemmas` | what the proofs about folds over sequences and sums over sets need |
| `WorkerChecks` | what tabs ask workers before they open a database |
| `WorkerServers` | the servers of one database and the tabs at them |
| `DriftServer` | requests, executors, nested transactions of one server |
| `IndexedDbFiles` | files in memory, queued and stored later |
| `IndexedDbProofs` | theorems about `IndexedDbFiles` |
| `OpfsFiles` | two workers and their cells, handles and locks |
| `FixedFiles` | files that are always open, with marks |
| `WorkerProofs` | theorems about `WorkerServers`, `DriftServer`, `OpfsFiles`, `FixedFiles` and `WorkerChecks` |
| `MemoryFiles` | the file system in memory and SQLite's callbacks |
| `SqliteStatements` | connection, statements, cache, values |
| `DriftMessages` | every message in both protocols |
| `PortChannels` | the channel over a port and how it closes |
| `IndexedDbProbes`, `OpfsListing` | the search for databases |
| `DartFutures`, `DartStreams`, `DartBroadcasts`, `DartCollections` | the Dart library the worker stands on |
| `MC...` | instances for TLC |

`MCScans`, `MCServerOutput`, `MCClient`, `MCWebStorage` and `MCLibraries` put
several modules that share no state into one run: a variable `part`, chosen at
the start, says which of them the behaviour runs, and the others stay at their
initial state. Every behaviour of a module is a behaviour of the run, and no
state is multiplied. A property of such a run is the conjunction of those of
its parts; the conjuncts are named in the MC module, and each of them has a
mutant of its own.

### Cleanup

`CleanupExecution` has one record per request slot: `request[r]` is the async
handler, `worker[r]` the closure given to `spawn_blocking`. A program counter
stands for the place in `execute_cleanup_plan` and `execute_cleanup_record`.
Each action is what the code does between two points at which others may get
in: a mutex taken and dropped, one journal call, one file system call.

| Code | Action |
| --- | --- |
| `build_cleanup_plan_record`, `CleanupPlanStore::insert` | `CreatePlan` (refuses overlapping items, drops the oldest plan) |
| `try_acquire_command` | `AcquireCommand` |
| first `receipt_for_command` | `LookUpReceipt` |
| `CleanupPlanStore::get` + `spawn_blocking` | `SpawnWorker` |
| await of the worker, or a dropped future | `Respond`, `Disconnect` (which drops the guard only) |
| second `receipt_for_command` | `CheckReceipt` |
| `CleanupExecutionLocks::try_acquire` | `AcquirePaths` |
| `ensure_ready`, `CleanupPlanStore::take` | `TakePlan` |
| the appends | `RecordIntent`, `RecordSkeleton`, `RecordBlocked`, `RecordDispatch`, `RecordOutcome`, `Finalize` |
| preflight, revalidation, comparison | `Revalidate` |
| `TrashAdapter::move_to_trash` | `MoveToTrash` (external: moves the subtree, or fails) |
| `cleanup_final_state`, last lookup | `Summarise`, `Reply` |
| process exit | `Crash` (may leave a partial append) |

A node stands for its path; `Inside` says which path starts with which. A
version stands for the identity evidence found at a path, and `Eligible` for
the static checks. `Record` is one `append`; `FaultyAppend` lists how it can
end: refused, torn, whole but unterminated, whole but with a failed sync.
The intent and skeleton records carry the set of items; sums of bytes,
timestamps and display texts are left out. An operation id always equals the
command id in this code, so one field stands for both. The model keeps in
`trashed` every call of the adapter, which the code does not keep: properties
compare what receipts say with what was done.

### Scan sessions

`start[s]` is the start handler, `work[s]` the thread, `status[s]` what
`status_from_record` would report, `told[s]` the lifecycle events pushed. The
result of `ScanSession::start` is private to the thread until `complete`
stores it, so it is a variable of its own, `outcome`. `LoadActive` and
`CompareExchange` are the two atomics of `try_acquire_scan`; `ReleasePermit` is
the drop of the permit, which was moved into the thread. The backend is a
choice in `BackendReturns`: a tree, a failure, or canceled if it saw the token.
A session id is drawn from a counter and never used again, so the set
`Sessions` is the set of ids.

### Event stream

`push_event` is `Record` (the session's own record; nothing happens for one
that was disposed), `Number` (`fetch_add`), and `Publish` (the lock of the log:
replace the previous progress event of the session, evict, append, send). The
socket is `Subscribe`, `CopyLog`, `SendReplay`, `Receive`, `Lag`, `Drop`. The
client is `Hear`: `_recordEventSequence` and the refresh it asks for;
`ForgetSequence` is the reset in `start` and `connectEvents`. `sent` is the
broadcast channel; the receiver's place in it is `socket.next` and it lags when
more than `RingSize` events came after it. Envelopes carry an `id`, their place
in `sent`, which the code does not have; it lets properties name an event
across restarts. Events of one scan come from one thread, in the order of
`ScanSession::start`: started, updates, one last event (or only the last, when
the scan was canceled before it began).

### Queries, growing tree

A query is cut where the code drops a lock: `AskFirst` or `AskNext` looks the
session or the cursor up, `ReadPage` reads without a lock, `NumberCursor` draws
a number, `StoreCursor` inserts. A dispose is `RemoveSession`, then
`RemoveCursors`. The registry is a sequence of tokens beside a map of cursors,
as in the code; `RegistryConsistent` relates the two. A listing is its length
and a page a range of it: the contents of the arena are left out.

`GrowingTree` has the traversal threads (`CountNode`, `FailNode`, and
`RecordNode` under the mutex of the recorder: a child is reached once its
directory was recorded, and its size is added to all ancestors the recorder
has), and the scan thread, which drains at most `BatchSize` news at a time, sends
progress, stops when it is canceled, and ends with the complete root. A path is
a sequence of names. `view` is what the client's store makes of the batches.

### Workspace store, HTTP client

Each call of the store is three steps: sent, answered by the daemon (with what
is true at that moment), applied after the `await`. Events come in between. A
scan, its session and its snapshot share a number. The two watches of
`scan_home_page.dart`, polling and loading, are `PollStatus`, `PollRows` and
`Autoload`. Loads of top items and search repeat the staleness check of the
tree and are left out.

`HttpClient` follows one request through the chain `auth`, `refresh`, `retry`.
dio's `QueuedInterceptor` (external) is `errorQueue`: the handler of its head
runs, the others wait. A retry sends the request through the same chain again,
so a call has a stack of attempts; the extra map that marks a resent request
goes with it.

### Web worker

* `WorkerChecks`: `Ask` of a tab, the shared worker's forwarding to its nested
  worker, and the detection, which is cut at each `await` of
  `checkOpfsSupport`: get the file, get its handle, close it, remove it. The
  lock `_compatibilityCheckLock` serialises the detections of one worker only.
* `WorkerServers`: a server goes `new`, `opening`, `reads`, `asks` (for an
  initial database), `open`, `closing`, `closed`. Files are sets of commits.
* `DriftServer`: one action per handler of `_handleRequest` and per point at
  which it waits. An executor is a number; `backlog` is `_executorBacklog`.
  SQLite (external) keeps the open transactions in `raw`.
* `IndexedDbFiles`: `SQLite` calls between two turns of the event loop are one
  action; `Submitted`, `Written`, `Truncated` and `Deleted` follow `insertInto`
  of each kind of work item, `Store` is one item's transaction. Pages hold the number of the transaction
  that wrote them.
* `OpfsFiles`: the client side writes its request to one cell and waits for the
  other; the server waits for a request with a time-out, after which it lets
  handles without a lock go. The browser (external) grants a handle to one tab.
  `locked` is what SQLite believes, `level` the lock level of the file object
  (11238): it is set with the first lock, no unlock resets it, and while it is
  set a lock is `LockAgain`, of which the server hears nothing. `held` has the
  tabs whose server had the handle for the file as SQLite has it locked: from
  the lock call on, or from the first access after a lock that was not sent.
* `FixedFiles`: two files, their marks, a worker that may end between any two
  writes, and SQLite's pager (external), which rolls a journal back on opening.
* `SqliteStatements`, `MemoryFiles`, `DriftMessages`, `DartFutures` and
  `DartCollections` are mostly operators that take the state of the library and
  give the one after a call, as the code runs such a call to its end. Their
  properties compare them with a plain description: a statement's values come
  back, a file reads as it was written, a decoded message is the one that was
  encoded, each listener is called once.
* `PortChannels`, `DartStreams` and `DartBroadcasts` have an action per turn of
  the event loop or per callback.
* `IndexedDbProbes`, `OpfsListing`: one action per request to the browser
  (external), with tabs that use the databases meanwhile.

## 3. Runs

Seven runs pass, five find a counterexample.

| Run | Instance | Asks |
| --- | --- | --- |
| `cleanup_core` | 2 requests, 2 commands, plans `<<dir>>` and `<<file, other>>` with file inside dir, 1 fault of any kind, 1 crash | honest receipts, at most one call, inbox, final receipts, damage, moves, fold |
| `cleanup_live` | 1 plan of 2 items, 1 confirmation sent twice, 1 fault, 1 crash, 1 change by another program, fair | refinement of `CleanupPromise`, locks drain, requests are answered |
| `scan_sessions` | 2 sessions, 1 permit, cancel and dispose of one of them, shutdown, fair; a tree of 5 nodes in batches of 2, fair | slots, events and status, cancel; the tree is told; all settles |
| `events_core` | 2 scans of 2 updates, log and channel of 3, 2 connections; 2 queries, 2 cursors, listings of 3 and 0, pages of 1 and 2 | order, no repeats, gaps; pages complete, cursors kept |
| `client` | store: 2 scans, 2 taps, 1 buffered event; HTTP: 2 requests, 3 attempts, 2 expiries; socket: log of 2, 1 disposable session, 1 restart; all fair | ended stays ended, retries bounded, queue, everyone gets what he waits for |
| `web_storage` | 2 tabs everywhere; 4 checks, 2 commits, 5 requests, 4 executors, 2 pages, 3 transactions, 1 crash, 7 calls; fair | answers, commits, isolation, storage, locks, nobody waits for good |
| `libraries` | 3 futures, 3 listeners, 3 events, 4 keys, 3 messages in flight, 2 parameters, files of 3 bytes, 2 pages in 3 transactions with 2 ends of the worker, 2 probers | delivery, iteration, encoding, statements, files, search |

`TypesOK` of a run is the type invariant of each of its parts, with the
relations that a part's state always has (a handle is noted, a backlog mirrors
the nesting of transactions). `ScansSettle`, `ClientSettles` and
`WorkersAnswer` are the liveness of a run's parts. `WorkersAnswer` excuses what
the code itself can hold up: a server that waits for an initial database from a
tab that is gone (`HeldUp`).

Violations, each the disagreement of a statement in the repository with the
code (`findings` in `PROJECT.json` quotes the lines):

* `cleanup_marker_torn`: a dispatch marker appended after a torn line of
  another cleanup is glued to it; the append succeeds, the adapter is called,
  and the journal has no readable marker.
* `cleanup_key_reuse`: a command id used before, with another plan, is answered
  with the old receipt. The client draws its ids from a counter that starts at
  one in every run of the application.
* `scan_start_panic`: a session can be disposed between the spawn of its scan
  and the status read by its own start request, which then panics.
* `scan_end_queryable`: a client told that a scan ended asks for its status and
  reads running, as the session is stored after the event.
* `events_restart`: after a restart of the daemon the client takes new events
  for old ones and does not see what it missed.

Other disagreements the models show, which have no run of their own: the
recovery inbox also lists cleanups whose worker is running
(`recovery_inbox`, `lib.rs` 987); after a torn append the inbox answers with an
error for all operations (974); a command whose client disconnected is admitted
again while its worker runs (1707); a cancel accepted after the last look at the
token does not keep the snapshot from being published (`scan.rs` 268); a start
request in flight at shutdown registers a session that nobody cancels (3441);
the end of a scan can be pushed out of the log by updates of a later one (488);
a lagging client that had heard nothing before is not told (2396).

What the models of the worker show, and no document of the repository speaks
of; the properties name these cases as exceptions:

* IndexedDB: a transaction that spilled its cache can be half stored after a
  crash, since a write merged into an older item overtakes the journal
  (12138).
* OPFS: the lock call opens the handle before it marks the file as locked, so
  the handle counts as opened without a lock and is let go when the server is
  idle or is asked for the size (11513).
* OPFS: the unlock does not reset the lock level of the file object (11265),
  and a lock is sent only while the level is zero (11260). From the second lock
  on SQLite believes in a lock the server was never asked for; another tab can
  lock and write the file until the first access of the first, which opens the
  handle for itself. `LocksHold` therefore speaks of what a tab has had of the
  file since the lock. The same level answers whether another connection is
  about to write (11257), which SQLite asks when it finds a journal and has
  locked the file itself: the answer is yes, where the other file systems
  (10820, 12054, 12207) look for a level of two or more.
* Servers: one that is closing is out of the map already; a tab that comes then
  gets a new one that reads the files while the old one still writes (9987). A
  tab that is gone may be asked for the initial database (9974). A blocked
  deletion is reported as an error and carried out later (3860). Nobody hears
  that a tab is gone but by its own message.
* HTTP client: a refresh that is sent through the client itself and fails waits
  in the queue whose head it is.
* Checks: workers share the file they try handles with, so one that finds it
  taken reports no file system for good (3769); the first answer of the nested
  worker goes to all who wait (10146).
* OPFS search: the removal of a database in use is ignored without a word.
* Dart: `onListen` of a broadcast may be called twice; a JavaScript iterator is
  drained on after its consumer canceled.
* Messages: an integer beyond 64 bits wraps (10759); the web protocol drops the
  position of an error; a peer older than version 3 is assumed to know the new
  protocol.

### Bounds

Two requests are enough for every race of two critical sections, as the
properties speak of pairs; the third party, where there is one, is the
environment. One fault and one crash reach every prefix of the journal with
every kind of damage that code can still be running after. The overlapping pair
of plans has one item that contains another and one that does not, which are
the cases `Overlap` tells apart. Two scans of two updates fill a log and a channel of
three, so that eviction, coalescing of progress and lag all happen, and two
connections give a gap between them. `MaxScans = 1` is the value of every
worker budget in `runtime.rs`. `MaxPlanId`, `MaxFaults`, `MaxCrashes`,
`MaxTouches`, `Updates`, `MaxConnects` and `MaxRestarts` only bound what the
environment may do; `StoreLimit`, `LogLimit`, `RingSize` and `MaxScans` are
limits of the code.

Two tabs are enough for the worker: every structure they share is held by one
and wanted by another, and a tab that left and came again is a third. Three
transactions over two pages give a transaction that spills, one that is rolled
back and one that reuses what the first left. Five requests and four executors
reach a nested transaction next to another one that waits. Seven calls reach a
second lock of one tab with a lock and a write of the other before the first
access; eight, run once by hand, add that access. The tree has an
empty directory, one below `MaxDepth` and one in another, the cases
`is_partial` tells apart. Files of three bytes are written at, before and
behind their end. Two of the four keys share a bucket.

Symmetry (of requests in `cleanup_core`, of sessions and queries in
`events_core`) is used only in runs without liveness properties. `CHECK_DEADLOCK FALSE` is in
all runs but the cleanup ones, as everything may have been used up there; in the cleanup
runs `Idle` is the only step of a server that has nothing left to do, so a
deadlock there would be one.

### Fairness

* `CleanupExecution!FairSpec`: weak fairness of the handler and worker of each
  request. The runtime polls a ready future and a blocking thread runs its
  closure to the end. No fairness for clients, faults and crashes.
* `ScanSessions!FairSpec`: weak fairness of each start handler, of each thread,
  and of the rest of a dispose that has begun. A backend returns: a scan that
  hangs in the file system would keep its permit.
* `EventStream!FairSpec`: weak fairness of the socket task. Its client reads;
  one that does not blocks `send`, and the connection is dropped, which is an
  action without fairness.
* `GrowingTree!TreeFairSpec`: the traversal and the scan thread run.
* `WorkspaceStore!StoreFairness`: calls are answered or fail, the store goes on
  after an answer, and the page's timers fire. Nothing makes the user tap.
* `HttpClient!HttpFairness`: a request that was sent goes through its chain;
  the server answers or the connection fails. `RequestsSettle` asks for a
  refresh over a connection of its own: one sent through the client whose queue
  is refreshing waits for itself if it fails (see the observations).
* `WorkerChecks!ChecksFairness`, `WorkerServers!ServersFairness`: the event
  loop of the workers runs, and the browser and the tab that was asked answer.
* `DriftServer!DriftFairness`: each request is served when it can be, and a tab that
  stays ends its transactions (asking for a rollback is fair), as drift's
  client does whatever its callback throws. One that has left in the middle of
  a transaction (`Abandoned`) keeps the others waiting, as in the code.
* `OpfsFiles!OpfsFairness`: both workers of a tab run. Nothing is assumed of
  other tabs.

## 4. Proofs

All proofs are complete; the only assumptions are the `ASSUME`s of the modules,
which TLC evaluates in every run, and the hypotheses the table names.

| Theorem | Statement |
| --- | --- |
| `CleanupProofs!TypeCorrect` | `Spec => []TypeOK` |
| `CleanupProofs!Exclusive` | `Spec => []ExclusiveCleanup` |
| `CleanupProofs!MovesSpare` | `Spec => MovesSpareOthers` |
| `CleanupProofs!DamageStops` | `Spec => DamageStopsCleanup` |
| `CleanupOnceProofs!OnlyOneCall` | `OnePlanPerCommand => (Spec => []AtMostOneCall)` |
| `CleanupOnceProofs!ReceiptsAreHonest` | `OnePlanPerCommand => (Spec => []HonestReceipts)` |
| `CleanupOnceProofs!CutShortIsListed` | `Spec => []InboxHoldsCutShort` |
| `CleanupOnceProofs!FinalReceiptsStay` | `OnePlanPerCommand => (Spec => FinalReceiptStable)` |
| `CleanupOnceProofs!PromiseWhileReadable` | `OnePlanPerCommand => (Spec => [][Readable(journal') => [Promise!Next]_PromiseVars]_vars)` |
| `CleanupOnceProofs!CleanupKeepsPromise` | `OnePlanPerCommand /\ FaultSet \subseteq {"refused", "unsynced"} => (Spec => ImplementsPromise)` |
| `CleanupOnceProofs!FoldIsDescribed` | `Spec => []FoldAgrees` |
| `ScanProofs!TypeCorrect` | `Spec => []TypeOK` |
| `ScanProofs!PermitsAreCounted` | `Spec => []PermitsCounted` |
| `ScanProofs!EventsAgree` | `Spec => []EventsTellOutcome` |
| `ScanProofs!CanceledOnRequest` | `Spec => []CanceledOnlyOnRequest` |
| `ScanProofs!MovesOnward` | `Spec => StatusMovesForward` |
| `ScanProofs!AdmissionImplementsSlots` | `Spec => AdmissionKeepsPromise` |
| `ScanProofs!TreeTypeCorrect` | `TreeSpec => []TreeTypeOK` |
| `ScanProofs!TreeIsShown` | `TreeSpec => []TreeIsTold` |
| `EventProofs!TypeCorrect` | `Spec => []TypeOK` |
| `EventProofs!LogStaysOrdered` | `MaxScans = 1 => (Spec => []LogOrdered)` |
| `EventProofs!HeardStaysInOrder` | `MaxScans = 1 => (Spec => []HeardInOrder)` |
| `EventProofs!GapsAreNoticed` | `MaxScans = 1 /\ MaxRestarts = 0 => (Spec => []GapsNoticed)` |
| `EventProofs!PagesAreComplete` | `QuerySpec => []PagesComplete` |
| `EventProofs!QueryTypeCorrect` | `QuerySpec => []QueryTypeOK` |
| `EventProofs!CursorsAreKept` | `QuerySpec => []CursorsKept` |
| `ClientProofs!TypeCorrect` | `HttpSpec => []HttpTypeOK` |
| `ClientProofs!QueueLosesNone` | `HttpSpec => []QueueHoldsErrors` |
| `ClientProofs!RetriesAreBounded` | `HttpSpec => []NestedRetriesBounded` |
| `ClientProofs!StoreTypeCorrect` | `StoreSpec => []StoreTypeOK` |
| `ClientProofs!EndedIsNotReopened` | `StoreSpec => EndedStaysEnded` |
| `WorkerProofs!ServersTypesOK` | `ServersSpec => []ServersTypeOK` |
| `WorkerProofs!CommitsOutlast` | `ServersSpec => []CommitsOutlastServers` |
| `WorkerProofs!StatementsAreIsolated` | `DriftSpec => []Isolated` |
| `WorkerProofs!OpfsTypesOK` | `OpfsSpec => []OpfsTypeOK` |
| `WorkerProofs!LockHolds` | `OpfsSpec => []LocksHold` |
| `WorkerProofs!CommitsAreFound` | `FixedSpec => []LastCommitFound` |
| `WorkerProofs!AnswersAreTrue` | `ChecksSpec => []AnswersHold` |
| `WorkerProofs!ChecksTypesOK` | `ChecksSpec => []ChecksTypeOK` |
| `IndexedDbProofs!FilesTypesOK` | `FilesSpec => []FilesTypeOK` |
| `IndexedDbProofs!CommitsAreStored` | `FilesSpec => []CommitsStored` |

**Exclusion.** `ExclusiveCleanup` is not inductive: it does not say that a
locked path is in `activePaths`. `LockInv` adds that every worker that holds a
guard has all its paths in `activePaths`, that two such workers have no
overlapping paths, and that a worker on its way to the adapter is at an item
whose path it locked (`Revalidate` sends only those there). `AcquirePaths`
preserves it because it compares with `activePaths`; `Return` because the paths
it gives back are no one else's. `MovesSpare` follows: a move changes the item
and what is inside, and anything inside a locked path overlaps it.

**Damage.** `Readable` can only get lost, as appends never repair a line
(`AppendDamaged`); a worker passes its look at the journal only in
`CheckReceipt`, which needs a readable one.

**One call.** `AtMostOneCall` says nothing of the journal or of the store, the
two things that make it true. `OnceInv` adds them. A worker that took its plan
has the only plan with that id, in the store and among the workers (`StoreIds`,
`TakenOnce`; ids are never given out twice by one process). A command that has
a worker past its intent, or calls, is announced: the file shows a receipt for
it or does not parse (`Noted`), and appends do not undo that
(`AnnouncedLasts`), so no worker passes `CheckReceipt` for it any more. A worker
that passed earlier no longer finds its plan (`TooLate`). And the calls of a
command are items its worker has behind it (`CallsHandled`). This is where
`OnePlanPerCommand` is needed: two plans of one command are two ids, the second
worker may have looked at the journal before the first wrote to it, and the
first client may have disconnected, which gives the command guard back. TLC
finds that run when `cleanup_key_reuse` is given two plans of the same file and
`AtMostOneCall`. The page counts its commands up, so the hypothesis holds of one
life of the page; its counter starts again with the page and the server does not
enforce it, which is what `KeyBoundToPlan` is about.
After a crash plan ids start again at one; `Noted`, not the ids, carries the
argument over a restart.

**Receipts.** `Told` relates a journal that can be read to what was done: an
outcome in it is what the adapter said (`OutcomesTrue`), every call has its
dispatch marker in a receipt that lists the item (`CallsMarked`), what opens a
receipt comes before everything said of its items (`OpenedFirst`), and every
line belongs to a receipt that was opened (`OpsOpened`). `WorkerTold` ties the
place of a worker to the lines of its command, so that the next line it appends
keeps all this; a second worker of the command has lost the plan, by `OnceInv`.
A file that can be read after an append has the whole line at its end
(`WrittenReadable`), which is all that is left of the four faults. The last line
about an item, which a receipt shows, exists because places are numbers
(`FirstAndLast`). `CutShortIsListed` needs only that last step: without a
finalizing line the state of a receipt is one of the open ones.

**Final receipts and the promise.** Both follow from `Told` and from what one
more line does to the receipts: a line of one operation changes no receipt of
another (`OtherReceipt`), and what a receipt says of an item depends on the
lines about the item alone, as long as nothing finalized it (`ReportFromWords`).
A worker that is about to append finds no finalizing line of its command
(`FinalLast`), so no line is ever added to a final receipt. For the promise the
intent is `Admit`, a dispatch marker `Announce`, an outcome without a marker
`Refuse`, a successful call `Move`, and an outcome after a call `Conclude`, with
the true state because `WorkerTold` keeps what the adapter said; the skeleton,
the finalizing line (every item has its outcome by then, `QuietAppend`), a
failed call and all other steps change nothing. A journal that no longer parses
shows no receipts, so the mapping speaks of one that can be read:
`PromiseWhileReadable` says so of each step, for faults of every kind, and
`CleanupKeepsPromise` takes the faults that leave whole lines (`WholeLines`), the
same as `cleanup_live`.

**The fold.** `build_cleanup_receipts` goes through the journal record by
record; the other theorems read receipts off a description that looks at the
whole journal at once. `FoldLeft` is defined as the value, at the set of all
places, of a function that solves a recursion equation over sets of places.
`Accounts` is the description restricted to a set of places, and solves that
equation, one last record at a time (`OneMoreRecord`); and any solution agrees
with it on the first *k* places, which is an induction on *k*. The library's
induction theorems take an operator and cannot be used here; that `<` is well
founded on `Nat` is a fact like others, and the least counterexample is enough.
Of the system the proof needs only the types, so it holds of every journal that
parses and not only of those the server writes.

**Permits.** `active = Cardinality(Permits)` needs that a handler in `exchange`
has seen a value below `MaxScans`, that a thread exists only after its handler
was admitted, and the cardinality facts of `FiniteSetTheorems`. The refinement
of `ScanSlots` maps the load that finds the pool full to a refusal, the
successful exchange to a grant, and the drop to a return.

**Events.** The order of the log needs that one scan runs at a time
(`OneScan`), that a `push_event` in flight belongs to the scan that runs, and
that every number in the log and the channel is below the number in flight,
which is below `sequence`. For `HeardInOrder` the socket's invariant says that
the copy of the log is in order and not above the watermark, that what was
heard is below what is left of the copy, and later below the receiver's place
in the channel or at most the watermark. With two scans at a time `LogOrdered`
is false. For `GapsNoticed` (`GapInv`) the number of an event is its place in
the channel, because every number drawn is published before the next is drawn,
and the client has the last number it keeps among those it heard, and heard
nothing above it; a number that skips one or more makes it ask for the status.
After a restart numbers start again and the argument ends; `events_restart`
shows that the property does too.

**Pages.** That a page without a cursor is the last one needs that every cursor
in the registry has nodes after it (`CursorsHaveMore`), and that a query between
its steps has read some nodes and not the last (`QueriesKeep`). Neither depends
on which cursors the registry drops.

**Cursors.** `CursorsKept` compares the registry with the past: with the order
in which cursors were stored, and with who was reading when a session went.
`KeptInv` says that the tokens stored and about to be stored are all different
(`TokensDrawn`), and that the registry has its tokens in the order they were
stored (`AreStored`). Then the cursor that makes room is older than all the
others of a full registry, which with the new one are as many as it holds
(`ManyInserted`, an injection of the registry's places into the later places of
the history). For the cursors left behind, `ReadersOvertaken` carries the count
of readers over the time between the two locks of dispose: a reader stops being
one when it leaves a cursor, so the sum of the two never grows. What `retain`
leaves of the order (`RetainedHolds`) is an induction over a fold once more.

**Growing tree.** What a client knows and what is on its way to it is one order:
`InOrder` says that each discovery that is queued or drained names its directory,
which the client knows or which an earlier discovery announces. Recording keeps it
because a directory is recorded before what is in it (`TopDown`), and has a node
itself unless the recorder is full, in which case what is below gets none either;
this is why a node without a parent is never announced. Draining splits the
queue (`SplitNews`), and emitting is an induction over the events of the batch
(`TellingHangs`). Once a scan was canceled drained batches are dropped, so
`Announced` holds only before. `RootSummed` says that the root has the sum of all
recorded sizes, a sum over a set that grows (`SumOfMore`): the larger of the two
sizes the end of the scan chooses from is the same. `LastDrained` and
`Concluded` carry what the last drain left over, and the complete root, to the
end.

**Error queue.** `QueueInv` says that a request is in the queue, in one place,
exactly while it waits or is handled, and is handled only at the head. It needs
`Framed`: an error is thrown only to a handler that has a frame.

**Nested retries.** A handler at attempt *a* that catches an error starts the
attempts *a + 1* and later, and each of these has a handler that does the same:
all told `Later(a)` = 2^(MaxAttempts - 1 - *a*) - 1 requests. `Budget` says that
the requests sent so far, those that the request under way may still bring about
and what every waiting handler owes never exceed 2^(MaxAttempts - 1). Retrying
keeps the sum, for `Later(a) = 1 + 2 Later(a + 1)`, and every other step keeps or
lowers it. `FramesInv` says that inner handlers are further on, which bounds how
deep they nest. The sum over the handlers is a sequence of partial sums
(`Sums`), so that no step needs an induction. The exponents are doubled case
by case, which the safety limit of ten attempts allows.

**Ended sessions.** Three steps set the state of the session that is shown. An
event is reconciled, which never reopens an ended one. An answer to a status
call can, and then `overtaken` notes it. The answer of `start()` shows its scan
as running, and that is no reopening because the scan was not the one shown:
`ScansBegun` says that the store and the calls under way know only scans that
were started before, which the new one was not when the daemon chose it.
Replaying the buffer afterwards keeps to that scan, however many events it has
(`ReplayedStays`), which is again an induction over a fold; `FoldLemmas` has what
these inductions share.

**Commits.** `CommitsKept` says, as long as no two servers have read the files
next to each other, that one server at most has them in memory, that it has all
commits, and that what is not in storage is queued by it. `OpenHasTabs` excludes
an open server that is no longer in the map.

**Isolation.** `DriftInv` relates three views of what is open: the stack of SQLite
(`raw`), the transactions each client knows, which lag behind it while a
request is between its `BEGIN` and its answer or its `COMMIT` and its answer
(`Of`), and the locks: each open transaction is the holder of the lock of the
executor around it (`LocksAreHeld`, `ParentsAround`). `OneAtATime` says that one
client at most has anything open, and then all of it; `Fits` that a request a
client awaits is for the innermost transaction it knows. So the holder of the
connection's lock finds nothing open, and the holder of a transaction's lock
finds that transaction innermost. `RoomIsKept` is about the bound on executors
only. That the backlog is nested like the transactions (`BacklogIsNesting`) is
not needed, and stays with TLC: it is stated with a filter over a sequence.

**Handles.** `HandleInv` says that a file system server that carries a call out
has the handle, and so has a tab in `held` whose server did not pause since; as
the browser gives the handle to one tab, no other tab can have changed the
file. A tab enters `held` when its server carries out the first lock or an
access while SQLite has the file locked, which needs the handle; a size or a
truncation that lets it go notes the pause in the same step. `LockAgain` alone
gives nothing, so the theorem says nothing of the time before the access.

**Last commit.** What a new worker finds depends on three files and two marks
that change one at a time. `Recoverable` says that the last commit is always to
be had: while the journal is marked and has its header, undoing it gives the
commit (`Undoes`: every page of the commit is in the journal or unchanged in
the database), and otherwise the database is the commit. `MarkedFirst` says
that an unmarked database was never written and that the worker's copy of the
marks is the stored one. `InPlace` says what SQLite relies on at each of its
steps: a page is overwritten only when the journal has it, a journal that is
played back keeps what it has put back, and pages have no gaps, so that the
size in the header and the pages say the same.

**Answers.** A wrong answer needs a detection that met another one, which takes
three workers' worth of state to see. `DetectionInv` says that a detection that
met no other is the only one, so that it finds its file where it made it and the
handle free, and fails only if it did meet one. `NewsInv` says that the failures
of the nested worker come before its first answer, as it does not detect again
once it knows: no failure is on its way when a tab has been told to use the
worker, so `lost` stays empty. `AloneInv` says that the nested worker has
nothing but the question of a tab that met no other in the shared worker.

**Queued items.** `CommitsStored` says nothing of the queue, and what merging
and taking out do to it decides whether the property survives the next crash.
`FilesInv` therefore asks for a history: the files as each queued item will
leave them stored, from what is stored now to what SQLite sees (`Core`). Each
state of it must be `Good`, that is, a tab that finds it finds a commit, but
for pages of transactions that spilled. Only part of the history is written
down. Up to the last truncation, closing or deletion of the journal
(`Barrier`), or to the item that is being stored, no later call changes an
item, so these states are fixed (`Frozen`). Behind it every file is created and
written at most once, in that order, since writes are merged (`Orderly`), so
each state there has each file either as it was or as it is in memory
(`Reached`), and `ReachedNext` shows that storing the items passes through
these. A merged write keeps this shape but changes these states; `Kept` says
why they stay good. `Phase` says that the files in memory give back the last
commit, also with the journal that was stored last. `Ahead` says that when a
late write of the journal comes before the one of the database, the new journal
undoes the old pages of the database as well. A deletion of the journal takes
its late items out and leaves those of the database, which is a fold over the
queue (`WithoutWritesIs`, with the induction of `FoldLemmas`): what is left is
the deletion of a journal that is stored, which is the moment of the commit, or
nothing of the journal (`DeletedSafe`). A page that was written while a
transaction went on may be merged into a write that is stored before the
journal; this is what the proof needs `spilled` for, and only for that: a
transaction that writes when it commits is never half stored. The proof does
not use that each commit writes page one. As a history is
sought, not computed, TLC cannot evaluate `FilesInv`; it checks what follows from
it, `CommitsStored` and `FilesTypeOK`.

**Only model-checked.** Liveness, which is out of the prover's reach. What
filters (`SelectSeq`, which tlapm does not expand) and recursive operators
compute: the backlog in `DriftTypeOK`, and the library modules (`DartHolds`, `WireHolds`, `SearchHolds`,
`SqliteHolds` but for its `LastCommitFound`).

## 5. Not modelled

* Protocol objects, JSON, platform evidence, authorisation, packaging, widgets,
  localisation, the cache's generated database and application bootstrap hold
  no state that two actors share. Request validation that answers 4xx before
  any state is touched is left out of the handlers.
* Daemon: how the arena and its indexes are built and sorted; a panic in the
  scan or traversal thread; names, hard links and block sizes.
* Client: search, top items, cleanup state and selection of the store, which
  repeat the staleness check of the tree loads.
* Worker: exclusive executors and statements a client sends during its own
  migration; a work item of IndexedDB that fails; temporary files; `xAccess`,
  `xDelete` and `xOpen` of the OPFS worker, which look names up in a directory;
  several databases in one worker, which share nothing but the map; browsers
  without nested workers, access handles or IndexedDB; functions, collations
  and sessions of SQLite, which drift does not use here.
* The rest of what the compiler put into the worker: types, strings, lists,
  typed data, URIs, stack traces, BigInt, zones and time, about half of the
  file. It has no state of this application, and no order of steps to get
  wrong.

Each part has an entry under `components` with its status and the reason.

## 6. Plan

In order of importance.

1. `DriftServer`: exclusive executors and migrations whose client sends
   statements of its own.
2. `OpfsFiles`: the calls on names, with a deletion next to an open file.
3. `ClientView`: `EventStream`, `ScanSessions` and `WorkspaceStore` composed in
   one state; the client shows the end of its scan in the end.
4. `ScanSessions`: a scan thread that panics, and the session that then never
   ends.
5. In `CleanupExecution`, the plan a client had seen when it confirmed, to
   state that a restart does not let it execute another one.
