# A TLA+ verification of Velocious

Velocious is a JavaScript application framework: an object-relational mapper
with its own drivers and connection pools, an HTTP and websocket server, models
for browsers, offline sync, a mailer, and a durable background-job system.
Most of its 1739 files run one request at a time and transform data. This
project is about the rest: the parts where processes, sockets, timers, awaits
and database transactions meet, and where a mistake strands, repeats or loses
work without an exception anywhere.

## The system's parts

| component | state it keeps | operations | talks to |
| --- | --- | --- | --- |
| job store (`background-jobs/store.js`) | job rows, concurrency counters, schedule-key owners, count revision | enqueue, replace or cancel a schedule, hand off, complete, fail, reschedule, return, sweep, cancel, prune, clear, reconcile | the database; main, the scheduler, controllers |
| main (`main.js`) | connected and ready workers, leases per socket, credits, the drain, two timers, pending recoveries | drain, timers, error retry, socket open and close, report handlers, sweeps | the store; workers and reporters over JSON sockets; Beacon |
| worker (`worker.js`), runners | jobs in flight by mode, child processes, announcements | announce `ready`, run a job, time out, kill, retire or lose a child, stop | main over a socket; children over IPC; a connection per report |
| idempotent enqueue, mail operations | ownership rows, first attempt of a delivery | claim, validate, deliver | the store, the mail provider |
| local dispatcher and store | an in-process queue | wake, drain, claim, perform, acknowledge, stop | an application's own database |
| connection pool, single multi-use pool | connections, waiters, capacity | checkout, checkin, spawn, reap, evict, close | drivers; every component |
| operations and transactions (`drivers/base.js`) | nesting, callback frames, leases | begin, savepoint, commit, retry a deadlock, run callbacks | one connection |
| SQL.js persistence | a database in memory and its bytes in storage | write, debounce, save, defer, begin, commit | the browser's storage |
| tenant databases on a device | open handles, pins, schema generation | open, initialize, use, flush, evict, delete | the single multi-use pool |
| sync (replay, change feed, realtime bridge) | mutation log, versions, sequences, cursor | queue, post, apply, rebase; publish, pull, push; subscribe | client and server |
| HTTP server | requests of a connection, responses in order | parse, answer, stream a file, close | worker threads |
| websocket sessions, event log | handles, paused sessions, logged events | subscribe, resume, expire, publish, replay | HTTP server, its threads |
| scheduler, Beacon, advisory locks, drivers, records, migrations, frontend models, controllers, routes, authorization, cli, templates, logger, test framework | mostly per request or per command | | |

What is hard, and what makes each part correct:

- **store** - reports arrive late, twice, or for a lease that is now somebody
  else's. *A lease is settled once; a counter equals the jobs running under it;
  a job is charged once per failed lease; the deltas broadcast add up to the
  table; the owner of a schedule key can still run.*
- **main** - every `await` lets other callbacks in, and nothing polls. *A
  dispatchable job never sits beside a ready worker with no drain coming; a
  future job has a timer, late by no more than the await before it is set; a
  lease has somebody who will give it back, over broken sockets and restarts of
  main.*
- **worker and its children** - announcements are old when they arrive; a child
  dies while its outcome is on the way. *An announced slot is spent once, a
  free one is offered; every lease has somebody left to report it.*
- **enqueue and mail** - an acknowledgement is lost and the caller asks again.
  *One job per key, one mail per operation.*
- **pools and transactions** - everything waits for everything. *A connection
  has one user and fits its database; a waiter that could be served is; a
  callback runs after its commit and only then.*
- **sync and persistence** - answers are lost, saves overlap with writes. *A
  mutation is applied once, after its predecessors; the cursor leaves no hole;
  what a commit that returned has written is on the device or in a save under way.*
- **server** - pipelined responses, sockets that drop and resume. *Every
  response once and in order; a handle has one holder and one end; replay loses
  no event that was published without an error.*

`PROJECT.json` lists every component with its status and the hazards, each at its
line with the properties that would catch it.

## Modules

| module | models | state and actions |
| --- | --- | --- |
| `JobStore` | `store.js`: every mutation | one action per public mutation. All run inside `_serializedCountMutation`, which write-locks the count revision row first, so each is atomic. Variables are the tables; `leases` and `fate` remember what workers were told and what the store decided about it |
| `JobLease` | abstract: what the store promises of a job | which lease a job runs under, which leases are spent; `JobStore` implements it |
| `QueueReconcile` | `reconcileQueueConcurrency` | the path outside that lock, statement by statement, with transactions split into read and commit, several mains, crashes |
| `LockOrder` | the row locks of the store's transactions | a transaction is the sequence of rows it locks |
| `JobDispatch` | drain, timers, retry and sockets of `main.js`, readiness of `worker.js` | `pc` walks the drain with one step per database call; callbacks interleave at every step |
| `WorkerAdmission` | credits of `main.js`, announcements and pool size of `worker.js` | two FIFO channels, the debit pending while a lease is written |
| `JobRunner` | `worker.js` with its pooled, forked and spawned children | processes, the worker's table, runs in the children, IPC messages, failure reports, kills and crashes |
| `JobHandoff` | leases over broken sockets and restarts of main | the maps per socket, adoption by `hello`, the release on close |
| `IdempotentEnqueue` | `_enqueueIdempotently` and the mail operation of a key | one transaction per caller, statement by statement, at two isolation levels |
| `MailDelivery` | attempts at one required delivery | the first attempt's time, overlapping and stalled attempts, the provider's window |
| `LocalDispatch` | `local-dispatcher.js` over `local-store.js` | one drain, performances beside it, acknowledgements and retries, stop, close, crash |
| `DatabasePool` | `async-tracked-multi-connection.js` | a client's place between awaits, the queue, the drain, the reaper, closes |
| `SinglePool` | `single-multi-use.js` | one entry per database, connects under way, capacity slots and waiters |
| `Transactions` | `drivers/base.js` transactions, operation leases | layers of begin and savepoint, callback frames, deadlock retries |
| `WebPersistence` | `connection-sql-js.js`, `index.web.js` | memory, storage, debounce, save mutex, deferred mark; statements that arm a save and statements that do not |
| `TenantLifecycle` | `frontend-tenant-sqlite-lifecycle.js` | handles, pins, generations; a critical section is a step |
| `SyncReplay` | conflict-tracked offline mutations | logs of devices, the record's history, the server's look-up, check, apply and persist |
| `SyncFeed` | change feed and a following client | rows with sequences, pages, cursor, pushes |
| `RealtimeBridge` | `sync-realtime-bridge.js` | one attempt with its resources, the generation it began under |
| `HttpPipeline` | one HTTP connection over two threads | runners, the response drain, messages, delivery tasks, the socket |
| `WebsocketSession` | `websocket-session.js` and the paused sessions | sessions, handles, inboxes, sockets lost before it is noticed, closes by the server, resume in two halves, grace timers |
| `ChannelEvents` | publish queue, event log, replay | the log, interest in the host's map and in its table, two kinds of subscriber in worker threads or in the host's process, what each has seen |
| `JobStoreProofs`, `JobStoreHistory`, `EnqueueProofs`, `JobRunnerProofs`, `WorkerLeaseProofs`, `JobDispatchProofs`, `ProcessProofs`, `ClientProofs` | | 32 theorems, see *Proofs* |

The MC modules (`MCJobStore`, `MCJobDispatch`, `MCJobs`, `MCDatabase`,
`MCServer`, `MCProcess`, `MCClient`) declare symmetry and put modules that share
no state side by side: a behaviour runs one of them (`part`) and leaves the
others at rest, so their states add up. They also leave out what differs from
another behaviour only in the names of jobs. `MCJobDispatch` bounds a behaviour
by a state constraint: it is about time or about sockets. Each `.cfg` is one run. In a module, an
operator whose comment starts with *Mutant* is the definition below it with a
plausible mistake; no run uses it, and replacing the definition by it must make
a property fail.

### Abstractions

- JavaScript runs one callback at a time: the code between two awaits is one
  step. An await of I/O is a step boundary; where a module treats continuations
  of settled promises as immediate it says so (`Ticks`, `Prompt`).
- Arguments, names, payloads, attributes and SQL are model values; UUIDs are
  never reused; timestamps are small integers.
- `JobStore` lets a worker report any lease it was ever given at any time, which
  includes every duplicate, delay and reordering of reports.
- `JobDispatch` has one execution mode at a time and one concurrency key.
  `ReportFirst` tells runner processes (slot freed after the acknowledged
  report) from inline jobs (before it). A `markHandedOff` that throws may have
  committed. Clients, scheduler and Beacon are `Enqueue` and `Wake`.
- `WorkerAdmission` has one worker; its lane of forked and spawned jobs is
  constantly full or open. Which child takes a job (round robin) is left open.
- `QueueReconcile` has one queue. `Overlap` tells a server database, whose
  autocommit statements run between those of an open transaction, from SQLite,
  whose write lock excludes them.
- `JobRunner` numbers leases as they are written; main is the row's lease.
- `SyncReplay` has one record and names the n-th mutation of a device n; a
  version is a position in history. Every device is an actor of its own, as it is
  when the actor is the authentication token, the default. In an application whose
  actor is the user, two devices of one user share their sync row and would see
  each other's mutations as stale: the module says nothing of them.
- `ChannelEvents` has one channel of the log. `threaded` tells sessions in worker
  threads (the default), which mark interest in their own thread's store and have
  no barrier to wait for, from sessions in the process of the host. Interest may
  lapse at any time, and other channels may be marked.
- `WebPersistence` tells the statements for which `query` arms the debounce
  (`Known`) from the others.
- `WebPersistence` has one transaction at a time (the operation lease).
- Variables that only remember (for example `fate`, `mixed`, `late`, `freed`,
  `stray`, `left`, `regrouped`, `looked`, `slip`, `unknown`, `skipped`) never appear in a guard. They name the
  circumstances under which a promise is known not to hold, so that the
  invariants say it holds in all others.

## Runs

Passing runs:

| run | bounds | shows |
| --- | --- | --- |
| `store` | 3 jobs, 3 leases, 1 fixed, 1 queue and 1 schedule key, caps 1 and 2, 1 retry | leases settle once; counters, attempts, retries and deltas are exact; caps hold; settled jobs stay settled; key owners are live and a superseded job never starts; the store implements `JobLease` |
| `dispatch` | 2 jobs; 2 workers of which one may stop and one lose its socket, or 1 worker with delays around the longest timer; 2 faults | no wake-up, timer or lease is lost; a lease is in one pair of hands and can be reclaimed |
| `dispatch_settles` | 2 jobs of one key on runner processes; one each of failing call, cut, fault and return | every queued job is run to its end (liveness) |
| `jobs` | seven parts: 3 children, 3 pooled and 1 inline job; 2 mains, 3 jobs, 1 crash; 2 callers, 2 scopes, 2 digests, 2 mishaps; 3 attempts, clock 4; 2 jobs on 2 child processes, 3 leases, both pooled or one forked and one spawned; 2 workers, 2 leases, 2 sockets, an outage and a crash; 3 transactions over 2 jobs and 2 keys | credits, offered capacity, exact reconciliation, idempotent enqueue, mail, children and their reports, leases over restarts, and that lock cycles are only the known ones |
| `database` | 2 clients, 3 connections, 2 databases, cap 1, a fault or a close; 1 ordinary caller and 2 operations, 2 frames, 2 nestings, 2 deadlock tries | connections are exclusive, fitting and within the cap, waiters are served; transactions are isolated, atomic, and their callbacks exact |
| `server` | 3 requests; 3 sockets, 1 channel, 1 connection, 2 messages on one of them and 1 on the others, 2 broadcasts, a socket lost unnoticed or a close by the server, with and without a resolver | responses once and in order; handles have one holder and one end; nothing is delivered after the end |
| `process` | 2 keyed local jobs, 2 runs each, 2 failures, a restart; one subscriber of either kind, 3 events, threads or none, a failing publish; 2 items in pages of one, 2 writers, 2 publishes, 2 breaks; 5 calls of the bridge, 2 faults | replay loses nothing but an event whose publish failed, the cursor leaves no hole, nothing stays open after unsubscribe, no due local job is forgotten but for the known gaps |
| `client` | 2 devices, 2 fields, 3 mutations, 3 posts; 2 users of 2 databases, caps 1 (3 connections) and 2; 2 starters, 3 writes, a failing save; 3 callers of 2 tenants, 2 generations, 1 handle | mutations are applied once and in order, databases are shared and within the cap, commits reach storage or a save under way, an admitted tenant stays ready |

Runs that show a disagreement between the code and what is said of it; each is
a finding in `PROJECT.json`, with the sentences it contradicts:

| run | shows |
| --- | --- |
| `dispatch_inline` | two inline jobs of one key: `_handleJobComplete` frees the key and wakes nobody, so the second stays queued beside an idle worker |
| `reconcile_overlap` | a transaction that read a row before its adoption leaves the counter wrong until the next restart |
| `replay_lost` | a retried group of mutations is answered as a stale no-op and marked as synced, though its later part was never applied |
| `local_lost` | a job that falls due between two queries of a local drain gets no timer and waits for some other wake-up |

**Why these bounds.** The store's races need one job handed off three times (a
stale report, the lease it must not touch, one more) or two jobs under a cap of
one. The dispatcher's are between one drain and one event at each of its awaits,
and a failure inside the recovery of a failure; two jobs and two errors give
both. Credits need an announcement that overtakes a lease beside one that does
not: three jobs on two children. A child's races need a second lease of a job
that is still winding up beside another job of the same child. A pool of one
connection with two clients and a third connection covers a waiter, a spawn that
fails and the close of a stranger. Replay needs a lost answer and a later
mutation; three mutations give a group beside a single. Resumption needs a third
socket to race the second for the first one's handles. `MCServer` lets only one
socket send more than it takes to resume (`OneTalks`), and has one socket lost
unnoticed or one connection closed by the server at a time, with three messages
sent by then (`OneMishap`): enough to open a handle and resume it twice, or two
handles and resume them once. `MCProcess` has one subscriber of either kind
(`OneSubscriber`): subscribers only meet in the log and in the interest, which may
be there from the start. In `MCJobDispatch` a second failing call comes before
anything that takes time, and two happen of a failing call, a lost socket and a
worker that stops. The clock of `JobDispatch` stops at its bound only when no
timer is ahead of it. Counters of errors,
cuts, crashes, faults and the clock are bounded by constants named `...Max`,
`Max...` or `...Faults`; guards that carry a bound carry nothing else with it.

**Deadlock** is not checked: every one of these systems may stop, with all jobs
done, the requests answered or the bounds reached.

**Fairness** (`FairSpec` of `JobDispatch`): weak fairness of every callback the
event loop owes (the drain's continuation, timers, `ready` and `draining`
messages on an open socket, the close handler), of the clock, of a worker's
reconnect timer, of reports (`reportWithRetry` repeats them) and of jobs, which
are assumed to finish. Nothing is assumed of clients, failures, lost sockets or
deploys. Failures are bounded in number, which is what "a transient error"
means here.

## Proofs

The theorems hold for every value of the constants that satisfies the named
assumption of the module (`StoreAssumption`, `DispatchAssumption`,
`RunnerAssumption`, `FeedAssumption` and so on, one for each module). They say
no more than this: sets of jobs, keys and callers are finite, bounds are natural
numbers, caps, page sizes and slots are positive, identifiers of different kinds
differ, and distinguished values such as `None` are outside the sets they are
compared with. TLC evaluates the assumptions in the runs, and every inductive
invariant was checked as an invariant of a small instance before it was proved.

Where an argument needs a least or greatest element (the soonest due job, the
highest row of a log, the first of two facts along an order), it is taken from
the well-foundedness of the naturals (`LeastNatural`); nothing else in the
proofs is an induction over data.

**The store** (`JobStoreProofs`, `JobStoreHistory`). All eleven properties of
the run `store` are theorems.

- `TypeCorrect`: `TypeOK` is inductive given that `_applyFailure` only looks up
  retry delays within the limit.
- `LeasesSettleOnce`: `LeaseEndsOnce` says nothing of rows that are not handed
  off or of unissued leases; `LeaseInv` ties each lease to the job it was issued
  for and says that a lease is live exactly while one row carries it.
- `ReservationsExact`, `CapsRespected`: each action adds or removes exactly the
  jobs it moves, so the step is arithmetic on cardinalities (`StoreInv`).
- `AttemptsChargedOnce`, `RetriesWithinBudget`, `SettledStaysSettled`,
  `StoreImplementsJobLease`: thirteen operations change rows and leases in only
  six ways. `StepEffect` proves this once (a row is inserted, cancelled or
  handed over, leases are settled, rows are removed, or nothing happens), and the
  attempts of a job, the finality of its end and the refinement mapping are then
  followed through the six. A job's attempts are the failed leases of that job, which is only
  inductive together with `LeaseInv`.
- `OwnersCanRun`, `SupersededNeverStarts`: each is used in the proof of the
  other (`ScheduleInv`): a job that is replaced loses its key in the step that
  makes it unable to start.
- `CountsAreExact`: each status is a bucket and a mutation moves jobs between
  buckets; the delta it broadcasts is the change of each bucket's cardinality.

**Around the store.**

- `SlotsSpentOnce` (`WorkerLeaseProofs`): the account includes the admission in
  flight, debited if its announcement is still current and untouched otherwise.
- `ReconciledCountExact` (`EnqueueProofs`), under `~Overlap`: an open
  transaction's read is still true when it commits, one main reconciles at a
  time, and a main that adopts has stored the cap. Without the assumption the
  first of these fails, which is `reconcile_overlap`.
- `BacklogReconciled`, with or without `Overlap`: what a row's key may say at
  each point between adoption or release and the rebuild, for the main that
  holds the advisory lock.
- `EnqueuedOnce` (`EnqueueProofs`): a scope's row names the job its answers
  name. What a caller has read, what it holds locked and what it has written
  together determine what is committed when its insert fails. A caller that reads
  from a snapshot may be left with the bare error; the invariant then shows that
  what beat him is committed (`Beaten`).
- `MailSentOnce`: the provider remembers a delivery at least until the first
  attempt plus the window, and `beginAttempt` admits nobody who asked after that.
  Only an attempt that asked in time and stalled past the end can send a second
  mail.
- `OnlyKnownCircles` (`LockOrder`): a circle of transactions that wait for each
  other's rows has a `clearAll` against an idempotent enqueue, or the
  reconciliation in it. The invariant says where in its plan a transaction is and
  that a row has one holder. A mutation that holds the revision row excludes the
  other mutations; those that come before it in the circle wait for rows that
  are behind the revision row in every plan but the two.
- `LeasesSurviveRestarts` (`JobHandoff`): adoption takes no lease from the worker
  that runs it, over any number of sockets, outages and restarts. Of each map,
  message and execution the invariant says whether it is current, that a lease
  is in one place, and who will adopt what no map holds.

**Main's dispatcher** (`JobDispatchProofs`). All five properties of the run
`dispatch` are theorems: `DispatchTyped`, `WakeupsNotLost`, `FutureJobsTimed`,
`LeasesReclaimed`, `LeasesTracked`. `NoLostWakeup` speaks of a sleeping
dispatcher only. The delay of the scheduled timer is computed before the second
look at the queue and the timer is set after it, so it is later than its job by
what that await took (`slip`, a history variable): a timer is for a job if it was
computed before the job was due and fires no later than `slip` after it
(`TimerFor`). What the induction needs is what a drain under way knows
(`DispatchInductive`): between its two looks at the queue the timer covers the
jobs that become due because every event in between pokes the drain again
(`WakeCovers`, `TimerCovers`), and a retry that it may cancel is not one that a
recovery is waiting for (`Reclaimed`).

**Children** (`JobRunnerProofs`). `ChildrenAccountedFor` states `RunnerInv`.
A lease can be in four places (a child's table, the worker's table, an outcome
message, a failure report). `RunnerInductive` says in which of these at once
and how far the run is then: an outcome in flight is of this run, a child that
reports keeps the run under the lease it was given, a child that is kept was
born. The proof attempt corrected the model: `NeverTwiceAtOnce` was claimed for
all jobs, but an unacknowledged outcome of an earlier lease is taken for that
of the present one when the job is leased again to the child that is still
winding it up (`worker.js:850`, entry overwritten at `worker.js:705`). It takes
two lost messages, one more than the run had. The property now excepts the jobs
this has happened to (`mixed`), and the hazard is listed.

**In one process** (`ProcessProofs`).

- `BridgeKeepsPromise` states `BridgeInv`: what the attempt under way holds is
  told by the await it has reached, and an attempt whose generation has passed
  tears down exactly that.
- `LocalJobsSafe` states `LocalInv` of the local dispatcher: a row is performed
  under its lease only, performances keep within the cap (a cardinality argument
  over flights), and a due job is forgotten only in the gaps the property names.
- `ReplaysComplete` states `ChannelInv`. Publishes settle in order, so the log
  and what is on its way are told by two numbers: how many have settled and
  how many are inserted. `FollowsLog` says for each place of a subscribe handler
  which events are owed, held back, read or sent; a subscriber's step has to
  keep its own part only (`StepFollows`), a publish everybody's (`LogMovesOn`).
  Events inserted before a subscriber reads the log are replayed, so what the
  barrier adds in the host's process is only that a failed publish is noticed: the
  argument holds without it. Excepted is the event whose publish failed when it
  had been inserted (`failedAt`): no one behind it is published, and whoever had
  read the log before the insert is never sent it.
- `PullsLeaveNoHole` states `FeedInv`. A row that moves while a page is applied
  moves behind the cursor of the pull, which meets it again. The proof attempt
  corrected the model: the exception for overtaken rows compared a row with the
  rows that are there, but a row may fall back when an older publish of its item
  is saved after a newer one (`sync-change-fanout.js:27`), and then a third
  publish slips in below a cursor that has already passed. It takes three
  publishes at the same time, one more than the run has; TLC finds it with three
  writers. The exception now compares with the highest sequence ever saved
  (`newest`).

**Transactions on one connection** (`JobStoreProofs`). `TransactionsKeepPromise`
states `TxnInv` under `LoneCaller`: one ordinary caller at most beside any number
of operations, deadlocks that strike operations only, and no callback that
swallows one. The run `database` satisfies it. Without it the property is false:
an ordinary caller's nested calls run with nobody's permission, and a swallowed
deadlock loses the count (see below). The invariant is a correspondence of three
stacks: the calls of the one who has the connection, the callback frames, and the
layers of the database, which are told apart by what began each call, `BEGIN` or
`SAVEPOINT`. While an error is on its way out the calls are still there and the
layers may be gone; whose work is in the layers and the frames never changes. A
deadlock that is met three calls deep takes a rollback for each savepoint that is
gone, and drives the count below zero (`CountLost`); nothing begins a transaction
from then on, and the promise is made until then.

**On the client** (`ClientProofs`).

- `CommitsReachStorage` states `WebInv`. The storage holds a past state of the
  database (`StorageIsAPast`). Beyond it there are only rows of statements that
  armed no save and rows that are owed by the debounce, by the deferred mark or by
  a save in line; a commit that is not answered yet is stored, or owed by a save
  that comes before the next transaction begins. The mutex line and the marks have
  to agree with who is where (`LineMatches`, `MarksAgree`).
- `TenantsKeepPromise` states `TenantInv`: every critical section opens a handle
  before it does anything else, so what an opening may do to this handle and to
  the others is proved once (`OpeningsAreSafe`).
- `SharedPoolKeepsPromise` states `SingleInv`. Every step is of one shape: it
  moves one call, grants slots to waiters, and lists or delists entries; what
  each does to the counts is proved once. A reserved slot is owed by a spawn or
  by a granted waiter; while anybody waits who did not make room for himself,
  every free slot has a close under way whose end gives it away (`ClosersCover`),
  and a listed connection without a use is about to be taken or closed
  (`IdleIsTended`). The proof attempt corrected the model: a granted waiter could
  run before those who awaited the spawn that released the slot, and close the
  connection they were about to take. Three awaits lie between the slot and the
  waiter and one between the spawn and its users, so the code cannot; with five
  callers and a cap of four the model could.

**Only model-checked.**

- `EveryJobSettles`: fairness and `ENABLED` are out of the prover's reach.
- `AdmissionInv`: the free slots of the pool are a sum over its children
  (`MapThenSumSet`), and facts about sums need induction over data.
- The ordering properties of `HttpPipeline`, `SyncReplay` and `WebsocketSession`
  (what a fold or filter over a sequence yields), for the same reason: hence
  `PipelineInv`, `SyncInv`, `SessionInv` and `EndedIsSilent`.
- Not attempted: `PoolInv`. Nothing stands in its way but the number of its steps.

## Known not to hold

Said in the documentation, stated in the modules, and refuted by TLC when it is
asked; no run checks them besides the four above:

| property | said in | why not |
| --- | --- | --- |
| `PoolIsBounded` | `docs/background-jobs.md:133` | an announcement that crossed a job message makes a worker exceed `pooledRunnerCount` (`worker.js:626`, `689`) |
| `LanesAreSeparate` | `docs/background-jobs.md:122` | a worker at its inline cap is not offered its free pooled slots (`worker.js:503`) |
| `NoStrandedWaiter` | `docs/database-connections.md:37` | a failing spawn or a close leaves a servable waiter until the next checkin |
| `NoHandleLeftBehind` | `docs/websocket-channels.md:145`, `docs/websocket-connections.md:133` | a handler in flight at the close registers in a dead session; a resume awaiting its resolver claims into a dropped one |
| `CommitIsStored` | `database/drivers/sqlite/index.web.js:116-118` | `flushPendingDatabaseSave` finds neither mark nor debounce and returns while a save that another began is still writing the image (`connection-sql-js.js:42`) |
| `DeadlocksAreRetried` | `database/drivers/base.js:1354-1357` | a deadlock met three calls deep finds two savepoints gone and rolls the transaction back for each; the count becomes -1 and the outermost call no longer retries (1672, 1387); three calls deep, one more than the run `database` nests |
| `OneImagePerDatabase` | `docs/tenant-databases.md:179` | a database is loaded again while its last image is still being saved (`single-multi-use.js:692-698`) |

Other observations, excepted in the invariants through a remembering variable or
a bound, or outside of the models:

- *Main.* A job that falls due between the second look of `_armScheduledTimer` and
  its `setTimeout` waits as long as that look took (`main.js:1629`, `1637`, `1641`).
  Adoption after a reconnect writes the leases it read before an await
  over newer entries (`main.js:573`). A main that dies between `markHandedOff`
  and the worker's receipt leaves a lease run by nobody until the sweep; so does
  a failing adoption (580-582). A drain clears the retry timer that a half-failed
  release of leases relies on (1241, comment 1165-1168); it is the premise of
  `NoLostWakeup`. With two mains a job picked before a failure rescheduled it
  is handed off without a look at `scheduled_at_ms` (`store.js:936`).
- *Worker.* A child that fails before its handshake revokes the pool, and with
  no other job on the worker nothing offers it again (982). `_selectPooledChild` (739-756) does not exclude a child that was
  sent SIGTERM. A spawned child's death is seen by the orphan sweep only (1260).
- *Locks.* `clearAll` and an idempotent enqueue lock in opposite orders, and the
  reconciliation may jam with mutations of several rows; the driver retries
  deadlocks up to eight times.
- *Enqueue.* Under MySQL's REPEATABLE READ the loser of a key race reads its own
  snapshot and throws. A delivery that stalls between the check and the call may
  outlive the provider's window (`docs/mailers.md:85`).
- *Local dispatcher.* A claim that commits without an answer, and an outcome
  deleted in place of an older one (235), leave a row handed off until the next
  start. A timer may be armed after `stop`.
- *Pools.* `reserveConnectionCapacity` (190-202) evicts an entry and then waits
  for a slot that is free; a check-in's clean-up does not look at the checkout
  count again (82), and an ambient checkout counts itself only after an await
  (164-177); a throwing close wakes no waiter. With `Ticks` the cap of
  `DatabasePool` may be exceeded.
- *Transactions.* An ordinary transaction inside which a caller catches the
  deadlock error loses the count of its nesting (1666-1683); a deadlocked
  ordinary transaction is retried without its callbacks (1376-1417).
- *Browser.* A failed save is repeated only by the next write; a commit whose
  flush fails rejects although it is committed in memory. Statements that create,
  alter or drop a table arm no save (`connection-sql-js.js:100`): a commit of
  nothing else resolves with nothing stored until some other save.
- *Tenants.* `initialize` may resolve with an unready snapshot (164-183); a
  failed delete leaves "closed" while the pool may hold the connection.
- *Sync.* Concurrent `queue` calls fork the dependency chain; `compact` between
  a log read and an append orphans the new mutation; a stop between apply and
  persist turns the retry into a conflict; two updates within a clock tick have
  the same version. A sequence committed after a higher one was pulled is never
  pulled; a page read earlier overwrites a newer push until the next pull.
- *Bridge.* `subscribe` after `unsubscribe` during an attempt joins the cancelled
  promise.
- *Server.* The 400 for a malformed pipelined request and the 101 of an upgrade
  go out ahead of pending responses. A second resumer clears the paused entry of
  another; expiry between find and claim flushes an ended session's queue.
  `onClose`, "called exactly once" (`websocket-connection.js:62`,
  `docs/websocket-connections.md:133`), is called twice when a connection that the
  server is closing is closed by its client or torn down with its session: neither
  looks at `_closed` (`websocket-connection.js:96-110`, `websocket-session.js:1538-1559`,
  `1656-1669`); a connection closed within `onConnect` is registered after all.
  What is sent to a socket that is lost, until the heartbeat notices, is dropped and
  not queued for the resumption (`worker-handler/index.js:221-224`).
- *Events.* In worker threads, the default, sessions mark interest in their own
  thread's map, and the host, whose map is empty, never looks at the table
  (`websocket-event-log-store.js:162`): nothing is logged and a resumption ends in a
  gap. A publish that fails when its event has been inserted reaches nobody who is
  live; a subscriber of the first kind misses what is dispatched between its read
  of the ceiling and its registration (`FirstKindLosesOnlyInGap`).

## Not modelled, and the plan

The map covers about 8 % of the implementation's lines: every part above in
which an interleaving can go wrong. Left out for good are records and queries,
migrations, frontend models, controllers, routes, templates, cli, logging and the
test framework - sequential code whose state is data, or pure I/O - which are
nine tenths of the framework. Noticed while reading and not modelled: the
scheduler (`stop` during `start` re-arms timers), Beacon (a disconnect that
races a connect leaves a second client), `acts-as-list` (positions are shifted
outside of the transaction that destroys a row), `reset` of tenants, `discard` of
the single multi-use pool.

What remains to be proved: the exclusive use of connections in `PoolInv`, and the
parts of `SessionInv` that are about the holders of handles.
