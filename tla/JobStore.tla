------------------------------ MODULE JobStore ------------------------------
(***************************************************************************)
(* The durable background-jobs store (src/src/background-jobs/store.js).   *)
(*                                                                         *)
(* Every mutation of the store runs inside _serializedCountMutation: one   *)
(* transaction whose first statement write-locks the singleton count       *)
(* revision row.  All of them are therefore serialized across processes,   *)
(* and each is one action here.  (The startup reconciliation is the        *)
(* exception; QueueReconcile.tla models it statement by statement.)        *)
(*                                                                         *)
(* `leases` and `fate` are not columns: leases remembers what each worker  *)
(* was told when it was handed a job (the identity its reports carry for   *)
(* ever after, however late), and fate what the store has since decided    *)
(* about that lease.                                                       *)
(***************************************************************************)
EXTENDS Integers, FiniteSets

CONSTANTS
    Jobs,             \* job ids (UUIDs: never reused)
    Handoffs,         \* lease ids chosen by the dispatcher (UUIDs)
    Workers,          \* worker ids
    FixedKeys,        \* concurrency keys passed by the caller: stable cap
    QueueKeys,        \* queue-derived keys: the configured cap may change
    ScheduleKeys,     \* stable logical schedule keys
    Idents,           \* job identities: name + args + queue
    Caps,             \* concurrency caps in use
    RetryLimits,      \* max_retries values in use
    RetryDelays,      \* retryDelayMs of each retry, counted from 1
    Delays,           \* schedule and reschedule delays in use
    OrphanAge,        \* ORPHANED_AFTER_MS
    Retention,        \* completedTtlMs / failedTtlMs
    BatchSize,        \* rows pruned per transaction
    MaxTime,          \* bound on the clock
    None

\* What a worker is told about the job it is handed.
Lease == [job: Jobs, worker: Workers, handedOffAt: Nat]

ASSUME StoreAssumption ==
    /\ IsFiniteSet(Jobs) /\ IsFiniteSet(Handoffs)
    /\ Caps \subseteq Nat \ {0}
    /\ RetryLimits \subseteq Nat
    /\ \A m \in RetryLimits : \A n \in 1..m : RetryDelays[n] \in Nat
    /\ Delays \subseteq Nat
    /\ OrphanAge \in Nat /\ Retention \in Nat \ {0}
    /\ BatchSize \in Nat \ {0} /\ MaxTime \in Nat
    /\ FixedKeys \cap QueueKeys = {}
    /\ None \notin Jobs \cup Handoffs \cup Workers \cup FixedKeys
                     \cup QueueKeys \cup ScheduleKeys \cup Idents
    /\ None \notin Lease

VARIABLES
    jobs,       \* the jobs table, by id
    cap,        \* concurrency table: max_concurrency, 0 when there is no row
    active,     \* concurrency table: active_count
    owner,      \* schedule_keys table: the job owning each key, or None
    counts,     \* the sum of all count deltas broadcast after commit
    revision,   \* the count revision row
    leases,     \* every lease ever handed to a worker
    fate,       \* what became of each lease
    now         \* Date.now()

vars == <<jobs, cap, active, owner, counts, revision, leases, fate, now>>

Keys == FixedKeys \cup QueueKeys

Counted == {"queued", "handed_off", "completed", "failed", "orphaned"}
Buckets == {"all"} \cup Counted
Statuses == Counted \cup {"cancelled", "none", "deleted"}
Fates == {"unissued", "live", "completed", "failed", "rescheduled",
          "reclaimed", "twice"}

NoTime == -1
Times == Nat \cup {NoTime}

Row == [status: Statuses, ident: Idents \cup {None},
        ckey: Keys \cup {None}, skey: ScheduleKeys \cup {None},
        maxRetries: RetryLimits \cup {0}, attempts: Nat, scheduledAt: Times, endedAt: Times,
        handoff: Handoffs \cup {None}, worker: Workers \cup {None},
        handedOffAt: Times]

(***************************************************************************)
(* The row of an id that was never inserted ("none") or no longer exists   *)
(* ("deleted").                                                            *)
(***************************************************************************)
NoRow(status) ==
    [status |-> status, ident |-> None, ckey |-> None, skey |-> None,
     maxRetries |-> 0, attempts |-> 0, scheduledAt |-> NoTime,
     endedAt |-> NoTime, handoff |-> None, worker |-> None,
     handedOffAt |-> NoTime]

Init ==
    /\ jobs = [j \in Jobs |-> NoRow("none")]
    /\ cap = [k \in Keys |-> 0]
    /\ active = [k \in Keys |-> 0]
    /\ owner = [s \in ScheduleKeys |-> None]
    /\ counts = [b \in Buckets |-> 0]
    /\ revision = 0
    /\ leases = [h \in Handoffs |-> None]
    /\ fate = [h \in Handoffs |-> "unissued"]
    /\ now = 0

-----------------------------------------------------------------------------
(* Helpers shared by the mutations.                                        *)

\* _recordCountDelta: a wholly zero delta consumes no revision.
RecordCountDelta(delta) ==
    /\ counts' = [b \in Buckets |-> counts[b] + delta[b]]
    /\ revision' = IF \E b \in Buckets : delta[b] # 0
                   THEN revision + 1 ELSE revision

\* _recordStatusTransition: cancelled jobs are in no bucket.
Transition(old, new) ==
    [b \in Buckets |->
        LET holds(s) == IF s \in Counted /\ b \in {s, "all"} THEN 1 ELSE 0
        IN  holds(new) - holds(old)]

\* The delta of one more queued row.
Inserted == [b \in Buckets |-> IF b \in {"all", "queued"} THEN 1 ELSE 0]

\* Mutant: the update's WHERE is lost.
ReleasedEverywhere(S) == [k \in Keys |-> active[k] - Cardinality(S)]

\* _releaseConcurrency once for every job of S.
Released(S) ==
    [k \in Keys |->
        LET n == Cardinality({j \in S : jobs[j].ckey = k})
        IN  IF active[k] >= n THEN active[k] - n ELSE 0]

\* Mutants: the key is never given up; the key is given up unconditionally.
NeverDisowned(S) == owner
DisownedAnyway(S) ==
    [s \in ScheduleKeys |->
        IF \E j \in S : jobs[j].skey = s THEN None ELSE owner[s]]

\* _releaseScheduleOwnershipForJob for every job of S: a key that a newer
\* job has taken over is left alone.
Disowned(S) ==
    [s \in ScheduleKeys |->
        IF \E j \in S : jobs[j].skey = s /\ owner[s] = j
        THEN None ELSE owner[s]]

\* What a lease becomes when the store acts on it a first or a second time.
Ended(h, what) == IF fate[h] = "live" THEN what ELSE "twice"

\* What a caller asks for: _prepareJob's normalized input.
Limits == {l \in [key: Keys \cup {None}, max: Caps \cup {0}] :
              l.key = None <=> l.max = 0}
Requests == [ident: Idents, limit: Limits, maxRetries: RetryLimits,
             delay: Delays]

\* _ensureConcurrencyKey / _ensureQueueConcurrencyKey: a fixed key keeps its
\* first cap (a conflict throws), a queue's cap follows the configuration.
KeyAccepts(limit) ==
    limit.key \in FixedKeys => cap[limit.key] \in {0, limit.max}

\* _insertPreparedJob.
InsertPreparedJob(j, req, skey, base) ==
    LET k == req.limit.key IN
    /\ jobs[j].status = "none"
    /\ KeyAccepts(req.limit)
    /\ jobs' = [base EXCEPT ![j] =
                  [NoRow("queued") EXCEPT
                     !.ident = req.ident, !.ckey = k, !.skey = skey,
                     !.maxRetries = req.maxRetries,
                     !.scheduledAt = now + req.delay]]
    /\ cap' = [x \in Keys |-> IF x = k THEN req.limit.max ELSE cap[x]]
    /\ active' = [x \in Keys |->
                    IF x = k /\ cap[x] = 0 THEN 0 ELSE active[x]]

-----------------------------------------------------------------------------
(* Enqueueing.                                                             *)

\* deduplicateWhileQueued: a queued job of the same identity that is due no
\* later already covers the request, and its id is returned instead.
Covered(req) ==
    \E j \in Jobs : /\ jobs[j].status = "queued"
                    /\ jobs[j].ident = req.ident
                    /\ jobs[j].scheduledAt <= now + req.delay

Enqueue(j, req, dedupe) ==
    /\ ~(dedupe /\ Covered(req))
    /\ InsertPreparedJob(j, req, None, jobs)
    /\ RecordCountDelta(Inserted)
    /\ UNCHANGED <<owner, leases, fate, now>>

\* The queued owner of the key is cancelled and replaced in one transaction;
\* a handed-off owner keeps running but no longer owns the key.
ReplaceScheduled(s, j, req) ==
    LET old == owner[s]
        supersedes == old # None /\ jobs[old].status = "queued"
    IN
    /\ InsertPreparedJob(j, req, s,
          IF supersedes THEN [jobs EXCEPT ![old].status = "cancelled"]
          ELSE jobs)
    /\ owner' = [owner EXCEPT ![s] = j]
    /\ IF supersedes THEN UNCHANGED <<counts, revision>>
       ELSE RecordCountDelta(Inserted)
    /\ UNCHANGED <<leases, fate, now>>

CancelScheduled(s) ==
    LET j == owner[s] IN
    /\ j # None
    /\ owner' = [owner EXCEPT ![s] = None]
    /\ IF jobs[j].status = "queued"
       THEN /\ jobs' = [jobs EXCEPT ![j].status = "cancelled"]
            /\ RecordCountDelta(Transition("queued", "cancelled"))
       ELSE UNCHANGED <<jobs, counts, revision>>
    /\ UNCHANGED <<cap, active, leases, fate, now>>

-----------------------------------------------------------------------------
(* Handing a job to a worker.                                              *)

\* Mutant: off by one.
CanOverbook(k) == k # None => active[k] <= cap[k]

\* _reserveConcurrency: UPDATE ... active_count + 1 WHERE active_count < max.
CanReserve(k) == k # None => active[k] < cap[k]
Reserved(k) == [x \in Keys |-> IF x = k THEN active[x] + 1 ELSE active[x]]

\* Mutant: the id of the lease the job was rescheduled from is used again.
MarkHandedOffAgain(j, h, w) ==
    /\ jobs[j].status = "queued"
    /\ \/ fate[h] = "unissued"
       \/ fate[h] = "rescheduled" /\ leases[h].job = j
    /\ CanReserve(jobs[j].ckey)
    /\ active' = Reserved(jobs[j].ckey)
    /\ jobs' = [jobs EXCEPT ![j].status = "handed_off",
                            ![j].handoff = h,
                            ![j].worker = w,
                            ![j].handedOffAt = now]
    /\ leases' = [leases EXCEPT ![h] =
                    [job |-> j, worker |-> w, handedOffAt |-> now]]
    /\ fate' = [fate EXCEPT ![h] = "live"]
    /\ RecordCountDelta(Transition("queued", "handed_off"))
    /\ UNCHANGED <<cap, owner, now>>

MarkHandedOff(j, h, w) ==
    /\ jobs[j].status = "queued"
    /\ fate[h] = "unissued"
    /\ CanReserve(jobs[j].ckey)
    /\ active' = Reserved(jobs[j].ckey)
    /\ jobs' = [jobs EXCEPT ![j].status = "handed_off",
                            ![j].handoff = h,
                            ![j].worker = w,
                            ![j].handedOffAt = now]
    /\ leases' = [leases EXCEPT ![h] =
                    [job |-> j, worker |-> w, handedOffAt |-> now]]
    /\ fate' = [fate EXCEPT ![h] = "live"]
    /\ RecordCountDelta(Transition("queued", "handed_off"))
    /\ UNCHANGED <<cap, owner, now>>

-----------------------------------------------------------------------------
(* Reports of a lease's outcome.  A worker may report any lease it was     *)
(* ever given, as often and as late as it likes.                           *)

\* Mutant: the fence compares the worker and the time, not the lease.
AcceptsWorkerReport(h) ==
    /\ leases[h] # None
    /\ LET row == jobs[leases[h].job] IN
       /\ row.status = "handed_off"
       /\ row.worker \in {None, leases[h].worker}
       /\ row.handedOffAt \in {NoTime, leases[h].handedOffAt}

\* _shouldAcceptReport, and the conditional update _activeHandoffConditions
\* (which matches no row whose handoff id is null).
ShouldAcceptReport(h) ==
    /\ leases[h] # None
    /\ LET row == jobs[leases[h].job] IN
       /\ row.status = "handed_off"
       /\ row.handoff = h
       /\ row.worker \in {None, leases[h].worker}
       /\ row.handedOffAt \in {NoTime, leases[h].handedOffAt}

MarkCompleted(h) ==
    LET j == leases[h].job IN
    /\ ShouldAcceptReport(h)
    /\ jobs' = [jobs EXCEPT ![j].status = "completed", ![j].endedAt = now]
    /\ owner' = Disowned({j})
    /\ active' = Released({j})
    /\ fate' = [fate EXCEPT ![h] = Ended(h, "completed")]
    /\ RecordCountDelta(Transition("handed_off", "completed"))
    /\ UNCHANGED <<cap, leases, now>>

\* Mutant: going back to the queue costs an attempt.
RequeuedAndCharged(row, at) ==
    [row EXCEPT !.status = "queued", !.scheduledAt = at, !.attempts = @ + 1,
                !.handedOffAt = NoTime, !.handoff = None, !.worker = None]

\* Back to the queue at a later time; the attempts are not charged.
Requeued(row, at) ==
    [row EXCEPT !.status = "queued", !.scheduledAt = at,
                !.handedOffAt = NoTime, !.handoff = None, !.worker = None]

MarkRescheduled(h, delay) ==
    LET j == leases[h].job IN
    /\ ShouldAcceptReport(h)
    /\ jobs' = [jobs EXCEPT ![j] = Requeued(@, now + delay)]
    /\ active' = Released({j})
    /\ fate' = [fate EXCEPT ![h] = Ended(h, "rescheduled")]
    /\ RecordCountDelta(Transition("handed_off", "queued"))
    /\ UNCHANGED <<cap, owner, leases, now>>

\* Mutant: one retry too few.
WillRetryLess(row) == row.attempts + 1 < row.maxRetries

\* _applyFailure and _failureUpdate: the handoff id stays on a retried row.
WillRetry(row) == row.attempts + 1 <= row.maxRetries
FailedRow(row, terminal) ==
    [row EXCEPT
        !.attempts = @ + 1,
        !.status = IF WillRetry(row) THEN "queued" ELSE terminal,
        !.scheduledAt = IF WillRetry(row)
                        THEN now + RetryDelays[row.attempts + 1] ELSE @,
        !.endedAt = IF WillRetry(row) THEN @ ELSE now,
        !.handedOffAt = NoTime, !.worker = None]

MarkFailed(h) ==
    LET j == leases[h].job
        row == FailedRow(jobs[j], "failed")
    IN
    /\ ShouldAcceptReport(h)
    /\ jobs' = [jobs EXCEPT ![j] = row]
    /\ owner' = IF WillRetry(jobs[j]) THEN owner ELSE Disowned({j})
    /\ active' = Released({j})
    /\ fate' = [fate EXCEPT ![h] = Ended(h, "failed")]
    /\ RecordCountDelta(Transition("handed_off", row.status))
    /\ UNCHANGED <<cap, leases, now>>

-----------------------------------------------------------------------------
(* The main process takes leases and rows back.                            *)

\* The lease's worker is gone: fenced on the exact handoff id.
MarkReturnedToQueue(h) ==
    LET j == leases[h].job IN
    /\ leases[h] # None
    /\ jobs[j].status = "handed_off" /\ jobs[j].handoff = h
    /\ jobs' = [jobs EXCEPT ![j] = Requeued(@, now)]
    /\ active' = Released({j})
    /\ fate' = [fate EXCEPT ![h] = Ended(h, "reclaimed")]
    /\ RecordCountDelta(Transition("handed_off", "queued"))
    /\ UNCHANGED <<cap, owner, leases, now>>

\* The orphan sweep fails every lease older than the cutoff, in one
\* transaction; a row with attempts left goes back to the queue.
Stale == {j \in Jobs : /\ jobs[j].status = "handed_off"
                       /\ jobs[j].handedOffAt <= now - OrphanAge}

\* Mutant: every swept job is counted as orphaned.
SweepAllOrphaned(S) ==
    [b \in Buckets |-> CASE b = "handed_off" -> 0 - Cardinality(S)
                         [] b = "orphaned"   -> Cardinality(S)
                         [] OTHER            -> 0]
SweepDelta(S) ==
    LET retried == Cardinality({j \in S : WillRetry(jobs[j])})
        buried == Cardinality({j \in S : ~WillRetry(jobs[j])})
    IN  [b \in Buckets |-> CASE b = "handed_off" -> 0 - (retried + buried)
                             [] b = "queued"     -> retried
                             [] b = "orphaned"   -> buried
                             [] OTHER            -> 0]

MarkOrphanedJobs ==
    /\ Stale # {}
    /\ jobs' = [j \in Jobs |->
                  IF j \in Stale THEN FailedRow(jobs[j], "orphaned")
                  ELSE jobs[j]]
    /\ owner' = Disowned({j \in Stale : ~WillRetry(jobs[j])})
    /\ active' = Released(Stale)
    /\ fate' = [h \in Handoffs |->
                  IF \E j \in Stale : jobs[j].handoff = h
                  THEN Ended(h, "failed") ELSE fate[h]]
    /\ RecordCountDelta(SweepDelta(Stale))
    /\ UNCHANGED <<cap, leases, now>>

\* Mutants: the reservation is kept; a failed job can be cancelled.
CancelKeepsSlot(j) ==
    /\ jobs[j].status \in {"queued", "handed_off"}
    /\ jobs' = [jobs EXCEPT ![j].status = "cancelled"]
    /\ owner' = Disowned({j})
    /\ fate' = IF jobs[j].status = "handed_off" /\ jobs[j].handoff # None
               THEN [fate EXCEPT ![jobs[j].handoff] =
                        Ended(jobs[j].handoff, "reclaimed")]
               ELSE fate
    /\ RecordCountDelta(Transition(jobs[j].status, "cancelled"))
    /\ UNCHANGED <<cap, active, leases, now>>
CancelFailed(j) ==
    /\ jobs[j].status \in {"queued", "failed"}
    /\ jobs' = [jobs EXCEPT ![j].status = "cancelled"]
    /\ owner' = Disowned({j})
    /\ RecordCountDelta(Transition(jobs[j].status, "cancelled"))
    /\ UNCHANGED <<cap, active, leases, fate, now>>
\* Cancelling a handed-off job frees its reservation although it may run on.
Cancel(j) ==
    LET running == jobs[j].status = "handed_off" IN
    /\ jobs[j].status \in {"queued", "handed_off"}
    /\ jobs' = [jobs EXCEPT ![j].status = "cancelled"]
    /\ owner' = Disowned({j})
    /\ active' = IF running THEN Released({j}) ELSE active
    /\ fate' = IF running /\ jobs[j].handoff # None
               THEN [fate EXCEPT ![jobs[j].handoff] =
                        Ended(jobs[j].handoff, "reclaimed")]
               ELSE fate
    /\ RecordCountDelta(Transition(jobs[j].status, "cancelled"))
    /\ UNCHANGED <<cap, leases, now>>

\* One batch of _pruneStatusBatches; which rows LIMIT returns is up to the
\* database.
PruneTerminalJobs(status, S) ==
    /\ S # {} /\ Cardinality(S) <= BatchSize
    /\ \A j \in S : /\ jobs[j].status = status
                    /\ jobs[j].endedAt <= now - Retention
    /\ jobs' = [j \in Jobs |-> IF j \in S THEN NoRow("deleted") ELSE jobs[j]]
    /\ RecordCountDelta([b \in Buckets |->
          IF b \in {"all", status} THEN 0 - Cardinality(S) ELSE 0])
    /\ UNCHANGED <<cap, active, owner, leases, fate, now>>

\* clearAll subtracts a fresh snapshot of the table, not the running sum.
Snapshot ==
    [b \in Buckets |->
        Cardinality({j \in Jobs : /\ jobs[j].status \in Counted
                                  /\ b \in {jobs[j].status, "all"}})]

ClearAll ==
    /\ \E j \in Jobs : jobs[j].status \notin {"none", "deleted"}
    /\ jobs' = [j \in Jobs |-> IF jobs[j].status = "none" THEN jobs[j]
                               ELSE NoRow("deleted")]
    /\ cap' = [k \in Keys |-> 0]
    /\ active' = [k \in Keys |-> 0]
    /\ owner' = [s \in ScheduleKeys |-> None]
    /\ fate' = [h \in Handoffs |->
                  IF fate[h] = "live" THEN "reclaimed" ELSE fate[h]]
    /\ RecordCountDelta([b \in Buckets |-> 0 - Snapshot[b]])
    /\ UNCHANGED <<leases, now>>

Tick ==
    /\ now < MaxTime
    /\ now' = now + 1
    /\ UNCHANGED <<jobs, cap, active, owner, counts, revision, leases, fate>>

-----------------------------------------------------------------------------
Next ==
    \/ \E j \in Jobs, req \in Requests, dedupe \in BOOLEAN :
          Enqueue(j, req, dedupe)
    \/ \E s \in ScheduleKeys, j \in Jobs, req \in Requests :
          ReplaceScheduled(s, j, req)
    \/ \E s \in ScheduleKeys : CancelScheduled(s)
    \/ \E j \in Jobs, h \in Handoffs, w \in Workers : MarkHandedOff(j, h, w)
    \/ \E h \in Handoffs : MarkCompleted(h)
    \/ \E h \in Handoffs, delay \in Delays : MarkRescheduled(h, delay)
    \/ \E h \in Handoffs : MarkFailed(h)
    \/ \E h \in Handoffs : MarkReturnedToQueue(h)
    \/ MarkOrphanedJobs
    \/ \E j \in Jobs : Cancel(j)
    \/ \E status \in {"completed", "failed", "orphaned"}, S \in SUBSET Jobs :
          PruneTerminalJobs(status, S)
    \/ ClearAll
    \/ Tick

Spec == Init /\ [][Next]_vars

-----------------------------------------------------------------------------
(* Properties.                                                             *)

TypeOK ==
    /\ jobs \in [Jobs -> Row]
    /\ cap \in [Keys -> Nat]
    /\ active \in [Keys -> Nat]
    /\ owner \in [ScheduleKeys -> Jobs \cup {None}]
    /\ counts \in [Buckets -> Int]
    /\ revision \in Nat
    /\ leases \in [Handoffs -> Lease \cup {None}]
    /\ fate \in [Handoffs -> Fates]
    /\ now \in Nat

\* The jobs running under a concurrency key.
Running(k) == {j \in Jobs : jobs[j].status = "handed_off" /\ jobs[j].ckey = k}

\* Every reservation of a concurrency key belongs to exactly one running
\* lease: whatever ends a lease (report, return, cancel, sweep, clear) gives
\* back one slot and nothing else does, so active_count never leaks a slot
\* and never frees one that is in use.
ConcurrencyExact == \A k \in Keys : active[k] = Cardinality(Running(k))

\* A step never raises the number of running jobs of a key above its cap,
\* even when the queue's configured cap was lowered below what is running
\* (_reserveConcurrency's conditional update).
CapRespected ==
    [][\A k \in Keys :
          Cardinality(Running(k)') > Cardinality(Running(k))
             => Cardinality(Running(k)') <= cap[k]]_vars

\* The job running under a lease; at most one.
LiveRows(h) == {j \in Jobs : /\ jobs[j].status = "handed_off"
                             /\ jobs[j].handoff = h}

\* A lease is settled exactly once, by whichever of report, reclaim, cancel,
\* sweep and clear comes first; a worker that reports late, twice, or after
\* its job was handed to somebody else changes nothing.
LeaseEndsOnce ==
    \A h \in Handoffs :
        /\ fate[h] # "twice"
        /\ fate[h] = "live" <=> LiveRows(h) # {}
        /\ \A j \in LiveRows(h) : leases[h].job = j

\* A job's attempts are the leases that failed under it, each charged once:
\* reschedules, returns to the queue and stale failure reports cost nothing.
AttemptsExact ==
    \A j \in Jobs :
        jobs[j].status \notin {"none", "deleted"} =>
            jobs[j].attempts =
                Cardinality({h \in Handoffs : /\ fate[h] = "failed"
                                              /\ leases[h].job = j})

\* A job is retried max_retries times and no more: while it can still run
\* there are attempts left, and it fails or is orphaned only when spent.
RetryBudget ==
    \A j \in Jobs :
        /\ jobs[j].status \in {"queued", "handed_off"}
              => jobs[j].attempts <= jobs[j].maxRetries
        /\ jobs[j].status \in {"failed", "orphaned"}
              => jobs[j].attempts = jobs[j].maxRetries + 1

\* The deltas broadcast after each commit add up to the table: a dashboard
\* that started from a snapshot and applied every revision shows the truth.
CountsMatch == counts = Snapshot

\* The owner of a schedule key is a job of that key that can still run.
OwnerIsLive ==
    \A s \in ScheduleKeys :
        owner[s] # None =>
            /\ jobs[owner[s]].status \in {"queued", "handed_off"}
            /\ jobs[owner[s]].skey = s

\* A scheduled job that no worker has seen yet is its key's owner: replacing
\* or cancelling a schedule never leaves a superseded job to run.
OnlyOwnerStarts ==
    \A j \in Jobs :
        /\ jobs[j].status = "queued"
        /\ jobs[j].skey # None
        /\ \A h \in Handoffs : leases[h] # None => leases[h].job # j
        => owner[jobs[j].skey] = j

\* A job that was completed, failed, orphaned or cancelled stays so until its
\* row is deleted, and a deleted row never comes back: no late report, sweep
\* or retry resurrects it.
SettledIsFinal ==
    [][\A j \in Jobs :
          /\ jobs[j].status \in
                {"completed", "failed", "orphaned", "cancelled", "deleted"}
          /\ jobs'[j] # jobs[j]
          => jobs'[j].status = "deleted"]_vars

(***************************************************************************)
(* The store implements JobLease: a job holds the lease whose id is in its *)
(* row while the row is handed_off, and a lease is spent once the store    *)
(* has decided what became of it.                                          *)
(***************************************************************************)
Holder ==
    [j \in Jobs |->
        IF jobs[j].status = "handed_off" THEN jobs[j].handoff ELSE None]
Spent == {h \in Handoffs : fate[h] \notin {"unissued", "live"}}

Leasing == INSTANCE JobLease WITH
    Leases <- Handoffs, holder <- Holder, spent <- Spent

\* Whatever the order of handoffs, reports, returns, sweeps, cancellations
\* and clears, the rows of the jobs table and the handoff ids in them amount
\* to exclusive one-shot leases: no step grants a job that is held, moves a
\* lease from one job to another, or grants a lease that was given up.
ImplementsJobLease == Leasing!Spec

=============================================================================
