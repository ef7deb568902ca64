--------------------------- MODULE WorkerAdmission ---------------------------
(***************************************************************************)
(* How the main process (src/src/background-jobs/main.js) decides that a   *)
(* worker has room for one more job: the `ready` messages a worker         *)
(* composes (src/src/background-jobs/worker.js), the credits main keeps    *)
(* from them, their debit and restoration around the write of the lease,   *)
(* and the pool of child processes that the worker sizes from the jobs     *)
(* it is sent.                                                             *)
(*                                                                         *)
(* One worker socket, two lanes: inline jobs, and pooled jobs on child     *)
(* runners.  The lane of forked and spawned jobs is constantly full or     *)
(* constantly open (ProcessOpen).                                          *)
(* Both directions of the socket are FIFO, but a message composed before   *)
(* the other side's last one has arrived knows nothing of it.              *)
(***************************************************************************)
EXTENDS Integers, Sequences, FiniteSets, FiniteSetsExt

CONSTANTS
    Children,      \* ids of child processes; bounds how many are ever alive
    RunnerCount,   \* pooledRunnerCount
    RunnerSlots,   \* pooledRunnerConcurrency
    MaxInline,     \* maxConcurrentInlineJobs
    ProcessOpen,   \* the lane of forked and spawned jobs has room
    PooledJobs,    \* bound on pooled jobs in the queue
    InlineJobs,    \* bound on inline jobs in the queue
    MaxRefusals,   \* bound on leases that are not written
    MaxFaults,     \* bound on child crashes and unacknowledged reports
    None

ASSUME AdmissionAssumption ==
    /\ IsFiniteSet(Children)
    /\ RunnerCount \in Nat \ {0} /\ RunnerSlots \in Nat \ {0}
    /\ MaxInline \in Nat \ {0} /\ ProcessOpen \in BOOLEAN
    /\ PooledJobs \in Nat /\ InlineJobs \in Nat
    /\ MaxRefusals \in Nat /\ MaxFaults \in Nat
    /\ None \notin Children

VARIABLES
    queue,     \* jobs waiting, by lane
    inReady,   \* main: the socket is in readyWorkers
    inlineOk,  \* main: acceptsInlineJobs
    credits,   \* main: availablePooledSlots
    pending,   \* main: the admission whose lease is being written
    down,      \* job messages under way to the worker
    up,        \* ready messages under way to main
    inline,    \* worker: inflightInlineJobs
    pool,      \* worker: pooledChildStates
    owed,      \* worker: finished pooled jobs that have yet to announce
    muted,     \* worker: the last announcement revoked the pool
    granted,   \* the slots of the last ready main received
    spent,     \* pooled jobs sent since then
    refusals, faults

main == <<inReady, inlineOk, credits, pending, granted, spent>>
worker == <<inline, pool, owed, muted>>
vars == <<queue, main, down, up, worker, refusals, faults>>

Lanes == {"inline", "pooled"}
Ready == [inline: BOOLEAN, slots: Nat]

-----------------------------------------------------------------------------
(* What a worker announces.                                                *)

Alive(p) == {c \in Children : p[c] # None}
Serving(p) == {c \in Alive(p) : ~p[c].retiring}

\* _availablePooledSlots: open slots of the children that are not retiring,
\* and those of children that could still be started.
FreeSlots(p) ==
    LET open == MapThenSumSet(LAMBDA c : RunnerSlots - p[c].inflight, Serving(p))
        startable == Max({0, RunnerCount - Cardinality(Serving(p))})
    IN  open + startable * RunnerSlots

\* _sendReadyIfRunning: nothing is sent when every lane is full.
Announced(n, p) ==
    IF ProcessOpen \/ n < MaxInline \/ FreeSlots(p) > 0
    THEN Append(up, [inline |-> n < MaxInline, slots |-> FreeSlots(p)])
    ELSE up

\* revokePooledAdmission: always sent.
Revoked(n) == Append(up, [inline |-> n < MaxInline, slots |-> 0])

Init ==
    /\ queue = [l \in Lanes |-> IF l = "inline" THEN InlineJobs ELSE PooledJobs]
    /\ inReady = FALSE /\ inlineOk = FALSE /\ credits = 0
    /\ pending = None
    /\ down = <<>>
    /\ up = <<[inline |-> TRUE, slots |-> RunnerCount * RunnerSlots]>>
    /\ inline = 0
    /\ pool = [c \in Children |-> None]
    /\ owed = 0 /\ muted = FALSE
    /\ granted = 0 /\ spent = 0
    /\ refusals = 0 /\ faults = 0

-----------------------------------------------------------------------------
(* Main.                                                                   *)

\* Anything but a positive integer counts as no slots.
Credit(slots) == IF slots \in Nat THEN slots ELSE 0

\* _handleWorkerReady: the newest announcement replaces what main knew.
WorkerReady ==
    /\ up # <<>>
    /\ up' = Tail(up)
    /\ inlineOk' = Head(up).inline
    /\ credits' = Credit(Head(up).slots)
    /\ granted' = Credit(Head(up).slots)
    /\ spent' = 0
    /\ inReady' = TRUE
    /\ pending' = IF pending = None THEN None
                  ELSE [pending EXCEPT !.current = FALSE]
    /\ UNCHANGED <<queue, down, worker, refusals, faults>>

\* WORKER_EXECUTION_MODE_CAPABILITIES.
Accepts(lane) == IF lane = "inline" THEN inlineOk ELSE credits > 0

\* _consumeWorkerAdmission: a pooled job costs a credit and keeps the worker
\* ready while credits last; an inline job takes it out of readyWorkers.
Admit(lane) ==
    /\ pending = None /\ inReady /\ queue[lane] > 0 /\ Accepts(lane)
    /\ queue' = [queue EXCEPT ![lane] = @ - 1]
    /\ pending' = [lane |-> lane, current |-> TRUE]
    /\ credits' = IF lane = "pooled" THEN credits - 1 ELSE credits
    /\ inReady' = (lane = "pooled" /\ credits > 1)
    /\ UNCHANGED <<inlineOk, granted, spent, down, up, worker, refusals,
                   faults>>

\* _finalizeWorkerAdmission: an announcement that arrived while the lease was
\* being written has overwritten the debit, so it is charged again.
ChargedAgain == pending.lane = "pooled" /\ ~pending.current /\ credits > 0

\* Mutant: the debit is not repeated.
LeaseWrittenOnce ==
    /\ pending # None
    /\ down' = Append(down, pending.lane)
    /\ pending' = None
    /\ spent' = IF pending.lane = "pooled" THEN spent + 1 ELSE spent
    /\ UNCHANGED <<queue, inReady, inlineOk, credits, granted, up, worker,
                   refusals, faults>>
LeaseWritten ==
    /\ pending # None
    /\ down' = Append(down, pending.lane)
    /\ pending' = None
    /\ credits' = IF ChargedAgain THEN credits - 1 ELSE credits
    /\ inReady' = IF ChargedAgain /\ credits = 1 THEN FALSE ELSE inReady
    /\ spent' = IF pending.lane = "pooled" THEN spent + 1 ELSE spent
    /\ UNCHANGED <<queue, inlineOk, granted, up, worker, refusals, faults>>

\* _restoreWorkerAdmission: the credit comes back only if no newer
\* announcement has said how many there are.
LeaseRefused ==
    /\ pending # None /\ refusals < MaxRefusals
    /\ refusals' = refusals + 1
    /\ queue' = [queue EXCEPT ![pending.lane] = @ + 1]
    /\ pending' = None
    /\ credits' = IF pending.lane = "pooled" /\ pending.current
                  THEN credits + 1 ELSE credits
    /\ inReady' = TRUE
    /\ UNCHANGED <<inlineOk, granted, spent, down, up, worker, faults>>

-----------------------------------------------------------------------------
(* The worker.                                                             *)

Fresh == [inflight |-> 0, retiring |-> FALSE, started |-> FALSE]

\* _handleInlineJob: below the cap the next job is asked for at once.
InlineArrives ==
    /\ down # <<>> /\ Head(down) = "inline"
    /\ down' = Tail(down)
    /\ inline' = inline + 1
    /\ up' = IF inline' < MaxInline THEN Announced(inline', pool) ELSE up
    /\ muted' = (muted /\ up' = up)
    /\ UNCHANGED <<queue, main, pool, owed, refusals, faults>>

InlineFinishes ==
    /\ inline > 0
    /\ inline' = inline - 1
    /\ up' = Announced(inline', pool)
    /\ muted' = FALSE
    /\ UNCHANGED <<queue, main, down, pool, owed, refusals, faults>>

HasRoom(c) == pool[c].inflight < RunnerSlots

\* _runPooledJob: a serving child with room, or else a new one
\* (_selectPooledChild, _createPooledChild); nothing is announced.  Which
\* child with room, the round robin's choice, is left open.
PooledArrives(c) ==
    LET room == {x \in Serving(pool) : HasRoom(x)} IN
    /\ down # <<>> /\ Head(down) = "pooled"
    /\ down' = Tail(down)
    /\ IF room # {} THEN c \in room ELSE pool[c] = None
    /\ pool' = [pool EXCEPT ![c] =
                  [(IF @ = None THEN Fresh ELSE @) EXCEPT !.inflight = @ + 1]]
    /\ UNCHANGED <<queue, main, up, inline, owed, muted, refusals, faults>>

\* The child's startup handshake.
ChildStarts(c) ==
    /\ pool[c] # None /\ ~pool[c].started
    /\ pool' = [pool EXCEPT ![c].started = TRUE]
    /\ UNCHANGED <<queue, main, down, up, inline, owed, muted, refusals,
                   faults>>

\* A retiring child goes once it is drained (_terminateIfDrained).
Drained(child) == IF child.retiring /\ child.inflight = 0 THEN None ELSE child

\* The pool after child c has reported one job's outcome; a child past its
\* limits retires and is replaced one for one (_beginRetirePooledChild).
AfterOutcome(c, retire, spare) ==
    LET child == [pool[c] EXCEPT !.inflight = @ - 1, !.started = TRUE,
                                 !.retiring = @ \/ retire]
    IN  [x \in Children |->
            CASE x = c                      -> Drained(child)
              [] x = spare /\ x # c         -> Fresh
              [] OTHER                      -> pool[x]]

\* _handlePooledChildMessage.  An unacknowledged outcome is first reported as
\* a failure, and the slot announced after that.
PooledFinishes(c, retire, spare, acknowledged) ==
    /\ pool[c] # None /\ pool[c].inflight > 0
    /\ retire => ~pool[c].retiring
    /\ IF retire THEN spare # c /\ pool[spare] = None ELSE spare = c
    /\ pool' = AfterOutcome(c, retire, spare)
    /\ IF acknowledged
       THEN /\ up' = Announced(inline, pool')
            /\ muted' = FALSE
            /\ UNCHANGED <<owed, faults>>
       ELSE /\ faults < MaxFaults /\ faults' = faults + 1
            /\ owed' = owed + 1
            /\ UNCHANGED <<up, muted>>
    /\ UNCHANGED <<queue, main, down, inline, refusals>>

\* The failure report of a job was acknowledged; its promise resolves.
LateAnnouncement ==
    /\ owed > 0
    /\ owed' = owed - 1
    /\ up' = Announced(inline, pool)
    /\ muted' = FALSE
    /\ UNCHANGED <<queue, main, down, inline, pool, refusals, faults>>

\* Mutant: a crash is left for the jobs' failure reports to announce.
ChildFailsSilently(c) ==
    /\ pool[c] # None /\ faults < MaxFaults
    /\ faults' = faults + 1
    /\ pool' = [pool EXCEPT ![c] = None]
    /\ UNCHANGED <<queue, main, down, inline, owed, up, muted, refusals>>
\* _handlePooledChildFailure: a child that had started frees its slots at
\* once; one that had not revokes the pool, so that main does not feed a
\* crash loop, and its jobs announce nothing.
ChildFails(c) ==
    /\ pool[c] # None /\ faults < MaxFaults
    /\ faults' = faults + 1
    /\ pool' = [pool EXCEPT ![c] = None]
    /\ IF pool[c].started
       THEN /\ up' = Announced(inline, pool')
            /\ owed' = owed + pool[c].inflight
            /\ muted' = FALSE
       ELSE /\ up' = Revoked(inline)
            /\ owed' = owed
            /\ muted' = TRUE
    /\ UNCHANGED <<queue, main, down, inline, refusals>>

-----------------------------------------------------------------------------
Next ==
    \/ WorkerReady \/ LeaseWritten \/ LeaseRefused
    \/ \E lane \in Lanes : Admit(lane)
    \/ InlineArrives \/ InlineFinishes \/ LateAnnouncement
    \/ \E c \in Children : PooledArrives(c) \/ ChildStarts(c) \/ ChildFails(c)
    \/ \E c, spare \in Children, retire, acknowledged \in BOOLEAN :
          PooledFinishes(c, retire, spare, acknowledged)

Spec == Init /\ [][Next]_vars

-----------------------------------------------------------------------------
(* Properties.                                                             *)

TypeOK ==
    /\ queue \in [Lanes -> Nat]
    /\ inReady \in BOOLEAN /\ inlineOk \in BOOLEAN /\ credits \in Nat
    /\ pending \in {None} \cup [lane: Lanes, current: BOOLEAN]
    /\ down \in Seq(Lanes) /\ up \in Seq(Ready)
    /\ inline \in Nat
    /\ pool \in [Children -> {None} \cup [inflight: 0..RunnerSlots,
                                          retiring: BOOLEAN, started: BOOLEAN]]
    /\ owed \in Nat /\ muted \in BOOLEAN
    /\ granted \in Nat /\ spent \in Nat
    /\ refusals \in 0..MaxRefusals /\ faults \in 0..MaxFaults

\* One announcement is never spent twice: what main has sent since it came in
\* and what it may still send stay within the slots it named, whatever
\* announcements overtake the write of a lease.  (The one lease in flight when
\* a full worker reports no slots at all is let through.)
CreditsSpentOnce == spent + credits <= IF granted = 0 THEN 1 ELSE granted

\* Nothing is under way that could still change what main knows.
Quiet == up = <<>> /\ down = <<>> /\ pending = None /\ owed = 0

\* A worker with a free pooled slot is offered pooled jobs once the messages
\* have settled, as long as it is below its inline cap: no crash, retirement,
\* late report, inline job or refused lease makes main forget capacity that
\* is there.
FreePoolIsOffered ==
    (Quiet /\ ~muted /\ inline < MaxInline /\ FreeSlots(pool) > 0) =>
        (inReady /\ credits > 0)

\* The same at the inline cap: the lanes are independent.
LanesAreSeparate ==
    (Quiet /\ ~muted /\ FreeSlots(pool) > 0) => (inReady /\ credits > 0)

\* pooledRunnerCount bounds the children that take jobs.
PoolIsBounded == Cardinality(Serving(pool)) <= RunnerCount

\* What the announcements promise: their state is well formed, and capacity
\* that is there is offered (_readyMessage, _handleWorkerReady).
AdmissionInv ==
    /\ TypeOK /\ FreePoolIsOffered

=============================================================================
