----------------------------- MODULE JobDispatch -----------------------------
(***************************************************************************)
(* The dispatcher of the background-jobs main process                      *)
(* (src/src/background-jobs/main.js) with the workers it feeds             *)
(* (src/src/background-jobs/worker.js), in the default "beacon" strategy:  *)
(* nothing polls, so a queued job is dispatched only if some event wakes   *)
(* the drain after the job has become dispatchable.                        *)
(*                                                                         *)
(* Every await of the drain is a point where other callbacks run, so the   *)
(* drain is a little program (`pc`) with one step per database call.  The  *)
(* jobs are of one execution mode and the workers have one lane of Slots   *)
(* slots; capacity credits are in WorkerAdmission, the columns of the job  *)
(* rows in JobStore.                                                       *)
(***************************************************************************)
EXTENDS Integers, FiniteSets, FiniteSetsExt

CONSTANTS
    Jobs,
    Keyed,         \* the jobs that share one concurrency key
    Cap,           \* its max_concurrency
    Workers,
    Stoppable,     \* the workers a deploy may stop for good
    Slots,         \* jobs a worker runs at once
    ReportFirst,   \* the slot is freed after the report was acknowledged
                   \* (pooled, forked, spawned) or before it is sent (inline)
    Delays,        \* schedule, retry and reschedule delays in use
    MaxTimer,      \* MAX_TIMER_MS
    MaxTime,       \* bound on the clock
    MaxErrors,     \* bound on failing database calls
    MaxCuts,       \* bound on lost worker sockets
    MaxFaults,     \* bound on both together
    MaxReturns,    \* bound on retries and reschedules
    None

ASSUME DispatchAssumption ==
    /\ IsFiniteSet(Jobs) /\ Keyed \subseteq Jobs
    /\ Cap \in Nat \ {0} /\ Slots \in Nat \ {0}
    /\ Stoppable \subseteq Workers
    /\ ReportFirst \in BOOLEAN
    /\ Delays \subseteq Nat
    /\ MaxTimer \in Nat \ {0} /\ MaxTime \in Nat
    /\ MaxErrors \in Nat /\ MaxCuts \in Nat
    /\ MaxFaults \in Nat /\ MaxReturns \in Nat
    /\ None \notin Jobs \cup Workers \cup Nat
    /\ None \notin {"pending", "ambiguous", "sent", "running", "reporting"}

VARIABLES
    st,         \* the job row's status
    at,         \* its scheduled_at_ms
    on,         \* its worker_id
    ph,         \* how far its lease has come (not a column)
    conn,       \* main: the connected workers (this.workers)
    draining,   \* main: those that announced they are draining
    ready,      \* main: this.readyWorkers
    pc,         \* main: where the drain is; "idle": no _drainPromise
    picked,     \* main: the job the drain is handing off
    target,     \* main: the worker it is handed to
    stale,      \* main: that worker's socket has closed meanwhile
    redrain,    \* main: _redrainQueued
    timer,      \* main: when _scheduledTimer fires, or None
    delay,      \* main: the delay _armScheduledTimer will set it to
    looked,     \* history: when that delay was computed
    slip,       \* history: how long after that the timer was set
    errTimer,   \* main: _errorRetryTimer is armed
    retry,      \* main: where _retryAfterError is
    recoveries, \* main: pendingHandoffRecoveries
    lost,       \* main: jobs in the workerHandoffs map of a closed socket
    closing,    \* main: closed sockets whose handler is releasing leases
    waking,     \* a handler has committed and is about to call _drain
    wire,       \* worker: `ready` messages under way to main
    goodbye,    \* worker: a `draining` message is under way
    up,         \* worker: "up", "stopping" or "down"
    zombies,    \* worker: slots held by attempts main no longer knows
    errors, cuts, returns, now

store == <<st, at, on, ph>>
local == <<picked, target, stale>>
drain == <<pc, redrain, local>>
arming == <<delay, looked, slip>>
timers == <<timer, arming, errTimer, retry>>
leasing == <<recoveries, lost, closing>>
sockets == <<conn, draining, ready>>
worker == <<wire, goodbye, up, zombies>>
bounds == <<errors, cuts, returns, now>>
vars == <<store, drain, timers, leasing, sockets, waking, worker, bounds>>

Init ==
    /\ st = [j \in Jobs |-> "unborn"]
    /\ at = [j \in Jobs |-> 0]
    /\ on = [j \in Jobs |-> None]
    /\ ph = [j \in Jobs |-> None]
    /\ conn = {} /\ draining = {} /\ ready = {}
    /\ pc = "idle" /\ picked = None /\ target = None
    /\ stale = FALSE /\ redrain = FALSE
    /\ timer = None /\ delay = None /\ errTimer = FALSE /\ retry = "off"
    /\ looked = 0 /\ slip = 0
    /\ recoveries = {} /\ lost = {} /\ closing = {}
    /\ waking = FALSE
    /\ wire = [w \in Workers |-> 0]
    /\ goodbye = [w \in Workers |-> FALSE]
    /\ up = [w \in Workers |-> "up"]
    /\ zombies = [w \in Workers |-> 0]
    /\ errors = 0 /\ cuts = 0 /\ returns = 0 /\ now = 0

-----------------------------------------------------------------------------
(* The store, as the dispatcher uses it.                                   *)

\* nextAvailableJob skips the jobs of a saturated concurrency key.
KeyHasRoom(j) ==
    j \in Keyed => Cardinality({k \in Keyed : st[k] = "leased"}) < Cap
Eligible(j) == st[j] = "queued" /\ at[j] <= now /\ KeyHasRoom(j)
EligibleJobs == {j \in Jobs : Eligible(j)}

\* nextScheduledJob returns the soonest future job only.
FutureTimes == {at[j] : j \in {k \in Jobs : st[k] = "queued" /\ at[k] > now}}
\* Mutant: the query's ORDER BY is descending.
LatestScheduled == IF FutureTimes = {} THEN None ELSE Max(FutureTimes)
NextScheduled == IF FutureTimes = {} THEN None ELSE Min(FutureTimes)

\* A row goes back to the queue; whatever its lease was doing is forgotten.
Requeue(j, time) ==
    /\ st' = [st EXCEPT ![j] = "queued"]
    /\ at' = [at EXCEPT ![j] = time]
    /\ on' = [on EXCEPT ![j] = None]
    /\ ph' = [ph EXCEPT ![j] = None]

\* Failing calls and lost sockets are bounded in number.
FaultsLeft == errors + cuts < MaxFaults

\* A database call may fail.
DbError == FaultsLeft /\ errors < MaxErrors /\ errors' = errors + 1

-----------------------------------------------------------------------------
(* Waking the drain.                                                       *)

\* _drain: an active drain is told to go round again.
Poke ==
    IF pc = "idle" THEN pc' = "probe" /\ redrain' = FALSE
                   ELSE pc' = pc /\ redrain' = TRUE

\* The end of a pass (_runDrainLoop) and of a whole drain (_drainToCompletion).
PassDone ==
    IF redrain THEN pc' = "probe" /\ redrain' = FALSE
               ELSE pc' = "armNext" /\ redrain' = redrain
DrainDone ==
    IF redrain THEN pc' = "probe" /\ redrain' = FALSE
               ELSE pc' = "idle" /\ redrain' = redrain

\* The drain's loop variables die with the iteration.
EndIteration == picked' = None /\ target' = None /\ stale' = FALSE

\* A drain that threw leaves a one-shot retry behind (_scheduleErrorRetry).
DrainThrows == pc' = "idle" /\ errTimer' = TRUE /\ redrain' = redrain

\* Mutant: every successful drain cancels the retry.
ClearAlways == errTimer' = FALSE

\* _clearErrorRetryTimer keeps the retry that recoveries and the leases of
\* closed sockets depend on.
ClearErrorRetryTimer ==
    errTimer' = IF recoveries # {} \/ lost # {} THEN errTimer ELSE FALSE

\* A handler that has committed its change calls _drain (or hears of another
\* process's change over the Beacon channel).
Wake ==
    /\ waking
    /\ waking' = FALSE
    /\ Poke
    /\ UNCHANGED <<store, local, timers, leasing, sockets, worker,
                   bounds>>

TimerFires ==
    /\ timer # None /\ timer <= now
    /\ timer' = None
    /\ Poke
    /\ UNCHANGED <<store, local, arming, errTimer, retry, leasing,
                   sockets, waking, worker, bounds>>

\* Past its bound the clock goes on only until a timer that is set has fired.
Tick ==
    /\ now < MaxTime \/ (timer # None /\ timer > now)
    /\ now' = now + 1
    /\ UNCHANGED <<store, drain, timers, leasing, sockets, waking, worker,
                   errors, cuts, returns>>

\* _handleEnqueue, _handleReplaceScheduled, the scheduler.
Enqueue(j, d) ==
    /\ st[j] = "unborn" /\ now + d <= MaxTime
    /\ st' = [st EXCEPT ![j] = "queued"]
    /\ at' = [at EXCEPT ![j] = now + d]
    /\ waking' = TRUE
    /\ UNCHANGED <<on, ph, drain, timers, leasing, sockets, worker, bounds>>

-----------------------------------------------------------------------------
(* The drain (_drainOnce).                                                 *)

\* The probe for an eligible job is only made while some worker is ready.
DrainProbe ==
    /\ pc = "probe"
    /\ IF ready # {} /\ EligibleJobs # {}
       THEN /\ picked' \in EligibleJobs
            /\ pc' = "picked" /\ redrain' = redrain
       ELSE PassDone /\ picked' = None
    /\ UNCHANGED <<store, target, stale, timers, leasing, sockets, waking,
                   worker, bounds>>

\* readyWorkerForJob and _consumeWorkerAdmission, after the probe's await.
DrainAdmit ==
    /\ pc = "picked"
    /\ IF ready # {}
       THEN /\ target' \in ready
            /\ ready' = ready \ {target'}
            /\ pc' = "handing"
            /\ UNCHANGED <<picked, stale, redrain>>
       ELSE PassDone /\ EndIteration /\ ready' = ready
    /\ UNCHANGED <<store, timers, leasing, conn, draining, waking, worker,
                   bounds>>

\* _restoreWorkerAdmission, and the check before a lease is delivered.
TargetServes == ~stale /\ target \in conn \ draining
Restored == IF TargetServes THEN ready \cup {target} ELSE ready

Leased(phase) ==
    /\ st' = [st EXCEPT ![picked] = "leased"]
    /\ on' = [on EXCEPT ![picked] = target]
    /\ ph' = [ph EXCEPT ![picked] = phase]
    /\ at' = at

CanLease == st[picked] = "queued" /\ KeyHasRoom(picked)

\* markHandedOff commits, or finds the job or its key taken.
DrainHand ==
    /\ pc = "handing"
    /\ IF CanLease
       THEN Leased("pending") /\ pc' = "handed" /\ UNCHANGED <<ready, local>>
       ELSE /\ pc' = "probe" /\ ready' = Restored /\ EndIteration
            /\ UNCHANGED store
    /\ UNCHANGED <<redrain, timers, leasing, conn, draining, waking, worker,
                   bounds>>

\* markHandedOff throws; the transaction may have committed all the same.
DrainHandFails ==
    /\ pc = "handing" /\ DbError
    /\ \E committed \in {CanLease, FALSE} :
          /\ IF committed THEN Leased("ambiguous") ELSE UNCHANGED store
          /\ recoveries' = recoveries \cup {<<picked, committed>>}
    /\ ready' = Restored
    /\ pc' = "recovering"
    /\ UNCHANGED <<redrain, local, timers, lost, closing, conn, draining,
                   waking, worker, cuts, returns, now>>

\* _recoverHandoff: markReturnedToQueue is fenced on the exact handoff id, so
\* it does nothing when the handoff never committed.
Recover(j, committed) ==
    /\ recoveries' = recoveries \ {<<j, committed>>}
    /\ IF committed THEN Requeue(j, now) ELSE UNCHANGED store

\* The drain throws whether or not the recovery goes through.  (A retry that
\* is running may have been faster.)
DrainRecovers ==
    /\ pc = "recovering"
    /\ \/ /\ IF ph[picked] = "ambiguous" THEN Recover(picked, TRUE)
             ELSE Recover(picked, FALSE)
          /\ errors' = errors
       \/ /\ DbError
          /\ UNCHANGED <<store, recoveries>>
    /\ DrainThrows
    /\ EndIteration
    /\ UNCHANGED <<timer, arming, retry, lost, closing, sockets, waking,
                   worker, cuts, returns, now>>

\* The job is sent, unless the worker went away while the lease was written.
\* (A send that throws is this step followed by LoseSocket.)
DrainDeliver ==
    /\ pc = "handed"
    /\ IF TargetServes
       THEN /\ ph' = [ph EXCEPT ![picked] = "sent"]
            /\ pc' = "probe" /\ EndIteration
            /\ recoveries' = recoveries
       ELSE /\ ph' = [ph EXCEPT ![picked] = "ambiguous"]
            /\ pc' = "returning" /\ UNCHANGED local
            /\ recoveries' = recoveries \cup {<<picked, TRUE>>}
    /\ UNCHANGED <<st, at, on, redrain, timers, lost, closing, sockets,
                   waking, worker, bounds>>

\* The undelivered lease goes back to the queue and the drain goes on.
DrainReturns ==
    /\ pc = "returning"
    /\ \/ /\ IF ph[picked] = "ambiguous" THEN Recover(picked, TRUE)
             ELSE UNCHANGED <<store, recoveries>>
          /\ pc' = "probe" /\ redrain' = TRUE
          /\ UNCHANGED <<errTimer, errors>>
       \/ /\ DbError
          /\ DrainThrows
          /\ UNCHANGED <<store, recoveries>>
    /\ EndIteration
    /\ UNCHANGED <<timer, arming, retry, lost, closing, sockets, waking,
                   worker, cuts, returns, now>>

\* _armScheduledTimer: first the soonest future job, whose delay is computed
\* now, then a second look for what became eligible after the probe, then the
\* timer is set to that delay, however long the second look took.
ArmNext ==
    /\ pc = "armNext"
    /\ timer' = None
    /\ delay' = IF NextScheduled = None THEN None
                ELSE Min({NextScheduled - now, MaxTimer})
    /\ looked' = now
    /\ pc' = "armProbe"
    /\ UNCHANGED <<store, redrain, local, slip, errTimer, retry, leasing,
                   sockets, waking, worker, bounds>>

\* Mutant: no second look.
ArmBlindly ==
    /\ pc = "armProbe"
    /\ pc' = "armSet"
    /\ UNCHANGED <<store, redrain, local, timers, leasing, sockets, waking,
                   worker, bounds>>
ArmProbe ==
    /\ pc = "armProbe"
    /\ delay' = IF ready # {} /\ EligibleJobs # {} THEN 0 ELSE delay
    /\ pc' = "armSet"
    /\ UNCHANGED <<store, redrain, local, timer, looked, slip, errTimer, retry,
                   leasing, sockets, waking, worker, bounds>>

ArmSet ==
    /\ pc = "armSet"
    /\ timer' = IF delay = None THEN None ELSE now + delay
    /\ delay' = None
    /\ slip' = now - looked
    /\ ClearErrorRetryTimer
    /\ DrainDone
    /\ UNCHANGED <<store, local, looked, retry, leasing, sockets, waking, worker,
                   bounds>>

\* A database error anywhere outside the handoff itself.
DrainFails ==
    /\ DbError
    /\ delay' = None
    /\ \/ pc = "probe" /\ DrainThrows /\ timer' = timer
       \/ /\ pc \in {"armNext", "armProbe"}
          /\ timer' = None /\ errTimer' = TRUE /\ DrainDone
    /\ UNCHANGED <<store, local, looked, slip, retry, leasing, sockets,
                   waking, worker, cuts, returns, now>>

-----------------------------------------------------------------------------
(* Recovery after errors (_retryAfterError).                               *)

ErrTimerFires ==
    /\ errTimer /\ retry = "off"
    /\ errTimer' = FALSE
    /\ retry' = "recover"
    /\ UNCHANGED <<store, drain, timer, arming, leasing, sockets, waking,
                   worker, bounds>>

\* _retryPendingHandoffRecoveries, one entry at a time.
RetryRecovers ==
    /\ retry = "recover"
    /\ IF recoveries = {}
       THEN retry' = "release" /\ UNCHANGED <<store, recoveries>>
       ELSE /\ \E r \in recoveries : Recover(r[1], r[2])
            /\ retry' = retry
    /\ UNCHANGED <<drain, timer, arming, errTimer, lost, closing, sockets,
                   waking, worker, bounds>>

\* An attempt whose lease is taken away keeps its slot at the worker.
HoldsSlot(j) == \/ ph[j] = "running"
                \/ ph[j] = "reporting" /\ ReportFirst
Orphaned(j) ==
    zombies' = IF HoldsSlot(j) THEN [zombies EXCEPT ![on[j]] = @ + 1]
               ELSE zombies

\* _releaseHandoff: markReturnedToQueue, then the map entry goes.
ReleaseHandoff(j) ==
    /\ j \in lost
    /\ lost' = lost \ {j}
    /\ Requeue(j, now)
    /\ Orphaned(j)

\* The leases of closed sockets, then a drain.
RetryReleases ==
    /\ retry = "release"
    /\ \/ /\ \E j \in lost : ReleaseHandoff(j)
          /\ UNCHANGED <<drain, retry>>
       \/ /\ lost = {}
          /\ retry' = "off"
          /\ Poke
          /\ UNCHANGED <<store, local, lost, zombies>>
    /\ UNCHANGED <<timer, arming, errTimer, recoveries, closing, sockets,
                   waking, wire, goodbye, up, bounds>>

RetryFails ==
    /\ retry # "off" /\ DbError
    /\ IF retry = "recover" THEN recoveries # {} ELSE lost # {}
    /\ retry' = "off" /\ errTimer' = TRUE
    /\ UNCHANGED <<store, drain, timer, arming, leasing, sockets, waking,
                   worker, cuts, returns, now>>

-----------------------------------------------------------------------------
(* Worker sockets.                                                         *)

Inflight(w) == zombies[w] + Cardinality({j \in Jobs : on[j] = w /\ HoldsSlot(j)})

\* _sendReadyIfRunning: nothing is sent at capacity, while stopping, or
\* without a socket.
Announced(w, inflight) ==
    IF inflight < Slots /\ up[w] = "up" /\ w \in conn
    THEN [wire EXCEPT ![w] = @ + 1] ELSE wire

\* The worker (re)connects: hello, and ready if it has capacity.
Connect(w) ==
    /\ up[w] = "up" /\ w \notin conn
    /\ conn' = conn \cup {w}
    /\ wire' = [wire EXCEPT ![w] = IF Inflight(w) < Slots THEN 1 ELSE 0]
    /\ UNCHANGED <<store, drain, timers, leasing, draining, ready, waking,
                   goodbye, up, zombies, bounds>>

\* _handleWorkerReady.
WorkerReady(w) ==
    /\ w \in conn /\ wire[w] > 0
    /\ wire' = [wire EXCEPT ![w] = @ - 1]
    /\ ready' = IF w \in draining THEN ready \ {w} ELSE ready \cup {w}
    /\ Poke
    /\ UNCHANGED <<store, local, timers, leasing, conn, draining,
                   waking, goodbye, up, zombies, bounds>>

\* The worker is told to stop: it announces that it drains, and from then on
\* never announces capacity again.
WorkerStops(w) ==
    /\ w \in Stoppable /\ up[w] = "up"
    /\ up' = [up EXCEPT ![w] = "stopping"]
    /\ goodbye' = [goodbye EXCEPT ![w] = w \in conn]
    /\ UNCHANGED <<store, drain, timers, leasing, sockets, waking, wire,
                   zombies, bounds>>

\* _handleWorkerDraining; messages of one socket arrive in order.
WorkerDraining(w) ==
    /\ w \in conn /\ goodbye[w] /\ wire[w] = 0
    /\ goodbye' = [goodbye EXCEPT ![w] = FALSE]
    /\ draining' = draining \cup {w}
    /\ ready' = ready \ {w}
    /\ UNCHANGED <<store, drain, timers, leasing, conn, waking, wire, up,
                   zombies, bounds>>

\* Mutant: a lease is recorded when its job starts, not when it is sent.
StartedLeasesOf(w) ==
    {j \in Jobs : on[j] = w /\ ph[j] \in {"running", "reporting"}}
\* The workerHandoffs map of a socket.
LeasesOf(w) ==
    {j \in Jobs : on[j] = w /\ ph[j] \in {"sent", "running", "reporting"}}

\* Mutant: a lost worker stays in readyWorkers.
StaysReady(w) == ready
NoLongerReady(w) == ready \ {w}

\* _handleWorkerSocketClosed: the leases in the socket's map are lost, the
\* ones the drain is still writing are not in it.  A socket without leases
\* is simply forgotten: no drain follows.
SocketClosed(w) ==
    /\ conn' = conn \ {w}
    /\ draining' = draining \ {w}
    /\ ready' = NoLongerReady(w)
    /\ lost' = lost \cup LeasesOf(w)
    /\ closing' = IF w \in conn /\ LeasesOf(w) # {} THEN closing \cup {w}
                  ELSE closing
    /\ wire' = [wire EXCEPT ![w] = 0]
    /\ goodbye' = [goodbye EXCEPT ![w] = FALSE]
    /\ stale' = (stale \/ w = target)
    /\ UNCHANGED <<pc, redrain, picked, target>>

\* A broken connection, or the stale-worker sweep: the worker will reconnect.
LoseSocket(w) ==
    /\ w \in conn /\ FaultsLeft /\ cuts < MaxCuts
    /\ cuts' = cuts + 1
    /\ SocketClosed(w)
    /\ UNCHANGED <<store, timers, recoveries, waking, up, zombies, errors, returns, now>>

\* A stopping worker closes its socket, at the latest when its drain timeout
\* has passed; attempts still running die with it.
WorkerExits(w) ==
    /\ up[w] = "stopping"
    /\ up' = [up EXCEPT ![w] = "down"]
    /\ zombies' = [zombies EXCEPT ![w] = 0]
    /\ SocketClosed(w)
    /\ UNCHANGED <<store, timers, recoveries, waking, bounds>>

\* The close handler releases the socket's leases one by one, then drains.
CloseReleases(w) ==
    /\ w \in closing
    /\ LET mine == {j \in lost : on[j] = w} IN
       \/ /\ \E j \in mine : ReleaseHandoff(j)
          /\ UNCHANGED <<closing, waking>>
       \/ /\ mine = {}
          /\ closing' = closing \ {w}
          /\ waking' = TRUE
          /\ UNCHANGED <<store, lost, zombies>>
    /\ UNCHANGED <<drain, timers, recoveries, sockets, wire, goodbye, up,
                   bounds>>

CloseFails(w) ==
    /\ w \in closing /\ (\E j \in lost : on[j] = w) /\ DbError
    /\ closing' = closing \ {w}
    /\ errTimer' = TRUE
    /\ UNCHANGED <<store, drain, timer, arming, retry, recoveries, lost,
                   sockets, waking, worker, cuts, returns, now>>

-----------------------------------------------------------------------------
(* Running jobs and reporting their outcome.                               *)

\* _handleJob: the lease starts to run, and a worker with slots left says so.
JobArrives(j) ==
    /\ ph[j] = "sent" /\ j \notin lost
    /\ ph' = [ph EXCEPT ![j] = "running"]
    /\ wire' = Announced(on[j], Inflight(on[j]) + 1)
    /\ UNCHANGED <<st, at, on, drain, timers, leasing, sockets, waking,
                   goodbye, up, zombies, bounds>>

\* An inline job frees its slot before its report is sent; a runner process
\* keeps it until the report is acknowledged.
JobFinishes(j) ==
    /\ ph[j] = "running" /\ up[on[j]] # "down"
    /\ ph' = [ph EXCEPT ![j] = "reporting"]
    /\ wire' = IF ReportFirst THEN wire
               ELSE Announced(on[j], Inflight(on[j]) - 1)
    /\ UNCHANGED <<st, at, on, drain, timers, leasing, sockets, waking,
                   goodbye, up, zombies, bounds>>

\* The report is accepted and the row is terminal (markCompleted, markFailed).
Settle(j) ==
    /\ ph[j] = "reporting"
    /\ st' = [st EXCEPT ![j] = "gone"]
    /\ on' = [on EXCEPT ![j] = None]
    /\ ph' = [ph EXCEPT ![j] = None]
    /\ lost' = lost \ {j}
    /\ Orphaned(j)
    /\ UNCHANGED <<at, drain, timers, recoveries, closing, sockets, wire,
                   goodbye, up, bounds>>

\* _handleJobComplete: the lease ends, its key has room again, and that is
\* all: nothing calls _drain.
JobCompletes(j) == Settle(j) /\ waking' = waking

\* _handleJobFailed without attempts left.
JobFails(j) == Settle(j) /\ waking' = TRUE

\* _handleJobFailed with attempts left, _handleJobReschedule.
JobReturns(j, d) ==
    /\ ph[j] = "reporting" /\ returns < MaxReturns /\ now + d <= MaxTime
    /\ returns' = returns + 1
    /\ Requeue(j, now + d)
    /\ lost' = lost \ {j}
    /\ Orphaned(j)
    /\ waking' = TRUE
    /\ UNCHANGED <<drain, timers, recoveries, closing, sockets, wire, goodbye,
                   up, errors, cuts, now>>

\* Mutant: readiness is announced only when a job starts.
SlotFreedSilently(w) ==
    /\ zombies[w] > 0
    /\ zombies' = [zombies EXCEPT ![w] = @ - 1]
    /\ UNCHANGED <<store, drain, timers, leasing, sockets, waking, wire,
                   goodbye, up, bounds>>

\* An attempt main has settled or taken back ends and frees its slot.
SlotFreed(w) ==
    /\ zombies[w] > 0
    /\ zombies' = [zombies EXCEPT ![w] = @ - 1]
    /\ wire' = Announced(w, Inflight(w) - 1)
    /\ UNCHANGED <<store, drain, timers, leasing, sockets, waking, goodbye,
                   up, bounds>>

-----------------------------------------------------------------------------
Dispatcher ==
    \/ DrainProbe \/ DrainAdmit \/ DrainHand \/ DrainDeliver
    \/ DrainRecovers \/ DrainReturns \/ ArmNext \/ ArmProbe \/ ArmSet
Callbacks ==
    Wake \/ TimerFires \/ ErrTimerFires \/ RetryRecovers \/ RetryReleases
Failures == DrainHandFails \/ DrainFails \/ RetryFails
Report(j) ==
    \/ JobCompletes(j) \/ JobFails(j)
    \/ \E d \in Delays : JobReturns(j, d)

Next ==
    \/ Dispatcher \/ Callbacks \/ Failures \/ Tick
    \/ \E j \in Jobs, d \in Delays : Enqueue(j, d)
    \/ \E j \in Jobs : JobArrives(j) \/ JobFinishes(j) \/ Report(j)
    \/ \E w \in Workers :
          \/ Connect(w) \/ WorkerReady(w) \/ WorkerStops(w) \/ WorkerDraining(w)
          \/ LoseSocket(w) \/ WorkerExits(w) \/ SlotFreed(w)
          \/ CloseReleases(w) \/ CloseFails(w)

(***************************************************************************)
(* Fairness: the event loop runs every callback that is due, timers fire,  *)
(* messages on an open socket are delivered, a worker without a socket     *)
(* reconnects (setTimeout in _connect), reports are retried until they     *)
(* land, and jobs finish.  Nothing is assumed of clients, failures, lost   *)
(* sockets or deploys.                                                     *)
(***************************************************************************)
Fairness ==
    /\ WF_vars(Dispatcher)
    /\ WF_vars(Wake) /\ WF_vars(TimerFires) /\ WF_vars(ErrTimerFires)
    /\ WF_vars(RetryRecovers) /\ WF_vars(RetryReleases)
    /\ WF_vars(Tick)
    /\ \A j \in Jobs : /\ WF_vars(JobArrives(j))
                       /\ WF_vars(JobFinishes(j))
                       /\ WF_vars(Report(j))
    /\ \A w \in Workers : /\ WF_vars(Connect(w))
                          /\ WF_vars(WorkerReady(w))
                          /\ WF_vars(WorkerDraining(w))
                          /\ WF_vars(CloseReleases(w))
                          /\ WF_vars(SlotFreed(w))

Spec == Init /\ [][Next]_vars
FairSpec == Spec /\ Fairness

-----------------------------------------------------------------------------
(* Properties.                                                             *)

TypeOK ==
    /\ st \in [Jobs -> {"unborn", "queued", "leased", "gone"}]
    /\ at \in [Jobs -> Nat]
    /\ on \in [Jobs -> Workers \cup {None}]
    /\ ph \in [Jobs -> {None, "pending", "ambiguous", "sent", "running",
                        "reporting"}]
    /\ conn \subseteq Workers /\ draining \subseteq conn /\ ready \subseteq conn
    /\ pc \in {"idle", "probe", "picked", "handing", "handed", "recovering",
               "returning", "armNext", "armProbe", "armSet"}
    /\ picked \in Jobs \cup {None} /\ target \in Workers \cup {None}
    /\ stale \in BOOLEAN /\ redrain \in BOOLEAN /\ errTimer \in BOOLEAN /\ waking \in BOOLEAN
    /\ timer \in Nat \cup {None} /\ delay \in Nat \cup {None}
    /\ looked \in 0..now /\ slip \in Nat
    /\ retry \in {"off", "recover", "release"}
    /\ recoveries \subseteq Jobs \X BOOLEAN
    /\ lost \subseteq Jobs /\ closing \subseteq Workers
    /\ wire \in [Workers -> Nat] /\ goodbye \in [Workers -> BOOLEAN]
    /\ up \in [Workers -> {"up", "stopping", "down"}]
    /\ zombies \in [Workers -> Nat]
    /\ errors \in 0..MaxErrors /\ cuts \in 0..MaxCuts
    /\ returns \in 0..MaxReturns /\ now \in Nat

\* Something will run a drain without any further outside event.
DrainComing ==
    \/ pc # "idle" \/ waking \/ closing # {} \/ errTimer \/ retry # "off"
    \/ timer # None /\ timer <= now

\* The timer was set for this job while it was still to come, and fires no later
\* after it than the timer was set after its delay was computed.
TimerFor(j) ==
    /\ timer # None /\ timer <= at[j] + slip
    /\ looked < at[j]

\* A dispatchable job without a concurrency key and a ready worker never sit
\* side by side while the dispatcher sleeps, except for as long as the timer
\* meant for the job was late: whatever made the job due or the worker ready
\* left a wake-up behind, through failing calls, lost sockets and coalesced
\* drains.  (Through one or the other: when a socket closes and the release of
\* its lease fails as well, a drain that looked before the release cancels the
\* retry, and the wake-up is lost.)
NoLostWakeup ==
    /\ errors = 0 \/ (cuts = 0 /\ \A w \in Workers : up[w] # "down")
    /\ ready # {} /\ \E j \in Jobs \ Keyed : Eligible(j) /\ ~TimerFor(j)
    => DrainComing

\* A job that is not due yet is covered by a timer, or by a drain that will set
\* one (_armScheduledTimer clears the old timer before two awaits, and a drain
\* may throw between them).  The timer fires later than the job is due by no
\* more than what passed between computing its delay and setting it.
FutureJobHasTimer ==
    \A j \in Jobs :
        (st[j] = "queued" /\ at[j] > now) => DrainComing \/ TimerFor(j)

\* A lease that main took from a dead socket, or whose commit was ambiguous,
\* always has somebody left to give it back: a close handler, the drain, or
\* an armed retry that no successful drain may cancel.
LeaseHasReclaimer ==
    /\ \A j \in lost : on[j] \in closing \/ errTimer \/ retry # "off"
    /\ \A r \in recoveries : \/ errTimer \/ retry # "off"
                             \/ pc \in {"recovering", "returning"} /\ picked = r[1]

\* A lease is in exactly one pair of hands: it is being written by the drain,
\* is waiting for recovery, or sits in the map of a socket, open or closed.
LeaseIsTracked ==
    \A j \in Jobs :
        /\ st[j] = "leased" <=> ph[j] # None
        /\ ph[j] = "pending" => pc = "handed" /\ picked = j
        /\ ph[j] = "ambiguous" <=> <<j, TRUE>> \in recoveries
        /\ ph[j] \in {"sent", "running", "reporting"} =>
              j \in lost \/ on[j] \in conn
        /\ j \in lost => ph[j] \in {"sent", "running", "reporting"}

\* Every queued job is run to its end, given that jobs finish.
EveryJobSettles == \A j \in Jobs : (st[j] = "queued") ~> (st[j] = "gone")

=============================================================================
