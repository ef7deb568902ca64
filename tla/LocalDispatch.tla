---------------------------- MODULE LocalDispatch ----------------------------
(***************************************************************************)
(* The in-process background jobs of a client application                  *)
(* (background-jobs/local-dispatcher.js over local-store.js): one event    *)
(* loop, no workers, no main process.  A wake-up starts a drain or tells   *)
(* the running one to go round again; the drain awaits the store at every  *)
(* step, and the performances it starts run on beside it.  Every mutation  *)
(* of the store is one transaction; it may fail without effect or, when    *)
(* only its answer is lost, with effect.                                   *)
(*                                                                         *)
(* Closing the adapter stops the dispatcher and the next use creates a new *)
(* one, which first puts every row its predecessor left behind through the *)
(* failure transition; a crash is the same without the stopping.           *)
(***************************************************************************)
EXTENDS Integers, FiniteSets, FiniteSetsExt

CONSTANTS
    LocalJobs,
    LocalKeyed,     \* the jobs under one concurrency key with a cap of one
    MaxAtOnce,      \* maxConcurrentInlineJobs
    LocalDelays,    \* schedule, retry and reschedule delays
    LocalEnd,       \* bound on the clock
    MaxRuns,        \* bound on the leases of a job
    MaxFailures,    \* bound on failing calls of the store
    MaxRestarts,    \* bound on closes and crashes
    NoFlight

Flights == [job: LocalJobs, lease: 1..MaxRuns,
            what: {"run", "completed", "rescheduled", "failed"}]

ASSUME LocalAssumption ==
    /\ IsFiniteSet(LocalJobs) /\ LocalKeyed \subseteq LocalJobs
    /\ MaxAtOnce \in Nat \ {0} /\ MaxRuns \in Nat
    /\ LocalDelays \subseteq Nat /\ LocalEnd \in Nat
    /\ MaxFailures \in Nat /\ MaxRestarts \in Nat
    /\ NoFlight \notin LocalJobs \cup Nat \cup Flights

VARIABLES
    rowStatus,  \* status of each job's row
    due,        \* its scheduled_at_ms
    lease,      \* its handoff_id, 0 when null
    runs,       \* leases written for it so far
    flights,    \* _inFlight: performances with the lease they run under
    unacked,    \* _pendingAcknowledgements, by job id
    mode,       \* "down", "on" (_accepting) or where stop() is
    place,      \* where the drain is; "idle": no _drainPromise
    again,      \* _redrain
    retrying,   \* pending acknowledgements the drain has still to retry
    pick,       \* the job the drain is claiming
    probed,     \* when the drain last looked for available jobs
    soon,       \* when the timer being armed will fire
    alarm,      \* when _scheduledTimer fires, or NoFlight
    rescue,     \* _recoveryTimer is armed
    stray,      \* jobs whose lease was committed but whose answer was lost,
                \* or whose outcome was deleted in the place of an older one
    overlooked, \* jobs that fell due between the drain's two reads
    failures, restarts, time

localVars == <<rowStatus, due, lease, runs, flights, unacked, mode, place, again,
               retrying, pick, probed, soon, alarm, rescue, stray, overlooked,
               failures, restarts, time>>

Accepting == mode = "on"

LocalInit ==
    /\ rowStatus = [j \in LocalJobs |-> "unborn"]
    /\ due = [j \in LocalJobs |-> 0]
    /\ lease = [j \in LocalJobs |-> 0]
    /\ runs = [j \in LocalJobs |-> 0]
    /\ flights = {} /\ unacked = [j \in LocalJobs |-> NoFlight]
    /\ mode = "down" /\ place = "idle" /\ again = FALSE
    /\ retrying = {} /\ pick = NoFlight /\ probed = 0 /\ soon = NoFlight
    /\ alarm = NoFlight /\ rescue = FALSE
    /\ stray = {} /\ overlooked = {}
    /\ failures = 0 /\ restarts = 0 /\ time = 0

localRows == <<rowStatus, due, lease, runs>>
owned == <<flights, unacked, stray>>
drain == <<place, again, retrying, pick, probed, soon>>
timers == <<alarm, rescue>>
bounds == <<failures, restarts, time>>

CallFails == failures < MaxFailures /\ failures' = failures + 1

-----------------------------------------------------------------------------
(* The store.                                                              *)

KeyFree(j) == j \in LocalKeyed => \A k \in LocalKeyed : rowStatus[k] # "handed_off"
Available(j) == rowStatus[j] = "queued" /\ due[j] <= time /\ KeyFree(j)

\* nextAvailableJob: the one that has been due longest.
NextAvailable ==
    {j \in LocalJobs : Available(j) /\ \A k \in LocalJobs : Available(k) => due[j] <= due[k]}

\* nextScheduledJob looks only ahead.
Ahead == {due[j] : j \in {k \in LocalJobs : rowStatus[k] = "queued" /\ due[k] > time}}
NextScheduledAt == IF Ahead = {} THEN NoFlight ELSE Min(Ahead)

\* _acceptsHandoff and the conditions of the update.
AcceptsHandoff(f) == rowStatus[f.job] = "handed_off" /\ lease[f.job] = f.lease

\* markCompleted, markRescheduled, markFailed: an acknowledgement of a lease
\* that is no longer the row's changes nothing.
OutcomeStored(f, again_, delay) ==
    IF ~AcceptsHandoff(f) THEN UNCHANGED localRows
    ELSE /\ rowStatus' = [rowStatus EXCEPT ![f.job] = IF again_ THEN "queued" ELSE "gone"]
         /\ due' = [due EXCEPT ![f.job] = IF again_ THEN time + delay ELSE @]
         /\ lease' = [lease EXCEPT ![f.job] = 0]
         /\ UNCHANGED runs

\* A completed job is gone, a rescheduled one returns, a failed one does if
\* it has attempts left.
Acknowledges(f, again_, delay) ==
    /\ f.what = "completed" => ~again_
    /\ f.what = "rescheduled" => again_
    /\ again_ => runs[f.job] < MaxRuns /\ time + delay <= LocalEnd
    /\ ~again_ => delay = 0
    /\ OutcomeStored(f, again_, delay)

-----------------------------------------------------------------------------
(* Waking up.                                                              *)

\* wake(), with what else the same turn does to the drain.
Wake ==
    IF ~Accepting THEN UNCHANGED <<place, again>>
    ELSE IF place = "idle" THEN place' = "woken" /\ UNCHANGED again
    ELSE again' = TRUE /\ UNCHANGED place
still == <<retrying, pick, probed, soon>>

\* The drain's promise settles.
DrainEnds ==
    IF again /\ Accepting THEN place' = "woken" /\ again' = FALSE
    ELSE place' = "idle" /\ UNCHANGED again

\* _armRecoveryTimer.
RecoveryArmed == rescue' = (rescue \/ Accepting)

\* The drain throws: it ends and leaves the recovery timer.
DrainThrows ==
    /\ CallFails
    /\ RecoveryArmed
    /\ DrainEnds
    /\ UNCHANGED <<still, alarm, overlooked, restarts, time>>

\* Commit of an enqueue, with its afterCommit wake-up.
Enqueued(j, delay) ==
    /\ Accepting /\ rowStatus[j] = "unborn" /\ time + delay <= LocalEnd
    /\ rowStatus' = [rowStatus EXCEPT ![j] = "queued"]
    /\ due' = [due EXCEPT ![j] = time + delay]
    /\ Wake
    /\ UNCHANGED <<lease, runs, owned, mode, still, timers, overlooked, bounds>>

AlarmFires ==
    /\ alarm # NoFlight /\ alarm <= time
    /\ alarm' = NoFlight
    /\ Wake
    /\ UNCHANGED <<localRows, owned, mode, still, rescue, overlooked, bounds>>

RescueFires ==
    /\ rescue /\ rescue' = FALSE
    /\ Wake
    /\ UNCHANGED <<localRows, owned, mode, still, alarm, overlooked, bounds>>

-----------------------------------------------------------------------------
(* The drain.                                                              *)

Owed == {j \in LocalJobs : unacked[j] # NoFlight}

\* _ownedPerformanceCount.
OwnedCount == Cardinality(flights) + Cardinality(Owed)

DrainStarts ==
    /\ place = "woken"
    /\ place' = "retry"
    /\ retrying' = {unacked[j] : j \in Owed}
    /\ UNCHANGED <<localRows, owned, mode, again, pick, probed, soon, timers,
                   overlooked, bounds>>

\* _retryPendingAcknowledgements deletes by job id, whatever is there now.
RetryAcknowledges(f, again_, delay) ==
    /\ place = "retry" /\ f \in retrying
    /\ Acknowledges(f, again_, delay)
    /\ retrying' = retrying \ {f}
    /\ unacked' = [unacked EXCEPT ![f.job] = NoFlight]
    /\ stray' = IF unacked[f.job] \in {f, NoFlight} THEN stray
                ELSE stray \cup {f.job}
    /\ UNCHANGED <<flights, mode, place, again, pick, probed, soon,
                   timers, overlooked, bounds>>

RetryFails(f) ==
    /\ place = "retry" /\ f \in retrying
    /\ CallFails
    /\ retrying' = retrying \ {f}
    /\ RecoveryArmed
    /\ UNCHANGED <<localRows, owned, mode, place, again, pick, probed, soon, alarm,
                   overlooked, restarts, time>>

\* _armScheduledTimer up to its await.
Disarmed ==
    /\ alarm' = NoFlight
    /\ IF Accepting THEN place' = "arming" /\ UNCHANGED again ELSE DrainEnds

\* The loop's condition, and nextAvailableJob.
Probe ==
    /\ place = "probe" \/ (place = "retry" /\ retrying = {})
    /\ IF Accepting /\ OwnedCount < MaxAtOnce
       THEN /\ probed' = time
            /\ \/ /\ NextAvailable = {} /\ Disarmed
                  /\ UNCHANGED pick
               \/ \E j \in NextAvailable :
                     pick' = j /\ place' = "claim" /\ UNCHANGED <<again, alarm>>
       ELSE Disarmed /\ UNCHANGED <<pick, probed>>
    /\ UNCHANGED <<localRows, owned, mode, retrying, soon, rescue, overlooked, bounds>>

ProbeFails ==
    /\ place = "probe" \/ (place = "retry" /\ retrying = {})
    /\ Accepting /\ OwnedCount < MaxAtOnce
    /\ DrainThrows
    /\ UNCHANGED <<localRows, owned, mode>>

HandedOff(j) ==
    /\ runs' = [runs EXCEPT ![j] = @ + 1]
    /\ lease' = [lease EXCEPT ![j] = runs[j] + 1]
    /\ rowStatus' = [rowStatus EXCEPT ![j] = "handed_off"]
    /\ UNCHANGED due

\* markHandedOff, which looks again, and _startPerformance.
ClaimJob ==
    /\ place = "claim" /\ runs[pick] < MaxRuns
    /\ IF Available(pick)
       THEN /\ HandedOff(pick)
            /\ flights' = flights \cup
                  {[job |-> pick, lease |-> runs[pick] + 1, what |-> "run"]}
            /\ place' = "probe" /\ UNCHANGED <<again, alarm>>
       ELSE /\ alarm' = NoFlight
            /\ IF Accepting THEN place' = "arming" /\ again' = TRUE
                            ELSE place' = "idle" /\ again' = TRUE
            /\ UNCHANGED <<localRows, flights>>
    /\ pick' = NoFlight
    /\ UNCHANGED <<unacked, stray, mode, retrying, probed, soon, rescue, overlooked,
                   bounds>>

ClaimFails(committed) ==
    /\ place = "claim" /\ runs[pick] < MaxRuns
    /\ DrainThrows
    /\ IF committed /\ Available(pick)
       THEN HandedOff(pick) /\ stray' = stray \cup {pick}
       ELSE UNCHANGED <<localRows, stray>>
    /\ UNCHANGED <<flights, unacked, mode>>

\* nextScheduledJob.
ArmReads ==
    /\ place = "arming"
    /\ place' = "arm"
    /\ soon' = NextScheduledAt
    /\ overlooked' = {j \in LocalJobs : /\ rowStatus[j] = "queued"
                                        /\ due[j] > probed /\ due[j] <= time}
    /\ UNCHANGED <<localRows, owned, mode, again, retrying, pick, probed, timers,
                   bounds>>

ArmFails ==
    /\ place = "arming"
    /\ DrainThrows
    /\ UNCHANGED <<localRows, owned, mode>>

ArmSets ==
    /\ place = "arm"
    /\ alarm' = soon /\ soon' = NoFlight
    /\ DrainEnds
    /\ UNCHANGED <<localRows, owned, mode, retrying, pick, probed, rescue, overlooked,
                   bounds>>

-----------------------------------------------------------------------------
(* The performances.                                                       *)

Performs(f, what) ==
    /\ f \in flights /\ f.what = "run"
    /\ flights' = (flights \ {f}) \cup {[f EXCEPT !.what = what]}
    /\ UNCHANGED <<localRows, unacked, stray, mode, drain, timers, overlooked, bounds>>

\* _acknowledge succeeds; the finished performance wakes the dispatcher.
PerformanceEnds(f, again_, delay) ==
    /\ f \in flights /\ f.what # "run"
    /\ Acknowledges(f, again_, delay)
    /\ flights' = flights \ {f}
    /\ Wake
    /\ UNCHANGED <<unacked, stray, mode, still, timers, overlooked, bounds>>

\* Mutant: an acknowledgement that fails is not kept.
AcknowledgeDrops(f, committed, again_, delay) ==
    /\ f \in flights /\ f.what # "run"
    /\ CallFails
    /\ IF committed THEN Acknowledges(f, again_, delay)
       ELSE ~again_ /\ delay = 0 /\ UNCHANGED localRows
    /\ flights' = flights \ {f}
    /\ Wake
    /\ UNCHANGED <<unacked, stray, mode, still, timers, overlooked, restarts, time>>

\* It fails and is kept to be tried again, although it may have committed.
AcknowledgeFails(f, committed, again_, delay) ==
    /\ f \in flights /\ f.what # "run"
    /\ CallFails
    /\ IF committed THEN Acknowledges(f, again_, delay)
       ELSE ~again_ /\ delay = 0 /\ UNCHANGED localRows
    /\ flights' = flights \ {f}
    /\ unacked' = [unacked EXCEPT ![f.job] = f]
    /\ Wake
    /\ UNCHANGED <<stray, mode, still, timers, overlooked, restarts, time>>

-----------------------------------------------------------------------------
(* Lifecycle.                                                              *)

\* stop() up to its first await.
Stops ==
    /\ mode = "on"
    /\ mode' = "draining"
    /\ again' = FALSE /\ alarm' = NoFlight /\ rescue' = FALSE
    /\ UNCHANGED <<localRows, owned, place, still, overlooked, bounds>>

\* The drain and the performances are waited for.
StopWaits ==
    /\ mode = "draining" /\ place = "idle" /\ flights = {}
    /\ mode' = "settling"
    /\ UNCHANGED <<localRows, owned, drain, timers, overlooked, bounds>>

StopAcknowledges(j, again_, delay) ==
    /\ mode = "settling" /\ j \in Owed
    /\ Acknowledges(unacked[j], again_, delay)
    /\ unacked' = [unacked EXCEPT ![j] = NoFlight]
    /\ UNCHANGED <<flights, stray, mode, drain, timers, overlooked, bounds>>

\* stop() has returned.
Stopped ==
    /\ mode = "settling" /\ Owed = {}
    /\ mode' = "stopped"
    /\ UNCHANGED <<localRows, owned, drain, timers, overlooked, bounds>>

\* Everything in memory is gone: stop() threw and its adapter is dropped,
\* or the process died.
Forgets ==
    /\ mode # "down" /\ restarts < MaxRestarts
    /\ restarts' = restarts + 1
    /\ mode' = "down"
    /\ flights' = {} /\ unacked' = [j \in LocalJobs |-> NoFlight]
    /\ place' = "idle" /\ again' = FALSE /\ retrying' = {} /\ pick' = NoFlight
    /\ soon' = NoFlight /\ alarm' = NoFlight /\ rescue' = FALSE
    /\ UNCHANGED <<localRows, stray, probed, overlooked, failures, time>>

\* start(): recoverHandedOffJobs fails every lease left behind, then the
\* dispatcher accepts and wakes.
Starts(survivors, delay) ==
    /\ mode = "down" \/ (mode = "stopped" /\ restarts < MaxRestarts)
    /\ restarts' = IF mode = "stopped" THEN restarts + 1 ELSE restarts
    /\ time + delay <= LocalEnd
    /\ LET left == {j \in LocalJobs : rowStatus[j] = "handed_off"} IN
       /\ survivors \subseteq left
       /\ \A j \in survivors : runs[j] < MaxRuns
       /\ rowStatus' = [j \in LocalJobs |->
                          IF j \in survivors THEN "queued"
                          ELSE IF j \in left THEN "gone" ELSE rowStatus[j]]
       /\ due' = [j \in LocalJobs |->
                    IF j \in survivors THEN time + delay ELSE due[j]]
       /\ lease' = [j \in LocalJobs |-> IF j \in left THEN 0 ELSE lease[j]]
    /\ mode' = "on" /\ stray' = {} /\ overlooked' = {}
    /\ place' = "woken" /\ again' = FALSE
    /\ alarm' = NoFlight /\ rescue' = FALSE
    /\ UNCHANGED <<runs, flights, unacked, still, failures, time>>

Passes ==
    /\ time < LocalEnd /\ time' = time + 1
    /\ UNCHANGED <<localRows, owned, mode, drain, timers, overlooked, failures, restarts>>

-----------------------------------------------------------------------------
DrainSteps ==
    \/ DrainStarts \/ Probe \/ ProbeFails \/ ClaimJob \/ ArmReads \/ ArmFails \/ ArmSets
    \/ \E committed \in BOOLEAN : ClaimFails(committed)
    \/ \E f \in retrying, again_ \in BOOLEAN, delay \in LocalDelays \cup {0} :
          RetryAcknowledges(f, again_, delay)
    \/ \E f \in retrying : RetryFails(f)

PerformanceSteps ==
    \/ \E f \in flights, what \in {"completed", "rescheduled", "failed"} : Performs(f, what)
    \/ \E f \in flights, again_ \in BOOLEAN, delay \in LocalDelays \cup {0} :
          \/ PerformanceEnds(f, again_, delay)
          \/ \E committed \in BOOLEAN : AcknowledgeFails(f, committed, again_, delay)

LocalNext ==
    \/ \E j \in LocalJobs, delay \in LocalDelays : Enqueued(j, delay)
    \/ AlarmFires \/ RescueFires
    \/ DrainSteps \/ PerformanceSteps
    \/ Stops \/ StopWaits \/ Stopped \/ Forgets
    \/ \E j \in Owed, again_ \in BOOLEAN, delay \in LocalDelays \cup {0} :
          StopAcknowledges(j, again_, delay)
    \/ \E S \in SUBSET LocalJobs, delay \in LocalDelays : Starts(S, delay)
    \/ Passes

LocalSpec == LocalInit /\ [][LocalNext]_localVars

-----------------------------------------------------------------------------
(* Properties.                                                             *)

LocalTypeOK ==
    /\ rowStatus \in [LocalJobs -> {"unborn", "queued", "handed_off", "gone"}]
    /\ due \in [LocalJobs -> 0..LocalEnd]
    /\ lease \in [LocalJobs -> 0..MaxRuns] /\ runs \in [LocalJobs -> 0..MaxRuns]
    /\ flights \subseteq Flights
    /\ unacked \in [LocalJobs -> Flights \cup {NoFlight}]
    /\ mode \in {"down", "on", "draining", "settling", "stopped"}
    /\ place \in {"idle", "woken", "retry", "probe", "claim", "arming", "arm"}
    /\ again \in BOOLEAN /\ rescue \in BOOLEAN
    /\ retrying \subseteq Flights /\ pick \in LocalJobs \cup {NoFlight}
    /\ alarm \in 0..LocalEnd \cup {NoFlight} /\ soon \in 0..LocalEnd \cup {NoFlight}
    /\ stray \subseteq LocalJobs /\ overlooked \subseteq LocalJobs
    /\ place = "idle" => ~again \/ ~Accepting

\* A row that is handed off is in somebody's hands while the dispatcher
\* runs: a performance, or an acknowledgement waiting to be retried, holds
\* exactly the row's lease.  (Two ways are known to lose one until the next
\* start: a claim that commits without an answer, and an outcome that failed
\* to be acknowledged while the drain was retrying the outcome of an earlier
\* run of the job, and is deleted in its place.)
LeaseIsOwned ==
    \A j \in LocalJobs :
        rowStatus[j] = "handed_off" /\ mode # "down" =>
            \/ \E f \in flights \cup {unacked[k] : k \in Owed} :
                  f.job = j /\ f.lease = lease[j]
            \/ j \in stray

\* A job that is being performed still holds its lease: no late or repeated
\* acknowledgement of an earlier run puts it back into the queue beside the
\* run that is going on, and so no job runs twice at once.
RunningIsLeased ==
    \A f \in flights :
        f.what = "run" => /\ rowStatus[f.job] = "handed_off" /\ lease[f.job] = f.lease
                          /\ \A g \in flights : g.job = f.job => g = f

\* Performances and unacknowledged outcomes together never exceed the cap.
OwnedWithinCap == Cardinality(flights \cup {unacked[j] : j \in Owed}) <= MaxAtOnce

\* A drain will run without any further outside event.
WakeComing ==
    place # "idle" \/ rescue \/ flights # {} \/ (alarm # NoFlight /\ alarm <= time)

\* Waking, the exact timer and the recovery timer together forget no job: one
\* that could run has a drain coming, one that is not due yet a timer that
\* fires in time, whatever calls failed and whatever woke a busy drain.  (But
\* for jobs that fall due between the drain's two reads, and those whose key a
\* lost lease occupies.)
NothingForgotten ==
    Accepting => \A j \in LocalJobs \ overlooked :
        rowStatus[j] = "queued" =>
            \/ WakeComing
            \/ due[j] > time /\ alarm # NoFlight /\ alarm <= due[j]
            \/ j \in LocalKeyed /\ LocalKeyed \cap stray # {}

\* The same without the exception: every scheduled job has an exact timer.
ScheduledRuns ==
    Accepting => \A j \in LocalJobs :
        rowStatus[j] = "queued" =>
            \/ WakeComing
            \/ due[j] > time /\ alarm # NoFlight /\ alarm <= due[j]
            \/ j \in LocalKeyed /\ LocalKeyed \cap stray # {}

\* A close that returns has settled everything: nothing runs and no row is
\* left handed off.
StopSettles ==
    mode = "stopped" =>
        /\ flights = {} /\ Owed = {} /\ place = "idle"
        /\ \A j \in LocalJobs : rowStatus[j] = "handed_off" => j \in stray

\* What the in-process dispatcher promises: a lease is owned and runs under its
\* cap, no due job is forgotten, and stop() leaves nothing running.
LocalInv ==
    /\ LocalTypeOK /\ LeaseIsOwned /\ RunningIsLeased /\ OwnedWithinCap
    /\ NothingForgotten /\ StopSettles

=============================================================================
