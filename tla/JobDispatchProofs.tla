-------------------------- MODULE JobDispatchProofs --------------------------
(***************************************************************************)
(* Proofs about main's dispatcher: for every number of jobs and workers,   *)
(* every schedule of delays, and every number of failing calls, lost       *)
(* sockets and stopping workers, no wake-up of the drain is lost, a future *)
(* job has its timer, and a lease is in one pair of hands, with somebody   *)
(* left to give it back.                                                   *)
(*                                                                         *)
(* None of these is inductive.  What they need besides is what a drain     *)
(* under way knows: the timer covers the jobs that became due, or          *)
(* eligible, between its two looks at the queue only because every event   *)
(* in between pokes the drain again, and the retry it may cancel is not    *)
(* one that a recovery waits for.                                          *)
(***************************************************************************)
EXTENDS JobDispatch, WellFoundedInduction, TLAPS

-----------------------------------------------------------------------------
(* The inductive invariant.                                                *)

\* What the drain is doing, by where it is.
DrainHolds ==
    /\ pc \in {"picked", "handing", "handed", "recovering", "returning"} => picked \in Jobs
    /\ pc \in {"handing", "handed", "recovering", "returning"} => target \in Workers
    /\ pc = "handed" => ph[picked] = "pending" /\ on[picked] = target

\* A lease has a worker.
LeasesHeld == \A j \in Jobs : ph[j] # None => on[j] \in Workers

\* LeaseHasReclaimer, as far as a retry has come: once it releases leases it has
\* no recovery left to make, and the drain answers for the handoff at hand.
LostReclaimed == \A j \in lost : on[j] \in closing \/ errTimer \/ retry # "off"
RecoveriesReclaimed ==
    \A r \in recoveries : \/ errTimer \/ retry = "recover"
                          \/ pc = "recovering" /\ picked = r[1]
                          \/ pc = "returning" /\ r = <<picked, TRUE>>
Reclaimed == LostReclaimed /\ RecoveriesReclaimed

\* LeaseIsTracked, of one job.
Tracked(j) ==
    /\ st[j] = "leased" <=> ph[j] # None
    /\ ph[j] = "pending" => pc = "handed" /\ picked = j
    /\ ph[j] = "ambiguous" <=> <<j, TRUE>> \in recoveries
    /\ ph[j] \in {"sent", "running", "reporting"} => j \in lost \/ on[j] \in conn
    /\ j \in lost => ph[j] \in {"sent", "running", "reporting"}

Future(j) == st[j] = "queued" /\ at[j] > now

\* FutureJobHasTimer while the timer is being armed: the delay computed ends
\* early enough, or the drain goes round again.
TimerCovers ==
    /\ FutureJobHasTimer
    /\ pc \in {"armProbe", "armSet"} => \A j \in Jobs : Future(j) =>
          redrain \/ waking \/ (delay # None /\ looked + delay <= at[j])

\* The faults NoLostWakeup is about.
OneKindOfFault == errors = 0 \/ (cuts = 0 /\ \A w \in Workers : up[w] # "down")
\* The timer is meant for this job, or will be once it is set.
Timely(j) ==
    IF pc \in {"armProbe", "armSet"}
    THEN delay # None /\ looked < at[j] /\ looked + delay <= at[j]
    ELSE TimerFor(j)
Waiting ==
    ready # {} /\ \E j \in Jobs \ Keyed : st[j] = "queued" /\ at[j] <= now /\ ~Timely(j)

\* NoLostWakeup after the second look: what has become eligible since will
\* set a timer that is due, or has left a wake-up behind that the end of the
\* drain does not cancel.
WakeCovers ==
    OneKindOfFault /\ Waiting =>
        /\ DrainComing
        /\ pc = "armSet" => \/ redrain \/ waking \/ closing # {} \/ retry # "off"
                            \/ errTimer /\ recoveries # {}
                            \/ delay = 0

\* What there is without failing calls, and without lost sockets.
FaultsShow ==
    /\ errors = 0 => ~errTimer /\ retry = "off" /\ pc # "recovering"
    /\ cuts = 0 /\ (\A w \in Workers : up[w] # "down") => closing = {} /\ lost = {}

\* The inductive invariant.
DispatchInductive ==
    /\ TypeOK /\ DrainHolds /\ LeasesHeld /\ LeaseIsTracked /\ Reclaimed
    /\ TimerCovers /\ WakeCovers /\ FaultsShow

-----------------------------------------------------------------------------
(* Lemmas about the operators, and the effects of the steps on the rows.   *)

\* Least elements exist: the induction the proofs need.
LEMMA LeastNatural ==
    ASSUME NEW S \in SUBSET Nat, S # {}
    PROVE  \E m \in S : \A n \in S : m <= n
<1>1. PICK m \in S : \A n \in S : <<n, m>> \notin OpToRel(<, Nat)
  BY NatLessThanWellFounded, WFMin
<1>2. \A n \in S : ~(n < m)
  BY <1>1 DEF OpToRel
<1> QED  BY <1>2

\* nextScheduledJob returns a time no later than that of any future job.
LEMMA NextIsSoonest ==
    ASSUME TypeOK
    PROVE  /\ NextScheduled \in Nat \cup {None}
           /\ \A j \in Jobs : Future(j) => NextScheduled # None /\ NextScheduled <= at[j]
<1>1. FutureTimes \in SUBSET Nat
  BY DispatchAssumption DEF TypeOK, FutureTimes
<1>2. CASE FutureTimes = {}
  BY <1>2 DEF NextScheduled, FutureTimes, Future
<1>3. CASE FutureTimes # {}
  <2>1. \E m \in FutureTimes : \A n \in FutureTimes : m <= n
    BY <1>1, <1>3, LeastNatural
  <2>2. NextScheduled \in FutureTimes /\ \A n \in FutureTimes : NextScheduled <= n
    BY <1>3, <2>1 DEF NextScheduled, Min
  <2>3. \A j \in Jobs : Future(j) => at[j] \in FutureTimes
    BY DEF Future, FutureTimes
  <2> QED  BY <1>1, <2>2, <2>3, DispatchAssumption
<1> QED  BY <1>2, <1>3

\* The delay computed from it is not negative, and ends no later than any future job.
LEMMA DelayInRange ==
    ASSUME TypeOK, NextScheduled # None
    PROVE  LET d == Min({NextScheduled - now, MaxTimer}) IN
           d \in Nat /\ now + d <= NextScheduled
<1>1. NextScheduled \in Nat /\ now \in Nat /\ MaxTimer \in Nat
  BY NextIsSoonest, DispatchAssumption DEF TypeOK
<1>2. NextScheduled > now
  <2>1. FutureTimes # {} /\ FutureTimes \in SUBSET Nat
    BY DispatchAssumption DEF TypeOK, FutureTimes, NextScheduled
  <2>2. \E m \in FutureTimes : \A n \in FutureTimes : m <= n
    BY <2>1, LeastNatural
  <2>3. NextScheduled \in FutureTimes
    BY <2>1, <2>2 DEF NextScheduled, Min
  <2> QED  BY <2>3 DEF FutureTimes
<1>3. \A a, b \in Nat : Min({a, b}) \in {a, b} /\ Min({a, b}) <= a
  <2> SUFFICES ASSUME NEW a \in Nat, NEW b \in Nat
               PROVE  Min({a, b}) \in {a, b} /\ Min({a, b}) <= a
    OBVIOUS
  <2>1. \E x \in {a, b} : \A y \in {a, b} : x =< y
    OBVIOUS
  <2> QED  BY <2>1 DEF Min
<1> DEFINE m == Min({NextScheduled - now, MaxTimer})
<1>4. m \in Nat /\ m <= NextScheduled - now
  BY <1>1, <1>2, <1>3
<1> HIDE DEF m
<1>5. m \in Nat /\ now + m <= NextScheduled
  BY <1>1, <1>4
<1> QED  BY <1>5 DEF m

\* The rows of the other jobs stay as they are.
OthersKept(j) == \A k \in Jobs \ {j} : st'[k] = st[k] /\ at'[k] = at[k] /\ on'[k] = on[k] /\ ph'[k] = ph[k]

\* TypeOK in four parts: the rows, the drain, main and the workers.
RowsTyped ==
    /\ st \in [Jobs -> {"unborn", "queued", "leased", "gone"}]
    /\ at \in [Jobs -> Nat] /\ on \in [Jobs -> Workers \cup {None}]
    /\ ph \in [Jobs -> {None, "pending", "ambiguous", "sent", "running", "reporting"}]

DrainTyped ==
    /\ pc \in {"idle", "probe", "picked", "handing", "handed", "recovering",
               "returning", "armNext", "armProbe", "armSet"}
    /\ picked \in Jobs \cup {None} /\ target \in Workers \cup {None}
    /\ stale \in BOOLEAN /\ redrain \in BOOLEAN /\ errTimer \in BOOLEAN /\ waking \in BOOLEAN
    /\ timer \in Nat \cup {None} /\ delay \in Nat \cup {None}
    /\ looked \in 0..now /\ slip \in Nat
    /\ retry \in {"off", "recover", "release"}
MainTyped ==
    /\ conn \subseteq Workers /\ draining \subseteq conn /\ ready \subseteq conn
    /\ recoveries \subseteq Jobs \X BOOLEAN
    /\ lost \subseteq Jobs /\ closing \subseteq Workers
WorkersTyped ==
    /\ wire \in [Workers -> Nat] /\ goodbye \in [Workers -> BOOLEAN]
    /\ up \in [Workers -> {"up", "stopping", "down"}]
    /\ zombies \in [Workers -> Nat]
    /\ errors \in 0..MaxErrors /\ cuts \in 0..MaxCuts
    /\ returns \in 0..MaxReturns /\ now \in Nat

\* The effects of giving job j back, and of leasing it.
ReturnedNow(j) ==
    /\ RowsTyped' /\ OthersKept(j)
    /\ st'[j] = "queued" /\ at'[j] = now /\ on'[j] = None /\ ph'[j] = None
LeasedAs(j, phase) ==
    /\ RowsTyped' /\ OthersKept(j)
    /\ st'[j] = "leased" /\ at'[j] = at[j] /\ on'[j] = target /\ ph'[j] = phase

\* markReturnedToQueue, when the fence matches.
LEMMA RequeueReturns ==
    ASSUME TypeOK, NEW j \in Jobs, Requeue(j, now)
    PROVE  ReturnedNow(j)
  BY DEF TypeOK, Requeue, ReturnedNow, RowsTyped, OthersKept

\* markHandedOff, when it commits.
LEMMA LeasedLeases ==
    ASSUME TypeOK, picked \in Jobs, target \in Workers, NEW phase \in {"pending", "ambiguous"}, Leased(phase)
    PROVE  LeasedAs(picked, phase)
  BY DEF TypeOK, Leased, LeasedAs, RowsTyped, OthersKept

\* A lease given back by a handler counts its attempt, if one runs, at the worker.
LEMMA ReleaseReturns ==
    ASSUME TypeOK, LeasesHeld, NEW j \in Jobs, ReleaseHandoff(j)
    PROVE  ReturnedNow(j) /\ zombies' \in [Workers -> Nat] /\ j \in lost /\ lost' = lost \ {j}
<1>1. ReturnedNow(j) /\ j \in lost /\ lost' = lost \ {j}
  BY RequeueReturns DEF ReleaseHandoff
<1>2. CASE HoldsSlot(j)
  <2>1. on[j] \in Workers
    BY <1>2, DispatchAssumption DEF HoldsSlot, LeasesHeld
  <2>2. zombies' = [zombies EXCEPT ![on[j]] = @ + 1] /\ zombies \in [Workers -> Nat]
    BY <1>2 DEF ReleaseHandoff, Orphaned, TypeOK
  <2> QED  BY <1>1, <2>1, <2>2
<1>3. CASE ~HoldsSlot(j)
  BY <1>1, <1>3 DEF ReleaseHandoff, Orphaned, TypeOK
<1> QED  BY <1>2, <1>3

-----------------------------------------------------------------------------
(* The steps.                                                              *)

\* A pass ends in the arming of the timer, or goes round again.
LEMMA DrainProbePreserves ==
    ASSUME DispatchInductive, DrainProbe
    PROVE  DispatchInductive'
<1>1. TypeOK'
  BY DEF DispatchInductive, TypeOK, DrainProbe, PassDone, EligibleJobs, Eligible, store, local,
       drain, timers, arming, leasing, sockets, worker, bounds
<1>2. DrainHolds'
  BY DispatchAssumption DEF DispatchInductive, DrainHolds, LeaseIsTracked, TypeOK, DrainProbe,
       PassDone, EligibleJobs, Eligible, store, local, drain, timers, arming, leasing, sockets, worker,
       bounds
<1>3. LeasesHeld'
  BY DEF DispatchInductive, LeasesHeld, DrainProbe, store
<1>4. LeaseIsTracked'
  BY DEF DispatchInductive, LeaseIsTracked, DrainProbe, PassDone, EligibleJobs, Eligible, store,
       local, drain, leasing, sockets
<1>5. Reclaimed'
  BY DEF DispatchInductive, Reclaimed, LostReclaimed, RecoveriesReclaimed, DrainProbe, PassDone,
       store, local, drain, timers, arming, leasing
<1>6. TimerCovers'
  BY DEF DispatchInductive, TimerCovers, FutureJobHasTimer, TimerFor, DrainComing, Future, DrainProbe,
       PassDone, EligibleJobs, Eligible, store, drain, timers, arming, leasing, bounds
<1>7. WakeCovers'
  BY DEF DispatchInductive, WakeCovers, DrainComing, OneKindOfFault, Waiting, Timely, TimerFor,
       DrainProbe, PassDone,
       EligibleJobs, Eligible, store, drain, timers, arming, leasing, sockets, worker, bounds
<1>8. FaultsShow'
  BY DEF DispatchInductive, FaultsShow, DrainProbe, PassDone, drain, timers, arming, leasing,
       worker, bounds
<1> QED  BY <1>1, <1>2, <1>3, <1>4, <1>5, <1>6, <1>7, <1>8 DEF DispatchInductive

\* The worker chosen is no longer ready; without one the pass ends.
LEMMA DrainAdmitPreserves ==
    ASSUME DispatchInductive, DrainAdmit
    PROVE  DispatchInductive'
<1>1. TypeOK'
  BY DEF DispatchInductive, TypeOK, DrainAdmit, PassDone, EndIteration, store, local, drain,
       timers, arming, leasing, sockets, worker, bounds
<1>2. DrainHolds'
  BY DEF DispatchInductive, DrainHolds, TypeOK, DrainAdmit, PassDone, EndIteration, store, local,
       drain
<1>3. LeasesHeld'
  BY DEF DispatchInductive, LeasesHeld, DrainAdmit, store
<1>4. LeaseIsTracked'
  BY DEF DispatchInductive, LeaseIsTracked, DrainAdmit, PassDone, EndIteration, store, local,
       drain, leasing, sockets
<1>5. Reclaimed'
  BY DEF DispatchInductive, Reclaimed, LostReclaimed, RecoveriesReclaimed, DrainAdmit, PassDone,
       EndIteration, store, local, drain, timers, arming, leasing
<1>6. TimerCovers'
  BY DEF DispatchInductive, TimerCovers, FutureJobHasTimer, TimerFor, DrainComing, Future, DrainAdmit,
       PassDone, store, drain, timers, arming, leasing, bounds
<1>7. WakeCovers'
  BY DEF DispatchInductive, WakeCovers, DrainComing, OneKindOfFault, Waiting, Timely, TimerFor,
       DrainAdmit, PassDone,
       store, drain, timers, arming, leasing, sockets, worker, bounds
<1>8. FaultsShow'
  BY DEF DispatchInductive, FaultsShow, DrainAdmit, PassDone, drain, timers, arming, leasing,
       worker, bounds
<1> QED  BY <1>1, <1>2, <1>3, <1>4, <1>5, <1>6, <1>7, <1>8 DEF DispatchInductive

\* The drain holds the lease it has written, until it delivers it.
LEMMA DrainHandPreserves ==
    ASSUME DispatchInductive, DrainHand
    PROVE  DispatchInductive'
<1>1. CASE CanLease
  <2>1. /\ LeasedAs(picked, "pending")
        /\ picked \in Jobs /\ target \in Workers /\ st[picked] = "queued"
        /\ pc = "handing" /\ pc' = "handed"
        /\ UNCHANGED <<ready, redrain, local, timers, leasing, conn, draining, waking, worker, bounds>>
    BY <1>1, LeasedLeases, DispatchAssumption DEF DispatchInductive, DrainHand, CanLease, DrainHolds
  <2>2. TypeOK'
    <3>1. RowsTyped'
      BY <2>1 DEF LeasedAs, ReturnedNow
    <3>2. DrainTyped'
      BY <2>1 DEF DispatchInductive, TypeOK, DrainTyped, local, drain, timers, arming, bounds
    <3>3. MainTyped'
      BY <2>1 DEF DispatchInductive, TypeOK, MainTyped, leasing, sockets
    <3>4. WorkersTyped'
      BY <2>1 DEF DispatchInductive, TypeOK, WorkersTyped, worker, bounds
    <3> QED  BY <3>1, <3>2, <3>3, <3>4 DEF TypeOK, RowsTyped, DrainTyped, MainTyped, WorkersTyped
  <2>3. DrainHolds'
    BY <2>1 DEF DispatchInductive, DrainHolds, LeasedAs, ReturnedNow, RowsTyped, OthersKept, store,
         local, drain
  <2>4. LeasesHeld'
    BY <2>1 DEF DispatchInductive, LeasesHeld, LeasedAs, ReturnedNow, RowsTyped, OthersKept, store
  <2>5. LeaseIsTracked'
    <3> SUFFICES ASSUME NEW k \in Jobs PROVE Tracked(k)'
      BY DEF LeaseIsTracked, Tracked
    <3>1. Tracked(k)
      BY DEF DispatchInductive, LeaseIsTracked, Tracked
    <3>2. CASE k = picked
      BY <2>1, <3>1, <3>2, DispatchAssumption DEF DispatchInductive, Tracked, DrainHolds,
           LeaseIsTracked, TypeOK, LeasesHeld, LeasedAs, ReturnedNow, RowsTyped, OthersKept, store,
           local, drain, timers, arming, leasing, sockets, worker, bounds
    <3>3. CASE k # picked
      BY <2>1, <3>1, <3>3, DispatchAssumption DEF DispatchInductive, Tracked, DrainHolds,
           LeaseIsTracked, TypeOK, LeasesHeld, LeasedAs, ReturnedNow, RowsTyped, OthersKept, store,
           local, drain, timers, arming, leasing, sockets, worker, bounds
    <3> QED  BY <3>2, <3>3
  <2>6. Reclaimed'
    <3>1. LostReclaimed'
      BY <2>1, DispatchAssumption DEF DispatchInductive, Reclaimed, LostReclaimed, LeaseIsTracked,
           LeasesHeld, TypeOK, LeasedAs, ReturnedNow, RowsTyped, OthersKept, store, timers, arming,
           leasing
    <3>2. RecoveriesReclaimed'
      BY <2>1 DEF DispatchInductive, Reclaimed, RecoveriesReclaimed, LeasedAs, ReturnedNow,
           RowsTyped, OthersKept, local, drain, timers, arming, leasing
    <3> QED  BY <3>1, <3>2 DEF Reclaimed
  <2>7. TimerCovers'
    BY <2>1 DEF DispatchInductive, TimerCovers, FutureJobHasTimer, TimerFor, DrainComing, Future,
         LeasedAs,
         ReturnedNow, RowsTyped, OthersKept, store, drain, timers, arming, leasing, bounds
  <2>8. WakeCovers'
    BY <2>1 DEF DispatchInductive, WakeCovers, DrainComing, OneKindOfFault, Waiting, Timely,
         TimerFor, LeasedAs,
         ReturnedNow, RowsTyped, OthersKept, store, drain, timers, arming, leasing, sockets, worker,
         bounds
  <2>9. FaultsShow'
    BY <2>1 DEF DispatchInductive, FaultsShow, LeasedAs, ReturnedNow, RowsTyped, OthersKept, drain,
         timers, arming, leasing, worker, bounds
  <2> QED  BY <2>2, <2>3, <2>4, <2>5, <2>6, <2>7, <2>8, <2>9 DEF DispatchInductive
<1>2. CASE ~CanLease
  <2>1. /\ pc = "handing" /\ pc' = "probe" /\ ready' \subseteq conn
        /\ picked' = None /\ target' = None /\ stale' = FALSE
        /\ UNCHANGED <<store, redrain, timers, leasing, conn, draining, waking, worker, bounds>>
    BY <1>2, DispatchAssumption DEF DispatchInductive, DrainHand, Restored, TargetServes,
         EndIteration, TypeOK
  <2>2. TypeOK'
    <3>1. RowsTyped'
      BY <2>1 DEF DispatchInductive, TypeOK, RowsTyped, store
    <3>2. DrainTyped'
      BY <2>1 DEF DispatchInductive, TypeOK, DrainTyped, local, drain, timers, arming, bounds
    <3>3. MainTyped'
      BY <2>1 DEF DispatchInductive, TypeOK, MainTyped, leasing, sockets
    <3>4. WorkersTyped'
      BY <2>1 DEF DispatchInductive, TypeOK, WorkersTyped, worker, bounds
    <3> QED  BY <3>1, <3>2, <3>3, <3>4 DEF TypeOK, RowsTyped, DrainTyped, MainTyped, WorkersTyped
  <2>3. DrainHolds'
    BY <2>1 DEF DispatchInductive, DrainHolds, store, local, drain
  <2>4. LeasesHeld'
    BY <2>1 DEF DispatchInductive, LeasesHeld, store
  <2>5. LeaseIsTracked'
    BY <2>1 DEF DispatchInductive, LeaseIsTracked, store, local, drain, leasing, sockets
  <2>6. Reclaimed'
    <3>1. LostReclaimed'
      BY <2>1 DEF DispatchInductive, Reclaimed, LostReclaimed, store, timers, arming, leasing
    <3>2. RecoveriesReclaimed'
      BY <2>1 DEF DispatchInductive, Reclaimed, RecoveriesReclaimed, local, drain, timers, arming,
           leasing
    <3> QED  BY <3>1, <3>2 DEF Reclaimed
  <2>7. TimerCovers'
    BY <2>1 DEF DispatchInductive, TimerCovers, FutureJobHasTimer, TimerFor, DrainComing, Future, store,
         drain, timers, arming, leasing, bounds
  <2>8. WakeCovers'
    BY <2>1 DEF DispatchInductive, WakeCovers, DrainComing, OneKindOfFault, Waiting, Timely,
         TimerFor, store, drain,
         timers, arming, leasing, sockets, worker, bounds
  <2>9. FaultsShow'
    BY <2>1 DEF DispatchInductive, FaultsShow, drain, timers, arming, leasing, worker, bounds
  <2> QED  BY <2>2, <2>3, <2>4, <2>5, <2>6, <2>7, <2>8, <2>9 DEF DispatchInductive
<1> QED
  BY <1>1, <1>2 DEF DrainHand, CanLease

\* A handoff that threw awaits its recovery, whether or not it committed.
LEMMA DrainHandFailsPreserves ==
    ASSUME DispatchInductive, DrainHandFails
    PROVE  DispatchInductive'
<1>1. CASE CanLease /\ Leased("ambiguous") /\ recoveries' = recoveries \cup {<<picked, TRUE>>}
  <2>1. /\ LeasedAs(picked, "ambiguous")
        /\ picked \in Jobs /\ target \in Workers /\ st[picked] = "queued"
        /\ recoveries' = recoveries \cup {<<picked, TRUE>>}
        /\ pc = "handing" /\ pc' = "recovering" /\ ready' \subseteq conn /\ errors' = errors + 1 /\ errors < MaxErrors
        /\ UNCHANGED <<redrain, local, timers, lost, closing, conn, draining, waking, worker, cuts, returns, now>>
    BY <1>1, LeasedLeases, DispatchAssumption DEF DispatchInductive, DrainHandFails, DbError,
         CanLease, DrainHolds, Restored, TargetServes, TypeOK
  <2>2. <<picked, TRUE>> \in Jobs \X BOOLEAN /\ <<picked, TRUE>>[1] = picked
    BY <2>1
  <2>3. TypeOK'
    <3>1. RowsTyped'
      BY <2>1 DEF LeasedAs, ReturnedNow
    <3>2. DrainTyped'
      BY <2>1, <2>2 DEF DispatchInductive, TypeOK, DrainTyped, local, drain, timers, arming, bounds
    <3>3. MainTyped'
      BY <2>1, <2>2 DEF DispatchInductive, TypeOK, MainTyped, leasing, sockets
    <3>4. WorkersTyped'
      BY <2>1, <2>2, DispatchAssumption DEF DispatchInductive, TypeOK, WorkersTyped, worker, bounds
    <3> QED  BY <3>1, <3>2, <3>3, <3>4 DEF TypeOK, RowsTyped, DrainTyped, MainTyped, WorkersTyped
  <2>4. DrainHolds'
    BY <2>1, <2>2 DEF DispatchInductive, DrainHolds, LeasedAs, ReturnedNow, RowsTyped, OthersKept,
         store, local, drain
  <2>5. LeasesHeld'
    BY <2>1, <2>2 DEF DispatchInductive, LeasesHeld, LeasedAs, ReturnedNow, RowsTyped, OthersKept,
         store
  <2>6. LeaseIsTracked'
    <3> SUFFICES ASSUME NEW k \in Jobs PROVE Tracked(k)'
      BY DEF LeaseIsTracked, Tracked
    <3>1. Tracked(k)
      BY DEF DispatchInductive, LeaseIsTracked, Tracked
    <3>2. CASE k = picked
      BY <2>1, <2>2, <3>1, <3>2, DispatchAssumption DEF DispatchInductive, Tracked, DrainHolds,
           LeaseIsTracked, TypeOK, LeasesHeld, LeasedAs, ReturnedNow, RowsTyped, OthersKept, store,
           local, drain, timers, arming, leasing, sockets, worker, bounds
    <3>3. CASE k # picked
      BY <2>1, <2>2, <3>1, <3>3, DispatchAssumption DEF DispatchInductive, Tracked, DrainHolds,
           LeaseIsTracked, TypeOK, LeasesHeld, LeasedAs, ReturnedNow, RowsTyped, OthersKept, store,
           local, drain, timers, arming, leasing, sockets, worker, bounds
    <3> QED  BY <3>2, <3>3
  <2>7. Reclaimed'
    <3>1. LostReclaimed'
      BY <2>1, <2>2, DispatchAssumption DEF DispatchInductive, Reclaimed, LostReclaimed,
           LeaseIsTracked, LeasesHeld, TypeOK, LeasedAs, ReturnedNow, RowsTyped, OthersKept, store,
           timers, arming, leasing
    <3>2. RecoveriesReclaimed'
      BY <2>1, <2>2 DEF DispatchInductive, Reclaimed, RecoveriesReclaimed, LeasedAs, ReturnedNow,
           RowsTyped, OthersKept, local, drain, timers, arming, leasing
    <3> QED  BY <3>1, <3>2 DEF Reclaimed
  <2>8. TimerCovers'
    BY <2>1, <2>2 DEF DispatchInductive, TimerCovers, FutureJobHasTimer, TimerFor, DrainComing, Future,
         LeasedAs, ReturnedNow, RowsTyped, OthersKept, store, drain, timers, arming, leasing, bounds
  <2>9. WakeCovers'
    BY <2>1, <2>2 DEF DispatchInductive, WakeCovers, DrainComing, OneKindOfFault, Waiting, Timely,
         TimerFor,
         LeasedAs, ReturnedNow, RowsTyped, OthersKept, store, drain, timers, arming, leasing, sockets,
         worker, bounds
  <2>10. FaultsShow'
    BY <2>1, <2>2 DEF DispatchInductive, FaultsShow, TypeOK, LeasedAs, ReturnedNow, RowsTyped,
         OthersKept, drain, timers, arming, leasing, worker, bounds
  <2> QED  BY <2>3, <2>4, <2>5, <2>6, <2>7, <2>8, <2>9, <2>10 DEF DispatchInductive
<1>2. CASE UNCHANGED store /\ recoveries' = recoveries \cup {<<picked, FALSE>>}
  <2>1. /\ picked \in Jobs /\ target \in Workers
        /\ UNCHANGED store
        /\ recoveries' = recoveries \cup {<<picked, FALSE>>}
        /\ pc = "handing" /\ pc' = "recovering" /\ ready' \subseteq conn /\ errors' = errors + 1 /\ errors < MaxErrors
        /\ UNCHANGED <<redrain, local, timers, lost, closing, conn, draining, waking, worker, cuts, returns, now>>
    BY <1>2, DispatchAssumption DEF DispatchInductive, DrainHandFails, DbError, DrainHolds,
         Restored, TargetServes, TypeOK
  <2>2. <<picked, FALSE>> \in Jobs \X BOOLEAN /\ <<picked, FALSE>>[1] = picked
    BY <2>1
  <2>3. TypeOK'
    <3>1. RowsTyped'
      BY <2>1 DEF DispatchInductive, TypeOK, RowsTyped, store
    <3>2. DrainTyped'
      BY <2>1, <2>2 DEF DispatchInductive, TypeOK, DrainTyped, local, drain, timers, arming, bounds
    <3>3. MainTyped'
      BY <2>1, <2>2 DEF DispatchInductive, TypeOK, MainTyped, leasing, sockets
    <3>4. WorkersTyped'
      BY <2>1, <2>2, DispatchAssumption DEF DispatchInductive, TypeOK, WorkersTyped, worker, bounds
    <3> QED  BY <3>1, <3>2, <3>3, <3>4 DEF TypeOK, RowsTyped, DrainTyped, MainTyped, WorkersTyped
  <2>4. DrainHolds'
    BY <2>1, <2>2 DEF DispatchInductive, DrainHolds, store, local, drain
  <2>5. LeasesHeld'
    BY <2>1, <2>2 DEF DispatchInductive, LeasesHeld, store
  <2>6. LeaseIsTracked'
    BY <2>1, <2>2 DEF DispatchInductive, LeaseIsTracked, store, local, drain, leasing, sockets
  <2>7. Reclaimed'
    <3>1. LostReclaimed'
      BY <2>1, <2>2 DEF DispatchInductive, Reclaimed, LostReclaimed, store, timers, arming, leasing
    <3>2. RecoveriesReclaimed'
      BY <2>1, <2>2 DEF DispatchInductive, Reclaimed, RecoveriesReclaimed, local, drain, timers, arming,
           leasing
    <3> QED  BY <3>1, <3>2 DEF Reclaimed
  <2>8. TimerCovers'
    BY <2>1, <2>2 DEF DispatchInductive, TimerCovers, FutureJobHasTimer, TimerFor, DrainComing, Future,
         store, drain, timers, arming, leasing, bounds
  <2>9. WakeCovers'
    BY <2>1, <2>2 DEF DispatchInductive, WakeCovers, DrainComing, OneKindOfFault, Waiting, Timely,
         TimerFor, store,
         drain, timers, arming, leasing, sockets, worker, bounds
  <2>10. FaultsShow'
    BY <2>1, <2>2 DEF DispatchInductive, FaultsShow, TypeOK, drain, timers, arming, leasing, worker,
         bounds
  <2> QED  BY <2>3, <2>4, <2>5, <2>6, <2>7, <2>8, <2>9, <2>10 DEF DispatchInductive
<1> QED
  BY <1>1, <1>2 DEF DrainHandFails, CanLease

\* The drain that throws leaves its retry behind, with or without the recovery.
LEMMA DrainRecoversPreserves ==
    ASSUME DispatchInductive, DrainRecovers
    PROVE  DispatchInductive'
<1>1. CASE ph[picked] = "ambiguous" /\ Recover(picked, TRUE) /\ errors' = errors
  <2>1. /\ ReturnedNow(picked) /\ picked \in Jobs /\ ph[picked] = "ambiguous"
        /\ recoveries' = recoveries \ {<<picked, TRUE>>}
        /\ errors' = errors /\ errors # 0 /\ pc = "recovering" /\ pc' = "idle"
        /\ errTimer' /\ redrain' = redrain /\ picked' = None /\ target' = None /\ stale' = FALSE
        /\ UNCHANGED <<timer, arming, retry, lost, closing, sockets, waking, worker, cuts, returns, now>>
    BY <1>1, RequeueReturns, DispatchAssumption DEF DispatchInductive, DrainRecovers, Recover,
         DrainThrows, EndIteration, DrainHolds, FaultsShow
  <2>2. TypeOK'
    <3>1. RowsTyped'
      BY <2>1 DEF LeasedAs, ReturnedNow
    <3>2. DrainTyped'
      BY <2>1 DEF DispatchInductive, TypeOK, DrainTyped, local, drain, timers, arming, bounds
    <3>3. MainTyped'
      BY <2>1 DEF DispatchInductive, TypeOK, MainTyped, leasing, sockets
    <3>4. WorkersTyped'
      BY <2>1 DEF DispatchInductive, TypeOK, WorkersTyped, worker, bounds
    <3> QED  BY <3>1, <3>2, <3>3, <3>4 DEF TypeOK, RowsTyped, DrainTyped, MainTyped, WorkersTyped
  <2>3. DrainHolds'
    BY <2>1 DEF DispatchInductive, DrainHolds, LeasedAs, ReturnedNow, RowsTyped, OthersKept, store,
         local, drain
  <2>4. LeasesHeld'
    BY <2>1 DEF DispatchInductive, LeasesHeld, LeasedAs, ReturnedNow, RowsTyped, OthersKept, store
  <2>5. LeaseIsTracked'
    <3> SUFFICES ASSUME NEW k \in Jobs PROVE Tracked(k)'
      BY DEF LeaseIsTracked, Tracked
    <3>1. Tracked(k)
      BY DEF DispatchInductive, LeaseIsTracked, Tracked
    <3>2. CASE k = picked
      BY <2>1, <3>1, <3>2, DispatchAssumption DEF DispatchInductive, Tracked, DrainHolds,
           LeaseIsTracked, TypeOK, LeasesHeld, LeasedAs, ReturnedNow, RowsTyped, OthersKept, store,
           local, drain, timers, arming, leasing, sockets, worker, bounds
    <3>3. CASE k # picked
      BY <2>1, <3>1, <3>3, DispatchAssumption DEF DispatchInductive, Tracked, DrainHolds,
           LeaseIsTracked, TypeOK, LeasesHeld, LeasedAs, ReturnedNow, RowsTyped, OthersKept, store,
           local, drain, timers, arming, leasing, sockets, worker, bounds
    <3> QED  BY <3>2, <3>3
  <2>6. Reclaimed'
    <3>1. LostReclaimed'
      BY <2>1 DEF DispatchInductive, Reclaimed, LostReclaimed, LeasedAs, ReturnedNow, RowsTyped,
           OthersKept, store, timers, arming, leasing
    <3>2. RecoveriesReclaimed'
      BY <2>1 DEF DispatchInductive, Reclaimed, RecoveriesReclaimed, LeasedAs, ReturnedNow,
           RowsTyped, OthersKept, local, drain, timers, arming, leasing
    <3> QED  BY <3>1, <3>2 DEF Reclaimed
  <2>7. TimerCovers'
    BY <2>1 DEF DispatchInductive, TimerCovers, FutureJobHasTimer, TimerFor, DrainComing, Future,
         LeasedAs,
         ReturnedNow, RowsTyped, OthersKept, store, drain, timers, arming, leasing, bounds
  <2>8. WakeCovers'
    BY <2>1 DEF DispatchInductive, WakeCovers, DrainComing, OneKindOfFault, Waiting, Timely,
         TimerFor, LeasedAs,
         ReturnedNow, RowsTyped, OthersKept, store, drain, timers, arming, leasing, sockets, worker,
         bounds
  <2>9. FaultsShow'
    BY <2>1 DEF DispatchInductive, FaultsShow, LeasedAs, ReturnedNow, RowsTyped, OthersKept, drain,
         timers, arming, leasing, worker, bounds
  <2> QED  BY <2>2, <2>3, <2>4, <2>5, <2>6, <2>7, <2>8, <2>9 DEF DispatchInductive
<1>2. CASE ph[picked] # "ambiguous" /\ Recover(picked, FALSE) /\ errors' = errors
  <2>1. /\ UNCHANGED store /\ picked \in Jobs
        /\ recoveries' = recoveries \ {<<picked, FALSE>>}
        /\ errors' = errors /\ errors # 0 /\ pc = "recovering" /\ pc' = "idle"
        /\ errTimer' /\ redrain' = redrain /\ picked' = None /\ target' = None /\ stale' = FALSE
        /\ UNCHANGED <<timer, arming, retry, lost, closing, sockets, waking, worker, cuts, returns, now>>
    BY <1>2, DispatchAssumption DEF DispatchInductive, DrainRecovers, Recover, DrainThrows,
         EndIteration, DrainHolds, FaultsShow
  <2>2. TypeOK'
    <3>1. RowsTyped'
      BY <2>1 DEF DispatchInductive, TypeOK, RowsTyped, store
    <3>2. DrainTyped'
      BY <2>1 DEF DispatchInductive, TypeOK, DrainTyped, local, drain, timers, arming, bounds
    <3>3. MainTyped'
      BY <2>1 DEF DispatchInductive, TypeOK, MainTyped, leasing, sockets
    <3>4. WorkersTyped'
      BY <2>1 DEF DispatchInductive, TypeOK, WorkersTyped, worker, bounds
    <3> QED  BY <3>1, <3>2, <3>3, <3>4 DEF TypeOK, RowsTyped, DrainTyped, MainTyped, WorkersTyped
  <2>3. DrainHolds'
    BY <2>1 DEF DispatchInductive, DrainHolds, store, local, drain
  <2>4. LeasesHeld'
    BY <2>1 DEF DispatchInductive, LeasesHeld, store
  <2>5. LeaseIsTracked'
    BY <2>1 DEF DispatchInductive, LeaseIsTracked, store, local, drain, leasing, sockets
  <2>6. Reclaimed'
    <3>1. LostReclaimed'
      BY <2>1 DEF DispatchInductive, Reclaimed, LostReclaimed, store, timers, arming, leasing
    <3>2. RecoveriesReclaimed'
      BY <2>1 DEF DispatchInductive, Reclaimed, RecoveriesReclaimed, local, drain, timers, arming,
           leasing
    <3> QED  BY <3>1, <3>2 DEF Reclaimed
  <2>7. TimerCovers'
    BY <2>1 DEF DispatchInductive, TimerCovers, FutureJobHasTimer, TimerFor, DrainComing, Future, store,
         drain, timers, arming, leasing, bounds
  <2>8. WakeCovers'
    BY <2>1 DEF DispatchInductive, WakeCovers, DrainComing, OneKindOfFault, Waiting, Timely,
         TimerFor, store, drain,
         timers, arming, leasing, sockets, worker, bounds
  <2>9. FaultsShow'
    BY <2>1 DEF DispatchInductive, FaultsShow, drain, timers, arming, leasing, worker, bounds
  <2> QED  BY <2>2, <2>3, <2>4, <2>5, <2>6, <2>7, <2>8, <2>9 DEF DispatchInductive
<1>3. CASE DbError /\ UNCHANGED <<store, recoveries>>
  <2>1. /\ UNCHANGED <<store, recoveries>>
        /\ errors' = errors + 1 /\ errors < MaxErrors /\ pc = "recovering" /\ pc' = "idle"
        /\ errTimer' /\ redrain' = redrain /\ picked' = None /\ target' = None /\ stale' = FALSE
        /\ UNCHANGED <<timer, arming, retry, lost, closing, sockets, waking, worker, cuts, returns, now>>
    BY <1>3, DispatchAssumption DEF DispatchInductive, DrainRecovers, DbError, DrainThrows,
         EndIteration
  <2>2. TypeOK'
    <3>1. RowsTyped'
      BY <2>1 DEF DispatchInductive, TypeOK, RowsTyped, store
    <3>2. DrainTyped'
      BY <2>1 DEF DispatchInductive, TypeOK, DrainTyped, local, drain, timers, arming, bounds
    <3>3. MainTyped'
      BY <2>1 DEF DispatchInductive, TypeOK, MainTyped, leasing, sockets
    <3>4. WorkersTyped'
      BY <2>1, DispatchAssumption DEF DispatchInductive, TypeOK, WorkersTyped, worker, bounds
    <3> QED  BY <3>1, <3>2, <3>3, <3>4 DEF TypeOK, RowsTyped, DrainTyped, MainTyped, WorkersTyped
  <2>3. DrainHolds'
    BY <2>1 DEF DispatchInductive, DrainHolds, store, local, drain
  <2>4. LeasesHeld'
    BY <2>1 DEF DispatchInductive, LeasesHeld, store
  <2>5. LeaseIsTracked'
    BY <2>1 DEF DispatchInductive, LeaseIsTracked, store, local, drain, leasing, sockets
  <2>6. Reclaimed'
    <3>1. LostReclaimed'
      BY <2>1 DEF DispatchInductive, Reclaimed, LostReclaimed, store, timers, arming, leasing
    <3>2. RecoveriesReclaimed'
      BY <2>1 DEF DispatchInductive, Reclaimed, RecoveriesReclaimed, local, drain, timers, arming,
           leasing
    <3> QED  BY <3>1, <3>2 DEF Reclaimed
  <2>7. TimerCovers'
    BY <2>1 DEF DispatchInductive, TimerCovers, FutureJobHasTimer, TimerFor, DrainComing, Future, store,
         drain, timers, arming, leasing, bounds
  <2>8. WakeCovers'
    BY <2>1 DEF DispatchInductive, WakeCovers, DrainComing, OneKindOfFault, Waiting, Timely,
         TimerFor, store, drain,
         timers, arming, leasing, sockets, worker, bounds
  <2>9. FaultsShow'
    BY <2>1 DEF DispatchInductive, FaultsShow, TypeOK, drain, timers, arming, leasing, worker, bounds
  <2> QED  BY <2>2, <2>3, <2>4, <2>5, <2>6, <2>7, <2>8, <2>9 DEF DispatchInductive
<1> QED
  BY <1>1, <1>2, <1>3 DEF DrainRecovers

\* The lease enters the map of an open socket, or awaits its return.
LEMMA DrainDeliverPreserves ==
    ASSUME DispatchInductive, DrainDeliver
    PROVE  DispatchInductive'
<1>1. CASE TargetServes
  <2>1. /\ picked \in Jobs /\ ph[picked] = "pending" /\ on[picked] = target /\ target \in conn
        /\ RowsTyped' /\ OthersKept(picked)
        /\ ph'[picked] = "sent" /\ st'[picked] = st[picked] /\ at'[picked] = at[picked] /\ on'[picked] = on[picked]
        /\ pc = "handed" /\ pc' = "probe" /\ picked' = None /\ target' = None /\ stale' = FALSE /\ recoveries' = recoveries
        /\ UNCHANGED <<redrain, timers, lost, closing, sockets, waking, worker, bounds>>
    BY <1>1, DispatchAssumption DEF DispatchInductive, DrainDeliver, TargetServes, EndIteration,
         DrainHolds, TypeOK, RowsTyped, OthersKept
  <2>2. TypeOK'
    <3>1. RowsTyped'
      BY <2>1 DEF LeasedAs, ReturnedNow
    <3>2. DrainTyped'
      BY <2>1 DEF DispatchInductive, TypeOK, DrainTyped, local, drain, timers, arming, bounds
    <3>3. MainTyped'
      BY <2>1 DEF DispatchInductive, TypeOK, MainTyped, leasing, sockets
    <3>4. WorkersTyped'
      BY <2>1 DEF DispatchInductive, TypeOK, WorkersTyped, worker, bounds
    <3> QED  BY <3>1, <3>2, <3>3, <3>4 DEF TypeOK, RowsTyped, DrainTyped, MainTyped, WorkersTyped
  <2>3. DrainHolds'
    BY <2>1 DEF DispatchInductive, DrainHolds, LeasedAs, ReturnedNow, RowsTyped, OthersKept, store,
         local, drain
  <2>4. LeasesHeld'
    BY <2>1 DEF DispatchInductive, LeasesHeld, TypeOK, LeasedAs, ReturnedNow, RowsTyped,
         OthersKept, store
  <2>5. LeaseIsTracked'
    <3> SUFFICES ASSUME NEW k \in Jobs PROVE Tracked(k)'
      BY DEF LeaseIsTracked, Tracked
    <3>1. Tracked(k)
      BY DEF DispatchInductive, LeaseIsTracked, Tracked
    <3>2. CASE k = picked
      BY <2>1, <3>1, <3>2, DispatchAssumption DEF DispatchInductive, Tracked, DrainHolds,
           LeaseIsTracked, TypeOK, LeasesHeld, LeasedAs, ReturnedNow, RowsTyped, OthersKept, store,
           local, drain, timers, arming, leasing, sockets, worker, bounds
    <3>3. CASE k # picked
      BY <2>1, <3>1, <3>3, DispatchAssumption DEF DispatchInductive, Tracked, DrainHolds,
           LeaseIsTracked, TypeOK, LeasesHeld, LeasedAs, ReturnedNow, RowsTyped, OthersKept, store,
           local, drain, timers, arming, leasing, sockets, worker, bounds
    <3> QED  BY <3>2, <3>3
  <2>6. Reclaimed'
    <3>1. LostReclaimed'
      BY <2>1 DEF DispatchInductive, Reclaimed, LostReclaimed, TypeOK, LeasedAs, ReturnedNow,
           RowsTyped, OthersKept, store, timers, arming, leasing
    <3>2. RecoveriesReclaimed'
      BY <2>1 DEF DispatchInductive, Reclaimed, RecoveriesReclaimed, LeasedAs, ReturnedNow,
           RowsTyped, OthersKept, local, drain, timers, arming, leasing
    <3> QED  BY <3>1, <3>2 DEF Reclaimed
  <2>7. TimerCovers'
    BY <2>1 DEF DispatchInductive, TimerCovers, FutureJobHasTimer, TimerFor, DrainComing, Future,
         LeasedAs,
         ReturnedNow, RowsTyped, OthersKept, store, drain, timers, arming, leasing, bounds
  <2>8. WakeCovers'
    BY <2>1 DEF DispatchInductive, WakeCovers, DrainComing, OneKindOfFault, Waiting, Timely,
         TimerFor, LeasedAs,
         ReturnedNow, RowsTyped, OthersKept, store, drain, timers, arming, leasing, sockets, worker,
         bounds
  <2>9. FaultsShow'
    BY <2>1 DEF DispatchInductive, FaultsShow, LeasedAs, ReturnedNow, RowsTyped, OthersKept, drain,
         timers, arming, leasing, worker, bounds
  <2> QED  BY <2>2, <2>3, <2>4, <2>5, <2>6, <2>7, <2>8, <2>9 DEF DispatchInductive
<1>2. CASE ~TargetServes
  <2>1. /\ picked \in Jobs /\ ph[picked] = "pending" /\ on[picked] = target
        /\ RowsTyped' /\ OthersKept(picked)
        /\ ph'[picked] = "ambiguous" /\ st'[picked] = st[picked] /\ at'[picked] = at[picked] /\ on'[picked] = on[picked]
        /\ pc = "handed" /\ pc' = "returning" /\ recoveries' = recoveries \cup {<<picked, TRUE>>}
        /\ UNCHANGED local
        /\ UNCHANGED <<redrain, timers, lost, closing, sockets, waking, worker, bounds>>
    BY <1>2, DispatchAssumption DEF DispatchInductive, DrainDeliver, DrainHolds, TypeOK, RowsTyped,
         OthersKept
  <2>2. <<picked, TRUE>> \in Jobs \X BOOLEAN /\ <<picked, TRUE>>[1] = picked
    BY <2>1
  <2>3. TypeOK'
    <3>1. RowsTyped'
      BY <2>1 DEF LeasedAs, ReturnedNow
    <3>2. DrainTyped'
      BY <2>1, <2>2 DEF DispatchInductive, TypeOK, DrainTyped, local, drain, timers, arming, bounds
    <3>3. MainTyped'
      BY <2>1, <2>2 DEF DispatchInductive, TypeOK, MainTyped, leasing, sockets
    <3>4. WorkersTyped'
      BY <2>1, <2>2 DEF DispatchInductive, TypeOK, WorkersTyped, worker, bounds
    <3> QED  BY <3>1, <3>2, <3>3, <3>4 DEF TypeOK, RowsTyped, DrainTyped, MainTyped, WorkersTyped
  <2>4. DrainHolds'
    BY <2>1, <2>2 DEF DispatchInductive, DrainHolds, LeasedAs, ReturnedNow, RowsTyped, OthersKept,
         store, local, drain
  <2>5. LeasesHeld'
    BY <2>1, <2>2, DispatchAssumption DEF DispatchInductive, LeasesHeld, DrainHolds,
         LeaseIsTracked, TypeOK, LeasedAs, ReturnedNow, RowsTyped, OthersKept, store
  <2>6. LeaseIsTracked'
    <3> SUFFICES ASSUME NEW k \in Jobs PROVE Tracked(k)'
      BY DEF LeaseIsTracked, Tracked
    <3>1. Tracked(k)
      BY DEF DispatchInductive, LeaseIsTracked, Tracked
    <3>2. CASE k = picked
      BY <2>1, <2>2, <3>1, <3>2, DispatchAssumption DEF DispatchInductive, Tracked, DrainHolds,
           LeaseIsTracked, TypeOK, LeasesHeld, LeasedAs, ReturnedNow, RowsTyped, OthersKept, store,
           local, drain, timers, arming, leasing, sockets, worker, bounds
    <3>3. CASE k # picked
      BY <2>1, <2>2, <3>1, <3>3, DispatchAssumption DEF DispatchInductive, Tracked, DrainHolds,
           LeaseIsTracked, TypeOK, LeasesHeld, LeasedAs, ReturnedNow, RowsTyped, OthersKept, store,
           local, drain, timers, arming, leasing, sockets, worker, bounds
    <3> QED  BY <3>2, <3>3
  <2>7. Reclaimed'
    <3>1. LostReclaimed'
      BY <2>1, <2>2 DEF DispatchInductive, Reclaimed, LostReclaimed, TypeOK, LeasedAs, ReturnedNow,
           RowsTyped, OthersKept, store, timers, arming, leasing
    <3>2. RecoveriesReclaimed'
      BY <2>1, <2>2 DEF DispatchInductive, Reclaimed, RecoveriesReclaimed, LeasedAs, ReturnedNow,
           RowsTyped, OthersKept, local, drain, timers, arming, leasing
    <3> QED  BY <3>1, <3>2 DEF Reclaimed
  <2>8. TimerCovers'
    BY <2>1, <2>2 DEF DispatchInductive, TimerCovers, FutureJobHasTimer, TimerFor, DrainComing, Future,
         LeasedAs, ReturnedNow, RowsTyped, OthersKept, store, drain, timers, arming, leasing, bounds
  <2>9. WakeCovers'
    BY <2>1, <2>2 DEF DispatchInductive, WakeCovers, DrainComing, OneKindOfFault, Waiting, Timely,
         TimerFor,
         LeasedAs, ReturnedNow, RowsTyped, OthersKept, store, drain, timers, arming, leasing, sockets,
         worker, bounds
  <2>10. FaultsShow'
    BY <2>1, <2>2 DEF DispatchInductive, FaultsShow, LeasedAs, ReturnedNow, RowsTyped, OthersKept,
         drain, timers, arming, leasing, worker, bounds
  <2> QED  BY <2>3, <2>4, <2>5, <2>6, <2>7, <2>8, <2>9, <2>10 DEF DispatchInductive
<1> QED
  BY <1>1, <1>2 DEF DrainDeliver

\* The lease goes back and the drain goes round again, or throws.
LEMMA DrainReturnsPreserves ==
    ASSUME DispatchInductive, DrainReturns
    PROVE  DispatchInductive'
<1>1. CASE ph[picked] = "ambiguous" /\ Recover(picked, TRUE) /\ pc' = "probe" /\ redrain' = TRUE /\ UNCHANGED <<errTimer, errors>>
  <2>1. /\ ReturnedNow(picked) /\ picked \in Jobs /\ ph[picked] = "ambiguous"
        /\ recoveries' = recoveries \ {<<picked, TRUE>>}
        /\ pc = "returning" /\ pc' = "probe" /\ redrain' = TRUE /\ UNCHANGED <<errTimer, errors>>
        /\ picked' = None /\ target' = None /\ stale' = FALSE
        /\ UNCHANGED <<timer, arming, retry, lost, closing, sockets, waking, worker, cuts, returns, now>>
    BY <1>1, RequeueReturns, DispatchAssumption DEF DispatchInductive, DrainReturns, Recover,
         EndIteration, DrainHolds
  <2>2. TypeOK'
    <3>1. RowsTyped'
      BY <2>1 DEF LeasedAs, ReturnedNow
    <3>2. DrainTyped'
      BY <2>1 DEF DispatchInductive, TypeOK, DrainTyped, local, drain, timers, arming, bounds
    <3>3. MainTyped'
      BY <2>1 DEF DispatchInductive, TypeOK, MainTyped, leasing, sockets
    <3>4. WorkersTyped'
      BY <2>1 DEF DispatchInductive, TypeOK, WorkersTyped, worker, bounds
    <3> QED  BY <3>1, <3>2, <3>3, <3>4 DEF TypeOK, RowsTyped, DrainTyped, MainTyped, WorkersTyped
  <2>3. DrainHolds'
    BY <2>1 DEF DispatchInductive, DrainHolds, LeasedAs, ReturnedNow, RowsTyped, OthersKept, store,
         local, drain
  <2>4. LeasesHeld'
    BY <2>1 DEF DispatchInductive, LeasesHeld, LeasedAs, ReturnedNow, RowsTyped, OthersKept, store
  <2>5. LeaseIsTracked'
    <3> SUFFICES ASSUME NEW k \in Jobs PROVE Tracked(k)'
      BY DEF LeaseIsTracked, Tracked
    <3>1. Tracked(k)
      BY DEF DispatchInductive, LeaseIsTracked, Tracked
    <3>2. CASE k = picked
      BY <2>1, <3>1, <3>2, DispatchAssumption DEF DispatchInductive, Tracked, DrainHolds,
           LeaseIsTracked, TypeOK, LeasesHeld, LeasedAs, ReturnedNow, RowsTyped, OthersKept, store,
           local, drain, timers, arming, leasing, sockets, worker, bounds
    <3>3. CASE k # picked
      BY <2>1, <3>1, <3>3, DispatchAssumption DEF DispatchInductive, Tracked, DrainHolds,
           LeaseIsTracked, TypeOK, LeasesHeld, LeasedAs, ReturnedNow, RowsTyped, OthersKept, store,
           local, drain, timers, arming, leasing, sockets, worker, bounds
    <3> QED  BY <3>2, <3>3
  <2>6. Reclaimed'
    <3>1. LostReclaimed'
      BY <2>1, DispatchAssumption DEF DispatchInductive, Reclaimed, LostReclaimed, LeaseIsTracked,
           LeasesHeld, TypeOK, LeasedAs, ReturnedNow, RowsTyped, OthersKept, store, timers, arming,
           leasing
    <3>2. RecoveriesReclaimed'
      BY <2>1 DEF DispatchInductive, Reclaimed, RecoveriesReclaimed, LeasedAs, ReturnedNow,
           RowsTyped, OthersKept, local, drain, timers, arming, leasing
    <3> QED  BY <3>1, <3>2 DEF Reclaimed
  <2>7. TimerCovers'
    BY <2>1 DEF DispatchInductive, TimerCovers, FutureJobHasTimer, TimerFor, DrainComing, Future,
         LeasedAs,
         ReturnedNow, RowsTyped, OthersKept, store, drain, timers, arming, leasing, bounds
  <2>8. WakeCovers'
    BY <2>1 DEF DispatchInductive, WakeCovers, DrainComing, OneKindOfFault, Waiting, Timely,
         TimerFor, LeasedAs,
         ReturnedNow, RowsTyped, OthersKept, store, drain, timers, arming, leasing, sockets, worker,
         bounds
  <2>9. FaultsShow'
    BY <2>1 DEF DispatchInductive, FaultsShow, LeasedAs, ReturnedNow, RowsTyped, OthersKept, drain,
         timers, arming, leasing, worker, bounds
  <2> QED  BY <2>2, <2>3, <2>4, <2>5, <2>6, <2>7, <2>8, <2>9 DEF DispatchInductive
<1>2. CASE ph[picked] # "ambiguous" /\ UNCHANGED <<store, recoveries>> /\ pc' = "probe" /\ redrain' = TRUE /\ UNCHANGED <<errTimer, errors>>
  <2>1. /\ picked \in Jobs /\ <<picked, TRUE>> \notin recoveries /\ UNCHANGED <<store, recoveries>>
        /\ pc = "returning" /\ pc' = "probe" /\ redrain' = TRUE /\ UNCHANGED <<errTimer, errors>>
        /\ picked' = None /\ target' = None /\ stale' = FALSE
        /\ UNCHANGED <<timer, arming, retry, lost, closing, sockets, waking, worker, cuts, returns, now>>
    BY <1>2, DispatchAssumption DEF DispatchInductive, DrainReturns, EndIteration, DrainHolds,
         LeaseIsTracked
  <2>2. TypeOK'
    <3>1. RowsTyped'
      BY <2>1 DEF DispatchInductive, TypeOK, RowsTyped, store
    <3>2. DrainTyped'
      BY <2>1 DEF DispatchInductive, TypeOK, DrainTyped, local, drain, timers, arming, bounds
    <3>3. MainTyped'
      BY <2>1 DEF DispatchInductive, TypeOK, MainTyped, leasing, sockets
    <3>4. WorkersTyped'
      BY <2>1 DEF DispatchInductive, TypeOK, WorkersTyped, worker, bounds
    <3> QED  BY <3>1, <3>2, <3>3, <3>4 DEF TypeOK, RowsTyped, DrainTyped, MainTyped, WorkersTyped
  <2>3. DrainHolds'
    BY <2>1 DEF DispatchInductive, DrainHolds, store, local, drain
  <2>4. LeasesHeld'
    BY <2>1 DEF DispatchInductive, LeasesHeld, store
  <2>5. LeaseIsTracked'
    BY <2>1 DEF DispatchInductive, LeaseIsTracked, store, local, drain, leasing, sockets
  <2>6. Reclaimed'
    <3>1. LostReclaimed'
      BY <2>1 DEF DispatchInductive, Reclaimed, LostReclaimed, store, timers, arming, leasing
    <3>2. RecoveriesReclaimed'
      BY <2>1 DEF DispatchInductive, Reclaimed, RecoveriesReclaimed, local, drain, timers, arming,
           leasing
    <3> QED  BY <3>1, <3>2 DEF Reclaimed
  <2>7. TimerCovers'
    BY <2>1 DEF DispatchInductive, TimerCovers, FutureJobHasTimer, TimerFor, DrainComing, Future, store,
         drain, timers, arming, leasing, bounds
  <2>8. WakeCovers'
    BY <2>1 DEF DispatchInductive, WakeCovers, DrainComing, OneKindOfFault, Waiting, Timely,
         TimerFor, store, drain,
         timers, arming, leasing, sockets, worker, bounds
  <2>9. FaultsShow'
    BY <2>1 DEF DispatchInductive, FaultsShow, drain, timers, arming, leasing, worker, bounds
  <2> QED  BY <2>2, <2>3, <2>4, <2>5, <2>6, <2>7, <2>8, <2>9 DEF DispatchInductive
<1>3. CASE DbError /\ DrainThrows /\ UNCHANGED <<store, recoveries>>
  <2>1. /\ UNCHANGED <<store, recoveries>>
        /\ errors' = errors + 1 /\ errors < MaxErrors /\ pc = "returning" /\ pc' = "idle"
        /\ errTimer' /\ redrain' = redrain
        /\ picked' = None /\ target' = None /\ stale' = FALSE
        /\ UNCHANGED <<timer, arming, retry, lost, closing, sockets, waking, worker, cuts, returns, now>>
    BY <1>3, DispatchAssumption DEF DispatchInductive, DrainReturns, DbError, DrainThrows,
         EndIteration
  <2>2. TypeOK'
    <3>1. RowsTyped'
      BY <2>1 DEF DispatchInductive, TypeOK, RowsTyped, store
    <3>2. DrainTyped'
      BY <2>1 DEF DispatchInductive, TypeOK, DrainTyped, local, drain, timers, arming, bounds
    <3>3. MainTyped'
      BY <2>1 DEF DispatchInductive, TypeOK, MainTyped, leasing, sockets
    <3>4. WorkersTyped'
      BY <2>1, DispatchAssumption DEF DispatchInductive, TypeOK, WorkersTyped, worker, bounds
    <3> QED  BY <3>1, <3>2, <3>3, <3>4 DEF TypeOK, RowsTyped, DrainTyped, MainTyped, WorkersTyped
  <2>3. DrainHolds'
    BY <2>1 DEF DispatchInductive, DrainHolds, store, local, drain
  <2>4. LeasesHeld'
    BY <2>1 DEF DispatchInductive, LeasesHeld, store
  <2>5. LeaseIsTracked'
    BY <2>1 DEF DispatchInductive, LeaseIsTracked, store, local, drain, leasing, sockets
  <2>6. Reclaimed'
    <3>1. LostReclaimed'
      BY <2>1 DEF DispatchInductive, Reclaimed, LostReclaimed, store, timers, arming, leasing
    <3>2. RecoveriesReclaimed'
      BY <2>1 DEF DispatchInductive, Reclaimed, RecoveriesReclaimed, local, drain, timers, arming,
           leasing
    <3> QED  BY <3>1, <3>2 DEF Reclaimed
  <2>7. TimerCovers'
    BY <2>1 DEF DispatchInductive, TimerCovers, FutureJobHasTimer, TimerFor, DrainComing, Future, store,
         drain, timers, arming, leasing, bounds
  <2>8. WakeCovers'
    BY <2>1 DEF DispatchInductive, WakeCovers, DrainComing, OneKindOfFault, Waiting, Timely,
         TimerFor, store, drain,
         timers, arming, leasing, sockets, worker, bounds
  <2>9. FaultsShow'
    BY <2>1 DEF DispatchInductive, FaultsShow, TypeOK, drain, timers, arming, leasing, worker, bounds
  <2> QED  BY <2>2, <2>3, <2>4, <2>5, <2>6, <2>7, <2>8, <2>9 DEF DispatchInductive
<1> QED
  BY <1>1, <1>2, <1>3 DEF DrainReturns

\* The soonest future job is read: no other is due before it.
LEMMA ArmNextPreserves ==
    ASSUME DispatchInductive, ArmNext
    PROVE  DispatchInductive'
<1>1. /\ pc = "armNext" /\ pc' = "armProbe" /\ timer' = None
      /\ delay' \in Nat \cup {None} /\ looked' = now
      /\ \A j \in Jobs : Future(j) => delay' # None /\ looked' + delay' <= at[j]
      /\ UNCHANGED <<store, redrain, local, slip, errTimer, retry, leasing, sockets, waking, worker, bounds>>
  <2>1. /\ UNCHANGED <<store, redrain, local, slip, errTimer, retry, leasing, sockets, waking, worker, bounds>>
        /\ pc = "armNext" /\ pc' = "armProbe" /\ timer' = None /\ looked' = now
        /\ delay' = IF NextScheduled = None THEN None ELSE Min({NextScheduled - now, MaxTimer})
    BY DEF ArmNext
  <2>2. TypeOK /\ now \in Nat
    BY DEF DispatchInductive, TypeOK
  <2>3. CASE NextScheduled = None
    BY <2>1, <2>2, <2>3, NextIsSoonest
  <2>4. CASE NextScheduled # None
    <3>1. delay' \in Nat /\ now + delay' <= NextScheduled
      BY <2>1, <2>2, <2>4, DelayInRange
    <3>2. \A j \in Jobs : at[j] \in Nat
      BY <2>2 DEF TypeOK
    <3>3. \A j \in Jobs : Future(j) => NextScheduled <= at[j] /\ NextScheduled \in Nat
      BY <2>2, <2>4, NextIsSoonest
    <3>4. looked' = now /\ delay' # None
      BY <2>1, <3>1, DispatchAssumption
    <3>5. \A j \in Jobs : Future(j) => now + delay' <= at[j]
      BY <2>2, <3>1, <3>2, <3>3
    <3> QED  BY <2>1, <3>1, <3>4, <3>5
  <2> QED  BY <2>3, <2>4
<1>2. TypeOK'
  <2>1. RowsTyped'
    BY <1>1 DEF DispatchInductive, TypeOK, RowsTyped, store
  <2>2. DrainTyped'
    BY <1>1 DEF DispatchInductive, TypeOK, DrainTyped, local, drain, timers, arming, bounds
  <2>3. MainTyped'
    BY <1>1 DEF DispatchInductive, TypeOK, MainTyped, leasing, sockets
  <2>4. WorkersTyped'
    BY <1>1 DEF DispatchInductive, TypeOK, WorkersTyped, worker, bounds
  <2> QED  BY <2>1, <2>2, <2>3, <2>4 DEF TypeOK, RowsTyped, DrainTyped, MainTyped, WorkersTyped
<1>3. DrainHolds'
  BY <1>1 DEF DispatchInductive, DrainHolds, store, local, drain
<1>4. LeasesHeld'
  BY <1>1 DEF DispatchInductive, LeasesHeld, store
<1>5. LeaseIsTracked'
  BY <1>1 DEF DispatchInductive, LeaseIsTracked, store, local, drain, leasing, sockets
<1>6. Reclaimed'
  <2>1. LostReclaimed'
    BY <1>1 DEF DispatchInductive, Reclaimed, LostReclaimed, store, timers, arming, leasing
  <2>2. RecoveriesReclaimed'
    BY <1>1 DEF DispatchInductive, Reclaimed, RecoveriesReclaimed, local, drain, timers, arming, leasing
  <2> QED  BY <2>1, <2>2 DEF Reclaimed
<1>7. TimerCovers'
  BY <1>1 DEF DispatchInductive, TimerCovers, FutureJobHasTimer, TimerFor, DrainComing, Future,
       store, drain,
       timers, arming, leasing, bounds
<1>8. WakeCovers'
  BY <1>1 DEF DispatchInductive, WakeCovers, DrainComing, OneKindOfFault, Waiting, Timely, TimerFor,
       store, drain,
       timers, arming, leasing, sockets, worker, bounds
<1>9. FaultsShow'
  BY <1>1 DEF DispatchInductive, FaultsShow, drain, timers, arming, leasing, worker, bounds
<1> QED  BY <1>2, <1>3, <1>4, <1>5, <1>6, <1>7, <1>8, <1>9 DEF DispatchInductive

\* The second look finds what has become eligible since the first.
LEMMA ArmProbePreserves ==
    ASSUME DispatchInductive, ArmProbe
    PROVE  DispatchInductive'
<1>1. /\ pc = "armProbe" /\ pc' = "armSet" /\ delay' \in {delay, 0}
      /\ Waiting => delay' = 0
      /\ UNCHANGED <<store, redrain, local, timer, looked, slip, errTimer, retry, leasing, sockets, waking, worker, bounds>>
  BY DispatchAssumption DEF DispatchInductive, ArmProbe, EligibleJobs, Eligible, KeyHasRoom,
       Waiting, Timely, TimerFor
<1>2. TypeOK'
  <2>1. RowsTyped'
    BY <1>1 DEF DispatchInductive, TypeOK, RowsTyped, store
  <2>2. DrainTyped'
    BY <1>1 DEF DispatchInductive, TypeOK, DrainTyped, local, drain, timers, arming, bounds
  <2>3. MainTyped'
    BY <1>1 DEF DispatchInductive, TypeOK, MainTyped, leasing, sockets
  <2>4. WorkersTyped'
    BY <1>1 DEF DispatchInductive, TypeOK, WorkersTyped, worker, bounds
  <2> QED  BY <2>1, <2>2, <2>3, <2>4 DEF TypeOK, RowsTyped, DrainTyped, MainTyped, WorkersTyped
<1>3. DrainHolds'
  BY <1>1 DEF DispatchInductive, DrainHolds, store, local, drain
<1>4. LeasesHeld'
  BY <1>1 DEF DispatchInductive, LeasesHeld, store
<1>5. LeaseIsTracked'
  BY <1>1 DEF DispatchInductive, LeaseIsTracked, store, local, drain, leasing, sockets
<1>6. Reclaimed'
  <2>1. LostReclaimed'
    BY <1>1 DEF DispatchInductive, Reclaimed, LostReclaimed, store, timers, arming, leasing
  <2>2. RecoveriesReclaimed'
    BY <1>1 DEF DispatchInductive, Reclaimed, RecoveriesReclaimed, local, drain, timers, arming, leasing
  <2> QED  BY <2>1, <2>2 DEF Reclaimed
<1>7. TimerCovers'
  BY <1>1, DispatchAssumption DEF DispatchInductive, TimerCovers, FutureJobHasTimer, TimerFor,
       DrainComing,
       Future, Reclaimed, LostReclaimed, RecoveriesReclaimed, TypeOK, store, drain, timers, arming,
       leasing, bounds
<1>8. WakeCovers'
  BY <1>1, DispatchAssumption DEF DispatchInductive, WakeCovers, DrainComing, OneKindOfFault,
       Waiting, Timely, TimerFor, TimerCovers, FutureJobHasTimer, Future, FaultsShow, TypeOK, store, drain, timers, arming,
       leasing, sockets, worker, bounds
<1>9. FaultsShow'
  BY <1>1 DEF DispatchInductive, FaultsShow, drain, timers, arming, leasing, worker, bounds
<1> QED  BY <1>2, <1>3, <1>4, <1>5, <1>6, <1>7, <1>8, <1>9 DEF DispatchInductive

\* The timer set covers what was read; what came later has poked the drain, and
\* what waits for the retry has kept it armed.
LEMMA ArmSetPreserves ==
    ASSUME DispatchInductive, ArmSet
    PROVE  DispatchInductive'
<1>1. /\ pc = "armSet" /\ delay' = None /\ slip' = now - looked
      /\ errTimer' = IF recoveries # {} \/ lost # {} THEN errTimer ELSE FALSE
      /\ IF redrain THEN pc' = "probe" /\ redrain' = FALSE ELSE pc' = "idle" /\ redrain' = redrain
      /\ timer' = IF delay = None THEN None ELSE now + delay
      /\ UNCHANGED <<store, local, looked, retry, leasing, sockets, waking, worker, bounds>>
  BY DispatchAssumption DEF DispatchInductive, ArmSet, ClearErrorRetryTimer, DrainDone
<1>2. TypeOK'
  <2>1. RowsTyped'
    BY <1>1 DEF DispatchInductive, TypeOK, RowsTyped, store
  <2>2. DrainTyped'
    <3>1. now \in Nat /\ looked \in 0..now /\ delay \in Nat \cup {None} /\ now' = now /\ looked' = looked
      BY <1>1 DEF DispatchInductive, TypeOK, bounds
    <3>2. slip' \in Nat /\ timer' \in Nat \cup {None} /\ looked' \in 0..now' /\ delay' \in Nat \cup {None}
      BY <1>1, <3>1
    <3> QED
      BY <1>1, <3>2 DEF DispatchInductive, TypeOK, DrainTyped, local
  <2>3. MainTyped'
    BY <1>1 DEF DispatchInductive, TypeOK, MainTyped, leasing, sockets
  <2>4. WorkersTyped'
    BY <1>1 DEF DispatchInductive, TypeOK, WorkersTyped, worker, bounds
  <2> QED  BY <2>1, <2>2, <2>3, <2>4 DEF TypeOK, RowsTyped, DrainTyped, MainTyped, WorkersTyped
<1>3. DrainHolds'
  BY <1>1 DEF DispatchInductive, DrainHolds, store, local, drain
<1>4. LeasesHeld'
  BY <1>1 DEF DispatchInductive, LeasesHeld, store
<1>5. LeaseIsTracked'
  BY <1>1 DEF DispatchInductive, LeaseIsTracked, store, local, drain, leasing, sockets
<1>6. Reclaimed'
  <2>1. LostReclaimed'
    BY <1>1 DEF DispatchInductive, Reclaimed, LostReclaimed, store, timers, arming, leasing
  <2>2. RecoveriesReclaimed'
    BY <1>1 DEF DispatchInductive, Reclaimed, RecoveriesReclaimed, local, drain, timers, arming, leasing
  <2> QED  BY <2>1, <2>2 DEF Reclaimed
<1>7. TimerCovers'
  BY <1>1, DispatchAssumption DEF DispatchInductive, TimerCovers, FutureJobHasTimer, TimerFor,
       DrainComing,
       Future, Reclaimed, LostReclaimed, RecoveriesReclaimed, TypeOK, store, drain, timers, arming,
       leasing, bounds
<1>8. WakeCovers'
  <2>1. \A j \in Jobs : Timely(j) => TimerFor(j)'
    <3>1. looked \in Nat /\ now \in Nat /\ looked <= now /\ delay \in Nat \cup {None}
      BY DEF DispatchInductive, TypeOK
    <3> SUFFICES ASSUME NEW j \in Jobs, Timely(j) PROVE TimerFor(j)'
      OBVIOUS
    <3>2. delay \in Nat /\ looked < at[j] /\ looked + delay <= at[j] /\ at[j] \in Nat
      BY <1>1, <3>1 DEF Timely, DispatchInductive, TypeOK
    <3>3. timer' = now + delay /\ timer' # None /\ slip' = now - looked /\ at' = at /\ looked' = looked
      BY <1>1, <3>1, <3>2, DispatchAssumption DEF store
    <3> QED  BY <3>1, <3>2, <3>3 DEF TimerFor
  <2>2. ~Waiting => ~Waiting' \/ DrainComing'
    BY <1>1, <2>1 DEF Waiting, Timely, DrainComing, store, sockets, bounds
  <2>3. delay = 0 => timer' = now + 0
    BY <1>1, DispatchAssumption DEF DispatchInductive, TypeOK
  <2>4. OneKindOfFault' <=> OneKindOfFault
    BY <1>1 DEF OneKindOfFault, bounds, worker
  <2>5. CASE OneKindOfFault /\ Waiting
    <3>1. redrain \/ waking \/ closing # {} \/ retry # "off" \/ (errTimer /\ recoveries # {}) \/ delay = 0
      BY <1>1, <2>5 DEF DispatchInductive, WakeCovers
    <3>2. now \in Nat /\ now' = now
      BY <1>1 DEF DispatchInductive, TypeOK, bounds
    <3>3. DrainComing'
      BY <1>1, <2>3, <3>1, <3>2, DispatchAssumption DEF DrainComing, leasing
    <3> QED  BY <1>1, <3>3 DEF WakeCovers
  <2> QED  BY <1>1, <2>2, <2>4, <2>5 DEF WakeCovers
<1>9. FaultsShow'
  BY <1>1 DEF DispatchInductive, FaultsShow, drain, timers, arming, leasing, worker, bounds
<1> QED  BY <1>2, <1>3, <1>4, <1>5, <1>6, <1>7, <1>8, <1>9 DEF DispatchInductive

\* A drain that throws arms the retry.
LEMMA DrainFailsPreserves ==
    ASSUME DispatchInductive, DrainFails
    PROVE  DispatchInductive'
<1>1. CASE pc = "probe"
  <2>1. /\ errors' = errors + 1 /\ errors < MaxErrors /\ delay' = None /\ pc = "probe"
        /\ pc' = "idle" /\ errTimer' /\ UNCHANGED <<redrain, timer>>
        /\ UNCHANGED <<store, local, looked, slip, retry, leasing, sockets, waking, worker, cuts, returns, now>>
    BY <1>1, DispatchAssumption DEF DispatchInductive, DrainFails, DbError, DrainThrows
  <2>2. TypeOK'
    <3>1. RowsTyped'
      BY <2>1 DEF DispatchInductive, TypeOK, RowsTyped, store
    <3>2. DrainTyped'
      BY <2>1 DEF DispatchInductive, TypeOK, DrainTyped, local, drain, timers, arming, bounds
    <3>3. MainTyped'
      BY <2>1 DEF DispatchInductive, TypeOK, MainTyped, leasing, sockets
    <3>4. WorkersTyped'
      BY <2>1, DispatchAssumption DEF DispatchInductive, TypeOK, WorkersTyped, worker, bounds
    <3> QED  BY <3>1, <3>2, <3>3, <3>4 DEF TypeOK, RowsTyped, DrainTyped, MainTyped, WorkersTyped
  <2>3. DrainHolds'
    BY <2>1 DEF DispatchInductive, DrainHolds, store, local, drain
  <2>4. LeasesHeld'
    BY <2>1 DEF DispatchInductive, LeasesHeld, store
  <2>5. LeaseIsTracked'
    BY <2>1 DEF DispatchInductive, LeaseIsTracked, store, local, drain, leasing, sockets
  <2>6. Reclaimed'
    <3>1. LostReclaimed'
      BY <2>1 DEF DispatchInductive, Reclaimed, LostReclaimed, store, timers, arming, leasing
    <3>2. RecoveriesReclaimed'
      BY <2>1 DEF DispatchInductive, Reclaimed, RecoveriesReclaimed, local, drain, timers, arming,
           leasing
    <3> QED  BY <3>1, <3>2 DEF Reclaimed
  <2>7. TimerCovers'
    BY <2>1 DEF DispatchInductive, TimerCovers, FutureJobHasTimer, TimerFor, DrainComing, Future, store,
         drain, timers, arming, leasing, bounds
  <2>8. WakeCovers'
    BY <2>1 DEF DispatchInductive, WakeCovers, DrainComing, OneKindOfFault, Waiting, Timely,
         TimerFor, store, drain,
         timers, arming, leasing, sockets, worker, bounds
  <2>9. FaultsShow'
    BY <2>1 DEF DispatchInductive, FaultsShow, TypeOK, drain, timers, arming, leasing, worker, bounds
  <2> QED  BY <2>2, <2>3, <2>4, <2>5, <2>6, <2>7, <2>8, <2>9 DEF DispatchInductive
<1>2. CASE pc # "probe"
  <2>1. /\ errors' = errors + 1 /\ errors < MaxErrors /\ delay' = None /\ pc \in {"armNext", "armProbe"}
        /\ timer' = None /\ errTimer'
        /\ IF redrain THEN pc' = "probe" /\ redrain' = FALSE ELSE pc' = "idle" /\ redrain' = redrain
        /\ UNCHANGED <<store, local, looked, slip, retry, leasing, sockets, waking, worker, cuts, returns, now>>
    BY <1>2, DispatchAssumption DEF DispatchInductive, DrainFails, DbError, DrainDone
  <2>2. TypeOK'
    <3>1. RowsTyped'
      BY <2>1 DEF DispatchInductive, TypeOK, RowsTyped, store
    <3>2. DrainTyped'
      BY <2>1 DEF DispatchInductive, TypeOK, DrainTyped, local, drain, timers, arming, bounds
    <3>3. MainTyped'
      BY <2>1 DEF DispatchInductive, TypeOK, MainTyped, leasing, sockets
    <3>4. WorkersTyped'
      BY <2>1, DispatchAssumption DEF DispatchInductive, TypeOK, WorkersTyped, worker, bounds
    <3> QED  BY <3>1, <3>2, <3>3, <3>4 DEF TypeOK, RowsTyped, DrainTyped, MainTyped, WorkersTyped
  <2>3. DrainHolds'
    BY <2>1 DEF DispatchInductive, DrainHolds, store, local, drain
  <2>4. LeasesHeld'
    BY <2>1 DEF DispatchInductive, LeasesHeld, store
  <2>5. LeaseIsTracked'
    BY <2>1 DEF DispatchInductive, LeaseIsTracked, store, local, drain, leasing, sockets
  <2>6. Reclaimed'
    <3>1. LostReclaimed'
      BY <2>1 DEF DispatchInductive, Reclaimed, LostReclaimed, store, timers, arming, leasing
    <3>2. RecoveriesReclaimed'
      BY <2>1 DEF DispatchInductive, Reclaimed, RecoveriesReclaimed, local, drain, timers, arming,
           leasing
    <3> QED  BY <3>1, <3>2 DEF Reclaimed
  <2>7. TimerCovers'
    BY <2>1 DEF DispatchInductive, TimerCovers, FutureJobHasTimer, TimerFor, DrainComing, Future, store,
         drain, timers, arming, leasing, bounds
  <2>8. WakeCovers'
    BY <2>1 DEF DispatchInductive, WakeCovers, DrainComing, OneKindOfFault, Waiting, Timely,
         TimerFor, store, drain,
         timers, arming, leasing, sockets, worker, bounds
  <2>9. FaultsShow'
    BY <2>1 DEF DispatchInductive, FaultsShow, TypeOK, drain, timers, arming, leasing, worker, bounds
  <2> QED  BY <2>2, <2>3, <2>4, <2>5, <2>6, <2>7, <2>8, <2>9 DEF DispatchInductive
<1> QED
  BY <1>1, <1>2 DEF DrainFails

\* The wake-up reaches the drain.
LEMMA WakePreserves ==
    ASSUME DispatchInductive, Wake
    PROVE  DispatchInductive'
<1>1. TypeOK'
  <2>1. RowsTyped'
    BY DEF DispatchInductive, TypeOK, RowsTyped, Wake, store
  <2>2. DrainTyped'
    BY DEF DispatchInductive, TypeOK, DrainTyped, Wake, Poke, local, drain, timers, arming, bounds
  <2>3. MainTyped'
    BY DEF DispatchInductive, TypeOK, MainTyped, Wake, leasing, sockets
  <2>4. WorkersTyped'
    BY DEF DispatchInductive, TypeOK, WorkersTyped, Wake, worker, bounds
  <2> QED  BY <2>1, <2>2, <2>3, <2>4 DEF TypeOK, RowsTyped, DrainTyped, MainTyped, WorkersTyped
<1>2. DrainHolds'
  BY DEF DispatchInductive, DrainHolds, Wake, Poke, store, local, drain
<1>3. LeasesHeld'
  BY DEF DispatchInductive, LeasesHeld, Wake, store
<1>4. LeaseIsTracked'
  BY DEF DispatchInductive, LeaseIsTracked, Wake, Poke, store, local, drain, leasing, sockets
<1>5. Reclaimed'
  BY DEF DispatchInductive, Reclaimed, LostReclaimed, RecoveriesReclaimed, Wake, Poke, store,
       local, drain, timers, arming, leasing
<1>6. TimerCovers'
  BY DEF DispatchInductive, TimerCovers, FutureJobHasTimer, TimerFor, DrainComing, Future, Wake,
       Poke, store,
       drain, timers, arming, leasing, bounds
<1>7. WakeCovers'
  BY DEF DispatchInductive, WakeCovers, DrainComing, OneKindOfFault, Waiting, Timely, TimerFor,
       Wake, Poke, store,
       drain, timers, arming, leasing, sockets, worker, bounds
<1>8. FaultsShow'
  BY DEF DispatchInductive, FaultsShow, Wake, Poke, drain, timers, arming, leasing, worker, bounds
<1> QED  BY <1>1, <1>2, <1>3, <1>4, <1>5, <1>6, <1>7, <1>8 DEF DispatchInductive

\* The timer that fires becomes a drain.
LEMMA TimerFiresPreserves ==
    ASSUME DispatchInductive, TimerFires
    PROVE  DispatchInductive'
<1>1. TypeOK'
  <2>1. RowsTyped'
    BY DEF DispatchInductive, TypeOK, RowsTyped, TimerFires, store
  <2>2. DrainTyped'
    BY DEF DispatchInductive, TypeOK, DrainTyped, TimerFires, Poke, local, drain, timers, arming, bounds
  <2>3. MainTyped'
    BY DEF DispatchInductive, TypeOK, MainTyped, TimerFires, leasing, sockets
  <2>4. WorkersTyped'
    BY DEF DispatchInductive, TypeOK, WorkersTyped, TimerFires, worker, bounds
  <2> QED  BY <2>1, <2>2, <2>3, <2>4 DEF TypeOK, RowsTyped, DrainTyped, MainTyped, WorkersTyped
<1>2. DrainHolds'
  BY DEF DispatchInductive, DrainHolds, TimerFires, Poke, store, local, drain
<1>3. LeasesHeld'
  BY DEF DispatchInductive, LeasesHeld, TimerFires, store
<1>4. LeaseIsTracked'
  BY DEF DispatchInductive, LeaseIsTracked, TimerFires, Poke, store, local, drain, leasing, sockets
<1>5. Reclaimed'
  BY DEF DispatchInductive, Reclaimed, LostReclaimed, RecoveriesReclaimed, TimerFires, Poke, store,
       local, drain, timers, arming, leasing
<1>6. TimerCovers'
  BY DEF DispatchInductive, TimerCovers, FutureJobHasTimer, TimerFor, DrainComing, Future,
       TimerFires, Poke,
       store, drain, timers, arming, leasing, bounds
<1>7. WakeCovers'
  BY DEF DispatchInductive, WakeCovers, DrainComing, OneKindOfFault, Waiting, Timely, TimerFor,
       TimerFires, Poke,
       store, drain, timers, arming, leasing, sockets, worker, bounds
<1>8. FaultsShow'
  BY DEF DispatchInductive, FaultsShow, TimerFires, Poke, drain, timers, arming, leasing, worker, bounds
<1> QED  BY <1>1, <1>2, <1>3, <1>4, <1>5, <1>6, <1>7, <1>8 DEF DispatchInductive

\* A job that falls due was covered by the timer, or by the time read for it.
LEMMA TickPreserves ==
    ASSUME DispatchInductive, Tick
    PROVE  DispatchInductive'
<1>1. TypeOK'
  BY DispatchAssumption DEF DispatchInductive, TypeOK, DrainHolds, LeasesHeld, LeaseIsTracked,
       Tick, store, local, drain, timers, arming, leasing, sockets, worker, bounds
<1>2. DrainHolds'
  BY DEF DispatchInductive, DrainHolds, Tick, store, local, drain
<1>3. LeasesHeld'
  BY DEF DispatchInductive, LeasesHeld, Tick, store
<1>4. LeaseIsTracked'
  BY DEF DispatchInductive, LeaseIsTracked, Tick, store, local, drain, leasing, sockets
<1>5. Reclaimed'
  BY DEF DispatchInductive, Reclaimed, LostReclaimed, RecoveriesReclaimed, Tick, store, local,
       drain, timers, arming, leasing
<1>6. TimerCovers'
  BY DEF DispatchInductive, TimerCovers, FutureJobHasTimer, TimerFor, DrainComing, Future, TypeOK, Tick,
       store, drain, timers, arming, leasing, bounds
<1>7. WakeCovers'
  BY DispatchAssumption DEF DispatchInductive, WakeCovers, DrainComing, OneKindOfFault, Waiting,
       Timely, TimerFor,
       TimerCovers, FutureJobHasTimer, Future, FaultsShow, TypeOK, Tick, store, drain, timers, arming,
       leasing, sockets, worker, bounds
<1>8. FaultsShow'
  BY DEF DispatchInductive, FaultsShow, Tick, drain, timers, arming, leasing, worker, bounds
<1> QED  BY <1>1, <1>2, <1>3, <1>4, <1>5, <1>6, <1>7, <1>8 DEF DispatchInductive

\* A new job leaves a wake-up behind.
LEMMA EnqueuePreserves ==
    ASSUME DispatchInductive, NEW j \in Jobs, NEW d \in Delays, Enqueue(j, d)
    PROVE  DispatchInductive'
<1>1. TypeOK'
  BY DispatchAssumption DEF DispatchInductive, TypeOK, DrainHolds, LeasesHeld, LeaseIsTracked,
       Enqueue, store, local, drain, timers, arming, leasing, sockets, worker, bounds
<1>2. DrainHolds'
  BY DEF DispatchInductive, DrainHolds, Enqueue, store, local, drain
<1>3. LeasesHeld'
  BY DEF DispatchInductive, LeasesHeld, Enqueue, store
<1>4. LeaseIsTracked'
  BY DEF DispatchInductive, LeaseIsTracked, TypeOK, Enqueue, store, local, drain, leasing, sockets
<1>5. Reclaimed'
  BY DEF DispatchInductive, Reclaimed, LostReclaimed, RecoveriesReclaimed, Enqueue, store, local,
       drain, timers, arming, leasing
<1>6. TimerCovers'
  BY DEF DispatchInductive, TimerCovers, FutureJobHasTimer, TimerFor, DrainComing, Future, Enqueue,
       store,
       drain, timers, arming, leasing, bounds
<1>7. WakeCovers'
  BY DEF DispatchInductive, WakeCovers, DrainComing, OneKindOfFault, Waiting, Timely, TimerFor,
       Enqueue, store,
       drain, timers, arming, leasing, sockets, worker, bounds
<1>8. FaultsShow'
  BY DEF DispatchInductive, FaultsShow, Enqueue, drain, timers, arming, leasing, worker, bounds
<1> QED  BY <1>1, <1>2, <1>3, <1>4, <1>5, <1>6, <1>7, <1>8 DEF DispatchInductive

\* The retry takes over from its timer.
LEMMA ErrTimerFiresPreserves ==
    ASSUME DispatchInductive, ErrTimerFires
    PROVE  DispatchInductive'
<1>1. TypeOK'
  BY DEF DispatchInductive, TypeOK, ErrTimerFires, store, local, drain, timers, arming, leasing,
       sockets,
       worker, bounds
<1>2. DrainHolds'
  BY DEF DispatchInductive, DrainHolds, ErrTimerFires, store, local, drain
<1>3. LeasesHeld'
  BY DEF DispatchInductive, LeasesHeld, ErrTimerFires, store
<1>4. LeaseIsTracked'
  BY DEF DispatchInductive, LeaseIsTracked, ErrTimerFires, store, local, drain, leasing, sockets
<1>5. Reclaimed'
  BY DEF DispatchInductive, Reclaimed, LostReclaimed, RecoveriesReclaimed, ErrTimerFires, store,
       local, drain, timers, arming, leasing
<1>6. TimerCovers'
  BY DEF DispatchInductive, TimerCovers, FutureJobHasTimer, TimerFor, DrainComing, Future,
       ErrTimerFires,
       store, drain, timers, arming, leasing, bounds
<1>7. WakeCovers'
  BY DEF DispatchInductive, WakeCovers, DrainComing, OneKindOfFault, Waiting, Timely, TimerFor,
       ErrTimerFires, store,
       drain, timers, arming, leasing, sockets, worker, bounds
<1>8. FaultsShow'
  BY DEF DispatchInductive, FaultsShow, ErrTimerFires, drain, timers, arming, leasing, worker, bounds
<1> QED  BY <1>1, <1>2, <1>3, <1>4, <1>5, <1>6, <1>7, <1>8 DEF DispatchInductive

\* The recoveries end before the releases begin.
LEMMA RetryRecoversPreserves ==
    ASSUME DispatchInductive, RetryRecovers
    PROVE  DispatchInductive'
<1>1. CASE recoveries = {}
  <2>1. /\ retry = "recover" /\ retry' = "release" /\ recoveries = {} /\ UNCHANGED <<store, recoveries>>
        /\ UNCHANGED <<drain, timer, arming, errTimer, lost, closing, sockets, waking, worker, bounds>>
    BY <1>1, DispatchAssumption DEF DispatchInductive, RetryRecovers
  <2>2. TypeOK'
    <3>1. RowsTyped'
      BY <2>1 DEF DispatchInductive, TypeOK, RowsTyped, store
    <3>2. DrainTyped'
      BY <2>1 DEF DispatchInductive, TypeOK, DrainTyped, local, drain, timers, arming, bounds
    <3>3. MainTyped'
      BY <2>1 DEF DispatchInductive, TypeOK, MainTyped, leasing, sockets
    <3>4. WorkersTyped'
      BY <2>1 DEF DispatchInductive, TypeOK, WorkersTyped, worker, bounds
    <3> QED  BY <3>1, <3>2, <3>3, <3>4 DEF TypeOK, RowsTyped, DrainTyped, MainTyped, WorkersTyped
  <2>3. DrainHolds'
    BY <2>1 DEF DispatchInductive, DrainHolds, store, local, drain
  <2>4. LeasesHeld'
    BY <2>1 DEF DispatchInductive, LeasesHeld, store
  <2>5. LeaseIsTracked'
    BY <2>1 DEF DispatchInductive, LeaseIsTracked, store, local, drain, leasing, sockets
  <2>6. Reclaimed'
    <3>1. LostReclaimed'
      BY <2>1 DEF DispatchInductive, Reclaimed, LostReclaimed, store, timers, arming, leasing
    <3>2. RecoveriesReclaimed'
      BY <2>1 DEF DispatchInductive, Reclaimed, RecoveriesReclaimed, local, drain, timers, arming,
           leasing
    <3> QED  BY <3>1, <3>2 DEF Reclaimed
  <2>7. TimerCovers'
    BY <2>1 DEF DispatchInductive, TimerCovers, FutureJobHasTimer, TimerFor, DrainComing, Future, store,
         drain, timers, arming, leasing, bounds
  <2>8. WakeCovers'
    BY <2>1 DEF DispatchInductive, WakeCovers, DrainComing, OneKindOfFault, Waiting, Timely,
         TimerFor, store, drain,
         timers, arming, leasing, sockets, worker, bounds
  <2>9. FaultsShow'
    BY <2>1 DEF DispatchInductive, FaultsShow, drain, timers, arming, leasing, worker, bounds
  <2> QED  BY <2>2, <2>3, <2>4, <2>5, <2>6, <2>7, <2>8, <2>9 DEF DispatchInductive
<1>2. ASSUME NEW r \in recoveries, r = <<r[1], TRUE>>, Recover(r[1], TRUE)
      PROVE  DispatchInductive'
  <2>1. /\ ReturnedNow(r[1]) /\ r[1] \in Jobs /\ <<r[1], TRUE>> \in recoveries /\ ph[r[1]] = "ambiguous"
        /\ recoveries' = recoveries \ {<<r[1], TRUE>>}
        /\ retry = "recover" /\ retry' = retry
        /\ UNCHANGED <<drain, timer, arming, errTimer, lost, closing, sockets, waking, worker, bounds>>
    BY <1>2, RequeueReturns, DispatchAssumption DEF DispatchInductive, RetryRecovers, Recover,
         LeaseIsTracked, TypeOK
  <2>2. TypeOK'
    <3>1. RowsTyped'
      BY <2>1 DEF LeasedAs, ReturnedNow
    <3>2. DrainTyped'
      BY <2>1 DEF DispatchInductive, TypeOK, DrainTyped, local, drain, timers, arming, bounds
    <3>3. MainTyped'
      BY <2>1 DEF DispatchInductive, TypeOK, MainTyped, leasing, sockets
    <3>4. WorkersTyped'
      BY <2>1 DEF DispatchInductive, TypeOK, WorkersTyped, worker, bounds
    <3> QED  BY <3>1, <3>2, <3>3, <3>4 DEF TypeOK, RowsTyped, DrainTyped, MainTyped, WorkersTyped
  <2>3. DrainHolds'
    BY <2>1 DEF DispatchInductive, DrainHolds, LeasedAs, ReturnedNow, RowsTyped, OthersKept, store,
         local, drain
  <2>4. LeasesHeld'
    BY <2>1 DEF DispatchInductive, LeasesHeld, LeasedAs, ReturnedNow, RowsTyped, OthersKept, store
  <2>5. LeaseIsTracked'
    <3> SUFFICES ASSUME NEW k \in Jobs PROVE Tracked(k)'
      BY DEF LeaseIsTracked, Tracked
    <3>1. Tracked(k)
      BY DEF DispatchInductive, LeaseIsTracked, Tracked
    <3>2. CASE k = r[1]
      BY <2>1, <3>1, <3>2, DispatchAssumption DEF DispatchInductive, Tracked, DrainHolds,
           LeaseIsTracked, TypeOK, LeasesHeld, LeasedAs, ReturnedNow, RowsTyped, OthersKept, store,
           local, drain, timers, arming, leasing, sockets, worker, bounds
    <3>3. CASE k # r[1]
      BY <2>1, <3>1, <3>3, DispatchAssumption DEF DispatchInductive, Tracked, DrainHolds,
           LeaseIsTracked, TypeOK, LeasesHeld, LeasedAs, ReturnedNow, RowsTyped, OthersKept, store,
           local, drain, timers, arming, leasing, sockets, worker, bounds
    <3> QED  BY <3>2, <3>3
  <2>6. Reclaimed'
    <3>1. LostReclaimed'
      BY <2>1 DEF DispatchInductive, Reclaimed, LostReclaimed, LeasedAs, ReturnedNow, RowsTyped,
           OthersKept, store, timers, arming, leasing
    <3>2. RecoveriesReclaimed'
      BY <2>1 DEF DispatchInductive, Reclaimed, RecoveriesReclaimed, LeasedAs, ReturnedNow,
           RowsTyped, OthersKept, local, drain, timers, arming, leasing
    <3> QED  BY <3>1, <3>2 DEF Reclaimed
  <2>7. TimerCovers'
    BY <2>1 DEF DispatchInductive, TimerCovers, FutureJobHasTimer, TimerFor, DrainComing, Future,
         LeasedAs,
         ReturnedNow, RowsTyped, OthersKept, store, drain, timers, arming, leasing, bounds
  <2>8. WakeCovers'
    BY <2>1 DEF DispatchInductive, WakeCovers, DrainComing, OneKindOfFault, Waiting, Timely,
         TimerFor, LeasedAs,
         ReturnedNow, RowsTyped, OthersKept, store, drain, timers, arming, leasing, sockets, worker,
         bounds
  <2>9. FaultsShow'
    BY <2>1 DEF DispatchInductive, FaultsShow, LeasedAs, ReturnedNow, RowsTyped, OthersKept, drain,
         timers, arming, leasing, worker, bounds
  <2> QED  BY <2>2, <2>3, <2>4, <2>5, <2>6, <2>7, <2>8, <2>9 DEF DispatchInductive
<1>3. ASSUME NEW r \in recoveries, r = <<r[1], FALSE>>, Recover(r[1], FALSE)
      PROVE  DispatchInductive'
  <2>1. /\ UNCHANGED store
        /\ recoveries' = recoveries \ {<<r[1], FALSE>>}
        /\ retry = "recover" /\ retry' = retry
        /\ UNCHANGED <<drain, timer, arming, errTimer, lost, closing, sockets, waking, worker, bounds>>
    BY <1>3, DispatchAssumption DEF DispatchInductive, RetryRecovers, Recover, TypeOK
  <2>2. TypeOK'
    <3>1. RowsTyped'
      BY <2>1 DEF DispatchInductive, TypeOK, RowsTyped, store
    <3>2. DrainTyped'
      BY <2>1 DEF DispatchInductive, TypeOK, DrainTyped, local, drain, timers, arming, bounds
    <3>3. MainTyped'
      BY <2>1 DEF DispatchInductive, TypeOK, MainTyped, leasing, sockets
    <3>4. WorkersTyped'
      BY <2>1 DEF DispatchInductive, TypeOK, WorkersTyped, worker, bounds
    <3> QED  BY <3>1, <3>2, <3>3, <3>4 DEF TypeOK, RowsTyped, DrainTyped, MainTyped, WorkersTyped
  <2>3. DrainHolds'
    BY <2>1 DEF DispatchInductive, DrainHolds, store, local, drain
  <2>4. LeasesHeld'
    BY <2>1 DEF DispatchInductive, LeasesHeld, store
  <2>5. LeaseIsTracked'
    BY <2>1 DEF DispatchInductive, LeaseIsTracked, store, local, drain, leasing, sockets
  <2>6. Reclaimed'
    <3>1. LostReclaimed'
      BY <2>1 DEF DispatchInductive, Reclaimed, LostReclaimed, store, timers, arming, leasing
    <3>2. RecoveriesReclaimed'
      BY <2>1 DEF DispatchInductive, Reclaimed, RecoveriesReclaimed, local, drain, timers, arming,
           leasing
    <3> QED  BY <3>1, <3>2 DEF Reclaimed
  <2>7. TimerCovers'
    BY <2>1 DEF DispatchInductive, TimerCovers, FutureJobHasTimer, TimerFor, DrainComing, Future, store,
         drain, timers, arming, leasing, bounds
  <2>8. WakeCovers'
    BY <2>1 DEF DispatchInductive, WakeCovers, DrainComing, OneKindOfFault, Waiting, Timely,
         TimerFor, store, drain,
         timers, arming, leasing, sockets, worker, bounds
  <2>9. FaultsShow'
    BY <2>1 DEF DispatchInductive, FaultsShow, drain, timers, arming, leasing, worker, bounds
  <2> QED  BY <2>2, <2>3, <2>4, <2>5, <2>6, <2>7, <2>8, <2>9 DEF DispatchInductive
<1>4. \A r \in recoveries : r = <<r[1], r[2]>> /\ (r[2] = TRUE \/ r[2] = FALSE)
  BY DEF DispatchInductive, TypeOK
<1> QED
  BY <1>1, <1>2, <1>3, <1>4 DEF RetryRecovers

\* The retry ends when no lost lease is left, and pokes the drain.
LEMMA RetryReleasesPreserves ==
    ASSUME DispatchInductive, RetryReleases
    PROVE  DispatchInductive'
<1>1. ASSUME NEW j \in lost, ReleaseHandoff(j), UNCHANGED <<drain, retry>>
      PROVE  DispatchInductive'
  <2>1. /\ ReturnedNow(j) /\ j \in Jobs /\ j \in lost /\ lost' = lost \ {j} /\ zombies' \in [Workers -> Nat]
        /\ retry = "release" /\ UNCHANGED <<drain, retry>>
        /\ UNCHANGED <<timer, arming, errTimer, recoveries, closing, sockets, waking, wire, goodbye, up, bounds>>
    BY <1>1, ReleaseReturns, DispatchAssumption DEF DispatchInductive, RetryReleases, TypeOK
  <2>2. TypeOK'
    <3>1. RowsTyped'
      BY <2>1 DEF LeasedAs, ReturnedNow
    <3>2. DrainTyped'
      BY <2>1 DEF DispatchInductive, TypeOK, DrainTyped, local, drain, timers, arming, bounds
    <3>3. MainTyped'
      BY <2>1 DEF DispatchInductive, TypeOK, MainTyped, leasing, sockets
    <3>4. WorkersTyped'
      BY <2>1 DEF DispatchInductive, TypeOK, WorkersTyped, worker, bounds
    <3> QED  BY <3>1, <3>2, <3>3, <3>4 DEF TypeOK, RowsTyped, DrainTyped, MainTyped, WorkersTyped
  <2>3. DrainHolds'
    BY <2>1, DispatchAssumption DEF DispatchInductive, DrainHolds, LeaseIsTracked, TypeOK,
         LeasedAs, ReturnedNow, RowsTyped, OthersKept, store, local, drain
  <2>4. LeasesHeld'
    BY <2>1 DEF DispatchInductive, LeasesHeld, LeasedAs, ReturnedNow, RowsTyped, OthersKept, store
  <2>5. LeaseIsTracked'
    <3> SUFFICES ASSUME NEW k \in Jobs PROVE Tracked(k)'
      BY DEF LeaseIsTracked, Tracked
    <3>1. Tracked(k)
      BY DEF DispatchInductive, LeaseIsTracked, Tracked
    <3>2. CASE k = j
      BY <2>1, <3>1, <3>2, DispatchAssumption DEF DispatchInductive, Tracked, DrainHolds,
           LeaseIsTracked, TypeOK, LeasesHeld, LeasedAs, ReturnedNow, RowsTyped, OthersKept, store,
           local, drain, timers, arming, leasing, sockets, worker, bounds
    <3>3. CASE k # j
      BY <2>1, <3>1, <3>3, DispatchAssumption DEF DispatchInductive, Tracked, DrainHolds,
           LeaseIsTracked, TypeOK, LeasesHeld, LeasedAs, ReturnedNow, RowsTyped, OthersKept, store,
           local, drain, timers, arming, leasing, sockets, worker, bounds
    <3> QED  BY <3>2, <3>3
  <2>6. Reclaimed'
    <3>1. LostReclaimed'
      BY <2>1 DEF DispatchInductive, Reclaimed, LostReclaimed, LeasedAs, ReturnedNow, RowsTyped,
           OthersKept, store, timers, arming, leasing
    <3>2. RecoveriesReclaimed'
      BY <2>1 DEF DispatchInductive, Reclaimed, RecoveriesReclaimed, LeasedAs, ReturnedNow,
           RowsTyped, OthersKept, local, drain, timers, arming, leasing
    <3> QED  BY <3>1, <3>2 DEF Reclaimed
  <2>7. TimerCovers'
    BY <2>1 DEF DispatchInductive, TimerCovers, FutureJobHasTimer, TimerFor, DrainComing, Future,
         LeasedAs,
         ReturnedNow, RowsTyped, OthersKept, store, drain, timers, arming, leasing, bounds
  <2>8. WakeCovers'
    BY <2>1 DEF DispatchInductive, WakeCovers, DrainComing, OneKindOfFault, Waiting, Timely,
         TimerFor, LeasedAs,
         ReturnedNow, RowsTyped, OthersKept, store, drain, timers, arming, leasing, sockets, worker,
         bounds
  <2>9. FaultsShow'
    BY <2>1 DEF DispatchInductive, FaultsShow, LeasedAs, ReturnedNow, RowsTyped, OthersKept, drain,
         timers, arming, leasing, worker, bounds
  <2> QED  BY <2>2, <2>3, <2>4, <2>5, <2>6, <2>7, <2>8, <2>9 DEF DispatchInductive
<1>2. CASE lost = {} /\ retry' = "off" /\ Poke /\ UNCHANGED <<store, local, lost, zombies>>
  <2>1. /\ lost = {} /\ retry = "release" /\ retry' = "off"
        /\ IF pc = "idle" THEN pc' = "probe" /\ redrain' = FALSE ELSE pc' = pc /\ redrain' = TRUE
        /\ UNCHANGED <<store, local, lost, zombies>>
        /\ UNCHANGED <<timer, arming, errTimer, recoveries, closing, sockets, waking, wire, goodbye, up, bounds>>
    BY <1>2, DispatchAssumption DEF DispatchInductive, RetryReleases, Poke
  <2>2. TypeOK'
    <3>1. RowsTyped'
      BY <2>1 DEF DispatchInductive, TypeOK, RowsTyped, store
    <3>2. DrainTyped'
      BY <2>1 DEF DispatchInductive, TypeOK, DrainTyped, local, drain, timers, arming, bounds
    <3>3. MainTyped'
      BY <2>1 DEF DispatchInductive, TypeOK, MainTyped, leasing, sockets
    <3>4. WorkersTyped'
      BY <2>1 DEF DispatchInductive, TypeOK, WorkersTyped, worker, bounds
    <3> QED  BY <3>1, <3>2, <3>3, <3>4 DEF TypeOK, RowsTyped, DrainTyped, MainTyped, WorkersTyped
  <2>3. DrainHolds'
    BY <2>1 DEF DispatchInductive, DrainHolds, store, local, drain
  <2>4. LeasesHeld'
    BY <2>1 DEF DispatchInductive, LeasesHeld, store
  <2>5. LeaseIsTracked'
    BY <2>1 DEF DispatchInductive, LeaseIsTracked, store, local, drain, leasing, sockets
  <2>6. Reclaimed'
    <3>1. LostReclaimed'
      BY <2>1 DEF DispatchInductive, Reclaimed, LostReclaimed, store, timers, arming, leasing
    <3>2. RecoveriesReclaimed'
      BY <2>1 DEF DispatchInductive, Reclaimed, RecoveriesReclaimed, local, drain, timers, arming,
           leasing
    <3> QED  BY <3>1, <3>2 DEF Reclaimed
  <2>7. TimerCovers'
    BY <2>1 DEF DispatchInductive, TimerCovers, FutureJobHasTimer, TimerFor, DrainComing, Future, store,
         drain, timers, arming, leasing, bounds
  <2>8. WakeCovers'
    BY <2>1 DEF DispatchInductive, WakeCovers, DrainComing, OneKindOfFault, Waiting, Timely,
         TimerFor, store, drain,
         timers, arming, leasing, sockets, worker, bounds
  <2>9. FaultsShow'
    BY <2>1 DEF DispatchInductive, FaultsShow, drain, timers, arming, leasing, worker, bounds
  <2> QED  BY <2>2, <2>3, <2>4, <2>5, <2>6, <2>7, <2>8, <2>9 DEF DispatchInductive
<1> QED
  BY <1>1, <1>2 DEF RetryReleases

\* A retry that fails arms the next.
LEMMA RetryFailsPreserves ==
    ASSUME DispatchInductive, RetryFails
    PROVE  DispatchInductive'
<1>1. TypeOK'
  BY DispatchAssumption DEF DispatchInductive, TypeOK, DrainHolds, LeasesHeld, LeaseIsTracked,
       RetryFails, DbError, store, local, drain, timers, arming, leasing, sockets, worker, bounds
<1>2. DrainHolds'
  BY DEF DispatchInductive, DrainHolds, RetryFails, store, local, drain
<1>3. LeasesHeld'
  BY DEF DispatchInductive, LeasesHeld, RetryFails, store
<1>4. LeaseIsTracked'
  BY DEF DispatchInductive, LeaseIsTracked, RetryFails, store, local, drain, leasing, sockets
<1>5. Reclaimed'
  BY DEF DispatchInductive, Reclaimed, LostReclaimed, RecoveriesReclaimed, RetryFails, store,
       local, drain, timers, arming, leasing
<1>6. TimerCovers'
  BY DEF DispatchInductive, TimerCovers, FutureJobHasTimer, TimerFor, DrainComing, Future,
       RetryFails, store,
       drain, timers, arming, leasing, bounds
<1>7. WakeCovers'
  BY DispatchAssumption DEF DispatchInductive, WakeCovers, DrainComing, OneKindOfFault, Waiting,
       Timely, TimerFor,
       TimerCovers, FutureJobHasTimer, Future, FaultsShow, TypeOK, RetryFails, DbError, store,
       drain, timers, arming, leasing, sockets, worker, bounds
<1>8. FaultsShow'
  BY DEF DispatchInductive, FaultsShow, TypeOK, RetryFails, DbError, drain, timers, arming, leasing,
       worker, bounds
<1> QED  BY <1>1, <1>2, <1>3, <1>4, <1>5, <1>6, <1>7, <1>8 DEF DispatchInductive

\* A worker that connects takes no lease from a map.
LEMMA ConnectPreserves ==
    ASSUME DispatchInductive, NEW w \in Workers, Connect(w)
    PROVE  DispatchInductive'
<1>1. TypeOK'
  BY DEF DispatchInductive, TypeOK, Connect, store, local, drain, timers, arming, leasing, sockets,
       worker,
       bounds
<1>2. DrainHolds'
  BY DEF DispatchInductive, DrainHolds, Connect, store, local, drain
<1>3. LeasesHeld'
  BY DEF DispatchInductive, LeasesHeld, Connect, store
<1>4. LeaseIsTracked'
  BY DEF DispatchInductive, LeaseIsTracked, Connect, store, local, drain, leasing, sockets
<1>5. Reclaimed'
  BY DEF DispatchInductive, Reclaimed, LostReclaimed, RecoveriesReclaimed, Connect, store, local,
       drain, timers, arming, leasing
<1>6. TimerCovers'
  BY DEF DispatchInductive, TimerCovers, FutureJobHasTimer, TimerFor, DrainComing, Future, Connect,
       store,
       drain, timers, arming, leasing, bounds
<1>7. WakeCovers'
  BY DEF DispatchInductive, WakeCovers, DrainComing, OneKindOfFault, Waiting, Timely, TimerFor,
       Connect, store,
       drain, timers, arming, leasing, sockets, worker, bounds
<1>8. FaultsShow'
  BY DEF DispatchInductive, FaultsShow, Connect, drain, timers, arming, leasing, worker, bounds
<1> QED  BY <1>1, <1>2, <1>3, <1>4, <1>5, <1>6, <1>7, <1>8 DEF DispatchInductive

\* A worker that becomes ready pokes the drain.
LEMMA WorkerReadyPreserves ==
    ASSUME DispatchInductive, NEW w \in Workers, WorkerReady(w)
    PROVE  DispatchInductive'
<1>1. /\ wire' \in [Workers -> Nat] /\ w \in conn /\ ready' \subseteq conn
      /\ IF pc = "idle" THEN pc' = "probe" /\ redrain' = FALSE ELSE pc' = pc /\ redrain' = TRUE
      /\ UNCHANGED <<store, local, timers, leasing, conn, draining, waking, goodbye, up, zombies, bounds>>
  BY DispatchAssumption DEF DispatchInductive, WorkerReady, Poke, TypeOK
<1>2. TypeOK'
  <2>1. RowsTyped'
    BY <1>1 DEF DispatchInductive, TypeOK, RowsTyped, store
  <2>2. DrainTyped'
    BY <1>1 DEF DispatchInductive, TypeOK, DrainTyped, local, drain, timers, arming, bounds
  <2>3. MainTyped'
    BY <1>1 DEF DispatchInductive, TypeOK, MainTyped, leasing, sockets
  <2>4. WorkersTyped'
    BY <1>1 DEF DispatchInductive, TypeOK, WorkersTyped, worker, bounds
  <2> QED  BY <2>1, <2>2, <2>3, <2>4 DEF TypeOK, RowsTyped, DrainTyped, MainTyped, WorkersTyped
<1>3. DrainHolds'
  BY <1>1 DEF DispatchInductive, DrainHolds, store, local, drain
<1>4. LeasesHeld'
  BY <1>1 DEF DispatchInductive, LeasesHeld, store
<1>5. LeaseIsTracked'
  BY <1>1 DEF DispatchInductive, LeaseIsTracked, store, local, drain, leasing, sockets
<1>6. Reclaimed'
  <2>1. LostReclaimed'
    BY <1>1 DEF DispatchInductive, Reclaimed, LostReclaimed, store, timers, arming, leasing
  <2>2. RecoveriesReclaimed'
    BY <1>1 DEF DispatchInductive, Reclaimed, RecoveriesReclaimed, local, drain, timers, arming, leasing
  <2> QED  BY <2>1, <2>2 DEF Reclaimed
<1>7. TimerCovers'
  BY <1>1 DEF DispatchInductive, TimerCovers, FutureJobHasTimer, TimerFor, DrainComing, Future,
       store, drain,
       timers, arming, leasing, bounds
<1>8. WakeCovers'
  BY <1>1 DEF DispatchInductive, WakeCovers, DrainComing, OneKindOfFault, Waiting, Timely, TimerFor,
       store, drain,
       timers, arming, leasing, sockets, worker, bounds
<1>9. FaultsShow'
  BY <1>1 DEF DispatchInductive, FaultsShow, drain, timers, arming, leasing, worker, bounds
<1> QED  BY <1>2, <1>3, <1>4, <1>5, <1>6, <1>7, <1>8, <1>9 DEF DispatchInductive

\* Nothing changes at main when a worker begins to stop,
LEMMA WorkerStopsPreserves ==
    ASSUME DispatchInductive, NEW w \in Workers, WorkerStops(w)
    PROVE  DispatchInductive'
<1>1. TypeOK'
  BY DEF DispatchInductive, TypeOK, WorkerStops, store, local, drain, timers, arming, leasing, sockets,
       worker, bounds
<1>2. DrainHolds'
  BY DEF DispatchInductive, DrainHolds, WorkerStops, store, local, drain
<1>3. LeasesHeld'
  BY DEF DispatchInductive, LeasesHeld, WorkerStops, store
<1>4. LeaseIsTracked'
  BY DEF DispatchInductive, LeaseIsTracked, WorkerStops, store, local, drain, leasing, sockets
<1>5. Reclaimed'
  BY DEF DispatchInductive, Reclaimed, LostReclaimed, RecoveriesReclaimed, WorkerStops, store,
       local, drain, timers, arming, leasing
<1>6. TimerCovers'
  BY DEF DispatchInductive, TimerCovers, FutureJobHasTimer, TimerFor, DrainComing, Future, WorkerStops,
       store, drain, timers, arming, leasing, bounds
<1>7. WakeCovers'
  BY DEF DispatchInductive, WakeCovers, DrainComing, OneKindOfFault, Waiting, Timely, TimerFor,
       WorkerStops, store,
       drain, timers, arming, leasing, sockets, worker, bounds
<1>8. FaultsShow'
  BY DEF DispatchInductive, FaultsShow, WorkerStops, drain, timers, arming, leasing, worker, bounds
<1> QED  BY <1>1, <1>2, <1>3, <1>4, <1>5, <1>6, <1>7, <1>8 DEF DispatchInductive

\* and when it says so it is ready no more.
LEMMA WorkerDrainingPreserves ==
    ASSUME DispatchInductive, NEW w \in Workers, WorkerDraining(w)
    PROVE  DispatchInductive'
<1>1. TypeOK'
  BY DEF DispatchInductive, TypeOK, WorkerDraining, store, local, drain, timers, arming, leasing,
       sockets,
       worker, bounds
<1>2. DrainHolds'
  BY DEF DispatchInductive, DrainHolds, WorkerDraining, store, local, drain
<1>3. LeasesHeld'
  BY DEF DispatchInductive, LeasesHeld, WorkerDraining, store
<1>4. LeaseIsTracked'
  BY DEF DispatchInductive, LeaseIsTracked, WorkerDraining, store, local, drain, leasing, sockets
<1>5. Reclaimed'
  BY DEF DispatchInductive, Reclaimed, LostReclaimed, RecoveriesReclaimed, WorkerDraining, store,
       local, drain, timers, arming, leasing
<1>6. TimerCovers'
  BY DEF DispatchInductive, TimerCovers, FutureJobHasTimer, TimerFor, DrainComing, Future,
       WorkerDraining,
       store, drain, timers, arming, leasing, bounds
<1>7. WakeCovers'
  BY DEF DispatchInductive, WakeCovers, DrainComing, OneKindOfFault, Waiting, Timely, TimerFor,
       WorkerDraining,
       store, drain, timers, arming, leasing, sockets, worker, bounds
<1>8. FaultsShow'
  BY DEF DispatchInductive, FaultsShow, WorkerDraining, drain, timers, arming, leasing, worker, bounds
<1> QED  BY <1>1, <1>2, <1>3, <1>4, <1>5, <1>6, <1>7, <1>8 DEF DispatchInductive

\* The leases of a lost socket get a close handler.
LEMMA LoseSocketPreserves ==
    ASSUME DispatchInductive, NEW w \in Workers, LoseSocket(w)
    PROVE  DispatchInductive'
<1>1. TypeOK'
  BY DispatchAssumption DEF DispatchInductive, TypeOK, DrainHolds, LeasesHeld, LeaseIsTracked,
       LoseSocket, SocketClosed, NoLongerReady, LeasesOf, store, local, drain, timers, arming, leasing,
       sockets, worker, bounds
<1>2. DrainHolds'
  BY DEF DispatchInductive, DrainHolds, LoseSocket, SocketClosed, LeasesOf, store, local, drain
<1>3. LeasesHeld'
  BY DEF DispatchInductive, LeasesHeld, LoseSocket, SocketClosed, LeasesOf, store
<1>4. LeaseIsTracked'
  BY DEF DispatchInductive, LeaseIsTracked, LoseSocket, SocketClosed, LeasesOf, store, local,
       drain, leasing, sockets
<1>5. Reclaimed'
  BY DEF DispatchInductive, Reclaimed, LostReclaimed, RecoveriesReclaimed, LoseSocket,
       SocketClosed, LeasesOf, store, local, drain, timers, arming, leasing
<1>6. TimerCovers'
  BY DEF DispatchInductive, TimerCovers, FutureJobHasTimer, TimerFor, DrainComing, Future, LoseSocket,
       SocketClosed, store, drain, timers, arming, leasing, bounds
<1>7. WakeCovers'
  BY DEF DispatchInductive, WakeCovers, DrainComing, OneKindOfFault, Waiting, Timely, TimerFor,
       TypeOK, LoseSocket,
       SocketClosed, NoLongerReady, store, drain, timers, arming, leasing, sockets, worker, bounds
<1>8. FaultsShow'
  BY DEF DispatchInductive, FaultsShow, TypeOK, LoseSocket, SocketClosed, drain, timers, arming,
       leasing,
       worker, bounds
<1> QED  BY <1>1, <1>2, <1>3, <1>4, <1>5, <1>6, <1>7, <1>8 DEF DispatchInductive

\* So do those of a worker that has stopped.
LEMMA WorkerExitsPreserves ==
    ASSUME DispatchInductive, NEW w \in Workers, WorkerExits(w)
    PROVE  DispatchInductive'
<1>1. /\ up[w] = "stopping" /\ up' = [up EXCEPT ![w] = "down"] /\ zombies' = [zombies EXCEPT ![w] = 0]
      /\ conn' = conn \ {w} /\ draining' = draining \ {w} /\ ready' = ready \ {w}
      /\ lost' = lost \cup LeasesOf(w) /\ LeasesOf(w) \subseteq Jobs
      /\ \A j \in Jobs : j \in LeasesOf(w) <=> on[j] = w /\ ph[j] \in {"sent", "running", "reporting"}
      /\ w \in conn /\ LeasesOf(w) # {} => closing' = closing \cup {w}
      /\ closing' \in {closing, closing \cup {w}}
      /\ wire' = [wire EXCEPT ![w] = 0] /\ goodbye' = [goodbye EXCEPT ![w] = FALSE] /\ stale' \in BOOLEAN
      /\ UNCHANGED <<store, timers, recoveries, waking, bounds, pc, redrain, picked, target>>
  BY DispatchAssumption DEF DispatchInductive, WorkerExits, SocketClosed, NoLongerReady, LeasesOf,
       TypeOK
<1>2. TypeOK'
  <2>1. RowsTyped'
    BY <1>1 DEF DispatchInductive, TypeOK, RowsTyped, store
  <2>2. DrainTyped'
    BY <1>1 DEF DispatchInductive, TypeOK, DrainTyped, local, drain, timers, arming, bounds
  <2>3. MainTyped'
    BY <1>1 DEF DispatchInductive, TypeOK, MainTyped, leasing, sockets
  <2>4. WorkersTyped'
    BY <1>1 DEF DispatchInductive, TypeOK, WorkersTyped, worker, bounds
  <2> QED  BY <2>1, <2>2, <2>3, <2>4 DEF TypeOK, RowsTyped, DrainTyped, MainTyped, WorkersTyped
<1>3. DrainHolds'
  BY <1>1 DEF DispatchInductive, DrainHolds, store, local, drain
<1>4. LeasesHeld'
  BY <1>1 DEF DispatchInductive, LeasesHeld, store
<1>5. LeaseIsTracked'
  BY <1>1 DEF DispatchInductive, LeaseIsTracked, store, local, drain, leasing, sockets
<1>6. Reclaimed'
  <2>1. LostReclaimed'
    <3> SUFFICES ASSUME NEW j \in lost' PROVE on[j] \in closing' \/ errTimer \/ retry # "off"
      BY <1>1 DEF LostReclaimed, store, timers, arming
    <3>1. CASE j \in lost
      BY <1>1, <3>1 DEF DispatchInductive, Reclaimed, LostReclaimed
    <3>2. CASE j \notin lost
      <4>1. j \in LeasesOf(w) /\ j \in Jobs /\ on[j] = w
        BY <1>1, <3>2
      <4>2. w \in conn
        BY <1>1, <3>2, <4>1 DEF DispatchInductive, LeaseIsTracked
      <4> QED  BY <1>1, <4>1, <4>2
    <3> QED  BY <3>1, <3>2
  <2>2. RecoveriesReclaimed'
    BY <1>1 DEF DispatchInductive, Reclaimed, RecoveriesReclaimed, local, drain, timers, arming, leasing
  <2> QED  BY <2>1, <2>2 DEF Reclaimed
<1>7. TimerCovers'
  BY <1>1 DEF DispatchInductive, TimerCovers, FutureJobHasTimer, TimerFor, DrainComing, Future,
       store, drain,
       timers, arming, leasing, bounds
<1>8. WakeCovers'
  BY <1>1 DEF DispatchInductive, WakeCovers, DrainComing, OneKindOfFault, Waiting, Timely, TimerFor,
       store, drain,
       timers, arming, leasing, sockets, worker, bounds
<1>9. FaultsShow'
  BY <1>1 DEF DispatchInductive, FaultsShow, TypeOK, drain, timers, arming, leasing, worker, bounds
<1> QED  BY <1>2, <1>3, <1>4, <1>5, <1>6, <1>7, <1>8, <1>9 DEF DispatchInductive

\* A freed slot is announced.
LEMMA SlotFreedPreserves ==
    ASSUME DispatchInductive, NEW w \in Workers, SlotFreed(w)
    PROVE  DispatchInductive'
<1>1. TypeOK'
  BY DEF DispatchInductive, TypeOK, SlotFreed, Announced, store, local, drain, timers, arming, leasing,
       sockets, worker, bounds
<1>2. DrainHolds'
  BY DEF DispatchInductive, DrainHolds, SlotFreed, store, local, drain
<1>3. LeasesHeld'
  BY DEF DispatchInductive, LeasesHeld, SlotFreed, store
<1>4. LeaseIsTracked'
  BY DEF DispatchInductive, LeaseIsTracked, SlotFreed, Announced, store, local, drain, leasing,
       sockets
<1>5. Reclaimed'
  BY DEF DispatchInductive, Reclaimed, LostReclaimed, RecoveriesReclaimed, SlotFreed, store, local,
       drain, timers, arming, leasing
<1>6. TimerCovers'
  BY DEF DispatchInductive, TimerCovers, FutureJobHasTimer, TimerFor, DrainComing, Future,
       SlotFreed, store,
       drain, timers, arming, leasing, bounds
<1>7. WakeCovers'
  BY DEF DispatchInductive, WakeCovers, DrainComing, OneKindOfFault, Waiting, Timely, TimerFor,
       SlotFreed, Announced,
       store, drain, timers, arming, leasing, sockets, worker, bounds
<1>8. FaultsShow'
  BY DEF DispatchInductive, FaultsShow, SlotFreed, Announced, drain, timers, arming, leasing,
       worker, bounds
<1> QED  BY <1>1, <1>2, <1>3, <1>4, <1>5, <1>6, <1>7, <1>8 DEF DispatchInductive

\* A close handler ends when its leases are released, and wakes the drain.
LEMMA CloseReleasesPreserves ==
    ASSUME DispatchInductive, NEW w \in Workers, CloseReleases(w)
    PROVE  DispatchInductive'
<1>1. ASSUME NEW j \in lost, ReleaseHandoff(j), UNCHANGED <<closing, waking>>
      PROVE  DispatchInductive'
  <2>1. /\ ReturnedNow(j) /\ j \in Jobs /\ j \in lost /\ lost' = lost \ {j} /\ zombies' \in [Workers -> Nat]
        /\ w \in closing /\ UNCHANGED <<closing, waking>>
        /\ UNCHANGED <<drain, timers, recoveries, sockets, wire, goodbye, up, bounds>>
    BY <1>1, ReleaseReturns, DispatchAssumption DEF DispatchInductive, CloseReleases, TypeOK
  <2>2. TypeOK'
    <3>1. RowsTyped'
      BY <2>1 DEF LeasedAs, ReturnedNow
    <3>2. DrainTyped'
      BY <2>1 DEF DispatchInductive, TypeOK, DrainTyped, local, drain, timers, arming, bounds
    <3>3. MainTyped'
      BY <2>1 DEF DispatchInductive, TypeOK, MainTyped, leasing, sockets
    <3>4. WorkersTyped'
      BY <2>1 DEF DispatchInductive, TypeOK, WorkersTyped, worker, bounds
    <3> QED  BY <3>1, <3>2, <3>3, <3>4 DEF TypeOK, RowsTyped, DrainTyped, MainTyped, WorkersTyped
  <2>3. DrainHolds'
    BY <2>1, DispatchAssumption DEF DispatchInductive, DrainHolds, LeaseIsTracked, TypeOK,
         LeasedAs, ReturnedNow, RowsTyped, OthersKept, store, local, drain
  <2>4. LeasesHeld'
    BY <2>1 DEF DispatchInductive, LeasesHeld, LeasedAs, ReturnedNow, RowsTyped, OthersKept, store
  <2>5. LeaseIsTracked'
    <3> SUFFICES ASSUME NEW k \in Jobs PROVE Tracked(k)'
      BY DEF LeaseIsTracked, Tracked
    <3>1. Tracked(k)
      BY DEF DispatchInductive, LeaseIsTracked, Tracked
    <3>2. CASE k = j
      BY <2>1, <3>1, <3>2, DispatchAssumption DEF DispatchInductive, Tracked, DrainHolds,
           LeaseIsTracked, TypeOK, LeasesHeld, LeasedAs, ReturnedNow, RowsTyped, OthersKept, store,
           local, drain, timers, arming, leasing, sockets, worker, bounds
    <3>3. CASE k # j
      BY <2>1, <3>1, <3>3, DispatchAssumption DEF DispatchInductive, Tracked, DrainHolds,
           LeaseIsTracked, TypeOK, LeasesHeld, LeasedAs, ReturnedNow, RowsTyped, OthersKept, store,
           local, drain, timers, arming, leasing, sockets, worker, bounds
    <3> QED  BY <3>2, <3>3
  <2>6. Reclaimed'
    <3>1. LostReclaimed'
      BY <2>1 DEF DispatchInductive, Reclaimed, LostReclaimed, TypeOK, LeasedAs, ReturnedNow,
           RowsTyped, OthersKept, store, timers, arming, leasing
    <3>2. RecoveriesReclaimed'
      BY <2>1 DEF DispatchInductive, Reclaimed, RecoveriesReclaimed, LeasedAs, ReturnedNow,
           RowsTyped, OthersKept, local, drain, timers, arming, leasing
    <3> QED  BY <3>1, <3>2 DEF Reclaimed
  <2>7. TimerCovers'
    BY <2>1 DEF DispatchInductive, TimerCovers, FutureJobHasTimer, TimerFor, DrainComing, Future,
         LeasedAs,
         ReturnedNow, RowsTyped, OthersKept, store, drain, timers, arming, leasing, bounds
  <2>8. WakeCovers'
    BY <2>1 DEF DispatchInductive, WakeCovers, DrainComing, OneKindOfFault, Waiting, Timely,
         TimerFor, LeasedAs,
         ReturnedNow, RowsTyped, OthersKept, store, drain, timers, arming, leasing, sockets, worker,
         bounds
  <2>9. FaultsShow'
    BY <2>1 DEF DispatchInductive, FaultsShow, LeasedAs, ReturnedNow, RowsTyped, OthersKept, drain,
         timers, arming, leasing, worker, bounds
  <2> QED  BY <2>2, <2>3, <2>4, <2>5, <2>6, <2>7, <2>8, <2>9 DEF DispatchInductive
<1>2. CASE (\A j \in lost : on[j] # w) /\ closing' = closing \ {w} /\ waking' = TRUE /\ UNCHANGED <<store, lost, zombies>>
  <2>1. /\ w \in closing /\ closing' = closing \ {w} /\ waking' /\ \A j \in lost : on[j] # w
        /\ UNCHANGED <<store, lost, zombies>>
        /\ UNCHANGED <<drain, timers, recoveries, sockets, wire, goodbye, up, bounds>>
    BY <1>2, DispatchAssumption DEF DispatchInductive, CloseReleases
  <2>2. TypeOK'
    <3>1. RowsTyped'
      BY <2>1 DEF DispatchInductive, TypeOK, RowsTyped, store
    <3>2. DrainTyped'
      BY <2>1 DEF DispatchInductive, TypeOK, DrainTyped, local, drain, timers, arming, bounds
    <3>3. MainTyped'
      BY <2>1 DEF DispatchInductive, TypeOK, MainTyped, leasing, sockets
    <3>4. WorkersTyped'
      BY <2>1 DEF DispatchInductive, TypeOK, WorkersTyped, worker, bounds
    <3> QED  BY <3>1, <3>2, <3>3, <3>4 DEF TypeOK, RowsTyped, DrainTyped, MainTyped, WorkersTyped
  <2>3. DrainHolds'
    BY <2>1 DEF DispatchInductive, DrainHolds, store, local, drain
  <2>4. LeasesHeld'
    BY <2>1 DEF DispatchInductive, LeasesHeld, store
  <2>5. LeaseIsTracked'
    BY <2>1 DEF DispatchInductive, LeaseIsTracked, store, local, drain, leasing, sockets
  <2>6. Reclaimed'
    <3>1. LostReclaimed'
      BY <2>1 DEF DispatchInductive, Reclaimed, LostReclaimed, store, timers, arming, leasing
    <3>2. RecoveriesReclaimed'
      BY <2>1 DEF DispatchInductive, Reclaimed, RecoveriesReclaimed, local, drain, timers, arming,
           leasing
    <3> QED  BY <3>1, <3>2 DEF Reclaimed
  <2>7. TimerCovers'
    BY <2>1 DEF DispatchInductive, TimerCovers, FutureJobHasTimer, TimerFor, DrainComing, Future, store,
         drain, timers, arming, leasing, bounds
  <2>8. WakeCovers'
    BY <2>1 DEF DispatchInductive, WakeCovers, DrainComing, OneKindOfFault, Waiting, Timely,
         TimerFor, store, drain,
         timers, arming, leasing, sockets, worker, bounds
  <2>9. FaultsShow'
    BY <2>1 DEF DispatchInductive, FaultsShow, drain, timers, arming, leasing, worker, bounds
  <2> QED  BY <2>2, <2>3, <2>4, <2>5, <2>6, <2>7, <2>8, <2>9 DEF DispatchInductive
<1> QED
  BY <1>1, <1>2 DEF CloseReleases

\* One that fails arms the retry.
LEMMA CloseFailsPreserves ==
    ASSUME DispatchInductive, NEW w \in Workers, CloseFails(w)
    PROVE  DispatchInductive'
<1>1. TypeOK'
  BY DispatchAssumption DEF DispatchInductive, TypeOK, DrainHolds, LeasesHeld, LeaseIsTracked,
       CloseFails, DbError, store, local, drain, timers, arming, leasing, sockets, worker, bounds
<1>2. DrainHolds'
  BY DEF DispatchInductive, DrainHolds, CloseFails, store, local, drain
<1>3. LeasesHeld'
  BY DEF DispatchInductive, LeasesHeld, CloseFails, store
<1>4. LeaseIsTracked'
  BY DEF DispatchInductive, LeaseIsTracked, CloseFails, store, local, drain, leasing, sockets
<1>5. Reclaimed'
  BY DEF DispatchInductive, Reclaimed, LostReclaimed, RecoveriesReclaimed, CloseFails, store,
       local, drain, timers, arming, leasing
<1>6. TimerCovers'
  BY DEF DispatchInductive, TimerCovers, FutureJobHasTimer, TimerFor, DrainComing, Future,
       CloseFails, store,
       drain, timers, arming, leasing, bounds
<1>7. WakeCovers'
  BY DispatchAssumption DEF DispatchInductive, WakeCovers, DrainComing, OneKindOfFault, Waiting,
       Timely, TimerFor,
       TimerCovers, FutureJobHasTimer, Future, FaultsShow, TypeOK, CloseFails, DbError, store,
       drain, timers, arming, leasing, sockets, worker, bounds
<1>8. FaultsShow'
  BY DEF DispatchInductive, FaultsShow, TypeOK, CloseFails, DbError, drain, timers, arming, leasing,
       worker, bounds
<1> QED  BY <1>1, <1>2, <1>3, <1>4, <1>5, <1>6, <1>7, <1>8 DEF DispatchInductive

\* A job that starts keeps its lease,
LEMMA JobArrivesPreserves ==
    ASSUME DispatchInductive, NEW j \in Jobs, JobArrives(j)
    PROVE  DispatchInductive'
<1>1. TypeOK'
  BY DEF DispatchInductive, TypeOK, JobArrives, Announced, store, local, drain, timers, arming, leasing,
       sockets, worker, bounds
<1>2. DrainHolds'
  BY DEF DispatchInductive, DrainHolds, JobArrives, store, local, drain
<1>3. LeasesHeld'
  BY DispatchAssumption DEF DispatchInductive, LeasesHeld, DrainHolds, LeaseIsTracked, TypeOK,
       JobArrives, store
<1>4. LeaseIsTracked'
  BY DispatchAssumption DEF DispatchInductive, LeaseIsTracked, DrainHolds, LeasesHeld, TypeOK,
       JobArrives, Announced, store, local, drain, leasing, sockets
<1>5. Reclaimed'
  BY DEF DispatchInductive, Reclaimed, LostReclaimed, RecoveriesReclaimed, JobArrives, store,
       local, drain, timers, arming, leasing
<1>6. TimerCovers'
  BY DEF DispatchInductive, TimerCovers, FutureJobHasTimer, TimerFor, DrainComing, Future,
       JobArrives, store,
       drain, timers, arming, leasing, bounds
<1>7. WakeCovers'
  BY DEF DispatchInductive, WakeCovers, DrainComing, OneKindOfFault, Waiting, Timely, TimerFor,
       JobArrives,
       Announced, store, drain, timers, arming, leasing, sockets, worker, bounds
<1>8. FaultsShow'
  BY DEF DispatchInductive, FaultsShow, JobArrives, Announced, drain, timers, arming, leasing, worker,
       bounds
<1> QED  BY <1>1, <1>2, <1>3, <1>4, <1>5, <1>6, <1>7, <1>8 DEF DispatchInductive

\* and so does one that has finished.
LEMMA JobFinishesPreserves ==
    ASSUME DispatchInductive, NEW j \in Jobs, JobFinishes(j)
    PROVE  DispatchInductive'
<1>1. TypeOK'
  BY DEF DispatchInductive, TypeOK, JobFinishes, Announced, store, local, drain, timers, arming,
       leasing,
       sockets, worker, bounds
<1>2. DrainHolds'
  BY DEF DispatchInductive, DrainHolds, JobFinishes, store, local, drain
<1>3. LeasesHeld'
  BY DispatchAssumption DEF DispatchInductive, LeasesHeld, DrainHolds, LeaseIsTracked, TypeOK,
       JobFinishes, store
<1>4. LeaseIsTracked'
  BY DispatchAssumption DEF DispatchInductive, LeaseIsTracked, DrainHolds, LeasesHeld, TypeOK,
       JobFinishes, Announced, store, local, drain, leasing, sockets
<1>5. Reclaimed'
  BY DEF DispatchInductive, Reclaimed, LostReclaimed, RecoveriesReclaimed, JobFinishes, store,
       local, drain, timers, arming, leasing
<1>6. TimerCovers'
  BY DEF DispatchInductive, TimerCovers, FutureJobHasTimer, TimerFor, DrainComing, Future, JobFinishes,
       store, drain, timers, arming, leasing, bounds
<1>7. WakeCovers'
  BY DEF DispatchInductive, WakeCovers, DrainComing, OneKindOfFault, Waiting, Timely, TimerFor,
       JobFinishes,
       Announced, store, drain, timers, arming, leasing, sockets, worker, bounds
<1>8. FaultsShow'
  BY DEF DispatchInductive, FaultsShow, JobFinishes, Announced, drain, timers, arming, leasing, worker,
       bounds
<1> QED  BY <1>1, <1>2, <1>3, <1>4, <1>5, <1>6, <1>7, <1>8 DEF DispatchInductive

\* With the report the lease ends.
LEMMA JobCompletesPreserves ==
    ASSUME DispatchInductive, NEW j \in Jobs, JobCompletes(j)
    PROVE  DispatchInductive'
<1>1. TypeOK'
  BY DispatchAssumption DEF DispatchInductive, TypeOK, DrainHolds, LeasesHeld, LeaseIsTracked,
       JobCompletes, Settle, Orphaned, HoldsSlot, store, local, drain, timers, arming, leasing, sockets,
       worker, bounds
<1>2. DrainHolds'
  BY DEF DispatchInductive, DrainHolds, JobCompletes, Settle, Orphaned, HoldsSlot, store, local,
       drain
<1>3. LeasesHeld'
  BY DEF DispatchInductive, LeasesHeld, TypeOK, JobCompletes, Settle, Orphaned, HoldsSlot, store
<1>4. LeaseIsTracked'
  BY DispatchAssumption DEF DispatchInductive, LeaseIsTracked, DrainHolds, LeasesHeld, TypeOK,
       JobCompletes, Settle, Orphaned, HoldsSlot, store, local, drain, leasing, sockets
<1>5. Reclaimed'
  BY DEF DispatchInductive, Reclaimed, LostReclaimed, RecoveriesReclaimed, TypeOK, JobCompletes,
       Settle, Orphaned, store, local, drain, timers, arming, leasing
<1>6. TimerCovers'
  BY DEF DispatchInductive, TimerCovers, FutureJobHasTimer, TimerFor, DrainComing, Future, JobCompletes,
       Settle, store, drain, timers, arming, leasing, bounds
<1>7. WakeCovers'
  BY DEF DispatchInductive, WakeCovers, DrainComing, OneKindOfFault, Waiting, Timely, TimerFor,
       JobCompletes, Settle,
       store, drain, timers, arming, leasing, sockets, worker, bounds
<1>8. FaultsShow'
  BY DEF DispatchInductive, FaultsShow, JobCompletes, Settle, drain, timers, arming, leasing,
       worker, bounds
<1> QED  BY <1>1, <1>2, <1>3, <1>4, <1>5, <1>6, <1>7, <1>8 DEF DispatchInductive

\* A failure ends it as well, and wakes the drain.
LEMMA JobFailsPreserves ==
    ASSUME DispatchInductive, NEW j \in Jobs, JobFails(j)
    PROVE  DispatchInductive'
<1>1. TypeOK'
  BY DispatchAssumption DEF DispatchInductive, TypeOK, DrainHolds, LeasesHeld, LeaseIsTracked,
       JobFails, Settle, Orphaned, HoldsSlot, store, local, drain, timers, arming, leasing, sockets,
       worker, bounds
<1>2. DrainHolds'
  BY DEF DispatchInductive, DrainHolds, JobFails, Settle, Orphaned, HoldsSlot, store, local, drain
<1>3. LeasesHeld'
  BY DEF DispatchInductive, LeasesHeld, TypeOK, JobFails, Settle, Orphaned, HoldsSlot, store
<1>4. LeaseIsTracked'
  BY DispatchAssumption DEF DispatchInductive, LeaseIsTracked, DrainHolds, LeasesHeld, TypeOK,
       JobFails, Settle, Orphaned, HoldsSlot, store, local, drain, leasing, sockets
<1>5. Reclaimed'
  BY DEF DispatchInductive, Reclaimed, LostReclaimed, RecoveriesReclaimed, TypeOK, JobFails,
       Settle, Orphaned, store, local, drain, timers, arming, leasing
<1>6. TimerCovers'
  BY DEF DispatchInductive, TimerCovers, FutureJobHasTimer, TimerFor, DrainComing, Future, JobFails,
       Settle,
       store, drain, timers, arming, leasing, bounds
<1>7. WakeCovers'
  BY DEF DispatchInductive, WakeCovers, DrainComing, OneKindOfFault, Waiting, Timely, TimerFor,
       JobFails, Settle,
       store, drain, timers, arming, leasing, sockets, worker, bounds
<1>8. FaultsShow'
  BY DEF DispatchInductive, FaultsShow, JobFails, Settle, drain, timers, arming, leasing, worker, bounds
<1> QED  BY <1>1, <1>2, <1>3, <1>4, <1>5, <1>6, <1>7, <1>8 DEF DispatchInductive

\* A job that is to run again is a future job with a wake-up.
LEMMA JobReturnsPreserves ==
    ASSUME DispatchInductive, NEW j \in Jobs, NEW d \in Delays, JobReturns(j, d)
    PROVE  DispatchInductive'
<1>1. TypeOK'
  BY DispatchAssumption DEF DispatchInductive, TypeOK, DrainHolds, LeasesHeld, LeaseIsTracked,
       JobReturns, Requeue, Orphaned, HoldsSlot, store, local, drain, timers, arming, leasing, sockets,
       worker, bounds
<1>2. DrainHolds'
  BY DEF DispatchInductive, DrainHolds, JobReturns, Requeue, Orphaned, HoldsSlot, store, local,
       drain
<1>3. LeasesHeld'
  BY DEF DispatchInductive, LeasesHeld, TypeOK, JobReturns, Requeue, Orphaned, HoldsSlot, store
<1>4. LeaseIsTracked'
  BY DispatchAssumption DEF DispatchInductive, LeaseIsTracked, DrainHolds, LeasesHeld, TypeOK,
       JobReturns, Requeue, Orphaned, HoldsSlot, store, local, drain, leasing, sockets
<1>5. Reclaimed'
  BY DEF DispatchInductive, Reclaimed, LostReclaimed, RecoveriesReclaimed, TypeOK, JobReturns,
       Requeue, Orphaned, store, local, drain, timers, arming, leasing
<1>6. TimerCovers'
  BY DEF DispatchInductive, TimerCovers, FutureJobHasTimer, TimerFor, DrainComing, Future, JobReturns,
       Requeue, store, drain, timers, arming, leasing, bounds
<1>7. WakeCovers'
  BY DEF DispatchInductive, WakeCovers, DrainComing, OneKindOfFault, Waiting, Timely, TimerFor,
       JobReturns, Requeue,
       store, drain, timers, arming, leasing, sockets, worker, bounds
<1>8. FaultsShow'
  BY DEF DispatchInductive, FaultsShow, JobReturns, drain, timers, arming, leasing, worker, bounds
<1> QED  BY <1>1, <1>2, <1>3, <1>4, <1>5, <1>6, <1>7, <1>8 DEF DispatchInductive

-----------------------------------------------------------------------------
(* The theorems.                                                           *)

\* Before the first job there is nothing to track.
LEMMA DispatchStarts == Init => DispatchInductive
<1> SUFFICES ASSUME Init PROVE DispatchInductive
  OBVIOUS
<1>1. TypeOK
  <2>1. RowsTyped
    BY DispatchAssumption DEF Init, RowsTyped
  <2>2. DrainTyped /\ MainTyped
    <3>1. 0 \in 0..0
      OBVIOUS
    <3> QED  BY <3>1 DEF Init, DrainTyped, MainTyped
  <2>3. WorkersTyped
    BY DispatchAssumption DEF Init, WorkersTyped
  <2> QED  BY <2>1, <2>2, <2>3 DEF TypeOK, RowsTyped, DrainTyped, MainTyped, WorkersTyped
<1>2. DrainHolds /\ LeasesHeld /\ LeaseIsTracked /\ Reclaimed /\ FaultsShow
  BY DispatchAssumption DEF Init, DrainHolds, LeasesHeld, LeaseIsTracked, Reclaimed, LostReclaimed,
       RecoveriesReclaimed, FaultsShow
<1>3. TimerCovers /\ WakeCovers
  BY DEF Init, TimerCovers, FutureJobHasTimer, WakeCovers, Waiting, Timely, TimerFor
<1> QED  BY <1>1, <1>2, <1>3 DEF DispatchInductive

\* Every step of the drain, the callbacks, the workers and the clock keeps it.
LEMMA DispatchStep ==
    ASSUME DispatchInductive, [Next]_vars
    PROVE  DispatchInductive'
<1>1. CASE DrainProbe
  BY <1>1, DrainProbePreserves
<1>2. CASE DrainAdmit
  BY <1>2, DrainAdmitPreserves
<1>3. CASE DrainHand
  BY <1>3, DrainHandPreserves
<1>4. CASE DrainHandFails
  BY <1>4, DrainHandFailsPreserves
<1>5. CASE DrainRecovers
  BY <1>5, DrainRecoversPreserves
<1>6. CASE DrainDeliver
  BY <1>6, DrainDeliverPreserves
<1>7. CASE DrainReturns
  BY <1>7, DrainReturnsPreserves
<1>8. CASE ArmNext
  BY <1>8, ArmNextPreserves
<1>9. CASE ArmProbe
  BY <1>9, ArmProbePreserves
<1>10. CASE ArmSet
  BY <1>10, ArmSetPreserves
<1>11. CASE DrainFails
  BY <1>11, DrainFailsPreserves
<1>12. CASE Wake
  BY <1>12, WakePreserves
<1>13. CASE TimerFires
  BY <1>13, TimerFiresPreserves
<1>14. CASE Tick
  BY <1>14, TickPreserves
<1>15. ASSUME NEW j \in Jobs, NEW d \in Delays, Enqueue(j, d) PROVE DispatchInductive'
  BY <1>15, EnqueuePreserves
<1>16. CASE ErrTimerFires
  BY <1>16, ErrTimerFiresPreserves
<1>17. CASE RetryRecovers
  BY <1>17, RetryRecoversPreserves
<1>18. CASE RetryReleases
  BY <1>18, RetryReleasesPreserves
<1>19. CASE RetryFails
  BY <1>19, RetryFailsPreserves
<1>20. ASSUME NEW w \in Workers, Connect(w) PROVE DispatchInductive'
  BY <1>20, ConnectPreserves
<1>21. ASSUME NEW w \in Workers, WorkerReady(w) PROVE DispatchInductive'
  BY <1>21, WorkerReadyPreserves
<1>22. ASSUME NEW w \in Workers, WorkerStops(w) PROVE DispatchInductive'
  BY <1>22, WorkerStopsPreserves
<1>23. ASSUME NEW w \in Workers, WorkerDraining(w) PROVE DispatchInductive'
  BY <1>23, WorkerDrainingPreserves
<1>24. ASSUME NEW w \in Workers, LoseSocket(w) PROVE DispatchInductive'
  BY <1>24, LoseSocketPreserves
<1>25. ASSUME NEW w \in Workers, WorkerExits(w) PROVE DispatchInductive'
  BY <1>25, WorkerExitsPreserves
<1>26. ASSUME NEW w \in Workers, SlotFreed(w) PROVE DispatchInductive'
  BY <1>26, SlotFreedPreserves
<1>27. ASSUME NEW w \in Workers, CloseReleases(w) PROVE DispatchInductive'
  BY <1>27, CloseReleasesPreserves
<1>28. ASSUME NEW w \in Workers, CloseFails(w) PROVE DispatchInductive'
  BY <1>28, CloseFailsPreserves
<1>29. ASSUME NEW j \in Jobs, JobArrives(j) PROVE DispatchInductive'
  BY <1>29, JobArrivesPreserves
<1>30. ASSUME NEW j \in Jobs, JobFinishes(j) PROVE DispatchInductive'
  BY <1>30, JobFinishesPreserves
<1>31. ASSUME NEW j \in Jobs, JobCompletes(j) PROVE DispatchInductive'
  BY <1>31, JobCompletesPreserves
<1>32. ASSUME NEW j \in Jobs, JobFails(j) PROVE DispatchInductive'
  BY <1>32, JobFailsPreserves
<1>33. ASSUME NEW j \in Jobs, NEW d \in Delays, JobReturns(j, d) PROVE DispatchInductive'
  BY <1>33, JobReturnsPreserves
<1>34. CASE UNCHANGED vars
  <2>1. TypeOK'
    BY <1>34 DEF vars, store, local, drain, timers, arming, leasing, sockets, worker, bounds,
         DispatchInductive, TypeOK
  <2>2. DrainHolds'
    BY <1>34 DEF vars, store, local, drain, timers, arming, leasing, sockets, worker, bounds,
         DispatchInductive, DrainHolds
  <2>3. LeasesHeld'
    BY <1>34 DEF vars, store, local, drain, timers, arming, leasing, sockets, worker, bounds,
         DispatchInductive, LeasesHeld
  <2>4. LeaseIsTracked'
    BY <1>34 DEF vars, store, local, drain, timers, arming, leasing, sockets, worker, bounds,
         DispatchInductive, LeaseIsTracked
  <2>5. Reclaimed'
    BY <1>34 DEF vars, store, local, drain, timers, arming, leasing, sockets, worker, bounds,
         DispatchInductive, Reclaimed, LostReclaimed, RecoveriesReclaimed
  <2>6. TimerCovers'
    BY <1>34 DEF vars, store, local, drain, timers, arming, leasing, sockets, worker, bounds,
         DispatchInductive, TimerCovers, FutureJobHasTimer, TimerFor, DrainComing, Future
  <2>7. WakeCovers'
    BY <1>34 DEF vars, store, local, drain, timers, arming, leasing, sockets, worker, bounds,
         DispatchInductive, WakeCovers, OneKindOfFault, Waiting, Timely, TimerFor, DrainComing
  <2>8. FaultsShow'
    BY <1>34 DEF vars, store, local, drain, timers, arming, leasing, sockets, worker, bounds,
         DispatchInductive, FaultsShow
  <2> QED  BY <2>1, <2>2, <2>3, <2>4, <2>5, <2>6, <2>7, <2>8 DEF DispatchInductive
<1> QED
  BY <1>1, <1>2, <1>3, <1>4, <1>5, <1>6, <1>7, <1>8, <1>9, <1>10, <1>11, <1>12, <1>13, <1>14,
       <1>15, <1>16, <1>17, <1>18, <1>19, <1>20, <1>21, <1>22, <1>23, <1>24, <1>25, <1>26, <1>27,
       <1>28, <1>29, <1>30, <1>31, <1>32, <1>33, <1>34 DEF Next, Dispatcher, Callbacks, Failures,
       Report

\* The inductive invariant holds of every behaviour of the dispatcher.
LEMMA DispatchInvariant == Spec => []DispatchInductive
<1>1. DispatchInductive /\ [Next]_vars => DispatchInductive'
  BY DispatchStep
<1> QED  BY DispatchStarts, <1>1, PTL DEF Spec

\* The dispatcher's state is well typed: a ready or draining worker is connected,
\* and no counter leaves its range.
THEOREM DispatchTyped == Spec => []TypeOK
<1>1. DispatchInductive => TypeOK
  BY DEF DispatchInductive
<1> QED  BY DispatchInvariant, <1>1, PTL

\* A due job and a ready worker never sit side by side while the dispatcher
\* sleeps, but for the time by which the job's own timer is late, through
\* failing calls, lost sockets and coalesced drains (_drain,
\* _armScheduledTimer, _clearErrorRetryTimer).
THEOREM WakeupsNotLost == Spec => []NoLostWakeup
<1>1. DispatchInductive => NoLostWakeup
  BY DEF DispatchInductive, WakeCovers, NoLostWakeup, OneKindOfFault, Waiting, Timely, DrainComing,
       Eligible
<1> QED  BY DispatchInvariant, <1>1, PTL

\* A job that is not due yet is covered by a timer, or by a drain that will set
\* one, and the timer is late by no more than the second look of
\* _armScheduledTimer took.
THEOREM FutureJobsTimed == Spec => []FutureJobHasTimer
<1>1. DispatchInductive => FutureJobHasTimer
  BY DEF DispatchInductive, TimerCovers
<1> QED  BY DispatchInvariant, <1>1, PTL

\* A lease taken from a closed socket, or whose write may have committed, has
\* somebody left to give it back (_retryAfterError, _handleWorkerSocketClosed).
THEOREM LeasesReclaimed == Spec => []LeaseHasReclaimer
<1>1. DispatchInductive => LeaseHasReclaimer
  <2>1. \A r : r = <<picked, TRUE>> => r[1] = picked
    OBVIOUS
  <2> QED
    BY <2>1 DEF DispatchInductive, Reclaimed, LostReclaimed, RecoveriesReclaimed, LeaseHasReclaimer
<1> QED  BY DispatchInvariant, <1>1, PTL

\* A lease is in exactly one pair of hands (_deliverJob, _recoverHandoff, the
\* workerHandoffs maps).
THEOREM LeasesTracked == Spec => []LeaseIsTracked
<1>1. DispatchInductive => LeaseIsTracked
  BY DEF DispatchInductive
<1> QED  BY DispatchInvariant, <1>1, PTL

=============================================================================
