-------------------------- MODULE JobStoreHistory ---------------------------
(***************************************************************************)
(* More proofs about the durable job store: attempts and the retry budget, *)
(* settled jobs, the count stream, schedule keys, and the refinement of    *)
(* JobLease.                                                               *)
(*                                                                         *)
(* Thirteen operations change the table in only six ways.  StepEffect      *)
(* proves that once; what the rows and leases go through over time is then *)
(* proved for the six.                                                     *)
(***************************************************************************)
EXTENDS JobStoreProofs

-----------------------------------------------------------------------------
(* What a step does to rows and leases.                                    *)

\* A new row is queued; the job it supersedes, if any, is cancelled.
Insertion(j, old) ==
    /\ jobs[j].status = "none"
    /\ jobs'[j].status = "queued" /\ jobs'[j].attempts = 0
    /\ old \in Jobs =>
          /\ jobs[old].status = "queued"
          /\ jobs'[old] = [jobs[old] EXCEPT !.status = "cancelled"]
    /\ \A i \in Jobs \ {j, old} : jobs'[i] = jobs[i]
    /\ leases' = leases /\ fate' = fate

\* A queued row is cancelled.
Cancellation(j) ==
    /\ jobs[j].status = "queued"
    /\ jobs'[j] = [jobs[j] EXCEPT !.status = "cancelled"]
    /\ \A i \in Jobs \ {j} : jobs'[i] = jobs[i]
    /\ leases' = leases /\ fate' = fate

\* A queued row gets a lease that was never issued before.
LeaseGiven(j, h) ==
    /\ jobs[j].status = "queued" /\ fate[h] = "unissued"
    /\ jobs'[j].status = "handed_off" /\ jobs'[j].handoff = h
    /\ jobs'[j].attempts = jobs[j].attempts
    /\ jobs'[j].maxRetries = jobs[j].maxRetries
    /\ jobs'[j].skey = jobs[j].skey
    /\ \A i \in Jobs \ {j} : jobs'[i] = jobs[i]
    /\ leases'[h] # None /\ leases'[h].job = j
    /\ fate'[h] = "live"
    /\ \A g \in Handoffs \ {h} : leases'[g] = leases[g] /\ fate'[g] = fate[g]

\* The row of a running job gives its lease up, at no cost or as a failure.
GivenUp(j) ==
    /\ jobs'[j].status \in {"completed", "queued", "cancelled"}
    /\ jobs'[j].attempts = jobs[j].attempts
    /\ fate'[jobs[j].handoff] \in {"completed", "rescheduled", "reclaimed"}

Charged(j) ==
    /\ \E terminal \in {"failed", "orphaned"} :
          jobs'[j].status = IF WillRetry(jobs[j]) THEN "queued" ELSE terminal
    /\ jobs'[j].attempts = jobs[j].attempts + 1
    /\ fate'[jobs[j].handoff] = "failed"

\* The leases of the running jobs S end, and no others.
Settlement(S) ==
    /\ S # {}
    /\ \A j \in S : /\ jobs[j].status = "handed_off"
                    /\ jobs'[j].maxRetries = jobs[j].maxRetries
                    /\ jobs'[j].skey = jobs[j].skey
                    /\ GivenUp(j) \/ Charged(j)
    /\ \A i \in Jobs \ S : jobs'[i] = jobs[i]
    /\ \A h \in Handoffs : (\A j \in S : jobs[j].handoff # h) => fate'[h] = fate[h]
    /\ leases' = leases

\* The rows S are deleted, and with them the leases they run under.
Removal(S) ==
    /\ \A j \in S : jobs[j].status # "none" /\ jobs'[j] = NoRow("deleted")
    /\ \A i \in Jobs \ S : jobs'[i] = jobs[i]
    /\ \A h \in Handoffs :
          fate'[h] = IF fate[h] = "live" /\ leases[h].job \in S
                     THEN "reclaimed" ELSE fate[h]
    /\ leases' = leases

\* Rows and leases stay as they are.
Rest == jobs' = jobs /\ leases' = leases /\ fate' = fate

Effect ==
    \/ \E j \in Jobs, old \in Jobs \cup {None} : Insertion(j, old)
    \/ \E j \in Jobs : Cancellation(j)
    \/ \E j \in Jobs, h \in Handoffs : LeaseGiven(j, h)
    \/ \E S \in SUBSET Jobs : Settlement(S)
    \/ \E S \in SUBSET Jobs : Removal(S)
    \/ Rest

\* An accepted report or a return settles one lease.
LEMMA OneSettled ==
    ASSUME TypeOK, LeaseInv, NEW h \in Handoffs, leases[h] # None,
           jobs[leases[h].job].status = "handed_off",
           jobs[leases[h].job].handoff = h,
           NEW what \in {"completed", "failed", "rescheduled", "reclaimed"},
           fate' = [fate EXCEPT ![h] = Ended(h, what)],
           leases' = leases,
           \A i \in Jobs \ {leases[h].job} : jobs'[i] = jobs[i],
           jobs'[leases[h].job].maxRetries = jobs[leases[h].job].maxRetries,
           jobs'[leases[h].job].skey = jobs[leases[h].job].skey,
           IF what = "failed"
           THEN /\ \E terminal \in {"failed", "orphaned"} :
                      jobs'[leases[h].job].status =
                          IF WillRetry(jobs[leases[h].job]) THEN "queued" ELSE terminal
                /\ jobs'[leases[h].job].attempts = jobs[leases[h].job].attempts + 1
           ELSE /\ jobs'[leases[h].job].status \in {"completed", "queued", "cancelled"}
                /\ jobs'[leases[h].job].attempts = jobs[leases[h].job].attempts
    PROVE  Settlement({leases[h].job})
<1> DEFINE j == leases[h].job
<1>1. j \in Jobs /\ fate[h] = "live"
    BY AcceptedIsLive
<1>2. fate'[h] = what /\ \A g \in Handoffs : g # h => fate'[g] = fate[g]
    BY <1>1 DEF Ended, TypeOK
<1>3. GivenUp(j) \/ Charged(j)
    BY <1>2 DEF GivenUp, Charged
<1> QED  BY <1>1, <1>2, <1>3 DEF Settlement

\* _applyFailure charges the attempt and keeps what does not change.
LEMMA FailedRowFields ==
    ASSUME TypeOK, NEW j \in Jobs, NEW terminal \in {"failed", "orphaned"}
    PROVE  LET row == FailedRow(jobs[j], terminal) IN
           /\ row.status = IF WillRetry(jobs[j]) THEN "queued" ELSE terminal
           /\ row.attempts = jobs[j].attempts + 1
           /\ row.maxRetries = jobs[j].maxRetries
           /\ row.skey = jobs[j].skey
<1>1. jobs[j] \in Row
    BY DEF TypeOK
<1> QED  BY <1>1 DEF FailedRow, Row

\* Every operation of the store has one of the six effects.
LEMMA StepEffect == TypeOK /\ LeaseInv /\ [Next]_vars => Effect
<1> SUFFICES ASSUME TypeOK, LeaseInv, [Next]_vars PROVE Effect
    OBVIOUS
<1>0. jobs \in [Jobs -> Row] /\ fate \in [Handoffs -> Fates]
        /\ leases \in [Handoffs -> Lease \cup {None}]
        /\ owner \in [ScheduleKeys -> Jobs \cup {None}]
    BY DEF TypeOK
<1>1. ASSUME NEW j \in Jobs, NEW req \in Requests, NEW dedupe \in BOOLEAN,
             Enqueue(j, req, dedupe)
      PROVE  Effect
    <2>1. Insertion(j, None)
        BY <1>0, <1>1, StoreAssumption DEF Enqueue, InsertPreparedJob, NoRow, Insertion
    <2> QED  BY <2>1 DEF Effect
<1>2. ASSUME NEW s \in ScheduleKeys, NEW j \in Jobs, NEW req \in Requests,
             ReplaceScheduled(s, j, req)
      PROVE  Effect
    <2> DEFINE supersedes == owner[s] # None /\ jobs[owner[s]].status = "queued"
               old == IF supersedes THEN owner[s] ELSE None
    <2>1. old \in Jobs \cup {None}
        BY <1>0
    <2>2. CASE supersedes
        <3>1. owner[s] \in Jobs /\ owner[s] # j
            BY <1>0, <1>2, <2>2 DEF ReplaceScheduled, InsertPreparedJob
        <3>2. Insertion(j, owner[s])
            BY <1>0, <1>2, <2>2, <3>1
            DEF ReplaceScheduled, InsertPreparedJob, NoRow, Insertion, Row
        <3> QED  BY <3>1, <3>2 DEF Effect
    <2>3. CASE ~supersedes
        <3>1. Insertion(j, None)
            BY <1>0, <1>2, <2>3, StoreAssumption
            DEF ReplaceScheduled, InsertPreparedJob, NoRow, Insertion
        <3> QED  BY <3>1 DEF Effect
    <2> QED  BY <2>2, <2>3
<1>3. ASSUME NEW s \in ScheduleKeys, CancelScheduled(s)
      PROVE  Effect
    <2>1. owner[s] \in Jobs
        BY <1>0, <1>3 DEF CancelScheduled
    <2>2. CASE jobs[owner[s]].status = "queued"
        <3>1. Cancellation(owner[s])
            BY <1>0, <1>3, <2>1, <2>2 DEF CancelScheduled, Cancellation
        <3> QED  BY <2>1, <3>1 DEF Effect
    <2>3. CASE jobs[owner[s]].status # "queued"
        BY <1>3, <2>3 DEF CancelScheduled, Effect, Rest
    <2> QED  BY <2>2, <2>3
<1>4. ASSUME NEW j \in Jobs, NEW h \in Handoffs, NEW w \in Workers,
             MarkHandedOff(j, h, w)
      PROVE  Effect
    <2>1. [job |-> j, worker |-> w, handedOffAt |-> now] # None
        BY StoreAssumption DEF Lease, TypeOK
    <2>2. leases'[h] # None /\ leases'[h].job = j
        BY <1>0, <1>4, <2>1 DEF MarkHandedOff
    <2>3. LeaseGiven(j, h)
        BY <1>0, <1>4, <2>2 DEF MarkHandedOff, LeaseGiven, Row
    <2> QED  BY <2>3 DEF Effect
<1>a. ASSUME NEW h \in Handoffs, Settlement({leases[h].job}),
             leases[h] # None
      PROVE  Effect
    <2>1. {leases[h].job} \in SUBSET Jobs
        BY <1>0, <1>a DEF Lease
    <2> QED  BY <1>a, <2>1 DEF Effect
<1>5. ASSUME NEW h \in Handoffs, MarkCompleted(h)
      PROVE  Effect
    <2> DEFINE j == leases[h].job
    <2>1. leases[h] # None /\ jobs[j].status = "handed_off" /\ jobs[j].handoff = h
            /\ leases' = leases /\ fate' = [fate EXCEPT ![h] = Ended(h, "completed")]
        BY <1>5 DEF MarkCompleted, ShouldAcceptReport
    <2>2. j \in Jobs
        BY <2>1, AcceptedIsLive
    <2>3. /\ jobs'[j].status = "completed" /\ jobs'[j].attempts = jobs[j].attempts
          /\ jobs'[j].maxRetries = jobs[j].maxRetries /\ jobs'[j].skey = jobs[j].skey
          /\ \A i \in Jobs \ {j} : jobs'[i] = jobs[i]
        BY <1>0, <1>5, <2>2 DEF MarkCompleted, Row
    <2>4. Settlement({j})
        BY <2>1, <2>3, OneSettled
    <2> QED  BY <1>a, <2>1, <2>4
<1>b. ASSUME NEW j \in Jobs, NEW due
      PROVE  LET row == Requeued(jobs[j], due) IN
             /\ row.status = "queued" /\ row.attempts = jobs[j].attempts
             /\ row.maxRetries = jobs[j].maxRetries /\ row.skey = jobs[j].skey
    <2>1. jobs[j] \in Row
        BY <1>0
    <2> QED  BY <2>1 DEF Requeued, Row
<1>6. ASSUME NEW h \in Handoffs, NEW delay \in Delays,
             MarkRescheduled(h, delay)
      PROVE  Effect
    <2> DEFINE j == leases[h].job
    <2>1. leases[h] # None /\ jobs[j].status = "handed_off" /\ jobs[j].handoff = h
            /\ leases' = leases /\ fate' = [fate EXCEPT ![h] = Ended(h, "rescheduled")]
        BY <1>6 DEF MarkRescheduled, ShouldAcceptReport
    <2>2. j \in Jobs
        BY <2>1, AcceptedIsLive
    <2>3. /\ jobs'[j] = Requeued(jobs[j], now + delay)
          /\ \A i \in Jobs \ {j} : jobs'[i] = jobs[i]
        BY <1>0, <1>6, <2>2 DEF MarkRescheduled
    <2>4. /\ jobs'[j].status = "queued" /\ jobs'[j].attempts = jobs[j].attempts
          /\ jobs'[j].maxRetries = jobs[j].maxRetries /\ jobs'[j].skey = jobs[j].skey
        BY <1>b, <2>2, <2>3
    <2>5. Settlement({j})
        BY <2>1, <2>3, <2>4, OneSettled
    <2> QED  BY <1>a, <2>1, <2>5
<1>7. ASSUME NEW h \in Handoffs, MarkFailed(h)
      PROVE  Effect
    <2> DEFINE j == leases[h].job
    <2>1. leases[h] # None /\ jobs[j].status = "handed_off" /\ jobs[j].handoff = h
            /\ leases' = leases /\ fate' = [fate EXCEPT ![h] = Ended(h, "failed")]
        BY <1>7 DEF MarkFailed, ShouldAcceptReport
    <2>2. j \in Jobs
        BY <2>1, AcceptedIsLive
    <2>3. /\ jobs'[j] = FailedRow(jobs[j], "failed")
          /\ \A i \in Jobs \ {j} : jobs'[i] = jobs[i]
        BY <1>0, <1>7, <2>2 DEF MarkFailed
    <2>4. Settlement({j})
        BY <2>1, <2>2, <2>3, FailedRowFields, OneSettled
    <2> QED  BY <1>a, <2>1, <2>4
<1>8. ASSUME NEW h \in Handoffs, MarkReturnedToQueue(h)
      PROVE  Effect
    <2> DEFINE j == leases[h].job
    <2>1. leases[h] # None /\ jobs[j].status = "handed_off" /\ jobs[j].handoff = h
            /\ leases' = leases /\ fate' = [fate EXCEPT ![h] = Ended(h, "reclaimed")]
        BY <1>8 DEF MarkReturnedToQueue
    <2>2. j \in Jobs
        BY <2>1, AcceptedIsLive
    <2>3. /\ jobs'[j] = Requeued(jobs[j], now)
          /\ \A i \in Jobs \ {j} : jobs'[i] = jobs[i]
        BY <1>0, <1>8, <2>2 DEF MarkReturnedToQueue
    <2>4. /\ jobs'[j].status = "queued" /\ jobs'[j].attempts = jobs[j].attempts
          /\ jobs'[j].maxRetries = jobs[j].maxRetries /\ jobs'[j].skey = jobs[j].skey
        BY <1>b, <2>2, <2>3
    <2>5. Settlement({j})
        BY <2>1, <2>3, <2>4, OneSettled
    <2> QED  BY <1>a, <2>1, <2>5
<1>9. ASSUME MarkOrphanedJobs
      PROVE  Effect
    <2>1. Stale \in SUBSET Jobs /\ Stale # {}
            /\ \A j \in Stale : jobs[j].status = "handed_off"
        BY <1>9 DEF MarkOrphanedJobs, Stale
    <2>2. \A j \in Stale : jobs[j].handoff \in Handoffs /\ fate[jobs[j].handoff] = "live"
        BY <2>1 DEF LeaseInv
    <2>3. \A h \in Handoffs : fate'[h] = IF \E j \in Stale : jobs[j].handoff = h
                                         THEN Ended(h, "failed") ELSE fate[h]
        BY <1>9 DEF MarkOrphanedJobs
    <2>4. \A j \in Stale : jobs'[j] = FailedRow(jobs[j], "orphaned")
        BY <1>9, <2>1 DEF MarkOrphanedJobs
    <2>5. \A j \in Stale : Charged(j)
        BY <2>1, <2>2, <2>3, <2>4, FailedRowFields DEF Charged, Ended
    <2>6. Settlement(Stale)
        BY <1>9, <2>1, <2>3, <2>4, <2>5, FailedRowFields
        DEF Settlement, MarkOrphanedJobs
    <2> QED  BY <2>1, <2>6 DEF Effect
<1>10. ASSUME NEW j \in Jobs, Cancel(j)
       PROVE  Effect
    <2>1. /\ jobs'[j] = [jobs[j] EXCEPT !.status = "cancelled"] /\ leases' = leases
          /\ \A i \in Jobs \ {j} : jobs'[i] = jobs[i]
        BY <1>0, <1>10 DEF Cancel
    <2>2. CASE jobs[j].status = "handed_off"
        <3> DEFINE h == jobs[j].handoff
        <3>1. h \in Handoffs /\ leases[h].job = j /\ fate[h] = "live"
                /\ leases[h] # None
            BY <2>2 DEF LeaseInv
        <3>2. h # None
            BY <3>1, StoreAssumption
        <3>3. fate' = [fate EXCEPT ![h] = Ended(h, "reclaimed")]
            BY <1>10, <2>2, <3>2 DEF Cancel
        <3>4. /\ jobs'[j].status = "cancelled" /\ jobs'[j].attempts = jobs[j].attempts
              /\ jobs'[j].maxRetries = jobs[j].maxRetries /\ jobs'[j].skey = jobs[j].skey
            BY <1>0, <2>1 DEF Row
        <3> HIDE DEF h
        <3>5. jobs[j].handoff = h
            BY DEF h
        <3>6. Settlement({leases[h].job})
            BY <2>1, <2>2, <3>1, <3>3, <3>4, <3>5, OneSettled
        <3> QED  BY <1>a, <3>1, <3>6
    <2>3. CASE jobs[j].status # "handed_off"
        <3>1. Cancellation(j)
            BY <1>10, <2>1, <2>3 DEF Cancel, Cancellation
        <3> QED  BY <3>1 DEF Effect
    <2> QED  BY <2>2, <2>3
<1>11. ASSUME NEW status \in {"completed", "failed", "orphaned"},
              NEW S \in SUBSET Jobs, PruneTerminalJobs(status, S)
       PROVE  Effect
    <2>1. \A h \in Handoffs : fate[h] = "live" => leases[h].job \notin S
        BY <1>11 DEF PruneTerminalJobs, LeaseInv
    <2>2. Removal(S)
        BY <1>11, <2>1 DEF PruneTerminalJobs, Removal
    <2> QED  BY <2>2 DEF Effect
<1>12. ASSUME ClearAll
       PROVE  Effect
    <2> DEFINE S == {j \in Jobs : jobs[j].status # "none"}
    <2>1. \A h \in Handoffs : fate[h] = "live" => leases[h].job \in S
        BY <1>0 DEF LeaseInv, Lease
    <2>2. Removal(S)
        BY <1>12, <2>1 DEF ClearAll, Removal
    <2> QED  BY <2>2 DEF Effect
<1>13. ASSUME Tick PROVE Effect
    BY <1>13 DEF Tick, Effect, Rest
<1>14. ASSUME UNCHANGED vars PROVE Effect
    BY <1>14 DEF vars, Effect, Rest
<1> QED
    BY <1>1, <1>2, <1>3, <1>4, <1>5, <1>6, <1>7, <1>8, <1>9, <1>10, <1>11,
       <1>12, <1>13, <1>14 DEF Next

-----------------------------------------------------------------------------
(* Attempts.                                                               *)

\* A lease belongs to a job that was inserted.
LeasedWasInserted ==
    \A h \in Handoffs : leases[h] # None => jobs[leases[h].job].status # "none"

AttemptsInv == LeasedWasInserted /\ AttemptsExact /\ RetryBudget

\* The leases that failed under a job.
FailedUnder(j) == {h \in Handoffs : fate[h] = "failed" /\ leases[h].job = j}

\* There are finitely many of them.
LEMMA FailedUnderFinite ==
    ASSUME NEW j
    PROVE  IsFiniteSet(FailedUnder(j)) /\ Cardinality(FailedUnder(j)) \in Nat
BY StoreAssumption, FS_Subset, FS_CardinalityType DEF FailedUnder

\* Every step keeps the leases with jobs that were inserted.
LEMMA InsertedStep ==
    ASSUME TypeOK, LeaseInv, LeasedWasInserted, Effect
    PROVE  LeasedWasInserted'
<1> SUFFICES ASSUME NEW h \in Handoffs, leases'[h] # None
             PROVE  jobs'[leases'[h].job].status # "none"
    BY DEF LeasedWasInserted
<1>0. leases[h] # None => leases[h].job \in Jobs /\ jobs[leases[h].job].status # "none"
    BY DEF TypeOK, Lease, LeasedWasInserted
<1>r. jobs \in [Jobs -> Row]
    BY DEF TypeOK
<1>1. ASSUME NEW j \in Jobs, NEW old \in Jobs \cup {None}, Insertion(j, old)
      PROVE  jobs'[leases'[h].job].status # "none"
    BY <1>0, <1>1, <1>r DEF Insertion, Row
<1>2. ASSUME NEW j \in Jobs, Cancellation(j)
      PROVE  jobs'[leases'[h].job].status # "none"
    BY <1>0, <1>2, <1>r DEF Cancellation, Row
<1>3. ASSUME NEW j \in Jobs, NEW g \in Handoffs, LeaseGiven(j, g)
      PROVE  jobs'[leases'[h].job].status # "none"
    BY <1>0, <1>3 DEF LeaseGiven
<1>4. ASSUME NEW S \in SUBSET Jobs, Settlement(S)
      PROVE  jobs'[leases'[h].job].status # "none"
    BY <1>0, <1>4 DEF Settlement, GivenUp, Charged
<1>5. ASSUME NEW S \in SUBSET Jobs, Removal(S)
      PROVE  jobs'[leases'[h].job].status # "none"
    BY <1>0, <1>5 DEF Removal, NoRow
<1>6. ASSUME Rest
      PROVE  jobs'[leases'[h].job].status # "none"
    BY <1>0, <1>6 DEF Rest
<1> QED  BY <1>1, <1>2, <1>3, <1>4, <1>5, <1>6 DEF Effect

\* Every step charges a job once for each of its leases that fails.
LEMMA AttemptsStep ==
    ASSUME TypeOK, LeaseInv, LeasedWasInserted, AttemptsExact, Effect
    PROVE  AttemptsExact'
<1> SUFFICES ASSUME NEW i \in Jobs, jobs'[i].status \notin {"none", "deleted"}
             PROVE  jobs'[i].attempts = Cardinality(FailedUnder(i)')
    BY DEF AttemptsExact, FailedUnder
<1>0. jobs \in [Jobs -> Row] /\ jobs[i] \in Row
    BY DEF TypeOK
<1>a. ASSUME jobs[i].status \notin {"none", "deleted"},
             jobs'[i].attempts = jobs[i].attempts,
             FailedUnder(i)' = FailedUnder(i)
      PROVE  jobs'[i].attempts = Cardinality(FailedUnder(i)')
    BY <1>a DEF AttemptsExact, FailedUnder
<1>b. \A h \in Handoffs : fate[h] = "failed" => leases[h] # None
    BY DEF LeaseInv
<1>1. ASSUME NEW j \in Jobs, NEW old \in Jobs \cup {None}, Insertion(j, old)
      PROVE  jobs'[i].attempts = Cardinality(FailedUnder(i)')
    <2>1. FailedUnder(i)' = FailedUnder(i)
        BY <1>1 DEF Insertion, FailedUnder
    <2>2. CASE i = j
        <3>1. FailedUnder(j) = {}
            BY <1>1, <1>b DEF Insertion, FailedUnder, LeasedWasInserted
        <3> QED  BY <1>1, <2>1, <2>2, <3>1, FS_EmptySet DEF Insertion
    <2>3. CASE i # j
        <3>1. jobs'[i].attempts = jobs[i].attempts
                /\ jobs[i].status \notin {"none", "deleted"}
            BY <1>0, <1>1, <2>3 DEF Insertion, Row
        <3> QED  BY <1>a, <2>1, <3>1
    <2> QED  BY <2>2, <2>3
<1>2. ASSUME NEW j \in Jobs, Cancellation(j)
      PROVE  jobs'[i].attempts = Cardinality(FailedUnder(i)')
    <2>1. FailedUnder(i)' = FailedUnder(i)
        BY <1>2 DEF Cancellation, FailedUnder
    <2>2. jobs'[i].attempts = jobs[i].attempts
            /\ jobs[i].status \notin {"none", "deleted"}
        BY <1>0, <1>2 DEF Cancellation, Row
    <2> QED  BY <1>a, <2>1, <2>2
<1>3. ASSUME NEW j \in Jobs, NEW h \in Handoffs, LeaseGiven(j, h)
      PROVE  jobs'[i].attempts = Cardinality(FailedUnder(i)')
    <2>1. FailedUnder(i)' = FailedUnder(i)
        BY <1>3 DEF LeaseGiven, FailedUnder
    <2>2. jobs'[i].attempts = jobs[i].attempts
            /\ jobs[i].status \notin {"none", "deleted"}
        BY <1>3 DEF LeaseGiven
    <2> QED  BY <1>a, <2>1, <2>2
<1>4. ASSUME NEW S \in SUBSET Jobs, Settlement(S)
      PROVE  jobs'[i].attempts = Cardinality(FailedUnder(i)')
    <2>1. \A j \in S : jobs[j].handoff \in Handoffs /\ fate[jobs[j].handoff] = "live"
                         /\ leases[jobs[j].handoff].job = j
        BY <1>4 DEF Settlement, LeaseInv
    <2>2. \A h \in Handoffs : leases[h].job # i =>
             (h \in FailedUnder(i)' <=> h \in FailedUnder(i))
        BY <1>4 DEF Settlement, FailedUnder
    <2>3. CASE i \notin S
        <3>1. \A h \in Handoffs : leases[h].job = i => \A j \in S : jobs[j].handoff # h
            BY <2>1, <2>3
        <3>2. \A h \in Handoffs : leases[h].job = i => fate'[h] = fate[h]
            BY <1>4, <3>1 DEF Settlement
        <3>3. FailedUnder(i)' = FailedUnder(i)
            BY <1>4, <3>2 DEF FailedUnder, Settlement
        <3> QED  BY <1>4, <1>a, <2>3, <3>3 DEF Settlement
    <2>4. CASE i \in S
        <3> DEFINE h == jobs[i].handoff
        <3>1. h \in Handoffs /\ fate[h] = "live" /\ leases[h].job = i
            BY <2>1, <2>4
        <3>2. \A g \in Handoffs \ {h} : leases[g].job = i => fate'[g] = fate[g]
            BY <1>4, <2>1 DEF Settlement
        <3>3. jobs[i].status \notin {"none", "deleted"}
            BY <1>4, <2>4 DEF Settlement
        <3>4. CASE GivenUp(i)
            <4>1. fate'[h] # "failed"
                BY <3>4 DEF GivenUp
            <4>2. FailedUnder(i)' = FailedUnder(i)
                BY <1>4, <3>1, <3>2, <4>1 DEF FailedUnder, Settlement
            <4> QED  BY <1>a, <3>3, <3>4, <4>2 DEF GivenUp
        <3>5. CASE Charged(i)
            <4>1. fate'[h] = "failed" /\ leases' = leases
                BY <1>4, <3>5 DEF Charged, Settlement
            <4>2. FailedUnder(i)' = FailedUnder(i) \cup {h} /\ h \notin FailedUnder(i)
                BY <3>1, <3>2, <4>1 DEF FailedUnder
            <4>3. Cardinality(FailedUnder(i)') = Cardinality(FailedUnder(i)) + 1
                BY <4>2, FailedUnderFinite, FS_AddElement
            <4>4. jobs[i].attempts = Cardinality(FailedUnder(i))
                BY <3>3 DEF AttemptsExact, FailedUnder
            <4> QED  BY <3>5, <4>3, <4>4 DEF Charged
        <3> QED  BY <1>4, <2>4, <3>4, <3>5 DEF Settlement
    <2> QED  BY <2>3, <2>4
<1>5. ASSUME NEW S \in SUBSET Jobs, Removal(S)
      PROVE  jobs'[i].attempts = Cardinality(FailedUnder(i)')
    <2>1. i \notin S
        BY <1>5 DEF Removal, NoRow
    <2>2. FailedUnder(i)' = FailedUnder(i)
        BY <1>5 DEF Removal, FailedUnder
    <2> QED  BY <1>5, <1>a, <2>1, <2>2 DEF Removal
<1>6. ASSUME Rest
      PROVE  jobs'[i].attempts = Cardinality(FailedUnder(i)')
    BY <1>6, <1>a DEF Rest, FailedUnder
<1> QED  BY <1>1, <1>2, <1>3, <1>4, <1>5, <1>6 DEF Effect

\* Every step keeps a job that may run within its retries, and gives a job up
\* exactly when they are spent.
LEMMA BudgetStep ==
    ASSUME TypeOK, TypeOK', RetryBudget, Effect
    PROVE  RetryBudget'
<1> SUFFICES ASSUME NEW i \in Jobs
             PROVE  /\ jobs'[i].status \in {"queued", "handed_off"}
                          => jobs'[i].attempts <= jobs'[i].maxRetries
                    /\ jobs'[i].status \in {"failed", "orphaned"}
                          => jobs'[i].attempts = jobs'[i].maxRetries + 1
    BY DEF RetryBudget
<1> DEFINE Goal == /\ jobs'[i].status \in {"queued", "handed_off"}
                         => jobs'[i].attempts <= jobs'[i].maxRetries
                   /\ jobs'[i].status \in {"failed", "orphaned"}
                         => jobs'[i].attempts = jobs'[i].maxRetries + 1
<1>0. jobs \in [Jobs -> Row] /\ jobs[i] \in Row /\ jobs'[i] \in Row
    BY DEF TypeOK
<1>n. /\ jobs[i].attempts \in Nat /\ jobs'[i].attempts \in Nat
      /\ jobs[i].maxRetries \in Nat /\ jobs'[i].maxRetries \in Nat
    <2>1. /\ jobs[i].maxRetries \in RetryLimits \cup {0}
          /\ jobs'[i].maxRetries \in RetryLimits \cup {0}
        BY <1>0 DEF Row
    <2>2. RetryLimits \cup {0} \subseteq Nat
        BY StoreAssumption
    <2>3. jobs[i].attempts \in Nat /\ jobs'[i].attempts \in Nat
        BY <1>0 DEF Row
    <2> QED  BY <2>1, <2>2, <2>3
<1>b. /\ jobs[i].status \in {"queued", "handed_off"}
            => jobs[i].attempts <= jobs[i].maxRetries
      /\ jobs[i].status \in {"failed", "orphaned"}
            => jobs[i].attempts = jobs[i].maxRetries + 1
    BY DEF RetryBudget
<1>1. ASSUME NEW j \in Jobs, NEW old \in Jobs \cup {None}, Insertion(j, old)
      PROVE  Goal
    <2>1. CASE i = j
        BY <1>1, <1>n, <2>1 DEF Insertion
    <2>2. CASE i # j
        BY <1>0, <1>1, <1>b, <2>2 DEF Insertion, Row
    <2> QED  BY <2>1, <2>2
<1>2. ASSUME NEW j \in Jobs, Cancellation(j)
      PROVE  Goal
    BY <1>0, <1>2, <1>b DEF Cancellation, Row
<1>3. ASSUME NEW j \in Jobs, NEW h \in Handoffs, LeaseGiven(j, h)
      PROVE  Goal
    BY <1>3, <1>b DEF LeaseGiven
<1>4. ASSUME NEW S \in SUBSET Jobs, Settlement(S)
      PROVE  Goal
    <2>1. CASE i \notin S
        BY <1>4, <1>b, <2>1 DEF Settlement
    <2>2. CASE i \in S /\ GivenUp(i)
        BY <1>4, <1>b, <2>2 DEF Settlement, GivenUp
    <2>3. CASE i \in S /\ Charged(i)
        <3>1. /\ jobs[i].attempts <= jobs[i].maxRetries
              /\ jobs'[i].maxRetries = jobs[i].maxRetries
              /\ jobs'[i].attempts = jobs[i].attempts + 1
            BY <1>4, <1>b, <2>3 DEF Settlement, Charged
        <3>2. CASE WillRetry(jobs[i])
            <4>1. jobs'[i].status = "queued"
                BY <2>3, <3>2 DEF Charged
            <4> QED  BY <3>1, <3>2, <4>1, <1>n DEF WillRetry
        <3>3. CASE ~WillRetry(jobs[i])
            <4>1. jobs'[i].status \in {"failed", "orphaned"}
                BY <2>3, <3>3 DEF Charged
            <4> QED  BY <3>1, <3>3, <4>1, <1>n DEF WillRetry
        <3> QED  BY <3>2, <3>3
    <2> QED  BY <1>4, <2>1, <2>2, <2>3 DEF Settlement
<1>5. ASSUME NEW S \in SUBSET Jobs, Removal(S)
      PROVE  Goal
    BY <1>5, <1>b DEF Removal, NoRow
<1>6. ASSUME Rest
      PROVE  Goal
    BY <1>6, <1>b DEF Rest
<1> QED  BY <1>1, <1>2, <1>3, <1>4, <1>5, <1>6 DEF Effect

\* What the theorems about attempts rest on.
HistoryInv == StoreInv /\ AttemptsInv

\* No lease has failed and no attempt is charged at the start.
LEMMA HistoryInit == Init => HistoryInv
<1> SUFFICES ASSUME Init PROVE AttemptsInv
    BY StoreInit DEF HistoryInv
<1>1. LeasedWasInserted
    BY DEF Init, LeasedWasInserted
<1> QED  BY <1>1 DEF Init, AttemptsInv, AttemptsExact, RetryBudget, NoRow

\* HistoryInv is inductive.
LEMMA HistoryStep == HistoryInv /\ [Next]_vars => HistoryInv'
<1> SUFFICES ASSUME HistoryInv, [Next]_vars PROVE HistoryInv'
    OBVIOUS
<1>1. StoreInv /\ StoreInv'
    BY StoreStep DEF HistoryInv
<1>2. TypeOK /\ TypeOK' /\ LeaseInv
    BY <1>1 DEF StoreInv
<1>3. Effect
    BY <1>2, StepEffect
<1>4. LeasedWasInserted /\ AttemptsExact /\ RetryBudget
    BY DEF HistoryInv, AttemptsInv
<1>5. LeasedWasInserted'
    BY <1>2, <1>3, <1>4, InsertedStep
<1>6. AttemptsExact'
    BY <1>2, <1>3, <1>4, AttemptsStep
<1>7. RetryBudget'
    BY <1>2, <1>3, <1>4, BudgetStep
<1> QED  BY <1>1, <1>5, <1>6, <1>7 DEF HistoryInv, AttemptsInv

\* attempts is the number of leases that failed under a job: no failure is
\* charged twice and none is missed, however late reports arrive and whatever
\* the sweep, the returns and the reschedules do meanwhile.
THEOREM AttemptsChargedOnce == Spec => []AttemptsExact
<1>1. HistoryInv => AttemptsExact
    BY DEF HistoryInv, AttemptsInv
<1> QED  BY <1>1, HistoryInit, HistoryStep, PTL DEF Spec

\* A job runs as long as it has retries left and fails or is orphaned exactly
\* when they are spent (_applyFailure), for every retry limit.
THEOREM RetriesWithinBudget == Spec => []RetryBudget
<1>1. HistoryInv => RetryBudget
    BY DEF HistoryInv, AttemptsInv
<1> QED  BY <1>1, HistoryInit, HistoryStep, PTL DEF Spec

-----------------------------------------------------------------------------
(* Settled jobs.                                                           *)

\* A job that was completed, failed, orphaned or cancelled changes once more
\* at most, when its row is deleted; a deleted row stays deleted.
THEOREM SettledStaysSettled == Spec => SettledIsFinal
<1> DEFINE Step == \A j \in Jobs :
                      /\ jobs[j].status \in {"completed", "failed", "orphaned", "cancelled", "deleted"}
                      /\ jobs'[j] # jobs[j]
                      => jobs'[j].status = "deleted"
<1>1. StoreInv /\ [Next]_vars => [Step]_vars
    <2> SUFFICES ASSUME StoreInv, [Next]_vars PROVE Step
        OBVIOUS
    <2>1. Effect
        BY StepEffect DEF StoreInv
    <2>2. ASSUME NEW j \in Jobs, NEW old \in Jobs \cup {None}, Insertion(j, old)
          PROVE  Step
        BY <2>2 DEF Insertion
    <2>3. ASSUME NEW j \in Jobs, Cancellation(j)
          PROVE  Step
        BY <2>3 DEF Cancellation
    <2>4. ASSUME NEW j \in Jobs, NEW h \in Handoffs, LeaseGiven(j, h)
          PROVE  Step
        BY <2>4 DEF LeaseGiven
    <2>5. ASSUME NEW S \in SUBSET Jobs, Settlement(S)
          PROVE  Step
        BY <2>5 DEF Settlement
    <2>6. ASSUME NEW S \in SUBSET Jobs, Removal(S)
          PROVE  Step
        BY <2>6 DEF Removal, NoRow
    <2>7. ASSUME Rest
          PROVE  Step
        BY <2>7 DEF Rest
    <2> QED  BY <2>1, <2>2, <2>3, <2>4, <2>5, <2>6, <2>7 DEF Effect
<1> QED  BY <1>1, StoreInit, StoreStep, PTL DEF Spec, SettledIsFinal

-----------------------------------------------------------------------------
(* The store implements JobLease.                                          *)

\* The holder of a running job is a lease; nobody else has one.
LEMMA HolderOf ==
    ASSUME TypeOK, LeaseInv, NEW j \in Jobs
    PROVE  /\ jobs[j].status = "handed_off"
                 => Holder[j] = jobs[j].handoff /\ Holder[j] # None
                    /\ Holder[j] \in Handoffs /\ fate[Holder[j]] = "live"
           /\ jobs[j].status # "handed_off" => Holder[j] = None
BY StoreAssumption DEF Holder, LeaseInv

\* A step that neither starts nor ends a lease is a stuttering step.
LEMMA LeaseStutter ==
    ASSUME \A j \in Jobs :
              /\ jobs'[j].status = "handed_off" <=> jobs[j].status = "handed_off"
              /\ jobs[j].status = "handed_off" => jobs'[j].handoff = jobs[j].handoff,
           \A h \in Handoffs : fate'[h] \in {"unissued", "live"}
                                  <=> fate[h] \in {"unissued", "live"}
    PROVE  Holder' = Holder /\ Spent' = Spent
<1>1. Holder' = Holder
    BY DEF Holder
<1>2. Spent' = Spent
    BY DEF Spent
<1> QED  BY <1>1, <1>2

\* A step that ends the leases of the running jobs S, and only these, settles
\* them.
LEMMA LeaseSettled ==
    ASSUME TypeOK, LeaseInv, NEW S \in SUBSET Jobs, S # {},
           \A j \in S : /\ jobs[j].status = "handed_off"
                        /\ jobs'[j].status # "handed_off",
           \A i \in Jobs \ S :
              /\ jobs'[i].status = "handed_off" <=> jobs[i].status = "handed_off"
              /\ jobs[i].status = "handed_off" => jobs'[i].handoff = jobs[i].handoff,
           \A h \in Handoffs :
              IF \E j \in S : jobs[j].handoff = h
              THEN fate'[h] \notin {"unissued", "live"} ELSE fate'[h] = fate[h]
    PROVE  Leasing!Settle(S)
<1>1. \A j \in S : Holder[j] = jobs[j].handoff /\ Holder[j] # None
                     /\ Holder[j] \in Handoffs /\ fate[Holder[j]] = "live"
    BY HolderOf
<1>2. Holder' = [j \in Jobs |-> IF j \in S THEN None ELSE Holder[j]]
    BY DEF Holder
<1>3. Spent' = Spent \cup {Holder[j] : j \in S}
    <2>1. ASSUME NEW h \in Handoffs
          PROVE  h \in Spent' <=> h \in Spent \/ \E j \in S : Holder[j] = h
        BY <1>1 DEF Spent
    <2>2. Spent \subseteq Handoffs /\ Spent' \subseteq Handoffs
            /\ {Holder[j] : j \in S} \subseteq Handoffs
        BY <1>1 DEF Spent
    <2> QED  BY <2>1, <2>2
<1> QED  BY <1>1, <1>2, <1>3 DEF Leasing!Settle

\* Every step of the store is a step of JobLease, or changes nothing in it.
LEMMA LeasingStep ==
    ASSUME StoreInv, [Next]_vars
    PROVE  [Leasing!Next]_<<Holder, Spent>>
<1>0. TypeOK /\ LeaseInv /\ Effect
    BY StepEffect DEF StoreInv
<1>r. jobs \in [Jobs -> Row] /\ leases \in [Handoffs -> Lease \cup {None}]
    BY <1>0 DEF TypeOK
<1>1. ASSUME NEW j \in Jobs, NEW old \in Jobs \cup {None}, Insertion(j, old)
      PROVE  Holder' = Holder /\ Spent' = Spent
    <2>1. \A i \in Jobs :
             \/ jobs'[i].status \in {"queued", "cancelled"} /\ jobs[i].status \in {"none", "queued"}
             \/ jobs'[i] = jobs[i]
        BY <1>1, <1>r DEF Insertion, Row
    <2> QED  BY <1>1, <2>1, LeaseStutter DEF Insertion
<1>2. ASSUME NEW j \in Jobs, Cancellation(j)
      PROVE  Holder' = Holder /\ Spent' = Spent
    <2>1. \A i \in Jobs :
             \/ jobs'[i].status = "cancelled" /\ jobs[i].status = "queued"
             \/ jobs'[i] = jobs[i]
        BY <1>2, <1>r DEF Cancellation, Row
    <2> QED  BY <1>2, <2>1, LeaseStutter DEF Cancellation
<1>3. ASSUME NEW j \in Jobs, NEW h \in Handoffs, LeaseGiven(j, h)
      PROVE  Leasing!Grant(j, h)
    <2>1. Holder[j] = None
        BY <1>0, <1>3, HolderOf DEF LeaseGiven
    <2>2. h \notin Spent
        BY <1>3 DEF LeaseGiven, Spent
    <2>3. \A i \in Jobs : Holder[i] # h
        <3>1. h # None
            BY StoreAssumption
        <3> QED  BY <1>0, <1>3, <3>1 DEF LeaseGiven, Holder, LeaseInv
    <2>4. Holder' = [Holder EXCEPT ![j] = h]
        BY <1>3 DEF LeaseGiven, Holder
    <2>5. Spent' = Spent
        BY <1>3 DEF LeaseGiven, Spent
    <2> QED  BY <2>1, <2>2, <2>3, <2>4, <2>5 DEF Leasing!Grant
<1>4. ASSUME NEW S \in SUBSET Jobs, Settlement(S)
      PROVE  Leasing!Settle(S)
    <2>1. \A h \in Handoffs : IF \E j \in S : jobs[j].handoff = h
                              THEN fate'[h] \notin {"unissued", "live"}
                              ELSE fate'[h] = fate[h]
        BY <1>4 DEF Settlement, GivenUp, Charged
    <2>2. \A j \in S : jobs[j].status = "handed_off" /\ jobs'[j].status # "handed_off"
        BY <1>4 DEF Settlement, GivenUp, Charged
    <2> QED  BY <1>0, <1>4, <2>1, <2>2, LeaseSettled DEF Settlement
<1>5. ASSUME NEW S \in SUBSET Jobs, Removal(S)
      PROVE  [Leasing!Next]_<<Holder, Spent>>
    <2> DEFINE R == {j \in S : jobs[j].status = "handed_off"}
    <2>1. \A h \in Handoffs : (fate[h] = "live" /\ leases[h].job \in S)
                                 <=> \E j \in R : jobs[j].handoff = h
        BY <1>0 DEF LeaseInv
    <2>2. \A h \in Handoffs : IF \E j \in R : jobs[j].handoff = h
                              THEN fate'[h] = "reclaimed" ELSE fate'[h] = fate[h]
        BY <1>5, <2>1 DEF Removal
    <2>3. \A j \in S : jobs'[j].status = "deleted"
        BY <1>5 DEF Removal, NoRow
    <2>4. \A i \in Jobs \ R :
              /\ jobs'[i].status = "handed_off" <=> jobs[i].status = "handed_off"
              /\ jobs[i].status = "handed_off" => jobs'[i].handoff = jobs[i].handoff
        BY <1>5, <2>3 DEF Removal
    <2>5. R \in SUBSET Jobs /\ \A j \in R : jobs[j].status = "handed_off"
                                              /\ jobs'[j].status # "handed_off"
        BY <2>3
    <2> HIDE DEF R
    <2>6. CASE R = {}
        <3>1. Holder' = Holder /\ Spent' = Spent
            BY <2>2, <2>4, <2>6, LeaseStutter
        <3> QED  BY <3>1
    <2>7. CASE R # {}
        <3>1. Leasing!Settle(R)
            BY <1>0, <2>2, <2>4, <2>5, <2>7, LeaseSettled
        <3> QED  BY <2>5, <3>1 DEF Leasing!Next
    <2> QED  BY <2>6, <2>7
<1>6. ASSUME Rest
      PROVE  Holder' = Holder /\ Spent' = Spent
    BY <1>6, LeaseStutter DEF Rest
<1>7. \/ Leasing!Next
      \/ Holder' = Holder /\ Spent' = Spent
    BY <1>0, <1>1, <1>2, <1>3, <1>4, <1>5, <1>6 DEF Effect, Leasing!Next
<1> QED  BY <1>7

\* The jobs table and the handoff ids in it amount to exclusive one-shot
\* leases, for any number of jobs, leases and workers: the store implements
\* JobLease.
THEOREM StoreImplementsJobLease == Spec => ImplementsJobLease
<1>1. Init => Leasing!Init
    BY DEF Init, NoRow, Holder, Spent, Leasing!Init
<1> QED  BY <1>1, StoreInit, StoreStep, LeasingStep, PTL
         DEF Spec, ImplementsJobLease, Leasing!Spec

-----------------------------------------------------------------------------
(* Schedule keys.                                                          *)

Live == {"queued", "handed_off"}

\* A step that gives up the keys of the jobs S, lets the other jobs that can
\* run go on, and queues no job that was not leased before, keeps both facts
\* about schedule keys.
LEMMA ScheduleKeep ==
    ASSUME TypeOK, OwnerIsLive, OnlyOwnerStarts, NEW S \in SUBSET Jobs,
           owner' = Disowned(S),
           \A j \in Jobs \ S : jobs[j].status \in Live =>
              jobs'[j].status \in Live /\ jobs'[j].skey = jobs[j].skey,
           \A h \in Handoffs : leases[h] # None =>
              leases'[h] # None /\ leases'[h].job = leases[h].job,
           \A j \in Jobs : jobs'[j].status = "queued" /\ jobs'[j].skey # None =>
              \/ \E h \in Handoffs : leases[h] # None /\ leases[h].job = j
              \/ j \notin S /\ jobs'[j] = jobs[j]
    PROVE  OwnerIsLive' /\ OnlyOwnerStarts'
<1>0. jobs \in [Jobs -> Row] /\ owner \in [ScheduleKeys -> Jobs \cup {None}]
    BY DEF TypeOK
<1>1. OwnerIsLive'
    <2> SUFFICES ASSUME NEW s \in ScheduleKeys, owner'[s] # None
                 PROVE  /\ jobs'[owner'[s]].status \in {"queued", "handed_off"}
                        /\ jobs'[owner'[s]].skey = s
        BY DEF OwnerIsLive
    <2>1. owner'[s] = owner[s] /\ owner[s] \in Jobs
        BY <1>0 DEF Disowned
    <2>2. jobs[owner[s]].status \in {"queued", "handed_off"} /\ jobs[owner[s]].skey = s
        BY <2>1 DEF OwnerIsLive
    <2>3. owner[s] \notin S
        BY <2>1, <2>2 DEF Disowned
    <2> QED  BY <2>1, <2>2, <2>3 DEF Live
<1>2. OnlyOwnerStarts'
    <2> SUFFICES ASSUME NEW j \in Jobs, jobs'[j].status = "queued",
                        jobs'[j].skey # None,
                        \A h \in Handoffs : leases'[h] # None => leases'[h].job # j
                 PROVE  owner'[jobs'[j].skey] = j
        BY DEF OnlyOwnerStarts
    <2>1. \A h \in Handoffs : leases[h] # None => leases[h].job # j
        OBVIOUS
    <2>2. j \notin S /\ jobs'[j] = jobs[j]
        BY <2>1
    <2>3. owner[jobs[j].skey] = j /\ jobs[j].skey \in ScheduleKeys
        BY <1>0, <2>1, <2>2 DEF OnlyOwnerStarts, Row
    <2> QED  BY <2>2, <2>3, <1>0, StoreAssumption DEF Disowned
<1> QED  BY <1>1, <1>2

\* A running job was leased.
LEMMA RunningWasLeased ==
    ASSUME LeaseInv, NEW j \in Jobs, jobs[j].status = "handed_off"
    PROVE  \E h \in Handoffs : leases[h] # None /\ leases[h].job = j
BY DEF LeaseInv

\* Every operation keeps the owners of the schedule keys alive, and starts no
\* scheduled job but an owner.
LEMMA ScheduleStep ==
    ASSUME TypeOK, LeaseInv, OwnerIsLive, OnlyOwnerStarts, [Next]_vars
    PROVE  OwnerIsLive' /\ OnlyOwnerStarts'
<1> DEFINE Goal == OwnerIsLive' /\ OnlyOwnerStarts'
<1>0. jobs \in [Jobs -> Row] /\ owner \in [ScheduleKeys -> Jobs \cup {None}]
        /\ leases \in [Handoffs -> Lease \cup {None}]
    BY DEF TypeOK
<1>z. Disowned({}) = owner
    BY <1>0 DEF Disowned
<1>y. \A j \in Jobs : [jobs[j] EXCEPT !.status = "cancelled"].status = "cancelled"
                        /\ [jobs[j] EXCEPT !.status = "cancelled"].skey = jobs[j].skey
    BY <1>0 DEF Row
<1>1. ASSUME NEW j \in Jobs, NEW req \in Requests, NEW dedupe \in BOOLEAN,
             Enqueue(j, req, dedupe)
      PROVE  Goal
    <2>1. /\ jobs[j].status = "none" /\ jobs'[j].skey = None
          /\ \A i \in Jobs \ {j} : jobs'[i] = jobs[i]
          /\ owner' = owner /\ leases' = leases
        BY <1>0, <1>1 DEF Enqueue, InsertPreparedJob, NoRow
    <2> QED  BY <1>z, <2>1, ScheduleKeep DEF Live
<1>2. ASSUME NEW s \in ScheduleKeys, NEW j \in Jobs, NEW req \in Requests,
             ReplaceScheduled(s, j, req)
      PROVE  Goal
    <2> DEFINE old == owner[s]
               supersedes == old # None /\ jobs[old].status = "queued"
    <2>1. /\ jobs[j].status = "none"
          /\ jobs'[j].status = "queued" /\ jobs'[j].skey = s
          /\ leases' = leases /\ owner' = [owner EXCEPT ![s] = j]
        BY <1>0, <1>2 DEF ReplaceScheduled, InsertPreparedJob, NoRow
    <2>2. \A i \in Jobs \ {j, old} : jobs'[i] = jobs[i]
        BY <1>0, <1>2 DEF ReplaceScheduled, InsertPreparedJob
    <2>3. old \in Jobs => old # j /\ jobs[old].skey = s
        BY <2>1, StoreAssumption DEF OwnerIsLive
    <2>4. old \in Jobs => \/ jobs'[old].status = "cancelled"
                          \/ jobs[old].status # "queued" /\ jobs'[old] = jobs[old]
        <3> SUFFICES ASSUME old \in Jobs
                     PROVE  \/ jobs'[old].status = "cancelled"
                            \/ jobs[old].status # "queued" /\ jobs'[old] = jobs[old]
            OBVIOUS
        <3>1. CASE supersedes
            BY <1>0, <1>2, <1>y, <2>3, <3>1 DEF ReplaceScheduled, InsertPreparedJob
        <3>2. CASE ~supersedes
            BY <1>0, <1>2, <2>3, <3>2, StoreAssumption
            DEF ReplaceScheduled, InsertPreparedJob
        <3> QED  BY <3>1, <3>2
    <2>5. OwnerIsLive'
        <3> SUFFICES ASSUME NEW t \in ScheduleKeys, owner'[t] # None
                     PROVE  /\ jobs'[owner'[t]].status \in {"queued", "handed_off"}
                            /\ jobs'[owner'[t]].skey = t
            BY DEF OwnerIsLive
        <3>1. CASE t = s
            BY <1>0, <2>1, <3>1
        <3>2. CASE t # s
            <4>1. owner'[t] = owner[t] /\ owner[t] \in Jobs
                BY <1>0, <2>1, <3>2
            <4>2. jobs[owner[t]].status \in {"queued", "handed_off"}
                    /\ jobs[owner[t]].skey = t
                BY <4>1 DEF OwnerIsLive
            <4>3. owner[t] # j /\ owner[t] # old
                BY <2>1, <2>3, <3>2, <4>1, <4>2
            <4> QED  BY <2>2, <4>1, <4>2, <4>3
        <3> QED  BY <3>1, <3>2
    <2>6. OnlyOwnerStarts'
        <3> SUFFICES ASSUME NEW i \in Jobs, jobs'[i].status = "queued",
                            jobs'[i].skey # None,
                            \A h \in Handoffs : leases'[h] # None => leases'[h].job # i
                     PROVE  owner'[jobs'[i].skey] = i
            BY DEF OnlyOwnerStarts
        <3>1. CASE i = j
            BY <1>0, <2>1, <3>1
        <3>2. CASE i # j
            <4>1. i # old /\ jobs'[i] = jobs[i]
                BY <2>2, <2>4, <3>2
            <4>2. owner[jobs[i].skey] = i /\ jobs[i].skey \in ScheduleKeys
                BY <1>0, <2>1, <4>1 DEF OnlyOwnerStarts, Row
            <4> QED  BY <1>0, <2>1, <4>1, <4>2
        <3> QED  BY <3>1, <3>2
    <2> QED  BY <2>5, <2>6
<1>3. ASSUME NEW s \in ScheduleKeys, CancelScheduled(s)
      PROVE  Goal
    <2> DEFINE j == owner[s]
    <2>1. j \in Jobs /\ leases' = leases /\ owner' = [owner EXCEPT ![s] = None]
        BY <1>0, <1>3 DEF CancelScheduled
    <2>2. jobs[j].status \in Live /\ jobs[j].skey = s
        BY <2>1, StoreAssumption DEF OwnerIsLive, Live
    <2>3. owner' = Disowned({j})
        BY <1>0, <2>1, <2>2 DEF Disowned
    <2>4. \A i \in Jobs \ {j} : jobs'[i] = jobs[i]
        BY <1>0, <1>3, <2>1 DEF CancelScheduled
    <2>5. jobs'[j].status = "queued" => FALSE
        BY <1>0, <1>3, <1>y, <2>1, <2>2 DEF CancelScheduled, Live
    <2> QED  BY <2>1, <2>3, <2>4, <2>5, ScheduleKeep
<1>4. ASSUME NEW j \in Jobs, NEW h \in Handoffs, NEW w \in Workers,
             MarkHandedOff(j, h, w)
      PROVE  Goal
    <2>1. leases[h] = None
        BY <1>4 DEF MarkHandedOff, LeaseInv
    <2>2. \A g \in Handoffs : leases[g] # None => leases'[g] = leases[g]
        BY <1>0, <1>4, <2>1 DEF MarkHandedOff
    <2>3. /\ jobs'[j].status = "handed_off" /\ jobs'[j].skey = jobs[j].skey
          /\ \A i \in Jobs \ {j} : jobs'[i] = jobs[i]
          /\ owner' = owner
        BY <1>0, <1>4 DEF MarkHandedOff, Row
    <2> QED  BY <1>z, <2>2, <2>3, ScheduleKeep DEF Live
<1>a. ASSUME NEW S \in SUBSET Jobs, NEW T \in SUBSET S, leases' = leases,
             owner' = Disowned(T),
             \A j \in S : jobs[j].status = "handed_off",
             \A i \in Jobs \ S : jobs'[i] = jobs[i],
             \A j \in S \ T : jobs'[j].status = "queued"
                                /\ jobs'[j].skey = jobs[j].skey
      PROVE  Goal
    <2>1. \A j \in S : \E h \in Handoffs : leases[h] # None /\ leases[h].job = j
        BY <1>a, RunningWasLeased
    <2> QED  BY <1>a, <2>1, ScheduleKeep DEF Live
<1>5. ASSUME NEW h \in Handoffs, MarkCompleted(h)
      PROVE  Goal
    <2> DEFINE j == leases[h].job
    <2>1. leases[h] # None /\ jobs[j].status = "handed_off" /\ leases' = leases
            /\ owner' = Disowned({j})
        BY <1>5 DEF MarkCompleted, ShouldAcceptReport
    <2>2. j \in Jobs
        BY <1>0, <2>1 DEF Lease
    <2>3. \A i \in Jobs \ {j} : jobs'[i] = jobs[i]
        BY <1>0, <1>5, <2>2 DEF MarkCompleted
    <2> QED  BY <1>a, <2>1, <2>2, <2>3
<1>b. ASSUME NEW j \in Jobs, NEW due
      PROVE  /\ Requeued(jobs[j], due).status = "queued"
             /\ Requeued(jobs[j], due).skey = jobs[j].skey
    <2>1. jobs[j] \in Row
        BY <1>0
    <2> QED  BY <2>1 DEF Requeued, Row
<1>c. ASSUME NEW h \in Handoffs, leases[h] # None, NEW due,
             jobs[leases[h].job].status = "handed_off", leases' = leases,
             owner' = owner,
             jobs' = [jobs EXCEPT ![leases[h].job] = Requeued(@, due)]
      PROVE  Goal
    <2> DEFINE j == leases[h].job
    <2>1. j \in Jobs
        BY <1>0, <1>c DEF Lease
    <2>2. jobs'[j] = Requeued(jobs[j], due) /\ \A i \in Jobs \ {j} : jobs'[i] = jobs[i]
        BY <1>0, <1>c, <2>1
    <2>3. jobs'[j].status = "queued" /\ jobs'[j].skey = jobs[j].skey
        BY <1>b, <2>1, <2>2
    <2>4. owner' = Disowned({})
        BY <1>c, <1>z
    <2> HIDE DEF j
    <2>5. {j} \in SUBSET Jobs /\ {} \in SUBSET {j} /\ jobs[j].status = "handed_off"
            /\ leases' = leases
        BY <1>c, <2>1 DEF j
    <2> QED  BY <1>a, <2>2, <2>3, <2>4, <2>5
<1>6. ASSUME NEW h \in Handoffs, NEW delay \in Delays,
             MarkRescheduled(h, delay)
      PROVE  Goal
    BY <1>6, <1>c DEF MarkRescheduled, ShouldAcceptReport
<1>7. ASSUME NEW h \in Handoffs, MarkFailed(h)
      PROVE  Goal
    <2> DEFINE j == leases[h].job
               T == IF WillRetry(jobs[j]) THEN {} ELSE {j}
    <2>1. leases[h] # None /\ jobs[j].status = "handed_off" /\ leases' = leases
        BY <1>7 DEF MarkFailed, ShouldAcceptReport
    <2>2. j \in Jobs
        BY <1>0, <2>1 DEF Lease
    <2>3. /\ jobs'[j] = FailedRow(jobs[j], "failed")
          /\ \A i \in Jobs \ {j} : jobs'[i] = jobs[i]
        BY <1>0, <1>7, <2>2 DEF MarkFailed
    <2>4. jobs'[j].skey = jobs[j].skey /\ (WillRetry(jobs[j]) => jobs'[j].status = "queued")
        BY <2>2, <2>3, FailedRowFields
    <2>5. owner' = Disowned(T)
        BY <1>7, <1>z DEF MarkFailed
    <2>6. {j} \in SUBSET Jobs /\ T \in SUBSET {j}
            /\ \A i \in {j} \ T : WillRetry(jobs[j]) /\ i = j
        BY <2>2
    <2> HIDE DEF T
    <2> QED  BY <1>a, <2>1, <2>3, <2>4, <2>5, <2>6
<1>8. ASSUME NEW h \in Handoffs, MarkReturnedToQueue(h)
      PROVE  Goal
    BY <1>8, <1>c DEF MarkReturnedToQueue
<1>9. ASSUME MarkOrphanedJobs
      PROVE  Goal
    <2> DEFINE T == {j \in Stale : ~WillRetry(jobs[j])}
    <2>1. Stale \in SUBSET Jobs /\ T \in SUBSET Stale
            /\ \A j \in Stale : jobs[j].status = "handed_off"
        BY DEF Stale
    <2>2. \A j \in Stale : jobs'[j] = FailedRow(jobs[j], "orphaned")
        BY <1>9, <2>1 DEF MarkOrphanedJobs
    <2>3. \A j \in Stale \ T : jobs'[j].status = "queued"
                                 /\ jobs'[j].skey = jobs[j].skey
        BY <2>1, <2>2, FailedRowFields
    <2>4. owner' = Disowned(T) /\ leases' = leases
            /\ \A i \in Jobs \ Stale : jobs'[i] = jobs[i]
        BY <1>9 DEF MarkOrphanedJobs
    <2> HIDE DEF T
    <2> QED  BY <1>a, <2>1, <2>3, <2>4
<1>10. ASSUME NEW j \in Jobs, Cancel(j)
       PROVE  Goal
    <2>1. /\ jobs'[j].status = "cancelled"
          /\ \A i \in Jobs \ {j} : jobs'[i] = jobs[i]
          /\ owner' = Disowned({j}) /\ leases' = leases
        BY <1>0, <1>10, <1>y DEF Cancel
    <2> QED  BY <2>1, ScheduleKeep
<1>11. ASSUME NEW status \in {"completed", "failed", "orphaned"},
              NEW S \in SUBSET Jobs, PruneTerminalJobs(status, S)
       PROVE  Goal
    <2>1. /\ \A j \in S : jobs[j].status \notin Live /\ jobs'[j].status = "deleted"
          /\ \A i \in Jobs \ S : jobs'[i] = jobs[i]
          /\ owner' = owner /\ leases' = leases
        BY <1>11 DEF PruneTerminalJobs, NoRow, Live
    <2> QED  BY <1>z, <2>1, ScheduleKeep
<1>12. ASSUME ClearAll
       PROVE  Goal
    <2>1. \A s \in ScheduleKeys : owner'[s] = None
        BY <1>12 DEF ClearAll
    <2>2. \A j \in Jobs : jobs'[j].status # "queued"
        BY <1>12 DEF ClearAll, NoRow
    <2> QED  BY <2>1, <2>2 DEF OwnerIsLive, OnlyOwnerStarts
<1>13. ASSUME Tick PROVE Goal
    BY <1>13, <1>z, ScheduleKeep DEF Tick
<1>14. ASSUME UNCHANGED vars PROVE Goal
    BY <1>14, <1>z, ScheduleKeep DEF vars
<1> QED
    BY <1>1, <1>2, <1>3, <1>4, <1>5, <1>6, <1>7, <1>8, <1>9, <1>10, <1>11,
       <1>12, <1>13, <1>14 DEF Next

\* What the theorems about schedule keys rest on: a returned or rescheduled
\* job may run without owning its key, which only its lease excuses.
ScheduleInv == StoreInv /\ OwnerIsLive /\ OnlyOwnerStarts

\* The tables start without rows and owners.
LEMMA ScheduleInit == Init => ScheduleInv
BY StoreInit DEF Init, ScheduleInv, OwnerIsLive, OnlyOwnerStarts, NoRow

\* ScheduleInv is inductive.
LEMMA ScheduleKept == ScheduleInv /\ [Next]_vars => ScheduleInv'
BY StoreStep, ScheduleStep DEF ScheduleInv, StoreInv

\* The owner of a schedule key is a job of that key that can still run, so
\* replacing or cancelling the schedule finds the job there is to stop.
THEOREM OwnersCanRun == Spec => []OwnerIsLive
<1>1. ScheduleInv => OwnerIsLive
    BY DEF ScheduleInv
<1> QED  BY <1>1, ScheduleInit, ScheduleKept, PTL DEF Spec

\* A scheduled job that no worker has seen owns its key: whatever replaces and
\* cancellations race, a superseded job is never started.
THEOREM SupersededNeverStarts == Spec => []OnlyOwnerStarts
<1>1. ScheduleInv => OnlyOwnerStarts
    BY DEF ScheduleInv
<1> QED  BY <1>1, ScheduleInit, ScheduleKept, PTL DEF Spec

-----------------------------------------------------------------------------
(* The count stream.                                                       *)

\* The rows that a bucket counts.
InBucket(b) == {j \in Jobs : jobs[j].status \in Counted
                               /\ b \in {jobs[j].status, "all"}}

\* The snapshot of the table is the size of each bucket.
LEMMA SnapshotIs ==
    /\ Snapshot = [b \in Buckets |-> Cardinality(InBucket(b))]
    /\ Snapshot' = [b \in Buckets |-> Cardinality(InBucket(b)')]
BY DEF Snapshot, InBucket

\* A step whose delta is the growth of each bucket keeps the sum right.
LEMMA DeltaIsGrowth ==
    ASSUME CountsMatch, NEW delta, RecordCountDelta(delta),
           \A b \in Buckets :
              Cardinality(InBucket(b)') = Cardinality(InBucket(b)) + delta[b]
    PROVE  CountsMatch'
BY SnapshotIs DEF CountsMatch, RecordCountDelta

\* A bucket changes by the rows that join it and the rows that leave it.
LEMMA BucketChange ==
    ASSUME NEW B \in SUBSET Jobs, NEW In \in SUBSET Jobs, NEW Out \in SUBSET B,
           In \cap B = {}
    PROVE  Cardinality((B \ Out) \cup In) =
              Cardinality(B) + (Cardinality(In) - Cardinality(Out))
<1>1. /\ IsFiniteSet(B) /\ IsFiniteSet(In) /\ IsFiniteSet(Out)
      /\ IsFiniteSet(B \ Out)
      /\ Cardinality(B) \in Nat /\ Cardinality(In) \in Nat
      /\ Cardinality(Out) \in Nat /\ Cardinality(B \ Out) \in Nat
    <2>1. Out \in SUBSET Jobs /\ B \ Out \in SUBSET Jobs
        OBVIOUS
    <2> QED  BY <2>1, JobCount
<1>2. Cardinality(B \ Out) = Cardinality(B) - Cardinality(Out)
    <2>1. Cardinality(B \ Out) = Cardinality(B) - Cardinality(B \cap Out)
        BY <1>1, FS_Difference
    <2>2. B \cap Out = Out
        OBVIOUS
    <2> QED  BY <2>1, <2>2
<1>3. Cardinality((B \ Out) \cup In) = Cardinality(B \ Out) + Cardinality(In)
    <2>1. Cardinality((B \ Out) \cup In) =
             Cardinality(B \ Out) + Cardinality(In) - Cardinality((B \ Out) \cap In)
        BY <1>1, FS_Union
    <2>2. (B \ Out) \cap In = {}
        OBVIOUS
    <2>3. Cardinality((B \ Out) \cap In) = 0
        BY <2>2, FS_EmptySet
    <2> QED  BY <1>1, <2>1, <2>3
<1> QED  BY <1>1, <1>2, <1>3

\* One row moves from a status to another (_recordStatusTransition); a new row
\* comes from the status of a row that is not there.
LEMMA RowMoved ==
    ASSUME TypeOK, TypeOK', CountsMatch, NEW j \in Jobs,
           \A i \in Jobs \ {j} : jobs'[i].status = jobs[i].status,
           RecordCountDelta(Transition(jobs[j].status, jobs'[j].status))
    PROVE  CountsMatch'
<1> DEFINE old == jobs[j].status
           new == jobs'[j].status
           holds(b, s) == s \in Counted /\ b \in {s, "all"}
           one(b, s) == IF holds(b, s) THEN {j} ELSE {}
<1>1. ASSUME NEW b \in Buckets
      PROVE  Cardinality(InBucket(b)') =
                Cardinality(InBucket(b)) + Transition(old, new)[b]
    <2>1. Transition(old, new)[b] =
             (IF holds(b, new) THEN 1 ELSE 0) - (IF holds(b, old) THEN 1 ELSE 0)
        BY DEF Transition
    <2>2. ASSUME NEW s
          PROVE  Cardinality(one(b, s)) = IF holds(b, s) THEN 1 ELSE 0
        <3>1. CASE holds(b, s)
            BY <3>1, FS_Singleton
        <3>2. CASE ~holds(b, s)
            BY <3>2, FS_EmptySet
        <3> QED  BY <3>1, <3>2
    <2>3. InBucket(b) \in SUBSET Jobs /\ InBucket(b)' \in SUBSET Jobs
        BY DEF InBucket
    <2>4. \A i \in Jobs \ {j} : i \in InBucket(b)' <=> i \in InBucket(b)
        BY DEF InBucket
    <2>5. (j \in InBucket(b) <=> holds(b, old)) /\ (j \in InBucket(b)' <=> holds(b, new))
        BY DEF InBucket
    <2> HIDE DEF old, new, holds
    <2>6. CASE holds(b, old) /\ holds(b, new)
        <3>1. InBucket(b)' = InBucket(b)
            BY <2>3, <2>4, <2>5, <2>6
        <3> QED  BY <2>1, <2>3, <2>6, <3>1, JobCount
    <2>7. CASE ~(holds(b, old) /\ holds(b, new))
        <3>1. InBucket(b)' = (InBucket(b) \ one(b, old)) \cup one(b, new)
            BY <2>3, <2>4, <2>5, <2>7
        <3>2. /\ one(b, old) \in SUBSET InBucket(b) /\ one(b, new) \in SUBSET Jobs
              /\ holds(b, new) => one(b, new) \cap InBucket(b) = {}
            BY <2>5, <2>7
        <3>3. one(b, new) \cap InBucket(b) = {}
            BY <3>2
        <3>4. Cardinality(InBucket(b)') = Cardinality(InBucket(b))
                 + (Cardinality(one(b, new)) - Cardinality(one(b, old)))
            BY <2>3, <3>1, <3>2, <3>3, BucketChange
        <3> QED  BY <2>1, <2>2, <3>4
    <2> QED  BY <2>6, <2>7
<1> QED  BY <1>1, DeltaIsGrowth

\* A queued row is replaced by another: no bucket changes its size, and the
\* store rightly records no delta (replaceScheduled).
LEMMA RowReplaced ==
    ASSUME TypeOK, CountsMatch, counts' = counts, NEW j \in Jobs, NEW old \in Jobs,
           jobs[j].status = "none", jobs'[j].status = "queued",
           jobs[old].status = "queued", jobs'[old].status = "cancelled",
           \A i \in Jobs \ {j, old} : jobs'[i].status = jobs[i].status
    PROVE  CountsMatch'
<1>1. ASSUME NEW b \in Buckets
      PROVE  Cardinality(InBucket(b)') = Cardinality(InBucket(b))
    <2>1. InBucket(b) \in SUBSET Jobs /\ InBucket(b)' \in SUBSET Jobs
        BY DEF InBucket
    <2>2. \A i \in Jobs \ {j, old} : i \in InBucket(b)' <=> i \in InBucket(b)
        BY DEF InBucket
    <2>3. /\ j \notin InBucket(b) /\ old \notin InBucket(b)'
          /\ j \in InBucket(b)' <=> old \in InBucket(b)
        BY DEF InBucket, Counted
    <2>4. CASE old \in InBucket(b)
        <3>1. InBucket(b)' = (InBucket(b) \ {old}) \cup {j}
            BY <2>1, <2>2, <2>3, <2>4
        <3>2. Cardinality({j}) = 1 /\ Cardinality({old}) = 1
            BY FS_Singleton
        <3>3. Cardinality(InBucket(b)') = Cardinality(InBucket(b))
                 + (Cardinality({j}) - Cardinality({old}))
            BY <2>1, <2>3, <2>4, <3>1, BucketChange
        <3> QED  BY <2>1, <3>2, <3>3, JobCount
    <2>5. CASE old \notin InBucket(b)
        <3>1. InBucket(b)' = InBucket(b)
            BY <2>1, <2>2, <2>3, <2>5
        <3> QED  BY <3>1
    <2> QED  BY <2>4, <2>5
<1> QED  BY <1>1, SnapshotIs DEF CountsMatch

\* The sweep's delta counts each swept job once where it left and once where
\* it went.
LEMMA RowsSwept ==
    ASSUME TypeOK, CountsMatch, MarkOrphanedJobs
    PROVE  CountsMatch'
<1> DEFINE retried == {j \in Stale : WillRetry(jobs[j])}
           buried == {j \in Stale : ~WillRetry(jobs[j])}
<1>1. /\ retried \in SUBSET Jobs /\ buried \in SUBSET Jobs /\ Stale \in SUBSET Jobs
      /\ \A j \in Stale : jobs[j].status = "handed_off"
    BY DEF Stale
<1>2. \A j \in Stale : jobs'[j].status = IF j \in retried THEN "queued" ELSE "orphaned"
    BY <1>1, FailedRowFields DEF MarkOrphanedJobs
<1>3. \A i \in Jobs \ Stale : jobs'[i] = jobs[i]
    BY DEF MarkOrphanedJobs
<1>4. /\ Cardinality(retried) \in Nat /\ Cardinality(buried) \in Nat
      /\ Cardinality(Stale) = Cardinality(retried) + Cardinality(buried)
    <2>1. Stale = (buried \ {}) \cup retried
        OBVIOUS
    <2>2. retried \cap buried = {} /\ {} \in SUBSET buried
        OBVIOUS
    <2> HIDE DEF retried, buried
    <2>3. Cardinality(retried) \in Nat /\ Cardinality(buried) \in Nat
        BY <1>1, JobCount
    <2>4. Cardinality((buried \ {}) \cup retried) =
             Cardinality(buried) + (Cardinality(retried) - Cardinality({}))
        BY <1>1, <2>2, BucketChange
    <2>5. Cardinality({}) = 0
        BY FS_EmptySet
    <2> QED  BY <2>1, <2>3, <2>4, <2>5
<1>5. \A b \in Buckets : SweepDelta(Stale)[b] =
         IF b = "handed_off" THEN 0 - Cardinality(Stale)
         ELSE IF b = "queued" THEN Cardinality(retried)
         ELSE IF b = "orphaned" THEN Cardinality(buried) ELSE 0
    <2>1. SweepDelta(Stale) =
             [b \in Buckets |->
                 CASE b = "handed_off" -> 0 - (Cardinality(retried) + Cardinality(buried))
                   [] b = "queued"     -> Cardinality(retried)
                   [] b = "orphaned"   -> Cardinality(buried)
                   [] OTHER            -> 0]
        BY DEF SweepDelta
    <2> HIDE DEF retried, buried
    <2> QED  BY <1>4, <2>1
<1> HIDE DEF retried, buried
<1>6. ASSUME NEW b \in Buckets
      PROVE  Cardinality(InBucket(b)') = Cardinality(InBucket(b)) + SweepDelta(Stale)[b]
    <2> DEFINE In == IF b = "queued" THEN retried
                     ELSE IF b = "orphaned" THEN buried ELSE {}
               Out == IF b = "handed_off" THEN Stale ELSE {}
    <2>1. InBucket(b) \in SUBSET Jobs /\ InBucket(b)' \in SUBSET Jobs
        BY DEF InBucket
    <2>2. \A i \in Jobs \ Stale : i \in InBucket(b)' <=> i \in InBucket(b)
        BY <1>3 DEF InBucket
    <2>3. \A i \in Stale : /\ i \in InBucket(b) <=> b \in {"handed_off", "all"}
                           /\ i \in InBucket(b)' <=>
                                 b = "all" \/ (b = "queued" /\ i \in retried)
                                 \/ (b = "orphaned" /\ i \notin retried)
        BY <1>1, <1>2 DEF InBucket, Counted
    <2>4. \A i \in Stale : i \in retried <=> i \notin buried
        BY DEF retried, buried
    <2>5. retried \in SUBSET Stale /\ buried \in SUBSET Stale
        BY DEF retried, buried
    <2>6. InBucket(b)' = (InBucket(b) \ Out) \cup In
        <3>1. CASE b = "handed_off"
            BY <1>1, <2>1, <2>2, <2>3, <3>1
        <3>2. CASE b = "queued"
            BY <1>1, <2>1, <2>2, <2>3, <2>5, <3>2
        <3>3. CASE b = "orphaned"
            BY <1>1, <2>1, <2>2, <2>3, <2>4, <2>5, <3>3
        <3>4. CASE b \notin {"handed_off", "queued", "orphaned"}
            BY <1>1, <2>1, <2>2, <2>3, <3>4
        <3> QED  BY <3>1, <3>2, <3>3, <3>4
    <2>7. In \in SUBSET Jobs /\ Out \in SUBSET InBucket(b) /\ In \cap InBucket(b) = {}
        BY <1>1, <2>3, <2>5
    <2>8. Cardinality(In) - Cardinality(Out) = SweepDelta(Stale)[b]
        <3>1. Cardinality({}) = 0 /\ Cardinality(Stale) \in Nat
            BY <1>1, JobCount, FS_EmptySet
        <3> QED  BY <1>4, <1>5, <3>1
    <2> HIDE DEF In, Out
    <2> QED  BY <2>1, <2>6, <2>7, <2>8, BucketChange
<1> QED  BY <1>6, DeltaIsGrowth DEF MarkOrphanedJobs

\* A batch of pruned rows leaves its bucket and the total.
LEMMA RowsPruned ==
    ASSUME TypeOK, CountsMatch, NEW status \in {"completed", "failed", "orphaned"},
           NEW S \in SUBSET Jobs, PruneTerminalJobs(status, S)
    PROVE  CountsMatch'
<1> DEFINE delta == [b \in Buckets |-> IF b \in {"all", status}
                                       THEN 0 - Cardinality(S) ELSE 0]
<1>1. /\ \A j \in S : jobs[j].status = status /\ jobs'[j].status = "deleted"
      /\ \A i \in Jobs \ S : jobs'[i] = jobs[i]
    BY DEF PruneTerminalJobs, NoRow
<1>2. ASSUME NEW b \in Buckets
      PROVE  Cardinality(InBucket(b)') = Cardinality(InBucket(b)) + delta[b]
    <2> DEFINE Out == IF b \in {"all", status} THEN S ELSE {}
    <2>1. InBucket(b) \in SUBSET Jobs /\ InBucket(b)' \in SUBSET Jobs
        BY DEF InBucket
    <2>2. \A i \in Jobs \ S : i \in InBucket(b)' <=> i \in InBucket(b)
        BY <1>1 DEF InBucket
    <2>3. \A i \in S : i \notin InBucket(b)' /\ (i \in InBucket(b) <=> b \in {"all", status})
        BY <1>1 DEF InBucket, Counted
    <2>4. InBucket(b)' = (InBucket(b) \ Out) \cup {} /\ Out \in SUBSET InBucket(b)
            /\ {} \in SUBSET Jobs /\ {} \cap InBucket(b) = {}
        BY <2>1, <2>2, <2>3
    <2>5. Cardinality({}) - Cardinality(Out) = delta[b]
        BY JobCount, FS_EmptySet
    <2> HIDE DEF Out, delta
    <2> QED  BY <2>1, <2>4, <2>5, BucketChange
<1> QED  BY <1>2, DeltaIsGrowth DEF PruneTerminalJobs

\* Clearing subtracts the snapshot, which leaves nothing.
LEMMA RowsCleared ==
    ASSUME TypeOK, CountsMatch, ClearAll
    PROVE  CountsMatch'
<1>1. ASSUME NEW b \in Buckets
      PROVE  Cardinality(InBucket(b)') =
                Cardinality(InBucket(b)) + [x \in Buckets |-> 0 - Snapshot[x]][b]
    <2>1. \A j \in Jobs : jobs'[j].status \in {"none", "deleted"}
        BY DEF ClearAll, NoRow
    <2>2. InBucket(b)' = {}
        BY <2>1 DEF InBucket, Counted
    <2>3. Cardinality(InBucket(b)) \in Nat
        BY JobCount DEF InBucket
    <2> QED  BY <2>2, <2>3, SnapshotIs, FS_EmptySet
<1> QED  BY <1>1, DeltaIsGrowth DEF ClearAll

\* Every operation records what it did to the table.
LEMMA CountsStep ==
    ASSUME TypeOK, TypeOK', LeaseInv, CountsMatch, [Next]_vars
    PROVE  CountsMatch'
<1>0. jobs \in [Jobs -> Row] /\ owner \in [ScheduleKeys -> Jobs \cup {None}]
        /\ leases \in [Handoffs -> Lease \cup {None}]
    BY DEF TypeOK
<1>i. Inserted = Transition("none", "queued")
    BY DEF Inserted, Transition, Buckets, Counted
<1>u. ASSUME jobs' = jobs, counts' = counts
      PROVE  CountsMatch'
    BY <1>u DEF CountsMatch, Snapshot
<1>1. ASSUME NEW j \in Jobs, NEW req \in Requests, NEW dedupe \in BOOLEAN,
             Enqueue(j, req, dedupe)
      PROVE  CountsMatch'
    <2>1. /\ jobs[j].status = "none" /\ jobs'[j].status = "queued"
          /\ RecordCountDelta(Inserted)
          /\ \A i \in Jobs \ {j} : jobs'[i] = jobs[i]
        BY <1>0, <1>1 DEF Enqueue, InsertPreparedJob, NoRow
    <2> QED  BY <1>i, <2>1, RowMoved
<1>2. ASSUME NEW s \in ScheduleKeys, NEW j \in Jobs, NEW req \in Requests,
             ReplaceScheduled(s, j, req)
      PROVE  CountsMatch'
    <2> DEFINE old == owner[s]
               supersedes == old # None /\ jobs[old].status = "queued"
    <2>1. CASE supersedes
        <3>1. old \in Jobs /\ old # j
            BY <1>0, <1>2, <2>1 DEF ReplaceScheduled, InsertPreparedJob
        <3>2. /\ jobs[j].status = "none" /\ jobs'[j].status = "queued"
              /\ jobs'[old].status = "cancelled" /\ counts' = counts
              /\ \A i \in Jobs \ {j, old} : jobs'[i] = jobs[i]
            BY <1>0, <1>2, <2>1, <3>1
            DEF ReplaceScheduled, InsertPreparedJob, NoRow, Row
        <3> QED  BY <2>1, <3>1, <3>2, RowReplaced
    <2>2. CASE ~supersedes
        <3>1. /\ jobs[j].status = "none" /\ jobs'[j].status = "queued"
              /\ RecordCountDelta(Inserted)
              /\ \A i \in Jobs \ {j} : jobs'[i] = jobs[i]
            BY <1>0, <1>2, <2>2 DEF ReplaceScheduled, InsertPreparedJob, NoRow
        <3> QED  BY <1>i, <3>1, RowMoved
    <2> QED  BY <2>1, <2>2
<1>3. ASSUME NEW s \in ScheduleKeys, CancelScheduled(s)
      PROVE  CountsMatch'
    <2> DEFINE j == owner[s]
    <2>1. j \in Jobs
        BY <1>0, <1>3 DEF CancelScheduled
    <2>2. CASE jobs[j].status = "queued"
        <3>1. /\ jobs'[j].status = "cancelled"
              /\ RecordCountDelta(Transition("queued", "cancelled"))
              /\ \A i \in Jobs \ {j} : jobs'[i] = jobs[i]
            BY <1>0, <1>3, <2>1, <2>2 DEF CancelScheduled, Row
        <3> QED  BY <2>1, <2>2, <3>1, RowMoved
    <2>3. CASE jobs[j].status # "queued"
        BY <1>3, <1>u, <2>3 DEF CancelScheduled
    <2> QED  BY <2>2, <2>3
<1>4. ASSUME NEW j \in Jobs, NEW h \in Handoffs, NEW w \in Workers,
             MarkHandedOff(j, h, w)
      PROVE  CountsMatch'
    <2>1. /\ jobs[j].status = "queued" /\ jobs'[j].status = "handed_off"
          /\ RecordCountDelta(Transition("queued", "handed_off"))
          /\ \A i \in Jobs \ {j} : jobs'[i] = jobs[i]
        BY <1>0, <1>4 DEF MarkHandedOff, Row
    <2> QED  BY <2>1, RowMoved
<1>5. ASSUME NEW h \in Handoffs, MarkCompleted(h)
      PROVE  CountsMatch'
    <2> DEFINE j == leases[h].job
    <2>1. leases[h] # None /\ jobs[j].status = "handed_off"
        BY <1>5 DEF MarkCompleted, ShouldAcceptReport
    <2>2. j \in Jobs
        BY <1>0, <2>1 DEF Lease
    <2>3. /\ jobs'[j].status = "completed"
          /\ RecordCountDelta(Transition("handed_off", "completed"))
          /\ \A i \in Jobs \ {j} : jobs'[i] = jobs[i]
        BY <1>0, <1>5, <2>2 DEF MarkCompleted, Row
    <2> QED  BY <2>1, <2>2, <2>3, RowMoved
<1>b. ASSUME NEW h \in Handoffs, leases[h] # None, NEW due,
             jobs[leases[h].job].status = "handed_off",
             jobs' = [jobs EXCEPT ![leases[h].job] = Requeued(@, due)],
             RecordCountDelta(Transition("handed_off", "queued"))
      PROVE  CountsMatch'
    <2> DEFINE j == leases[h].job
    <2>1. j \in Jobs
        BY <1>0, <1>b DEF Lease
    <2>2. jobs'[j] = Requeued(jobs[j], due) /\ \A i \in Jobs \ {j} : jobs'[i] = jobs[i]
        BY <1>0, <1>b, <2>1
    <2>3. jobs'[j].status = "queued"
        BY <1>0, <2>1, <2>2 DEF Requeued, Row
    <2> QED  BY <1>b, <2>1, <2>2, <2>3, RowMoved
<1>6. ASSUME NEW h \in Handoffs, NEW delay \in Delays,
             MarkRescheduled(h, delay)
      PROVE  CountsMatch'
    BY <1>6, <1>b DEF MarkRescheduled, ShouldAcceptReport
<1>7. ASSUME NEW h \in Handoffs, MarkFailed(h)
      PROVE  CountsMatch'
    <2> DEFINE j == leases[h].job
    <2>1. leases[h] # None /\ jobs[j].status = "handed_off"
        BY <1>7 DEF MarkFailed, ShouldAcceptReport
    <2>2. j \in Jobs
        BY <1>0, <2>1 DEF Lease
    <2>3. /\ RecordCountDelta(Transition("handed_off", jobs'[j].status))
          /\ \A i \in Jobs \ {j} : jobs'[i] = jobs[i]
        BY <1>0, <1>7, <2>2 DEF MarkFailed
    <2> QED  BY <2>1, <2>2, <2>3, RowMoved
<1>8. ASSUME NEW h \in Handoffs, MarkReturnedToQueue(h)
      PROVE  CountsMatch'
    BY <1>8, <1>b DEF MarkReturnedToQueue
<1>9. ASSUME MarkOrphanedJobs
      PROVE  CountsMatch'
    BY <1>9, RowsSwept
<1>10. ASSUME NEW j \in Jobs, Cancel(j)
       PROVE  CountsMatch'
    <2>1. /\ jobs'[j].status = "cancelled"
          /\ RecordCountDelta(Transition(jobs[j].status, "cancelled"))
          /\ \A i \in Jobs \ {j} : jobs'[i] = jobs[i]
        BY <1>0, <1>10 DEF Cancel, Row
    <2> QED  BY <2>1, RowMoved
<1>11. ASSUME NEW status \in {"completed", "failed", "orphaned"},
              NEW S \in SUBSET Jobs, PruneTerminalJobs(status, S)
       PROVE  CountsMatch'
    BY <1>11, RowsPruned
<1>12. ASSUME ClearAll
       PROVE  CountsMatch'
    BY <1>12, RowsCleared
<1>13. ASSUME Tick PROVE CountsMatch'
    BY <1>13, <1>u DEF Tick
<1>14. ASSUME UNCHANGED vars PROVE CountsMatch'
    BY <1>14, <1>u DEF vars
<1> QED
    BY <1>1, <1>2, <1>3, <1>4, <1>5, <1>6, <1>7, <1>8, <1>9, <1>10, <1>11,
       <1>12, <1>13, <1>14 DEF Next

\* The sum of the deltas broadcast after each commit is the table, whatever
\* operations were mixed: a dashboard that applies them all never drifts.
THEOREM CountsAreExact == Spec => []CountsMatch
<1> DEFINE Inv == StoreInv /\ CountsMatch
<1>1. Init => Inv
    <2> SUFFICES ASSUME Init PROVE CountsMatch
        BY StoreInit
    <2>1. \A b \in Buckets : InBucket(b) = {}
        BY DEF Init, NoRow, InBucket, Counted
    <2>2. Snapshot = [b \in Buckets |-> 0]
        BY <2>1, SnapshotIs, FS_EmptySet
    <2> QED  BY <2>2 DEF Init, CountsMatch
<1>2. Inv /\ [Next]_vars => Inv'
    BY StoreStep, CountsStep DEF StoreInv
<1>3. Inv => CountsMatch
    OBVIOUS
<1> QED  BY <1>1, <1>2, <1>3, PTL DEF Spec

=============================================================================
