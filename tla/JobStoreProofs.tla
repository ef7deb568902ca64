--------------------------- MODULE JobStoreProofs ---------------------------
(***************************************************************************)
(* Machine-checked proofs about the durable job store, for any finite set  *)
(* of jobs and leases and any caps, retry limits, delays and clock bound,  *)
(* and about the transactions of a connection, which all that is stored    *)
(* goes through.                                                           *)
(*                                                                         *)
(* TxnInv, of transactions, follows from a correspondence: the calls of    *)
(* the one caller who is inside, the frames of callbacks and the layers of *)
(* the database have the same depth, each frame holds the callbacks of     *)
(* what its layer has written, and the count says whether there is a       *)
(* layer.  After a deadlock the layers are gone while the calls are        *)
(* unwound, and only there can the count be lost.                          *)
(***************************************************************************)
EXTENDS JobStore, Transactions, SequenceTheorems, FiniteSetTheorems, TLAPS

-----------------------------------------------------------------------------
(* Types of the helpers.                                                   *)

\* The number of jobs of a set of jobs is a natural number.
LEMMA JobCount ==
    ASSUME NEW S \in SUBSET Jobs
    PROVE  IsFiniteSet(S) /\ Cardinality(S) \in Nat
BY StoreAssumption, FS_Subset, FS_CardinalityType

\* Releasing reservations (_releaseConcurrency) never makes a count negative.
LEMMA ReleasedType ==
    ASSUME TypeOK, NEW S \in SUBSET Jobs
    PROVE  Released(S) \in [Keys -> Nat]
<1> SUFFICES ASSUME NEW k \in Keys
             PROVE  LET n == Cardinality({j \in S : jobs[j].ckey = k})
                    IN  (IF active[k] >= n THEN active[k] - n ELSE 0) \in Nat
    BY Zenon DEF Released
<1>1. Cardinality({j \in S : jobs[j].ckey = k}) \in Nat
    <2>1. {j \in S : jobs[j].ckey = k} \in SUBSET Jobs
        OBVIOUS
    <2> QED  BY <2>1, JobCount
<1>2. active[k] \in Nat
    BY DEF TypeOK
<1> QED  BY <1>1, <1>2

\* Releasing schedule ownership leaves each key with a job or nobody.
LEMMA DisownedType ==
    ASSUME TypeOK, NEW S \in SUBSET Jobs
    PROVE  Disowned(S) \in [ScheduleKeys -> Jobs \cup {None}]
BY DEF Disowned, TypeOK

\* Recording an integer delta keeps the sums integers and the revision a
\* natural number.
LEMMA RecordType ==
    ASSUME TypeOK, NEW delta \in [Buckets -> Int], RecordCountDelta(delta)
    PROVE  counts' \in [Buckets -> Int] /\ revision' \in Nat
BY DEF RecordCountDelta, TypeOK

\* A status transition changes each bucket by an integer.
LEMMA TransitionType ==
    ASSUME NEW old, NEW new
    PROVE  Transition(old, new) \in [Buckets -> Int]
BY DEF Transition

\* An orphan sweep changes each bucket by an integer.
LEMMA SweepDeltaType ==
    ASSUME NEW S \in SUBSET Jobs
    PROVE  SweepDelta(S) \in [Buckets -> Int]
<1> DEFINE retried == Cardinality({j \in S : WillRetry(jobs[j])})
           buried == Cardinality({j \in S : ~WillRetry(jobs[j])})
<1>1. retried \in Nat /\ buried \in Nat
    <2>1. /\ {j \in S : WillRetry(jobs[j])} \in SUBSET Jobs
          /\ {j \in S : ~WillRetry(jobs[j])} \in SUBSET Jobs
        OBVIOUS
    <2> QED  BY <2>1, JobCount
<1> SUFFICES ASSUME NEW b \in Buckets
             PROVE  (CASE b = "handed_off" -> 0 - (retried + buried)
                       [] b = "queued"     -> retried
                       [] b = "orphaned"   -> buried
                       [] OTHER            -> 0) \in Int
    BY Zenon DEF SweepDelta
<1> HIDE DEF retried, buried
<1> QED  BY <1>1

\* _failureUpdate turns a row into a row.
LEMMA FailedRowType ==
    ASSUME TypeOK, NEW j \in Jobs, NEW terminal \in {"failed", "orphaned"}
    PROVE  FailedRow(jobs[j], terminal) \in Row
<1> DEFINE row == jobs[j]
<1>1. row \in Row
    BY DEF TypeOK
<1> HIDE DEF row
<1>2. WillRetry(row) => RetryDelays[row.attempts + 1] \in Nat
    <2> SUFFICES ASSUME WillRetry(row) PROVE RetryDelays[row.attempts + 1] \in Nat
        OBVIOUS
    <2>1. row.attempts \in Nat /\ row.maxRetries \in RetryLimits \cup {0}
        BY <1>1 DEF Row
    <2>2. row.maxRetries \in RetryLimits /\ row.attempts + 1 \in 1..row.maxRetries
        BY <2>1, StoreAssumption DEF WillRetry
    <2> QED  BY <2>2, StoreAssumption
<1>3. now \in Nat
    BY DEF TypeOK
<1>4. FailedRow(row, terminal) \in Row
    <2> DEFINE retry == WillRetry(row)
               status == IF retry THEN "queued" ELSE terminal
               time == IF retry THEN now + RetryDelays[row.attempts + 1]
                     ELSE row.scheduledAt
               ended == IF retry THEN row.endedAt ELSE now
    <2>1. row.attempts + 1 \in Nat
        BY <1>1 DEF Row
    <2>2. status \in Statuses
        BY DEF Statuses, Counted
    <2>3. time \in Times
        BY <1>1, <1>2, <1>3 DEF Row, Times
    <2>4. ended \in Times
        BY <1>1, <1>3 DEF Row, Times
    <2>5. FailedRow(row, terminal) =
            [row EXCEPT !.attempts = row.attempts + 1, !.status = status,
                        !.scheduledAt = time, !.endedAt = ended,
                        !.handedOffAt = NoTime, !.worker = None]
        BY <1>1 DEF FailedRow, Row
    <2> HIDE DEF retry, status, time, ended
    <2> QED  BY <1>1, <2>1, <2>2, <2>3, <2>4, <2>5 DEF Row, Times, NoTime
<1> QED  BY <1>4 DEF row

\* _insertPreparedJob keeps the tables well typed.
LEMMA InsertType ==
    ASSUME TypeOK, NEW j \in Jobs, NEW req \in Requests,
           NEW skey \in ScheduleKeys \cup {None}, NEW base \in [Jobs -> Row],
           InsertPreparedJob(j, req, skey, base)
    PROVE  /\ jobs' \in [Jobs -> Row]
           /\ cap' \in [Keys -> Nat]
           /\ active' \in [Keys -> Nat]
<1>1. /\ req.ident \in Idents /\ req.maxRetries \in RetryLimits
      /\ now + req.delay \in Nat
      /\ req.limit.key \in Keys \cup {None} /\ req.limit.max \in Nat
    <2>1. /\ req.ident \in Idents /\ req.maxRetries \in RetryLimits
          /\ req.delay \in Nat /\ req.limit \in Limits
        BY StoreAssumption DEF Requests
    <2>2. req.limit.key \in Keys \cup {None} /\ req.limit.max \in Nat
        <3>1. req.limit \in [key: Keys \cup {None}, max: Caps \cup {0}]
            BY <2>1 DEF Limits
        <3>2. /\ req.limit.key \in Keys \cup {None}
              /\ req.limit.max \in Caps \cup {0}
            BY <3>1
        <3>3. Caps \cup {0} \subseteq Nat
            BY StoreAssumption
        <3> QED  BY <3>2, <3>3
    <2> QED  BY <2>1, <2>2 DEF TypeOK
<1>2. [NoRow("queued") EXCEPT
         !.ident = req.ident, !.ckey = req.limit.key, !.skey = skey,
         !.maxRetries = req.maxRetries, !.scheduledAt = now + req.delay]
      \in Row
    BY <1>1 DEF NoRow, Row, Statuses, Counted, Times, NoTime
<1> QED  BY <1>1, <1>2 DEF InsertPreparedJob, TypeOK

-----------------------------------------------------------------------------
(* Type correctness.                                                       *)

\* Every action of the store keeps its tables well typed.
LEMMA TypeStep == TypeOK /\ [Next]_vars => TypeOK'
<1> SUFFICES ASSUME TypeOK, [Next]_vars PROVE TypeOK'
    OBVIOUS
<1>0. now \in Nat /\ NoRow("deleted") \in Row
    BY DEF TypeOK, NoRow, Row, Statuses, Counted, Times, NoTime
<1>a. Inserted \in [Buckets -> Int]
    BY DEF Inserted
<1>1. ASSUME NEW j \in Jobs, NEW req \in Requests, NEW dedupe \in BOOLEAN,
             Enqueue(j, req, dedupe)
      PROVE  TypeOK'
    <2>1. InsertPreparedJob(j, req, None, jobs) /\ RecordCountDelta(Inserted)
        BY <1>1 DEF Enqueue
    <2>2. jobs' \in [Jobs -> Row] /\ cap' \in [Keys -> Nat]
            /\ active' \in [Keys -> Nat]
        BY <2>1, InsertType DEF TypeOK
    <2>3. counts' \in [Buckets -> Int] /\ revision' \in Nat
        BY <2>1, <1>a, RecordType
    <2> QED  BY <1>1, <2>2, <2>3 DEF Enqueue, TypeOK
<1>2. ASSUME NEW s \in ScheduleKeys, NEW j \in Jobs, NEW req \in Requests,
             ReplaceScheduled(s, j, req)
      PROVE  TypeOK'
    <2> DEFINE supersedes == owner[s] # None /\ jobs[owner[s]].status = "queued"
               base == IF supersedes
                       THEN [jobs EXCEPT ![owner[s]].status = "cancelled"]
                       ELSE jobs
    <2>1. base \in [Jobs -> Row]
        <3>1. owner[s] \in Jobs \cup {None} /\ jobs \in [Jobs -> Row]
            BY DEF TypeOK
        <3> QED  BY <3>1 DEF Row, Statuses, Counted
    <2>2. InsertPreparedJob(j, req, s, base)
        BY <1>2 DEF ReplaceScheduled
    <2>3. jobs' \in [Jobs -> Row] /\ cap' \in [Keys -> Nat]
            /\ active' \in [Keys -> Nat]
        BY <2>1, <2>2, InsertType
    <2>4. counts' \in [Buckets -> Int] /\ revision' \in Nat
        <3>1. CASE supersedes
            BY <3>1, <1>2 DEF ReplaceScheduled, TypeOK
        <3>2. CASE ~supersedes
            BY <3>2, <1>2, <1>a, RecordType DEF ReplaceScheduled
        <3> QED  BY <3>1, <3>2
    <2>5. owner' \in [ScheduleKeys -> Jobs \cup {None}]
        BY <1>2 DEF ReplaceScheduled, TypeOK
    <2> QED  BY <1>2, <2>3, <2>4, <2>5 DEF ReplaceScheduled, TypeOK
<1>3. ASSUME NEW s \in ScheduleKeys, CancelScheduled(s)
      PROVE  TypeOK'
    <2>1. owner[s] \in Jobs
        BY <1>3 DEF CancelScheduled, TypeOK
    <2>2. CASE jobs[owner[s]].status = "queued"
        <3>1. /\ jobs' = [jobs EXCEPT ![owner[s]].status = "cancelled"]
              /\ RecordCountDelta(Transition("queued", "cancelled"))
            BY <1>3, <2>2 DEF CancelScheduled
        <3>2. jobs' \in [Jobs -> Row]
            BY <2>1, <3>1 DEF TypeOK, Row, Statuses, Counted
        <3>3. counts' \in [Buckets -> Int] /\ revision' \in Nat
            BY <3>1, TransitionType, RecordType
        <3> QED  BY <1>3, <3>2, <3>3 DEF CancelScheduled, TypeOK
    <2>3. CASE jobs[owner[s]].status # "queued"
        BY <1>3, <2>3 DEF CancelScheduled, TypeOK
    <2> QED  BY <2>2, <2>3
<1>4. ASSUME NEW j \in Jobs, NEW h \in Handoffs, NEW w \in Workers,
             MarkHandedOff(j, h, w)
      PROVE  TypeOK'
    <2>1. counts' \in [Buckets -> Int] /\ revision' \in Nat
        BY <1>4, TransitionType, RecordType DEF MarkHandedOff
    <2>2. active' \in [Keys -> Nat]
        BY <1>4 DEF MarkHandedOff, Reserved, TypeOK
    <2>3. jobs' \in [Jobs -> Row]
        <3> DEFINE row == [jobs[j] EXCEPT !.status = "handed_off",
                             !.handoff = h, !.worker = w, !.handedOffAt = now]
        <3>1. row \in Row
            BY <1>0 DEF TypeOK, Row, Statuses, Counted, Times
        <3>2. jobs' = [jobs EXCEPT ![j] = row]
            BY <1>4 DEF MarkHandedOff, TypeOK, Row
        <3> QED  BY <3>1, <3>2 DEF TypeOK
    <2>4. leases' \in [Handoffs -> Lease \cup {None}]
        BY <1>4 DEF MarkHandedOff, TypeOK, Lease
    <2> QED  BY <1>4, <2>1, <2>2, <2>3, <2>4 DEF MarkHandedOff, TypeOK, Fates
<1>5. ASSUME NEW h \in Handoffs, MarkCompleted(h)
      PROVE  TypeOK'
    <2>1. leases[h].job \in Jobs
        BY <1>5 DEF MarkCompleted, ShouldAcceptReport, TypeOK, Lease
    <2>2. counts' \in [Buckets -> Int] /\ revision' \in Nat
        BY <1>5, TransitionType, RecordType DEF MarkCompleted
    <2>3. active' \in [Keys -> Nat]
        BY <1>5, <2>1, ReleasedType DEF MarkCompleted
    <2>4. owner' \in [ScheduleKeys -> Jobs \cup {None}]
        BY <1>5, <2>1, DisownedType DEF MarkCompleted
    <2>5. jobs' \in [Jobs -> Row]
        <3>1. [jobs[leases[h].job] EXCEPT !.status = "completed",
                                          !.endedAt = now] \in Row
            BY <1>0, <2>1 DEF TypeOK, Row, Statuses, Counted, Times
        <3>2. jobs' = [jobs EXCEPT ![leases[h].job] =
                         [@ EXCEPT !.status = "completed", !.endedAt = now]]
            BY <1>5, <2>1 DEF MarkCompleted, TypeOK, Row
        <3> QED  BY <2>1, <3>1, <3>2 DEF TypeOK
    <2>6. fate' \in [Handoffs -> Fates]
        BY <1>5 DEF MarkCompleted, TypeOK, Ended, Fates
    <2> QED  BY <1>5, <2>2, <2>3, <2>4, <2>5, <2>6 DEF MarkCompleted, TypeOK
<1>b. ASSUME NEW j \in Jobs, NEW time \in Nat
      PROVE  [jobs EXCEPT ![j] = Requeued(@, time)] \in [Jobs -> Row]
    <2>1. jobs[j] \in Row /\ jobs \in [Jobs -> Row]
        BY DEF TypeOK
    <2>2. Requeued(jobs[j], time) \in Row
        BY <2>1 DEF Requeued, Row, Statuses, Counted, Times, NoTime
    <2> QED  BY <2>1, <2>2
<1>6. ASSUME NEW h \in Handoffs, NEW delay \in Delays,
             MarkRescheduled(h, delay)
      PROVE  TypeOK'
    <2>1. leases[h].job \in Jobs /\ now + delay \in Nat
        BY <1>6, <1>0, StoreAssumption
        DEF MarkRescheduled, ShouldAcceptReport, TypeOK, Lease
    <2>2. counts' \in [Buckets -> Int] /\ revision' \in Nat
        BY <1>6, TransitionType, RecordType DEF MarkRescheduled
    <2>3. active' \in [Keys -> Nat]
        BY <1>6, <2>1, ReleasedType DEF MarkRescheduled
    <2>5. jobs' \in [Jobs -> Row]
        BY <1>6, <1>b, <2>1 DEF MarkRescheduled
    <2>6. fate' \in [Handoffs -> Fates]
        BY <1>6 DEF MarkRescheduled, TypeOK, Ended, Fates
    <2> QED  BY <1>6, <2>2, <2>3, <2>5, <2>6 DEF MarkRescheduled, TypeOK
<1>7. ASSUME NEW h \in Handoffs, MarkFailed(h)
      PROVE  TypeOK'
    <2>1. leases[h].job \in Jobs
        BY <1>7 DEF MarkFailed, ShouldAcceptReport, TypeOK, Lease
    <2>2. counts' \in [Buckets -> Int] /\ revision' \in Nat
        BY <1>7, TransitionType, RecordType DEF MarkFailed
    <2>3. active' \in [Keys -> Nat]
        BY <1>7, <2>1, ReleasedType DEF MarkFailed
    <2>4. owner' \in [ScheduleKeys -> Jobs \cup {None}]
        BY <1>7, <2>1, DisownedType DEF MarkFailed, TypeOK
    <2>5. jobs' \in [Jobs -> Row]
        BY <1>7, <2>1, FailedRowType DEF MarkFailed, TypeOK
    <2>6. fate' \in [Handoffs -> Fates]
        BY <1>7 DEF MarkFailed, TypeOK, Ended, Fates
    <2> QED  BY <1>7, <2>2, <2>3, <2>4, <2>5, <2>6 DEF MarkFailed, TypeOK
<1>8. ASSUME NEW h \in Handoffs, MarkReturnedToQueue(h)
      PROVE  TypeOK'
    <2>1. leases[h].job \in Jobs
        BY <1>8 DEF MarkReturnedToQueue, TypeOK, Lease
    <2>2. counts' \in [Buckets -> Int] /\ revision' \in Nat
        BY <1>8, TransitionType, RecordType DEF MarkReturnedToQueue
    <2>3. active' \in [Keys -> Nat]
        BY <1>8, <2>1, ReleasedType DEF MarkReturnedToQueue
    <2>5. jobs' \in [Jobs -> Row]
        BY <1>8, <1>b, <1>0, <2>1 DEF MarkReturnedToQueue
    <2>6. fate' \in [Handoffs -> Fates]
        BY <1>8 DEF MarkReturnedToQueue, TypeOK, Ended, Fates
    <2> QED  BY <1>8, <2>2, <2>3, <2>5, <2>6 DEF MarkReturnedToQueue, TypeOK
<1>9. ASSUME MarkOrphanedJobs
      PROVE  TypeOK'
    <2>1. Stale \in SUBSET Jobs
            /\ {j \in Stale : ~WillRetry(jobs[j])} \in SUBSET Jobs
        BY DEF Stale
    <2>2. counts' \in [Buckets -> Int] /\ revision' \in Nat
        BY <1>9, <2>1, SweepDeltaType, RecordType DEF MarkOrphanedJobs
    <2>3. active' \in [Keys -> Nat]
        BY <1>9, <2>1, ReleasedType DEF MarkOrphanedJobs
    <2>4. owner' \in [ScheduleKeys -> Jobs \cup {None}]
        BY <1>9, <2>1, DisownedType DEF MarkOrphanedJobs
    <2>5. jobs' \in [Jobs -> Row]
        BY <1>9, FailedRowType DEF MarkOrphanedJobs, TypeOK
    <2>6. fate' \in [Handoffs -> Fates]
        BY <1>9 DEF MarkOrphanedJobs, TypeOK, Ended, Fates
    <2> QED  BY <1>9, <2>2, <2>3, <2>4, <2>5, <2>6 DEF MarkOrphanedJobs, TypeOK
<1>10. ASSUME NEW j \in Jobs, Cancel(j)
       PROVE  TypeOK'
    <2>2. counts' \in [Buckets -> Int] /\ revision' \in Nat
        BY <1>10, TransitionType, RecordType DEF Cancel
    <2>3. active' \in [Keys -> Nat]
        BY <1>10, ReleasedType DEF Cancel, TypeOK
    <2>4. owner' \in [ScheduleKeys -> Jobs \cup {None}]
        BY <1>10, DisownedType DEF Cancel
    <2>5. jobs' \in [Jobs -> Row]
        BY <1>10 DEF Cancel, TypeOK, Row, Statuses, Counted
    <2>6. fate' \in [Handoffs -> Fates]
        BY <1>10 DEF Cancel, TypeOK, Row, Ended, Fates
    <2> QED  BY <1>10, <2>2, <2>3, <2>4, <2>5, <2>6 DEF Cancel, TypeOK
<1>11. ASSUME NEW status \in {"completed", "failed", "orphaned"},
              NEW S \in SUBSET Jobs, PruneTerminalJobs(status, S)
       PROVE  TypeOK'
    <2>1. [b \in Buckets |-> IF b \in {"all", status}
                             THEN 0 - Cardinality(S) ELSE 0]
          \in [Buckets -> Int]
        BY JobCount
    <2>2. counts' \in [Buckets -> Int] /\ revision' \in Nat
        BY <1>11, <2>1, RecordType DEF PruneTerminalJobs
    <2>3. jobs' \in [Jobs -> Row]
        BY <1>11, <1>0 DEF PruneTerminalJobs, TypeOK
    <2> QED  BY <1>11, <2>2, <2>3 DEF PruneTerminalJobs, TypeOK
<1>12. ASSUME ClearAll
       PROVE  TypeOK'
    <2>1. Snapshot \in [Buckets -> Nat]
        <3> SUFFICES ASSUME NEW b \in Buckets
                     PROVE  Cardinality({j \in Jobs :
                                /\ jobs[j].status \in Counted
                                /\ b \in {jobs[j].status, "all"}}) \in Nat
            BY Zenon DEF Snapshot
        <3> QED  BY JobCount
    <2>2. [b \in Buckets |-> 0 - Snapshot[b]] \in [Buckets -> Int]
        BY <2>1
    <2>3. counts' \in [Buckets -> Int] /\ revision' \in Nat
        BY <1>12, <2>2, RecordType DEF ClearAll
    <2>4. jobs' \in [Jobs -> Row]
        BY <1>12, <1>0 DEF ClearAll, TypeOK
    <2>5. fate' \in [Handoffs -> Fates]
        BY <1>12 DEF ClearAll, TypeOK, Fates
    <2> QED  BY <1>12, <2>3, <2>4, <2>5 DEF ClearAll, TypeOK
<1>13. ASSUME Tick PROVE TypeOK'
    BY <1>13 DEF Tick, TypeOK
<1>14. ASSUME UNCHANGED vars PROVE TypeOK'
    BY <1>14 DEF vars, TypeOK
<1> QED
    BY <1>1, <1>2, <1>3, <1>4, <1>5, <1>6, <1>7, <1>8, <1>9, <1>10, <1>11,
       <1>12, <1>13, <1>14 DEF Next

\* The store's tables are always well typed: no operation leaves a row, a
\* count or a lease the code could not have written.
THEOREM TypeCorrect == Spec => []TypeOK
<1>1. Init => TypeOK
    BY DEF Init, TypeOK, NoRow, Row, Statuses, Counted, Times, NoTime, Fates
<1> QED  BY <1>1, TypeStep, PTL DEF Spec

-----------------------------------------------------------------------------
(* Leases are settled once.                                                *)

\* The inductive strengthening of LeaseEndsOnce: the rows that are handed off
\* and the leases that are live name each other.
LeaseInv ==
    /\ \A h \in Handoffs : leases[h] = None <=> fate[h] = "unissued"
    /\ \A h \in Handoffs : fate[h] # "twice"
    /\ \A j \in Jobs :
          jobs[j].status = "handed_off" =>
              /\ jobs[j].handoff \in Handoffs
              /\ fate[jobs[j].handoff] = "live"
              /\ leases[jobs[j].handoff].job = j
    /\ \A h \in Handoffs :
          fate[h] = "live" =>
              /\ leases[h] # None
              /\ jobs[leases[h].job].status = "handed_off"
              /\ jobs[leases[h].job].handoff = h

\* The invariant says what a reader wants to know.
LEMMA LeaseInvImplies == TypeOK /\ LeaseInv => LeaseEndsOnce
<1> SUFFICES ASSUME TypeOK, LeaseInv, NEW h \in Handoffs
             PROVE  /\ fate[h] # "twice"
                    /\ fate[h] = "live" <=> LiveRows(h) # {}
                    /\ \A j \in LiveRows(h) : leases[h].job = j
    BY DEF LeaseEndsOnce
<1>1. fate[h] = "live" => leases[h].job \in LiveRows(h)
    BY DEF LeaseInv, LiveRows, TypeOK, Lease
<1>2. ASSUME NEW j \in LiveRows(h)
      PROVE  fate[h] = "live" /\ leases[h].job = j
    BY DEF LeaseInv, LiveRows
<1> QED  BY <1>1, <1>2 DEF LeaseInv

\* A step that touches no handed-off row and no lease keeps the invariant.
LEMMA LeaseIdle ==
    ASSUME TypeOK, LeaseInv, leases' = leases, fate' = fate,
           \A j \in Jobs :
              /\ jobs'[j].status = "handed_off" <=> jobs[j].status = "handed_off"
              /\ jobs[j].status = "handed_off" => jobs'[j].handoff = jobs[j].handoff
    PROVE  LeaseInv'
<1>1. \A h \in Handoffs : fate[h] = "live" => leases[h].job \in Jobs
    BY DEF LeaseInv, TypeOK, Lease
<1> QED  BY <1>1 DEF LeaseInv

\* A step that takes handed-off rows back and settles exactly their leases
\* keeps the invariant.
LEMMA LeaseSettle ==
    ASSUME TypeOK, LeaseInv, leases' = leases, NEW S \in SUBSET Jobs,
           \A j \in S : jobs[j].status = "handed_off",
           \A j \in Jobs : IF j \in S THEN jobs'[j].status # "handed_off"
                           ELSE jobs'[j].status = "handed_off"
                                   => jobs'[j] = jobs[j],
           \A j \in Jobs : jobs[j].status = "handed_off" /\ j \notin S
                              => jobs'[j] = jobs[j],
           \A h \in Handoffs :
              IF \E j \in S : jobs[j].handoff = h
              THEN fate'[h] \in {"completed", "failed", "rescheduled", "reclaimed"}
              ELSE fate'[h] = fate[h]
    PROVE  LeaseInv'
<1>1. \A j \in S : jobs[j].handoff \in Handoffs /\ fate[jobs[j].handoff] = "live"
                     /\ leases[jobs[j].handoff].job = j
    BY DEF LeaseInv
<1>2. ASSUME NEW h \in Handoffs
      PROVE  leases'[h] = None <=> fate'[h] = "unissued"
    BY <1>1 DEF LeaseInv
<1>3. ASSUME NEW h \in Handoffs PROVE fate'[h] # "twice"
    BY DEF LeaseInv
<1>4. ASSUME NEW j \in Jobs, jobs'[j].status = "handed_off"
      PROVE  /\ jobs'[j].handoff \in Handoffs
             /\ fate'[jobs'[j].handoff] = "live"
             /\ leases'[jobs'[j].handoff].job = j
    <2>1. j \notin S /\ jobs'[j] = jobs[j] /\ jobs[j].status = "handed_off"
        BY <1>4
    <2>2. ~ \E i \in S : jobs[i].handoff = jobs[j].handoff
        BY <1>1, <2>1 DEF LeaseInv
    <2> QED  BY <2>1, <2>2 DEF LeaseInv
<1>5. ASSUME NEW h \in Handoffs, fate'[h] = "live"
      PROVE  /\ leases'[h] # None
             /\ jobs'[leases'[h].job].status = "handed_off"
             /\ jobs'[leases'[h].job].handoff = h
    <2>1. fate[h] = "live" /\ ~ \E j \in S : jobs[j].handoff = h
        BY <1>5
    <2>2. /\ leases[h] # None /\ leases[h].job \in Jobs
          /\ jobs[leases[h].job].status = "handed_off"
          /\ jobs[leases[h].job].handoff = h
        BY <2>1 DEF LeaseInv, TypeOK, Lease
    <2>3. leases[h].job \notin S
        BY <2>1, <2>2
    <2> QED  BY <2>2, <2>3
<1> QED  BY <1>2, <1>3, <1>4, <1>5 DEF LeaseInv

\* An accepted report is about the lease the job runs under.
LEMMA AcceptedIsLive ==
    ASSUME TypeOK, LeaseInv, NEW h \in Handoffs, leases[h] # None,
           jobs[leases[h].job].status = "handed_off",
           jobs[leases[h].job].handoff = h
    PROVE  leases[h].job \in Jobs /\ fate[h] = "live"
BY DEF LeaseInv, TypeOK, Lease

\* Every action keeps rows and leases in step.
LEMMA LeaseStep == TypeOK /\ LeaseInv /\ [Next]_vars => LeaseInv'
<1> SUFFICES ASSUME TypeOK, LeaseInv, [Next]_vars PROVE LeaseInv'
    OBVIOUS
<1>0. jobs \in [Jobs -> Row] /\ fate \in [Handoffs -> Fates]
        /\ leases \in [Handoffs -> Lease \cup {None}]
    BY DEF TypeOK
<1>1. ASSUME NEW j \in Jobs, NEW req \in Requests, NEW dedupe \in BOOLEAN,
             Enqueue(j, req, dedupe)
      PROVE  LeaseInv'
    <2>1. leases' = leases /\ fate' = fate
        BY <1>1 DEF Enqueue
    <2>2. \A i \in Jobs : IF i = j THEN /\ jobs[i].status = "none"
                                        /\ jobs'[i].status = "queued"
                          ELSE jobs'[i] = jobs[i]
        BY <1>0, <1>1 DEF Enqueue, InsertPreparedJob, NoRow
    <2> QED  BY <2>1, <2>2, LeaseIdle
<1>2. ASSUME NEW s \in ScheduleKeys, NEW j \in Jobs, NEW req \in Requests,
             ReplaceScheduled(s, j, req)
      PROVE  LeaseInv'
    <2>1. leases' = leases /\ fate' = fate
        BY <1>2 DEF ReplaceScheduled
    <2>2. owner[s] \in Jobs \cup {None}
        BY DEF TypeOK
    <2>3. \A i \in Jobs :
             \/ jobs[i].status = "none" /\ jobs'[i].status = "queued"
             \/ jobs[i].status = "queued" /\ jobs'[i].status = "cancelled"
             \/ jobs'[i] = jobs[i]
        BY <1>0, <1>2, <2>2 DEF ReplaceScheduled, InsertPreparedJob, NoRow, Row
    <2> QED  BY <2>1, <2>3, LeaseIdle
<1>3. ASSUME NEW s \in ScheduleKeys, CancelScheduled(s)
      PROVE  LeaseInv'
    <2>1. leases' = leases /\ fate' = fate
        BY <1>3 DEF CancelScheduled
    <2>2. owner[s] \in Jobs
        BY <1>3 DEF CancelScheduled, TypeOK
    <2>3. \A i \in Jobs :
             \/ jobs[i].status = "queued" /\ jobs'[i].status = "cancelled"
             \/ jobs'[i] = jobs[i]
        BY <1>0, <1>3, <2>2 DEF CancelScheduled, Row
    <2> QED  BY <2>1, <2>3, LeaseIdle
<1>4. ASSUME NEW j \in Jobs, NEW h \in Handoffs, NEW w \in Workers,
             MarkHandedOff(j, h, w)
      PROVE  LeaseInv'
    <2>1. /\ jobs[j].status = "queued" /\ fate[h] = "unissued"
          /\ leases' = [leases EXCEPT ![h] =
                          [job |-> j, worker |-> w, handedOffAt |-> now]]
          /\ fate' = [fate EXCEPT ![h] = "live"]
          /\ jobs'[j].status = "handed_off" /\ jobs'[j].handoff = h
          /\ \A i \in Jobs : i # j => jobs'[i] = jobs[i]
        BY <1>0, <1>4 DEF MarkHandedOff, Row
    <2>2. leases[h] = None /\ leases'[h] # None /\ leases'[h].job = j
        <3>1. [job |-> j, worker |-> w, handedOffAt |-> now] # None
            BY StoreAssumption DEF Lease, TypeOK
        <3>2. leases'[h] = [job |-> j, worker |-> w, handedOffAt |-> now]
            BY <1>0, <2>1
        <3> QED  BY <2>1, <3>1, <3>2 DEF LeaseInv
    <2>3. \A g \in Handoffs : g # h => leases'[g] = leases[g] /\ fate'[g] = fate[g]
        BY <1>0, <2>1
    <2>4. fate'[h] = "live"
        BY <1>0, <2>1
    <2>5. \A i \in Jobs : jobs[i].status = "handed_off"
             => jobs[i].handoff \in Handoffs \ {h}
        BY <2>1 DEF LeaseInv
    <2>6. \A g \in Handoffs : fate[g] = "live"
             => leases[g].job \in Jobs \ {j}
        BY <1>0, <2>1 DEF LeaseInv, Lease
    <2> QED  BY <2>1, <2>2, <2>3, <2>4, <2>5, <2>6 DEF LeaseInv
<1>a. ASSUME NEW h \in Handoffs, leases[h] # None,
             jobs[leases[h].job].status = "handed_off",
             jobs[leases[h].job].handoff = h,
             leases' = leases,
             NEW what \in {"completed", "failed", "rescheduled", "reclaimed"},
             fate' = [fate EXCEPT ![h] = Ended(h, what)],
             jobs'[leases[h].job].status # "handed_off",
             \A i \in Jobs : i # leases[h].job => jobs'[i] = jobs[i]
      PROVE  LeaseInv'
    <2>1. leases[h].job \in Jobs /\ fate[h] = "live"
        BY <1>a, AcceptedIsLive
    <2>2. fate'[h] = what /\ \A g \in Handoffs : g # h => fate'[g] = fate[g]
        BY <1>a, <1>0, <2>1 DEF Ended
    <2> DEFINE S == {leases[h].job}
    <2>3. \A g \in Handoffs : (\E j \in S : jobs[j].handoff = g) <=> g = h
        BY <1>a, <2>1
    <2>4. \A g \in Handoffs :
              IF \E j \in S : jobs[j].handoff = g
              THEN fate'[g] \in {"completed", "failed", "rescheduled", "reclaimed"}
              ELSE fate'[g] = fate[g]
        BY <2>2, <2>3
    <2>5. S \in SUBSET Jobs /\ \A j \in S : jobs[j].status = "handed_off"
        BY <1>a, <2>1
    <2>6. /\ \A j \in Jobs : IF j \in S THEN jobs'[j].status # "handed_off"
                             ELSE jobs'[j].status = "handed_off"
                                     => jobs'[j] = jobs[j]
          /\ \A j \in Jobs : jobs[j].status = "handed_off" /\ j \notin S
                                => jobs'[j] = jobs[j]
        BY <1>a
    <2> HIDE DEF S
    <2> QED  BY <1>a, <2>4, <2>5, <2>6, LeaseSettle
<1>5. ASSUME NEW h \in Handoffs, MarkCompleted(h)
      PROVE  LeaseInv'
    <2>1. leases[h].job \in Jobs
        BY <1>5, AcceptedIsLive DEF MarkCompleted, ShouldAcceptReport
    <2>2. /\ jobs'[leases[h].job].status = "completed"
          /\ \A i \in Jobs : i # leases[h].job => jobs'[i] = jobs[i]
        BY <1>0, <1>5, <2>1 DEF MarkCompleted, Row
    <2> QED  BY <1>5, <1>a, <2>2 DEF MarkCompleted, ShouldAcceptReport
<1>6. ASSUME NEW h \in Handoffs, NEW delay \in Delays,
             MarkRescheduled(h, delay)
      PROVE  LeaseInv'
    <2>1. leases[h].job \in Jobs
        BY <1>6, AcceptedIsLive DEF MarkRescheduled, ShouldAcceptReport
    <2>2. /\ jobs'[leases[h].job].status = "queued"
          /\ \A i \in Jobs : i # leases[h].job => jobs'[i] = jobs[i]
        BY <1>0, <1>6, <2>1 DEF MarkRescheduled, Requeued, Row
    <2> QED  BY <1>6, <1>a, <2>2 DEF MarkRescheduled, ShouldAcceptReport
<1>b. ASSUME NEW j \in Jobs, NEW terminal \in {"failed", "orphaned"}
      PROVE  FailedRow(jobs[j], terminal).status \in {"queued", terminal}
    BY <1>0 DEF FailedRow, Row
<1>7. ASSUME NEW h \in Handoffs, MarkFailed(h)
      PROVE  LeaseInv'
    <2>1. leases[h].job \in Jobs
        BY <1>7, AcceptedIsLive DEF MarkFailed, ShouldAcceptReport
    <2>2. /\ jobs'[leases[h].job].status \in {"queued", "failed"}
          /\ \A i \in Jobs : i # leases[h].job => jobs'[i] = jobs[i]
        BY <1>0, <1>b, <1>7, <2>1 DEF MarkFailed
    <2> QED  BY <1>7, <1>a, <2>2 DEF MarkFailed, ShouldAcceptReport
<1>8. ASSUME NEW h \in Handoffs, MarkReturnedToQueue(h)
      PROVE  LeaseInv'
    <2>1. leases[h].job \in Jobs
        BY <1>8, AcceptedIsLive DEF MarkReturnedToQueue
    <2>2. /\ jobs'[leases[h].job].status = "queued"
          /\ \A i \in Jobs : i # leases[h].job => jobs'[i] = jobs[i]
        BY <1>0, <1>8, <2>1 DEF MarkReturnedToQueue, Requeued, Row
    <2> QED  BY <1>8, <1>a, <2>2 DEF MarkReturnedToQueue
<1>9. ASSUME MarkOrphanedJobs
      PROVE  LeaseInv'
    <2>1. Stale \in SUBSET Jobs /\ \A j \in Stale : jobs[j].status = "handed_off"
        BY DEF Stale
    <2>2. \A j \in Jobs : IF j \in Stale
                          THEN jobs'[j].status \in {"queued", "orphaned"}
                          ELSE jobs'[j] = jobs[j]
        BY <1>9, <1>b DEF MarkOrphanedJobs
    <2>3. \A h \in Handoffs :
             IF \E j \in Stale : jobs[j].handoff = h
             THEN fate'[h] = "failed" ELSE fate'[h] = fate[h]
        <3>1. \A j \in Stale : fate[jobs[j].handoff] = "live"
            BY <2>1 DEF LeaseInv
        <3> QED  BY <1>9, <3>1 DEF MarkOrphanedJobs, Ended
    <2>4. leases' = leases
        BY <1>9 DEF MarkOrphanedJobs
    <2> QED  BY <2>1, <2>2, <2>3, <2>4, LeaseSettle
<1>10. ASSUME NEW j \in Jobs, Cancel(j)
       PROVE  LeaseInv'
    <2>1. /\ jobs'[j].status = "cancelled" /\ leases' = leases
          /\ \A i \in Jobs : i # j => jobs'[i] = jobs[i]
        BY <1>0, <1>10 DEF Cancel, Row
    <2>2. CASE jobs[j].status = "handed_off"
        <3> DEFINE h == jobs[j].handoff
        <3>1. h \in Handoffs /\ leases[h].job = j /\ fate[h] = "live"
                /\ leases[h] # None
            BY <2>2 DEF LeaseInv
        <3>2. h # None
            BY <3>1, StoreAssumption
        <3>3. fate' = [fate EXCEPT ![h] = Ended(h, "reclaimed")]
            BY <1>10, <2>2, <3>2 DEF Cancel
        <3> HIDE DEF h
        <3>4. jobs[leases[h].job].handoff = h
            BY <3>1 DEF h
        <3> QED  BY <1>a, <2>1, <2>2, <3>1, <3>3, <3>4
    <2>3. CASE jobs[j].status # "handed_off"
        <3>1. fate' = fate
            BY <1>10, <2>3 DEF Cancel
        <3> QED  BY <2>1, <2>3, <3>1, LeaseIdle
    <2> QED  BY <2>2, <2>3
<1>11. ASSUME NEW status \in {"completed", "failed", "orphaned"},
              NEW S \in SUBSET Jobs, PruneTerminalJobs(status, S)
       PROVE  LeaseInv'
    <2>1. leases' = leases /\ fate' = fate
        BY <1>11 DEF PruneTerminalJobs
    <2>2. \A i \in Jobs : IF i \in S THEN /\ jobs[i].status = status
                                          /\ jobs'[i].status = "deleted"
                          ELSE jobs'[i] = jobs[i]
        BY <1>11 DEF PruneTerminalJobs, NoRow
    <2> QED  BY <2>1, <2>2, LeaseIdle
<1>12. ASSUME ClearAll
       PROVE  LeaseInv'
    <2>1. \A h \in Handoffs : fate'[h] # "live" /\ fate'[h] # "twice"
             /\ (fate'[h] = "unissued" <=> fate[h] = "unissued")
        BY <1>12 DEF ClearAll, LeaseInv
    <2>2. \A j \in Jobs : jobs'[j].status # "handed_off"
        BY <1>12 DEF ClearAll, NoRow
    <2>3. leases' = leases
        BY <1>12 DEF ClearAll
    <2> QED  BY <2>1, <2>2, <2>3 DEF LeaseInv
<1>13. ASSUME Tick PROVE LeaseInv'
    BY <1>13 DEF Tick, LeaseInv
<1>14. ASSUME UNCHANGED vars PROVE LeaseInv'
    BY <1>14 DEF vars, LeaseInv
<1> QED
    BY <1>1, <1>2, <1>3, <1>4, <1>5, <1>6, <1>7, <1>8, <1>9, <1>10, <1>11,
       <1>12, <1>13, <1>14 DEF Next

\* Every lease is settled exactly once, whatever mixture of reports, returns,
\* sweeps and cancellations arrives in whatever order (the handoff-id fence).
THEOREM LeasesSettleOnce == Spec => []LeaseEndsOnce
<1>1. Init => TypeOK /\ LeaseInv
    <2>1. Init => TypeOK
        BY DEF Init, TypeOK, NoRow, Row, Statuses, Counted, Times, NoTime, Fates
    <2>2. Init => LeaseInv
        BY DEF Init, LeaseInv, NoRow
    <2> QED  BY <2>1, <2>2
<1>2. TypeOK /\ LeaseInv /\ [Next]_vars => (TypeOK /\ LeaseInv)'
    BY TypeStep, LeaseStep
<1> QED  BY <1>1, <1>2, LeaseInvImplies, PTL DEF Spec

-----------------------------------------------------------------------------
(* Reservations and running jobs agree.                                    *)

\* A key without a row in the concurrency table has nothing reserved.
RowlessIsIdle == \A k \in Keys : cap[k] = 0 => active[k] = 0

ConcurrencyInv == ConcurrencyExact /\ RowlessIsIdle

\* A step that starts and ends no lease and reserves nothing keeps the counts.
LEMMA CountIdle ==
    ASSUME ConcurrencyInv,
           \A k \in Keys : active'[k] = active[k],
           \A k \in Keys : cap'[k] = 0 => cap[k] = 0,
           \A j \in Jobs :
              /\ jobs'[j].status = "handed_off" <=> jobs[j].status = "handed_off"
              /\ jobs[j].status = "handed_off" => jobs'[j].ckey = jobs[j].ckey
    PROVE  ConcurrencyInv'
<1>1. ASSUME NEW k \in Keys PROVE Running(k)' = Running(k)
    BY DEF Running
<1>2. \A k \in Keys : Cardinality(Running(k))' = Cardinality(Running(k))
    BY <1>1
<1> QED  BY <1>2 DEF ConcurrencyInv, ConcurrencyExact, RowlessIsIdle

\* Ending the leases of the running jobs S and releasing once for each of
\* them keeps the counts, and releases nobody else's slot.
LEMMA CountRelease ==
    ASSUME TypeOK, ConcurrencyInv, NEW S \in SUBSET Jobs,
           \A j \in S : jobs[j].status = "handed_off",
           active' = Released(S), cap' = cap,
           \A j \in Jobs : IF j \in S THEN jobs'[j].status # "handed_off"
                           ELSE jobs'[j] = jobs[j]
    PROVE  /\ ConcurrencyInv'
           /\ \A k \in Keys : active'[k] <= active[k]
<1> SUFFICES ASSUME NEW k \in Keys
             PROVE  /\ active'[k] = Cardinality(Running(k)')
                    /\ active'[k] <= active[k]
                    /\ active[k] = 0 => active'[k] = 0
    BY DEF ConcurrencyInv, ConcurrencyExact, RowlessIsIdle
<1> DEFINE T == {j \in S : jobs[j].ckey = k}
<1>1. Running(k)' = Running(k) \ S
    BY DEF Running
<1>2. Running(k) \cap S = T
    BY DEF Running
<1>3. IsFiniteSet(Running(k)) /\ Cardinality(Running(k)) \in Nat
    BY JobCount DEF Running
<1>4. Cardinality(Running(k)') = Cardinality(Running(k)) - Cardinality(T)
    BY <1>1, <1>2, <1>3, FS_Difference
<1>5. Cardinality(T) \in Nat /\ Cardinality(T) <= Cardinality(Running(k))
    <2>1. T \in SUBSET Running(k)
        BY <1>2
    <2> QED  BY <1>3, <2>1, FS_Subset, FS_CardinalityType
<1>6. active[k] = Cardinality(Running(k))
    BY DEF ConcurrencyInv, ConcurrencyExact
<1>7. active'[k] = IF active[k] >= Cardinality(T)
                   THEN active[k] - Cardinality(T) ELSE 0
    BY Zenon DEF Released
<1> HIDE DEF T
<1> QED  BY <1>3, <1>4, <1>5, <1>6, <1>7

\* _insertPreparedJob creates at most an idle concurrency row.
LEMMA CountInsert ==
    ASSUME TypeOK, ConcurrencyInv, NEW j \in Jobs, NEW req \in Requests,
           NEW skey, NEW base, InsertPreparedJob(j, req, skey, base)
    PROVE  /\ \A k \in Keys : active'[k] = active[k]
           /\ \A k \in Keys : cap'[k] = 0 => cap[k] = 0
<1>1. req.limit \in Limits
    BY DEF Requests
<1>2. req.limit.key = None <=> req.limit.max = 0
    BY <1>1 DEF Limits
<1>3. None \notin Keys
    BY StoreAssumption DEF Keys
<1>4. \A k \in Keys : k = req.limit.key => req.limit.max # 0
    BY <1>2, <1>3
<1> QED
    BY <1>4 DEF InsertPreparedJob, ConcurrencyInv, RowlessIsIdle

\* What one action does to the reservations: it keeps them exact, and raises
\* a key's count only below its cap.
ReservationStep ==
    /\ ConcurrencyInv'
    /\ \A k \in Keys : active'[k] > active[k] => active'[k] <= cap[k]

\* Every step of the store keeps them so.
LEMMA CountStep ==
    TypeOK /\ LeaseInv /\ ConcurrencyInv /\ [Next]_vars => ReservationStep
<1> SUFFICES ASSUME TypeOK, LeaseInv, ConcurrencyInv, [Next]_vars
             PROVE  ReservationStep
    OBVIOUS
<1>0. jobs \in [Jobs -> Row] /\ cap \in [Keys -> Nat] /\ active \in [Keys -> Nat]
    BY DEF TypeOK
<1>a. ASSUME \A k \in Keys : active'[k] = active[k],
             \A k \in Keys : cap'[k] = 0 => cap[k] = 0,
             \A j \in Jobs :
               /\ jobs'[j].status = "handed_off" <=> jobs[j].status = "handed_off"
               /\ jobs[j].status = "handed_off" => jobs'[j].ckey = jobs[j].ckey
      PROVE  ReservationStep
    <2>1. ConcurrencyInv'
        BY <1>a, CountIdle
    <2> QED  BY <2>1, <1>a, <1>0 DEF ReservationStep
<1>b. ASSUME NEW S \in SUBSET Jobs,
             \A j \in S : jobs[j].status = "handed_off",
             active' = Released(S), cap' = cap,
             \A j \in Jobs : IF j \in S THEN jobs'[j].status # "handed_off"
                             ELSE jobs'[j] = jobs[j]
      PROVE  ReservationStep
    <2>1. ConcurrencyInv' /\ \A k \in Keys : active'[k] <= active[k]
        BY <1>b, CountRelease
    <2>2. active' \in [Keys -> Nat]
        BY <1>b, ReleasedType
    <2> QED  BY <2>1, <2>2, <1>0 DEF ReservationStep
<1>1. ASSUME NEW j \in Jobs, NEW req \in Requests, NEW dedupe \in BOOLEAN,
             Enqueue(j, req, dedupe)
      PROVE  ReservationStep
    <2>1. \A i \in Jobs : IF i = j THEN /\ jobs[i].status = "none"
                                        /\ jobs'[i].status = "queued"
                          ELSE jobs'[i] = jobs[i]
        BY <1>0, <1>1 DEF Enqueue, InsertPreparedJob, NoRow
    <2>2. /\ \A k \in Keys : active'[k] = active[k]
          /\ \A k \in Keys : cap'[k] = 0 => cap[k] = 0
        BY <1>1, CountInsert DEF Enqueue
    <2> QED  BY <1>a, <2>1, <2>2
<1>2. ASSUME NEW s \in ScheduleKeys, NEW j \in Jobs, NEW req \in Requests,
             ReplaceScheduled(s, j, req)
      PROVE  ReservationStep
    <2>1. owner[s] \in Jobs \cup {None}
        BY DEF TypeOK
    <2>2. \A i \in Jobs :
             \/ jobs[i].status = "none" /\ jobs'[i].status = "queued"
             \/ jobs[i].status = "queued" /\ jobs'[i].status = "cancelled"
             \/ jobs'[i] = jobs[i]
        BY <1>0, <1>2, <2>1 DEF ReplaceScheduled, InsertPreparedJob, NoRow, Row
    <2>3. /\ \A k \in Keys : active'[k] = active[k]
          /\ \A k \in Keys : cap'[k] = 0 => cap[k] = 0
        BY <1>2, CountInsert DEF ReplaceScheduled
    <2> QED  BY <1>a, <2>2, <2>3
<1>3. ASSUME NEW s \in ScheduleKeys, CancelScheduled(s)
      PROVE  ReservationStep
    <2>1. active' = active /\ cap' = cap
        BY <1>3 DEF CancelScheduled
    <2>2. owner[s] \in Jobs
        BY <1>3 DEF CancelScheduled, TypeOK
    <2>3. \A i \in Jobs :
             \/ jobs[i].status = "queued" /\ jobs'[i].status = "cancelled"
             \/ jobs'[i] = jobs[i]
        BY <1>0, <1>3, <2>2 DEF CancelScheduled, Row
    <2> QED  BY <1>a, <2>1, <2>3
<1>4. ASSUME NEW j \in Jobs, NEW h \in Handoffs, NEW w \in Workers,
             MarkHandedOff(j, h, w)
      PROVE  ReservationStep
    <2> SUFFICES ASSUME NEW k \in Keys
                 PROVE  /\ active'[k] = Cardinality(Running(k)')
                        /\ cap'[k] = 0 => active'[k] = 0
                        /\ active'[k] > active[k] => active'[k] <= cap[k]
        BY DEF ReservationStep, ConcurrencyInv, ConcurrencyExact, RowlessIsIdle
    <2>1. /\ jobs[j].status = "queued" /\ cap' = cap
          /\ jobs'[j].status = "handed_off" /\ jobs'[j].ckey = jobs[j].ckey
          /\ \A i \in Jobs : i # j => jobs'[i] = jobs[i]
          /\ CanReserve(jobs[j].ckey) /\ active' = Reserved(jobs[j].ckey)
        BY <1>0, <1>4 DEF MarkHandedOff, Row
    <2>2. active[k] = Cardinality(Running(k)) /\ IsFiniteSet(Running(k))
            /\ active[k] \in Nat /\ cap[k] \in Nat
            /\ (cap[k] = 0 => active[k] = 0)
        BY <1>0, JobCount
        DEF ConcurrencyInv, ConcurrencyExact, RowlessIsIdle, Running
    <2>3. CASE jobs[j].ckey = k
        <3>1. Running(k)' = Running(k) \cup {j} /\ j \notin Running(k)
            BY <2>1, <2>3 DEF Running
        <3>2. Cardinality(Running(k)') = Cardinality(Running(k)) + 1
            BY <3>1, <2>2, FS_AddElement
        <3>3. k # None
            BY StoreAssumption DEF Keys
        <3>4. active[k] < cap[k] /\ active'[k] = active[k] + 1
            BY <2>1, <2>3, <3>3 DEF CanReserve, Reserved
        <3> QED  BY <2>1, <2>2, <3>2, <3>4
    <2>4. CASE jobs[j].ckey # k
        <3>1. Running(k)' = Running(k)
            BY <2>1, <2>4 DEF Running
        <3>2. active'[k] = active[k]
            BY <2>1, <2>4 DEF Reserved
        <3> QED  BY <2>1, <2>2, <3>1, <3>2
    <2> QED  BY <2>3, <2>4
<1>c. ASSUME NEW h \in Handoffs, leases[h] # None,
             jobs[leases[h].job].status = "handed_off",
             jobs[leases[h].job].handoff = h,
             active' = Released({leases[h].job}), cap' = cap,
             jobs'[leases[h].job].status # "handed_off",
             \A i \in Jobs : i # leases[h].job => jobs'[i] = jobs[i]
      PROVE  ReservationStep
    <2>1. {leases[h].job} \in SUBSET Jobs
        BY <1>c, AcceptedIsLive
    <2> QED  BY <1>b, <1>c, <2>1
<1>5. ASSUME NEW h \in Handoffs, MarkCompleted(h)
      PROVE  ReservationStep
    <2>1. leases[h].job \in Jobs
        BY <1>5, AcceptedIsLive DEF MarkCompleted, ShouldAcceptReport
    <2>2. /\ jobs'[leases[h].job].status = "completed"
          /\ \A i \in Jobs : i # leases[h].job => jobs'[i] = jobs[i]
        BY <1>0, <1>5, <2>1 DEF MarkCompleted, Row
    <2> QED  BY <1>5, <1>c, <2>2 DEF MarkCompleted, ShouldAcceptReport
<1>6. ASSUME NEW h \in Handoffs, NEW delay \in Delays,
             MarkRescheduled(h, delay)
      PROVE  ReservationStep
    <2>1. leases[h].job \in Jobs
        BY <1>6, AcceptedIsLive DEF MarkRescheduled, ShouldAcceptReport
    <2>2. /\ jobs'[leases[h].job].status = "queued"
          /\ \A i \in Jobs : i # leases[h].job => jobs'[i] = jobs[i]
        BY <1>0, <1>6, <2>1 DEF MarkRescheduled, Requeued, Row
    <2> QED  BY <1>6, <1>c, <2>2 DEF MarkRescheduled, ShouldAcceptReport
<1>d. ASSUME NEW j \in Jobs, NEW terminal \in {"failed", "orphaned"}
      PROVE  FailedRow(jobs[j], terminal).status \in {"queued", terminal}
    BY <1>0 DEF FailedRow, Row
<1>7. ASSUME NEW h \in Handoffs, MarkFailed(h)
      PROVE  ReservationStep
    <2>1. leases[h].job \in Jobs
        BY <1>7, AcceptedIsLive DEF MarkFailed, ShouldAcceptReport
    <2>2. /\ jobs'[leases[h].job].status \in {"queued", "failed"}
          /\ \A i \in Jobs : i # leases[h].job => jobs'[i] = jobs[i]
        BY <1>0, <1>d, <1>7, <2>1 DEF MarkFailed
    <2> QED  BY <1>7, <1>c, <2>2 DEF MarkFailed, ShouldAcceptReport
<1>8. ASSUME NEW h \in Handoffs, MarkReturnedToQueue(h)
      PROVE  ReservationStep
    <2>1. leases[h].job \in Jobs
        BY <1>8, AcceptedIsLive DEF MarkReturnedToQueue
    <2>2. /\ jobs'[leases[h].job].status = "queued"
          /\ \A i \in Jobs : i # leases[h].job => jobs'[i] = jobs[i]
        BY <1>0, <1>8, <2>1 DEF MarkReturnedToQueue, Requeued, Row
    <2> QED  BY <1>8, <1>c, <2>2 DEF MarkReturnedToQueue
<1>9. ASSUME MarkOrphanedJobs
      PROVE  ReservationStep
    <2>1. Stale \in SUBSET Jobs /\ \A j \in Stale : jobs[j].status = "handed_off"
        BY DEF Stale
    <2>2. \A j \in Jobs : IF j \in Stale
                          THEN jobs'[j].status \in {"queued", "orphaned"}
                          ELSE jobs'[j] = jobs[j]
        BY <1>9, <1>d DEF MarkOrphanedJobs
    <2>3. active' = Released(Stale) /\ cap' = cap
        BY <1>9 DEF MarkOrphanedJobs
    <2> QED  BY <1>b, <2>1, <2>2, <2>3
<1>10. ASSUME NEW j \in Jobs, Cancel(j)
       PROVE  ReservationStep
    <2>1. /\ jobs'[j].status = "cancelled" /\ cap' = cap
          /\ \A i \in Jobs : i # j => jobs'[i] = jobs[i]
        BY <1>0, <1>10 DEF Cancel, Row
    <2>2. CASE jobs[j].status = "handed_off"
        <3>1. active' = Released({j}) /\ {j} \in SUBSET Jobs
            BY <1>10, <2>2 DEF Cancel
        <3> QED  BY <1>b, <2>1, <2>2, <3>1
    <2>3. CASE jobs[j].status # "handed_off"
        <3>1. active' = active
            BY <1>10, <2>3 DEF Cancel
        <3> QED  BY <1>a, <2>1, <2>3, <3>1
    <2> QED  BY <2>2, <2>3
<1>11. ASSUME NEW status \in {"completed", "failed", "orphaned"},
              NEW S \in SUBSET Jobs, PruneTerminalJobs(status, S)
       PROVE  ReservationStep
    <2>1. active' = active /\ cap' = cap
        BY <1>11 DEF PruneTerminalJobs
    <2>2. \A i \in Jobs : IF i \in S THEN /\ jobs[i].status = status
                                          /\ jobs'[i].status = "deleted"
                          ELSE jobs'[i] = jobs[i]
        BY <1>11 DEF PruneTerminalJobs, NoRow
    <2> QED  BY <1>a, <2>1, <2>2
<1>12. ASSUME ClearAll
       PROVE  ReservationStep
    <2>1. \A k \in Keys : active'[k] = 0
        BY <1>12 DEF ClearAll
    <2>2. \A k \in Keys : Running(k)' = {}
        BY <1>12 DEF ClearAll, NoRow, Running
    <2>3. \A k \in Keys : Cardinality(Running(k)') = 0
        BY <2>2, FS_EmptySet
    <2> QED
        BY <1>0, <2>1, <2>3
        DEF ReservationStep, ConcurrencyInv, ConcurrencyExact, RowlessIsIdle
<1>13. ASSUME Tick PROVE ReservationStep
    BY <1>13, <1>a DEF Tick
<1>14. ASSUME UNCHANGED vars PROVE ReservationStep
    BY <1>14, <1>a DEF vars
<1> QED
    BY <1>1, <1>2, <1>3, <1>4, <1>5, <1>6, <1>7, <1>8, <1>9, <1>10, <1>11,
       <1>12, <1>13, <1>14 DEF Next

\* The three invariants together.
StoreInv == TypeOK /\ LeaseInv /\ ConcurrencyInv

\* The initial store is empty and consistent.
LEMMA StoreInit == Init => StoreInv
<1> SUFFICES ASSUME Init PROVE StoreInv
    OBVIOUS
<1>1. TypeOK
    BY DEF Init, TypeOK, NoRow, Row, Statuses, Counted, Times, NoTime, Fates
<1>2. LeaseInv
    BY DEF Init, LeaseInv, NoRow
<1>3. \A k \in Keys : Running(k) = {}
    BY DEF Init, Running, NoRow
<1>4. \A k \in Keys : Cardinality(Running(k)) = 0
    BY <1>3, FS_EmptySet
<1>5. ConcurrencyInv
    BY <1>4 DEF Init, ConcurrencyInv, ConcurrencyExact, RowlessIsIdle
<1> QED  BY <1>1, <1>2, <1>5 DEF StoreInv

\* Every step of the store preserves the three invariants.
LEMMA StoreStep == StoreInv /\ [Next]_vars => StoreInv'
BY TypeStep, LeaseStep, CountStep DEF StoreInv, ReservationStep

\* No slot of a concurrency key is ever leaked or freed twice: active_count
\* is the number of running leases of the key in every reachable state.
THEOREM ReservationsExact == Spec => []ConcurrencyExact
<1>1. StoreInv => ConcurrencyExact
    BY DEF StoreInv, ConcurrencyInv
<1> QED  BY <1>1, StoreInit, StoreStep, PTL DEF Spec

\* No step pushes the number of running jobs of a key past its cap, for any
\* number of jobs, workers and keys and any history of cap changes.
THEOREM CapsRespected == Spec => CapRespected
<1> DEFINE Step == \A k \in Keys :
                      Cardinality(Running(k)') > Cardinality(Running(k))
                         => Cardinality(Running(k)') <= cap[k]
<1>1. StoreInv /\ [Next]_vars => [Step]_vars
    <2> SUFFICES ASSUME StoreInv, [Next]_vars PROVE Step
        OBVIOUS
    <2>1. ConcurrencyExact /\ ConcurrencyExact'
        BY StoreStep DEF StoreInv, ConcurrencyInv
    <2>2. \A k \in Keys : active'[k] > active[k] => active'[k] <= cap[k]
        BY CountStep DEF StoreInv, ReservationStep
    <2> QED  BY <2>1, <2>2 DEF ConcurrencyExact
<1> QED  BY <1>1, StoreInit, StoreStep, PTL DEF Spec, CapRespected

-----------------------------------------------------------------------------
(* Transactions on one connection.                                         *)

\* One caller outside of operations, whose transactions are never chosen to end
\* a deadlock, and callbacks that let a deadlock pass.
LoneCaller ==
    /\ \A o, p \in Ordinary : o = p
    /\ Victims \cap Ordinary = {}
    /\ "deadlock" \notin Catches

\* Between the start of a caller's transaction and its end.
Busy == {"start", "body", "end", "undo", "backoff", "release"}

Places == {"idle", "turn", "enter", "start", "body", "end", "undo", "backoff", "release",
           "done", "failed"}
OpenCalls == [mark : Marks, began : {"begin", "savepoint"}]

\* What holds of a caller whatever becomes of the count.
CallersInOrder ==
    /\ at \in [TxnCallers -> Places] /\ calls \in [TxnCallers -> Seq(OpenCalls)]
    /\ attempt \in [TxnCallers -> 1..DeadlockTries]
    /\ used \in [TxnCallers -> 0..FrameMax]
    /\ \A c \in TxnCallers :
          /\ at[c] = "backoff" => attempt[c] < DeadlockTries
          /\ at[c] \in {"start", "body", "end"} => calls[c] # <<>>

\* The count stays below zero: whoever starts, starts a savepoint.
LostForGood ==
    /\ txCount \in Int /\ txCount < 0
    /\ \A c \in TxnCallers : at[c] = "start" => TopCall(c).began = "savepoint"

\* An operation has the lease from its turn to its end, and the connection to itself.
LeaseKept ==
    /\ \A c \in Operations : at[c] \in Busy \cup {"enter"} <=> lease = c
    /\ lease # NoOne => \A o \in Ordinary : at[o] \notin Busy
    /\ \A c \in Operations :
          at[c] \in Busy \cup {"turn", "enter"} => \E i \in DOMAIN turns : turns[i] = c
    /\ lease # NoOne => turns # <<>> /\ turns[1] = lease

\* What error is on its way, by where the caller is.
ErrorAt(c) ==
    /\ at[c] \in {"idle", "turn", "enter", "start", "body", "end", "done"} => thrown[c] = "none"
    /\ at[c] = "undo" => thrown[c] # "none"
    /\ at[c] = "backoff" => thrown[c] = "deadlock"
    /\ thrown[c] = "callback" => calls[c] = <<>>
    /\ at[c] = "idle" => attempt[c] = 1 /\ used[c] = 0
    /\ calls[c] # <<>> => at[c] \in {"start", "body", "end", "undo"}
    /\ c \in Ordinary => at[c] \notin {"turn", "backoff", "release"} /\ thrown[c] # "deadlock"

ErrorsPlaced == \A c \in TxnCallers : ErrorAt(c)

\* The marks of the attempt that c is at.
Own(c) == {m \in Marks : m[1] = c /\ m[2] = attempt[c]}

\* The frames, the layers of the database and the calls of c correspond: a frame has
\* the callbacks of what its layer has written.
Whole(c) ==
    /\ txCount = IF layers = <<>> THEN 0 ELSE 1
    /\ Len(layers) = IF at[c] = "start" THEN Len(calls[c]) - 1 ELSE Len(calls[c])
    /\ at[c] = "start" => stack[Len(stack)].callbacks = {}
    /\ \A i \in DOMAIN layers : layers[i] = stack[i].callbacks /\ layers[i] \subseteq Own(c)

\* The database rolled the transaction back, and the error passes through the calls.
Gone(c) == at[c] = "undo" /\ thrown[c] = "deadlock" /\ layers = <<>> /\ txCount \in {0, 1}

Frame(c) ==
    /\ Len(stack) = Len(calls[c])
    /\ \A i \in DOMAIN calls[c] : /\ calls[c][i].mark \in Own(c)
                                  /\ calls[c][i].began = IF i = 1 THEN "begin" ELSE "savepoint"
    /\ Whole(c) \/ Gone(c)

ConnectionMatches ==
    /\ (\A c \in TxnCallers : calls[c] = <<>>) => layers = <<>> /\ stack = <<>> /\ txCount = 0
    /\ \A c \in TxnCallers : calls[c] # <<>> => Frame(c)

\* Where the caller of something durable is, and which callbacks ran.
Committed(c) == at[c] \in {"done", "release"} /\ thrown[c] = "none"
DurableWasCommitted ==
    /\ \A m \in durable : /\ m[2] = attempt[m[1]]
                          /\ Committed(m[1]) \/ thrown[m[1]] = "callback"
                          /\ Committed(m[1]) /\ used[m[1]] > 0 => ranCount[m] = 1
    /\ CallbackOnlyAfterCommit

\* The inductive invariant.
CountSound ==
    /\ TxnTypeOK /\ txCount >= 0 /\ LeaseKept /\ ErrorsPlaced
    /\ ConnectionMatches /\ DurableWasCommitted

TxnInductive == CallersInOrder /\ (LostForGood \/ CountSound)

-----------------------------------------------------------------------------
\* Sequences that grow and shrink at their end.
LEMMA TopGone ==
    ASSUME NEW X, NEW s \in Seq(X), s # <<>>
    PROVE  /\ Len(s) \in Nat /\ Len(s) >= 1 /\ DOMAIN s = 1..Len(s)
           /\ Front(s) \in Seq(X) /\ Len(Front(s)) = Len(s) - 1 /\ DOMAIN Front(s) = 1..Len(s) - 1
           /\ \A i \in 1..Len(s) - 1 : Front(s)[i] = s[i]
           /\ Last(s) = s[Len(s)] /\ Last(s) \in X
           /\ Front(s) = <<>> <=> Len(s) = 1
<1>1. Len(s) \in Nat /\ Len(s) >= 1 /\ DOMAIN s = 1..Len(s)
  OBVIOUS
<1>2. Front(s) = [i \in 1..Len(s) - 1 |-> s[i]]
  BY <1>1 DEF Front
<1>3. Front(s) \in Seq(X) /\ Len(Front(s)) = Len(s) - 1
  BY <1>1, <1>2
<1>4. Last(s) = s[Len(s)] /\ Last(s) \in X
  BY <1>1 DEF Last
<1>5. Front(s) = <<>> <=> Len(s) = 1
  <2>1. Front(s) = <<>> <=> Len(Front(s)) = 0
    BY <1>3, EmptySeq
  <2> QED  BY <1>1, <1>3, <2>1
<1> QED  BY <1>1, <1>2, <1>3, <1>4, <1>5

LEMMA TopAdded ==
    ASSUME NEW X, NEW s \in Seq(X), NEW x \in X, NEW r, r = Append(s, x)
    PROVE  /\ r \in Seq(X) /\ Len(s) \in Nat /\ Len(r) = Len(s) + 1 /\ r # <<>>
           /\ DOMAIN r = 1..Len(s) + 1 /\ DOMAIN s = 1..Len(s)
           /\ r[Len(s) + 1] = x /\ \A i \in 1..Len(s) : r[i] = s[i]
  OBVIOUS

LEMMA TopAltered ==
    ASSUME NEW X, NEW s \in Seq(X), s # <<>>, NEW x \in X, NEW r, r = [s EXCEPT ![Len(s)] = x]
    PROVE  /\ r \in Seq(X) /\ Len(s) \in Nat /\ Len(s) >= 1 /\ Len(r) = Len(s) /\ r # <<>>
           /\ DOMAIN r = 1..Len(s) /\ DOMAIN s = 1..Len(s)
           /\ r[Len(s)] = x /\ \A i \in 1..Len(s) - 1 : r[i] = s[i]
<1> DEFINE n == Len(s)
<1>1. n \in Nat /\ n >= 1 /\ DOMAIN s = 1..n
  OBVIOUS
<1>2. n \in 1..n /\ \A i \in 1..n - 1 : i \in 1..n /\ i # n
  <2> HIDE DEF n
  <2> QED  BY <1>1
<1>3. r \in Seq(X) /\ Len(r) = n /\ \A j \in 1..n : r[j] = IF j = n THEN x ELSE s[j]
  BY <1>2, ExceptSeq
<1>4. r # <<>> /\ DOMAIN r = 1..n
  BY <1>1, <1>3
<1>5. r[n] = x /\ \A i \in 1..n - 1 : r[i] = s[i]
  <2> HIDE DEF n
  <2> QED  BY <1>2, <1>3
<1> QED  BY <1>1, <1>3, <1>4, <1>5

\* Marks.
LEMMA MarkParts ==
    ASSUME NEW c \in TxnCallers, NEW a \in 1..DeadlockTries, NEW f \in 1..FrameMax
    PROVE  <<c, a, f>> \in Marks /\ <<c, a, f>>[1] = c /\ <<c, a, f>>[2] = a
  BY DEF Marks

LEMMA MarkOf == \A m \in Marks : m[1] \in TxnCallers /\ m[2] \in 1..DeadlockTries
  BY DEF Marks

-----------------------------------------------------------------------------
\* The next frame of a caller.
LEMMA Pushes ==
    ASSUME CallersInOrder, NEW c \in TxnCallers, PushFrame(c)
    PROVE  LET m == <<c, attempt[c], used[c] + 1>>
               k == [mark |-> m, began |-> IF txCount = 0 THEN "begin" ELSE "savepoint"]
           IN  /\ m \in Marks /\ k \in OpenCalls
               /\ calls' = [calls EXCEPT ![c] = Append(calls[c], k)]
               /\ calls' \in [TxnCallers -> Seq(OpenCalls)] /\ calls'[c] # <<>>
               /\ used' \in [TxnCallers -> 0..FrameMax]
               /\ TopCall(c)' = k /\ TopCall(c)'.began = k.began
<1> DEFINE m == <<c, attempt[c], used[c] + 1>>
           k == [mark |-> m, began |-> IF txCount = 0 THEN "begin" ELSE "savepoint"]
<1>1. FrameMax \in Nat /\ DeadlockTries \in Nat
  BY TransactionsAssumption
<1>2. used[c] + 1 \in 1..FrameMax /\ attempt[c] \in 1..DeadlockTries
  BY <1>1 DEF CallersInOrder, PushFrame
<1>3. m \in Marks /\ k \in OpenCalls
  BY <1>2, MarkParts DEF OpenCalls
<1>4. calls' = [calls EXCEPT ![c] = Append(calls[c], k)]
  BY DEF PushFrame
<1>5. Append(calls[c], k) \in Seq(OpenCalls) /\ Append(calls[c], k) # <<>>
      /\ Append(calls[c], k)[Len(Append(calls[c], k))] = k
  <2> HIDE DEF k
  <2>1. calls[c] \in Seq(OpenCalls)
    BY DEF CallersInOrder
  <2> QED  BY <1>3, <2>1, TopAdded
<1>6. calls' \in [TxnCallers -> Seq(OpenCalls)] /\ calls'[c] = Append(calls[c], k)
  BY <1>4, <1>5 DEF CallersInOrder
<1>7. used' \in [TxnCallers -> 0..FrameMax]
  BY <1>1, <1>2 DEF CallersInOrder, PushFrame
<1>8. TopCall(c)' = k
  BY <1>5, <1>6 DEF TopCall
<1> QED  BY <1>3, <1>4, <1>5, <1>6, <1>7, <1>8

\* A call is over.
LEMMA Pops ==
    ASSUME CallersInOrder, NEW c \in TxnCallers, calls[c] # <<>>,
           calls' = [calls EXCEPT ![c] = Front(@)]
    PROVE  /\ calls' \in [TxnCallers -> Seq(OpenCalls)] /\ calls'[c] = Front(calls[c])
           /\ \A d \in TxnCallers \ {c} : calls'[d] = calls[d]
           /\ Len(calls[c]) \in Nat /\ Len(calls[c]) >= 1
           /\ Len(calls'[c]) = Len(calls[c]) - 1 /\ DOMAIN calls'[c] = 1..Len(calls[c]) - 1
           /\ calls'[c] = <<>> <=> Len(calls[c]) = 1
           /\ Len(calls[c]) > 1 => calls'[c] # <<>>
           /\ \A i \in 1..Len(calls[c]) - 1 : calls'[c][i] = calls[c][i]
<1>1. calls[c] \in Seq(OpenCalls)
  BY DEF CallersInOrder
<1>2. calls'[c] = Front(calls[c]) /\ \A d \in TxnCallers \ {c} : calls'[d] = calls[d]
  BY DEF CallersInOrder
<1>3. calls' \in [TxnCallers -> Seq(OpenCalls)]
  BY <1>1, TopGone DEF CallersInOrder
<1>4. /\ Len(calls[c]) \in Nat /\ Len(calls[c]) >= 1
      /\ Len(Front(calls[c])) = Len(calls[c]) - 1 /\ DOMAIN Front(calls[c]) = 1..Len(calls[c]) - 1
      /\ Front(calls[c]) = <<>> <=> Len(calls[c]) = 1
      /\ \A i \in 1..Len(calls[c]) - 1 : Front(calls[c])[i] = calls[c][i]
  BY <1>1, TopGone
<1>5. Len(calls[c]) > 1 => Front(calls[c]) # <<>>
  BY <1>4
<1> QED  BY <1>2, <1>3, <1>4, <1>5

\* What holds of callers whatever becomes of the count.
LEMMA OrderKept == ASSUME CallersInOrder, NEW c \in TxnCallers, TxnStep(c) PROVE CallersInOrder'
<1> USE DEF CallersInOrder, Places
<1>0. DeadlockTries \in Nat \ {0} /\ FrameMax \in Nat \ {0}
  BY TransactionsAssumption
<1>1. CASE OperationAsks(c) \/ OperationTurn(c) \/ PlainWrite(c) \/ OrdinaryEnters(c)
  BY <1>1 DEF OperationAsks, OperationTurn, PlainWrite, OrdinaryEnters, Goes
<1>2. CASE Enter(c) \/ Nest(c)
  <2>1. PushFrame(c) /\ attempt' = attempt
    BY <1>2 DEF Enter, Nest
  <2>2. at' = [at EXCEPT ![c] = "start"] /\ \A d \in TxnCallers \ {c} : calls'[d] = calls[d]
    BY <2>1 DEF PushFrame, Goes
  <2> QED  BY <2>1, <2>2, Pushes
<1>3. CASE Start(c)
  BY <1>3 DEF Start, Goes
<1>4. CASE StartFails(c)
  <2>1. calls' = [calls EXCEPT ![c] = Front(@)] /\ calls[c] # <<>> /\ UNCHANGED <<attempt, used>>
    BY <1>4 DEF StartFails
  <2>2. PICK error : Leaves(c, error)
    BY <1>4 DEF StartFails
  <2>3. CASE Goes(c, "undo")
    BY <2>1, <2>3, Pops DEF Goes
  <2>4. CASE Len(calls[c]) > 1 /\ Goes(c, "body")
    <3>1. calls'[c] # <<>>
      BY <2>1, <2>4, Pops
    <3> QED  BY <2>1, <2>4, <3>1, Pops DEF Goes
  <2> QED  BY <2>2, <2>3, <2>4 DEF Leaves
<1>5. CASE Work(c)
  BY <1>5 DEF Work
<1>6. CASE Throws(c) \/ Deadlocked(c)
  BY <1>6 DEF Throws, Deadlocked, Goes
<1>7. CASE Returns(c)
  BY <1>7 DEF Returns, Goes
<1>8. CASE Commit(c)
  <2>1. calls' = [calls EXCEPT ![c] = Front(@)] /\ calls[c] # <<>> /\ UNCHANGED <<attempt, used>>
    BY <1>8 DEF Commit
  <2>2. at' = [at EXCEPT ![c] = Outwards(c)]
    BY <1>8 DEF Commit, Goes
  <2>3. Outwards(c) \in {"body", "release", "done"} /\ (Outwards(c) = "body" => calls'[c] # <<>>)
    BY <2>1, Pops DEF Outwards
  <2> QED  BY <2>1, <2>2, <2>3, Pops
<1>9. CASE CallbackFails(c)
  <2>1. calls' = [calls EXCEPT ![c] = Front(@)] /\ calls[c] # <<>> /\ UNCHANGED <<attempt, used>>
    BY <1>9 DEF CallbackFails
  <2>2. at' = [at EXCEPT ![c] = "undo"]
    BY <1>9 DEF CallbackFails, Goes
  <2> QED  BY <2>1, <2>2, Pops
<1>10. CASE Rollback(c)
  <2>1. calls' = [calls EXCEPT ![c] = Front(@)] /\ calls[c] # <<>> /\ UNCHANGED <<attempt, used>>
    BY <1>10 DEF Rollback
  <2>2. Leaves(c, thrown[c])
    BY <1>10 DEF Rollback
  <2>3. CASE Goes(c, "undo")
    BY <2>1, <2>3, Pops DEF Goes
  <2>4. CASE Len(calls[c]) > 1 /\ Goes(c, "body")
    <3>1. calls'[c] # <<>>
      BY <2>1, <2>4, Pops
    <3> QED  BY <2>1, <2>4, <3>1, Pops DEF Goes
  <2> QED  BY <2>2, <2>3, <2>4 DEF Leaves
<1>11. CASE Escapes(c)
  BY <1>11 DEF Escapes, Goes
<1>12. CASE Retry(c)
  <2>1. attempt[c] + 1 \in 1..DeadlockTries
    BY <1>0, <1>12 DEF Retry
  <2>2. <<c, attempt[c] + 1, 1>> \in Marks
    BY <1>0, <2>1, MarkParts
  <2> DEFINE k == [mark |-> <<c, attempt[c] + 1, 1>>,
                   began |-> IF txCount = 0 THEN "begin" ELSE "savepoint"]
  <2>3. calls' = [calls EXCEPT ![c] = <<k>>] /\ k \in OpenCalls
    BY <1>12, <2>2 DEF Retry, OpenCalls
  <2>4. <<k>> \in Seq(OpenCalls) /\ <<k>> # <<>>
    BY <2>3
  <2>5. at' = [at EXCEPT ![c] = "start"] /\ attempt' = [attempt EXCEPT ![c] = @ + 1]
        /\ used' = [used EXCEPT ![c] = 1]
    BY <1>12 DEF Retry, Goes
  <2> HIDE DEF k
  <2> QED  BY <1>0, <2>1, <2>3, <2>4, <2>5
<1>13. CASE OperationEnds(c)
  BY <1>13 DEF OperationEnds, Goes
<1> QED  BY <1>1, <1>2, <1>3, <1>4, <1>5, <1>6, <1>7, <1>8, <1>9, <1>10, <1>11, <1>12, <1>13 DEF TxnStep

\* A step of c moves nobody else.
LEMMA OthersStay ==
    ASSUME CallersInOrder, NEW c \in TxnCallers, TxnStep(c), NEW d \in TxnCallers, d # c
    PROVE  /\ at'[d] = at[d] /\ calls'[d] = calls[d] /\ attempt'[d] = attempt[d] /\ used'[d] = used[d]
           /\ thrown \in [TxnCallers -> {"none", "plain", "deadlock", "callback"}] => thrown'[d] = thrown[d]
<1> USE DEF CallersInOrder, Goes
<1>1. CASE OperationAsks(c) \/ OperationTurn(c) \/ PlainWrite(c) \/ OrdinaryEnters(c)
  BY <1>1 DEF OperationAsks, OperationTurn, PlainWrite, OrdinaryEnters
<1>2. CASE Enter(c) \/ Nest(c)
  BY <1>2 DEF Enter, Nest, PushFrame
<1>3. CASE Start(c) \/ Work(c) \/ Throws(c) \/ Deadlocked(c) \/ Returns(c)
  BY <1>3 DEF Start, Work, Throws, Deadlocked, Returns
<1>4. CASE StartFails(c)
  BY <1>4 DEF StartFails, Leaves
<1>5. CASE Commit(c) \/ CallbackFails(c)
  BY <1>5 DEF Commit, CallbackFails
<1>6. CASE Rollback(c)
  BY <1>6 DEF Rollback, Leaves
<1>7. CASE Escapes(c) \/ OperationEnds(c)
  BY <1>7 DEF Escapes, OperationEnds
<1>8. CASE Retry(c)
  BY <1>8 DEF Retry
<1> QED  BY <1>1, <1>2, <1>3, <1>4, <1>5, <1>6, <1>7, <1>8 DEF TxnStep

\* Only a begin raises the count, and a caller that starts has just looked at it.
LEMMA LostStays ==
    ASSUME CallersInOrder, LostForGood, NEW c \in TxnCallers, TxnStep(c)
    PROVE  LostForGood'
<1>1. SUFFICES /\ txCount' \in Int /\ txCount' < 0
               /\ at'[c] = "start" => TopCall(c)'.began = "savepoint"
  <2>1. \A d \in TxnCallers \ {c} : at'[d] = at[d] /\ calls'[d] = calls[d]
    BY OthersStay
  <2>2. \A d \in TxnCallers \ {c} : TopCall(d)' = TopCall(d)
    BY <2>1 DEF TopCall
  <2> QED  BY <1>1, <2>1, <2>2 DEF LostForGood
<1> USE DEF CallersInOrder, LostForGood, Goes
<1>2. CASE OperationAsks(c) \/ OperationTurn(c) \/ PlainWrite(c) \/ OrdinaryEnters(c)
  BY <1>2 DEF OperationAsks, OperationTurn, PlainWrite, OrdinaryEnters
<1>3. CASE Enter(c) \/ Nest(c)
  <2>1. PushFrame(c) /\ txCount' = txCount
    BY <1>3 DEF Enter, Nest
  <2>2. TopCall(c)'.began = IF txCount = 0 THEN "begin" ELSE "savepoint"
    BY <2>1, Pushes
  <2> QED  BY <2>1, <2>2
<1>4. CASE Start(c)
  BY <1>4 DEF Start
<1>5. CASE Work(c) \/ Throws(c) \/ Deadlocked(c) \/ Returns(c)
  BY <1>5 DEF Work, Throws, Deadlocked, Returns
<1>6. CASE StartFails(c)
  BY <1>6 DEF StartFails, Leaves
<1>7. CASE Commit(c) \/ CallbackFails(c)
  <2>1. txCount' \in {txCount, txCount - 1}
    BY <1>7 DEF Commit, CallbackFails, Durably
  <2>2. at'[c] # "start"
    BY <1>7 DEF Commit, CallbackFails, Outwards
  <2> QED  BY <2>1, <2>2
<1>8. CASE Rollback(c)
  <2>1. txCount' \in {txCount, txCount - 1}
    BY <1>8 DEF Rollback
  <2>2. at'[c] # "start"
    BY <1>8 DEF Rollback, Leaves
  <2> QED  BY <2>1, <2>2
<1>9. CASE Escapes(c) \/ OperationEnds(c)
  BY <1>9 DEF Escapes, OperationEnds
<1>10. CASE Retry(c)
  <2> DEFINE k == [mark |-> <<c, attempt[c] + 1, 1>>,
                   began |-> IF txCount = 0 THEN "begin" ELSE "savepoint"]
  <2>1. calls' = [calls EXCEPT ![c] = <<k>>] /\ txCount' = txCount
    BY <1>10 DEF Retry
  <2>2. k.began = "savepoint"
    OBVIOUS
  <2> HIDE DEF k
  <2>3. calls'[c] = <<k>> /\ Len(<<k>>) = 1 /\ <<k>>[1] = k
    BY <2>1
  <2>4. TopCall(c)' = k
    BY <2>3 DEF TopCall
  <2> QED  BY <2>1, <2>2, <2>4
<1> QED  BY <1>2, <1>3, <1>4, <1>5, <1>6, <1>7, <1>8, <1>9, <1>10 DEF TxnStep

-----------------------------------------------------------------------------
\* Whoever is between start and end is alone on the connection.
LEMMA Alone ==
    ASSUME LoneCaller, CountSound, NEW c \in TxnCallers, at[c] \in Busy, NEW d \in TxnCallers, d # c
    PROVE  at[d] \notin Busy /\ calls[d] = <<>> /\ at[d] \notin {"start", "body", "end", "undo"}
<1>1. NoOne \notin TxnCallers /\ TxnCallers = Ordinary \cup Operations
  BY TransactionsAssumption DEF TxnCallers
<1>2. at[d] \notin Busy
  <2>1. CASE c \in Operations
    <3>1. lease = c
      BY <2>1 DEF CountSound, LeaseKept
    <3> QED  BY <1>1, <3>1 DEF CountSound, LeaseKept
  <2>2. CASE c \in Ordinary
    <3>1. lease = NoOne
      BY <2>2 DEF CountSound, LeaseKept
    <3>2. d \in Ordinary => d = c
      BY <2>2 DEF LoneCaller
    <3> QED  BY <1>1, <3>1, <3>2 DEF CountSound, LeaseKept
  <2> QED  BY <1>1, <2>1, <2>2
<1>3. at[d] \notin {"start", "body", "end", "undo"}
  BY <1>2 DEF Busy
<1>4. calls[d] = <<>>
  BY <1>3 DEF CountSound, ErrorsPlaced, ErrorAt
<1> QED  BY <1>2, <1>3, <1>4

\* Who begins passes the lease, so the connection is his or nobody's.
LEMMA NobodyInside ==
    ASSUME LoneCaller, CountSound, NEW c \in TxnCallers, Passes(c), at[c] \notin Busy,
           c \in Operations => at[c] = "enter"
    PROVE  /\ \A d \in TxnCallers : at[d] \notin Busy /\ calls[d] = <<>>
           /\ layers = <<>> /\ stack = <<>> /\ txCount = 0
<1>1. NoOne \notin TxnCallers /\ TxnCallers = Ordinary \cup Operations /\ Ordinary \cap Operations = {}
  BY TransactionsAssumption DEF TxnCallers
<1>2. \A d \in TxnCallers : at[d] \notin Busy
  <2> SUFFICES ASSUME NEW d \in TxnCallers, at[d] \in Busy PROVE FALSE
    OBVIOUS
  <2>1. d \in Operations => lease = d
    BY DEF CountSound, LeaseKept
  <2>2. d \in Ordinary /\ (lease = NoOne \/ lease = c)
    BY <1>1, <2>1 DEF Passes
  <2>3. lease = NoOne
    BY <2>2 DEF CountSound, LeaseKept
  <2>4. c \in Ordinary
    BY <1>1, <2>3 DEF CountSound, LeaseKept
  <2> QED  BY <2>2, <2>4 DEF LoneCaller
<1>3. \A d \in TxnCallers : calls[d] = <<>>
  BY <1>2 DEF Busy, CountSound, ErrorsPlaced, ErrorAt
<1> QED  BY <1>2, <1>3 DEF CountSound, ConnectionMatches

\* The lease and the turns, when a step does not touch them.
LEMMA LeaseStays ==
    ASSUME CountSound, NEW c \in TxnCallers, UNCHANGED <<lease, turns>>, NEW w,
           at' = [at EXCEPT ![c] = w],
           c \in Operations => at[c] \in Busy \cup {"enter"} /\ w \in Busy \cup {"enter"},
           c \in Ordinary /\ w \in Busy => lease = NoOne
    PROVE  LeaseKept'
<1>1. TxnCallers = Ordinary \cup Operations /\ Ordinary \cap Operations = {}
  BY TransactionsAssumption DEF TxnCallers
<1>2. at'[c] = w /\ \A d \in TxnCallers \ {c} : at'[d] = at[d]
  BY DEF CountSound, TxnTypeOK
<1>3. \A d \in Operations : /\ at'[d] \in Busy \cup {"enter"} <=> at[d] \in Busy \cup {"enter"}
                            /\ at'[d] \in Busy \cup {"turn", "enter"} => at[d] \in Busy \cup {"turn", "enter"}
  BY <1>1, <1>2
<1>4. lease # NoOne => \A o \in Ordinary : at'[o] \notin Busy
  BY <1>1, <1>2 DEF CountSound, LeaseKept
<1> QED  BY <1>3, <1>4 DEF CountSound, LeaseKept

-----------------------------------------------------------------------------
\* What a step of c has to show.
LEMMA ErrorsStay ==
    ASSUME CallersInOrder, CountSound, NEW c \in TxnCallers, TxnStep(c), ErrorAt(c)'
    PROVE  ErrorsPlaced'
<1> SUFFICES ASSUME NEW d \in TxnCallers, d # c PROVE ErrorAt(d)'
  BY DEF ErrorsPlaced
<1>1. /\ at'[d] = at[d] /\ calls'[d] = calls[d] /\ attempt'[d] = attempt[d] /\ used'[d] = used[d]
      /\ thrown'[d] = thrown[d]
  BY OthersStay DEF CountSound, TxnTypeOK
<1>2. ErrorAt(d)
  BY DEF CountSound, ErrorsPlaced
<1> QED  BY <1>1, <1>2 DEF ErrorAt

LEMMA MatchesAlone ==
    ASSUME CountSound, NEW c \in TxnCallers, \A d \in TxnCallers \ {c} : calls'[d] = <<>>,
           calls'[c] # <<>> => Frame(c)',
           calls'[c] = <<>> => layers' = <<>> /\ stack' = <<>> /\ txCount' = 0
    PROVE  ConnectionMatches'
  BY DEF ConnectionMatches

LEMMA MatchesUntouched ==
    ASSUME CallersInOrder, CountSound, NEW c \in TxnCallers, TxnStep(c), calls[c] = <<>>,
           UNCHANGED <<layers, stack, txCount, calls>>
    PROVE  ConnectionMatches'
<1>1. \A d \in TxnCallers : calls[d] # <<>> =>
          at'[d] = at[d] /\ attempt'[d] = attempt[d] /\ thrown'[d] = thrown[d]
  BY OthersStay DEF CountSound, TxnTypeOK
<1>2. \A d \in TxnCallers : calls[d] # <<>> => Frame(d)'
  <2> SUFFICES ASSUME NEW d \in TxnCallers, calls[d] # <<>> PROVE Frame(d)'
    OBVIOUS
  <2>1. Frame(d) /\ at'[d] = at[d] /\ thrown'[d] = thrown[d] /\ Own(d)' = Own(d)
    BY <1>1 DEF CountSound, ConnectionMatches, Own
  <2>2. Whole(d) => Whole(d)'
    BY <2>1 DEF Whole
  <2>3. Gone(d) => Gone(d)'
    BY <2>1 DEF Gone
  <2> QED  BY <2>1, <2>2, <2>3 DEF Frame
<1> QED  BY <1>2 DEF CountSound, ConnectionMatches

\* Who has not committed has nothing durable.
LEMMA NothingDurable ==
    ASSUME CountSound, NEW c \in TxnCallers, ~Committed(c), thrown[c] # "callback"
    PROVE  \A m \in durable : m[1] # c
  BY DEF CountSound, DurableWasCommitted

LEMMA DurableStays ==
    ASSUME CallersInOrder, CountSound, NEW c \in TxnCallers, TxnStep(c), UNCHANGED <<durable, ranCount>>,
           \/ ~Committed(c) /\ thrown[c] # "callback"
           \/ /\ UNCHANGED <<attempt, used, thrown>>
              /\ Committed(c) <=> Committed(c)'
    PROVE  DurableWasCommitted'
<1>1. \A m \in durable : m[1] \in TxnCallers
  BY MarkOf DEF CountSound, TxnTypeOK
<1>2. \A d \in TxnCallers \ {c} : /\ at'[d] = at[d] /\ attempt'[d] = attempt[d] /\ used'[d] = used[d]
                                  /\ thrown'[d] = thrown[d]
  BY OthersStay DEF CountSound, TxnTypeOK
<1>3. \A d \in TxnCallers \ {c} : Committed(d)' <=> Committed(d)
  BY <1>2 DEF Committed
<1>4. CallbackOnlyAfterCommit'
  BY DEF CountSound, DurableWasCommitted, CallbackOnlyAfterCommit
<1> SUFFICES ASSUME NEW m \in durable
             PROVE  /\ m[2] = attempt'[m[1]]
                    /\ Committed(m[1])' \/ thrown'[m[1]] = "callback"
                    /\ Committed(m[1])' /\ used'[m[1]] > 0 => ranCount[m] = 1
  BY <1>4 DEF DurableWasCommitted
<1>5. /\ m[2] = attempt[m[1]] /\ (Committed(m[1]) \/ thrown[m[1]] = "callback")
      /\ Committed(m[1]) /\ used[m[1]] > 0 => ranCount[m] = 1
  BY DEF CountSound, DurableWasCommitted
<1>6. CASE m[1] # c
  <2>1. m[1] \in TxnCallers \ {c}
    BY <1>1, <1>6
  <2> QED  BY <1>2, <1>3, <1>5, <2>1
<1>7. CASE m[1] = c
  <2>1. UNCHANGED <<attempt, used, thrown>> /\ (Committed(c) <=> Committed(c)')
    BY <1>7, NothingDurable
  <2> QED  BY <1>5, <1>7, <2>1
<1> QED  BY <1>6, <1>7

-----------------------------------------------------------------------------
\* An operation waits for its turn, gets it, and ends.
LEMMA AsksSound ==
    ASSUME LoneCaller, CallersInOrder, CountSound, NEW c \in TxnCallers, OperationAsks(c)
    PROVE  CountSound'
<1>0. TxnStep(c)
  BY DEF TxnStep
<1>1. /\ c \in Operations /\ at[c] = "idle" /\ at' = [at EXCEPT ![c] = "turn"]
      /\ turns' = Append(turns, c)
      /\ UNCHANGED <<durable, layers, txCount, stack, lease, calls, attempt, used, thrown, ranCount, txnFaults>>
  BY DEF OperationAsks, Goes
<1>2. at'[c] = "turn" /\ \A d \in TxnCallers \ {c} : at'[d] = at[d]
  BY <1>1 DEF CountSound, TxnTypeOK
<1>3. turns \in Seq(Operations) /\ lease \in Operations \cup {NoOne} /\ ErrorAt(c)
  BY DEF CountSound, TxnTypeOK, ErrorsPlaced
<1>4. /\ turns' \in Seq(Operations) /\ turns'[Len(turns) + 1] = c /\ Len(turns) + 1 \in DOMAIN turns'
      /\ \A i \in DOMAIN turns : i \in DOMAIN turns' /\ turns'[i] = turns[i]
      /\ turns # <<>> => turns'[1] = turns[1] /\ turns' # <<>>
  BY <1>1, <1>3
<1>5. TxnTypeOK' /\ txCount' >= 0
  BY <1>1, <1>4 DEF CountSound, TxnTypeOK
<1>6. LeaseKept'
  <2>1. Ordinary \cap Operations = {} /\ TxnCallers = Ordinary \cup Operations
    BY TransactionsAssumption DEF TxnCallers
  <2>2. \A d \in Operations : at'[d] \in Busy \cup {"enter"} <=> lease' = d
    BY <1>1, <1>2, <2>1 DEF CountSound, LeaseKept, Busy
  <2>3. lease' # NoOne => \A o \in Ordinary : at'[o] \notin Busy
    BY <1>1, <1>2, <2>1 DEF CountSound, LeaseKept
  <2>4. \A d \in Operations :
          at'[d] \in Busy \cup {"turn", "enter"} => \E i \in DOMAIN turns' : turns'[i] = d
    BY <1>2, <1>4, <2>1 DEF CountSound, LeaseKept
  <2>5. lease' # NoOne => turns' # <<>> /\ turns'[1] = lease'
    BY <1>1, <1>4 DEF CountSound, LeaseKept
  <2> QED  BY <2>2, <2>3, <2>4, <2>5 DEF LeaseKept
<1>7. ErrorsPlaced'
  <2>1. Ordinary \cap Operations = {}
    BY TransactionsAssumption
  <2>2. ErrorAt(c)'
    BY <1>1, <1>2, <1>3, <2>1 DEF ErrorAt
  <2> QED  BY <1>0, <2>2, ErrorsStay
<1>8. ConnectionMatches'
  <2>1. calls[c] = <<>>
    BY <1>1, <1>3 DEF ErrorAt
  <2> QED  BY <1>0, <1>1, <2>1, MatchesUntouched
<1>9. DurableWasCommitted'
  <2>1. ~Committed(c) /\ thrown[c] # "callback"
    BY <1>1, <1>3 DEF Committed, ErrorAt
  <2> QED  BY <1>0, <1>1, <2>1, DurableStays
<1> QED  BY <1>5, <1>6, <1>7, <1>8, <1>9 DEF CountSound

\* The first in turn leaves the queue.
LEMMA TurnOver ==
    ASSUME CountSound, NEW c \in Operations, at[c] \in Busy \cup {"turn", "enter"},
           turns # <<>> => turns[1] = c
    PROVE  /\ turns # <<>> /\ Tail(turns) \in Seq(Operations)
           /\ \A d \in Operations \ {c} : at[d] \in Busy \cup {"turn", "enter"} =>
                 \E i \in DOMAIN Tail(turns) : Tail(turns)[i] = d
<1>1. turns \in Seq(Operations)
  BY DEF CountSound, TxnTypeOK
<1>2. turns # <<>>
  BY <1>1 DEF CountSound, LeaseKept
<1>3. Tail(turns) \in Seq(Operations) /\ \A i \in DOMAIN turns : i # 1 =>
          i - 1 \in DOMAIN Tail(turns) /\ Tail(turns)[i - 1] = turns[i]
  BY <1>1, <1>2
<1>4. ASSUME NEW d \in Operations \ {c}, at[d] \in Busy \cup {"turn", "enter"}
      PROVE  \E i \in DOMAIN Tail(turns) : Tail(turns)[i] = d
  <2>1. PICK i \in DOMAIN turns : turns[i] = d
    BY <1>4 DEF CountSound, LeaseKept
  <2>2. i # 1
    BY <1>2, <2>1
  <2> QED  BY <1>3, <2>1, <2>2
<1> QED  BY <1>2, <1>3, <1>4

\* No ordinary caller is inside when an operation takes the lease: his frame would
\* hold the mutex or show in the count.
LEMMA LeaseIsFree ==
    ASSUME LoneCaller, CallersInOrder, CountSound, MutexFree, lease = NoOne, ~(txCount > 0)
    PROVE  \A o \in Ordinary : at[o] \notin Busy
<1> SUFFICES ASSUME NEW o \in Ordinary, at[o] \in Busy PROVE FALSE
  OBVIOUS
<1>1. o \in TxnCallers /\ txCount \in Int
  BY DEF TxnCallers, CountSound, TxnTypeOK
<1>2. ErrorAt(o)
  BY <1>1 DEF CountSound, ErrorsPlaced
<1>3. at[o] # "start" /\ ~(at[o] = "undo" /\ txCount = 0)
  BY <1>1 DEF MutexFree
<1>4. txCount = 0
  BY <1>1 DEF CountSound
<1>5. at[o] \in {"body", "end"}
  BY <1>2, <1>3, <1>4 DEF ErrorAt, Busy
<1>6. calls[o] # <<>> /\ calls[o] \in Seq(OpenCalls)
  BY <1>1, <1>5 DEF CallersInOrder
<1>7. Whole(o)
  BY <1>1, <1>5, <1>6 DEF CountSound, ConnectionMatches, Frame, Gone
<1>8. layers = <<>>
  BY <1>4, <1>7 DEF Whole
<1>9. Len(calls[o]) = 0
  BY <1>5, <1>7, <1>8 DEF Whole
<1> QED  BY <1>6, <1>9, EmptySeq

LEMMA TurnSound ==
    ASSUME LoneCaller, CallersInOrder, CountSound, NEW c \in TxnCallers, OperationTurn(c)
    PROVE  CountSound'
<1>0. TxnStep(c) /\ Ordinary \cap Operations = {} /\ TxnCallers = Ordinary \cup Operations
      /\ NoOne \notin TxnCallers
  BY TransactionsAssumption DEF TxnStep, TxnCallers
<1>1. /\ at[c] = "turn" /\ Head(turns) = c /\ MutexFree
      /\ UNCHANGED <<durable, layers, txCount, stack, calls, attempt, used, thrown, ranCount, txnFaults>>
  BY DEF OperationTurn
<1>2. ErrorAt(c) /\ turns \in Seq(Operations) /\ lease \in Operations \cup {NoOne}
  BY DEF CountSound, TxnTypeOK, ErrorsPlaced
<1>3. c \in Operations
  BY <1>0, <1>1, <1>2 DEF ErrorAt
<1>4. turns # <<>> => turns[1] = c
  BY <1>1, <1>2
<1>5. /\ turns # <<>> /\ Tail(turns) \in Seq(Operations)
      /\ \A d \in Operations \ {c} : at[d] \in Busy \cup {"turn", "enter"} =>
            \E i \in DOMAIN Tail(turns) : Tail(turns)[i] = d
  BY <1>1, <1>3, <1>4, TurnOver
<1>6. lease = NoOne
  <2>1. lease # NoOne => lease = c
    BY <1>4 DEF CountSound, LeaseKept
  <2>2. lease # c
    BY <1>1, <1>3 DEF CountSound, LeaseKept, Busy
  <2> QED  BY <2>1, <2>2
<1>7. \A d \in Operations : at[d] \notin Busy \cup {"enter"}
  BY <1>0, <1>6 DEF CountSound, LeaseKept
<1>8. \/ at' = [at EXCEPT ![c] = "failed"] /\ turns' = Tail(turns) /\ lease' = lease
      \/ /\ ~(txCount > 0) /\ at' = [at EXCEPT ![c] = "enter"] /\ lease' = c /\ turns' = turns
  BY <1>6 DEF OperationTurn, Goes
<1>9. at'[c] \in {"failed", "enter"} /\ \A d \in TxnCallers \ {c} : at'[d] = at[d]
  BY <1>8 DEF CountSound, TxnTypeOK
<1>10. TxnTypeOK' /\ txCount' >= 0
  BY <1>1, <1>3, <1>5, <1>8 DEF CountSound, TxnTypeOK
<1>11. LeaseKept'
  <2>1. CASE at' = [at EXCEPT ![c] = "failed"] /\ turns' = Tail(turns) /\ lease' = lease
    <3>1. at'[c] = "failed"
      BY <2>1 DEF CountSound, TxnTypeOK
    <3>2. \A d \in Operations : at'[d] \in Busy \cup {"enter"} <=> lease' = d
      BY <1>0, <1>6, <1>7, <1>9, <2>1, <3>1 DEF Busy
    <3>3. \A d \in Operations :
            at'[d] \in Busy \cup {"turn", "enter"} => \E i \in DOMAIN turns' : turns'[i] = d
      BY <1>0, <1>5, <1>9, <2>1, <3>1 DEF Busy
    <3> QED  BY <1>6, <2>1, <3>2, <3>3 DEF LeaseKept
  <2>2. CASE ~(txCount > 0) /\ at' = [at EXCEPT ![c] = "enter"] /\ lease' = c /\ turns' = turns
    <3>1. at'[c] = "enter"
      BY <2>2 DEF CountSound, TxnTypeOK
    <3>2. \A d \in Operations : at'[d] \in Busy \cup {"enter"} <=> lease' = d
      BY <1>0, <1>7, <1>9, <2>2, <3>1
    <3>3. \A d \in Operations :
            at'[d] \in Busy \cup {"turn", "enter"} => \E i \in DOMAIN turns' : turns'[i] = d
      BY <1>0, <1>1, <1>9, <2>2 DEF CountSound, LeaseKept
    <3>4. \A o \in Ordinary : at'[o] \notin Busy
      BY <1>0, <1>1, <1>3, <1>6, <1>9, <2>2, LeaseIsFree
    <3> QED  BY <1>4, <1>5, <2>2, <3>2, <3>3, <3>4 DEF LeaseKept
  <2> QED  BY <1>8, <2>1, <2>2
<1>12. ErrorsPlaced'
  <2>1. ErrorAt(c)'
    BY <1>0, <1>1, <1>2, <1>3, <1>9 DEF ErrorAt
  <2> QED  BY <1>0, <2>1, ErrorsStay
<1>13. ConnectionMatches'
  <2>1. calls[c] = <<>>
    BY <1>1, <1>2 DEF ErrorAt
  <2> QED  BY <1>0, <1>1, <2>1, MatchesUntouched
<1>14. DurableWasCommitted'
  <2>1. ~Committed(c) /\ thrown[c] # "callback"
    BY <1>1, <1>2 DEF Committed, ErrorAt
  <2> QED  BY <1>0, <1>1, <2>1, DurableStays
<1> QED  BY <1>10, <1>11, <1>12, <1>13, <1>14 DEF CountSound

LEMMA EndsSound ==
    ASSUME LoneCaller, CallersInOrder, CountSound, NEW c \in TxnCallers, OperationEnds(c)
    PROVE  CountSound'
<1>0. TxnStep(c) /\ Ordinary \cap Operations = {} /\ TxnCallers = Ordinary \cup Operations
      /\ NoOne \notin TxnCallers
  BY TransactionsAssumption DEF TxnStep, TxnCallers
<1> DEFINE w == IF thrown[c] = "none" THEN "done" ELSE "failed"
<1>1. /\ at[c] = "release" /\ lease' = NoOne /\ turns' = Tail(turns) /\ at' = [at EXCEPT ![c] = w]
      /\ UNCHANGED <<durable, layers, txCount, stack, calls, attempt, used, thrown, ranCount, txnFaults>>
  BY DEF OperationEnds, Goes
<1>2. ErrorAt(c) /\ turns \in Seq(Operations)
  BY DEF CountSound, TxnTypeOK, ErrorsPlaced
<1>3. c \in Operations
  BY <1>0, <1>1, <1>2 DEF ErrorAt
<1>4. lease = c /\ turns[1] = c
  BY <1>0, <1>1, <1>3 DEF CountSound, LeaseKept, Busy
<1>5. /\ turns # <<>> /\ Tail(turns) \in Seq(Operations)
      /\ \A d \in Operations \ {c} : at[d] \in Busy \cup {"turn", "enter"} =>
            \E i \in DOMAIN Tail(turns) : Tail(turns)[i] = d
  <2>1. at[c] \in Busy \cup {"turn", "enter"}
    BY <1>1 DEF Busy
  <2> QED  BY <1>3, <1>4, <2>1, TurnOver
<1>6. w \in {"done", "failed"} /\ at'[c] = w /\ \A d \in TxnCallers \ {c} : at'[d] = at[d]
  BY <1>1 DEF CountSound, TxnTypeOK
<1>7. TxnTypeOK' /\ txCount' >= 0
  BY <1>1, <1>5 DEF CountSound, TxnTypeOK
<1>8. LeaseKept'
  <2>1. \A d \in Operations \ {c} : at[d] \notin Busy \cup {"enter"}
    BY <1>4 DEF CountSound, LeaseKept
  <2>2. at'[c] \notin Busy \cup {"turn", "enter"}
    BY <1>6 DEF Busy
  <2>3. \A d \in Operations : at'[d] \in Busy \cup {"enter"} <=> lease' = d
    BY <1>0, <1>1, <1>6, <2>1, <2>2
  <2>4. \A d \in Operations :
          at'[d] \in Busy \cup {"turn", "enter"} => \E i \in DOMAIN turns' : turns'[i] = d
    BY <1>0, <1>1, <1>5, <1>6, <2>2
  <2> QED  BY <1>1, <2>3, <2>4 DEF LeaseKept
<1>9. ErrorsPlaced'
  <2>1. ErrorAt(c)'
    BY <1>0, <1>1, <1>2, <1>3, <1>6 DEF ErrorAt
  <2> QED  BY <1>0, <2>1, ErrorsStay
<1>10. ConnectionMatches'
  <2>1. calls[c] = <<>>
    BY <1>1, <1>2 DEF ErrorAt
  <2> QED  BY <1>0, <1>1, <2>1, MatchesUntouched
<1>11. DurableWasCommitted'
  <2>1. Committed(c) <=> Committed(c)'
    BY <1>1, <1>6 DEF Committed
  <2> QED  BY <1>0, <1>1, <2>1, DurableStays
<1> QED  BY <1>7, <1>8, <1>9, <1>10, <1>11 DEF CountSound

\* An ordinary caller enters; an error leaves transaction().
LEMMA EntersSound ==
    ASSUME LoneCaller, CallersInOrder, CountSound, NEW c \in TxnCallers, OrdinaryEnters(c)
    PROVE  CountSound'
<1>0. TxnStep(c) /\ Ordinary \cap Operations = {}
  BY TransactionsAssumption DEF TxnStep
<1>1. /\ c \in Ordinary /\ at[c] = "idle" /\ at' = [at EXCEPT ![c] = "enter"]
      /\ UNCHANGED <<durable, layers, txCount, stack, lease, turns, calls, attempt, used, thrown, ranCount,
                     txnFaults>>
  BY DEF OrdinaryEnters, Goes
<1>2. at'[c] = "enter" /\ ErrorAt(c)
  BY <1>1 DEF CountSound, TxnTypeOK, ErrorsPlaced
<1>3. TxnTypeOK' /\ txCount' >= 0
  BY <1>1 DEF CountSound, TxnTypeOK
<1>4. LeaseKept'
  <2>1. "enter" \notin Busy /\ c \notin Operations
    BY <1>0, <1>1 DEF Busy
  <2> QED  BY <1>1, <2>1, LeaseStays
<1>5. ErrorsPlaced'
  <2>1. ErrorAt(c)'
    BY <1>1, <1>2 DEF ErrorAt
  <2> QED  BY <1>0, <2>1, ErrorsStay
<1>6. ConnectionMatches'
  <2>1. calls[c] = <<>>
    BY <1>1, <1>2 DEF ErrorAt
  <2> QED  BY <1>0, <1>1, <2>1, MatchesUntouched
<1>7. DurableWasCommitted'
  <2>1. ~Committed(c) /\ thrown[c] # "callback"
    BY <1>1, <1>2 DEF Committed, ErrorAt
  <2> QED  BY <1>0, <1>1, <2>1, DurableStays
<1> QED  BY <1>3, <1>4, <1>5, <1>6, <1>7 DEF CountSound

LEMMA EscapesSound ==
    ASSUME LoneCaller, CallersInOrder, CountSound, NEW c \in TxnCallers, Escapes(c)
    PROVE  CountSound'
<1>0. TxnStep(c) /\ Ordinary \cap Operations = {} /\ TxnCallers = Ordinary \cup Operations
  BY TransactionsAssumption DEF TxnStep, TxnCallers
<1>1. /\ at[c] = "undo" /\ calls[c] = <<>>
      /\ UNCHANGED <<durable, layers, txCount, stack, lease, turns, calls, attempt, used, thrown, ranCount,
                     txnFaults>>
  BY DEF Escapes
<1>2. ErrorAt(c)
  BY DEF CountSound, ErrorsPlaced
<1>3. PICK w \in {"backoff", "release", "failed"} :
          /\ at' = [at EXCEPT ![c] = w]
          /\ w = "backoff" => thrown[c] = "deadlock"
          /\ c \in Operations => w # "failed"
          /\ c \in Ordinary => w = "failed"
  <2>1. CASE thrown[c] = "deadlock" /\ attempt[c] < DeadlockTries /\ txCount = 0
    <3>1. c \notin Ordinary
      BY <1>2, <2>1 DEF ErrorAt
    <3> QED  BY <2>1, <3>1 DEF Escapes, Goes
  <2>2. CASE ~(thrown[c] = "deadlock" /\ attempt[c] < DeadlockTries /\ txCount = 0)
    BY <1>0, <2>2 DEF Escapes, Goes
  <2> QED  BY <2>1, <2>2
<1>4. at'[c] = w
  BY <1>3 DEF CountSound, TxnTypeOK
<1>5. TxnTypeOK' /\ txCount' >= 0
  BY <1>1, <1>3 DEF CountSound, TxnTypeOK
<1>6. LeaseKept'
  <2>1. c \in Operations => at[c] \in Busy \cup {"enter"} /\ w \in Busy \cup {"enter"}
    BY <1>1, <1>3 DEF Busy
  <2>2. ~(c \in Ordinary /\ w \in Busy)
    BY <1>3 DEF Busy
  <2> QED  BY <1>1, <1>3, <2>1, <2>2, LeaseStays
<1>7. ErrorsPlaced'
  <2>1. ErrorAt(c)'
    BY <1>0, <1>1, <1>2, <1>3, <1>4 DEF ErrorAt
  <2> QED  BY <1>0, <2>1, ErrorsStay
<1>8. ConnectionMatches'
  BY <1>0, <1>1, MatchesUntouched
<1>9. DurableWasCommitted'
  <2>1. ~Committed(c) /\ ~Committed(c)'
    BY <1>1, <1>2, <1>4 DEF Committed, ErrorAt
  <2> QED  BY <1>0, <1>1, <2>1, DurableStays
<1> QED  BY <1>5, <1>6, <1>7, <1>8, <1>9 DEF CountSound

\* A write outside of a transaction meets none.
LEMMA WriteSound ==
    ASSUME LoneCaller, CallersInOrder, CountSound, NEW c \in TxnCallers, PlainWrite(c)
    PROVE  CountSound'
<1>0. TxnStep(c) /\ Ordinary \cap Operations = {} /\ DeadlockTries \in Nat \ {0} /\ FrameMax \in Nat \ {0}
  BY TransactionsAssumption DEF TxnStep
<1> DEFINE m == <<c, 1, 1>>
<1>1. /\ c \in Ordinary /\ at[c] = "idle" /\ Passes(c) /\ WriteTo(m) /\ at' = [at EXCEPT ![c] = "done"]
      /\ UNCHANGED <<txCount, stack, lease, turns, calls, attempt, used, thrown, ranCount, txnFaults>>
  BY DEF PlainWrite, Goes
<1>2. ErrorAt(c) /\ at'[c] = "done"
  BY <1>1 DEF CountSound, TxnTypeOK, ErrorsPlaced
<1>3. calls[c] = <<>> /\ layers = <<>> /\ attempt[c] = 1 /\ used[c] = 0 /\ thrown[c] = "none"
  <2>1. at[c] \notin Busy /\ c \notin Operations
    BY <1>0, <1>1 DEF Busy
  <2> QED  BY <1>1, <1>2, <2>1, NobodyInside DEF ErrorAt
<1>4. durable' = durable \cup {m} /\ layers' = layers
  BY <1>1, <1>3 DEF WriteTo
<1>5. m \in Marks /\ m[1] = c /\ m[2] = 1
  BY <1>0, MarkParts
<1>6. TxnTypeOK' /\ txCount' >= 0
  BY <1>1, <1>4, <1>5 DEF CountSound, TxnTypeOK
<1>7. LeaseKept'
  <2>1. "done" \notin Busy /\ c \notin Operations
    BY <1>0, <1>1 DEF Busy
  <2> QED  BY <1>1, <2>1, LeaseStays
<1>8. ErrorsPlaced'
  <2>1. ErrorAt(c)'
    BY <1>1, <1>2, <1>3 DEF ErrorAt
  <2> QED  BY <1>0, <2>1, ErrorsStay
<1>9. ConnectionMatches'
  BY <1>0, <1>1, <1>3, <1>4, MatchesUntouched
<1>10. DurableWasCommitted'
  <2>1. ~Committed(c) /\ \A n \in durable : n[1] # c
    <3>1. ~Committed(c) /\ thrown[c] # "callback"
      BY <1>1, <1>3 DEF Committed
    <3> QED  BY <3>1, NothingDurable
  <2>2. Committed(c)'
    BY <1>1, <1>2, <1>3 DEF Committed
  <2>3. \A d \in TxnCallers \ {c} : Committed(d)' <=> Committed(d)
    BY <1>1 DEF Committed, CountSound, TxnTypeOK
  <2>4. \A n \in durable : n[1] \in TxnCallers \ {c}
    BY <2>1, MarkOf DEF CountSound, TxnTypeOK
  <2>5. CallbackOnlyAfterCommit'
    BY <1>1, <1>4 DEF CountSound, DurableWasCommitted, CallbackOnlyAfterCommit
  <2>6. \A n \in durable : /\ n[2] = attempt'[n[1]]
                           /\ Committed(n[1])' \/ thrown'[n[1]] = "callback"
                           /\ Committed(n[1])' /\ used'[n[1]] > 0 => ranCount'[n] = 1
    BY <1>1, <2>3, <2>4 DEF CountSound, DurableWasCommitted
  <2> HIDE DEF m
  <2> QED  BY <1>1, <1>3, <1>4, <1>5, <2>2, <2>5, <2>6 DEF DurableWasCommitted
<1> QED  BY <1>6, <1>7, <1>8, <1>9, <1>10 DEF CountSound

\* The frame of a call that begins a transaction.
LEMMA FirstFrame ==
    ASSUME CallersInOrder, CountSound, NEW c \in TxnCallers, TxnStep(c),
           \A d \in TxnCallers : calls[d] = <<>>, layers = <<>>, txCount = 0,
           NEW m, m \in Own(c)', calls'[c] = <<[mark |-> m, began |-> "begin"]>>,
           stack' = <<[mark |-> m, callbacks |-> {}]>>, at'[c] = "start", UNCHANGED <<layers, txCount>>
    PROVE  ConnectionMatches'
<1>1. \A d \in TxnCallers \ {c} : calls'[d] = <<>>
  BY OthersStay
<1> DEFINE k == [mark |-> m, began |-> "begin"]
           f == [mark |-> m, callbacks |-> {}]
<1>2. k.mark = m /\ k.began = "begin" /\ f.callbacks = {}
  OBVIOUS
<1> HIDE DEF k, f
<1>3. calls'[c] = <<k>> /\ stack' = <<f>>
  BY DEF k, f
<1>4. Len(calls'[c]) = 1 /\ DOMAIN calls'[c] = 1..1 /\ calls'[c][1] = k /\ calls'[c] # <<>>
      /\ Len(stack') = 1 /\ stack'[1] = f /\ Len(layers') = 0 /\ DOMAIN layers' = {}
  BY <1>3
<1>5. Whole(c)'
  BY <1>2, <1>4 DEF Whole
<1>6. Frame(c)'
  BY <1>2, <1>4, <1>5 DEF Frame
<1> QED  BY <1>1, <1>4, <1>6, MatchesAlone

LEMMA EnterSound ==
    ASSUME LoneCaller, CallersInOrder, CountSound, NEW c \in TxnCallers, Enter(c)
    PROVE  CountSound'
<1>0. TxnStep(c) /\ Ordinary \cap Operations = {} /\ NoOne \notin TxnCallers
  BY TransactionsAssumption DEF TxnStep
<1> DEFINE m == <<c, attempt[c], used[c] + 1>>
           k == [mark |-> m, began |-> IF txCount = 0 THEN "begin" ELSE "savepoint"]
           f == [mark |-> m, callbacks |-> {}]
<1>1. /\ at[c] = "enter" /\ Passes(c) /\ PushFrame(c)
      /\ UNCHANGED <<durable, layers, txCount, lease, turns, attempt, thrown, ranCount, txnFaults>>
  BY DEF Enter
<1>2. at' = [at EXCEPT ![c] = "start"] /\ at'[c] = "start"
  BY <1>1 DEF PushFrame, Goes, CountSound, TxnTypeOK
<1>3. ErrorAt(c)
  BY DEF CountSound, ErrorsPlaced
<1>4. (\A d \in TxnCallers : calls[d] = <<>>) /\ layers = <<>> /\ stack = <<>> /\ txCount = 0
  <2>1. at[c] \notin Busy
    BY <1>1 DEF Busy
  <2> QED  BY <1>1, <2>1, NobodyInside
<1>5. /\ m \in Marks /\ k \in OpenCalls /\ calls' = [calls EXCEPT ![c] = Append(calls[c], k)]
      /\ calls' \in [TxnCallers -> Seq(OpenCalls)] /\ used' \in [TxnCallers -> 0..FrameMax]
  BY <1>1, Pushes
<1>6. f \in Frames /\ stack' = Append(stack, f)
  BY <1>1, <1>5 DEF Frames, PushFrame
<1>7. TxnTypeOK' /\ txCount' >= 0
  <2>1. stack' \in Seq(Frames)
    BY <1>4, <1>6
  <2>2. at' \in [TxnCallers -> Places]
    BY <1>2 DEF CallersInOrder, Places
  <2> HIDE DEF m, k, f
  <2> QED  BY <1>1, <1>5, <2>1, <2>2 DEF CountSound, TxnTypeOK, Places, OpenCalls
<1>8. LeaseKept'
  <2>1. c \in Ordinary => lease = NoOne
    BY <1>0, <1>1 DEF Passes, CountSound, TxnTypeOK
  <2> QED  BY <1>1, <1>2, <2>1, LeaseStays DEF Busy
<1>9. ErrorsPlaced'
  <2>1. ErrorAt(c)'
    BY <1>1, <1>2, <1>3 DEF ErrorAt
  <2> QED  BY <1>0, <2>1, ErrorsStay
<1>10. ConnectionMatches'
  <2>1. m \in Own(c)'
    BY <1>1, <1>5 DEF Own
  <2>2. k = [mark |-> m, began |-> "begin"]
    BY <1>4
  <2> HIDE DEF m, k, f
  <2>3. calls'[c] = Append(<<>>, k) /\ stack' = Append(<<>>, f)
    BY <1>4, <1>5, <1>6 DEF CallersInOrder
  <2>4. calls'[c] = <<k>> /\ stack' = <<f>>
    BY <2>3
  <2>5. calls'[c] = <<[mark |-> m, began |-> "begin"]>> /\ stack' = <<[mark |-> m, callbacks |-> {}]>>
    BY <2>2, <2>4 DEF f
  <2> QED  BY <1>0, <1>1, <1>2, <1>4, <2>1, <2>5, FirstFrame
<1>11. DurableWasCommitted'
  <2>1. ~Committed(c) /\ thrown[c] # "callback"
    BY <1>1, <1>3 DEF Committed, ErrorAt
  <2> QED  BY <1>0, <1>1, <2>1, DurableStays
<1> QED  BY <1>7, <1>8, <1>9, <1>10, <1>11 DEF CountSound

LEMMA RetrySound ==
    ASSUME LoneCaller, CallersInOrder, CountSound, NEW c \in TxnCallers, Retry(c)
    PROVE  CountSound'
<1>0. /\ TxnStep(c) /\ Ordinary \cap Operations = {} /\ TxnCallers = Ordinary \cup Operations
      /\ DeadlockTries \in Nat \ {0} /\ FrameMax \in Nat \ {0}
  BY TransactionsAssumption DEF TxnStep, TxnCallers
<1> DEFINE m == <<c, attempt[c] + 1, 1>>
           k == [mark |-> m, began |-> IF txCount = 0 THEN "begin" ELSE "savepoint"]
           f == [mark |-> m, callbacks |-> {}]
<1>1. /\ at[c] = "backoff" /\ attempt' = [attempt EXCEPT ![c] = @ + 1]
      /\ thrown' = [thrown EXCEPT ![c] = "none"] /\ used' = [used EXCEPT ![c] = 1]
      /\ stack' = Append(stack, f) /\ calls' = [calls EXCEPT ![c] = <<k>>]
      /\ at' = [at EXCEPT ![c] = "start"]
      /\ UNCHANGED <<durable, layers, txCount, lease, turns, ranCount, txnFaults>>
  BY DEF Retry, Goes
<1>2. ErrorAt(c)
  BY DEF CountSound, ErrorsPlaced
<1>3. at'[c] = "start" /\ attempt'[c] = attempt[c] + 1 /\ thrown'[c] = "none"
  BY <1>1 DEF CountSound, TxnTypeOK
<1>4. attempt[c] + 1 \in 1..DeadlockTries
  BY <1>0, <1>1 DEF CallersInOrder
<1>5. m \in Marks /\ m[1] = c /\ m[2] = attempt[c] + 1 /\ 1 \in 0..FrameMax
  <2>1. 1 \in 1..FrameMax
    BY <1>0
  <2> QED  BY <1>0, <1>4, <2>1, MarkParts
<1>6. (\A d \in TxnCallers : calls[d] = <<>>) /\ layers = <<>> /\ stack = <<>> /\ txCount = 0
  <2>1. calls[c] = <<>> /\ at[c] \in Busy
    BY <1>1, <1>2 DEF ErrorAt, Busy
  <2>2. \A d \in TxnCallers : calls[d] = <<>>
    BY <2>1, Alone
  <2> QED  BY <2>2 DEF CountSound, ConnectionMatches
<1>7. TxnTypeOK' /\ txCount' >= 0
  <2>1. f \in Frames /\ k \in OpenCalls
    BY <1>5 DEF Frames, OpenCalls
  <2> HIDE DEF m, k, f
  <2>2. stack' \in Seq(Frames) /\ <<k>> \in Seq(OpenCalls)
    BY <1>1, <1>6, <2>1
  <2>3. calls' \in [TxnCallers -> Seq(OpenCalls)]
    BY <1>1, <2>2 DEF CallersInOrder
  <2>4. at' \in [TxnCallers -> Places]
    BY <1>1 DEF CallersInOrder, Places
  <2>5. attempt' \in [TxnCallers -> 1..DeadlockTries] /\ used' \in [TxnCallers -> 0..FrameMax]
        /\ thrown' \in [TxnCallers -> {"none", "plain", "deadlock", "callback"}]
    BY <1>1, <1>4, <1>5 DEF CountSound, TxnTypeOK
  <2> QED  BY <1>1, <2>2, <2>3, <2>4, <2>5 DEF CountSound, TxnTypeOK, Places, OpenCalls
<1>8. LeaseKept'
  <2>1. c \notin Ordinary
    BY <1>1, <1>2 DEF ErrorAt
  <2> QED  BY <1>1, <2>1, LeaseStays DEF Busy
<1>9. ErrorsPlaced'
  <2>1. c \notin Ordinary
    BY <1>1, <1>2 DEF ErrorAt
  <2>2. ErrorAt(c)'
    BY <1>3, <2>1 DEF ErrorAt
  <2> QED  BY <1>0, <2>2, ErrorsStay
<1>10. ConnectionMatches'
  <2>1. m \in Own(c)'
    BY <1>3, <1>5 DEF Own
  <2>2. k = [mark |-> m, began |-> "begin"]
    BY <1>6
  <2> HIDE DEF m, k, f
  <2>3. calls'[c] = <<k>> /\ stack' = <<f>>
    BY <1>1, <1>6 DEF CallersInOrder
  <2>4. calls'[c] = <<[mark |-> m, began |-> "begin"]>> /\ stack' = <<[mark |-> m, callbacks |-> {}]>>
    BY <2>2, <2>3 DEF f
  <2> QED  BY <1>0, <1>1, <1>3, <1>6, <2>1, <2>4, FirstFrame
<1>11. DurableWasCommitted'
  <2>1. ~Committed(c) /\ thrown[c] # "callback"
    BY <1>1, <1>2 DEF Committed, ErrorAt
  <2> QED  BY <1>0, <1>1, <2>1, DurableStays
<1> QED  BY <1>7, <1>8, <1>9, <1>10, <1>11 DEF CountSound

-----------------------------------------------------------------------------
\* A fault is within its bound.
LEMMA FaultCounts == \A n \in 0..TxnFaults : n < TxnFaults => n + 1 \in 0..TxnFaults
<1>1. TxnFaults \in Nat
  BY TransactionsAssumption
<1> QED  BY <1>1

\* A caller with a call in progress, and its frames.
LEMMA Inside ==
    ASSUME CallersInOrder, CountSound, NEW c \in TxnCallers, at[c] \in {"start", "body", "end", "undo"},
           at[c] = "undo" => calls[c] # <<>>
    PROVE  /\ calls[c] # <<>> /\ calls[c] \in Seq(OpenCalls) /\ Frame(c) /\ ErrorAt(c)
           /\ thrown[c] # "callback"
           /\ at[c] # "undo" => Whole(c) /\ thrown[c] = "none"
           /\ Len(calls[c]) \in Nat /\ Len(calls[c]) >= 1 /\ DOMAIN calls[c] = 1..Len(calls[c])
           /\ stack \in Seq(Frames) /\ stack # <<>> /\ Len(stack) = Len(calls[c])
           /\ layers \in Seq(SUBSET Marks) /\ Len(layers) \in Nat /\ DOMAIN layers = 1..Len(layers)
           /\ layers = <<>> <=> Len(layers) = 0
           /\ TopCall(c).mark \in Own(c)
           /\ TopCall(c).began = IF Len(calls[c]) = 1 THEN "begin" ELSE "savepoint"
<1>1. ErrorAt(c) /\ stack \in Seq(Frames) /\ layers \in Seq(SUBSET Marks)
  BY DEF CountSound, ErrorsPlaced, TxnTypeOK
<1>2. calls[c] # <<>> /\ calls[c] \in Seq(OpenCalls)
  BY DEF CallersInOrder
<1>3. Frame(c)
  BY <1>2 DEF CountSound, ConnectionMatches
<1>4. thrown[c] # "callback" /\ (at[c] # "undo" => thrown[c] = "none")
  BY <1>1, <1>2 DEF ErrorAt
<1>5. at[c] # "undo" => Whole(c)
  BY <1>3 DEF Frame, Gone
<1>6. Len(calls[c]) \in Nat /\ Len(calls[c]) >= 1 /\ DOMAIN calls[c] = 1..Len(calls[c])
  BY <1>2
<1>7. Len(stack) = Len(calls[c])
  BY <1>3 DEF Frame
<1>8. stack # <<>>
  BY <1>1, <1>6, <1>7, EmptySeq
<1>9. Len(layers) \in Nat /\ DOMAIN layers = 1..Len(layers) /\ (layers = <<>> <=> Len(layers) = 0)
  BY <1>1, EmptySeq
<1>10. Len(calls[c]) \in DOMAIN calls[c]
  BY <1>6
<1>11. /\ TopCall(c).mark \in Own(c)
       /\ TopCall(c).began = IF Len(calls[c]) = 1 THEN "begin" ELSE "savepoint"
  BY <1>3, <1>10 DEF Frame, TopCall
<1> QED  BY <1>1, <1>2, <1>3, <1>4, <1>5, <1>6, <1>7, <1>8, <1>9, <1>11

\* What such a caller has to show, when it makes nothing durable.
LEMMA StaysInside ==
    ASSUME LoneCaller, CallersInOrder, CountSound, NEW c \in TxnCallers, TxnStep(c),
           at[c] \in {"start", "body", "end", "undo"}, thrown[c] # "callback",
           NEW w \in {"start", "body", "end", "undo"}, at' = [at EXCEPT ![c] = w],
           UNCHANGED <<durable, ranCount, lease, turns>>,
           TxnTypeOK', txCount' >= 0, ErrorAt(c)',
           calls'[c] # <<>> => Frame(c)',
           calls'[c] = <<>> => layers' = <<>> /\ stack' = <<>> /\ txCount' = 0
    PROVE  CountSound'
<1>1. at[c] \in Busy /\ w \in Busy
  BY DEF Busy
<1>2. LeaseKept'
  <2>1. c \in Ordinary => lease = NoOne
    BY <1>1 DEF CountSound, LeaseKept
  <2> QED  BY <1>1, <2>1, LeaseStays
<1>3. ErrorsPlaced'
  BY ErrorsStay
<1>4. ConnectionMatches'
  <2>1. \A d \in TxnCallers \ {c} : calls'[d] = <<>>
    BY <1>1, Alone, OthersStay
  <2> QED  BY <2>1, MatchesAlone
<1>5. DurableWasCommitted'
  <2>1. ~Committed(c)
    BY DEF Committed
  <2> QED  BY <2>1, DurableStays
<1> QED  BY <1>2, <1>3, <1>4, <1>5 DEF CountSound

\* The callback throws, or returns.
LEMMA ThrowsSound ==
    ASSUME LoneCaller, CallersInOrder, CountSound, NEW c \in TxnCallers, Throws(c)
    PROVE  CountSound'
<1>0. TxnStep(c)
  BY DEF TxnStep
<1>1. /\ at[c] = "body" /\ at' = [at EXCEPT ![c] = "undo"] /\ thrown' = [thrown EXCEPT ![c] = "plain"]
      /\ txnFaults < TxnFaults /\ txnFaults' = txnFaults + 1
      /\ UNCHANGED <<durable, layers, txCount, stack, lease, turns, calls, attempt, used, ranCount>>
  BY DEF Throws, Goes, TxnFault
<1>2. at'[c] = "undo" /\ thrown'[c] = "plain"
  BY <1>1 DEF CountSound, TxnTypeOK
<1>3. calls[c] # <<>> /\ Frame(c) /\ ErrorAt(c) /\ Whole(c) /\ thrown[c] # "callback"
  BY <1>1, Inside
<1>4. TxnTypeOK' /\ txCount' >= 0
  <2>1. txnFaults' \in 0..TxnFaults
    BY <1>1, FaultCounts DEF CountSound, TxnTypeOK
  <2> QED  BY <1>1, <2>1 DEF CountSound, TxnTypeOK
<1>5. ErrorAt(c)'
  BY <1>1, <1>2, <1>3 DEF ErrorAt
<1>6. Frame(c)'
  <2>1. Own(c)' = Own(c)
    BY <1>1 DEF Own
  <2>2. Whole(c)'
    BY <1>1, <1>2, <1>3, <2>1 DEF Whole
  <2> QED  BY <1>1, <1>3, <2>1, <2>2 DEF Frame
<1> QED  BY <1>0, <1>1, <1>3, <1>4, <1>5, <1>6, StaysInside

LEMMA ReturnsSound ==
    ASSUME LoneCaller, CallersInOrder, CountSound, NEW c \in TxnCallers, Returns(c)
    PROVE  CountSound'
<1>0. TxnStep(c)
  BY DEF TxnStep
<1>1. /\ at[c] = "body" /\ at' = [at EXCEPT ![c] = "end"]
      /\ UNCHANGED <<durable, layers, txCount, stack, lease, turns, calls, attempt, used, thrown, ranCount,
                     txnFaults>>
  BY DEF Returns, Goes
<1>2. at'[c] = "end"
  BY <1>1 DEF CountSound, TxnTypeOK
<1>3. calls[c] # <<>> /\ Frame(c) /\ ErrorAt(c) /\ Whole(c) /\ thrown[c] # "callback"
  BY <1>1, Inside
<1>4. TxnTypeOK' /\ txCount' >= 0
  BY <1>1 DEF CountSound, TxnTypeOK
<1>5. ErrorAt(c)'
  BY <1>1, <1>2, <1>3 DEF ErrorAt
<1>6. Frame(c)'
  <2>1. Own(c)' = Own(c)
    BY <1>1 DEF Own
  <2>2. Whole(c)'
    BY <1>1, <1>2, <1>3, <2>1 DEF Whole
  <2> QED  BY <1>1, <1>3, <2>1, <2>2 DEF Frame
<1> QED  BY <1>0, <1>1, <1>3, <1>4, <1>5, <1>6, StaysInside

\* The database ends a deadlock with this transaction: it is an operation's.
LEMMA DeadlockSound ==
    ASSUME LoneCaller, CallersInOrder, CountSound, NEW c \in TxnCallers, Deadlocked(c)
    PROVE  CountSound'
<1>0. TxnStep(c) /\ c \notin Ordinary
  BY DEF TxnStep, Deadlocked, LoneCaller
<1>1. /\ at[c] \in {"body", "end"} /\ at' = [at EXCEPT ![c] = "undo"]
      /\ thrown' = [thrown EXCEPT ![c] = "deadlock"] /\ layers' \in {<<>>, layers}
      /\ txnFaults < TxnFaults /\ txnFaults' = txnFaults + 1
      /\ UNCHANGED <<durable, txCount, stack, lease, turns, calls, attempt, used, ranCount>>
  BY DEF Deadlocked, Goes, TxnFault
<1>2. at'[c] = "undo" /\ thrown'[c] = "deadlock"
  BY <1>1 DEF CountSound, TxnTypeOK
<1>3. calls[c] # <<>> /\ Frame(c) /\ ErrorAt(c) /\ Whole(c) /\ thrown[c] # "callback"
  BY <1>1, Inside
<1>4. TxnTypeOK' /\ txCount' >= 0
  <2>1. txnFaults' \in 0..TxnFaults
    BY <1>1, FaultCounts DEF CountSound, TxnTypeOK
  <2>2. layers \in Seq(SUBSET Marks) /\ <<>> \in Seq(SUBSET Marks)
    BY DEF CountSound, TxnTypeOK
  <2>3. layers' \in Seq(SUBSET Marks)
    BY <1>1, <2>2
  <2>4. at' \in [TxnCallers -> Places] /\ thrown' \in [TxnCallers -> {"none", "plain", "deadlock", "callback"}]
    BY <1>1 DEF CountSound, TxnTypeOK, Places
  <2> QED  BY <1>1, <2>1, <2>3, <2>4 DEF CountSound, TxnTypeOK, Places
<1>5. ErrorAt(c)'
  BY <1>0, <1>1, <1>2, <1>3 DEF ErrorAt
<1>6. Frame(c)'
  <2>1. Own(c)' = Own(c)
    BY <1>1 DEF Own
  <2>2. Whole(c)' \/ Gone(c)'
    <3>1. CASE layers' = layers
      BY <1>1, <1>2, <1>3, <2>1, <3>1 DEF Whole
    <3>2. CASE layers' = <<>>
      BY <1>1, <1>2, <1>3, <3>2 DEF Whole, Gone
    <3> QED  BY <1>1, <3>1, <3>2
  <2> QED  BY <1>1, <1>3, <2>1, <2>2 DEF Frame
<1> QED  BY <1>0, <1>1, <1>3, <1>4, <1>5, <1>6, StaysInside

\* A nested call pushes its frame: a transaction is open.
LEMMA NestSound ==
    ASSUME LoneCaller, CallersInOrder, CountSound, NEW c \in TxnCallers, Nest(c)
    PROVE  CountSound'
<1>0. TxnStep(c)
  BY DEF TxnStep
<1> DEFINE m == <<c, attempt[c], used[c] + 1>>
           k == [mark |-> m, began |-> IF txCount = 0 THEN "begin" ELSE "savepoint"]
           f == [mark |-> m, callbacks |-> {}]
           n == Len(calls[c])
<1>1. /\ at[c] = "body" /\ PushFrame(c)
      /\ UNCHANGED <<durable, layers, txCount, lease, turns, attempt, thrown, ranCount, txnFaults>>
  BY DEF Nest
<1>2. at' = [at EXCEPT ![c] = "start"] /\ at'[c] = "start"
  BY <1>1 DEF PushFrame, Goes, CountSound, TxnTypeOK
<1>3. /\ calls[c] # <<>> /\ calls[c] \in Seq(OpenCalls) /\ Frame(c) /\ ErrorAt(c) /\ Whole(c)
      /\ thrown[c] = "none" /\ n \in Nat /\ n >= 1 /\ DOMAIN calls[c] = 1..n
      /\ stack \in Seq(Frames) /\ Len(stack) = n
      /\ Len(layers) \in Nat /\ DOMAIN layers = 1..Len(layers) /\ (layers = <<>> <=> Len(layers) = 0)
  BY <1>1, Inside
<1>4. Len(layers) = n /\ txCount = 1
  BY <1>1, <1>3 DEF Whole
<1>5. /\ m \in Marks /\ k \in OpenCalls /\ calls' = [calls EXCEPT ![c] = Append(calls[c], k)]
      /\ calls' \in [TxnCallers -> Seq(OpenCalls)] /\ used' \in [TxnCallers -> 0..FrameMax]
  BY <1>1, Pushes
<1>6. f \in Frames /\ stack' = Append(stack, f) /\ f.callbacks = {}
  BY <1>1, <1>5 DEF Frames, PushFrame
<1>7. k.mark = m /\ k.began = "savepoint"
  BY <1>4
<1>8. m \in Own(c) /\ Own(c)' = Own(c)
  BY <1>1, <1>5 DEF Own
<1> HIDE DEF m, k, f
<1>9. /\ calls'[c] = Append(calls[c], k) /\ calls'[c] # <<>>
      /\ Len(calls'[c]) = n + 1 /\ DOMAIN calls'[c] = 1..n + 1
      /\ calls'[c][n + 1] = k /\ \A i \in 1..n : calls'[c][i] = calls[c][i]
  <2>1. calls'[c] = Append(calls[c], k)
    BY <1>5 DEF CallersInOrder
  <2> QED  BY <1>3, <1>5, <2>1, TopAdded
<1>10. /\ stack' \in Seq(Frames) /\ Len(stack') = n + 1 /\ stack'[n + 1] = f
       /\ \A i \in 1..n : stack'[i] = stack[i]
  BY <1>3, <1>6, TopAdded
<1> HIDE DEF n
<1>11. TxnTypeOK' /\ txCount' >= 0
  <2>1. at' \in [TxnCallers -> Places]
    BY <1>2 DEF CallersInOrder, Places
  <2> QED  BY <1>1, <1>5, <1>10, <2>1 DEF CountSound, TxnTypeOK, Places, OpenCalls
<1>12. ErrorAt(c)'
  BY <1>1, <1>2, <1>3 DEF ErrorAt
<1>13. Frame(c)'
  <2>1. \A i \in 1..n + 1 : i \in 1..n \/ i = n + 1
    BY <1>3
  <2>2. \A i \in DOMAIN calls'[c] : /\ calls'[c][i].mark \in Own(c)
                                    /\ calls'[c][i].began = IF i = 1 THEN "begin" ELSE "savepoint"
    <3>1. \A i \in 1..n : /\ calls'[c][i].mark \in Own(c)
                          /\ calls'[c][i].began = IF i = 1 THEN "begin" ELSE "savepoint"
      BY <1>3, <1>9 DEF Frame
    <3>2. n + 1 # 1
      BY <1>3
    <3> QED  BY <1>7, <1>8, <1>9, <2>1, <3>1, <3>2
  <2>3. \A i \in DOMAIN layers : layers[i] = stack'[i].callbacks /\ layers[i] \subseteq Own(c)
    BY <1>3, <1>4, <1>10 DEF Whole
  <2>4. Whole(c)'
    <3>1. /\ txCount' = IF layers' = <<>> THEN 0 ELSE 1
          /\ Len(layers') = Len(calls'[c]) - 1
      BY <1>1, <1>3, <1>4, <1>9 DEF Whole
    <3> QED  BY <1>1, <1>2, <1>6, <1>8, <1>10, <2>3, <3>1 DEF Whole
  <2> QED  BY <1>8, <1>9, <1>10, <2>2, <2>4 DEF Frame
<1> QED  BY <1>0, <1>1, <1>2, <1>3, <1>11, <1>12, <1>13, <1>9, StaysInside

\* BEGIN or SAVEPOINT is done: the database has a layer more.
LEMMA StartSound ==
    ASSUME LoneCaller, CallersInOrder, CountSound, NEW c \in TxnCallers, Start(c)
    PROVE  CountSound'
<1>0. TxnStep(c)
  BY DEF TxnStep
<1> DEFINE n == Len(calls[c])
<1>1. /\ at[c] = "start" /\ at' = [at EXCEPT ![c] = "body"] /\ layers' = Append(layers, {})
      /\ txCount' = IF TopCall(c).began = "begin" THEN txCount + 1 ELSE txCount
      /\ UNCHANGED <<durable, stack, lease, turns, calls, attempt, used, thrown, ranCount, txnFaults>>
  BY DEF Start, Goes
<1>2. at'[c] = "body"
  BY <1>1 DEF CountSound, TxnTypeOK
<1>3. /\ calls[c] # <<>> /\ Frame(c) /\ ErrorAt(c) /\ Whole(c)
      /\ thrown[c] = "none" /\ n \in Nat /\ n >= 1 /\ DOMAIN calls[c] = 1..n
      /\ Len(stack) = n /\ layers \in Seq(SUBSET Marks)
      /\ Len(layers) \in Nat /\ DOMAIN layers = 1..Len(layers) /\ (layers = <<>> <=> Len(layers) = 0)
      /\ TopCall(c).began = IF n = 1 THEN "begin" ELSE "savepoint"
  BY <1>1, Inside
<1>4. Len(layers) = n - 1 /\ stack[n].callbacks = {}
      /\ \A i \in 1..n - 1 : layers[i] = stack[i].callbacks /\ layers[i] \subseteq Own(c)
  BY <1>1, <1>3 DEF Whole
<1>5. /\ layers' \in Seq(SUBSET Marks) /\ Len(layers') = n /\ DOMAIN layers' = 1..n /\ layers' # <<>>
      /\ layers'[n] = {} /\ \A i \in 1..n - 1 : layers'[i] = layers[i]
  <2>1. {} \in SUBSET Marks /\ (n - 1) + 1 = n
    BY <1>3
  <2> HIDE DEF n
  <2>2. /\ layers' \in Seq(SUBSET Marks) /\ Len(layers') = (n - 1) + 1
        /\ DOMAIN layers' = 1..(n - 1) + 1 /\ layers' # <<>>
        /\ layers'[(n - 1) + 1] = {} /\ \A i \in 1..n - 1 : layers'[i] = layers[i]
    BY <1>1, <1>3, <1>4, <2>1, TopAdded
  <2> QED  BY <2>1, <2>2
<1> HIDE DEF n
<1>6. txCount' = 1
  <2>1. CASE n = 1
    BY <1>1, <1>3, <1>4, <2>1 DEF Whole
  <2>2. CASE n # 1
    <3>1. Len(layers) # 0
      BY <1>3, <1>4, <2>2
    <3> QED  BY <1>1, <1>3, <2>2, <3>1 DEF Whole
  <2> QED  BY <2>1, <2>2
<1>7. TxnTypeOK' /\ txCount' >= 0
  <2>1. at' \in [TxnCallers -> Places]
    BY <1>1 DEF CallersInOrder, Places
  <2>2. txCount' \in Int
    BY <1>6
  <2>3. layers' \in Seq(SUBSET Marks)
    BY <1>5
  <2>4. UNCHANGED <<durable, stack, lease, turns, calls, attempt, used, thrown, ranCount, txnFaults>>
    BY <1>1
  <2>5. txCount' >= 0
    BY <1>6
  <2>6. TxnTypeOK'
    BY <2>1, <2>2, <2>3, <2>4 DEF CountSound, TxnTypeOK, Places
  <2> QED  BY <2>5, <2>6
<1>8. ErrorAt(c)'
  BY <1>1, <1>2, <1>3 DEF ErrorAt
<1>9. Frame(c)'
  <2>1. Own(c)' = Own(c)
    BY <1>1 DEF Own
  <2>2. \A i \in DOMAIN layers' : layers'[i] = stack[i].callbacks /\ layers'[i] \subseteq Own(c)
    <3>1. \A i \in 1..n : i \in 1..n - 1 \/ i = n
      BY <1>3
    <3> QED  BY <1>4, <1>5, <3>1
  <2>3. Whole(c)'
    BY <1>1, <1>2, <1>5, <1>6, <2>1, <2>2 DEF Whole, n
  <2> QED  BY <1>1, <1>3, <2>1, <2>3 DEF Frame
<1> QED  BY <1>0, <1>1, <1>3, <1>7, <1>8, <1>9, StaysInside

-----------------------------------------------------------------------------
\* A call is over, and its frame with it.
LEMMA CallPops ==
    ASSUME CallersInOrder, CountSound, NEW c \in TxnCallers, at[c] \in {"start", "body", "end", "undo"},
           at[c] = "undo" => calls[c] # <<>>, calls' = [calls EXCEPT ![c] = Front(@)], attempt' = attempt
    PROVE  /\ calls' \in [TxnCallers -> Seq(OpenCalls)]
           /\ Len(calls'[c]) = Len(calls[c]) - 1 /\ (calls'[c] = <<>> <=> Len(calls[c]) = 1)
           /\ Own(c)' = Own(c)
           /\ (Whole(c)' \/ Gone(c)') /\ Len(stack') = Len(calls[c]) - 1 => Frame(c)'
<1>1. calls[c] # <<>> /\ Frame(c) /\ DOMAIN calls[c] = 1..Len(calls[c]) /\ Len(calls[c]) \in Nat
  BY Inside
<1>2. /\ calls' \in [TxnCallers -> Seq(OpenCalls)]
      /\ Len(calls'[c]) = Len(calls[c]) - 1 /\ DOMAIN calls'[c] = 1..Len(calls[c]) - 1
      /\ (calls'[c] = <<>> <=> Len(calls[c]) = 1)
      /\ \A i \in 1..Len(calls[c]) - 1 : calls'[c][i] = calls[c][i]
  BY <1>1, Pops
<1>3. Own(c)' = Own(c)
  BY DEF Own
<1>4. \A i \in DOMAIN calls'[c] : i \in DOMAIN calls[c] /\ calls'[c][i] = calls[c][i]
  BY <1>1, <1>2
<1>5. \A i \in DOMAIN calls'[c] : /\ calls'[c][i].mark \in Own(c)'
                                  /\ calls'[c][i].began = IF i = 1 THEN "begin" ELSE "savepoint"
  BY <1>1, <1>3, <1>4 DEF Frame
<1> QED  BY <1>2, <1>3, <1>5 DEF Frame

LEMMA FramePops ==
    ASSUME CallersInOrder, CountSound, NEW c \in TxnCallers, at[c] \in {"start", "body", "end", "undo"},
           at[c] = "undo" => calls[c] # <<>>, stack' = Front(stack)
    PROVE  /\ stack' \in Seq(Frames) /\ Len(stack') = Len(calls[c]) - 1
           /\ stack' = <<>> <=> Len(calls[c]) = 1
           /\ \A i \in 1..Len(calls[c]) - 1 : stack'[i] = stack[i]
           /\ Last(stack) = stack[Len(calls[c])] /\ Last(stack) \in Frames
<1>1. stack \in Seq(Frames) /\ stack # <<>> /\ Len(stack) = Len(calls[c])
  BY Inside
<1> QED  BY <1>1, TopGone

\* Where an error goes on: out of the frames, or to the callback that catches it.
LEMMA ErrorLeaves ==
    ASSUME LoneCaller, CallersInOrder, CountSound, NEW c \in TxnCallers,
           at[c] \in {"start", "undo"}, calls[c] # <<>>, calls' = [calls EXCEPT ![c] = Front(@)],
           UNCHANGED <<attempt, used>>, NEW error \in {"plain", "deadlock"},
           c \in Ordinary => error # "deadlock", Leaves(c, error)
    PROVE  \E w \in {"undo", "body"} :
              /\ at' = [at EXCEPT ![c] = w] /\ at'[c] = w
              /\ thrown' = [thrown EXCEPT ![c] = IF w = "undo" THEN error ELSE "none"]
              /\ w = "undo" => thrown'[c] = error
              /\ w = "body" => Len(calls[c]) > 1 /\ error # "deadlock"
              /\ at' \in [TxnCallers -> Places]
              /\ thrown' \in [TxnCallers -> {"none", "plain", "deadlock", "callback"}]
              /\ ErrorAt(c)'
<1>1. PICK w \in {"undo", "body"} :
          /\ at' = [at EXCEPT ![c] = w]
          /\ thrown' = [thrown EXCEPT ![c] = IF w = "undo" THEN error ELSE "none"]
          /\ w = "body" => Len(calls[c]) > 1 /\ error # "deadlock"
  BY DEF Leaves, Goes, LoneCaller
<1>2. at \in [TxnCallers -> Places] /\ thrown \in [TxnCallers -> {"none", "plain", "deadlock", "callback"}]
  BY DEF CountSound, TxnTypeOK, Places
<1>3. at' \in [TxnCallers -> Places] /\ thrown' \in [TxnCallers -> {"none", "plain", "deadlock", "callback"}]
      /\ at'[c] = w /\ thrown'[c] = IF w = "undo" THEN error ELSE "none"
  BY <1>1, <1>2 DEF Places
<1>4. ErrorAt(c)
  BY DEF CountSound, ErrorsPlaced
<1>5. ErrorAt(c)'
  BY <1>3, <1>4 DEF ErrorAt
<1> QED  BY <1>1, <1>3, <1>5

\* BEGIN or SAVEPOINT fails: nothing of the call is left.
LEMMA StartFailsSound ==
    ASSUME LoneCaller, CallersInOrder, CountSound, NEW c \in TxnCallers, StartFails(c)
    PROVE  CountSound'
<1>0. TxnStep(c)
  BY DEF TxnStep
<1> DEFINE n == Len(calls[c])
<1>1. /\ at[c] = "start" /\ stack' = Front(stack) /\ calls' = [calls EXCEPT ![c] = Front(@)]
      /\ txnFaults < TxnFaults /\ txnFaults' = txnFaults + 1
      /\ UNCHANGED <<durable, layers, txCount, lease, turns, attempt, used, ranCount>>
  BY DEF StartFails, TxnFault
<1>2. PICK error \in Errors(c) : Leaves(c, error)
  BY DEF StartFails
<1>3. error \in {"plain", "deadlock"} /\ (c \in Ordinary => error # "deadlock")
  BY <1>2 DEF Errors, LoneCaller
<1>4. /\ calls[c] # <<>> /\ Frame(c) /\ Whole(c) /\ thrown[c] = "none" /\ n \in Nat /\ n >= 1
      /\ Len(layers) \in Nat /\ DOMAIN layers = 1..Len(layers) /\ (layers = <<>> <=> Len(layers) = 0)
  BY <1>1, Inside
<1>5. PICK w \in {"undo", "body"} :
        /\ at' = [at EXCEPT ![c] = w] /\ at'[c] = w
        /\ at' \in [TxnCallers -> Places]
        /\ thrown' \in [TxnCallers -> {"none", "plain", "deadlock", "callback"}]
        /\ ErrorAt(c)'
  BY <1>1, <1>2, <1>3, <1>4, ErrorLeaves
<1>6. /\ calls' \in [TxnCallers -> Seq(OpenCalls)]
      /\ Len(calls'[c]) = n - 1 /\ (calls'[c] = <<>> <=> n = 1) /\ Own(c)' = Own(c)
      /\ (Whole(c)' \/ Gone(c)') /\ Len(stack') = n - 1 => Frame(c)'
  BY <1>1, CallPops
<1>7. /\ stack' \in Seq(Frames) /\ Len(stack') = n - 1 /\ (stack' = <<>> <=> n = 1)
      /\ \A i \in 1..n - 1 : stack'[i] = stack[i]
  BY <1>1, FramePops
<1> HIDE DEF n
<1>8. Len(layers) = n - 1 /\ txCount = (IF layers = <<>> THEN 0 ELSE 1)
      /\ \A i \in 1..n - 1 : layers[i] = stack[i].callbacks /\ layers[i] \subseteq Own(c)
  BY <1>1, <1>4 DEF Whole, n
<1>9. TxnTypeOK' /\ txCount' >= 0
  <2>1. txnFaults' \in 0..TxnFaults
    BY <1>1, FaultCounts DEF CountSound, TxnTypeOK
  <2>2. UNCHANGED <<durable, layers, txCount, lease, turns, attempt, used, ranCount>>
    BY <1>1
  <2> QED  BY <2>1, <2>2, <1>5, <1>6, <1>7 DEF CountSound, TxnTypeOK, Places, OpenCalls
<1>10. Whole(c)'
  <2>1. at'[c] # "start" /\ layers' = layers /\ txCount' = txCount /\ DOMAIN layers = 1..n - 1
    BY <1>1, <1>4, <1>5, <1>8
  <2> QED  BY <1>6, <1>7, <1>8, <2>1 DEF Whole
<1>11. calls'[c] = <<>> => layers' = <<>> /\ stack' = <<>> /\ txCount' = 0
  BY <1>1, <1>4, <1>6, <1>7, <1>8
<1> QED  BY <1>0, <1>1, <1>4, <1>5, <1>6, <1>7, <1>9, <1>10, <1>11, StaysInside

\* A rollback takes a layer and a frame; one that finds the transaction gone counts
\* it down again for each savepoint, and below zero in the end.
LEMMA RollbackSound ==
    ASSUME LoneCaller, CallersInOrder, CountSound, NEW c \in TxnCallers, Rollback(c)
    PROVE  CountSound' \/ LostForGood'
<1>0. TxnStep(c)
  BY DEF TxnStep
<1> DEFINE n == Len(calls[c])
<1>1. /\ at[c] = "undo" /\ calls[c] # <<>> /\ stack' = Front(stack) /\ calls' = [calls EXCEPT ![c] = Front(@)]
      /\ Leaves(c, thrown[c])
      /\ UNCHANGED <<durable, lease, turns, attempt, used, ranCount, txnFaults>>
  BY DEF Rollback
<1>2. /\ Frame(c) /\ ErrorAt(c) /\ thrown[c] # "callback" /\ n \in Nat /\ n >= 1
      /\ layers \in Seq(SUBSET Marks)
      /\ Len(layers) \in Nat /\ DOMAIN layers = 1..Len(layers) /\ (layers = <<>> <=> Len(layers) = 0)
      /\ TopCall(c).began = IF n = 1 THEN "begin" ELSE "savepoint"
  BY <1>1, Inside
<1>3. thrown[c] \in {"plain", "deadlock"} /\ (c \in Ordinary => thrown[c] # "deadlock")
  BY <1>1, <1>2 DEF ErrorAt, CountSound, TxnTypeOK
<1>4. PICK w \in {"undo", "body"} :
        /\ at' = [at EXCEPT ![c] = w] /\ at'[c] = w
        /\ w = "undo" => thrown'[c] = thrown[c]
        /\ w = "body" => thrown[c] # "deadlock"
        /\ at' \in [TxnCallers -> Places]
        /\ thrown' \in [TxnCallers -> {"none", "plain", "deadlock", "callback"}]
        /\ ErrorAt(c)'
  BY <1>1, <1>3, ErrorLeaves
<1>5. /\ calls' \in [TxnCallers -> Seq(OpenCalls)]
      /\ Len(calls'[c]) = n - 1 /\ (calls'[c] = <<>> <=> n = 1) /\ Own(c)' = Own(c)
      /\ (Whole(c)' \/ Gone(c)') /\ Len(stack') = n - 1 => Frame(c)'
  BY <1>1, CallPops
<1>6. /\ stack' \in Seq(Frames) /\ Len(stack') = n - 1 /\ (stack' = <<>> <=> n = 1)
      /\ \A i \in 1..n - 1 : stack'[i] = stack[i]
  BY <1>1, FramePops
<1>7. /\ n > 1 /\ Len(layers) > 1 => layers' = Front(layers) /\ txCount' = txCount
      /\ n > 1 /\ ~(Len(layers) > 1) => layers' = <<>> /\ txCount' = txCount - 1
      /\ n = 1 /\ txCount > 0 => layers' = <<>> /\ txCount' = txCount - 1
      /\ n = 1 /\ ~(txCount > 0) => layers' = layers /\ txCount' = txCount
  <2>1. n = 1 => ~(n > 1)
    OBVIOUS
  <2>2. n \in Nat /\ n >= 1 /\ TopCall(c).began = IF n = 1 THEN "begin" ELSE "savepoint"
    BY <1>2
  <2> HIDE DEF n
  <2>3. TopCall(c).began = "savepoint" <=> n > 1
    <3>1. CASE n = 1
      BY <2>1, <2>2, <3>1
    <3>2. CASE n > 1
      BY <2>1, <2>2, <3>2
    <3> QED  BY <2>2, <3>1, <3>2
  <2> QED  BY <2>1, <2>3 DEF Rollback
<1>8. ASSUME layers' \in Seq(SUBSET Marks), txCount' \in Int, txCount' >= 0,
             n > 1 => Whole(c)' \/ Gone(c)', n = 1 => layers' = <<>> /\ txCount' = 0
      PROVE  CountSound'
  <2> HIDE DEF n
  <2>1. TxnTypeOK'
    <3>1. UNCHANGED <<durable, lease, turns, attempt, used, ranCount, txnFaults>>
      BY <1>1
    <3> QED  BY <3>1, <1>4, <1>5, <1>6, <1>8 DEF CountSound, TxnTypeOK, Places, OpenCalls
  <2>2. calls'[c] # <<>> => Frame(c)'
    <3>1. n # 1 => n > 1
      BY <1>2
    <3> QED  BY <1>5, <1>6, <1>8, <3>1
  <2>3. calls'[c] = <<>> => layers' = <<>> /\ stack' = <<>> /\ txCount' = 0
    BY <1>5, <1>6, <1>8
  <2> QED  BY <1>0, <1>1, <1>2, <1>4, <1>8, <2>1, <2>2, <2>3, StaysInside
<1> HIDE DEF n
<1>9. CASE Whole(c)
  <2>1. Len(layers) = n /\ txCount = 1
        /\ \A i \in 1..n : layers[i] = stack[i].callbacks /\ layers[i] \subseteq Own(c)
    BY <1>1, <1>2, <1>9 DEF Whole, n
  <2>2. CASE n = 1
    <3>1. layers' = <<>> /\ txCount' = 0
      BY <1>7, <2>1, <2>2
    <3>2. layers' \in Seq(SUBSET Marks) /\ txCount' \in Int /\ txCount' >= 0
      BY <3>1
    <3> QED  BY <1>8, <2>2, <3>1, <3>2
  <2>3. CASE n > 1
    <3>1. layers' = Front(layers) /\ txCount' = 1
      BY <1>7, <2>1, <2>3
    <3>2. layers # <<>>
      BY <1>2, <2>1, <2>3
    <3>3. /\ layers' \in Seq(SUBSET Marks) /\ Len(layers') = n - 1 /\ DOMAIN layers' = 1..n - 1
          /\ \A i \in 1..n - 1 : layers'[i] = layers[i]
          /\ layers' = <<>> <=> n = 1
      BY <1>2, <2>1, <3>1, <3>2, TopGone
    <3>4. \A i \in DOMAIN layers' : layers'[i] = stack'[i].callbacks /\ layers'[i] \subseteq Own(c)
      <4>1. \A i \in 1..n - 1 : i \in 1..n
        BY <1>2
      <4> QED  BY <1>6, <2>1, <3>3, <4>1
    <3>5. Whole(c)'
      <4>1. at'[c] # "start" /\ layers' # <<>>
        BY <1>4, <2>3, <3>3
      <4> QED  BY <1>5, <3>1, <3>3, <3>4, <4>1 DEF Whole
    <3>6. txCount' \in Int /\ txCount' >= 0
      BY <3>1
    <3> QED  BY <1>8, <2>3, <3>3, <3>5, <3>6
  <2> QED  BY <1>2, <2>2, <2>3
<1>10. CASE Gone(c)
  <2>1. thrown[c] = "deadlock" /\ layers = <<>> /\ txCount \in {0, 1} /\ ~(Len(layers) > 1)
    BY <1>2, <1>10 DEF Gone
  <2>2. at'[c] = "undo" /\ thrown'[c] = "deadlock" /\ layers' = <<>>
    BY <1>2, <1>4, <1>7, <2>1
  <2>3. txCount' \in {0, 1} => Gone(c)'
    BY <2>2 DEF Gone
  <2>4. layers' \in Seq(SUBSET Marks)
    BY <2>2
  <2>5. CASE n = 1
    <3>1. txCount' = 0
      BY <1>7, <2>1, <2>5
    <3> QED  BY <1>8, <2>2, <2>4, <2>5, <3>1
  <2>6. CASE n > 1 /\ txCount = 1
    <3>1. txCount' = 0
      BY <1>7, <2>1, <2>6
    <3> QED  BY <1>8, <2>2, <2>3, <2>4, <2>6, <3>1
  <2>7. CASE n > 1 /\ txCount = 0
    <3>1. txCount' = -1
      BY <1>7, <2>1, <2>7
    <3>2. \A d \in TxnCallers : at'[d] # "start"
      <4>1. at[c] \in Busy
        BY <1>1 DEF Busy
      <4>2. \A d \in TxnCallers \ {c} : at[d] # "start" /\ at'[d] = at[d]
        BY <1>0, <4>1, Alone, OthersStay
      <4> QED  BY <2>2, <4>2
    <3> QED  BY <3>1, <3>2 DEF LostForGood
  <2> QED  BY <1>2, <2>1, <2>5, <2>6, <2>7
<1> QED  BY <1>2, <1>9, <1>10 DEF Frame

\* What is written and what is registered go to the same frame.
LEMMA WorkSound ==
    ASSUME LoneCaller, CallersInOrder, CountSound, NEW c \in TxnCallers, Work(c)
    PROVE  CountSound'
<1>0. TxnStep(c)
  BY DEF TxnStep
<1> DEFINE n == Len(calls[c])
           m == TopCall(c).mark
<1>1. /\ at[c] = "body" /\ WriteTo(m)
      /\ UNCHANGED <<txCount, lease, turns, at, calls, attempt, used, thrown, txnFaults>>
  BY DEF Work
<1>2. /\ calls[c] # <<>> /\ Frame(c) /\ ErrorAt(c) /\ Whole(c) /\ thrown[c] # "callback" /\ n \in Nat /\ n >= 1
      /\ stack \in Seq(Frames) /\ stack # <<>> /\ Len(stack) = n
      /\ layers \in Seq(SUBSET Marks)
      /\ Len(layers) \in Nat /\ DOMAIN layers = 1..Len(layers) /\ (layers = <<>> <=> Len(layers) = 0)
      /\ m \in Own(c)
  BY <1>1, Inside
<1>3. /\ Len(layers) = n /\ layers # <<>> /\ txCount = 1
      /\ \A i \in 1..n : layers[i] = stack[i].callbacks /\ layers[i] \subseteq Own(c)
  BY <1>1, <1>2 DEF Whole
<1> DEFINE l == layers[n] \cup {m}
           f == [stack[n] EXCEPT !.callbacks = @ \cup {m}]
<1>4. layers' = [layers EXCEPT ![Len(layers)] = l] /\ durable' = durable
  BY <1>1, <1>3 DEF WriteTo
<1>5. stack' = [stack EXCEPT ![Len(stack)] = f] /\ ranCount' = ranCount
  BY <1>2 DEF Work
<1>6. m \in Marks /\ l \in SUBSET Marks /\ l \subseteq Own(c)
  <2>1. Own(c) \subseteq Marks /\ n \in 1..n
    BY <1>2 DEF Own
  <2> QED  BY <1>2, <1>3, <2>1
<1>7. f \in Frames /\ f.callbacks = l
  <2>1. n \in 1..n /\ n \in DOMAIN stack
    BY <1>2
  <2>2. stack[n] \in Frames
    BY <1>2, <2>1
  <2>3. f.callbacks = l
    BY <1>3, <2>1, <2>2 DEF Frames
  <2> QED  BY <1>6, <2>2, <2>3 DEF Frames
<1> HIDE DEF l, f, n, m
<1>8. /\ layers' \in Seq(SUBSET Marks) /\ Len(layers') = n /\ DOMAIN layers' = 1..n /\ layers' # <<>>
      /\ layers'[n] = l /\ \A i \in 1..n - 1 : layers'[i] = layers[i]
  BY <1>2, <1>3, <1>4, <1>6, TopAltered
<1>9. /\ stack' \in Seq(Frames) /\ Len(stack') = n
      /\ stack'[n] = f /\ \A i \in 1..n - 1 : stack'[i] = stack[i]
  BY <1>2, <1>5, <1>7, TopAltered
<1>10. at' = [at EXCEPT ![c] = "body"]
  BY <1>1 DEF CallersInOrder
<1>11. TxnTypeOK' /\ txCount' >= 0
  <2>1. UNCHANGED <<durable, txCount, lease, turns, at, calls, attempt, used, thrown, ranCount, txnFaults>>
    BY <1>1, <1>4, <1>5
  <2> QED  BY <2>1, <1>8, <1>9 DEF CountSound, TxnTypeOK
<1>12. ErrorAt(c)'
  BY <1>1, <1>2 DEF ErrorAt
<1>13. Frame(c)'
  <2>1. Own(c)' = Own(c)
    BY <1>1 DEF Own
  <2>2. \A i \in DOMAIN layers' : layers'[i] = stack'[i].callbacks /\ layers'[i] \subseteq Own(c)
    <3>1. \A i \in 1..n : i \in 1..n - 1 \/ i = n
      BY <1>2
    <3>2. \A i \in 1..n - 1 : i \in 1..n
      BY <1>2
    <3> QED  BY <1>3, <1>6, <1>7, <1>8, <1>9, <3>1, <3>2
  <2>3. Whole(c)'
    BY <1>1, <1>3, <1>8, <2>1, <2>2 DEF Whole, n
  <2> QED  BY <1>1, <1>2, <1>9, <2>1, <2>3 DEF Frame, n
<1> QED  BY <1>0, <1>1, <1>2, <1>4, <1>5, <1>10, <1>11, <1>12, <1>13, StaysInside

-----------------------------------------------------------------------------
\* COMMIT: what the transaction wrote is durable, and callbacks of it run.
LEMMA DurableGrows ==
    ASSUME LoneCaller, CallersInOrder, CountSound, NEW c \in TxnCallers, TxnStep(c),
           at[c] = "end", NEW W, W \subseteq Own(c), NEW R \in SUBSET W,
           durable' = durable \cup W, Run(R), UNCHANGED <<attempt, used>>,
           \/ R = W /\ Committed(c)'
           \/ ~Committed(c)' /\ thrown'[c] = "callback"
    PROVE  DurableWasCommitted' /\ durable' \subseteq Marks /\ ranCount' \in [Marks -> Nat]
<1>1. durable \subseteq Marks /\ ranCount \in [Marks -> Nat] /\ ErrorAt(c)
      /\ \A m \in Marks : ranCount[m] \in Nat /\ ranCount[m] <= 1 /\ (ranCount[m] = 1 => m \in durable)
  BY DEF CountSound, TxnTypeOK, ErrorsPlaced, DurableWasCommitted, CallbackOnlyAfterCommit
<1>2. \A m \in durable : m[1] \in TxnCallers \ {c}
  <2>1. ~Committed(c) /\ thrown[c] # "callback"
    BY <1>1 DEF Committed, ErrorAt
  <2> QED  BY <1>1, <2>1, NothingDurable, MarkOf
<1>3. \A m \in W : m \in Marks /\ m[1] = c /\ m[2] = attempt[c] /\ m \notin durable
  BY <1>2 DEF Own
<1>4. \A m \in W : ranCount[m] = 0
  BY <1>1, <1>3
<1>5. \A m \in Marks : ranCount'[m] = IF m \in R THEN ranCount[m] + 1 ELSE ranCount[m]
  BY DEF Run
<1>6. \A m \in R : ranCount'[m] = 1
  BY <1>3, <1>4, <1>5
<1>7. \A m \in Marks \ R : ranCount'[m] = ranCount[m]
  BY <1>5
<1>8. CallbackOnlyAfterCommit'
  <2> SUFFICES ASSUME NEW m \in Marks PROVE ranCount'[m] <= 1 /\ (ranCount'[m] = 1 => m \in durable')
    BY DEF CallbackOnlyAfterCommit
  <2> QED  BY <1>1, <1>6, <1>7
<1>9. \A d \in TxnCallers \ {c} : thrown'[d] = thrown[d] /\ (Committed(d)' <=> Committed(d))
  BY OthersStay DEF Committed, CountSound, TxnTypeOK
<1>10. \A m \in durable : /\ m[2] = attempt'[m[1]]
                          /\ Committed(m[1])' \/ thrown'[m[1]] = "callback"
                          /\ Committed(m[1])' /\ used'[m[1]] > 0 => ranCount'[m] = 1
  <2> SUFFICES ASSUME NEW m \in durable
               PROVE  /\ m[2] = attempt[m[1]]
                      /\ Committed(m[1])' \/ thrown'[m[1]] = "callback"
                      /\ Committed(m[1])' /\ used[m[1]] > 0 => ranCount'[m] = 1
    OBVIOUS
  <2>1. /\ m[2] = attempt[m[1]] /\ (Committed(m[1]) \/ thrown[m[1]] = "callback")
        /\ Committed(m[1]) /\ used[m[1]] > 0 => ranCount[m] = 1
    BY DEF CountSound, DurableWasCommitted
  <2>2. ranCount'[m] = ranCount[m]
    BY <1>1, <1>3, <1>7
  <2> QED  BY <1>2, <1>9, <2>1, <2>2
<1>11. \A m \in W : /\ m[2] = attempt'[m[1]]
                    /\ Committed(m[1])' \/ thrown'[m[1]] = "callback"
                    /\ Committed(m[1])' /\ used'[m[1]] > 0 => ranCount'[m] = 1
  BY <1>3, <1>6
<1>12. ranCount' \in [Marks -> Nat]
  BY <1>1 DEF Run
<1>13. durable' \subseteq Marks
  BY <1>1, <1>3
<1> QED  BY <1>8, <1>10, <1>11, <1>12, <1>13 DEF DurableWasCommitted

\* The only layer of the transaction, and its only frame.
LEMMA LastFrame ==
    ASSUME CallersInOrder, CountSound, NEW c \in TxnCallers, at[c] = "end", Len(calls[c]) = 1
    PROVE  /\ Len(layers) = 1 /\ Len(stack) = 1 /\ Front(stack) = <<>> /\ txCount = 1
           /\ UNION ToSet(layers) = layers[1] /\ Last(stack).callbacks = layers[1]
           /\ layers[1] \subseteq Own(c) /\ TopCall(c).began = "begin"
<1>1. /\ Whole(c) /\ stack \in Seq(Frames) /\ stack # <<>> /\ Len(stack) = 1
      /\ layers \in Seq(SUBSET Marks) /\ DOMAIN layers = 1..Len(layers) /\ (layers = <<>> <=> Len(layers) = 0)
      /\ TopCall(c).began = "begin"
  BY Inside
<1>2. Len(layers) = 1 /\ txCount = 1
  BY <1>1 DEF Whole
<1>3. layers[1] = stack[1].callbacks /\ layers[1] \subseteq Own(c) /\ DOMAIN layers = {1}
  BY <1>1, <1>2 DEF Whole
<1>4. ToSet(layers) = {layers[1]}
  BY <1>3 DEF ToSet
<1>5. Last(stack) = stack[1] /\ Front(stack) = <<>>
  BY <1>1, TopGone
<1> QED  BY <1>1, <1>2, <1>3, <1>4, <1>5

\* COMMIT is done and a callback throws: what is durable stays.
LEMMA CallbackFailsSound ==
    ASSUME LoneCaller, CallersInOrder, CountSound, NEW c \in TxnCallers, CallbackFails(c)
    PROVE  CountSound'
<1>0. TxnStep(c) /\ at[c] = "end" /\ at[c] \in Busy
  BY DEF TxnStep, CallbackFails, Busy
<1>1. /\ Len(stack) = 1 /\ TopCall(c).began = "begin" /\ Durably(c)
      /\ txnFaults < TxnFaults /\ txnFaults' = txnFaults + 1 /\ stack' = <<>>
      /\ calls' = [calls EXCEPT ![c] = Front(@)] /\ thrown' = [thrown EXCEPT ![c] = "callback"]
      /\ at' = [at EXCEPT ![c] = "undo"] /\ UNCHANGED <<lease, turns, attempt, used>>
  BY DEF CallbackFails, TxnFault, Goes, CallbackError
<1>2. PICK R \in SUBSET Last(stack).callbacks : Run(R)
  BY DEF CallbackFails
<1>3. Len(calls[c]) = 1
  BY <1>0, <1>1, Inside
<1>4. /\ UNION ToSet(layers) = layers[1] /\ Last(stack).callbacks = layers[1]
      /\ layers[1] \subseteq Own(c) /\ txCount = 1
  BY <1>0, <1>3, LastFrame
<1>5. durable' = durable \cup layers[1] /\ layers' = <<>> /\ txCount' = 0
  BY <1>1, <1>4 DEF Durably
<1>6. at'[c] = "undo" /\ thrown'[c] = "callback" /\ ErrorAt(c)
  BY <1>1 DEF CountSound, TxnTypeOK, ErrorsPlaced
<1>7. DurableWasCommitted' /\ durable' \subseteq Marks /\ ranCount' \in [Marks -> Nat]
  <2>1. ~Committed(c)'
    BY <1>6 DEF Committed
  <2>2. R \in SUBSET layers[1]
    BY <1>2, <1>4
  <2> QED  BY <1>0, <1>1, <1>2, <1>4, <1>5, <1>6, <2>1, <2>2, DurableGrows
<1>8. calls' \in [TxnCallers -> Seq(OpenCalls)] /\ calls'[c] = <<>>
  BY <1>0, <1>1, <1>3, CallPops
<1>9. TxnTypeOK' /\ txCount' >= 0
  <2>1. txnFaults' \in 0..TxnFaults
    BY <1>1, FaultCounts DEF CountSound, TxnTypeOK
  <2>2. at' \in [TxnCallers -> Places] /\ thrown' \in [TxnCallers -> {"none", "plain", "deadlock", "callback"}]
    BY <1>1 DEF CountSound, TxnTypeOK, Places
  <2>3. layers' \in Seq(SUBSET Marks) /\ stack' \in Seq(Frames) /\ txCount' \in Int /\ txCount' >= 0
    BY <1>1, <1>5
  <2>4. UNCHANGED <<lease, turns, attempt, used>>
    BY <1>1
  <2>5. TxnTypeOK'
    BY <1>7, <1>8, <2>1, <2>2, <2>3, <2>4 DEF CountSound, TxnTypeOK, Places, OpenCalls
  <2> QED  BY <2>3, <2>5
<1>10. LeaseKept'
  <2>1. c \in Ordinary => lease = NoOne
    BY <1>0 DEF CountSound, LeaseKept
  <2> QED  BY <1>0, <1>1, <2>1, LeaseStays DEF Busy
<1>11. ErrorsPlaced'
  <2>1. ErrorAt(c)'
    BY <1>0, <1>6, <1>8 DEF ErrorAt
  <2> QED  BY <1>0, <2>1, ErrorsStay
<1>12. ConnectionMatches'
  <2>1. \A d \in TxnCallers \ {c} : calls'[d] = <<>>
    BY <1>0, Alone, OthersStay
  <2> QED  BY <1>1, <1>5, <1>8, <2>1, MatchesAlone
<1> QED  BY <1>7, <1>9, <1>10, <1>11, <1>12 DEF CountSound

\* RELEASE SAVEPOINT merges the layer and its callbacks into the ones below; COMMIT
\* makes the last layer durable and runs its callbacks.
LEMMA ReleaseSound ==
    ASSUME LoneCaller, CallersInOrder, CountSound, NEW c \in TxnCallers, Commit(c), Len(calls[c]) > 1
    PROVE  CountSound'
<1>0. TxnStep(c) /\ at[c] = "end"
  BY DEF TxnStep, Commit
<1> DEFINE n == Len(calls[c])
           below == Front(stack)
           l == layers[n - 1] \cup layers[n]
           f == [below[n - 1] EXCEPT !.callbacks = @ \cup Last(stack).callbacks]
<1>1. /\ Durably(c) /\ Handover
      /\ calls' = [calls EXCEPT ![c] = Front(@)] /\ at' = [at EXCEPT ![c] = "body"]
      /\ UNCHANGED <<lease, turns, attempt, used, thrown, txnFaults>>
  BY DEF Commit, Goes, Outwards
<1>2. /\ calls[c] # <<>> /\ Frame(c) /\ ErrorAt(c) /\ Whole(c) /\ thrown[c] = "none" /\ n \in Nat /\ n > 1
      /\ stack \in Seq(Frames) /\ stack # <<>> /\ Len(stack) = n /\ layers \in Seq(SUBSET Marks)
      /\ DOMAIN layers = 1..Len(layers) /\ (layers = <<>> <=> Len(layers) = 0)
      /\ TopCall(c).began = "savepoint"
  <2>1. /\ calls[c] # <<>> /\ Frame(c) /\ ErrorAt(c) /\ Whole(c) /\ thrown[c] = "none" /\ n \in Nat
        /\ stack \in Seq(Frames) /\ stack # <<>> /\ Len(stack) = n /\ layers \in Seq(SUBSET Marks)
        /\ DOMAIN layers = 1..Len(layers) /\ (layers = <<>> <=> Len(layers) = 0)
        /\ TopCall(c).began = IF n = 1 THEN "begin" ELSE "savepoint"
    BY <1>0, Inside
  <2>2. n > 1
    OBVIOUS
  <2> HIDE DEF n
  <2>3. n # 1
    BY <2>1, <2>2
  <2> QED  BY <2>1, <2>2, <2>3
<1>3. /\ Len(layers) = n /\ txCount = 1
      /\ \A i \in 1..n : layers[i] = stack[i].callbacks /\ layers[i] \subseteq Own(c)
  BY <1>0, <1>2 DEF Whole
<1>4. /\ calls' \in [TxnCallers -> Seq(OpenCalls)]
      /\ Len(calls'[c]) = n - 1 /\ (calls'[c] = <<>> <=> n = 1) /\ Own(c)' = Own(c)
      /\ (Whole(c)' \/ Gone(c)') /\ Len(stack') = n - 1 => Frame(c)'
  BY <1>0, <1>1, CallPops
<1>5. /\ below \in Seq(Frames) /\ Len(below) = n - 1 /\ below # <<>>
      /\ \A i \in 1..n - 1 : below[i] = stack[i]
      /\ Last(stack) = stack[n]
  <2> HIDE DEF n
  <2>1. n # 1 /\ n - 1 = Len(stack) - 1
    BY <1>2
  <2> QED  BY <1>2, <2>1, TopGone
<1>6. layers' = Append(SubSeq(layers, 1, n - 2), l) /\ durable' = durable /\ txCount' = txCount
  BY <1>1, <1>2, <1>3 DEF Durably
<1>7. stack' = [below EXCEPT ![Len(below)] = f] /\ ranCount' = ranCount
  BY <1>1, <1>5 DEF Handover
<1>8. n \in 1..n /\ n - 1 \in 1..n /\ n - 1 \in 1..n - 1
  BY <1>2
<1>9. l \in SUBSET Marks /\ l \subseteq Own(c)
  BY <1>3, <1>8 DEF Own
<1>10. f \in Frames /\ f.callbacks = l
  <2>1. below[n - 1] = stack[n - 1] /\ stack[n - 1] \in Frames
    BY <1>2, <1>5, <1>8
  <2>2. f.callbacks = l
    BY <1>3, <1>5, <1>8, <2>1 DEF Frames
  <2> QED  BY <1>9, <2>1, <2>2 DEF Frames
<1> HIDE DEF l, f, n, below
<1>11. /\ layers' \in Seq(SUBSET Marks) /\ Len(layers') = n - 1 /\ DOMAIN layers' = 1..n - 1 /\ layers' # <<>>
       /\ layers'[n - 1] = l /\ \A i \in 1..n - 2 : layers'[i] = layers[i]
  <2> DEFINE s == SubSeq(layers, 1, n - 2)
  <2>1. s \in Seq(SUBSET Marks) /\ Len(s) = n - 2 /\ \A i \in 1..n - 2 : s[i] = layers[i]
    BY <1>2, <1>3
  <2>2. (n - 2) + 1 = n - 1
    BY <1>2
  <2>3. layers' = Append(s, l)
    BY <1>6
  <2> HIDE DEF s
  <2> QED  BY <1>9, <2>1, <2>2, <2>3, TopAdded
<1>12. /\ stack' \in Seq(Frames) /\ Len(stack') = n - 1
       /\ stack'[n - 1] = f /\ \A i \in 1..n - 2 : stack'[i] = below[i]
  <2>1. (n - 1) - 1 = n - 2
    BY <1>2
  <2> QED  BY <1>5, <1>7, <1>10, <2>1, TopAltered
<1>13. TxnTypeOK' /\ txCount' >= 0
  <2>1. at' \in [TxnCallers -> Places]
    BY <1>1 DEF CallersInOrder, Places
  <2>2. UNCHANGED <<durable, txCount, lease, turns, attempt, used, thrown, ranCount, txnFaults>>
    BY <1>1, <1>6, <1>7
  <2> QED  BY <1>4, <1>11, <1>12, <2>1, <2>2 DEF CountSound, TxnTypeOK, Places, OpenCalls
<1>14. at'[c] = "body" /\ calls'[c] # <<>>
  BY <1>1, <1>2, <1>4 DEF CallersInOrder
<1>15. ErrorAt(c)'
  BY <1>0, <1>1, <1>2, <1>14 DEF ErrorAt
<1>16. Frame(c)'
  <2>1. \A i \in 1..n - 1 : i \in 1..n - 2 \/ i = n - 1
    BY <1>2
  <2>2. \A i \in 1..n - 2 : i \in 1..n /\ i \in 1..n - 1
    BY <1>2
  <2>3. \A i \in 1..n - 1 : layers'[i] = stack'[i].callbacks /\ layers'[i] \subseteq Own(c)
    BY <1>3, <1>5, <1>9, <1>10, <1>11, <1>12, <2>1, <2>2
  <2>4. Whole(c)'
    BY <1>3, <1>4, <1>6, <1>11, <1>14, <2>3 DEF Whole
  <2> QED  BY <1>4, <1>12, <2>4
<1> QED  BY <1>0, <1>1, <1>2, <1>6, <1>7, <1>13, <1>14, <1>15, <1>16, StaysInside

LEMMA CommitSound ==
    ASSUME LoneCaller, CallersInOrder, CountSound, NEW c \in TxnCallers, Commit(c)
    PROVE  CountSound'
<1>0. /\ TxnStep(c) /\ at[c] = "end" /\ at[c] \in Busy
      /\ TxnCallers = Ordinary \cup Operations /\ Ordinary \cap Operations = {}
  BY TransactionsAssumption DEF TxnStep, Commit, Busy, TxnCallers
<1>1. CASE Len(calls[c]) > 1
  BY <1>1, ReleaseSound
<1>2. CASE ~(Len(calls[c]) > 1)
  <2> DEFINE w == IF c \in Operations THEN "release" ELSE "done"
  <2>1. /\ Durably(c) /\ Handover
        /\ calls' = [calls EXCEPT ![c] = Front(@)] /\ at' = [at EXCEPT ![c] = w]
        /\ UNCHANGED <<lease, turns, attempt, used, thrown, txnFaults>>
    BY <1>2 DEF Commit, Goes, Outwards
  <2>2. Len(calls[c]) = 1 /\ ErrorAt(c) /\ thrown[c] = "none"
    <3>1. Len(calls[c]) \in Nat /\ Len(calls[c]) >= 1 /\ ErrorAt(c) /\ thrown[c] = "none"
      BY <1>0, Inside
    <3>2. \A k \in Nat : k >= 1 /\ ~(k > 1) => k = 1
      OBVIOUS
    <3> QED  BY <1>2, <3>1, <3>2
  <2>3. /\ UNION ToSet(layers) = layers[1] /\ Last(stack).callbacks = layers[1] /\ Front(stack) = <<>>
        /\ layers[1] \subseteq Own(c) /\ txCount = 1 /\ TopCall(c).began = "begin"
    BY <1>0, <2>2, LastFrame
  <2>4. durable' = durable \cup layers[1] /\ layers' = <<>> /\ txCount' = 0
    BY <2>1, <2>3 DEF Durably
  <2>5. stack' = <<>> /\ Run(layers[1])
    BY <2>1, <2>3 DEF Handover
  <2>6. at'[c] = w /\ thrown'[c] = "none"
    BY <2>1, <2>2 DEF CountSound, TxnTypeOK
  <2>7. DurableWasCommitted' /\ durable' \subseteq Marks /\ ranCount' \in [Marks -> Nat]
    <3>1. Committed(c)'
      BY <2>6 DEF Committed
    <3> QED  BY <1>0, <2>1, <2>3, <2>4, <2>5, <3>1, DurableGrows
  <2>8. calls' \in [TxnCallers -> Seq(OpenCalls)] /\ calls'[c] = <<>>
    BY <1>0, <2>1, <2>2, CallPops
  <2>9. TxnTypeOK' /\ txCount' >= 0
    <3>1. at' \in [TxnCallers -> Places]
      BY <2>1 DEF CountSound, TxnTypeOK, Places
    <3>2. layers' \in Seq(SUBSET Marks) /\ stack' \in Seq(Frames) /\ txCount' \in Int /\ txCount' >= 0
      BY <2>4, <2>5
    <3>3. UNCHANGED <<lease, turns, attempt, used, thrown, txnFaults>>
      BY <2>1
    <3>4. TxnTypeOK'
      BY <2>7, <2>8, <3>1, <3>2, <3>3 DEF CountSound, TxnTypeOK, Places, OpenCalls
    <3> QED  BY <3>2, <3>4
  <2>10. LeaseKept'
    <3>1. c \in Operations => w \in Busy
      BY DEF Busy
    <3>2. ~(c \in Ordinary /\ w \in Busy)
      BY <1>0 DEF Busy
    <3> HIDE DEF w
    <3> QED  BY <1>0, <2>1, <3>1, <3>2, LeaseStays
  <2>11. ErrorsPlaced'
    <3>1. ErrorAt(c)'
      BY <1>0, <2>2, <2>6, <2>8 DEF ErrorAt
    <3> QED  BY <1>0, <3>1, ErrorsStay
  <2>12. ConnectionMatches'
    <3>1. \A d \in TxnCallers \ {c} : calls'[d] = <<>>
      BY <1>0, Alone, OthersStay
    <3> QED  BY <2>4, <2>5, <2>8, <3>1, MatchesAlone
  <2> QED  BY <2>7, <2>9, <2>10, <2>11, <2>12 DEF CountSound
<1> QED  BY <1>1, <1>2

-----------------------------------------------------------------------------
\* Every step keeps the invariant, or loses the count for good.
LEMMA TransactionsBegin == TxnInit => TxnInductive
<1> SUFFICES ASSUME TxnInit PROVE CallersInOrder /\ CountSound
  BY DEF TxnInductive
<1>1. DeadlockTries \in Nat \ {0} /\ FrameMax \in Nat \ {0} /\ TxnFaults \in Nat /\ NoOne \notin TxnCallers
      /\ Operations \subseteq TxnCallers
  BY TransactionsAssumption DEF TxnCallers
<1>2. 1 \in 1..DeadlockTries /\ 0 \in 0..FrameMax /\ 0 \in 0..TxnFaults
  BY <1>1
<1>3. CallersInOrder
  BY <1>2 DEF TxnInit, CallersInOrder, Places
<1>4. TxnTypeOK /\ txCount >= 0
  BY <1>2 DEF TxnInit, TxnTypeOK
<1>5. LeaseKept
  BY <1>1 DEF TxnInit, LeaseKept, Busy
<1>6. ErrorsPlaced
  BY DEF TxnInit, ErrorsPlaced, ErrorAt
<1>7. ConnectionMatches
  BY DEF TxnInit, ConnectionMatches
<1>8. DurableWasCommitted
  BY DEF TxnInit, DurableWasCommitted, CallbackOnlyAfterCommit
<1> QED  BY <1>3, <1>4, <1>5, <1>6, <1>7, <1>8 DEF CountSound

LEMMA TransactionsStep ==
    ASSUME LoneCaller, TxnInductive, [TxnNext]_txnVars
    PROVE  TxnInductive'
<1>1. CASE UNCHANGED txnVars
  <2>1. CallersInOrder'
    BY <1>1 DEF txnVars, TxnInductive, CallersInOrder
  <2>2. LostForGood => LostForGood'
    BY <1>1 DEF txnVars, LostForGood, TopCall
  <2>3. TxnTypeOK => TxnTypeOK'
    BY <1>1 DEF txnVars, TxnTypeOK
  <2>4. LeaseKept => LeaseKept'
    BY <1>1 DEF txnVars, LeaseKept
  <2>5. ErrorsPlaced => ErrorsPlaced'
    BY <1>1 DEF txnVars, ErrorsPlaced, ErrorAt
  <2>6. ConnectionMatches => ConnectionMatches'
    BY <1>1 DEF txnVars, ConnectionMatches, Frame, Whole, Gone, Own
  <2>7. DurableWasCommitted => DurableWasCommitted'
    BY <1>1 DEF txnVars, DurableWasCommitted, CallbackOnlyAfterCommit, Committed
  <2> QED  BY <1>1, <2>1, <2>2, <2>3, <2>4, <2>5, <2>6, <2>7 DEF txnVars, TxnInductive, CountSound
<1>2. CASE TxnNext
  <2>1. PICK c \in TxnCallers : TxnStep(c)
    BY <1>2 DEF TxnNext
  <2>2. CallersInOrder /\ CallersInOrder'
    BY <2>1, OrderKept DEF TxnInductive
  <2>3. CASE LostForGood
    BY <2>1, <2>2, <2>3, LostStays DEF TxnInductive
  <2>4. CASE CountSound
    <3>1. ASSUME OperationAsks(c) \/ OperationTurn(c) \/ PlainWrite(c) \/ OrdinaryEnters(c)
                 \/ OperationEnds(c)
          PROVE  CountSound'
      BY <2>2, <2>4, <3>1, AsksSound, TurnSound, WriteSound, EntersSound, EndsSound
    <3>2. ASSUME Enter(c) \/ Nest(c) \/ Start(c) \/ StartFails(c) PROVE CountSound'
      BY <2>2, <2>4, <3>2, EnterSound, NestSound, StartSound, StartFailsSound
    <3>3. ASSUME Work(c) \/ Throws(c) \/ Deadlocked(c) \/ Returns(c) PROVE CountSound'
      BY <2>2, <2>4, <3>3, WorkSound, ThrowsSound, DeadlockSound, ReturnsSound
    <3>4. ASSUME Commit(c) \/ CallbackFails(c) \/ Rollback(c) PROVE CountSound' \/ LostForGood'
      BY <2>2, <2>4, <3>4, CommitSound, CallbackFailsSound, RollbackSound
    <3>5. ASSUME Escapes(c) \/ Retry(c) PROVE CountSound'
      BY <2>2, <2>4, <3>5, EscapesSound, RetrySound
    <3>6. CountSound' \/ LostForGood'
      BY <2>1, <3>1, <3>2, <3>3, <3>4, <3>5 DEF TxnStep
    <3> QED  BY <2>2, <3>6 DEF TxnInductive
  <2> QED  BY <2>3, <2>4 DEF TxnInductive
<1> QED  BY <1>1, <1>2

\* What callers of transactions are promised follows.
LEMMA TransactionsPromise == ASSUME LoneCaller, TxnInductive PROVE TxnInv
<1>1. CASE LostForGood
  BY <1>1 DEF TxnInv, CountLost, LostForGood
<1>2. CASE CountSound
  <2>1. CallersInOrder /\ LeaseKept /\ TxnTypeOK /\ ConnectionMatches /\ DurableWasCommitted
        /\ \A c \in TxnCallers : ErrorAt(c)
    BY <1>2 DEF TxnInductive, CountSound, ErrorsPlaced
  <2>2. NoOne \notin TxnCallers /\ TxnCallers = Ordinary \cup Operations
    BY TransactionsAssumption DEF TxnCallers
  <2>3. ASSUME NEW c \in TxnCallers, calls[c] # <<>>
        PROVE  at[c] \in {"start", "body", "end", "undo"} /\ at[c] \in Busy
    BY <2>1, <2>3 DEF ErrorAt, Busy
  <2>4. OperationIsolated
    <3> SUFFICES ASSUME lease # NoOne
                 PROVE  /\ \A i \in 1..Len(layers) : \A m \in layers[i] : m[1] = lease
                        /\ \A c \in TxnCallers \ {lease} : at[c] \notin {"body", "end"}
      BY DEF OperationIsolated
    <3>1. \A c \in TxnCallers : at[c] \in Busy => c = lease
      BY <2>1, <2>2 DEF LeaseKept
    <3>2. ASSUME NEW i \in 1..Len(layers), NEW m \in layers[i] PROVE m[1] = lease
      <4>1. layers # <<>> /\ DOMAIN layers = 1..Len(layers)
        BY <2>1 DEF TxnTypeOK
      <4>2. PICK c \in TxnCallers : calls[c] # <<>>
        BY <2>1, <4>1 DEF ConnectionMatches
      <4>3. c = lease /\ Frame(c)
        BY <2>1, <2>3, <3>1, <4>2 DEF ConnectionMatches
      <4>4. Whole(c)
        BY <4>1, <4>3 DEF Frame, Gone
      <4>5. m \in Own(c)
        BY <4>1, <4>4 DEF Whole
      <4> QED  BY <4>3, <4>5 DEF Own
    <3>3. \A c \in TxnCallers \ {lease} : at[c] \notin {"body", "end"}
      BY <3>1 DEF Busy
    <3> QED  BY <3>2, <3>3
  <2>5. CallbackOnlyAfterCommit
    BY <2>1 DEF DurableWasCommitted
  <2>6. ResolvedRanItsCallbacks
    <3> SUFFICES ASSUME NEW c \in TxnCallers, at[c] = "done", used[c] > 0, NEW m \in durable, m[1] = c
                 PROVE  ranCount[m] = 1
      BY DEF ResolvedRanItsCallbacks
    <3>1. Committed(c)
      BY <2>1 DEF Committed, ErrorAt
    <3> QED  BY <2>1, <3>1 DEF DurableWasCommitted
  <2>7. AllOrNothing
    <3>1. ASSUME NEW c \in TxnCallers, at[c] = "failed", thrown[c] # "callback"
          PROVE  \A m \in durable : m[1] # c
      <4>1. ~Committed(c)
        BY <3>1 DEF Committed
      <4> QED  BY <1>2, <3>1, <4>1, NothingDurable
    <3>2. \A m, n \in durable : m[1] = n[1] => m[2] = n[2]
      BY <2>1 DEF DurableWasCommitted
    <3> QED  BY <3>1, <3>2 DEF AllOrNothing
  <2>8. CountIsTruth
    <3> DEFINE B == {c \in TxnCallers : /\ calls[c] # <<>> /\ calls[c][1].began = "begin"
                                        /\ Len(calls[c]) > 1 \/ at[c] # "start"}
    <3> SUFFICES ASSUME \A c \in TxnCallers : at[c] # "undo"
                 PROVE  /\ txCount = IF layers = <<>> THEN 0 ELSE 1
                        /\ txCount = Cardinality(B)
      BY DEF CountIsTruth
    <3>1. CASE \A c \in TxnCallers : calls[c] = <<>>
      <4>1. layers = <<>> /\ txCount = 0 /\ B = {}
        BY <2>1, <3>1 DEF ConnectionMatches
      <4> QED  BY <4>1, FS_EmptySet
    <3>2. CASE \E c \in TxnCallers : calls[c] # <<>>
      <4>1. PICK c \in TxnCallers : calls[c] # <<>>
        BY <3>2
      <4>2. /\ Whole(c) /\ Frame(c) /\ Len(calls[c]) \in Nat /\ Len(calls[c]) >= 1
            /\ DOMAIN calls[c] = 1..Len(calls[c]) /\ (layers = <<>> <=> Len(layers) = 0)
        BY <1>2, <2>1, <2>3, <4>1, Inside
      <4>3. calls[c][1].began = "begin"
        BY <4>2 DEF Frame
      <4>4. \A d \in TxnCallers \ {c} : calls[d] = <<>>
        BY <1>2, <2>3, <4>1, Alone
      <4>5. layers = <<>> <=> at[c] = "start" /\ Len(calls[c]) = 1
        BY <4>2 DEF Whole
      <4>6. CASE layers = <<>>
        <5>1. ~(Len(calls[c]) > 1) /\ at[c] = "start"
          <6>1. Len(calls[c]) = 1 /\ at[c] = "start"
            BY <4>5, <4>6
          <6> QED  BY <6>1
        <5>2. B = {}
          BY <4>4, <5>1
        <5> QED  BY <4>2, <4>6, <5>2, FS_EmptySet DEF Whole
      <4>7. CASE layers # <<>>
        <5>1. Len(calls[c]) > 1 \/ at[c] # "start"
          <6>1. Len(calls[c]) # 1 \/ at[c] # "start"
            BY <4>5, <4>7
          <6>2. \A k \in Nat : k >= 1 /\ k # 1 => k > 1
            OBVIOUS
          <6> QED  BY <4>2, <6>1, <6>2
        <5>2. B = {c}
          BY <4>1, <4>3, <4>4, <5>1
        <5> QED  BY <4>2, <4>7, <5>2, FS_Singleton DEF Whole
      <4> QED  BY <4>6, <4>7
    <3> QED  BY <3>1, <3>2
  <2> QED  BY <2>1, <2>4, <2>5, <2>6, <2>7, <2>8 DEF TxnInv
<1> QED  BY <1>1, <1>2 DEF TxnInductive

\* As long as a single ordinary caller shares the connection with the operations, no
\* deadlock ends his transactions and no callback swallows one: whatever nests, fails,
\* is retried or waits, an operation has the connection to itself, a transaction is
\* durable as a whole or not at all, its after-commit callbacks run once, after the
\* commit, and before it resolves, and the count is the database's -- until the count
\* is lost (CountLost), from when on nothing begins a transaction.
THEOREM TransactionsKeepPromise == LoneCaller => (TxnSpec => []TxnInv)
<1> SUFFICES ASSUME LoneCaller PROVE TxnSpec => []TxnInv
  OBVIOUS
<1>1. TxnInit => TxnInductive
  BY TransactionsBegin
<1>2. TxnInductive /\ [TxnNext]_txnVars => TxnInductive'
  BY TransactionsStep
<1>3. TxnInductive => TxnInv
  BY TransactionsPromise
<1> QED  BY <1>1, <1>2, <1>3, PTL DEF TxnSpec
=============================================================================
