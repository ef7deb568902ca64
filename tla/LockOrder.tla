----------------------------- MODULE LockOrder ------------------------------
(***************************************************************************)
(* In which order the transactions of the job store take their row locks   *)
(* (background-jobs/store.js), on a database that locks rows: a write      *)
(* holds its row until the end of the transaction, and so does a read      *)
(* inside an UPDATE.  Only the order matters here, so any mutation may     *)
(* pick any job, and a transaction is the sequence of rows it will lock.   *)
(*                                                                         *)
(* Nearly every mutation locks the count revision row first.  Those that   *)
(* do not are the enqueue under an idempotency key, which claims its scope *)
(* before, and the startup reconciliation, whose statements run alone      *)
(* under an advisory lock of their own.                                    *)
(***************************************************************************)
EXTENDS Integers, Sequences, FiniteSets

CONSTANTS
    Mutators,     \* connections of mains, reporters and web servers
    Starter,      \* connection of the main that holds the advisory lock of
                  \*   the reconciliation
    LockJobs,     \* job rows
    LockKeys      \* counter rows

ASSUME LockAssumption ==
    /\ Starter \notin Mutators
    /\ IsFiniteSet(LockJobs) /\ IsFiniteSet(LockKeys)
    /\ LockJobs \cap LockKeys = {}
    /\ {"revision", "scope", "schedule"} \cap (LockJobs \cup LockKeys) = {}

VARIABLES
    keyOf,      \* concurrency_key of each job
    mutation,   \* what a connection is doing; "none" between transactions
    todo,       \* rows that it has still to lock
    locked      \* rows that it has locked

lockVars == <<keyOf, mutation, todo, locked>>

Sessions == Mutators \cup {Starter}

LockInit ==
    /\ keyOf \in [LockJobs -> LockKeys]
    /\ mutation = [t \in Sessions |-> "none"]
    /\ todo = [t \in Sessions |-> <<>>]
    /\ locked = [t \in Sessions |-> {}]

-----------------------------------------------------------------------------
(* The rows of each mutation, in the order of its statements               *)

\* The rows of S, each once, in any order.
Orders(S) ==
    {o \in [1..Cardinality(S) -> S] : \A i, k \in 1..Cardinality(S) : i # k => o[i] # o[k]}

\* A new job registers its key.
EnqueueLocks == {<<"revision", k>> : k \in LockKeys}

\* The scope is claimed before the revision row is locked.
IdempotentLocks == {<<"scope", "revision", k>> : k \in LockKeys}

\* markHandedOff reserves capacity and then writes the job.
HandOffLocks == {<<"revision", keyOf[j], j>> : j \in LockJobs}

\* Mutant: writes the job and then releases capacity.
SettleLocksJobFirst == {<<"revision", j, keyOf[j]>> : j \in LockJobs}

\* Reports, returns and the cancellation of a running job write the job and
\* then release capacity, but take the counter row's lock before.
SettleLocks == {<<"revision", keyOf[j], j>> : j \in LockJobs}

\* The sweep fails one stale job after the other, each after its counter.
EachAfterItsKey(o) ==
    [i \in 1..(2 * Len(o)) |-> IF i % 2 = 1 THEN keyOf[o[(i + 1) \div 2]] ELSE o[i \div 2]]
SweepLocks == {<<"revision">> \o EachAfterItsKey(o) : o \in Orders(LockJobs)}

\* replaceScheduled cancels the old owner and then registers the new one's
\* key, under the advisory lock of the schedule key.
ReplaceLocks == {<<"schedule", "revision", j, k>> : j \in LockJobs, k \in LockKeys}

\* A queued job has no reservation: cancelled with no look at the counter.
CancelLocks == {<<"schedule", "revision", j>> : j \in LockJobs} \cup {<<"revision", j>> : j \in LockJobs}

\* One statement deletes many jobs.
PruneLocks == {<<"revision">> \o o : o \in Orders(LockJobs)}

ClearLocks == {<<"revision", "scope">> \o o \o p : o \in Orders(LockJobs), p \in Orders(LockKeys)}

\* The reconciliation's UPDATE of the backlog ...
AdoptLocks == Orders(LockJobs)

\* ... and its rebuild, which locks each counter and then reads its jobs.
RebuildLocks ==
    {o \in Orders(LockKeys \cup LockJobs) :
        \A i \in DOMAIN o : o[i] \in LockJobs =>
            \E n \in 1..(i - 1) :
                /\ o[n] = keyOf[o[i]]
                /\ \A m \in (n + 1)..(i - 1) : o[m] \in LockJobs /\ keyOf[o[m]] = keyOf[o[i]]}

-----------------------------------------------------------------------------
\* _serializedTransactionMutation, or one statement of the reconciliation.
Begins(t, m, plans) ==
    /\ mutation[t] = "none"
    /\ mutation' = [mutation EXCEPT ![t] = m]
    /\ \E plan \in plans : todo' = [todo EXCEPT ![t] = plan]
    /\ UNCHANGED <<keyOf, locked>>

Blocks(u, t) == t # u /\ todo[t] # <<>> /\ Head(todo[t]) \in locked[u]
Blocked(t) == \E u \in Sessions : Blocks(u, t)

\* The next statement gets its row.
TakesRow(t) ==
    /\ todo[t] # <<>> /\ ~Blocked(t)
    /\ locked' = [locked EXCEPT ![t] = @ \cup {Head(todo[t])}]
    /\ todo' = [todo EXCEPT ![t] = Tail(@)]
    /\ UNCHANGED <<keyOf, mutation>>

Released(t) ==
    /\ mutation' = [mutation EXCEPT ![t] = "none"]
    /\ todo' = [todo EXCEPT ![t] = <<>>]
    /\ locked' = [locked EXCEPT ![t] = {}]
    /\ UNCHANGED keyOf

\* The transaction ends with its last statement, or earlier, when a fence
\* finds that there is nothing to do.
TransactionEnds(t) ==
    /\ mutation[t] # "none" /\ ~Blocked(t)
    /\ Released(t)

\* Connections that wait for each other.
Jams == {S \in (SUBSET Sessions) \ {{}} : \A t \in S : \E u \in S : Blocks(u, t)}

\* The database ends a jam with a deadlock error for one of them, which its
\* driver rolls back, to run it again.
Fails(t) ==
    /\ \E S \in Jams : t \in S
    /\ Released(t)

LockNext ==
    \/ \E t \in Mutators :
        \/ Begins(t, "enqueue", EnqueueLocks) \/ Begins(t, "idempotent", IdempotentLocks)
        \/ Begins(t, "handOff", HandOffLocks) \/ Begins(t, "settle", SettleLocks)
        \/ Begins(t, "sweep", SweepLocks) \/ Begins(t, "replace", ReplaceLocks)
        \/ Begins(t, "cancel", CancelLocks) \/ Begins(t, "prune", PruneLocks)
        \/ Begins(t, "clear", ClearLocks)
    \/ Begins(Starter, "adopt", AdoptLocks) \/ Begins(Starter, "rebuild", RebuildLocks)
    \/ \E t \in Sessions : TakesRow(t) \/ TransactionEnds(t) \/ Fails(t)

LockSpec == LockInit /\ [][LockNext]_lockVars

-----------------------------------------------------------------------------
OutsideRevision == {"adopt", "rebuild"}
OfManyRows == {"sweep", "replace", "prune", "clear"}

\* Mutations wait for each other's rows but never in a circle, with two
\* exceptions.  clearAll locks the revision row and then the scopes, an
\* enqueue under a key the other way round.  And the statements of the
\* reconciliation, which take no revision lock, may jam with a mutation that
\* goes from a job to another job or to a counter ("the broad UPDATEs deadlock
\* against active job processes"), but with no handoff, report, return or
\* enqueue: what _lockConcurrencyRow is for.
OnlyKnownJams ==
    \A S \in Jams :
        LET parties == {mutation[t] : t \in S} IN
        \/ {"clear", "idempotent"} \subseteq parties
        \/ parties \cap OutsideRevision # {} /\ parties \cap OfManyRows # {}
=============================================================================
