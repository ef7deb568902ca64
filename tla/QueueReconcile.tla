--------------------------- MODULE QueueReconcile ---------------------------
(***************************************************************************)
(* The startup reconciliation of queue concurrency                         *)
(* (reconcileQueueConcurrency in src/src/background-jobs/store.js): each   *)
(* main process brings the persisted jobs of a queue in line with its own  *)
(* configuration, statement by statement, outside the transaction that     *)
(* serializes every other mutation, while other mains keep handing jobs    *)
(* off and settling them.                                                  *)
(*                                                                         *)
(* One queue.  A mutation takes the count revision lock, so there is one   *)
(* open transaction at most; it reads the job row in one step and writes   *)
(* and commits in another.  With Overlap, statements of the reconciliation *)
(* run in between, as they do on a server database; SQLite's write lock    *)
(* keeps them out.                                                         *)
(***************************************************************************)
EXTENDS Integers, FiniteSets

CONSTANTS
    Jobs,
    Mains,       \* main processes: the ones of a rolling deploy
    Settings,    \* maxConcurrent of the queue in a configuration; 0: no cap
    Overlap,     \* statements run between those of an open transaction
    MaxCrashes,  \* bound on main processes that die
    NoTx

ASSUME ReconcileAssumption ==
    /\ IsFiniteSet(Jobs) /\ IsFiniteSet(Mains)
    /\ Settings \subseteq Nat
    /\ Overlap \in BOOLEAN /\ MaxCrashes \in Nat
    /\ NoTx \notin Jobs \cup Mains

VARIABLES
    status,    \* the job rows
    keyed,     \* concurrency_key is the queue's key (else NULL)
    cap,       \* the key's max_concurrency; 0: the key has no row
    active,    \* the key's active_count
    tx,        \* the open transaction, with what it has read
    config,    \* the configuration each main was started with
    pc,        \* how far each main has come
    clean,     \* the last reconciliation that was begun has completed
    crashes

db == <<status, keyed, cap, active>>
reconcileVars == <<db, tx, config, pc, clean, crashes>>

Live == {"queued", "handed_off"}
Running == {j \in Jobs : status[j] = "handed_off" /\ keyed[j]}

\* A database left behind by earlier deploys, and counts left behind by an
\* unclean stop.
ReconcileInit ==
    /\ status \in [Jobs -> {"none", "queued", "handed_off"}]
    /\ keyed \in [Jobs -> BOOLEAN]
    /\ cap \in Settings \cup {0}
    /\ \A j \in Jobs : keyed[j] => status[j] # "none" /\ cap > 0
    /\ active \in IF cap = 0 THEN {0} ELSE 0..Cardinality(Jobs)
    /\ tx = NoTx
    /\ config \in [Mains -> Settings]
    /\ pc = [m \in Mains |-> "off"]
    /\ clean = FALSE /\ crashes = 0

-----------------------------------------------------------------------------
(* Reconciliation.  The advisory lock admits one main at a time.           *)

Undisturbed == Overlap \/ tx = NoTx
Reconciling == {m \in Mains : pc[m] \notin {"off", "serving"}}

Start(m) ==
    /\ pc[m] = "off" /\ Reconciling = {}
    /\ pc' = [pc EXCEPT ![m] = IF config[m] > 0 THEN "ensure" ELSE "release"]
    /\ clean' = FALSE
    /\ UNCHANGED <<db, tx, config, crashes>>

\* Having read a job with the key, a transaction takes the lock of the key's
\* row before anything else (_reserveConcurrency, _lockConcurrencyRow).
RowLocked == tx # NoTx /\ tx.keyed

\* _ensureQueueConcurrencyKey: the configured cap is stored.
EnsureKey(m) ==
    /\ pc[m] = "ensure" /\ Undisturbed
    /\ cap # config[m] => ~RowLocked
    /\ cap' = config[m]
    /\ pc' = [pc EXCEPT ![m] = "adopt"]
    /\ UNCHANGED <<status, keyed, active, tx, config, clean, crashes>>

\* Mutant: only the backlog is adopted.
AdoptQueued(m) ==
    /\ pc[m] = "adopt" /\ Undisturbed
    /\ keyed' = [j \in Jobs |-> keyed[j] \/ status[j] = "queued"]
    /\ pc' = [pc EXCEPT ![m] = "rebuild"]
    /\ UNCHANGED <<status, cap, active, tx, config, clean, crashes>>
\* Jobs without a key are adopted, running ones too.
Adopt(m) ==
    /\ pc[m] = "adopt" /\ Undisturbed
    /\ keyed' = [j \in Jobs |-> keyed[j] \/ status[j] \in Live]
    /\ pc' = [pc EXCEPT ![m] = "rebuild"]
    /\ UNCHANGED <<status, cap, active, tx, config, clean, crashes>>

\* Without a configured cap, jobs are released from the key.
Release(m) ==
    /\ pc[m] = "release" /\ Undisturbed
    /\ keyed' = [j \in Jobs |-> keyed[j] /\ status[j] \notin Live]
    /\ pc' = [pc EXCEPT ![m] = "rebuild"]
    /\ UNCHANGED <<status, cap, active, tx, config, clean, crashes>>

\* Mutant: the memo is latched by the adoption and the counts are not rebuilt.
RebuildSkipped(m) ==
    /\ pc[m] = "rebuild"
    /\ pc' = [pc EXCEPT ![m] = "serving"]
    /\ clean' = TRUE
    /\ UNCHANGED <<db, tx, config, crashes>>
\* _reconcileConcurrency: the count is rebuilt from the running jobs.
Rebuild(m) ==
    /\ pc[m] = "rebuild" /\ Undisturbed
    /\ ~RowLocked
    /\ active' = IF cap = 0 THEN active ELSE Cardinality(Running)
    /\ pc' = [pc EXCEPT ![m] = "serving"]
    /\ clean' = TRUE
    /\ UNCHANGED <<status, keyed, cap, tx, config, crashes>>

-----------------------------------------------------------------------------
(* The mains that serve.                                                   *)

\* enqueue: the job follows the configuration of the main that inserts it.
Enqueue(m, j) ==
    /\ pc[m] = "serving" /\ tx = NoTx /\ status[j] = "none"
    /\ status' = [status EXCEPT ![j] = "queued"]
    /\ keyed' = [keyed EXCEPT ![j] = config[m] > 0]
    /\ cap' = IF config[m] > 0 THEN config[m] ELSE cap
    /\ UNCHANGED <<active, tx, config, pc, clean, crashes>>

\* markHandedOff reads the row and reserves a slot of the key it read.
HandOffReads(m, j) ==
    /\ pc[m] = "serving" /\ tx = NoTx /\ status[j] = "queued"
    /\ keyed[j] => active < cap
    /\ tx' = [main |-> m, job |-> j, keyed |-> keyed[j]]
    /\ UNCHANGED <<db, config, pc, clean, crashes>>

HandOffCommits ==
    /\ tx # NoTx /\ status[tx.job] = "queued"
    /\ status' = [status EXCEPT ![tx.job] = "handed_off"]
    /\ active' = IF tx.keyed THEN active + 1 ELSE active
    /\ tx' = NoTx
    /\ UNCHANGED <<keyed, cap, config, pc, clean, crashes>>

\* markCompleted, and every other mutation that ends a lease.
SettleReads(m, j) ==
    /\ pc[m] = "serving" /\ tx = NoTx /\ status[j] = "handed_off"
    /\ tx' = [main |-> m, job |-> j, keyed |-> keyed[j]]
    /\ UNCHANGED <<db, config, pc, clean, crashes>>

\* _releaseConcurrency does nothing at zero.
SettleCommits(to) ==
    /\ tx # NoTx /\ status[tx.job] = "handed_off"
    /\ status' = [status EXCEPT ![tx.job] = to]
    /\ active' = IF tx.keyed /\ active > 0 THEN active - 1 ELSE active
    /\ tx' = NoTx
    /\ UNCHANGED <<keyed, cap, config, pc, clean, crashes>>

\* A main dies at any point: its transaction is rolled back and its advisory
\* lock is gone with the connection.
Crash(m) ==
    /\ pc[m] # "off" /\ crashes < MaxCrashes
    /\ crashes' = crashes + 1
    /\ pc' = [pc EXCEPT ![m] = "off"]
    /\ tx' = IF tx # NoTx /\ tx.main = m THEN NoTx ELSE tx
    /\ UNCHANGED <<db, config, clean>>

ReconcileNext ==
    \/ \E m \in Mains : \/ Start(m) \/ EnsureKey(m) \/ Adopt(m) \/ Release(m)
                        \/ Rebuild(m) \/ Crash(m)
    \/ \E m \in Mains, j \in Jobs :
          Enqueue(m, j) \/ HandOffReads(m, j) \/ SettleReads(m, j)
    \/ HandOffCommits
    \/ \E to \in {"queued", "done"} : SettleCommits(to)

ReconcileSpec == ReconcileInit /\ [][ReconcileNext]_reconcileVars

-----------------------------------------------------------------------------
(* Properties.                                                             *)

ReconcileTypeOK ==
    /\ status \in [Jobs -> Live \cup {"none", "done"}]
    /\ keyed \in [Jobs -> BOOLEAN]
    /\ cap \in Nat /\ active \in Nat
    /\ tx \in {NoTx} \cup [main: Mains, job: Jobs, keyed: BOOLEAN]
    /\ config \in [Mains -> Settings]
    /\ pc \in [Mains -> {"off", "ensure", "adopt", "release", "rebuild",
                         "serving"}]
    /\ clean \in BOOLEAN /\ crashes \in 0..MaxCrashes

\* Once a reconciliation has completed, active_count is the number of running
\* jobs of the key, whatever the counts were before, whoever crashed, and
\* whatever other mains did between the statements.
CountExact == (clean /\ tx = NoTx) => active = Cardinality(Running)

\* When every main has the same configuration, no live job bypasses a
\* configured cap and none stays capped under a key that is no longer
\* configured.
BacklogFollowsConfig ==
    (clean /\ Cardinality({config[m] : m \in Mains}) = 1) =>
        \A j \in Jobs : status[j] \in Live =>
            (keyed[j] <=> \A m \in Mains : config[m] > 0)

\* A reconciliation leaves the backlog in the shape its configuration asks for
\* (_reconcileQueueConcurrency), over well-formed rows.
ReconcileInv ==
    /\ ReconcileTypeOK /\ BacklogFollowsConfig

=============================================================================
