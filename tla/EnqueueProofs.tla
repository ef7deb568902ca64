--------------------------- MODULE EnqueueProofs ----------------------------
(***************************************************************************)
(* What enqueueing promises.  A completed startup reconciliation leaves    *)
(* exact counts where its statements cannot run inside an open transaction *)
(* (where they can, the run reconcile_overlap shows that they do not).  And *)
(* a required mail is enqueued once and sent once, a promise whose halves  *)
(* are kept by different parts: the ownership rows of IdempotentEnqueue    *)
(* decide which of the concurrent and repeated enqueues makes the job, and *)
(* the first-attempt timestamp of MailDelivery keeps the job's attempts    *)
(* within the time for which the provider suppresses duplicates.  The      *)
(* transactions that write all this wait for each other's rows in a circle *)
(* only where the code says that they may.  All of it is proved for any    *)
(* number of jobs, keys, main processes, connections, callers, scopes,     *)
(* attempts, crashes and mishaps, and for any window.                      *)
(***************************************************************************)
EXTENDS QueueReconcile, IdempotentEnqueue, MailDelivery, LockOrder, FiniteSetTheorems, TLAPS

-----------------------------------------------------------------------------
(* Reconciling.                                                            *)

\* The open transaction acts on what the row still says.
ReadIsFresh ==
    tx # NoTx => /\ tx.keyed = keyed[tx.job]
                 /\ status[tx.job] \in Live

\* A key without a row has no jobs and no reservations; a main that adopts
\* has stored the cap first.
KeyHasRow ==
    /\ cap = 0 => active = 0 /\ \A j \in Jobs : ~keyed[j]
    /\ \A m \in Mains : /\ pc[m] = "ensure" => config[m] > 0
                        /\ pc[m] = "adopt" => cap > 0

\* The advisory lock, and what it means for `clean`.
OneReconciler ==
    \A m \in Reconciling : ~clean /\ \A n \in Reconciling : m = n

Exact == clean => active = Cardinality(Running)

ReconcileInductive ==
    ReconcileTypeOK /\ ReadIsFresh /\ KeyHasRow /\ OneReconciler /\ Exact

-----------------------------------------------------------------------------
\* The running jobs of the key can be counted, before and after a step.
LEMMA RunningCount ==
    /\ IsFiniteSet(Running) /\ Cardinality(Running) \in Nat
    /\ IsFiniteSet(Running') /\ Cardinality(Running') \in Nat
  <1>1. Running \in SUBSET Jobs /\ Running' \in SUBSET Jobs
    BY DEF Running
  <1> QED  BY <1>1, ReconcileAssumption, FS_Subset, FS_CardinalityType

\* What a database left behind by earlier deploys satisfies.
LEMMA InitReconcile == ReconcileInit => ReconcileInductive
<1> SUFFICES ASSUME ReconcileInit PROVE ReconcileInductive
  OBVIOUS
<1>1. Cardinality(Jobs) \in Nat
  BY ReconcileAssumption, FS_CardinalityType
<1>2. cap \in Nat /\ active \in Nat /\ (cap = 0 => active = 0)
  <2>1. cap \in Nat
    BY ReconcileAssumption DEF ReconcileInit
  <2>2. CASE cap = 0
    BY <2>1, <2>2 DEF ReconcileInit
  <2>3. CASE cap # 0
    <3>1. active \in 0..Cardinality(Jobs)
      BY <2>3 DEF ReconcileInit
    <3> QED  BY <1>1, <2>1, <2>3, <3>1
  <2> QED  BY <2>2, <2>3
<1>3. ReconcileTypeOK
  <2>1. status \in [Jobs -> Live \cup {"none", "done"}]
    BY DEF ReconcileInit, Live
  <2>2. crashes \in 0..MaxCrashes
    BY ReconcileAssumption DEF ReconcileInit
  <2>3. pc \in [Mains -> {"off", "ensure", "adopt", "release", "rebuild",
                          "serving"}]
    BY DEF ReconcileInit
  <2> QED  BY <1>2, <2>1, <2>2, <2>3 DEF ReconcileInit, ReconcileTypeOK
<1>4. ReadIsFresh /\ Exact
  BY DEF ReconcileInit, ReadIsFresh, Exact
<1>5. KeyHasRow
  BY <1>2 DEF ReconcileInit, KeyHasRow
<1>6. OneReconciler
  BY DEF ReconcileInit, OneReconciler, Reconciling
<1> QED  BY <1>3, <1>4, <1>5, <1>6 DEF ReconcileInductive

\* Types, with nothing assumed of the interleaving.
LEMMA TypeStep ==
    ASSUME ReconcileTypeOK, [ReconcileNext]_reconcileVars
    PROVE  ReconcileTypeOK'
<1> USE ReconcileAssumption DEF ReconcileTypeOK, Live, db
<1>0. Cardinality(Running) \in Nat
  BY RunningCount
<1>1. ASSUME NEW m \in Mains,
             Start(m) \/ EnsureKey(m) \/ Adopt(m) \/ Release(m)
      PROVE  ReconcileTypeOK'
  BY <1>1 DEF Start, EnsureKey, Adopt, Release
<1>2. ASSUME NEW m \in Mains, Rebuild(m)
      PROVE  ReconcileTypeOK'
  BY <1>0, <1>2 DEF Rebuild
<1>3. ASSUME NEW m \in Mains, Crash(m)
      PROVE  ReconcileTypeOK'
  BY <1>3 DEF Crash
<1>4. ASSUME NEW m \in Mains, NEW j \in Jobs,
             Enqueue(m, j) \/ HandOffReads(m, j) \/ SettleReads(m, j)
      PROVE  ReconcileTypeOK'
  <2>1. CASE Enqueue(m, j)
    <3>1. config[m] \in Nat /\ (config[m] > 0) \in BOOLEAN
      OBVIOUS
    <3> QED  BY <2>1, <3>1 DEF Enqueue
  <2>2. CASE HandOffReads(m, j)
    BY <2>2 DEF HandOffReads
  <2>3. CASE SettleReads(m, j)
    BY <2>3 DEF SettleReads
  <2> QED  BY <1>4, <2>1, <2>2, <2>3
<1>5. CASE HandOffCommits
  <2>1. tx.job \in Jobs
    BY <1>5 DEF HandOffCommits
  <2>2. status' \in [Jobs -> Live \cup {"none", "done"}]
    BY <1>5, <2>1 DEF HandOffCommits
  <2>3. active' \in Nat
    BY <1>5 DEF HandOffCommits
  <2> QED  BY <1>5, <2>2, <2>3 DEF HandOffCommits
<1>6. ASSUME NEW to \in {"queued", "done"}, SettleCommits(to)
      PROVE  ReconcileTypeOK'
  BY <1>6 DEF SettleCommits
<1>7. CASE UNCHANGED reconcileVars
  BY <1>7 DEF reconcileVars
<1> QED
  BY <1>1, <1>2, <1>3, <1>4, <1>5, <1>6, <1>7 DEF ReconcileNext

-----------------------------------------------------------------------------
\* Each step of a main that is reconciling.
LEMMA ReconcilerStep ==
    ASSUME ReconcileInductive, ~Overlap, ReconcileTypeOK', NEW m \in Mains,
           Start(m) \/ EnsureKey(m) \/ Adopt(m) \/ Release(m) \/ Rebuild(m)
    PROVE  ReconcileInductive'
<1> USE DEF ReconcileInductive
<1>1. CASE Start(m)
  <2>1. ReadIsFresh'
    BY <1>1 DEF Start, ReadIsFresh, db
  <2>2. KeyHasRow'
    BY <1>1 DEF Start, KeyHasRow, db, ReconcileTypeOK
  <2>3. OneReconciler' /\ Exact'
    BY <1>1 DEF Start, OneReconciler, Exact, Reconciling, ReconcileTypeOK
  <2> QED  BY <2>1, <2>2, <2>3
<1>2. CASE EnsureKey(m) \/ Adopt(m) \/ Release(m)
  <2>1. tx = NoTx /\ tx' = NoTx
    BY <1>2 DEF EnsureKey, Adopt, Release, Undisturbed
  <2>2. ReadIsFresh'
    BY <2>1 DEF ReadIsFresh
  <2>3. m \in Reconciling /\ ~clean /\ ~clean'
    BY <1>2 DEF EnsureKey, Adopt, Release, Reconciling, OneReconciler
  <2>4. OneReconciler'
    BY <1>2, <2>3 DEF EnsureKey, Adopt, Release, Reconciling, OneReconciler,
                      ReconcileTypeOK
  <2>5. KeyHasRow'
    BY <1>2, ReconcileAssumption
       DEF EnsureKey, Adopt, Release, KeyHasRow, ReconcileTypeOK
  <2> QED  BY <2>2, <2>3, <2>4, <2>5 DEF Exact
<1>3. CASE Rebuild(m)
  <2>1. tx = NoTx /\ tx' = NoTx
    BY <1>3 DEF Rebuild, Undisturbed
  <2>2. ReadIsFresh'
    BY <2>1 DEF ReadIsFresh
  <2>3. m \in Reconciling
    BY <1>3 DEF Rebuild, Reconciling
  <2>4. Reconciling' = {}
    BY <1>3, <2>3 DEF Rebuild, Reconciling, OneReconciler, ReconcileTypeOK
  <2>5. OneReconciler'
    BY <2>4 DEF OneReconciler
  <2>6. Running' = Running
    BY <1>3 DEF Rebuild, Running
  <2>7. active' = Cardinality(Running)
    <3>1. CASE cap = 0
      <4>1. Running = {} /\ active = 0
        BY <3>1 DEF Running, KeyHasRow
      <4> QED  BY <1>3, <3>1, <4>1, FS_EmptySet DEF Rebuild
    <3>2. CASE cap # 0
      BY <1>3, <3>2 DEF Rebuild
    <3> QED  BY <3>1, <3>2
  <2>8. KeyHasRow'
    BY <1>3 DEF Rebuild, KeyHasRow, ReconcileTypeOK
  <2> QED  BY <2>2, <2>5, <2>6, <2>7, <2>8 DEF Exact
<1> QED  BY <1>1, <1>2, <1>3

\* Each step of a main that serves, and crashes.
LEMMA ServingStep ==
    ASSUME ReconcileInductive, ReconcileTypeOK',
           \/ \E m \in Mains : Crash(m)
           \/ \E m \in Mains, j \in Jobs :
                 Enqueue(m, j) \/ HandOffReads(m, j) \/ SettleReads(m, j)
           \/ HandOffCommits
           \/ \E to \in {"queued", "done"} : SettleCommits(to)
    PROVE  ReconcileInductive'
<1> USE DEF ReconcileInductive
<1>1. ASSUME NEW m \in Mains, Crash(m)
      PROVE  ReconcileInductive'
  <2>1. ReadIsFresh'
    BY <1>1 DEF Crash, ReadIsFresh, db
  <2>2. KeyHasRow'
    BY <1>1 DEF Crash, KeyHasRow, db, ReconcileTypeOK
  <2>3. OneReconciler'
    BY <1>1 DEF Crash, OneReconciler, Reconciling, ReconcileTypeOK
  <2>4. Exact'
    BY <1>1 DEF Crash, Exact, Running, db
  <2> QED  BY <2>1, <2>2, <2>3, <2>4
<1>2. ASSUME NEW m \in Mains, NEW j \in Jobs, Enqueue(m, j)
      PROVE  ReconcileInductive'
  <2>1. Running' = Running
    BY <1>2 DEF Enqueue, Running, ReconcileTypeOK
  <2>2. KeyHasRow'
    BY <1>2, ReconcileAssumption DEF Enqueue, KeyHasRow, ReconcileTypeOK
  <2>3. ReadIsFresh' /\ OneReconciler'
    BY <1>2 DEF Enqueue, ReadIsFresh, OneReconciler, Reconciling
  <2> QED  BY <1>2, <2>1, <2>2, <2>3 DEF Enqueue, Exact
<1>3. ASSUME NEW m \in Mains, NEW j \in Jobs,
             HandOffReads(m, j) \/ SettleReads(m, j)
      PROVE  ReconcileInductive'
  <2>1. ReadIsFresh'
    BY <1>3 DEF HandOffReads, SettleReads, ReadIsFresh, Live, db
  <2>2. KeyHasRow' /\ OneReconciler'
    BY <1>3 DEF HandOffReads, SettleReads, KeyHasRow, OneReconciler,
                Reconciling, db
  <2>3. Exact'
    BY <1>3 DEF HandOffReads, SettleReads, Exact, Running, db
  <2> QED  BY <2>1, <2>2, <2>3
<1>4. CASE HandOffCommits
  <2>1. tx.job \in Jobs /\ tx.keyed = keyed[tx.job]
    BY <1>4 DEF HandOffCommits, ReadIsFresh, ReconcileTypeOK
  <2>2. KeyHasRow'
    BY <1>4, <2>1 DEF HandOffCommits, KeyHasRow, ReconcileTypeOK
  <2>3. ReadIsFresh' /\ OneReconciler'
    BY <1>4 DEF HandOffCommits, ReadIsFresh, OneReconciler, Reconciling
  <2>4. Exact'
    <3>1. CASE tx.keyed
      <4>1. Running' = Running \cup {tx.job} /\ tx.job \notin Running
        <5>1. /\ keyed' = keyed /\ status[tx.job] = "queued"
              /\ status' = [status EXCEPT ![tx.job] = "handed_off"]
          BY <1>4 DEF HandOffCommits
        <5>2. status \in [Jobs -> Live \cup {"none", "done"}] /\ keyed[tx.job]
          BY <2>1, <3>1 DEF ReconcileTypeOK
        <5> QED  BY <2>1, <5>1, <5>2 DEF Running
      <4>2. Cardinality(Running') = Cardinality(Running) + 1
        BY <4>1, RunningCount, FS_AddElement
      <4> QED  BY <1>4, <3>1, <4>2 DEF HandOffCommits, Exact
    <3>2. CASE ~tx.keyed
      <4>1. Running' = Running
        BY <1>4, <2>1, <3>2 DEF HandOffCommits, Running, ReconcileTypeOK
      <4> QED  BY <1>4, <3>2, <4>1 DEF HandOffCommits, Exact
    <3> QED  BY <3>1, <3>2
  <2> QED  BY <2>2, <2>3, <2>4
<1>5. ASSUME NEW to \in {"queued", "done"}, SettleCommits(to)
      PROVE  ReconcileInductive'
  <2>1. tx.job \in Jobs /\ tx.keyed = keyed[tx.job]
    BY <1>5 DEF SettleCommits, ReadIsFresh, ReconcileTypeOK
  <2>2. KeyHasRow'
    BY <1>5, <2>1 DEF SettleCommits, KeyHasRow, ReconcileTypeOK
  <2>3. ReadIsFresh' /\ OneReconciler'
    BY <1>5 DEF SettleCommits, ReadIsFresh, OneReconciler, Reconciling
  <2>4. Exact'
    <3>1. CASE tx.keyed
      <4>1. Running' = Running \ {tx.job} /\ tx.job \in Running
        BY <1>5, <2>1, <3>1 DEF SettleCommits, Running, ReconcileTypeOK
      <4>2. Cardinality(Running') = Cardinality(Running) - 1
        BY <4>1, RunningCount, FS_RemoveElement
      <4>3. Cardinality(Running) # 0
        BY <4>1, RunningCount, FS_EmptySet
      <4> QED
        BY <1>5, <3>1, <4>2, <4>3, RunningCount DEF SettleCommits, Exact
    <3>2. CASE ~tx.keyed
      <4>1. Running' = Running
        BY <1>5, <2>1, <3>2 DEF SettleCommits, Running, ReconcileTypeOK
      <4> QED  BY <1>5, <3>2, <4>1 DEF SettleCommits, Exact
    <3> QED  BY <3>1, <3>2
  <2> QED  BY <2>2, <2>3, <2>4
<1> QED  BY <1>1, <1>2, <1>3, <1>4, <1>5

\* Stuttering.
LEMMA ReconcileFrame ==
    ReconcileInductive /\ UNCHANGED reconcileVars => ReconcileInductive'
  BY DEF ReconcileInductive, ReconcileTypeOK, ReadIsFresh, KeyHasRow, OneReconciler,
         Reconciling, Exact, Running, reconcileVars, db

\* Where a reconciliation statement waits for the open transaction, a
\* completed reconciliation (_reconcileQueueConcurrency followed by
\* _reconcileConcurrency) makes active_count exact, and it stays exact, for
\* any number of mains, configurations and crashes between statements.
THEOREM ReconciledCountExact == ~Overlap => (ReconcileSpec => []CountExact)
<1> SUFFICES ASSUME ~Overlap PROVE ReconcileSpec => []CountExact
  OBVIOUS
<1>1. ReconcileInductive /\ [ReconcileNext]_reconcileVars => ReconcileInductive'
  <2> SUFFICES ASSUME ReconcileInductive, [ReconcileNext]_reconcileVars PROVE ReconcileInductive'
    OBVIOUS
  <2>1. ReconcileTypeOK'
    BY TypeStep DEF ReconcileInductive
  <2> QED
    BY <2>1, ReconcilerStep, ServingStep, ReconcileFrame DEF ReconcileNext
<1>2. ReconcileInductive => CountExact
  BY DEF ReconcileInductive, Exact, CountExact
<1> QED
  BY InitReconcile, <1>1, <1>2, PTL DEF ReconcileSpec

-----------------------------------------------------------------------------
(* The backlog follows the configuration, whatever statements overlap.     *)

Uniform == Cardinality({config[m] : m \in Mains}) = 1

Followed ==
    \A j \in Jobs : status[j] \in Live =>
        (keyed[j] <=> \A m \in Mains : config[m] > 0)

\* BacklogFollowsConfig is silent until a reconciliation has completed, and
\* not inductive for that: once a main has adopted or released the backlog,
\* what the others enqueue before the rebuild must keep it that way.
BacklogInductive ==
    /\ ReconcileTypeOK
    /\ \A m \in Mains : /\ pc[m] \in {"ensure", "adopt"} => config[m] > 0
                        /\ pc[m] = "release" => config[m] = 0
    /\ (clean \/ \E m \in Mains : pc[m] = "rebuild") /\ Uniform => Followed

\* Mains with one configuration agree on whether the queue is capped.
LEMMA OneSetting ==
    ASSUME ReconcileTypeOK, Uniform, NEW n \in Mains
    PROVE  config[n] > 0 <=> \A m \in Mains : config[m] > 0
<1>1. IsFiniteSet({config[m] : m \in Mains})
  <2> DEFINE T == {config[m] : m \in Mains}
  <2>1. config \in Surjection(Mains, T)
    BY DEF ReconcileTypeOK, Surjection
  <2> HIDE DEF T
  <2>2. IsFiniteSet(T)
    BY <2>1, ReconcileAssumption, FS_Surjection
  <2> QED  BY <2>2 DEF T
<1>2. PICK x : {config[m] : m \in Mains} = {x}
  BY <1>1, FS_Singleton DEF Uniform
<1>3. \A m \in Mains : config[m] = x
  BY <1>2
<1> QED  BY <1>3

\* A step that starts no job and leaves the keys of the live ones alone keeps
\* the backlog in shape, unless it makes the last reconciliation a clean one.
LEMMA BacklogFrame ==
    ASSUME BacklogInductive, ReconcileTypeOK', config' = config,
           clean' => clean \/ \E m \in Mains : pc[m] = "rebuild",
           \A m \in Mains : pc'[m] = pc[m] \/ pc'[m] \in {"off", "serving"},
           \A j \in Jobs : status'[j] \in Live =>
              status[j] \in Live /\ keyed'[j] = keyed[j]
    PROVE  BacklogInductive'
<1>1. \A m \in Mains : /\ pc'[m] \in {"ensure", "adopt"} => config'[m] > 0
                       /\ pc'[m] = "release" => config'[m] = 0
  BY DEF BacklogInductive
<1>2. (clean' \/ \E m \in Mains : pc'[m] = "rebuild")
        => (clean \/ \E m \in Mains : pc[m] = "rebuild")
  OBVIOUS
<1>3. Uniform' => Uniform
  BY DEF Uniform
<1>4. Followed => Followed'
  BY DEF Followed
<1> QED  BY <1>1, <1>2, <1>3, <1>4 DEF BacklogInductive

\* Every step of every main keeps the backlog in the shape asked for.
LEMMA BacklogStep ==
    ASSUME BacklogInductive, [ReconcileNext]_reconcileVars
    PROVE  BacklogInductive'
<1>0. ReconcileTypeOK /\ ReconcileTypeOK'
  BY TypeStep DEF BacklogInductive
<1>t. /\ config \in [Mains -> Settings] /\ Settings \subseteq Nat
      /\ pc \in [Mains -> {"off", "ensure", "adopt", "release", "rebuild", "serving"}]
      /\ keyed \in [Jobs -> BOOLEAN]
      /\ status \in [Jobs -> Live \cup {"none", "done"}]
      /\ tx \in {NoTx} \cup [main: Mains, job: Jobs, keyed: BOOLEAN]
  BY <1>0, ReconcileAssumption DEF ReconcileTypeOK
<1>1. ASSUME NEW m \in Mains, Start(m)
      PROVE  BacklogInductive'
  <2>1. \A n \in Mains : pc[n] # "rebuild" /\ pc'[n] # "rebuild"
    BY <1>1, <1>t DEF Start, Reconciling
  <2>2. ~clean'
    BY <1>1 DEF Start
  <2>3. \A n \in Mains : /\ pc'[n] \in {"ensure", "adopt"} => config'[n] > 0
                         /\ pc'[n] = "release" => config'[n] = 0
    <3>1. config' = config /\ config[m] \in Nat
      BY <1>1, <1>t DEF Start
    <3>2. pc'[m] = IF config[m] > 0 THEN "ensure" ELSE "release"
      BY <1>1, <1>t DEF Start
    <3>3. \A n \in Mains : n # m => pc'[n] = pc[n]
      BY <1>1, <1>t DEF Start
    <3>4. \A n \in Mains : /\ pc[n] \in {"ensure", "adopt"} => config[n] > 0
                           /\ pc[n] = "release" => config[n] = 0
      BY DEF BacklogInductive
    <3> QED  BY <3>1, <3>2, <3>3, <3>4
  <2> QED  BY <1>0, <2>1, <2>2, <2>3 DEF BacklogInductive
<1>2. ASSUME NEW m \in Mains, EnsureKey(m)
      PROVE  BacklogInductive'
  <2>1. \A n \in Mains : /\ pc'[n] \in {"ensure", "adopt"} => config'[n] > 0
                         /\ pc'[n] = "release" => config'[n] = 0
                         /\ pc'[n] = "rebuild" => pc[n] = "rebuild"
    BY <1>2, <1>t DEF EnsureKey, BacklogInductive
  <2>2. clean' = clean /\ (Uniform' => Uniform) /\ (Followed => Followed')
    BY <1>2 DEF EnsureKey, Uniform, Followed
  <2> QED  BY <1>0, <2>1, <2>2 DEF BacklogInductive
<1>3. ASSUME NEW m \in Mains, Adopt(m) \/ Release(m)
      PROVE  BacklogInductive'
  <2>1. \A n \in Mains : /\ pc'[n] \in {"ensure", "adopt"} => config'[n] > 0
                         /\ pc'[n] = "release" => config'[n] = 0
    BY <1>3, <1>t DEF Adopt, Release, BacklogInductive
  <2>2. \A j \in Jobs : status'[j] \in Live => (keyed'[j] <=> config[m] > 0)
    <3>1. CASE Adopt(m)
      BY <3>1, <1>t DEF Adopt, BacklogInductive
    <3>2. CASE Release(m)
      <4>1. config[m] = 0 /\ status' = status
        BY <3>2 DEF Release, BacklogInductive
      <4>2. \A j \in Jobs : status[j] \in Live => ~keyed'[j]
        BY <3>2 DEF Release
      <4> QED  BY <4>1, <4>2
    <3> QED  BY <1>3, <3>1, <3>2
  <2>3. config' = config
    BY <1>3 DEF Adopt, Release
  <2>4. Uniform => (config[m] > 0 <=> \A n \in Mains : config[n] > 0)
    BY <1>0, OneSetting
  <2>5. Uniform' => Followed'
    BY <2>2, <2>3, <2>4 DEF Uniform, Followed
  <2> QED  BY <1>0, <2>1, <2>5 DEF BacklogInductive
<1>4. ASSUME NEW m \in Mains, Rebuild(m) \/ Crash(m)
      PROVE  BacklogInductive'
  <2>1. \A n \in Mains : pc'[n] = pc[n] \/ pc'[n] \in {"off", "serving"}
    BY <1>4, <1>t DEF Rebuild, Crash
  <2>2. /\ status' = status /\ keyed' = keyed /\ config' = config
        /\ clean' => clean \/ pc[m] = "rebuild"
    BY <1>4 DEF Rebuild, Crash, db
  <2> QED  BY <1>0, <2>1, <2>2, BacklogFrame
<1>5. ASSUME NEW m \in Mains, NEW j \in Jobs, Enqueue(m, j)
      PROVE  BacklogInductive'
  <2>1. /\ config' = config /\ pc' = pc /\ clean' = clean
        /\ status' = [status EXCEPT ![j] = "queued"]
        /\ keyed' = [keyed EXCEPT ![j] = config[m] > 0]
    BY <1>5 DEF Enqueue
  <2>2. Uniform => (config[m] > 0 <=> \A n \in Mains : config[n] > 0)
    BY <1>0, OneSetting
  <2>3. \A i \in Jobs : IF i = j THEN keyed'[i] <=> config[m] > 0
                        ELSE keyed'[i] = keyed[i] /\ status'[i] = status[i]
    BY <1>t, <2>1
  <2>4. Uniform /\ Followed => Followed'
    BY <2>1, <2>2, <2>3 DEF Followed
  <2>5. Uniform' => Uniform
    BY <2>1 DEF Uniform
  <2> QED  BY <1>0, <2>1, <2>4, <2>5 DEF BacklogInductive
<1>6. ASSUME NEW m \in Mains, NEW j \in Jobs,
             HandOffReads(m, j) \/ SettleReads(m, j)
      PROVE  BacklogInductive'
  <2>1. config' = config /\ pc' = pc /\ clean' = clean
        /\ status' = status /\ keyed' = keyed
    BY <1>6 DEF HandOffReads, SettleReads, db
  <2> QED  BY <1>0, <2>1, BacklogFrame
<1>7. ASSUME HandOffCommits \/ \E to \in {"queued", "done"} : SettleCommits(to)
      PROVE  BacklogInductive'
  <2>1. config' = config /\ pc' = pc /\ clean' = clean /\ keyed' = keyed
    BY <1>7 DEF HandOffCommits, SettleCommits
  <2>2. \A i \in Jobs : status'[i] \in Live => status[i] \in Live
    BY <1>7, <1>t DEF HandOffCommits, SettleCommits, Live
  <2> QED  BY <1>0, <2>1, <2>2, BacklogFrame
<1>8. ASSUME UNCHANGED reconcileVars
      PROVE  BacklogInductive'
  <2>1. config' = config /\ pc' = pc /\ clean' = clean
        /\ status' = status /\ keyed' = keyed
    BY <1>8 DEF reconcileVars, db
  <2> QED  BY <1>0, <2>1, BacklogFrame
<1> QED
  BY <1>1, <1>2, <1>3, <1>4, <1>5, <1>6, <1>7, <1>8 DEF ReconcileNext

\* Mains that share a configuration agree with the backlog once one of them
\* has reconciled: no live job bypasses the cap and none stays capped under a
\* key nobody configures, even where statements of the reconciliation run
\* inside another main's transaction.
THEOREM BacklogReconciled == ReconcileSpec => []ReconcileInv
<1>1. ReconcileInit => BacklogInductive
  <2> SUFFICES ASSUME ReconcileInit PROVE BacklogInductive
    OBVIOUS
  <2>1. ReconcileTypeOK
    BY InitReconcile DEF ReconcileInductive
  <2> QED  BY <2>1 DEF ReconcileInit, BacklogInductive
<1>2. BacklogInductive /\ [ReconcileNext]_reconcileVars => BacklogInductive'
  BY BacklogStep
<1>3. BacklogInductive => ReconcileInv
  BY DEF BacklogInductive, ReconcileInv, BacklogFollowsConfig, Uniform, Followed
<1> QED  BY <1>1, <1>2, <1>3, PTL DEF ReconcileSpec

-----------------------------------------------------------------------------
(* Enqueueing.                                                             *)

IdemSpec == IdemInit /\ [][IdemNext]_idemVars

\* The steps of a transaction that has claimed its scope, and of one that has
\* made its first read.
Claimed == {"count", "mail", "commit"}
Working == {"claim", "lost", "check"} \cup Claimed

\* The ownership rows and the job rows are written together.
RowsMatch ==
    \A s \in Scopes : \A j \in JobIds :
        <<j, s>> \in born <=> owners[s] # Nothing /\ owners[s].job = j

\* The primary key and the count lock each admit one transaction.
Exclusive ==
    \A p, q \in Callers : p # q =>
        /\ ~(HoldsCount(p) /\ HoldsCount(q))
        /\ step[p] \in Claimed /\ step[q] \in Claimed => call[p].scope # call[q].scope

\* A scope that is claimed is still free, and one that was found or lost is
\* taken; what a transaction saw first, if anything, is still so.
ReadsHold ==
    \A p \in Callers :
        /\ step[p] # "idle" => tries[p] >= 1
        /\ step[p] \in Claimed => owners[call[p].scope] = Nothing
        /\ step[p] \in {"lost", "check"} => owners[call[p].scope] # Nothing
        /\ step[p] \in Working =>
              \A s \in Scopes : view[p].owners[s] \in {Nothing, owners[s]}
        /\ step[p] = "check" /\ level = "snapshot" =>
              view[p].owners[call[p].scope] # Nothing
        /\ step[p] = "commit" /\ mail => operation = Nothing

\* None of what IdemInv says is inductive without what the callers know.
IdemInductive ==
    /\ IdemTypeOK /\ RowsMatch /\ Exclusive /\ ReadsHold
    /\ AnswerIsTheJob /\ OneJobPerOperation /\ LoserConverges

\* The tables are empty and nobody has asked.
LEMMA IdemStarts == IdemInit => IdemInductive
<1> SUFFICES ASSUME IdemInit PROVE IdemInductive
    OBVIOUS
<1>1. IdemTypeOK
    <2>1. tries \in [Callers -> 0..MaxTries] /\ mishaps \in 0..MaxMishaps
        BY IdemAssumption DEF IdemInit
    <2>2. step \in [Callers -> Steps]
        BY DEF IdemInit, Steps
    <2> QED  BY <2>1, <2>2 DEF IdemInit, IdemTypeOK
<1>2. RowsMatch
    BY DEF IdemInit, RowsMatch
<1>3. Exclusive /\ ReadsHold
    BY DEF IdemInit, Exclusive, ReadsHold, HoldsCount, Claimed, Working
<1>4. AnswerIsTheJob /\ LoserConverges
    BY IdemAssumption DEF IdemInit, AnswerIsTheJob, LoserConverges, Refusals
<1>5. OneJobPerOperation
    BY FS_EmptySet DEF IdemInit, OneJobPerOperation
<1> QED  BY <1>1, <1>2, <1>3, <1>4, <1>5 DEF IdemInductive

\* The invariant says what a reader wants to know.
LEMMA IdemImplies == IdemInductive => IdemInv
<1> SUFFICES ASSUME IdemInductive PROVE OneJobPerScope
    BY DEF IdemInductive, IdemInv
<1> SUFFICES ASSUME NEW s \in Scopes
             PROVE  Cardinality({b \in born : b[2] = s}) <= 1
    BY DEF OneJobPerScope
<1> DEFINE B == {b \in born : b[2] = s}
<1>1. \A b \in B : b = <<owners[s].job, s>>
    BY DEF IdemInductive, IdemTypeOK, RowsMatch
<1>2. B = {} \/ B = {<<owners[s].job, s>>}
    BY <1>1
<1> HIDE DEF B
<1>3. CASE B = {}
    BY <1>3, FS_EmptySet DEF B
<1>4. CASE B = {<<owners[s].job, s>>}
    <2>1. Cardinality(B) = 1
        BY <1>4, FS_Singleton
    <2> QED  BY <2>1 DEF B
<1> QED  BY <1>2, <1>3, <1>4

\* A step of one transaction that commits nothing keeps the invariant if what
\* the caller then knows is true and what it then holds was free.
LEMMA IdemLocal ==
    ASSUME IdemInductive, IdemTypeOK', NEW p \in Callers,
           UNCHANGED <<level, mail, owners, operation, born, call>>,
           \A q \in Callers \ {p} :
              /\ step'[q] = step[q] /\ view'[q] = view[q]
              /\ answer'[q] = answer[q] /\ tries'[q] = tries[q],
           tries'[p] >= 1,
           step'[p] \in Claimed =>
              /\ owners[call[p].scope] = Nothing
              /\ \A q \in Callers \ {p} : ~HoldsScope(q, call[p].scope),
           step'[p] \in {"mail", "commit"} => \A q \in Callers \ {p} : ~HoldsCount(q),
           step'[p] \in {"lost", "check"} => owners[call[p].scope] # Nothing,
           step'[p] \in Working =>
              \A s \in Scopes : view'[p].owners[s] \in {Nothing, owners[s]},
           step'[p] = "check" /\ level = "snapshot" =>
              view'[p].owners[call[p].scope] # Nothing,
           step'[p] = "commit" /\ mail => operation = Nothing,
           answer'[p] \in JobIds =>
              owners[call[p].scope] = [job |-> answer'[p], digest |-> call[p].digest],
           answer'[p] = "error" => level = "snapshot" /\ Beaten(p)
    PROVE  IdemInductive'
<1>0. RowsMatch /\ Exclusive /\ ReadsHold /\ AnswerIsTheJob
        /\ OneJobPerOperation /\ LoserConverges /\ IdemTypeOK
    BY DEF IdemInductive
<1>1. RowsMatch'
    BY <1>0 DEF RowsMatch
<1>2. Exclusive'
    <2> SUFFICES ASSUME NEW x \in Callers, NEW y \in Callers, x # y
                 PROVE  /\ ~(HoldsCount(x)' /\ HoldsCount(y)')
                        /\ step'[x] \in Claimed /\ step'[y] \in Claimed
                              => call'[x].scope # call'[y].scope
        BY DEF Exclusive
    <2>1. CASE x # p /\ y # p
        BY <1>0, <2>1 DEF Exclusive, HoldsCount
    <2>2. CASE x = p
        BY <1>0, <2>2 DEF HoldsCount, HoldsScope, Claimed
    <2>3. CASE y = p
        BY <1>0, <2>3 DEF HoldsCount, HoldsScope, Claimed
    <2> QED  BY <2>1, <2>2, <2>3
<1>3. ReadsHold'
    BY <1>0 DEF ReadsHold
<1>4. AnswerIsTheJob'
    <2> SUFFICES ASSUME NEW q \in Callers, answer'[q] \in JobIds
                 PROVE  /\ <<answer'[q], call'[q].scope>> \in born'
                        /\ owners'[call'[q].scope] =
                              [job |-> answer'[q], digest |-> call'[q].digest]
        BY DEF AnswerIsTheJob
    <2>1. CASE q = p
        <3>1. call[p].scope \in Scopes
            BY <1>0 DEF IdemTypeOK, Calls
        <3>2. owners[call[p].scope] # Nothing
            BY <1>0, <2>1, <3>1, IdemAssumption DEF IdemTypeOK, Owners, Calls
        <3> QED  BY <1>0, <2>1, <3>1, <3>2 DEF RowsMatch
    <2>2. CASE q # p
        BY <1>0, <2>2 DEF AnswerIsTheJob
    <2> QED  BY <2>1, <2>2
<1>5. OneJobPerOperation' /\ LoserConverges'
    BY <1>0 DEF OneJobPerOperation, LoserConverges, Beaten
<1> QED  BY <1>1, <1>2, <1>3, <1>4, <1>5 DEF IdemInductive

\* Every step of every transaction keeps the invariant.
LEMMA IdemStep ==
    ASSUME IdemInductive, [IdemNext]_idemVars
    PROVE  IdemInductive'
<1>0. RowsMatch /\ Exclusive /\ ReadsHold /\ AnswerIsTheJob
        /\ OneJobPerOperation /\ LoserConverges /\ IdemTypeOK
    BY DEF IdemInductive
<1>t. /\ view \in [Callers -> Views \cup {Nothing}]
      /\ step \in [Callers -> Steps] /\ call \in [Callers -> Calls]
      /\ owners \in [Scopes -> Owners \cup {Nothing}]
      /\ tries \in [Callers -> 0..MaxTries]
      /\ answer \in [Callers -> JobIds \cup Refusals \cup {Nothing}]
      /\ \A p \in Callers : /\ call[p].scope \in Scopes
                            /\ call[p].digest \in Digests
    BY <1>0 DEF IdemTypeOK, Calls
<1>r. ASSUME NEW p \in Callers, step[p] \in Working
      PROVE  /\ Prepared(p) \in JobIds /\ OwnerRow(p) \in Owners
             /\ answer[p] = Nothing
    <2>1. tries[p] \in 1..MaxTries
        BY <1>0, <1>t, <1>r, IdemAssumption DEF ReadsHold, Working, Claimed
    <2>2. step[p] # "done"
        BY <1>r DEF Working, Claimed
    <2> QED  BY <1>0, <1>t, <2>1, <2>2
             DEF Prepared, OwnerRow, JobIds, Owners, IdemTypeOK
<1>g. ASSUME NEW p \in Callers, NEW where \in Steps \ {"done"}, Goes(p, where),
             step[p] # "done", UNCHANGED <<tables, asking>>
      PROVE  /\ step'[p] = where /\ view' = view /\ answer' = answer
             /\ answer[p] = Nothing
             /\ UNCHANGED <<level, mail, owners, operation, born, call, tries>>
             /\ \A q \in Callers \ {p} : step'[q] = step[q]
             /\ IdemTypeOK'
    <2>1. /\ step' = [step EXCEPT ![p] = where] /\ view' = view /\ answer' = answer
          /\ UNCHANGED <<level, mail, owners, operation, born, pruned, call, tries,
                         mishaps>>
        BY <1>g DEF Goes, tables, asking
    <2>2. answer[p] = Nothing
        BY <1>0, <1>g DEF IdemTypeOK
    <2> QED  BY <1>0, <1>t, <2>1, <2>2 DEF IdemTypeOK
<1>e. ASSUME NEW p \in Callers, NEW what \in JobIds \cup Refusals, Ends(p, what),
             UNCHANGED <<tables, asking>>, step[p] # "idle",
             what \in JobIds =>
                owners[call[p].scope] = [job |-> what, digest |-> call[p].digest],
             what = "error" => level = "snapshot" /\ Beaten(p)
      PROVE  IdemInductive'
    <2>1. /\ step' = [step EXCEPT ![p] = "done"] /\ answer' = [answer EXCEPT ![p] = what]
          /\ view' = [view EXCEPT ![p] = Nothing]
          /\ UNCHANGED <<level, mail, owners, operation, born, pruned, call, tries,
                         mishaps>>
        BY <1>e DEF Ends, tables, asking
    <2>2. what # Nothing
        BY <1>e, IdemAssumption
    <2>3. IdemTypeOK'
        BY <1>0, <1>t, <2>1, <2>2 DEF IdemTypeOK, Steps
    <2>4. tries'[p] >= 1
        BY <1>0, <1>e, <2>1 DEF ReadsHold
    <2>5. step'[p] = "done" /\ answer'[p] = what
            /\ \A q \in Callers \ {p} : step'[q] = step[q] /\ answer'[q] = answer[q]
                                          /\ view'[q] = view[q] /\ tries'[q] = tries[q]
        BY <1>0, <1>t, <2>1
    <2> QED  BY <1>e, <2>1, <2>3, <2>4, <2>5, IdemLocal DEF Working, Claimed
<1>1. ASSUME NEW p \in Callers, Ask(p)
      PROVE  IdemInductive'
    <2>1. /\ step' = [step EXCEPT ![p] = "look"] /\ view' = view
          /\ tries' = [tries EXCEPT ![p] = @ + 1] /\ tries[p] < MaxTries
          /\ answer' = [answer EXCEPT ![p] = Nothing]
          /\ UNCHANGED <<level, mail, owners, operation, born, pruned, call, mishaps>>
        BY <1>1 DEF Ask, tables
    <2>2. tries'[p] \in 1..MaxTries
        BY <1>t, <2>1, IdemAssumption
    <2>3. IdemTypeOK'
        BY <1>0, <1>t, <2>1, <2>2, IdemAssumption DEF IdemTypeOK, Steps
    <2>4. step'[p] = "look" /\ answer'[p] = Nothing
            /\ \A q \in Callers \ {p} : step'[q] = step[q] /\ answer'[q] = answer[q]
                                          /\ view'[q] = view[q] /\ tries'[q] = tries[q]
        BY <1>t, <2>1
    <2>5. answer'[p] \notin JobIds /\ answer'[p] # "error" /\ tries'[p] >= 1
        BY <2>2, <2>4, IdemAssumption DEF Refusals
    <2> QED  BY <2>1, <2>3, <2>4, <2>5, IdemLocal DEF Working, Claimed
<1>2. ASSUME NEW p \in Callers, Look(p)
      PROVE  IdemInductive'
    <2> DEFINE free == owners[call[p].scope] = Nothing
    <2>1. /\ step[p] = "look" /\ step' = [step EXCEPT ![p] = IF free THEN "claim" ELSE "check"]
          /\ view' = [view EXCEPT ![p] = Tables] /\ answer' = answer
          /\ UNCHANGED <<level, mail, owners, operation, born, pruned, call, tries,
                         mishaps>>
        BY <1>2 DEF Look, tables, asking
    <2>2. Tables \in Views /\ Tables.owners = owners
        BY <1>0 DEF Tables, Views, IdemTypeOK
    <2>3. answer[p] = Nothing /\ tries[p] >= 1
        BY <1>0, <2>1 DEF IdemTypeOK, ReadsHold
    <2>4. /\ step'[p] = IF free THEN "claim" ELSE "check"
          /\ view'[p] = Tables
          /\ \A q \in Callers \ {p} : step'[q] = step[q] /\ answer'[q] = answer[q]
                                        /\ view'[q] = view[q] /\ tries'[q] = tries[q]
        BY <1>t, <2>1
    <2>5. IdemTypeOK'
        BY <1>0, <1>t, <2>1, <2>2, <2>3, <2>4 DEF IdemTypeOK, Steps
    <2>6. answer'[p] \notin JobIds /\ answer'[p] # "error" /\ tries'[p] >= 1
        BY <2>1, <2>3, IdemAssumption DEF Refusals
    <2>7. \A s \in Scopes : view'[p].owners[s] = owners[s]
        BY <2>2, <2>4
    <2> HIDE DEF free
    <2>8. step'[p] \in {"claim", "check"} /\ (step'[p] = "check" => ~free)
        BY <2>4
    <2> QED  BY <1>t, <2>1, <2>4, <2>5, <2>6, <2>7, <2>8, IdemLocal
             DEF Working, Claimed, free
<1>w. ASSUME NEW p \in Callers, step[p] \in Working
      PROVE  /\ answer[p] \notin JobIds /\ answer[p] # "error" /\ tries[p] >= 1
             /\ \A s \in Scopes : view[p].owners[s] \in {Nothing, owners[s]}
    BY <1>0, <1>r, <1>w, IdemAssumption DEF ReadsHold, Refusals, Working, Claimed
<1>3. ASSUME NEW p \in Callers, Claim(p)
      PROVE  IdemInductive'
    <2> DEFINE where == IF owners[call[p].scope] = Nothing THEN "count" ELSE "lost"
    <2>1. /\ Goes(p, where) /\ step[p] = "claim" /\ UNCHANGED <<tables, asking>>
          /\ \A q \in Callers \ {p} : ~HoldsScope(q, call[p].scope)
          /\ where \in Steps \ {"done"}
        BY <1>3 DEF Claim, Steps
    <2>2. step[p] \in Working /\ step[p] # "done"
        BY <2>1 DEF Working
    <2> HIDE DEF where
    <2>3. /\ step'[p] = where /\ view' = view /\ answer' = answer
          /\ UNCHANGED <<level, mail, owners, operation, born, call, tries>>
          /\ \A q \in Callers \ {p} : step'[q] = step[q]
          /\ IdemTypeOK'
        BY <1>g, <2>1, <2>2
    <2>4. where \in {"count", "lost"}
            /\ (where = "count" => owners[call[p].scope] = Nothing)
            /\ (where = "lost" => owners[call[p].scope] # Nothing)
        BY DEF where
    <2> QED  BY <1>w, <2>1, <2>2, <2>3, <2>4, IdemLocal DEF Claimed
<1>4. ASSUME NEW p \in Callers, Lost(p)
      PROVE  IdemInductive'
    <2>1. step[p] = "lost" /\ UNCHANGED <<tables, asking>> /\ step[p] \in Working
            /\ step[p] \notin {"done", "idle"}
        BY <1>4 DEF Lost, Working
    <2>2. owners[call[p].scope] # Nothing
        BY <1>0, <2>1 DEF ReadsHold
    <2>3. CASE Sees(p).owners[call[p].scope] = Nothing
        <3>1. Ends(p, "error")
            BY <1>4, <2>3 DEF Lost
        <3>2. level = "snapshot" /\ Beaten(p)
            BY <2>2, <2>3 DEF Sees, Tables, Beaten
        <3> QED  BY <1>e, <2>1, <3>1, <3>2, IdemAssumption DEF Refusals
    <2>4. CASE Sees(p).owners[call[p].scope] # Nothing
        <3>1. Goes(p, "check") /\ "check" \in Steps \ {"done"}
            BY <1>4, <2>4 DEF Lost, Steps
        <3>2. /\ step'[p] = "check" /\ view' = view /\ answer' = answer
              /\ UNCHANGED <<level, mail, owners, operation, born, call, tries>>
              /\ \A q \in Callers \ {p} : step'[q] = step[q]
              /\ IdemTypeOK'
            BY <1>g, <2>1, <3>1
        <3>3. level = "snapshot" => view[p].owners[call[p].scope] # Nothing
            BY <2>4 DEF Sees
        <3> QED  BY <1>w, <2>1, <2>2, <3>2, <3>3, IdemLocal DEF Claimed
    <2> QED  BY <2>3, <2>4
<1>5. ASSUME NEW p \in Callers, Check(p)
      PROVE  IdemInductive'
    <2> DEFINE row == Sees(p).owners[call[p].scope]
    <2>1. step[p] = "check" /\ UNCHANGED <<tables, asking>> /\ step[p] \in Working
            /\ step[p] # "idle"
        BY <1>5 DEF Check, Working
    <2>2. row = owners[call[p].scope] /\ row # Nothing /\ row \in Owners
        <3>1. owners[call[p].scope] # Nothing
            BY <1>0, <2>1 DEF ReadsHold
        <3>2. CASE level = "snapshot"
            BY <1>0, <1>t, <1>w, <2>1, <3>1, <3>2 DEF ReadsHold, Sees
        <3>3. CASE level # "snapshot"
            BY <1>t, <3>1, <3>3 DEF Sees, Tables
        <3> QED  BY <3>2, <3>3
    <2>3. row.job \in JobIds /\ row = [job |-> row.job, digest |-> row.digest]
        BY <2>2 DEF Owners
    <2>4. \/ Ends(p, "conflict")
          \/ mail /\ Sees(p).operation = Nothing /\ Ends(p, "error")
          \/ row.digest = call[p].digest /\ Ends(p, row.job)
        BY <1>5 DEF Check
    <2>5. CASE Ends(p, "conflict")
        BY <1>e, <2>1, <2>5, IdemAssumption DEF Refusals
    <2>6. CASE mail /\ Sees(p).operation = Nothing /\ Ends(p, "error")
        <3>1. born # {}
            BY <1>0, <1>t, <2>2, <2>3 DEF RowsMatch
        <3>2. operation # Nothing
            BY <1>0, <2>6, <3>1 DEF OneJobPerOperation
        <3>3. level = "snapshot" /\ Beaten(p)
            BY <2>6, <3>2 DEF Sees, Tables, Beaten
        <3> QED  BY <1>e, <2>1, <2>6, <3>3, IdemAssumption DEF Refusals
    <2>7. CASE row.digest = call[p].digest /\ Ends(p, row.job)
        <3>1. row.job # "error"
            BY <2>3, IdemAssumption DEF Refusals
        <3>2. owners[call[p].scope] = [job |-> row.job, digest |-> call[p].digest]
            BY <2>2, <2>3, <2>7
        <3> HIDE DEF row
        <3> QED  BY <1>e, <2>1, <2>3, <2>7, <3>1, <3>2
    <2> QED  BY <2>4, <2>5, <2>6, <2>7
<1>6. ASSUME NEW p \in Callers, LockCount(p)
      PROVE  IdemInductive'
    <2>1. /\ step[p] = "count" /\ UNCHANGED <<tables, asking>> /\ Goes(p, "mail")
          /\ \A q \in Callers \ {p} : ~HoldsCount(q)
          /\ step[p] \in Working /\ step[p] \in Claimed /\ step[p] # "done"
          /\ "mail" \in Steps \ {"done"}
        BY <1>6 DEF LockCount, Working, Claimed, Steps
    <2>2. /\ step'[p] = "mail" /\ view' = view /\ answer' = answer
          /\ UNCHANGED <<level, mail, owners, operation, born, call, tries>>
          /\ \A q \in Callers \ {p} : step'[q] = step[q]
          /\ IdemTypeOK'
        BY <1>g, <2>1
    <2>3. owners[call[p].scope] = Nothing
            /\ \A q \in Callers \ {p} : ~HoldsScope(q, call[p].scope)
        BY <1>0, <2>1 DEF ReadsHold, Exclusive, HoldsScope, Claimed
    <2> QED  BY <1>w, <2>1, <2>2, <2>3, IdemLocal
<1>7. ASSUME NEW p \in Callers, PersistMail(p)
      PROVE  IdemInductive'
    <2>1. /\ step[p] = "mail" /\ UNCHANGED <<tables, asking>>
          /\ step[p] \in Working /\ step[p] \in Claimed
          /\ step[p] \notin {"idle", "done"} /\ HoldsCount(p)
          /\ "commit" \in Steps \ {"done"}
        BY <1>7 DEF PersistMail, Working, Claimed, Steps, HoldsCount
    <2>2. CASE ~mail \/ operation = Nothing
        <3>1. Goes(p, "commit")
            BY <1>7, <2>2 DEF PersistMail
        <3>2. /\ step'[p] = "commit" /\ view' = view /\ answer' = answer
              /\ UNCHANGED <<level, mail, owners, operation, born, call, tries>>
              /\ \A q \in Callers \ {p} : step'[q] = step[q]
              /\ IdemTypeOK'
            BY <1>g, <2>1, <3>1
        <3>3. /\ owners[call[p].scope] = Nothing
              /\ \A q \in Callers \ {p} : ~HoldsScope(q, call[p].scope)
              /\ \A q \in Callers \ {p} : ~HoldsCount(q)
            BY <1>0, <2>1 DEF ReadsHold, Exclusive, HoldsScope, Claimed
        <3> QED  BY <1>w, <2>1, <2>2, <3>2, <3>3, IdemLocal
    <2>3. CASE mail /\ operation # Nothing
        <3>1. \/ Ends(p, "conflict")
              \/ Ends(p, "error") /\ Sees(p).operation = Nothing
            BY <1>7, <2>3 DEF PersistMail
        <3>2. Sees(p).operation = Nothing => level = "snapshot" /\ Beaten(p)
            BY <2>3 DEF Sees, Tables, Beaten
        <3> QED  BY <1>e, <2>1, <3>1, <3>2, IdemAssumption DEF Refusals
    <2> QED  BY <2>2, <2>3
<1>8. ASSUME NEW p \in Callers, Rollback(p)
      PROVE  IdemInductive'
    <2>1. /\ step' = [step EXCEPT ![p] = "unknown"] /\ answer' = answer
          /\ view' = [view EXCEPT ![p] = Nothing]
          /\ mishaps < MaxMishaps /\ mishaps' = mishaps + 1
          /\ UNCHANGED <<level, mail, owners, operation, born, pruned, call, tries>>
          /\ step[p] \notin {"idle", "done"}
        BY <1>8 DEF Rollback, tables
    <2>2. answer[p] = Nothing /\ tries[p] >= 1
        BY <1>0, <2>1 DEF IdemTypeOK, ReadsHold
    <2>3. mishaps' \in 0..MaxMishaps
        BY <1>0, <2>1, IdemAssumption DEF IdemTypeOK
    <2>4. IdemTypeOK'
        BY <1>0, <1>t, <2>1, <2>2, <2>3 DEF IdemTypeOK, Steps
    <2>5. step'[p] = "unknown"
            /\ \A q \in Callers \ {p} : step'[q] = step[q] /\ answer'[q] = answer[q]
                                          /\ view'[q] = view[q] /\ tries'[q] = tries[q]
        BY <1>t, <2>1
    <2>6. answer'[p] \notin JobIds /\ answer'[p] # "error"
        BY <2>1, <2>2, IdemAssumption DEF Refusals
    <2> QED  BY <2>1, <2>2, <2>4, <2>5, <2>6, IdemLocal DEF Working, Claimed
<1>9. ASSUME NEW p \in Callers, NEW heard \in BOOLEAN, Commit(p, heard)
      PROVE  IdemInductive'
    <2> DEFINE s0 == call[p].scope
               row == OwnerRow(p)
               told == IF heard THEN Prepared(p) ELSE Nothing
               where == IF heard THEN "done" ELSE "unknown"
    <2>1. /\ step[p] = "commit" /\ step' = [step EXCEPT ![p] = where]
          /\ answer' = [answer EXCEPT ![p] = told]
          /\ view' = [view EXCEPT ![p] = Nothing]
          /\ owners' = [owners EXCEPT ![s0] = row]
          /\ operation' = IF mail /\ operation = Nothing THEN row ELSE operation
          /\ born' = born \cup {<<Prepared(p), s0>>}
          /\ UNCHANGED <<level, mail, pruned, call, tries>>
        BY <1>9 DEF Commit
    <2>2. step[p] \in Working /\ step[p] \in Claimed /\ HoldsCount(p) /\ s0 \in Scopes
        BY <1>t, <2>1 DEF Working, Claimed, HoldsCount
    <2>3. Prepared(p) \in JobIds /\ row \in Owners /\ row # Nothing
            /\ row = [job |-> Prepared(p), digest |-> call[p].digest]
        BY <1>r, <2>2, IdemAssumption DEF OwnerRow
    <2>4. owners[s0] = Nothing /\ (mail => operation = Nothing)
        BY <1>0, <2>1, <2>2 DEF ReadsHold
    <2>5. mishaps' \in 0..MaxMishaps
        <3>1. mishaps \in 0..MaxMishaps
            BY <1>0 DEF IdemTypeOK
        <3>2. heard \/ mishaps < MaxMishaps
            BY <1>9 DEF Commit
        <3>3. mishaps' = IF heard THEN mishaps ELSE mishaps + 1
            BY <1>9 DEF Commit
        <3> QED  BY <3>1, <3>2, <3>3, IdemAssumption
    <2>6. told \in JobIds \cup {Nothing} /\ where \in Steps
            /\ (where = "done" <=> told # Nothing)
        BY <2>3, IdemAssumption DEF Steps
    <2> HIDE DEF told, where, row, s0
    <2>7. IdemTypeOK'
        <3>1. /\ owners' \in [Scopes -> Owners \cup {Nothing}]
              /\ operation' \in Owners \cup {Nothing}
              /\ born' \subseteq JobIds \X Scopes
            BY <1>0, <2>1, <2>2, <2>3 DEF IdemTypeOK
        <3>2. /\ step' \in [Callers -> Steps]
              /\ view' \in [Callers -> Views \cup {Nothing}]
              /\ answer' \in [Callers -> JobIds \cup Refusals \cup {Nothing}]
            BY <1>t, <2>1, <2>6
        <3>3. \A q \in Callers : /\ step'[q] = "done" <=> answer'[q] # Nothing
                                 /\ step'[q] = "done" => view'[q] = Nothing
            BY <1>0, <1>t, <2>1, <2>6 DEF IdemTypeOK
        <3> QED  BY <1>0, <2>1, <2>5, <3>1, <3>2, <3>3 DEF IdemTypeOK
    <2>8. /\ owners'[s0] = row
          /\ \A s \in Scopes \ {s0} : owners'[s] = owners[s]
          /\ step'[p] \in {"done", "unknown"} /\ answer'[p] = told
          /\ \A q \in Callers \ {p} : step'[q] = step[q] /\ answer'[q] = answer[q]
                                        /\ view'[q] = view[q] /\ tries'[q] = tries[q]
        BY <1>t, <2>1, <2>2 DEF where
    <2>9. RowsMatch'
        <3> SUFFICES ASSUME NEW s \in Scopes, NEW j \in JobIds
                     PROVE  <<j, s>> \in born'
                               <=> owners'[s] # Nothing /\ owners'[s].job = j
            BY DEF RowsMatch
        <3>1. CASE s = s0
            BY <1>0, <2>1, <2>2, <2>3, <2>4, <2>8, <3>1 DEF RowsMatch
        <3>2. CASE s # s0
            BY <1>0, <2>1, <2>8, <3>2 DEF RowsMatch
        <3> QED  BY <3>1, <3>2
    <2>10. Exclusive'
        BY <1>0, <2>1, <2>8 DEF Exclusive, HoldsCount, Claimed
    <2>11. ReadsHold'
        <3> SUFFICES ASSUME NEW q \in Callers
                     PROVE  /\ step'[q] # "idle" => tries'[q] >= 1
                            /\ step'[q] \in Claimed => owners'[call'[q].scope] = Nothing
                            /\ step'[q] \in {"lost", "check"}
                                  => owners'[call'[q].scope] # Nothing
                            /\ step'[q] \in Working =>
                                  \A s \in Scopes :
                                     view'[q].owners[s] \in {Nothing, owners'[s]}
                            /\ step'[q] = "check" /\ level' = "snapshot" =>
                                  view'[q].owners[call'[q].scope] # Nothing
                            /\ step'[q] = "commit" /\ mail' => operation' = Nothing
            BY DEF ReadsHold
        <3>1. CASE q = p
            BY <1>0, <2>1, <2>8, <3>1 DEF ReadsHold, Claimed, Working
        <3>2. CASE q # p
            <4>1. step[q] \in Claimed => call[q].scope # s0
                BY <1>0, <2>2, <3>2 DEF Exclusive, s0
            <4>2. step[q] # "commit"
                BY <1>0, <2>2, <3>2 DEF Exclusive, HoldsCount
            <4>3. step[q] \in Working =>
                     \A s \in Scopes : view[q].owners[s] \in {Nothing, owners'[s]}
                BY <1>0, <2>4, <2>8 DEF ReadsHold
            <4>4. call'[q] = call[q] /\ call[q].scope \in Scopes /\ level' = level
                BY <1>t, <2>1
            <4> QED  BY <1>0, <2>3, <2>8, <3>2, <4>1, <4>2, <4>3, <4>4 DEF ReadsHold
        <3> QED  BY <3>1, <3>2
    <2>12. AnswerIsTheJob'
        <3> SUFFICES ASSUME NEW q \in Callers, answer'[q] \in JobIds
                     PROVE  /\ <<answer'[q], call'[q].scope>> \in born'
                            /\ owners'[call'[q].scope] =
                                  [job |-> answer'[q], digest |-> call'[q].digest]
            BY DEF AnswerIsTheJob
        <3>1. CASE q = p
            <4>1. told = Prepared(p)
                BY <2>8, <3>1, IdemAssumption DEF told
            <4> QED  BY <2>1, <2>3, <2>8, <3>1, <4>1 DEF s0
        <3>2. CASE q # p
            <4>1. /\ <<answer[q], call[q].scope>> \in born
                  /\ owners[call[q].scope] =
                        [job |-> answer[q], digest |-> call[q].digest]
                BY <1>0, <2>8, <3>2 DEF AnswerIsTheJob
            <4>2. [job |-> answer[q], digest |-> call[q].digest] \in Owners
                BY <1>t, <2>8, <3>2 DEF Owners
            <4>3. call[q].scope # s0 /\ call[q].scope \in Scopes
                BY <1>t, <2>4, <4>1, <4>2, IdemAssumption
            <4> QED  BY <2>1, <2>8, <3>2, <4>1, <4>3
        <3> QED  BY <3>1, <3>2
    <2>13. OneJobPerOperation'
        <3> SUFFICES ASSUME mail
                     PROVE  /\ Cardinality(born') <= 1
                            /\ operation' = Nothing <=> born' = {}
            BY <2>1 DEF OneJobPerOperation
        <3>1. born' = {<<Prepared(p), s0>>}
            BY <1>0, <2>1, <2>4 DEF OneJobPerOperation
        <3>2. operation' # Nothing
            BY <2>1, <2>3, <2>4
        <3>3. Cardinality(born') = 1
            BY <3>1, FS_Singleton
        <3>4. born' # {}
            BY <3>1
        <3> QED  BY <3>2, <3>3, <3>4
    <2>14. LoserConverges'
        <3>1. told # "error"
            BY <2>3, IdemAssumption DEF told, Refusals
        <3>2. \A q \in Callers : answer'[q] = "error" => q # p /\ answer[q] = "error"
            BY <2>8, <3>1
        <3>3. level' = level /\ call' = call /\ mail' = mail
            BY <2>1
        <3>4. \A q \in Callers : Beaten(q) => Beaten(q)'
            <4>1. \A s \in Scopes : owners[s] # Nothing => owners'[s] # Nothing
                BY <2>3, <2>8
            <4>2. operation # Nothing => operation' # Nothing
                BY <2>1, <2>3
            <4> QED  BY <1>t, <3>3, <4>1, <4>2 DEF Beaten
        <3> QED  BY <1>0, <3>2, <3>3, <3>4 DEF LoserConverges
    <2> QED  BY <2>7, <2>9, <2>10, <2>11, <2>12, <2>13, <2>14 DEF IdemInductive
<1>10. ASSUME NEW j \in JobIds, Prune(j)
       PROVE  IdemInductive'
    <2>1. pruned' \subseteq JobIds
        BY <1>0, <1>10 DEF Prune, IdemTypeOK
    <2>2. UNCHANGED <<level, mail, owners, operation, born, call, step, view,
                      tries, answer, mishaps>>
        BY <1>10 DEF Prune
    <2> QED  BY <2>1, <2>2
             DEF IdemInductive, IdemTypeOK, RowsMatch, Exclusive, HoldsCount, ReadsHold,
                 AnswerIsTheJob, OneJobPerOperation, LoserConverges, Beaten
<1>11. ASSUME UNCHANGED idemVars
       PROVE  IdemInductive'
    BY <1>11
    DEF idemVars, IdemInductive, IdemTypeOK, RowsMatch, Exclusive, HoldsCount,
        ReadsHold, AnswerIsTheJob, OneJobPerOperation, LoserConverges, Beaten
<1> QED
    BY <1>1, <1>2, <1>3, <1>4, <1>5, <1>6, <1>7, <1>8, <1>9, <1>10, <1>11
    DEF IdemNext

\* An idempotency key makes one job, ever, and gives every caller that one job
\* or a conflict (_enqueueIdempotently, _claimIdempotencyOwnership,
\* _validateIdempotencyOwnership, _persistMailDeliveryOperation): for any
\* number of callers, scopes, repeated calls, lost answers and rolled back
\* transactions.  A loser that reads from an older snapshot may end with the bare
\* error, and then what it lost to is committed.
THEOREM EnqueuedOnce == IdemSpec => []IdemInv
<1>1. IdemInductive /\ [IdemNext]_idemVars => IdemInductive'
    BY IdemStep
<1> QED  BY IdemStarts, IdemImplies, <1>1, PTL DEF IdemSpec

-----------------------------------------------------------------------------
(* Sending.                                                                *)

MailSpec == MailInit /\ [][MailNext]_mailVars

\* DuplicateOnlyIfLate is not inductive by itself: it needs to be known that
\* the provider remembers a mail it has sent at least until the window ends
\* that began with the first attempt, and that an attempt which may send asked
\* before that end.
MailInductive ==
    /\ MailTypeOK
    /\ first <= clock /\ \A a \in Attempts : read[a] <= clock
    /\ \A a \in Attempts : phase[a] = "sending" => first # Never /\ read[a] < first + Window
    /\ delivered > 0 => first # Never /\ until >= first + Window
    /\ DuplicateOnlyIfLate

\* Nothing has been tried.
LEMMA MailStarts == MailInit => MailInductive
<1> SUFFICES ASSUME MailInit PROVE MailInductive
    OBVIOUS
<1>1. phase \in [Attempts -> {"queued", "locking", "sending", "sent", "expired"}]
        /\ \A a \in Attempts : phase[a] # "sending"
    BY DEF MailInit
<1>2. read \in [Attempts -> 0..MaxClock] /\ clock \in 0..MaxClock
        /\ \A a \in Attempts : read[a] <= clock
    BY MailAssumption DEF MailInit
<1>3. /\ first \in 0..MaxClock \cup {Never} /\ first <= clock
      /\ until \in Nat \cup {Never} /\ delivered \in Nat /\ ~(delivered > 0)
      /\ ~(delivered > 1)
    BY DEF MailInit, Never
<1>4. late \in BOOLEAN
    BY DEF MailInit
<1> QED  BY <1>1, <1>2, <1>3, <1>4 DEF MailInductive, MailTypeOK, DuplicateOnlyIfLate

\* Every step of every attempt keeps the account of the window.
LEMMA MailStep ==
    ASSUME MailInductive, [MailNext]_mailVars
    PROVE  MailInductive'
<1> USE MailAssumption DEF MailInductive, MailTypeOK, DuplicateOnlyIfLate, Never
<1>1. ASSUME NEW a \in Attempts, Begin(a)
      PROVE  MailInductive'
    BY <1>1 DEF Begin
<1>2. ASSUME NEW a \in Attempts, BeginAttempt(a)
      PROVE  MailInductive'
    <2>1. /\ first' = Started(a) /\ first' \in 0..MaxClock /\ first' <= clock
          /\ first # Never => first' = first
        BY <1>2 DEF BeginAttempt, Started
    <2>2. /\ phase' \in [Attempts -> {"queued", "locking", "sending", "sent", "expired"}]
          /\ phase'[a] = "sending" => read[a] < first' + Window
          /\ \A b \in Attempts \ {a} : phase'[b] = phase[b]
        BY <1>2, <2>1 DEF BeginAttempt, Admitted
    <2>3. UNCHANGED <<read, until, delivered, late, clock>>
        BY <1>2 DEF BeginAttempt
    <2> QED  BY <2>1, <2>2, <2>3
<1>3. ASSUME NEW a \in Attempts, Deliver(a)
      PROVE  MailInductive'
    <2>1. /\ first # Never /\ first \in Nat /\ first <= clock
          /\ UNCHANGED <<first, read, clock>>
          /\ read[a] < first + Window
          /\ late' = (late \/ (read[a] < first + Window /\ clock >= first + Window))
          /\ phase' = [phase EXCEPT ![a] = "sent"]
        BY <1>3 DEF Deliver
    <2>2. CASE clock < until
        <3>1. until' = until /\ delivered' = delivered
            BY <1>3, <2>2 DEF Deliver
        <3> QED  BY <2>1, <3>1
    <2>3. CASE ~(clock < until)
        <3>1. until' = clock + Window /\ delivered' = delivered + 1
            BY <1>3, <2>3 DEF Deliver
        <3>2. until' \in Nat /\ until' >= first' + Window /\ delivered' \in Nat
            BY <2>1, <3>1
        <3>3. delivered' > 1 => clock >= first + Window
            BY <2>1, <2>3, <3>1
        <3>4. late' \in BOOLEAN /\ (delivered' > 1 => late')
            BY <2>1, <3>3
        <3>5. /\ phase' \in [Attempts -> {"queued", "locking", "sending", "sent", "expired"}]
              /\ \A b \in Attempts : phase'[b] = "sending" => first' # Never /\ read'[b] < first' + Window
            BY <2>1
        <3> QED  BY <2>1, <3>2, <3>4, <3>5
    <2> QED  BY <2>2, <2>3
<1>4. ASSUME NEW a \in Attempts, Fail(a)
      PROVE  MailInductive'
    BY <1>4 DEF Fail
<1>5. ASSUME Pass
      PROVE  MailInductive'
    BY <1>5 DEF Pass
<1>6. ASSUME UNCHANGED mailVars
      PROVE  MailInductive'
    BY <1>6 DEF mailVars
<1> QED  BY <1>1, <1>2, <1>3, <1>4, <1>5, <1>6 DEF MailNext

\* A required mail goes out twice only if an attempt that asked within the window
\* stalled past its end (deliverPayload); one that asks later is turned away
\* (beginAttempt).  Retries, lost workers and overlapping leases alone never
\* outlive the suppression, for any number of attempts and any
\* providerRetentionMs.
THEOREM MailSentOnce == MailSpec => []MailInv
<1>1. MailInductive /\ [MailNext]_mailVars => MailInductive'
    BY MailStep
<1>2. MailInductive => MailInv
    BY DEF MailInductive, MailInv
<1> QED  BY MailStarts, <1>1, <1>2, PTL DEF MailSpec

-----------------------------------------------------------------------------
(* The order of the row locks.                                             *)

\* The rows that are locked under the revision row, and those locked before it.
DataRows == LockJobs \cup LockKeys
LockRows == DataRows \cup {"revision", "scope", "schedule"}

LockTypes ==
    /\ keyOf \in [LockJobs -> LockKeys]
    /\ todo \in [Sessions -> Seq(LockRows)] /\ locked \in [Sessions -> SUBSET LockRows]
    /\ DOMAIN mutation = Sessions

RowsExclusive == \A t, u \in Sessions : t # u => locked[t] \cap locked[u] = {}

\* What comes before the revision row: a scope of an enqueue under a key, or the
\* advisory lock of a schedule key.
BeforeRevision(m) == {"schedule"} \cup IF m = "idempotent" THEN {"scope"} ELSE {}
\* ... and after it.
AfterRevision(m) == DataRows \cup IF m = "clear" THEN {"scope"} ELSE {}

\* A mutation of one row at most goes from a counter to the job that counts
\* under it, if it locks two rows at all.
OneRow(m) == m \notin OfManyRows
CounterThenJob(held, rows) ==
    /\ \A i \in DOMAIN rows : \A x \in held \cap DataRows :
          x \in LockKeys /\ rows[i] \in LockJobs /\ keyOf[rows[i]] = x
    /\ \A i, k \in DOMAIN rows : i < k /\ rows[i] \in DataRows =>
          rows[i] \in LockKeys /\ rows[k] \in LockJobs /\ keyOf[rows[k]] = rows[i]

\* Where a mutation is in its plan.
MutationAt(m, held, rows) ==
    /\ IF "revision" \in held
       THEN \A i \in DOMAIN rows : rows[i] \in AfterRevision(m)
       ELSE \E n \in {1, 2} :
              /\ n <= Len(rows) /\ rows[n] = "revision"
              /\ \A i \in DOMAIN rows : i > n => rows[i] \in AfterRevision(m)
              /\ held \subseteq BeforeRevision(m)
              /\ n = 2 => held = {} /\ rows[1] \in BeforeRevision(m)
    /\ "scope" \in held => m \in {"idempotent", "clear"}
    /\ OneRow(m) => CounterThenJob(held, rows)

PlanOk(m, plan) ==
    plan \in Seq(LockRows) /\ MutationAt(m, {}, plan) /\ m \notin OutsideRevision \cup {"none"}

MutatorsPlanned ==
    \A t \in Mutators :
        IF mutation[t] = "none" THEN todo[t] = <<>> /\ locked[t] = {}
        ELSE /\ mutation[t] \notin OutsideRevision
             /\ MutationAt(mutation[t], locked[t], todo[t])

\* The reconciliation locks data rows only, each once; while it adopts only
\* jobs, and while it rebuilds a job after its counter.
Reconciles(m, held, rows) ==
    /\ held \subseteq DataRows /\ \A i \in DOMAIN rows : rows[i] \in DataRows
    /\ \A i \in DOMAIN rows : rows[i] \notin held
    /\ \A i, k \in DOMAIN rows : rows[i] = rows[k] => i = k
    /\ m = "adopt" => \A i \in DOMAIN rows : rows[i] \in LockJobs
    /\ m = "rebuild" =>
          /\ \A j \in held \cap LockJobs : keyOf[j] \in held
          /\ \A i \in DOMAIN rows : rows[i] \in LockJobs =>
                keyOf[rows[i]] \in held \/ \E n \in 1..(i - 1) : rows[n] = keyOf[rows[i]]

StarterPlanned ==
    IF mutation[Starter] = "none" THEN todo[Starter] = <<>> /\ locked[Starter] = {}
    ELSE /\ mutation[Starter] \in OutsideRevision
         /\ Reconciles(mutation[Starter], locked[Starter], todo[Starter])

LocksInductive == LockTypes /\ RowsExclusive /\ MutatorsPlanned /\ StarterPlanned

\* Jobs, counters, the other locks and the connections are told apart.
LEMMA StoredRowsDiffer ==
    /\ \A x \in DataRows : x \notin {"revision", "scope", "schedule"}
    /\ \A x \in LockJobs : x \notin LockKeys
    /\ Starter \notin Mutators
BY LockAssumption DEF DataRows

\* The next row of a plan is locked: what is left is the plan without it.
LEMMA RestOfPlan ==
    ASSUME NEW rows \in Seq(LockRows), rows # <<>>
    PROVE  /\ Head(rows) \in LockRows /\ Head(rows) = rows[1] /\ 1 \in DOMAIN rows
           /\ Tail(rows) \in Seq(LockRows) /\ Len(Tail(rows)) = Len(rows) - 1
           /\ DOMAIN Tail(rows) = 1..(Len(rows) - 1)
           /\ \A i \in DOMAIN Tail(rows) : i + 1 \in DOMAIN rows /\ Tail(rows)[i] = rows[i + 1]
OBVIOUS

\* A mutation that gets its next row is still in its plan.
LEMMA MutationGoesOn ==
    ASSUME LockTypes, NEW m, NEW held \in SUBSET LockRows, NEW rows \in Seq(LockRows), rows # <<>>,
           MutationAt(m, held, rows), m \notin OutsideRevision
    PROVE  MutationAt(m, held \cup {Head(rows)}, Tail(rows))
<1> DEFINE x == Head(rows)
           left == Tail(rows)
           now == held \cup {x}
<1>1. /\ x \in LockRows /\ x = rows[1] /\ 1 \in DOMAIN rows /\ left \in Seq(LockRows)
      /\ DOMAIN left = 1..Len(left) /\ Len(left) = Len(rows) - 1
      /\ DOMAIN rows = 1..Len(rows) /\ Len(rows) \in Nat
      /\ \A i \in DOMAIN left : i \in Nat /\ i + 1 \in DOMAIN rows /\ left[i] = rows[i + 1]
  BY RestOfPlan
<1> HIDE DEF x, left
<1>2. CASE "revision" \in held
  <2>1. "revision" \in now /\ \A i \in DOMAIN left : left[i] \in AfterRevision(m)
    BY <1>1, <1>2 DEF MutationAt
  <2>2. x \in AfterRevision(m)
    BY <1>1, <1>2 DEF MutationAt
  <2>3. "scope" \in now => m \in {"idempotent", "clear"}
    BY <2>2, StoredRowsDiffer DEF MutationAt, AfterRevision
  <2>4. OneRow(m) => CounterThenJob(now, left)
    <3> SUFFICES ASSUME OneRow(m) PROVE CounterThenJob(now, left)
      OBVIOUS
    <3>1. CounterThenJob(held, rows)
      BY DEF MutationAt
    <3>2. ASSUME NEW i \in DOMAIN left, NEW y \in now \cap DataRows
          PROVE  y \in LockKeys /\ left[i] \in LockJobs /\ keyOf[left[i]] = y
      <4>1. CASE y \in held
        BY <1>1, <3>1, <3>2, <4>1 DEF CounterThenJob
      <4>2. CASE y = x
        <5>1. 1 < i + 1 /\ i + 1 \in DOMAIN rows /\ rows[1] \in DataRows /\ left[i] = rows[i + 1]
          BY <1>1, <3>2, <4>2
        <5> QED  BY <1>1, <3>1, <4>2, <5>1 DEF CounterThenJob
      <4> QED  BY <3>2, <4>1, <4>2
    <3>3. ASSUME NEW i \in DOMAIN left, NEW k \in DOMAIN left, i < k, left[i] \in DataRows
          PROVE  left[i] \in LockKeys /\ left[k] \in LockJobs /\ keyOf[left[k]] = left[i]
      <4>1. i + 1 < k + 1 /\ i + 1 \in DOMAIN rows /\ k + 1 \in DOMAIN rows
        BY <1>1, <3>3
      <4> QED  BY <1>1, <3>1, <3>3, <4>1 DEF CounterThenJob
    <3> QED  BY <3>2, <3>3 DEF CounterThenJob
  <2> QED  BY <2>1, <2>3, <2>4 DEF MutationAt, x, left
<1>3. CASE "revision" \notin held
  <2>1. PICK n \in {1, 2} :
            /\ n <= Len(rows) /\ rows[n] = "revision"
            /\ \A i \in DOMAIN rows : i > n => rows[i] \in AfterRevision(m)
            /\ held \subseteq BeforeRevision(m)
            /\ n = 2 => held = {} /\ rows[1] \in BeforeRevision(m)
    BY <1>3 DEF MutationAt
  <2>2. now \subseteq BeforeRevision(m) \cup {"revision"} /\ now \cap DataRows = {}
    BY <1>1, <2>1, StoredRowsDiffer DEF BeforeRevision
  <2>3. "scope" \in now => m \in {"idempotent", "clear"}
    BY <2>2 DEF BeforeRevision
  <2>4. OneRow(m) => CounterThenJob(now, left)
    <3> SUFFICES ASSUME OneRow(m) PROVE CounterThenJob(now, left)
      OBVIOUS
    <3>1. CounterThenJob(held, rows)
      BY DEF MutationAt
    <3>2. ASSUME NEW i \in DOMAIN left, NEW k \in DOMAIN left, i < k, left[i] \in DataRows
          PROVE  left[i] \in LockKeys /\ left[k] \in LockJobs /\ keyOf[left[k]] = left[i]
      <4>1. i + 1 < k + 1 /\ i + 1 \in DOMAIN rows /\ k + 1 \in DOMAIN rows
        BY <1>1, <3>2
      <4> QED  BY <1>1, <3>1, <3>2, <4>1 DEF CounterThenJob
    <3> QED  BY <2>2, <3>2 DEF CounterThenJob
  <2>5. CASE n = 1
    <3>1. "revision" \in now /\ \A i \in DOMAIN left : left[i] \in AfterRevision(m)
      <4> SUFFICES ASSUME NEW i \in DOMAIN left PROVE left[i] \in AfterRevision(m)
        BY <1>1, <2>1, <2>5
      <4>1. i + 1 > 1 /\ i + 1 \in DOMAIN rows /\ left[i] = rows[i + 1]
        BY <1>1
      <4> QED  BY <2>1, <2>5, <4>1
    <3> QED  BY <2>3, <2>4, <3>1 DEF MutationAt, x, left
  <2>6. CASE n = 2
    <3>1. x \in BeforeRevision(m) /\ now = {x} /\ "revision" \notin now
      BY <1>1, <2>1, <2>6 DEF BeforeRevision
    <3>2. 1 <= Len(left) /\ left[1] = "revision"
      BY <1>1, <2>1, <2>6
    <3>3. \A i \in DOMAIN left : i > 1 => left[i] \in AfterRevision(m)
      <4> SUFFICES ASSUME NEW i \in DOMAIN left, i > 1 PROVE left[i] \in AfterRevision(m)
        OBVIOUS
      <4>1. i + 1 > 2 /\ i + 1 \in DOMAIN rows /\ left[i] = rows[i + 1]
        BY <1>1
      <4> QED  BY <2>1, <2>6, <4>1
    <3>4. \E a \in {1, 2} :
              /\ a <= Len(left) /\ left[a] = "revision"
              /\ \A i \in DOMAIN left : i > a => left[i] \in AfterRevision(m)
              /\ now \subseteq BeforeRevision(m)
              /\ a = 2 => now = {} /\ left[1] \in BeforeRevision(m)
      <4> WITNESS 1 \in {1, 2}
      <4> QED  BY <3>1, <3>2, <3>3
    <3> QED  BY <2>3, <2>4, <3>1, <3>4 DEF MutationAt, x, left
  <2> QED  BY <2>1, <2>5, <2>6
<1> QED  BY <1>2, <1>3

\* ... and so is the reconciliation.
LEMMA ReconciliationGoesOn ==
    ASSUME LockTypes, NEW m, NEW held \in SUBSET LockRows, NEW rows \in Seq(LockRows), rows # <<>>,
           Reconciles(m, held, rows)
    PROVE  Reconciles(m, held \cup {Head(rows)}, Tail(rows))
<1> DEFINE x == Head(rows)
           left == Tail(rows)
           now == held \cup {x}
<1>1. /\ x = rows[1] /\ 1 \in DOMAIN rows /\ left \in Seq(LockRows)
      /\ DOMAIN left = 1..Len(left) /\ Len(left) = Len(rows) - 1
      /\ DOMAIN rows = 1..Len(rows) /\ Len(rows) \in Nat
      /\ \A i \in DOMAIN left : i \in Nat /\ i + 1 \in DOMAIN rows /\ left[i] = rows[i + 1]
  BY RestOfPlan
<1> HIDE DEF x, left
<1>2. now \subseteq DataRows /\ \A i \in DOMAIN left : left[i] \in DataRows
  BY <1>1 DEF Reconciles
<1>3. \A i \in DOMAIN left : left[i] \notin now
  <2> SUFFICES ASSUME NEW i \in DOMAIN left PROVE left[i] \notin now
    OBVIOUS
  <2>1. i + 1 # 1 /\ i + 1 \in DOMAIN rows /\ left[i] = rows[i + 1]
    BY <1>1
  <2> QED  BY <1>1, <2>1 DEF Reconciles
<1>4. \A i, k \in DOMAIN left : left[i] = left[k] => i = k
  <2> SUFFICES ASSUME NEW i \in DOMAIN left, NEW k \in DOMAIN left, left[i] = left[k] PROVE i = k
    OBVIOUS
  <2>1. i + 1 = k + 1
    BY <1>1 DEF Reconciles
  <2> QED  BY <1>1, <2>1
<1>5. m = "adopt" => \A i \in DOMAIN left : left[i] \in LockJobs
  BY <1>1 DEF Reconciles
<1>6. ASSUME m = "rebuild"
      PROVE  /\ \A j \in now \cap LockJobs : keyOf[j] \in now
             /\ \A i \in DOMAIN left : left[i] \in LockJobs =>
                  keyOf[left[i]] \in now \/ \E n \in 1..(i - 1) : left[n] = keyOf[left[i]]
  <2>1. \A j \in held \cap LockJobs : keyOf[j] \in held
    BY <1>6 DEF Reconciles
  <2>2. \A i \in DOMAIN rows : rows[i] \in LockJobs =>
            keyOf[rows[i]] \in held \/ \E n \in 1..(i - 1) : rows[n] = keyOf[rows[i]]
    BY <1>6 DEF Reconciles
  <2>3. x \in LockJobs => keyOf[x] \in held
    BY <1>1, <2>2
  <2>4. ASSUME NEW i \in DOMAIN left, left[i] \in LockJobs, keyOf[left[i]] \notin now
        PROVE  \E n \in 1..(i - 1) : left[n] = keyOf[left[i]]
    <3>1. i + 1 \in DOMAIN rows /\ left[i] = rows[i + 1] /\ i \in Nat
      BY <1>1
    <3>2. PICK n \in 1..((i + 1) - 1) : rows[n] = keyOf[left[i]]
      BY <2>2, <2>4, <3>1
    <3>3. n # 1
      BY <1>1, <2>4, <3>2
    <3>4. n - 1 \in 1..(i - 1) /\ n - 1 \in DOMAIN left /\ (n - 1) + 1 = n
      BY <1>1, <3>1, <3>2, <3>3
    <3>5. left[n - 1] = rows[n]
      BY <1>1, <3>4
    <3> QED  BY <3>2, <3>4, <3>5
  <2> QED  BY <2>1, <2>3, <2>4
<1> QED  BY <1>2, <1>3, <1>4, <1>5, <1>6 DEF Reconciles, x, left

\* Rows in some order, each once.
LEMMA InSomeOrder ==
    ASSUME NEW S, IsFiniteSet(S), NEW o \in Orders(S)
    PROVE  /\ o \in Seq(S) /\ Len(o) \in Nat /\ DOMAIN o = 1..Len(o)
           /\ \A i \in DOMAIN o : o[i] \in S
           /\ \A i, k \in DOMAIN o : o[i] = o[k] => i = k
<1>1. Cardinality(S) \in Nat
  BY FS_CardinalityType
<1>2. o \in [1..Cardinality(S) -> S]
  BY DEF Orders
<1>3. o \in Seq(S) /\ Len(o) = Cardinality(S)
  BY <1>1, <1>2
<1>4. \A i, k \in 1..Cardinality(S) : i # k => o[i] # o[k]
  BY DEF Orders
<1> QED  BY <1>1, <1>2, <1>3, <1>4

\* A plan that begins with the revision row and goes on with others.
LEMMA AfterTheRevision ==
    ASSUME NEW m, ~OneRow(m), NEW rest \in Seq(LockRows),
           \A i \in DOMAIN rest : rest[i] \in AfterRevision(m)
    PROVE  <<"revision">> \o rest \in Seq(LockRows) /\ MutationAt(m, {}, <<"revision">> \o rest)
<1> DEFINE plan == <<"revision">> \o rest
<1>1. <<"revision">> \in Seq(LockRows) /\ Len(<<"revision">>) = 1 /\ <<"revision">>[1] = "revision"
  BY DEF LockRows
<1>2. plan \in Seq(LockRows) /\ Len(plan) = Len(rest) + 1 /\ plan[1] = "revision" /\ Len(rest) \in Nat
  BY <1>1
<1>3. \A i \in 2..(Len(rest) + 1) : i - 1 \in DOMAIN rest /\ plan[i] = rest[i - 1]
  BY <1>1
<1>4. DOMAIN plan = 1..(Len(rest) + 1)
  BY <1>2
<1> HIDE DEF plan
<1>5. ASSUME NEW i \in DOMAIN plan, i > 1 PROVE plan[i] \in AfterRevision(m)
  <2>1. i \in 2..(Len(rest) + 1)
    BY <1>2, <1>4, <1>5
  <2> QED  BY <1>3, <2>1
<1>6. \E n \in {1, 2} :
          /\ n <= Len(plan) /\ plan[n] = "revision"
          /\ \A i \in DOMAIN plan : i > n => plan[i] \in AfterRevision(m)
          /\ {} \subseteq BeforeRevision(m)
          /\ n = 2 => {} = {} /\ plan[1] \in BeforeRevision(m)
  <2> WITNESS 1 \in {1, 2}
  <2> QED  BY <1>2, <1>5
<1> QED  BY <1>2, <1>6 DEF MutationAt, plan

\* Short plans, row by row.
LEMMA ShortPlans ==
    ASSUME LockTypes
    PROVE  /\ \A k \in LockKeys, m \in {"enqueue"} : PlanOk(m, <<"revision", k>>)
           /\ \A k \in LockKeys, m \in {"idempotent"} : PlanOk(m, <<"scope", "revision", k>>)
           /\ \A j \in LockJobs, m \in {"handOff", "settle"} : PlanOk(m, <<"revision", keyOf[j], j>>)
           /\ \A j \in LockJobs, k \in LockKeys : PlanOk("replace", <<"schedule", "revision", j, k>>)
           /\ \A j \in LockJobs : PlanOk("cancel", <<"schedule", "revision", j>>)
           /\ \A j \in LockJobs : PlanOk("cancel", <<"revision", j>>)
<1> USE StoredRowsDiffer DEF PlanOk, MutationAt, LockRows, DataRows, AfterRevision,
        BeforeRevision, OneRow, OfManyRows, OutsideRevision, CounterThenJob
<1>1. ASSUME NEW k \in LockKeys PROVE PlanOk("enqueue", <<"revision", k>>)
  OBVIOUS
<1>2. ASSUME NEW k \in LockKeys PROVE PlanOk("idempotent", <<"scope", "revision", k>>)
  OBVIOUS
<1>3. ASSUME NEW j \in LockJobs, NEW m \in {"handOff", "settle"} PROVE PlanOk(m, <<"revision", keyOf[j], j>>)
  BY DEF LockTypes
<1>4. ASSUME NEW j \in LockJobs, NEW k \in LockKeys PROVE PlanOk("replace", <<"schedule", "revision", j, k>>)
  OBVIOUS
<1>5. ASSUME NEW j \in LockJobs PROVE PlanOk("cancel", <<"schedule", "revision", j>>)
  OBVIOUS
<1>6. ASSUME NEW j \in LockJobs PROVE PlanOk("cancel", <<"revision", j>>)
  OBVIOUS
<1> QED  BY <1>1, <1>2, <1>3, <1>4, <1>5, <1>6

\* The plans of mutations that write many rows.
LEMMA LongPlans ==
    ASSUME LockTypes
    PROVE  /\ \A plan \in SweepLocks : PlanOk("sweep", plan)
           /\ \A plan \in PruneLocks : PlanOk("prune", plan)
           /\ \A plan \in ClearLocks : PlanOk("clear", plan)
<1>1. \A m \in {"sweep", "prune", "clear"} :
          ~OneRow(m) /\ m \notin OutsideRevision \cup {"none"} /\ DataRows \subseteq AfterRevision(m)
  BY DEF OneRow, OfManyRows, OutsideRevision, AfterRevision
<1>2. DataRows \subseteq LockRows /\ LockJobs \subseteq DataRows /\ LockKeys \subseteq DataRows /\ "scope" \in LockRows
  BY DEF LockRows, DataRows
<1>3. ASSUME NEW o \in Orders(LockJobs) PROVE PlanOk("sweep", <<"revision">> \o EachAfterItsKey(o))
  <2>1. o \in Seq(LockJobs) /\ Len(o) \in Nat /\ DOMAIN o = 1..Len(o) /\ \A i \in DOMAIN o : o[i] \in LockJobs
    BY <1>3, InSomeOrder, LockAssumption
  <2> DEFINE rest == EachAfterItsKey(o)
  <2>2. ASSUME NEW i \in 1..(2 * Len(o)) PROVE rest[i] \in DataRows
    <3>1. CASE i % 2 = 1
      <4>1. (i + 1) \div 2 \in 1..Len(o)
        BY <2>1, <3>1
      <4> QED  BY <1>2, <2>1, <3>1, <4>1 DEF EachAfterItsKey, LockTypes
    <3>2. CASE i % 2 # 1
      <4>1. i \div 2 \in 1..Len(o)
        BY <2>1, <3>2
      <4> QED  BY <1>2, <2>1, <3>2, <4>1 DEF EachAfterItsKey
    <3> QED  BY <3>1, <3>2
  <2>3. 2 * Len(o) \in Nat /\ rest = [i \in 1..(2 * Len(o)) |-> rest[i]]
    BY <2>1 DEF EachAfterItsKey
  <2> HIDE DEF rest
  <2>4. rest \in Seq(LockRows) /\ \A i \in DOMAIN rest : rest[i] \in AfterRevision("sweep")
    <3>1. \A i \in 1..(2 * Len(o)) : rest[i] \in LockRows /\ rest[i] \in AfterRevision("sweep")
      BY <1>1, <1>2, <2>2
    <3>2. rest \in [1..(2 * Len(o)) -> LockRows]
      BY <2>3, <3>1
    <3> QED  BY <2>3, <3>1, <3>2
  <2> QED  BY <1>1, <2>4, AfterTheRevision DEF PlanOk, rest
<1>4. ASSUME NEW o \in Orders(LockJobs) PROVE PlanOk("prune", <<"revision">> \o o)
  <2>1. o \in Seq(LockRows) /\ \A i \in DOMAIN o : o[i] \in AfterRevision("prune")
    BY <1>1, <1>2, InSomeOrder, LockAssumption
  <2> QED  BY <1>1, <2>1, AfterTheRevision DEF PlanOk
<1>5. ASSUME NEW o \in Orders(LockJobs), NEW p \in Orders(LockKeys)
      PROVE  PlanOk("clear", <<"revision", "scope">> \o o \o p)
  <2>1. o \in Seq(LockRows) /\ p \in Seq(LockRows) /\ \A i \in DOMAIN o : o[i] \in DataRows
    BY <1>2, InSomeOrder, LockAssumption
  <2>2. \A i \in DOMAIN p : p[i] \in DataRows
    BY <1>2, InSomeOrder, LockAssumption
  <2> DEFINE rest == <<"scope">> \o o \o p
  <2>3. <<"scope">> \in Seq(LockRows) /\ rest \in Seq(LockRows)
    BY <1>2, <2>1
  <2>4. ASSUME NEW i \in DOMAIN rest PROVE rest[i] \in AfterRevision("clear")
    <3>1. /\ Len(o) \in Nat /\ Len(p) \in Nat /\ i \in 1..(1 + Len(o) + Len(p))
          /\ DOMAIN o = 1..Len(o) /\ DOMAIN p = 1..Len(p)
      BY <2>1, <2>3, <2>4
    <3>2. CASE i = 1
      <4>1. rest[i] = "scope"
        BY <2>1, <3>1, <3>2
      <4> QED  BY <4>1 DEF AfterRevision
    <3>3. CASE i \in 2..(1 + Len(o))
      <4>1. rest[i] = o[i - 1] /\ i - 1 \in DOMAIN o
        BY <2>1, <3>1, <3>3
      <4> QED  BY <1>1, <2>1, <4>1
    <3>4. CASE i \in (2 + Len(o))..(1 + Len(o) + Len(p))
      <4>1. rest[i] = p[i - 1 - Len(o)] /\ i - 1 - Len(o) \in DOMAIN p
        BY <2>1, <3>1, <3>4
      <4> QED  BY <1>1, <2>2, <4>1
    <3> QED  BY <3>1, <3>2, <3>3, <3>4
  <2>5. <<"revision", "scope">> \o o \o p = <<"revision">> \o rest
    <3>1. <<"revision">> \in Seq(LockRows)
      BY DEF LockRows
    <3> DEFINE a == <<"revision", "scope">> \o o \o p
               b == <<"revision">> \o rest
    <3>2. a \in Seq(LockRows) /\ b \in Seq(LockRows) /\ Len(a) = Len(b)
      BY <1>2, <2>1, <2>3, <3>1 DEF LockRows
    <3>3. ASSUME NEW i \in 1..Len(a) PROVE a[i] = b[i]
      BY <2>1, <2>3, <3>2, <3>3
    <3> QED  BY <3>2, <3>3
  <2> HIDE DEF rest
  <2>6. ~OneRow("clear") /\ "clear" \notin OutsideRevision \cup {"none"}
    BY <1>1
  <2>7. <<"revision">> \o rest \in Seq(LockRows) /\ MutationAt("clear", {}, <<"revision">> \o rest)
    BY <2>3, <2>4, <2>6, AfterTheRevision
  <2>8. PlanOk("clear", <<"revision">> \o rest)
    BY <2>6, <2>7 DEF PlanOk
  <2> QED  BY <2>5, <2>8
<1>6. \A plan \in SweepLocks : PlanOk("sweep", plan)
  BY <1>3, Zenon DEF SweepLocks
<1>7. \A plan \in PruneLocks : PlanOk("prune", plan)
  BY <1>4, Zenon DEF PruneLocks
<1>8. ASSUME NEW plan \in ClearLocks PROVE PlanOk("clear", plan)
  <2>1. PICK o \in Orders(LockJobs), p \in Orders(LockKeys) : plan = <<"revision", "scope">> \o o \o p
    BY <1>8 DEF ClearLocks
  <2> QED  BY <1>5, <2>1
<1> QED  BY <1>6, <1>7, <1>8

\* The plans of the reconciliation.
LEMMA ReconciliationPlans ==
    ASSUME LockTypes
    PROVE  /\ \A plan \in AdoptLocks : plan \in Seq(LockRows) /\ Reconciles("adopt", {}, plan)
           /\ \A plan \in RebuildLocks : plan \in Seq(LockRows) /\ Reconciles("rebuild", {}, plan)
<1>1. DataRows \subseteq LockRows /\ DataRows = LockKeys \cup LockJobs /\ IsFiniteSet(LockJobs)
  BY LockAssumption DEF LockRows, DataRows
<1>2. IsFiniteSet(LockKeys \cup LockJobs)
  BY FS_Union, LockAssumption
<1>3. ASSUME NEW o \in AdoptLocks PROVE o \in Seq(LockRows) /\ Reconciles("adopt", {}, o)
  <2>1. /\ o \in Seq(LockJobs) /\ \A i \in DOMAIN o : o[i] \in LockJobs
        /\ \A i, k \in DOMAIN o : o[i] = o[k] => i = k
    BY <1>1, <1>3, InSomeOrder DEF AdoptLocks
  <2> QED  BY <1>1, <2>1 DEF Reconciles
<1>4. ASSUME NEW o \in RebuildLocks PROVE o \in Seq(LockRows) /\ Reconciles("rebuild", {}, o)
  <2>1. o \in Orders(LockKeys \cup LockJobs)
    BY <1>4 DEF RebuildLocks
  <2>2. /\ o \in Seq(LockKeys \cup LockJobs) /\ \A i \in DOMAIN o : o[i] \in DataRows
        /\ \A i, k \in DOMAIN o : o[i] = o[k] => i = k
    BY <1>1, <1>2, <2>1, InSomeOrder
  <2>3. \A i \in DOMAIN o : o[i] \in LockJobs => \E n \in 1..(i - 1) : o[n] = keyOf[o[i]]
    BY <1>4 DEF RebuildLocks
  <2> QED  BY <1>1, <2>2, <2>3 DEF Reconciles
<1> QED  BY <1>3, <1>4

\* A step of one connection, to a place in the plan of its mutation and with no
\* row of another's, keeps the invariant.
LEMMA StepOfOne ==
    ASSUME LocksInductive, LockTypes', keyOf' = keyOf, NEW t \in Sessions,
           \A u \in Sessions \ {t} :
               /\ mutation'[u] = mutation[u] /\ todo'[u] = todo[u] /\ locked'[u] = locked[u]
               /\ locked'[t] \cap locked[u] = {},
           NEW m, NEW held, NEW rows, m = mutation'[t], held = locked'[t], rows = todo'[t],
           m = "none" => rows = <<>> /\ held = {},
           m # "none" /\ t \in Mutators => m \notin OutsideRevision /\ MutationAt(m, held, rows),
           m # "none" /\ t = Starter => m \in OutsideRevision /\ Reconciles(m, held, rows)
    PROVE  LocksInductive'
<1>1. RowsExclusive'
  <2> SUFFICES ASSUME NEW a \in Sessions, NEW b \in Sessions, a # b PROVE locked'[a] \cap locked'[b] = {}
    BY DEF RowsExclusive
  <2> QED  BY DEF LocksInductive, RowsExclusive
<1>2. ASSUME NEW u \in Mutators
      PROVE  (IF mutation[u] = "none" THEN todo[u] = <<>> /\ locked[u] = {}
              ELSE mutation[u] \notin OutsideRevision /\ MutationAt(mutation[u], locked[u], todo[u]))'
  <2>1. CASE u = t
    BY <2>1 DEF MutationAt, CounterThenJob
  <2>2. CASE u # t
    <3>1. u \in Sessions \ {t}
      BY <2>2 DEF Sessions
    <3> QED  BY <3>1 DEF LocksInductive, MutatorsPlanned, MutationAt, CounterThenJob
  <2> QED  BY <2>1, <2>2
<1>3. StarterPlanned'
  <2>1. CASE t = Starter
    BY <2>1 DEF StarterPlanned, Reconciles
  <2>2. CASE t # Starter
    <3>1. Starter \in Sessions \ {t}
      BY <2>2 DEF Sessions
    <3> QED  BY <3>1 DEF LocksInductive, StarterPlanned, Reconciles
  <2> QED  BY <2>1, <2>2
<1> QED  BY <1>1, <1>2, <1>3 DEF LocksInductive, MutatorsPlanned

\* A connection begins with a plan of its mutation.
LEMMA BeginsKeepsLocks ==
    ASSUME LocksInductive, NEW t \in Sessions, NEW m, m # "none", NEW plans, Begins(t, m, plans),
           \A plan \in plans : plan \in Seq(LockRows),
           t \in Mutators => \A plan \in plans : PlanOk(m, plan),
           t = Starter => m \in OutsideRevision /\ \A plan \in plans : Reconciles(m, {}, plan)
    PROVE  LocksInductive'
<1>1. PICK plan \in plans : todo' = [todo EXCEPT ![t] = plan]
  BY DEF Begins
<1>2. /\ LockTypes /\ keyOf' = keyOf /\ locked' = locked /\ mutation[t] = "none"
      /\ mutation' = [mutation EXCEPT ![t] = m]
  BY DEF Begins, LocksInductive
<1>3. LockTypes' /\ mutation'[t] = m /\ todo'[t] = plan
  BY <1>1, <1>2 DEF LockTypes
<1>4. locked[t] = {}
  BY <1>2 DEF LocksInductive, MutatorsPlanned, StarterPlanned, Sessions
<1>5. \A u \in Sessions \ {t} :
          /\ mutation'[u] = mutation[u] /\ todo'[u] = todo[u] /\ locked'[u] = locked[u]
          /\ locked'[t] \cap locked[u] = {}
  BY <1>1, <1>2, <1>4 DEF LockTypes
<1>6. t \in Mutators => m \notin OutsideRevision /\ MutationAt(m, {}, plan)
  BY DEF PlanOk
<1>7. t = Starter => m \in OutsideRevision /\ Reconciles(m, {}, plan)
  OBVIOUS
<1>8. locked'[t] = {}
  BY <1>2, <1>4
<1>9. PICK held : held = {}
  OBVIOUS
<1> QED  BY <1>2, <1>3, <1>5, <1>6, <1>7, <1>8, <1>9, StepOfOne

\* The next row of a plan is locked by nobody else when it is taken.
LEMMA TakesRowKeepsLocks ==
    ASSUME LocksInductive, NEW t \in Sessions, TakesRow(t)
    PROVE  LocksInductive'
<1>1. PICK m, held, rows : m = mutation[t] /\ held = locked[t] /\ rows = todo[t]
  OBVIOUS
<1>2. /\ LockTypes /\ keyOf' = keyOf /\ mutation' = mutation /\ rows # <<>> /\ ~Blocked(t)
      /\ locked' = [locked EXCEPT ![t] = held \cup {Head(rows)}]
      /\ todo' = [todo EXCEPT ![t] = Tail(rows)]
  BY <1>1 DEF TakesRow, LocksInductive, LockTypes
<1>3. held \in SUBSET LockRows /\ rows \in Seq(LockRows)
  BY <1>1, <1>2 DEF LockTypes
<1>4. Head(rows) \in LockRows /\ Tail(rows) \in Seq(LockRows)
  BY <1>2, <1>3, RestOfPlan
<1>5. PICK now, left : now = held \cup {Head(rows)} /\ left = Tail(rows)
  OBVIOUS
<1>6. LockTypes' /\ mutation'[t] = m /\ todo'[t] = left /\ locked'[t] = now
  BY <1>1, <1>2, <1>3, <1>4, <1>5 DEF LockTypes
<1>7. m # "none"
  BY <1>1, <1>2 DEF LocksInductive, MutatorsPlanned, StarterPlanned, Sessions
<1>8. \A u \in Sessions \ {t} :
          /\ mutation'[u] = mutation[u] /\ todo'[u] = todo[u] /\ locked'[u] = locked[u]
          /\ locked'[t] \cap locked[u] = {}
  <2> SUFFICES ASSUME NEW u \in Sessions \ {t}
               PROVE  /\ mutation'[u] = mutation[u] /\ todo'[u] = todo[u] /\ locked'[u] = locked[u]
                      /\ now \cap locked[u] = {}
    BY <1>6
  <2>1. Head(rows) \notin locked[u]
    BY <1>1, <1>2 DEF Blocked, Blocks
  <2>2. held \cap locked[u] = {}
    BY <1>1 DEF LocksInductive, RowsExclusive
  <2> QED  BY <1>2, <1>5, <2>1, <2>2 DEF LockTypes
<1>9. t \in Mutators => m \notin OutsideRevision /\ MutationAt(m, now, left)
  <2> SUFFICES ASSUME t \in Mutators PROVE m \notin OutsideRevision /\ MutationAt(m, now, left)
    OBVIOUS
  <2>1. m \notin OutsideRevision /\ MutationAt(m, held, rows)
    BY <1>1, <1>7 DEF LocksInductive, MutatorsPlanned
  <2> QED  BY <1>2, <1>3, <1>5, <2>1, MutationGoesOn
<1>10. t = Starter => m \in OutsideRevision /\ Reconciles(m, now, left)
  <2> SUFFICES ASSUME t = Starter PROVE m \in OutsideRevision /\ Reconciles(m, now, left)
    OBVIOUS
  <2>1. m \in OutsideRevision /\ Reconciles(m, held, rows)
    BY <1>1, <1>7 DEF LocksInductive, StarterPlanned
  <2> QED  BY <1>2, <1>3, <1>5, <2>1, ReconciliationGoesOn
<1>11. keyOf' = keyOf
  BY <1>2
<1> QED  BY <1>6, <1>7, <1>8, <1>9, <1>10, <1>11, StepOfOne

\* A connection between transactions holds nothing.
LEMMA ReleasedKeepsLocks ==
    ASSUME LocksInductive, NEW t \in Sessions, Released(t)
    PROVE  LocksInductive'
<1>1. /\ LockTypes /\ keyOf' = keyOf /\ mutation' = [mutation EXCEPT ![t] = "none"]
      /\ todo' = [todo EXCEPT ![t] = <<>>] /\ locked' = [locked EXCEPT ![t] = {}]
  BY DEF Released, LocksInductive
<1>2. LockTypes' /\ mutation'[t] = "none" /\ todo'[t] = <<>> /\ locked'[t] = {}
  BY <1>1 DEF LockTypes
<1>3. PICK m, held, rows : m = "none" /\ held = {} /\ rows = <<>>
  OBVIOUS
<1>4. \A u \in Sessions \ {t} :
          /\ mutation'[u] = mutation[u] /\ todo'[u] = todo[u] /\ locked'[u] = locked[u]
          /\ locked'[t] \cap locked[u] = {}
  BY <1>1, <1>2 DEF LockTypes
<1> QED  BY <1>1, <1>2, <1>3, <1>4, StepOfOne

\* No step leaves the plans.
LEMMA LocksStep ==
    ASSUME LocksInductive, [LockNext]_lockVars
    PROVE  LocksInductive'
<1>1. LockTypes
  BY DEF LocksInductive
<1>2. ASSUME NEW t \in Mutators,
             \/ Begins(t, "enqueue", EnqueueLocks) \/ Begins(t, "idempotent", IdempotentLocks)
             \/ Begins(t, "handOff", HandOffLocks) \/ Begins(t, "settle", SettleLocks)
             \/ Begins(t, "sweep", SweepLocks) \/ Begins(t, "replace", ReplaceLocks)
             \/ Begins(t, "cancel", CancelLocks) \/ Begins(t, "prune", PruneLocks)
             \/ Begins(t, "clear", ClearLocks)
      PROVE  LocksInductive'
  <2>1. \A plan \in EnqueueLocks : PlanOk("enqueue", plan)
    BY <1>1, ShortPlans DEF EnqueueLocks
  <2>2. \A plan \in IdempotentLocks : PlanOk("idempotent", plan)
    BY <1>1, ShortPlans DEF IdempotentLocks
  <2>3. \A plan \in HandOffLocks : PlanOk("handOff", plan)
    BY <1>1, ShortPlans DEF HandOffLocks
  <2>4. \A plan \in SettleLocks : PlanOk("settle", plan)
    BY <1>1, ShortPlans DEF SettleLocks
  <2>5. \A plan \in ReplaceLocks : PlanOk("replace", plan)
    BY <1>1, ShortPlans DEF ReplaceLocks
  <2>6. \A plan \in CancelLocks : PlanOk("cancel", plan)
    BY <1>1, ShortPlans DEF CancelLocks
  <2>7. PICK m, plans : Begins(t, m, plans) /\ m # "none" /\ \A plan \in plans : PlanOk(m, plan)
    BY <1>1, <1>2, <2>1, <2>2, <2>3, <2>4, <2>5, <2>6, LongPlans
  <2> QED  BY <2>7, BeginsKeepsLocks, StoredRowsDiffer DEF PlanOk, Sessions
<1>3. ASSUME Begins(Starter, "adopt", AdoptLocks) \/ Begins(Starter, "rebuild", RebuildLocks)
      PROVE  LocksInductive'
  <2>1. PICK m, plans :
            /\ m \in OutsideRevision /\ Begins(Starter, m, plans)
            /\ \A plan \in plans : plan \in Seq(LockRows) /\ Reconciles(m, {}, plan)
    BY <1>1, <1>3, ReconciliationPlans DEF OutsideRevision
  <2> QED  BY <2>1, BeginsKeepsLocks, StoredRowsDiffer DEF OutsideRevision, Sessions
<1>4. ASSUME NEW t \in Sessions, TakesRow(t) \/ TransactionEnds(t) \/ Fails(t)
      PROVE  LocksInductive'
  BY <1>4, TakesRowKeepsLocks, ReleasedKeepsLocks DEF TransactionEnds, Fails
<1>5. CASE UNCHANGED lockVars
  BY <1>5 DEF lockVars, LocksInductive, LockTypes, RowsExclusive, MutatorsPlanned, StarterPlanned,
     MutationAt, CounterThenJob, Reconciles
<1> QED  BY <1>2, <1>3, <1>4, <1>5 DEF LockNext

\* Nobody holds anything at the beginning.
LEMMA LocksBegin ==
    ASSUME LockInit
    PROVE  LocksInductive
BY StoredRowsDiffer DEF LockInit, LocksInductive, LockTypes, RowsExclusive, MutatorsPlanned, StarterPlanned, Sessions

\* What a mutator holds and waits for tells whether it has the revision row.
LEMMA WithTheRevision ==
    ASSUME LocksInductive, NEW t \in Mutators
    PROVE  /\ "revision" \in locked[t] /\ todo[t] # <<>> => Head(todo[t]) \in AfterRevision(mutation[t])
           /\ "revision" \notin locked[t] =>
                 /\ locked[t] \subseteq BeforeRevision(mutation[t])
                 /\ todo[t] # <<>> => \/ Head(todo[t]) = "revision"
                                      \/ Head(todo[t]) \in BeforeRevision(mutation[t]) /\ locked[t] = {}
           /\ locked[t] \cap DataRows # {} => "revision" \in locked[t]
<1>1. PICK m, held, rows : m = mutation[t] /\ held = locked[t] /\ rows = todo[t]
  OBVIOUS
<1>2. held \in SUBSET LockRows /\ rows \in Seq(LockRows)
  BY <1>1 DEF LocksInductive, LockTypes, Sessions
<1>3. CASE m = "none"
  BY <1>1, <1>3 DEF LocksInductive, MutatorsPlanned
<1>4. CASE m # "none"
  <2>1. MutationAt(m, held, rows)
    BY <1>1, <1>4 DEF LocksInductive, MutatorsPlanned
  <2>2. rows # <<>> => Head(rows) = rows[1] /\ 1 \in DOMAIN rows
    BY <1>2, RestOfPlan
  <2>3. "revision" \in held /\ rows # <<>> => Head(rows) \in AfterRevision(m)
    BY <2>1, <2>2 DEF MutationAt
  <2>4. ASSUME "revision" \notin held
        PROVE  /\ held \subseteq BeforeRevision(m)
               /\ rows # <<>> => \/ Head(rows) = "revision"
                                 \/ Head(rows) \in BeforeRevision(m) /\ held = {}
    <3>1. PICK n \in {1, 2} :
              /\ rows[n] = "revision" /\ held \subseteq BeforeRevision(m)
              /\ n = 2 => held = {} /\ rows[1] \in BeforeRevision(m)
      BY <2>1, <2>4 DEF MutationAt
    <3>2. CASE n = 1
      BY <2>2, <3>1, <3>2
    <3>3. CASE n = 2
      BY <2>2, <3>1, <3>3
    <3> QED  BY <3>2, <3>3
  <2>5. BeforeRevision(m) \cap DataRows = {}
    BY StoredRowsDiffer DEF BeforeRevision
  <2> QED  BY <1>1, <2>3, <2>4, <2>5
<1> QED  BY <1>3, <1>4

\* The reconciliation holds data rows and waits for one that it does not hold.
LEMMA WithoutTheRevision ==
    ASSUME LocksInductive
    PROVE  /\ locked[Starter] \subseteq DataRows
           /\ todo[Starter] # <<>> =>
                 /\ Head(todo[Starter]) \in DataRows \ locked[Starter]
                 /\ mutation[Starter] \in OutsideRevision
                 /\ mutation[Starter] = "adopt" => Head(todo[Starter]) \in LockJobs
                 /\ mutation[Starter] = "rebuild" =>
                       \A j \in locked[Starter] \cap LockJobs : keyOf[j] \in locked[Starter]
<1>1. CASE mutation[Starter] = "none"
  BY <1>1 DEF LocksInductive, StarterPlanned
<1>2. CASE mutation[Starter] # "none"
  <2>1. /\ mutation[Starter] \in OutsideRevision
        /\ Reconciles(mutation[Starter], locked[Starter], todo[Starter])
    BY <1>2 DEF LocksInductive, StarterPlanned
  <2>2. todo[Starter] \in Seq(LockRows)
    BY DEF LocksInductive, LockTypes, Sessions
  <2>3. todo[Starter] # <<>> => Head(todo[Starter]) = todo[Starter][1] /\ 1 \in DOMAIN todo[Starter]
    BY <2>2, RestOfPlan
  <2> QED  BY <2>1, <2>3 DEF Reconciles
<1> QED  BY <1>1, <1>2

\* In a circle somebody holds the revision row.
LEMMA SomeoneHasTheRevision ==
    ASSUME LocksInductive, NEW S \in Jams
    PROVE  \E r \in S \cap Mutators : "revision" \in locked[r]
<1>1. S \subseteq Sessions /\ S # {} /\ \A t \in S : \E u \in S : Blocks(u, t)
  BY DEF Jams
<1>2. SUFFICES ASSUME \A t \in S \cap Mutators : "revision" \notin locked[t]
               PROVE  FALSE
  OBVIOUS
<1>3. ASSUME NEW t \in S, NEW x, t # Starter \/ x \notin DataRows, x \in locked[t], x \in DataRows \cup {"revision"}
      PROVE  FALSE
  <2>1. CASE t = Starter
    BY <1>3, <2>1, WithoutTheRevision
  <2>2. CASE t # Starter
    <3>1. t \in Mutators
      BY <1>1, <2>2 DEF Sessions
    <3> QED  BY <1>2, <1>3, <3>1, WithTheRevision
  <2> QED  BY <2>1, <2>2
<1>4. PICK t \in S : TRUE
  BY <1>1
<1>5. PICK u \in S : Blocks(u, t)
  BY <1>1
<1>6. t # Starter
  <2>1. SUFFICES ASSUME t = Starter PROVE FALSE
    OBVIOUS
  <2> QED  BY <1>3, <1>5, <2>1, WithoutTheRevision DEF Blocks
<1>7. t \in Mutators
  BY <1>1, <1>6 DEF Sessions
<1>8. Head(todo[t]) \in BeforeRevision(mutation[t]) /\ Head(todo[t]) \in locked[u]
  BY <1>2, <1>3, <1>5, <1>7, WithTheRevision, StoredRowsDiffer DEF Blocks
<1>9. u # Starter
  BY <1>8, WithoutTheRevision, StoredRowsDiffer DEF BeforeRevision
<1>10. u \in Mutators
  BY <1>1, <1>9 DEF Sessions
<1>11. PICK v \in S : Blocks(v, u)
  BY <1>1
<1>12. Head(todo[u]) = "revision" /\ Head(todo[u]) \in locked[v]
  BY <1>2, <1>8, <1>10, <1>11, WithTheRevision DEF Blocks
<1> QED  BY <1>3, <1>12, StoredRowsDiffer

\* The circles that the plans allow.
LEMMA LocksJamAsKnown ==
    ASSUME LocksInductive
    PROVE  OnlyKnownJams
<1>1. SUFFICES ASSUME NEW S \in Jams
               PROVE  LET parties == {mutation[t] : t \in S} IN
                      \/ {"clear", "idempotent"} \subseteq parties
                      \/ parties \cap OutsideRevision # {} /\ parties \cap OfManyRows # {}
  BY DEF OnlyKnownJams
<1>2. S \subseteq Sessions /\ \A t \in S : \E u \in S : Blocks(u, t)
  BY DEF Jams
<1>3. PICK r \in S \cap Mutators : "revision" \in locked[r]
  BY SomeoneHasTheRevision
<1>4. \A u \in Sessions : "revision" \in locked[u] => u = r
  BY <1>2, <1>3 DEF LocksInductive, RowsExclusive, Sessions
<1>5. PICK u \in S : Blocks(u, r)
  BY <1>2, <1>3
<1>6. PICK x : x = Head(todo[r])
  OBVIOUS
<1>7. todo[r] # <<>> /\ u # r /\ x \in locked[u] /\ x \in AfterRevision(mutation[r])
  BY <1>3, <1>5, <1>6, WithTheRevision DEF Blocks
<1>8. CASE x \notin DataRows
  <2>1. mutation[r] = "clear" /\ x = "scope"
    BY <1>7, <1>8 DEF AfterRevision
  <2>2. u \in Mutators
    BY <1>2, <1>7, <1>8, WithoutTheRevision DEF Sessions
  <2>3. "revision" \notin locked[u]
    BY <1>2, <1>4, <1>7
  <2>4. "scope" \in BeforeRevision(mutation[u])
    BY <1>7, <2>1, <2>2, <2>3, WithTheRevision
  <2>5. mutation[u] = "idempotent"
    BY <2>4 DEF BeforeRevision
  <2> QED  BY <1>3, <2>1, <2>5
<1>9. CASE x \in DataRows
  <2>1. u = Starter
    <3>1. SUFFICES ASSUME u \in Mutators PROVE FALSE
      BY <1>2 DEF Sessions
    <3> QED  BY <1>2, <1>4, <1>7, <1>9, <3>1, WithTheRevision
  <2>2. PICK v \in S : Blocks(v, Starter)
    BY <1>2, <2>1
  <2>3. PICK y : y = Head(todo[Starter])
    OBVIOUS
  <2>4. todo[Starter] # <<>> /\ v # Starter /\ y \in locked[v] /\ y \in DataRows \ locked[Starter]
    BY <2>2, <2>3, WithoutTheRevision DEF Blocks
  <2>5. v = r
    <3>1. v \in Mutators
      BY <1>2, <2>4 DEF Sessions
    <3> QED  BY <1>2, <1>4, <2>4, <3>1, WithTheRevision
  <2>6. mutation[r] \in OfManyRows
    <3>1. SUFFICES ASSUME OneRow(mutation[r]) PROVE FALSE
      BY DEF OneRow
    <3>2. mutation[r] # "none"
      BY <1>3, <1>7 DEF LocksInductive, MutatorsPlanned
    <3>3. CounterThenJob(locked[r], todo[r])
      BY <1>3, <3>1, <3>2 DEF LocksInductive, MutatorsPlanned, MutationAt
    <3>4. todo[r] \in Seq(LockRows)
      BY <1>3 DEF LocksInductive, LockTypes, Sessions
    <3>5. todo[r][1] = x /\ 1 \in DOMAIN todo[r]
      BY <1>6, <1>7, <3>4, RestOfPlan
    <3>6. y \in LockKeys /\ x \in LockJobs /\ keyOf[x] = y
      BY <2>4, <2>5, <3>3, <3>5 DEF CounterThenJob
    <3>7. mutation[Starter] = "rebuild"
      BY <2>3, <2>4, <3>6, WithoutTheRevision, StoredRowsDiffer DEF OutsideRevision
    <3> QED  BY <1>7, <2>1, <2>4, <3>6, <3>7, WithoutTheRevision
  <2>7. mutation[Starter] \in OutsideRevision
    BY <2>4, WithoutTheRevision
  <2> QED  BY <1>3, <2>1, <2>6, <2>7
<1> QED  BY <1>8, <1>9

\* The connections of the job store wait for each other in a circle only in the
\* two ways that the code knows of: clearAll against an enqueue under a key, and
\* the startup reconciliation against a mutation of many rows.  A handoff, a
\* report, a return or an enqueue is never part of it with the reconciliation
\* alone, as it locks its counter before the job (_lockConcurrencyRow).
THEOREM OnlyKnownCircles == LockSpec => []OnlyKnownJams
<1>1. LockInit => LocksInductive
  BY LocksBegin
<1>2. LocksInductive /\ [LockNext]_lockVars => LocksInductive'
  BY LocksStep
<1>3. LocksInductive => OnlyKnownJams
  BY LocksJamAsKnown
<1> QED  BY <1>1, <1>2, <1>3, PTL DEF LockSpec
=============================================================================
