--------------------------- MODULE JobRunnerProofs ---------------------------
(***************************************************************************)
(* What a worker keeps true of its child processes, whatever the number of *)
(* jobs, children, leases, crashes and lost reports: RunnerInv.  The       *)
(* invariant is not inductive by itself.  It rests on where a lease can be *)
(* found: in a child's table, in the worker's, in an outcome message and   *)
(* in a failure report, and on how far a run has come when it is in        *)
(* several of these places (RunnerInductive).                              *)
(***************************************************************************)
EXTENDS JobRunner, FiniteSetTheorems, TLAPS

\* Leases are numbered as they are written, so that a new one is nowhere yet.
LeasesInOrder ==
    /\ \A j \in RunnerJobs : held[j] <= issued
    /\ \A x \in execs : x.lease <= issued
    /\ \A e \in watch : e.lease <= issued
    /\ \A r \in failing : r.lease <= issued

\* A lease is run by one child, the one the worker watches for it.
LeaseHasOnePlace ==
    /\ \A x, y \in execs : x.lease = y.lease => x = y
    /\ \A x \in execs, e \in watch : x.lease = e.lease => Entry(x) = e

\* Unless the job came back too early, a child and the worker agree on which
\* run of the job they are at, and the worker waits until it has been told.
SameRun ==
    /\ \A x, y \in execs : x.job = y.job /\ x.proc = y.proc /\ x.job \notin mixed => x = y
    /\ \A x \in execs, e \in watch :
          x.job = e.job /\ x.proc = e.proc /\ x.job \notin mixed => Entry(x) = e
    /\ \A x \in execs : x.phase # "told" /\ x.job \notin mixed => Entry(x) \in watch

\* Only jobs of pooled children are told of or come back, and the child of any
\* other job has nothing else to do.
OwnChild ==
    /\ \A j \in mixed : execMode[j] = "pooled"
    /\ \A x \in execs : x.phase = "told" => execMode[x.job] = "pooled"
    /\ \A m \in said : execMode[m.job] = "pooled"
    /\ \A x, y \in execs : x.proc = y.proc /\ execMode[x.job] # "pooled" => x = y
    /\ \A e, f \in watch : e.proc = f.proc /\ execMode[e.job] # "pooled" => e = f

\* The worker waits for children of the pool, these have been started, and one
\* that exited cleanly has reported the one job it had.
KeptIsBorn ==
    /\ \A e \in watch : kept[e.proc]
    /\ \A p \in Procs : kept[p] => proc[p] # "unborn"
    /\ \A m \in said : proc[m.proc] # "unborn"
    /\ \A p \in Procs : proc[p] = "clean" /\ kept[p] =>
          \E e \in On(p) : execMode[e.job] # "pooled" /\ held[e.job] # e.lease

\* A run that is not over is run under the row's lease; one that was reported
\* is not; and the worker reports a failure only for a run that is over.
RunsUnderLease ==
    /\ \A x \in execs : x.phase \in {"sent", "performing"} /\ x.job \notin mixed =>
          held[x.job] = x.lease
    /\ \A x \in execs : x.phase = "reported" => held[x.job] # x.lease
    /\ \A r \in failing, x \in execs :
          x.job = r.job /\ x.lease = r.lease /\ x.job \notin mixed => x.phase = "told"

\* An outcome on its way to the worker is the only one of its job and child,
\* the worker waits for it and the child has nothing to add; if it is
\* acknowledged, main has the report.
OutcomeIsOfThisRun ==
    /\ \A m, n \in said : m.job = n.job /\ m.proc = n.proc /\ m.job \notin mixed => m = n
    /\ \A m \in said : m.job \notin mixed /\ kept[m.proc] =>
          /\ \E e \in watch : e.job = m.job /\ e.proc = m.proc
          /\ \A x \in execs : x.job = m.job /\ x.proc = m.proc => x.phase = "told"
          /\ m.acknowledged =>
                \A e \in watch : e.job = m.job /\ e.proc = m.proc => held[e.job] # e.lease
    /\ \A x \in execs : x.phase = "told" /\ x.job \notin mixed =>
          \/ \E m \in said : m.job = x.job /\ m.proc = x.proc
          \/ ~\E e \in watch : e.job = x.job /\ e.proc = x.proc

\* The inductive invariant.
RunnerInductive ==
    /\ RunnerTypeOK /\ IsFiniteSet(watch) /\ LeaseHasReporter
    /\ LeasesInOrder /\ LeaseHasOnePlace /\ SameRun /\ OwnChild /\ KeptIsBorn
    /\ RunsUnderLease /\ OutcomeIsOfThisRun

\* RunnerInductive is as strong as RunnerInv: runs under the same lease are the
\* same run, and a child with work left is one the worker waits for.
LEMMA RunnerInductiveImplies == RunnerInductive => RunnerInv
<1> SUFFICES ASSUME RunnerInductive PROVE RunnerInv
    OBVIOUS
<1>1. NeverTwiceAtOnce
    BY DEF RunnerInductive, NeverTwiceAtOnce, RunsUnderLease, LeaseHasOnePlace
<1>2. SlotsComeBack
  <2>1. \A e \in watch : e.proc \in Procs
      BY DEF RunnerInductive, RunnerTypeOK, Entries
  <2>2. \A x \in execs : Entry(x).proc = x.proc
      BY DEF Entry
  <2> QED
      BY <2>1, <2>2 DEF RunnerInductive, SlotsComeBack, KeptIsBorn, SameRun
<1> QED
    BY <1>1, <1>2 DEF RunnerInductive, RunnerInv

\* The worker and its children start with nothing.
LEMMA RunnerStarts == RunnerInit => RunnerInductive
<1> SUFFICES ASSUME RunnerInit PROVE RunnerInductive
    OBVIOUS
<1>1. \A p \in Procs : On(p) = {}
    BY DEF RunnerInit, On
<1>2. IsFiniteSet({}) /\ Cardinality({}) = 0
    BY FS_EmptySet
<1>3. RunnerTypeOK
    BY <1>1, <1>2, RunnerAssumption DEF RunnerInit, RunnerTypeOK
<1>4. LeaseHasReporter /\ LeasesInOrder /\ LeaseHasOnePlace /\ SameRun
    BY DEF RunnerInit, LeaseHasReporter, LeasesInOrder, LeaseHasOnePlace, SameRun
<1>5. OwnChild /\ KeptIsBorn /\ RunsUnderLease /\ OutcomeIsOfThisRun
    BY DEF RunnerInit, OwnChild, KeptIsBorn, RunsUnderLease, OutcomeIsOfThisRun
<1> QED
    BY <1>2, <1>3, <1>4, <1>5 DEF RunnerInit, RunnerInductive

\* A job is given to a child: its lease is new, and if the child still had the
\* job from before, the job is marked.
LEMMA GivePreserves ==
    ASSUME RunnerInductive, NEW j \in RunnerJobs, NEW p \in Procs, Give(j, p)
    PROVE  RunnerInductive'
<1> DEFINE n == issued + 1
           e == [job |-> j, lease |-> n, proc |-> p]
           x0 == [job |-> j, lease |-> n, proc |-> p, phase |-> "sent"]
           busy == \E x \in execs \cup watch : x.job = j /\ x.proc = p
<1> USE RunnerAssumption
<1>1. /\ n \in 1..MaxLeases
      /\ e \in Entries /\ x0 \in Execs
      /\ held[j] = 0 /\ held' = [held EXCEPT ![j] = n] /\ issued' = n
      /\ kept' = [kept EXCEPT ![p] = TRUE]
      /\ watch' = {x \in watch : x.job # j \/ x.proc # p} \cup {e}
      /\ mixed' = IF busy THEN mixed \cup {j} ELSE mixed
      /\ UNCHANGED <<execMode, over, armed, said, failing, troubles>>
    BY DEF Give, RunnerInductive, RunnerTypeOK, Entries, Execs, Phases
<1>2. \/ proc[p] = "unborn" /\ proc' = [proc EXCEPT ![p] = "up"] /\ execs' = execs \cup {x0}
      \/ proc[p] \in {"up", "ending"} /\ proc' = proc /\ execs' = execs \cup {x0}
      \/ proc[p] \in {"dead", "clean"} /\ proc' = proc /\ execs' = execs
    BY DEF Give, Lives, RunnerInductive, RunnerTypeOK
<1>3. \A x \in execs \cup watch \cup failing : x.lease \in Nat /\ x.lease < n
    BY <1>1 DEF RunnerInductive, RunnerTypeOK, LeasesInOrder, Execs, Entries
<1>4. proc[p] # "unborn" => kept[p] /\ execMode[j] = "pooled" /\ Cardinality(On(p)) < ChildSlots
                            /\ \A f \in On(p) : execMode[f.job] = "pooled"
    BY DEF Give, CanHost, Unborn
<1>5. proc[p] = "unborn" => On(p) = {} /\ (\A x \in execs : x.proc # p) /\ \A m \in said : m.proc # p
    BY DEF RunnerInductive, RunnerTypeOK, KeptIsBorn, On, Lives
<1>6. RunnerTypeOK'
  <2>1. /\ held' \in [RunnerJobs -> 0..MaxLeases] /\ issued' \in 0..MaxLeases
        /\ mixed' \subseteq RunnerJobs /\ kept' \in [Procs -> BOOLEAN]
        /\ proc' \in [Procs -> {"unborn", "up", "ending", "dead", "clean"}]
        /\ watch' \subseteq Entries /\ execs' \subseteq Execs
      BY <1>1, <1>2 DEF RunnerInductive, RunnerTypeOK
  <2>2. \A x \in execs' : Lives(x.proc)'
      BY <1>1, <1>2 DEF RunnerInductive, RunnerTypeOK, Lives, Execs
  <2>3. \A q \in Procs : Cardinality(On(q))' <= ChildSlots
    <3> SUFFICES ASSUME NEW q \in Procs PROVE Cardinality(On(q)') <= ChildSlots
        OBVIOUS
    <3>1. CASE q # p
        <4>1. On(q)' = On(q)
            BY <3>1, <1>1 DEF On
        <4> QED
            BY <4>1 DEF RunnerInductive, RunnerTypeOK
    <3>2. CASE q = p
      <4> DEFINE R == {x \in On(p) : x.job # j}
      <4>1. On(p)' = R \cup {e}
          BY <1>1 DEF On
      <4>2. IsFiniteSet(On(p)) /\ On(p) \subseteq watch
          BY FS_Subset DEF RunnerInductive, On
      <4>3. IsFiniteSet(R) /\ Cardinality(R) <= Cardinality(On(p))
          BY <4>2, FS_Subset
      <4>4. Cardinality(R) < ChildSlots
          <5>1. Cardinality(R) \in Nat /\ Cardinality(On(p)) \in Nat
              BY <4>2, <4>3, FS_CardinalityType
          <5>2. CASE proc[p] = "unborn"
              BY <5>1, <5>2, <1>5, <4>3, FS_EmptySet
          <5>3. CASE proc[p] # "unborn"
              BY <5>1, <5>3, <1>4, <4>3
          <5> QED
              BY <5>2, <5>3
      <4>5. IsFiniteSet(R \cup {e}) /\ Cardinality(R \cup {e}) <= Cardinality(R) + 1
        <5>1. Cardinality(R) \in Nat
            BY <4>3, FS_CardinalityType
        <5>2. Cardinality(R \cup {e}) = IF e \in R THEN Cardinality(R) ELSE Cardinality(R) + 1
            BY <4>3, FS_AddElement, Zenon
        <5>3. IsFiniteSet(R \cup {e})
            BY <4>3, FS_AddElement
        <5> QED
            BY <5>1, <5>2, <5>3
      <4> QED
          BY <3>2, <4>1, <4>3, <4>4, <4>5, FS_CardinalityType
    <3> QED
        BY <3>1, <3>2
  <2>4. \A f, g \in watch' : f.job = g.job /\ f.proc = g.proc => f = g
      BY <1>1 DEF RunnerInductive, RunnerTypeOK
  <2> QED
      BY <1>1, <2>1, <2>2, <2>3, <2>4 DEF RunnerInductive, RunnerTypeOK, On
<1>7. IsFiniteSet(watch')
  <2>1. IsFiniteSet({x \in watch : x.job # j \/ x.proc # p})
      BY FS_Subset DEF RunnerInductive
  <2> QED
      BY <2>1, <1>1, FS_AddElement
<1>8. LeaseHasReporter'
  <2> SUFFICES ASSUME NEW i \in RunnerJobs,
                      held'[i] # 0, execMode[i] # "spawned", i \notin mixed'
               PROVE  \/ [job |-> i, lease |-> held'[i]] \in failing'
                      \/ \E f \in watch' :
                            /\ f.job = i /\ f.lease = held'[i]
                            /\ \/ \E x \in execs' : Entry(x) = f
                               \/ \E m \in said' : m.job = i /\ m.proc = f.proc
                               \/ proc'[f.proc] \in {"dead", "clean"} /\ kept'[f.proc]
      BY <1>1 DEF LeaseHasReporter, Entry
  <2>1. CASE i = j
    <3>1. e \in watch' /\ e.job = i /\ e.lease = held'[i]
        BY <2>1, <1>1 DEF RunnerInductive, RunnerTypeOK
    <3>2. (\E x \in execs' : Entry(x) = e) \/ (proc'[p] \in {"dead", "clean"} /\ kept'[p])
        BY <1>1, <1>2 DEF RunnerInductive, RunnerTypeOK, Entry
    <3> QED
        BY <3>1, <3>2
  <2>2. CASE i # j
    <3>1. held'[i] = held[i] /\ i \notin mixed
        BY <2>2, <1>1 DEF RunnerInductive, RunnerTypeOK
    <3>2. CASE [job |-> i, lease |-> held[i]] \in failing
        BY <3>1, <3>2, <1>1
    <3>3. CASE \E f \in watch :
                  /\ f.job = i /\ f.lease = held[i]
                  /\ \/ \E x \in execs : Entry(x) = f
                     \/ \E m \in said : m.job = i /\ m.proc = f.proc
                     \/ proc[f.proc] \in {"dead", "clean"} /\ kept[f.proc]
      <4>1. PICK f \in watch :
                  /\ f.job = i /\ f.lease = held[i]
                  /\ \/ \E x \in execs : Entry(x) = f
                     \/ \E m \in said : m.job = i /\ m.proc = f.proc
                     \/ proc[f.proc] \in {"dead", "clean"} /\ kept[f.proc]
          BY <3>3
      <4>2. f \in watch' /\ f.proc \in Procs
          BY <4>1, <2>2, <1>1 DEF RunnerInductive, RunnerTypeOK, Entries
      <4>3. execs \subseteq execs'
          BY <1>2
      <4>4. proc[f.proc] \in {"dead", "clean"} /\ kept[f.proc] =>
               proc'[f.proc] \in {"dead", "clean"} /\ kept'[f.proc]
          BY <4>2, <1>1, <1>2 DEF RunnerInductive, RunnerTypeOK
      <4> QED
          BY <4>1, <4>2, <4>3, <4>4, <3>1, <1>1
    <3> QED
        BY <3>1, <3>2, <3>3, <2>2 DEF RunnerInductive, LeaseHasReporter
  <2> QED
      BY <2>1, <2>2
<1>9. LeasesInOrder'
    BY <1>1, <1>2, <1>3 DEF RunnerInductive, RunnerTypeOK, LeasesInOrder
<1>10. LeaseHasOnePlace'
    BY <1>1, <1>2, <1>3 DEF RunnerInductive, RunnerTypeOK, LeaseHasOnePlace, Entry
<1>11. SameRun'
    BY <1>1, <1>2, <1>3 DEF RunnerInductive, RunnerTypeOK, SameRun, Entry
<1>12. OwnChild'
  <2>1. \A x \in execs' : x \in execs \/ x = x0
      BY <1>2
  <2>2. proc[p] = "unborn" => mixed' = mixed
      BY <1>1, <1>5 DEF On
  <2>3. \A i \in mixed' : execMode'[i] = "pooled"
      BY <1>1, <2>2, <1>4 DEF RunnerInductive, OwnChild
  <2>4. \A x \in execs : x.proc = p => execMode[x.job] = "pooled" /\ execMode[j] = "pooled"
    <3> SUFFICES ASSUME NEW x \in execs, x.proc = p
                 PROVE  execMode[x.job] = "pooled" /\ execMode[j] = "pooled"
        OBVIOUS
    <3>1. proc[p] # "unborn"
        BY <1>5
    <3>2. x.phase = "told" \/ x.job \in mixed => execMode[x.job] = "pooled"
        BY DEF RunnerInductive, OwnChild
    <3>3. x.phase # "told" /\ x.job \notin mixed => Entry(x) \in On(p) /\ Entry(x).job = x.job
        BY DEF RunnerInductive, SameRun, On, Entry
    <3> QED
        BY <3>1, <3>2, <3>3, <1>4
  <2>5. \A f \in watch : f.proc = p => execMode[f.job] = "pooled" /\ execMode[j] = "pooled"
      BY <1>4, <1>5 DEF On
  <2> QED
      BY <1>1, <2>1, <2>3, <2>4, <2>5 DEF RunnerInductive, OwnChild
<1>13. KeptIsBorn'
    BY <1>1, <1>2, <1>3, <1>4, <1>5 DEF RunnerInductive, RunnerTypeOK, KeptIsBorn, On, Entries
<1>14. RunsUnderLease'
  <2>1. \A x \in execs' : x \in execs \/ x = x0
      BY <1>2
  <2>2. \A x \in execs : x.job \in RunnerJobs /\ x.lease # 0
      BY DEF RunnerInductive, RunnerTypeOK, Execs
  <2>3. \A i \in RunnerJobs : held'[i] = IF i = j THEN n ELSE held[i]
      BY <1>1 DEF RunnerInductive, RunnerTypeOK
  <2>4. \A i : i \notin mixed' => i \notin mixed
      BY <1>1
  <2>5. \A x \in execs' : x.phase \in {"sent", "performing"} /\ x.job \notin mixed' =>
            held'[x.job] = x.lease
      BY <1>1, <2>1, <2>2, <2>3, <2>4 DEF RunnerInductive, RunsUnderLease
  <2>6. \A x \in execs' : x.phase = "reported" => held'[x.job] # x.lease
      BY <1>1, <1>3, <2>1, <2>2, <2>3 DEF RunnerInductive, RunsUnderLease
  <2>7. \A r \in failing', x \in execs' :
            x.job = r.job /\ x.lease = r.lease /\ x.job \notin mixed' => x.phase = "told"
      BY <1>1, <1>3, <2>1, <2>4 DEF RunnerInductive, RunsUnderLease
  <2> QED
      BY <2>5, <2>6, <2>7 DEF RunsUnderLease
<1>15. OutcomeIsOfThisRun'
  <2>1. \A x \in execs' : x \in execs \/ x = x0
      BY <1>2
  <2>2. \A i : i \notin mixed' => i \notin mixed
      BY <1>1
  <2>3. \A m \in said : m.proc \in Procs /\ (m.proc = p => kept[p])
      BY <1>4, <1>5 DEF RunnerInductive, RunnerTypeOK
  <2>4. \A m \in said : kept'[m.proc] => kept[m.proc]
      BY <2>3, <1>1 DEF RunnerInductive, RunnerTypeOK
  <2>5. \A f \in watch : f.job \in RunnerJobs
      BY DEF RunnerInductive, RunnerTypeOK, Entries
  <2>6. \A i \in RunnerJobs : i # j => held'[i] = held[i]
      BY <1>1 DEF RunnerInductive, RunnerTypeOK
  <2>7. \A f \in watch : held[f.job] # f.lease => held'[f.job] # f.lease
      BY <1>1, <1>3, <2>5, <2>6 DEF RunnerInductive, RunnerTypeOK
  <2>8. \A m \in said : m.job \notin mixed' /\ kept[m.proc] => ~(m.job = j /\ m.proc = p)
      BY <1>1, <2>2 DEF RunnerInductive, OutcomeIsOfThisRun
  <2>9. \A m, o \in said' : m.job = o.job /\ m.proc = o.proc /\ m.job \notin mixed' => m = o
      BY <1>1, <2>2 DEF RunnerInductive, OutcomeIsOfThisRun
  <2>10. \A m \in said' : m.job \notin mixed' /\ kept'[m.proc] =>
            /\ \E f \in watch' : f.job = m.job /\ f.proc = m.proc
            /\ \A x \in execs' : x.job = m.job /\ x.proc = m.proc => x.phase = "told"
            /\ m.acknowledged =>
                  \A f \in watch' : f.job = m.job /\ f.proc = m.proc => held'[f.job] # f.lease
      BY <1>1, <2>1, <2>2, <2>4, <2>7, <2>8 DEF RunnerInductive, OutcomeIsOfThisRun
  <2>11. \A x \in execs' : x.phase = "told" /\ x.job \notin mixed' =>
            \/ \E m \in said' : m.job = x.job /\ m.proc = x.proc
            \/ ~\E f \in watch' : f.job = x.job /\ f.proc = x.proc
      BY <1>1, <2>1, <2>2 DEF RunnerInductive, OutcomeIsOfThisRun
  <2> QED
      BY <2>9, <2>10, <2>11 DEF OutcomeIsOfThisRun
<1> QED
    BY <1>6, <1>7, <1>8, <1>9, <1>10, <1>11, <1>12, <1>13, <1>14, <1>15 DEF RunnerInductive

\* A run comes a step further in its child: it is started, reported, given up or
\* told of.
LEMMA MovePreserves ==
    ASSUME RunnerInductive, NEW e \in execs, NEW phase \in Phases, Moves(e, phase),
           UNCHANGED <<execMode, issued, proc, kept, watch, armed, failing, mixed>>,
           over' \subseteq RunnerJobs,
           \/ held' = held
           \/ held[e.job] = e.lease /\ held' = [held EXCEPT ![e.job] = 0],
           \/ /\ e.phase = "sent" /\ phase = "performing"
              /\ held' = held /\ said' = said
           \/ /\ e.phase \in {"performing", "reporting"}
              /\ phase \in {"reporting", "reported", "unreported"}
              /\ phase = "reported" => held'[e.job] # e.lease
              /\ said' = said
           \/ /\ e.phase \in {"reported", "unreported"} /\ phase = "told"
              /\ held' = held /\ execMode[e.job] = "pooled"
              /\ said' = said \cup {[job |-> e.job, proc |-> e.proc,
                                     acknowledged |-> e.phase = "reported"]}
    PROVE  RunnerInductive'
<1> DEFINE y == [e EXCEPT !.phase = phase]
           m0 == [job |-> e.job, proc |-> e.proc, acknowledged |-> e.phase = "reported"]
<1> USE RunnerAssumption
<1>1. /\ e \in Execs /\ y \in Execs /\ e.phase # "told"
      /\ y.job = e.job /\ y.lease = e.lease /\ y.proc = e.proc /\ y.phase = phase
      /\ Entry(y) = Entry(e)
    BY DEF RunnerInductive, RunnerTypeOK, Execs, Entry, Phases
<1>2. execs' = (execs \ {e}) \cup {y}
    BY DEF Moves
<1>3. \A x \in execs : \E z \in execs' : Entry(z) = Entry(x)
    BY <1>1, <1>2
<1>4. \A x \in execs' : x = y \/ (x \in execs /\ x # e)
    BY <1>2
<1>5. \A i \in RunnerJobs : held'[i] = held[i] \/ (i = e.job /\ held[i] = e.lease /\ held'[i] = 0)
    BY <1>1 DEF RunnerInductive, RunnerTypeOK, Execs
<1>6. e.job \notin mixed => Entry(e) \in watch /\ kept[e.proc]
  <2>1. Entry(e).proc = e.proc
      BY DEF Entry
  <2> QED
      BY <2>1, <1>1 DEF RunnerInductive, SameRun, KeptIsBorn
<1>7. \A m \in said' : m \in said \/ (m = m0 /\ phase = "told")
    OBVIOUS
<1>m. /\ m0 \in [job: RunnerJobs, proc: Procs, acknowledged: BOOLEAN]
      /\ m0.job = e.job /\ m0.proc = e.proc /\ (m0.acknowledged => e.phase = "reported")
      /\ phase = "told" => m0 \in said' /\ execMode[e.job] = "pooled"
    BY <1>1 DEF Execs
<1> HIDE DEF y, m0
<1>8. RunnerTypeOK'
  <2>1. held' \in [RunnerJobs -> 0..MaxLeases]
      BY <1>1 DEF RunnerInductive, RunnerTypeOK, Execs
  <2>2. said' \subseteq [job: RunnerJobs, proc: Procs, acknowledged: BOOLEAN]
      BY <1>7, <1>m DEF RunnerInductive, RunnerTypeOK
  <2>3. \A x \in execs' : Lives(x.proc)'
      BY <1>1, <1>4 DEF RunnerInductive, RunnerTypeOK, Lives
  <2> QED
      BY <1>1, <1>2, <2>1, <2>2, <2>3 DEF RunnerInductive, RunnerTypeOK, On
<1>9. LeaseHasReporter'
  <2>1. \A x \in execs : \E z \in execs' : Entry(z)' = Entry(x)
      BY <1>3 DEF Entry
  <2> QED
      BY <2>1, <1>5 DEF RunnerInductive, LeaseHasReporter
<1>10. LeasesInOrder'
    BY <1>1, <1>4, <1>5 DEF RunnerInductive, RunnerTypeOK, LeasesInOrder
<1>11. LeaseHasOnePlace'
    BY <1>1, <1>4 DEF RunnerInductive, LeaseHasOnePlace, Entry
<1>12. SameRun'
    BY <1>1, <1>4, <1>6 DEF RunnerInductive, SameRun, Entry
<1>13. OwnChild'
    BY <1>1, <1>4, <1>7, <1>m DEF RunnerInductive, OwnChild
<1>14. KeptIsBorn'
  <2>1. \A m \in said' : proc[m.proc] # "unborn"
      BY <1>1, <1>7, <1>m DEF RunnerInductive, RunnerTypeOK, KeptIsBorn, Lives
  <2>2. \A f \in watch : held[f.job] # f.lease => held'[f.job] # f.lease
      BY <1>5 DEF RunnerInductive, RunnerTypeOK, Entries
  <2> QED
      BY <2>1, <2>2 DEF RunnerInductive, KeptIsBorn, On
<1>15. RunsUnderLease'
  <2>1. \A x \in execs' : x.phase \in {"sent", "performing"} /\ x.job \notin mixed =>
            held'[x.job] = x.lease
    <3> SUFFICES ASSUME NEW x \in execs', x.phase \in {"sent", "performing"}, x.job \notin mixed
                 PROVE  held'[x.job] = x.lease
        OBVIOUS
    <3>1. CASE x = y
        BY <3>1, <1>1 DEF RunnerInductive, RunsUnderLease
    <3>2. CASE x \in execs /\ x # e
      <4>1. held[x.job] = x.lease /\ x.job \in RunnerJobs
          BY <3>2 DEF RunnerInductive, RunsUnderLease, RunnerTypeOK, Execs
      <4>2. x.lease # e.lease
          BY <3>2 DEF RunnerInductive, LeaseHasOnePlace
      <4> QED
          BY <4>1, <4>2, <1>5
    <3> QED
        BY <3>1, <3>2, <1>4
  <2>2. \A x \in execs' : x.phase = "reported" => held'[x.job] # x.lease
    <3>1. \A x \in execs : x.phase = "reported" => held'[x.job] # x.lease
        BY <1>5 DEF RunnerInductive, RunsUnderLease, RunnerTypeOK, Execs
    <3> QED
        BY <3>1, <1>1, <1>4
  <2>3. \A r \in failing, x \in execs' :
            x.job = r.job /\ x.lease = r.lease /\ x.job \notin mixed => x.phase = "told"
      BY <1>1, <1>4 DEF RunnerInductive, RunsUnderLease
  <2> QED
      BY <2>1, <2>2, <2>3 DEF RunsUnderLease
<1>16. OutcomeIsOfThisRun'
  <2>1. \A m \in said : m.job = e.job /\ m.proc = e.proc => e.job \in mixed
      BY <1>1, <1>6 DEF RunnerInductive, OutcomeIsOfThisRun
  <2>2. \A f \in watch : held[f.job] # f.lease => held'[f.job] # f.lease
      BY <1>5 DEF RunnerInductive, RunnerTypeOK, Entries
  <2>3. \A m, o \in said' : m.job = o.job /\ m.proc = o.proc /\ m.job \notin mixed => m = o
      BY <1>7, <1>m, <2>1 DEF RunnerInductive, OutcomeIsOfThisRun
  <2>4. ASSUME NEW m \in said', m.job \notin mixed, kept[m.proc]
        PROVE  /\ \E f \in watch : f.job = m.job /\ f.proc = m.proc
               /\ \A x \in execs' : x.job = m.job /\ x.proc = m.proc => x.phase = "told"
               /\ m.acknowledged =>
                     \A f \in watch : f.job = m.job /\ f.proc = m.proc => held'[f.job] # f.lease
    <3>1. CASE m \in said
        BY <3>1, <2>1, <2>2, <2>4, <1>1, <1>4 DEF RunnerInductive, OutcomeIsOfThisRun
    <3>2. CASE m = m0 /\ phase = "told"
      <4>1. Entry(e) \in watch /\ Entry(e).job = e.job /\ Entry(e).proc = e.proc /\ Entry(e).lease = e.lease
          BY <3>2, <1>6, <1>m, <2>4 DEF Entry
      <4>2. \A x \in execs : x.job = e.job /\ x.proc = e.proc => x = e
          BY <3>2, <1>m, <2>4 DEF RunnerInductive, SameRun
      <4>3. \A f \in watch : f.job = e.job /\ f.proc = e.proc => f = Entry(e)
          BY <3>2, <1>m, <2>4 DEF RunnerInductive, SameRun
      <4>4. e.phase = "reported" => held[e.job] # e.lease
          BY DEF RunnerInductive, RunsUnderLease
      <4> QED
          BY <3>2, <4>1, <4>2, <4>3, <4>4, <2>2, <1>1, <1>4, <1>m
    <3> QED
        BY <3>1, <3>2, <1>7
  <2>5. \A x \in execs' : x.phase = "told" /\ x.job \notin mixed =>
            \/ \E m \in said' : m.job = x.job /\ m.proc = x.proc
            \/ ~\E f \in watch : f.job = x.job /\ f.proc = x.proc
    <3>1. said \subseteq said'
        OBVIOUS
    <3> QED
        BY <3>1, <1>1, <1>4, <1>m DEF RunnerInductive, OutcomeIsOfThisRun
  <2> QED
      BY <2>3, <2>4, <2>5 DEF OutcomeIsOfThisRun
<1> QED
    BY <1>8, <1>9, <1>10, <1>11, <1>12, <1>13, <1>14, <1>15, <1>16 DEF RunnerInductive

\* Most of the invariant is about the runs there are: fewer of them, and it
\* still holds.
LEMMA FewerRuns ==
    ASSUME RunnerInductive, execs' \subseteq execs,
           UNCHANGED <<execMode, held, issued, kept, watch, said, failing, mixed>>
    PROVE  /\ IsFiniteSet(watch') /\ LeasesInOrder' /\ LeaseHasOnePlace' /\ SameRun'
           /\ OwnChild' /\ RunsUnderLease' /\ OutcomeIsOfThisRun'
<1>1. IsFiniteSet(watch') /\ LeasesInOrder' /\ LeaseHasOnePlace'
    BY DEF RunnerInductive, LeasesInOrder, LeaseHasOnePlace, Entry
<1>2. SameRun' /\ OwnChild'
    BY DEF RunnerInductive, SameRun, OwnChild, Entry
<1>3. RunsUnderLease' /\ OutcomeIsOfThisRun'
    BY DEF RunnerInductive, RunsUnderLease, OutcomeIsOfThisRun
<1> QED
    BY <1>1, <1>2, <1>3

\* A run leaves its child's table: a message that came too early is dropped, or
\* the child is done.
LEMMA ForgetPreserves ==
    ASSUME RunnerInductive, NEW e \in execs, execs' = execs \ {e},
           e.phase = "told" \/ e.job \in mixed,
           UNCHANGED <<execMode, held, issued, over, proc, kept, watch, armed, said, failing, mixed>>
    PROVE  RunnerInductive'
<1>1. RunnerTypeOK'
    BY DEF RunnerInductive, RunnerTypeOK, Lives, On
<1>2. LeaseHasReporter'
  <2> SUFFICES ASSUME NEW j \in RunnerJobs,
                      held[j] # 0, execMode[j] # "spawned", j \notin mixed
               PROVE  \/ [job |-> j, lease |-> held[j]] \in failing
                      \/ \E f \in watch :
                            /\ f.job = j /\ f.lease = held[j]
                            /\ \/ \E x \in execs' : Entry(x) = f
                               \/ \E m \in said : m.job = j /\ m.proc = f.proc
                               \/ proc[f.proc] \in {"dead", "clean"} /\ kept[f.proc]
      BY DEF LeaseHasReporter, Entry
  <2>1. CASE [job |-> j, lease |-> held[j]] \in failing
      BY <2>1
  <2>2. ASSUME NEW f \in watch, f.job = j, f.lease = held[j],
               \/ \E x \in execs : Entry(x) = f
               \/ \E m \in said : m.job = j /\ m.proc = f.proc
               \/ proc[f.proc] \in {"dead", "clean"} /\ kept[f.proc]
        PROVE  \/ \E x \in execs' : Entry(x) = f
               \/ \E m \in said : m.job = j /\ m.proc = f.proc
               \/ proc[f.proc] \in {"dead", "clean"} /\ kept[f.proc]
    <3> SUFFICES ASSUME Entry(e) = f
                 PROVE  \E m \in said : m.job = j /\ m.proc = f.proc
        BY <2>2
    <3>1. e.job = j /\ e.proc = f.proc
        BY <2>2 DEF Entry
    <3> QED
        BY <3>1, <2>2 DEF RunnerInductive, OutcomeIsOfThisRun
  <2> QED
      BY <2>1, <2>2 DEF RunnerInductive, LeaseHasReporter
<1>3. KeptIsBorn'
    BY DEF RunnerInductive, KeptIsBorn, On
<1> QED
    BY <1>1, <1>2, <1>3, FewerRuns DEF RunnerInductive

\* A child exits with all it was doing, killed, crashed or done; the worker
\* still keeps it, and will see that.
LEMMA ExitPreserves ==
    ASSUME RunnerInductive, NEW p \in Procs, Lives(p), NEW status \in {"dead", "clean"},
           proc' = [proc EXCEPT ![p] = status], execs' = {x \in execs : x.proc # p},
           status = "clean" =>
              \E e \in On(p) : execMode[e.job] # "pooled" /\ held[e.job] # e.lease,
           armed' \subseteq armed,
           UNCHANGED <<execMode, held, issued, over, kept, watch, said, failing, mixed>>
    PROVE  RunnerInductive'
<1>1. RunnerTypeOK'
    BY DEF RunnerInductive, RunnerTypeOK, Lives, On, Execs
<1>2. \A q \in Procs : proc'[q] = IF q = p THEN status ELSE proc[q]
    BY DEF RunnerInductive, RunnerTypeOK
<1>3. \A f \in watch : f.proc \in Procs /\ kept[f.proc]
    BY DEF RunnerInductive, RunnerTypeOK, Entries, KeptIsBorn
<1>4. LeaseHasReporter'
  <2> SUFFICES ASSUME NEW j \in RunnerJobs,
                      held[j] # 0, execMode[j] # "spawned", j \notin mixed
               PROVE  \/ [job |-> j, lease |-> held[j]] \in failing
                      \/ \E f \in watch :
                            /\ f.job = j /\ f.lease = held[j]
                            /\ \/ \E x \in execs' : Entry(x) = f
                               \/ \E m \in said : m.job = j /\ m.proc = f.proc
                               \/ proc'[f.proc] \in {"dead", "clean"} /\ kept[f.proc]
      BY DEF LeaseHasReporter, Entry
  <2>1. \A x \in execs : x \in execs' \/ Entry(x).proc = p
      BY DEF Entry
  <2>2. ASSUME NEW f \in watch,
               \/ \E x \in execs : Entry(x) = f
               \/ \E m \in said : m.job = j /\ m.proc = f.proc
               \/ proc[f.proc] \in {"dead", "clean"} /\ kept[f.proc]
        PROVE  \/ \E x \in execs' : Entry(x) = f
               \/ \E m \in said : m.job = j /\ m.proc = f.proc
               \/ proc'[f.proc] \in {"dead", "clean"} /\ kept[f.proc]
      BY <2>1, <2>2, <1>2, <1>3
  <2> QED
      BY <2>2 DEF RunnerInductive, LeaseHasReporter
<1>5. KeptIsBorn'
    BY <1>2 DEF RunnerInductive, RunnerTypeOK, KeptIsBorn, On
<1> QED
    BY <1>1, <1>4, <1>5, FewerRuns DEF RunnerInductive

\* The steps of a child are moves, or the end of a run.
LEMMA ChildStepPreserves ==
    ASSUME RunnerInductive, NEW e \in execs, NEW again \in BOOLEAN,
           \/ JobStarts(e) \/ ReportGivenUp(e) \/ OutcomeSent(e) \/ ChildForgets(e)
           \/ ChildReports(e, again) \/ AnswerLost(e, again) \/ ChildFinishes(e, again)
    PROVE  RunnerInductive'
<1>1. e \in Execs /\ over \subseteq RunnerJobs /\ held \in [RunnerJobs -> 0..MaxLeases]
    BY DEF RunnerInductive, RunnerTypeOK
<1>2. Reported(e, again) =>
         /\ over' \subseteq RunnerJobs /\ held'[e.job] # e.lease
         /\ \/ held' = held
            \/ held[e.job] = e.lease /\ held' = [held EXCEPT ![e.job] = 0]
    BY <1>1, RunnerAssumption DEF Reported, Execs
<1>3. CASE JobStarts(e)
  <2>1. CASE \E x \in execs : x.job = e.job /\ x.proc = e.proc /\ x.phase # "sent"
    <3>1. e.job \in mixed
        BY <1>3, <2>1 DEF JobStarts, RunnerInductive, SameRun
    <3>2. execs' = execs \ {e}
        BY <1>3, <2>1 DEF JobStarts
    <3> QED
        BY <1>3, <3>1, <3>2, ForgetPreserves DEF JobStarts, leaseVars, workerVars
  <2>2. CASE ~\E x \in execs : x.job = e.job /\ x.proc = e.proc /\ x.phase # "sent"
    <3>1. Moves(e, "performing") /\ "performing" \in Phases
        BY <1>3, <2>2 DEF JobStarts, Phases
    <3> QED
        BY <1>1, <1>3, <3>1, MovePreserves DEF JobStarts, leaseVars, workerVars
  <2> QED
      BY <2>1, <2>2
<1>4. CASE ChildReports(e, again)
  <2>1. "reported" \in Phases
      BY DEF Phases
  <2> QED
      BY <1>2, <1>4, <2>1, MovePreserves DEF ChildReports, Reporting, workerVars
<1>5. CASE AnswerLost(e, again)
  <2>1. "reporting" \in Phases
      BY DEF Phases
  <2> QED
      BY <1>2, <1>5, <2>1, MovePreserves DEF AnswerLost, Reporting, workerVars
<1>6. CASE ReportGivenUp(e)
  <2>1. "unreported" \in Phases
      BY DEF Phases
  <2> QED
      BY <1>1, <1>6, <2>1, MovePreserves DEF ReportGivenUp, Reporting, leaseVars, workerVars
<1>7. CASE OutcomeSent(e)
  <2>1. "told" \in Phases
      BY DEF Phases
  <2> QED
      BY <1>1, <1>7, <2>1, MovePreserves DEF OutcomeSent, leaseVars, workerVars
<1>8. CASE ChildForgets(e)
    BY <1>8, ForgetPreserves DEF ChildForgets, leaseVars, workerVars
<1>9. CASE ChildFinishes(e, again)
  <2> DEFINE status == IF again THEN "clean" ELSE "dead"
  <2>1. e.proc \in Procs /\ Lives(e.proc) /\ status \in {"dead", "clean"}
      BY <1>1 DEF Execs, RunnerInductive, RunnerTypeOK
  <2>2. execs' = {x \in execs : x.proc # e.proc}
    <3>1. execs' = execs \ {e} /\ execMode[e.job] # "pooled"
        BY <1>9 DEF ChildFinishes
    <3>2. \A x \in execs : x.proc = e.proc => x = e
        BY <3>1 DEF RunnerInductive, OwnChild
    <3> QED
        BY <3>1, <3>2
  <2>3. status = "clean" =>
           \E f \in On(e.proc) : execMode[f.job] # "pooled" /\ held[f.job] # f.lease
    <3>1. e.phase # "told" /\ e.job \notin mixed /\ execMode[e.job] # "pooled"
        BY <1>9 DEF ChildFinishes, RunnerInductive, OwnChild
    <3>2. Entry(e) \in On(e.proc) /\ Entry(e).job = e.job /\ Entry(e).lease = e.lease
        BY <3>1 DEF RunnerInductive, SameRun, On, Entry
    <3>3. status = "clean" => held[e.job] # e.lease
        BY <1>9 DEF ChildFinishes, RunnerInductive, RunsUnderLease
    <3> QED
        BY <3>1, <3>2, <3>3
  <2>4. proc' = [proc EXCEPT ![e.proc] = status]
      BY <1>9 DEF ChildFinishes
  <2> HIDE DEF status
  <2> QED
      BY <1>9, <2>1, <2>2, <2>3, <2>4, ExitPreserves DEF ChildFinishes, leaseVars, workerVars
<1> QED
    BY <1>3, <1>4, <1>5, <1>6, <1>7, <1>8, <1>9

\* A child is told to end: nothing the invariant speaks of changes.
LEMMA TerminatedPreserves ==
    ASSUME RunnerInductive, NEW p \in Procs, proc' = Terminated(p), armed' \subseteq Procs,
           UNCHANGED <<execMode, held, issued, over, kept, watch, execs, said, failing, mixed>>
    PROVE  RunnerInductive'
<1>1. /\ proc' \in [Procs -> {"unborn", "up", "ending", "dead", "clean"}]
      /\ \A q \in Procs : /\ proc'[q] = "unborn" <=> proc[q] = "unborn"
                          /\ proc'[q] = "dead" <=> proc[q] = "dead"
                          /\ proc'[q] = "clean" <=> proc[q] = "clean"
                          /\ proc'[q] \in {"up", "ending"} <=> proc[q] \in {"up", "ending"}
    BY DEF Terminated, RunnerInductive, RunnerTypeOK
<1>2. RunnerTypeOK'
    BY <1>1 DEF RunnerInductive, RunnerTypeOK, Lives, On, Execs
<1>3. \A f \in watch : f.proc \in Procs
    BY DEF RunnerInductive, RunnerTypeOK, Entries
<1>4. LeaseHasReporter'
    BY <1>1, <1>3 DEF RunnerInductive, LeaseHasReporter, Entry
<1>5. \A m \in said : m.proc \in Procs
    BY DEF RunnerInductive, RunnerTypeOK
<1>6. KeptIsBorn'
    BY <1>1, <1>5 DEF RunnerInductive, KeptIsBorn, On
<1> QED
    BY <1>2, <1>4, <1>6, FewerRuns DEF RunnerInductive

\* The worker hears an outcome: it stops waiting, and reports the job itself
\* where the child could not.
LEMMA HeardPreserves ==
    ASSUME RunnerInductive, NEW m \in said, NEW retire \in BOOLEAN, OutcomeHeard(m, retire)
    PROVE  RunnerInductive'
<1> DEFINE p == m.proc
           done == {e \in watch : e.job = m.job /\ e.proc = p}
           drained == retire /\ kept[p] /\ On(p) \subseteq done
           fails == {[job |-> e.job, lease |-> e.lease] : e \in done}
<1>1. /\ said' = said \ {m} /\ watch' = watch \ done
      /\ failing' = IF m.acknowledged THEN failing ELSE failing \cup fails
      /\ kept' = IF drained THEN [kept EXCEPT ![p] = FALSE] ELSE kept
      /\ proc' = IF drained THEN Terminated(p) ELSE proc
      /\ UNCHANGED <<execMode, held, issued, over, armed, execs, mixed, troubles>>
    BY DEF OutcomeHeard, leaseVars
<1>2. p \in Procs /\ m.job \in RunnerJobs
    BY DEF RunnerInductive, RunnerTypeOK
<1>3. /\ proc' \in [Procs -> {"unborn", "up", "ending", "dead", "clean"}]
      /\ \A q \in Procs : /\ proc'[q] = "unborn" <=> proc[q] = "unborn"
                          /\ proc'[q] = "dead" <=> proc[q] = "dead"
                          /\ proc'[q] = "clean" <=> proc[q] = "clean"
                          /\ proc'[q] \in {"up", "ending"} <=> proc[q] \in {"up", "ending"}
    BY <1>1, <1>2 DEF Terminated, RunnerInductive, RunnerTypeOK
<1>4. /\ kept' \in [Procs -> BOOLEAN]
      /\ \A q \in Procs : kept'[q] => kept[q]
      /\ \A f \in watch' : kept'[f.proc]
  <2>1. kept' \in [Procs -> BOOLEAN] /\ \A q \in Procs : kept'[q] = (kept[q] /\ ~(q = p /\ drained))
      BY <1>1, <1>2 DEF RunnerInductive, RunnerTypeOK
  <2>2. \A f \in watch' : f.proc \in Procs /\ kept[f.proc] /\ ~(f.proc = p /\ drained)
      BY <1>1 DEF RunnerInductive, RunnerTypeOK, Entries, KeptIsBorn, On
  <2> QED
      BY <2>1, <2>2
<1>5. m.job \notin mixed /\ done # {} =>
         /\ \A x \in execs : x.job = m.job /\ x.proc = p => x.phase = "told"
         /\ m.acknowledged => \A e \in done : held[e.job] # e.lease
    BY DEF RunnerInductive, KeptIsBorn, OutcomeIsOfThisRun
<1>6. /\ \A e \in done : e \in watch /\ e.job = m.job /\ e.proc = p
      /\ \A r \in failing' : r \in failing \/ \E e \in done : r.job = e.job /\ r.lease = e.lease
      /\ ~m.acknowledged => \A e \in done : [job |-> e.job, lease |-> e.lease] \in failing'
      /\ failing \subseteq failing'
    BY <1>1
<1>7. failing' \subseteq [job: RunnerJobs, lease: 1..MaxLeases]
    BY <1>1 DEF RunnerInductive, RunnerTypeOK, Entries
<1>8. watch' \subseteq watch /\ (\A f \in watch : f \in watch' \/ (f.job = m.job /\ f.proc = p))
      /\ \A f \in watch' : ~(f.job = m.job /\ f.proc = p)
    BY <1>1
<1>9. RunnerTypeOK'
  <2>1. ASSUME NEW q \in Procs PROVE Cardinality(On(q)') <= ChildSlots
    <3>1. On(q)' \subseteq On(q)
        BY <1>8 DEF On
    <3>2. IsFiniteSet(On(q))
        BY FS_Subset DEF RunnerInductive, On
    <3>3. Cardinality(On(q)') <= Cardinality(On(q)) /\ IsFiniteSet(On(q)')
        BY <3>1, <3>2, FS_Subset
    <3> QED
        BY <3>2, <3>3, FS_CardinalityType, RunnerAssumption DEF RunnerInductive, RunnerTypeOK
  <2>2. \A x \in execs : proc'[x.proc] \in {"up", "ending"}
      BY <1>3 DEF RunnerInductive, RunnerTypeOK, Execs, Lives
  <2> QED
      BY <1>1, <1>3, <1>4, <1>7, <1>8, <2>1, <2>2 DEF RunnerInductive, RunnerTypeOK, Lives
<1>10. IsFiniteSet(watch')
    BY <1>8, FS_Subset DEF RunnerInductive
<1> HIDE DEF done, drained, fails
<1>11. LeaseHasReporter'
  <2> SUFFICES ASSUME NEW j \in RunnerJobs,
                      held[j] # 0, execMode[j] # "spawned", j \notin mixed
               PROVE  \/ [job |-> j, lease |-> held[j]] \in failing'
                      \/ \E f \in watch' :
                            /\ f.job = j /\ f.lease = held[j]
                            /\ \/ \E x \in execs : Entry(x) = f
                               \/ \E o \in said' : o.job = j /\ o.proc = f.proc
                               \/ proc'[f.proc] \in {"dead", "clean"} /\ kept'[f.proc]
      BY <1>1 DEF LeaseHasReporter, Entry
  <2>1. CASE [job |-> j, lease |-> held[j]] \in failing
      BY <2>1, <1>6
  <2>2. ASSUME NEW f \in watch, f.job = j, f.lease = held[j],
               \/ \E x \in execs : Entry(x) = f
               \/ \E o \in said : o.job = j /\ o.proc = f.proc
               \/ proc[f.proc] \in {"dead", "clean"} /\ kept[f.proc]
        PROVE  \/ [job |-> j, lease |-> held[j]] \in failing'
               \/ /\ f \in watch'
                  /\ \/ \E x \in execs : Entry(x) = f
                     \/ \E o \in said' : o.job = j /\ o.proc = f.proc
                     \/ proc'[f.proc] \in {"dead", "clean"} /\ kept'[f.proc]
    <3>1. CASE f \in watch'
        BY <3>1, <2>2, <1>1, <1>3, <1>4, <1>8 DEF RunnerInductive, RunnerTypeOK, Entries
    <3>2. CASE f \notin watch'
      <4>1. f \in done /\ m.job = j
          BY <3>2, <2>2, <1>1, <1>8
      <4> QED
          BY <4>1, <2>2, <1>5, <1>6
    <3> QED
        BY <3>1, <3>2
  <2> QED
      BY <2>1, <2>2 DEF RunnerInductive, LeaseHasReporter
<1>12. LeasesInOrder'
    BY <1>1, <1>6, <1>8 DEF RunnerInductive, LeasesInOrder
<1>13. LeaseHasOnePlace'
    BY <1>1, <1>8 DEF RunnerInductive, LeaseHasOnePlace, Entry
<1>14. SameRun'
  <2>1. ASSUME NEW x \in execs, x.phase # "told", x.job \notin mixed PROVE Entry(x) \in watch'
    <3>1. Entry(x) \in watch /\ Entry(x).job = x.job /\ Entry(x).proc = x.proc
        BY <2>1 DEF RunnerInductive, SameRun, Entry
    <3>2. Entry(x) \notin watch' => Entry(x) \in done
        BY <3>1, <1>1
    <3> QED
        BY <3>1, <3>2, <2>1, <1>5, <1>6
  <2> QED
      BY <2>1, <1>1, <1>8 DEF RunnerInductive, SameRun, Entry
<1>15. OwnChild'
    BY <1>1, <1>8 DEF RunnerInductive, OwnChild
<1>16. KeptIsBorn'
  <2>1. ASSUME NEW q \in Procs, proc'[q] = "clean", kept'[q]
        PROVE  \E e \in On(q)' : execMode[e.job] # "pooled" /\ held[e.job] # e.lease
    <3>1. PICK e \in On(q) : execMode[e.job] # "pooled" /\ held[e.job] # e.lease
        BY <2>1, <1>3, <1>4 DEF RunnerInductive, KeptIsBorn
    <3>2. e.job # m.job
        BY <3>1 DEF RunnerInductive, OwnChild
    <3>3. e \in On(q)'
        BY <3>2, <1>8 DEF On
    <3> QED
        BY <3>1, <3>3
  <2>2. \A o \in said : o.proc \in Procs
      BY DEF RunnerInductive, RunnerTypeOK
  <2> QED
      BY <2>1, <2>2, <1>1, <1>3, <1>4 DEF RunnerInductive, KeptIsBorn
<1>17. RunsUnderLease'
  <2>1. ASSUME NEW r \in failing', NEW x \in execs,
               x.job = r.job, x.lease = r.lease, x.job \notin mixed
        PROVE  x.phase = "told"
    <3>1. CASE r \in failing
        BY <3>1, <2>1 DEF RunnerInductive, RunsUnderLease
    <3>2. CASE \E e \in done : r.job = e.job /\ r.lease = e.lease
      <4>1. PICK e \in done : r.job = e.job /\ r.lease = e.lease
          BY <3>2
      <4>2. Entry(x) = e
          BY <4>1, <2>1, <1>6 DEF RunnerInductive, LeaseHasOnePlace
      <4>3. x.job = m.job /\ x.proc = p
          BY <4>1, <4>2, <1>6 DEF Entry
      <4> QED
          BY <4>1, <4>3, <2>1, <1>5
    <3> QED
        BY <3>1, <3>2, <1>6
  <2> QED
      BY <2>1, <1>1 DEF RunnerInductive, RunsUnderLease
<1>18. OutcomeIsOfThisRun'
  <2>1. \A o, q \in said' : o.job = q.job /\ o.proc = q.proc /\ o.job \notin mixed => o = q
      BY <1>1 DEF RunnerInductive, OutcomeIsOfThisRun
  <2>2. ASSUME NEW o \in said', o.job \notin mixed, kept'[o.proc]
        PROVE  /\ \E e \in watch' : e.job = o.job /\ e.proc = o.proc
               /\ \A x \in execs : x.job = o.job /\ x.proc = o.proc => x.phase = "told"
               /\ o.acknowledged =>
                     \A e \in watch' : e.job = o.job /\ e.proc = o.proc => held[e.job] # e.lease
    <3>1. o \in said /\ o # m /\ kept[o.proc]
        BY <2>2, <1>1, <1>4 DEF RunnerInductive, RunnerTypeOK
    <3>2. ~(o.job = m.job /\ o.proc = m.proc)
        BY <3>1, <2>2 DEF RunnerInductive, OutcomeIsOfThisRun
    <3> QED
        BY <3>1, <3>2, <2>2, <1>8 DEF RunnerInductive, OutcomeIsOfThisRun
  <2>3. \A x \in execs : x.phase = "told" /\ x.job \notin mixed =>
            \/ \E o \in said' : o.job = x.job /\ o.proc = x.proc
            \/ ~\E e \in watch' : e.job = x.job /\ e.proc = x.proc
      BY <1>1, <1>8 DEF RunnerInductive, OutcomeIsOfThisRun
  <2> QED
      BY <2>1, <2>2, <2>3, <1>1 DEF OutcomeIsOfThisRun
<1> QED
    BY <1>9, <1>10, <1>11, <1>12, <1>13, <1>14, <1>15, <1>16, <1>17, <1>18 DEF RunnerInductive

\* The worker sees a child's exit, and reports what it left behind.
LEMMA ExitSeenPreserves ==
    ASSUME RunnerInductive, NEW p \in Procs, ExitSeen(p)
    PROVE  RunnerInductive'
<1>1. /\ proc[p] \in {"dead", "clean"} /\ kept[p]
      /\ kept' = [kept EXCEPT ![p] = FALSE] /\ failing' = failing \cup LeftBehind(p)
      /\ watch' = watch \ On(p) /\ armed' = armed \ {p}
      /\ UNCHANGED <<execMode, held, issued, over, proc, execs, said, mixed, troubles>>
    BY DEF ExitSeen, leaseVars, childVars
<1>2. \A x \in execs : x.proc # p
    BY <1>1 DEF RunnerInductive, RunnerTypeOK, Lives
<1>3. /\ watch' \subseteq watch
      /\ \A f \in watch : f \in watch' <=> f.proc # p
    BY <1>1 DEF On
<1>4. /\ kept' \in [Procs -> BOOLEAN]
      /\ \A q \in Procs : kept'[q] = (kept[q] /\ q # p)
    BY <1>1 DEF RunnerInductive, RunnerTypeOK
<1>5. /\ failing' \subseteq [job: RunnerJobs, lease: 1..MaxLeases]
      /\ \A r \in failing' : r \in failing \/ \E e \in On(p) : r.job = e.job /\ r.lease = e.lease
    BY <1>1 DEF LeftBehind, On, RunnerInductive, RunnerTypeOK, Entries
<1>6. RunnerTypeOK'
  <2>1. ASSUME NEW q \in Procs PROVE Cardinality(On(q)') <= ChildSlots
    <3>1. On(q)' \subseteq On(q)
        BY <1>3 DEF On
    <3>2. IsFiniteSet(On(q))
        BY FS_Subset DEF RunnerInductive, On
    <3>3. Cardinality(On(q)') <= Cardinality(On(q)) /\ IsFiniteSet(On(q)')
        BY <3>1, <3>2, FS_Subset
    <3> QED
        BY <3>2, <3>3, FS_CardinalityType, RunnerAssumption DEF RunnerInductive, RunnerTypeOK
  <2> QED
      BY <1>1, <1>3, <1>4, <1>5, <2>1 DEF RunnerInductive, RunnerTypeOK, Lives
<1>7. IsFiniteSet(watch')
    BY <1>3, FS_Subset DEF RunnerInductive
<1>8. LeaseHasReporter'
  <2> SUFFICES ASSUME NEW j \in RunnerJobs,
                      held[j] # 0, execMode[j] # "spawned", j \notin mixed
               PROVE  \/ [job |-> j, lease |-> held[j]] \in failing'
                      \/ \E f \in watch' :
                            /\ f.job = j /\ f.lease = held[j]
                            /\ \/ \E x \in execs : Entry(x) = f
                               \/ \E m \in said : m.job = j /\ m.proc = f.proc
                               \/ proc[f.proc] \in {"dead", "clean"} /\ kept'[f.proc]
      BY <1>1 DEF LeaseHasReporter, Entry
  <2>1. CASE [job |-> j, lease |-> held[j]] \in failing
      BY <2>1, <1>1
  <2>2. ASSUME NEW f \in watch, f.job = j, f.lease = held[j],
               \/ \E x \in execs : Entry(x) = f
               \/ \E m \in said : m.job = j /\ m.proc = f.proc
               \/ proc[f.proc] \in {"dead", "clean"} /\ kept[f.proc]
        PROVE  \/ [job |-> j, lease |-> held[j]] \in failing'
               \/ /\ f \in watch'
                  /\ \/ \E x \in execs : Entry(x) = f
                     \/ \E m \in said : m.job = j /\ m.proc = f.proc
                     \/ proc[f.proc] \in {"dead", "clean"} /\ kept'[f.proc]
    <3>1. CASE f.proc # p
        BY <3>1, <2>2, <1>3, <1>4 DEF RunnerInductive, RunnerTypeOK, Entries
    <3>2. CASE f.proc = p
      <4>1. f \in On(p)
          BY <3>2, <2>2 DEF On
      <4>2. execMode[j] = "forked" => proc[p] # "clean"
        <5> SUFFICES ASSUME execMode[j] = "forked", proc[p] = "clean" PROVE FALSE
            OBVIOUS
        <5>1. PICK g \in On(p) : execMode[g.job] # "pooled" /\ held[g.job] # g.lease
            BY <1>1 DEF RunnerInductive, KeptIsBorn
        <5>2. g = f
            BY <5>1, <4>1, <2>2 DEF RunnerInductive, OwnChild, On
        <5> QED
            BY <5>1, <5>2, <2>2
      <4>3. execMode[j] \in {"pooled", "forked"}
          BY RunnerAssumption DEF RunnerInductive, RunnerTypeOK
      <4>4. [job |-> f.job, lease |-> f.lease] \in LeftBehind(p)
          BY <4>1, <4>2, <4>3, <2>2 DEF LeftBehind
      <4> QED
          BY <4>4, <2>2, <1>1
    <3> QED
        BY <3>1, <3>2
  <2> QED
      BY <2>1, <2>2 DEF RunnerInductive, LeaseHasReporter
<1>9. LeasesInOrder'
    BY <1>1, <1>3, <1>5 DEF RunnerInductive, LeasesInOrder, On
<1>10. LeaseHasOnePlace'
    BY <1>1, <1>3 DEF RunnerInductive, LeaseHasOnePlace, Entry
<1>11. SameRun'
    BY <1>1, <1>2, <1>3 DEF RunnerInductive, SameRun, Entry
<1>12. OwnChild'
    BY <1>1, <1>3 DEF RunnerInductive, OwnChild
<1>13. KeptIsBorn'
  <2>1. \A q \in Procs : q # p => On(q)' = On(q)
      BY <1>3 DEF On
  <2>2. \A f \in watch : f.proc \in Procs
      BY DEF RunnerInductive, RunnerTypeOK, Entries
  <2> QED
      BY <2>1, <2>2, <1>1, <1>3, <1>4 DEF RunnerInductive, KeptIsBorn
<1>14. RunsUnderLease'
  <2>1. \A e \in On(p), x \in execs : x.lease # e.lease
      BY <1>2 DEF RunnerInductive, LeaseHasOnePlace, On, Entry
  <2> QED
      BY <2>1, <1>1, <1>5 DEF RunnerInductive, RunsUnderLease
<1>15. OutcomeIsOfThisRun'
  <2>1. \A m \in said : m.proc \in Procs
      BY DEF RunnerInductive, RunnerTypeOK
  <2> QED
      BY <2>1, <1>1, <1>3, <1>4 DEF RunnerInductive, OutcomeIsOfThisRun
<1> QED
    BY <1>6, <1>7, <1>8, <1>9, <1>10, <1>11, <1>12, <1>13, <1>14, <1>15 DEF RunnerInductive

\* The worker's failure report reaches main.
LEMMA WorkerReportsPreserves ==
    ASSUME RunnerInductive, NEW r \in failing, NEW again \in BOOLEAN, WorkerReports(r, again)
    PROVE  RunnerInductive'
<1>1. /\ failing' = failing \ {r}
      /\ UNCHANGED <<execMode, issued, proc, execs, said, kept, watch, armed, mixed>>
    BY DEF WorkerReports, childVars
<1>2. r.job \in RunnerJobs /\ r.lease \in 1..MaxLeases
      /\ r = [job |-> r.job, lease |-> r.lease]
    BY DEF RunnerInductive, RunnerTypeOK
<1>3. /\ held' \in [RunnerJobs -> 0..MaxLeases] /\ over' \subseteq RunnerJobs
      /\ held'[r.job] # r.lease
      /\ \A i \in RunnerJobs : held'[i] = held[i] \/ (i = r.job /\ held[i] = r.lease /\ held'[i] = 0)
    BY <1>2, RunnerAssumption DEF WorkerReports, Reported, RunnerInductive, RunnerTypeOK
<1>4. RunnerTypeOK'
    BY <1>1, <1>3 DEF RunnerInductive, RunnerTypeOK, Lives, On
<1>5. LeaseHasReporter'
    BY <1>1, <1>2, <1>3 DEF RunnerInductive, LeaseHasReporter, Entry
<1>6. LeasesInOrder'
    BY <1>1, <1>3 DEF RunnerInductive, RunnerTypeOK, LeasesInOrder
<1>7. LeaseHasOnePlace' /\ SameRun' /\ OwnChild' /\ IsFiniteSet(watch')
    BY <1>1 DEF RunnerInductive, LeaseHasOnePlace, SameRun, OwnChild, Entry
<1>8. \A f \in watch \cup execs : f.job \in RunnerJobs /\ f.lease # 0
    BY DEF RunnerInductive, RunnerTypeOK, Entries, Execs
<1>9. \A f \in watch \cup execs : held[f.job] # f.lease => held'[f.job] # f.lease
    BY <1>3, <1>8
<1>10. KeptIsBorn'
    BY <1>1, <1>9 DEF RunnerInductive, KeptIsBorn, On
<1>11. RunsUnderLease'
    BY <1>1, <1>3, <1>8, <1>9 DEF RunnerInductive, RunsUnderLease
<1>12. OutcomeIsOfThisRun'
    BY <1>1, <1>9 DEF RunnerInductive, OutcomeIsOfThisRun
<1> QED
    BY <1>4, <1>5, <1>6, <1>7, <1>10, <1>11, <1>12 DEF RunnerInductive

\* Every step of the worker, its children and main keeps the invariant.
LEMMA RunnerStep == RunnerInductive /\ [RunnerNext]_runnerVars => RunnerInductive'
<1> SUFFICES ASSUME RunnerInductive, [RunnerNext]_runnerVars PROVE RunnerInductive'
    OBVIOUS
<1>1. ASSUME NEW j \in RunnerJobs, NEW p \in Procs, Give(j, p) PROVE RunnerInductive'
    BY <1>1, GivePreserves
<1>2. ASSUME NEW e \in execs,
             \/ JobStarts(e) \/ ReportGivenUp(e) \/ OutcomeSent(e) \/ ChildForgets(e)
             \/ \E again \in BOOLEAN :
                   ChildReports(e, again) \/ AnswerLost(e, again) \/ ChildFinishes(e, again)
      PROVE  RunnerInductive'
    BY <1>2, ChildStepPreserves
<1>3. ASSUME NEW p \in Procs, ChildCrashes(p) \/ ChildEnds(p) PROVE RunnerInductive'
  <2>1. Lives(p) /\ Dies(p)
      BY <1>3 DEF ChildCrashes, ChildEnds, Lives
  <2> QED
      BY <2>1, ExitPreserves DEF Dies, leaseVars, workerVars
<1>4. ASSUME NEW p \in Procs, Kills(p) PROVE RunnerInductive'
  <2>1. CASE Lives(p)
      BY <1>4, <2>1, ExitPreserves DEF Kills, leaseVars
  <2>2. CASE ~Lives(p)
    <3>1. /\ UNCHANGED <<execMode, held, issued, over, proc, execs, said, kept, watch,
                         failing, mixed>>
          /\ armed' \subseteq Procs
        BY <1>4, <2>2 DEF Kills, leaseVars, RunnerInductive, RunnerTypeOK
    <3>2. RunnerTypeOK' /\ LeaseHasReporter' /\ KeptIsBorn'
        BY <3>1 DEF RunnerInductive, RunnerTypeOK, LeaseHasReporter, KeptIsBorn, Lives, On, Entry
    <3> QED
        BY <3>1, <3>2, FewerRuns DEF RunnerInductive
  <2> QED
      BY <2>1, <2>2
<1>5. ASSUME NEW p \in Procs, ExitSeen(p) PROVE RunnerInductive'
    BY <1>5, ExitSeenPreserves
<1>6. ASSUME NEW e \in watch, TimesOut(e) PROVE RunnerInductive'
  <2>1. e.proc \in Procs /\ armed' \subseteq Procs
      BY <1>6 DEF TimesOut, RunnerInductive, RunnerTypeOK, Entries
  <2> QED
      BY <1>6, <2>1, TerminatedPreserves DEF TimesOut, leaseVars
<1>7. ASSUME NEW m \in said, NEW retire \in BOOLEAN, OutcomeHeard(m, retire)
      PROVE  RunnerInductive'
    BY <1>7, HeardPreserves
<1>8. ASSUME NEW r \in failing, NEW again \in BOOLEAN, WorkerReports(r, again)
      PROVE  RunnerInductive'
    BY <1>8, WorkerReportsPreserves
<1>9. CASE UNCHANGED runnerVars
  <2>1. UNCHANGED <<execMode, held, issued, over, proc, kept, watch, armed, execs, said,
                    failing, mixed>>
      BY <1>9 DEF runnerVars
  <2>2. RunnerTypeOK' /\ LeaseHasReporter' /\ KeptIsBorn'
      BY <2>1 DEF RunnerInductive, RunnerTypeOK, LeaseHasReporter, KeptIsBorn, Lives, On, Entry
  <2> QED
      BY <2>1, <2>2, FewerRuns DEF RunnerInductive
<1> QED
    BY <1>1, <1>2, <1>3, <1>4, <1>5, <1>6, <1>7, <1>8, <1>9 DEF RunnerNext

\* For any number of jobs, children, slots, leases, crashes and lost reports:
\* every lease of a pooled or forked job has somebody left who will report it,
\* no job is performed twice at once, and slots come back, except for a job that
\* came back to a child that was still finishing with it (worker.js:705,
\* pooled-runner-child.js:134).
THEOREM ChildrenAccountedFor == RunnerSpec => []RunnerInv
<1>1. RunnerSpec => []RunnerInductive
    BY RunnerStarts, RunnerStep, PTL DEF RunnerSpec
<1> QED
    BY <1>1, RunnerInductiveImplies, PTL

=============================================================================
