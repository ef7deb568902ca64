-------------------------- MODULE WorkerLeaseProofs --------------------------
(***************************************************************************)
(* Proofs about what main keeps of its workers.  First, that it never      *)
(* spends an announced pooled slot twice, for every pool size, number of   *)
(* jobs, refusals and faults.  Then, that the leases of its workers are    *)
(* tracked and run through broken sockets and restarts of main, for every  *)
(* number of workers, jobs, reconnects and restarts.                       *)
(*                                                                         *)
(* CreditsSpentOnce says nothing of the admission whose lease is being     *)
(* written, and is not inductive without it.  AdmissionAccount adds the    *)
(* two cases: a pooled admission of the current announcement has already   *)
(* been debited, and one that an announcement has overtaken finds that     *)
(* announcement untouched.                                                 *)
(*                                                                         *)
(* HandoffInv speaks of the leases of connected workers.  Its inductive    *)
(* invariant adds what the maps, messages and executions of main and the   *)
(* workers hold at any moment: which of them are current, that a lease is  *)
(* in one place, and who will adopt what no map holds.                     *)
(***************************************************************************)
EXTENDS WorkerAdmission, JobHandoff, FiniteSetTheorems, TLAPS

-----------------------------------------------------------------------------
(* The pooled slots main spends.                                           *)

Grant == IF granted = 0 THEN 1 ELSE granted

AdmissionType ==
    /\ credits \in Nat /\ spent \in Nat /\ granted \in Nat
    /\ pending # None => pending \in [lane: Lanes, current: BOOLEAN]

AdmissionAccount ==
    IF pending = None THEN spent + credits <= Grant
    ELSE IF ~pending.current THEN spent = 0 /\ credits = granted
    ELSE IF pending.lane = "pooled" THEN spent + credits + 1 <= Grant
    ELSE spent + credits <= Grant

AdmissionInductive == AdmissionType /\ AdmissionAccount

\* The strengthening implies what the run checks.
LEMMA AccountGivesBound == AdmissionInductive => CreditsSpentOnce
  BY DEF AdmissionInductive, AdmissionType, AdmissionAccount, CreditsSpentOnce, Grant

\* Before the first announcement nothing is spent.
LEMMA AdmissionInit == Init => AdmissionInductive
  BY DEF Init, AdmissionInductive, AdmissionType, AdmissionAccount, Grant

\* The worker's steps leave main's account alone.
LEMMA AccountFrame ==
    AdmissionInductive /\ UNCHANGED main => AdmissionInductive'
  BY DEF AdmissionInductive, AdmissionType, AdmissionAccount, Grant, main

\* A step of main preserves the account: an announcement resets it, an
\* admission debits it, and the write of the lease, done or refused, moves
\* the debit to `spent` or back to `credits`.
LEMMA AccountStep ==
    ASSUME AdmissionInductive, [Next]_vars
    PROVE  AdmissionInductive'
<1> USE DEF AdmissionInductive, AdmissionType, AdmissionAccount, Grant
<1>1. CASE WorkerReady
  <2>1. Credit(Head(up).slots) \in Nat
    BY DEF Credit
  <2> DEFINE n == Credit(Head(up).slots)
  <2> HIDE DEF n
  <2>2. credits' = n /\ granted' = n /\ spent' = 0 /\ n \in Nat
    BY <1>1, <2>1 DEF WorkerReady, n
  <2>3. CASE pending = None
    <3>1. pending' = None
      BY <1>1, <2>3 DEF WorkerReady
    <3>2. AdmissionType'
      BY <2>2, <3>1
    <3>3. spent' + credits' <= Grant'
      BY <2>2
    <3> QED  BY <3>1, <3>2, <3>3
  <2>4. CASE pending # None
    <3>1. pending' = [pending EXCEPT !.current = FALSE]
      BY <1>1, <2>4 DEF WorkerReady
    <3>2. pending' \in [lane: Lanes, current: BOOLEAN] /\ ~pending'.current
      BY <3>1, <2>4
    <3>3. AdmissionType'
      BY <2>2, <3>2
    <3>4. spent' + credits' <= Grant'
      BY <2>2
    <3>5. AdmissionAccount'
      BY <2>2, <3>2, <3>4
    <3> QED  BY <3>3, <3>5
  <2> QED  BY <2>3, <2>4
<1>2. CASE LeaseWritten
  BY <1>2 DEF LeaseWritten, ChargedAgain, Lanes
<1>3. CASE LeaseRefused
  BY <1>3 DEF LeaseRefused, Lanes
<1>4. ASSUME NEW lane \in Lanes, Admit(lane)
      PROVE  AdmissionInductive'
  <2>1. pending = None /\ pending' = [lane |-> lane, current |-> TRUE]
        /\ spent' = spent /\ granted' = granted
    BY <1>4 DEF Admit
  <2>2. pending' \in [lane: Lanes, current: BOOLEAN]
        /\ pending'.lane = lane /\ pending'.current
    BY <2>1
  <2>3. CASE lane = "pooled"
    <3>1. credits > 0 /\ credits' = credits - 1
      BY <1>4, <2>3 DEF Admit, Accepts
    <3> QED  BY <2>1, <2>2, <2>3, <3>1
  <2>4. CASE lane # "pooled"
    <3>1. credits' = credits
      BY <1>4, <2>4 DEF Admit
    <3> QED  BY <2>1, <2>2, <2>4, <3>1
  <2> QED  BY <2>3, <2>4
<1>5. CASE UNCHANGED main
  BY <1>5, AccountFrame
<1>6. ASSUME \/ InlineArrives \/ InlineFinishes \/ LateAnnouncement
             \/ \E c \in Children :
                   PooledArrives(c) \/ ChildStarts(c) \/ ChildFails(c)
             \/ \E c, spare \in Children, retire, acknowledged \in BOOLEAN :
                   PooledFinishes(c, retire, spare, acknowledged)
      PROVE  UNCHANGED main
  BY <1>6 DEF InlineArrives, InlineFinishes, LateAnnouncement, PooledArrives,
              ChildStarts, ChildFails, PooledFinishes
<1>7. CASE UNCHANGED vars
  BY <1>5, <1>7 DEF vars
<1> QED
  BY <1>1, <1>2, <1>3, <1>4, <1>5, <1>6, <1>7 DEF Next

\* One `ready` message is never spent twice: for every pool and every
\* interleaving of announcements with the writing of leases
\* (_consumeWorkerAdmission, _restoreWorkerAdmission,
\* _finalizeWorkerAdmission).
THEOREM SlotsSpentOnce == Spec => []CreditsSpentOnce
<1>1. AdmissionInductive /\ [Next]_vars => AdmissionInductive'
  BY AccountStep
<1> QED
  BY AdmissionInit, <1>1, AccountGivesBound, PTL DEF Spec

-----------------------------------------------------------------------------
(* The leases of the workers.                                              *)

\* Lease p is the one that the row of its job has, and w is the row's worker.
Current(w, p) ==
    /\ jobRow[p[1]].status = "handed_off" /\ jobRow[p[1]].by = {w}
    /\ jobRow[p[1]].lease = p[2]

Drains == [job : HandoffJobs, sock : Sockets, phase : {"picked", "written", "recovering"},
           lease : 0..LeaseMax]

Rows == [status : {"queued", "handed_off", "completed"}, by : SUBSET HandoffWorkers, lease : 0..LeaseMax]

HandoffTypes ==
    /\ jobRow \in [HandoffJobs -> Rows]
    /\ written \in 0..LeaseMax /\ mainUp \in BOOLEAN
    /\ workers \subseteq mapped /\ releasing \subseteq mapped \ workers /\ mapped \subseteq Sockets
    /\ announced \subseteq Sockets /\ draining \subseteq Sockets
    /\ handoffs \in [Sockets -> SUBSET Pairs]
    /\ adopting \in [Sockets -> [phase : {"no", "asked", "read"}, found : SUBSET Pairs]]
    /\ near \in [Sockets -> {"unused", "open", "closed"}]
    /\ drained = {} \/ \E d \in Drains : drained = {d}
    /\ left \subseteq Pairs
    /\ sending \subseteq Sockets \X HandoffJobs \X (1..LeaseMax)
    /\ execution \subseteq HandoffWorkers \X HandoffJobs \X (1..LeaseMax)
    /\ outages \in Nat /\ working \subseteq HandoffWorkers

\* A row that is handed off names its worker and a lease that was written, and
\* no other row has either.
RowsHold ==
    \A j \in HandoffJobs :
        IF jobRow[j].status = "handed_off"
        THEN jobRow[j].lease \in 1..written /\ \E w \in HandoffWorkers : jobRow[j].by = {w}
        ELSE jobRow[j].lease = 0 /\ jobRow[j].by = {}

\* A socket main knows was opened, and an open one has a living worker; while no
\* connection is lost, one that has closed has not.
SocketsKnown ==
    \A s \in Sockets :
        /\ s \notin mapped => handoffs[s] = {}
        /\ s \in mapped => near[s] # "unused" /\ (s \in workers \/ near[s] = "closed")
        /\ near[s] = "open" => s[1] \in working
        /\ outages = 0 /\ s \in mapped /\ near[s] = "closed" => s[1] \notin working

\* A socket's map and its adoption hold one lease of a job, and a current one only
\* if it is the worker's own.
MapsHold ==
    \A s \in Sockets :
        /\ \A p, q \in handoffs[s] : p[1] = q[1] => p = q
        /\ \A p, q \in adopting[s].found : p[1] = q[1] => p = q
        /\ \A p \in handoffs[s] \cup adopting[s].found :
              p[2] <= written /\ \A w \in HandoffWorkers : Current(w, p) => s[1] = w

\* The drain keeps the row it picked, and then the lease it wrote.
DrainHolds ==
    \A d \in drained :
        IF d.phase = "picked" THEN jobRow[d.job] = Waiting /\ written < LeaseMax
        ELSE d.lease \in 1..written /\
             (jobRow[d.job].status = "handed_off" => Current(d.sock[1], <<d.job, d.lease>>))

\* A lease is with the drain, then in one message, then in one execution.
OnePlace ==
    /\ \A d \in drained : d.phase # "picked" =>
          /\ \A m \in sending : m[3] # d.lease
          /\ \A x \in execution : x[3] # d.lease
    /\ \A m \in sending :
          /\ near[m[1]] = "open" /\ m[3] <= written
          /\ \A n \in sending : n[3] = m[3] => n = m
          /\ \A x \in execution : x[3] # m[3]
    /\ \A x \in execution : x[3] <= written /\ x[1] \in working

\* While no connection was lost, what is written, sent or run is what the rows say.
Undisturbed ==
    outages = 0 =>
        /\ \A m \in sending : Current(m[1][1], <<m[2], m[3]>>)
        /\ \A x \in execution : Current(x[1], <<x[2], x[3]>>)
        /\ \A d \in drained : d.phase # "picked" /\ d.sock[1] \in working =>
              Current(d.sock[1], <<d.job, d.lease>>)

\* A current lease whose job is on its way is in the map of the socket it took.
SentIsMapped ==
    \A m \in sending : \A w \in HandoffWorkers :
        Current(w, <<m[2], m[3]>>) /\ <<m[2], m[3]>> \notin left => <<m[2], m[3]>> \in handoffs[m[1]]

\* A current lease that is neither in a map nor with the drain will be adopted by
\* every socket of its worker that main takes for open.
UnmappedIsAdopted ==
    \A w \in HandoffWorkers : \A p \in Pairs \ left :
        /\ Current(w, p)
        /\ \A s \in mapped : p \notin handoffs[s]
        /\ \A d \in drained : d.job # p[1]
        => \A s \in Of(w) \cap workers : Adopts(s, p)

\* HeldIsRun, of the current leases.
CurrentIsRun ==
    \A w \in HandoffWorkers : \A p \in Pairs \ left : Current(w, p) =>
        \/ <<w, p[1], p[2]>> \in execution
        \/ \E m \in sending : m[2] = p[1] /\ m[3] = p[2]
        \/ \E d \in drained : d.job = p[1]
        \/ \E s \in Of(w) : near[s] = "closed" /\ (p \in handoffs[s] \/ Adopts(s, p))

\* The inductive invariant.
HandoffInductive ==
    /\ HandoffTypes /\ RowsHold /\ SocketsKnown /\ MapsHold /\ DrainHolds /\ OnePlace /\ Undisturbed
    /\ SentIsMapped /\ UnmappedIsAdopted /\ CurrentIsRun

\* The effect on the rows of giving p back or settling it: if p is current, its
\* row is not leased any more.
Frees(p) ==
    /\ jobRow' \in [HandoffJobs -> Rows]
    /\ \A w \in HandoffWorkers, q \in Pairs : Current(w, q)' <=> Current(w, q) /\ q # p
    /\ \A j \in HandoffJobs :
          \/ jobRow'[j] = jobRow[j]
          \/ /\ j = p[1] /\ \E w \in HandoffWorkers : Current(w, p)
             /\ jobRow'[j].status # "handed_off" /\ jobRow'[j].lease = 0 /\ jobRow'[j].by = {}

\* The effect on the maps of forgetting p: nothing else is lost from a map.
Forgets(p) ==
    /\ handoffs' \in [Sockets -> SUBSET Pairs]
    /\ workers \subseteq mapped' /\ mapped' \subseteq mapped /\ releasing' \subseteq mapped' \ workers
    /\ \A s \in Sockets :
          /\ handoffs[s] \ {p} \subseteq handoffs'[s] /\ handoffs'[s] \subseteq handoffs[s]
          /\ s \notin mapped' => handoffs'[s] = {}


\* The query for a worker's leases finds the current ones.
LEMMA LeasesAreCurrent ==
    ASSUME HandoffTypes, RowsHold, NEW w \in HandoffWorkers
    PROVE  \A p : p \in LeasesOf(w) <=> p \in Pairs /\ Current(w, p)
<1>1. ASSUME NEW p, p \in LeasesOf(w) PROVE p \in Pairs /\ Current(w, p)
  <2>1. PICK j \in HandoffJobs : jobRow[j].status = "handed_off" /\ w \in jobRow[j].by /\ p = <<j, jobRow[j].lease>>
      BY <1>1 DEF LeasesOf
  <2>2. jobRow[j].lease \in 1..LeaseMax /\ jobRow[j].by = {w}
      BY <2>1, HandoffAssumption DEF RowsHold, HandoffTypes
  <2> QED
      BY <2>1, <2>2 DEF Pairs, Current
<1>2. ASSUME NEW p \in Pairs, Current(w, p) PROVE p \in LeasesOf(w)
  <2>1. p[1] \in HandoffJobs /\ p = <<p[1], p[2]>>
      BY DEF Pairs
  <2> QED
      BY <1>2, <2>1 DEF LeasesOf, Current
<1> QED
    BY <1>1, <1>2

\* The inductive invariant implies the one that the runs check.
LEMMA HandoffInductiveImplies == HandoffInductive => HandoffInv
<1> SUFFICES ASSUME HandoffInductive PROVE HandoffInv
    OBVIOUS
<1>1. \A w \in HandoffWorkers : \A p : p \in LeasesOf(w) <=> p \in Pairs /\ Current(w, p)
    BY LeasesAreCurrent DEF HandoffInductive
<1>2. HandoffTypeOK
  <2>1. Cardinality(drained) <= 1
    <3>1. drained = {} \/ \E d : drained = {d}
        BY DEF HandoffInductive, HandoffTypes
    <3>2. Cardinality(drained) = 0 \/ Cardinality(drained) = 1
        BY <3>1, FS_EmptySet, FS_Singleton, Zenon
    <3> QED
        BY <3>2
  <2>2. sending \subseteq {<<s, p[1], p[2]>> : s \in Sockets, p \in Pairs}
    <3> SUFFICES ASSUME NEW m \in sending PROVE \E s \in Sockets, p \in Pairs : m = <<s, p[1], p[2]>>
        OBVIOUS
    <3>1. m \in Sockets \X HandoffJobs \X (1..LeaseMax)
        BY DEF HandoffInductive, HandoffTypes
    <3>2. m[1] \in Sockets /\ <<m[2], m[3]>> \in Pairs /\ m = <<m[1], m[2], m[3]>>
        BY <3>1 DEF Pairs
    <3> QED
        BY <3>2
  <2>3. execution \subseteq {<<w, p[1], p[2]>> : w \in HandoffWorkers, p \in Pairs}
    <3> SUFFICES ASSUME NEW m \in execution PROVE \E s \in HandoffWorkers, p \in Pairs : m = <<s, p[1], p[2]>>
        OBVIOUS
    <3>1. m \in HandoffWorkers \X HandoffJobs \X (1..LeaseMax)
        BY DEF HandoffInductive, HandoffTypes
    <3>2. m[1] \in HandoffWorkers /\ <<m[2], m[3]>> \in Pairs /\ m = <<m[1], m[2], m[3]>>
        BY <3>1 DEF Pairs
    <3> QED
        BY <3>2
  <2> QED
      BY <2>1, <2>2, <2>3 DEF HandoffInductive, HandoffTypes, SocketsKnown, MapsHold, HandoffTypeOK, Rows
<1>3. ConnectedIsTracked
  <2> SUFFICES ASSUME NEW w \in HandoffWorkers, NEW p \in LeasesOf(w) \ left,
                      Of(w) \cap workers # {},
                      \A s \in mapped : p \notin handoffs[s],
                      \A d \in drained : d.job # p[1]
               PROVE  \E s \in Of(w) \cap workers : Adopts(s, p)
      BY DEF ConnectedIsTracked
  <2> QED
      BY <1>1 DEF HandoffInductive, UnmappedIsAdopted
<1>4. HeldIsRun
    BY <1>1 DEF HandoffInductive, CurrentIsRun, HeldIsRun
<1>5. RestartDoublesNothing
  <2> SUFFICES ASSUME outages = 0, NEW x \in execution, NEW y \in execution, x[2] = y[2]
               PROVE  x = y
      BY DEF RestartDoublesNothing
  <2>1. Current(x[1], <<x[2], x[3]>>) /\ Current(y[1], <<y[2], y[3]>>)
      BY DEF HandoffInductive, Undisturbed
  <2>2. x[3] = y[3] /\ {x[1]} = {y[1]}
      BY <2>1 DEF Current
  <2>3. x = <<x[1], x[2], x[3]>> /\ y = <<y[1], y[2], y[3]>>
      BY DEF HandoffInductive, HandoffTypes
  <2> QED
      BY <2>2, <2>3
<1> QED
    BY <1>2, <1>3, <1>4, <1>5 DEF HandoffInv

\* Main and its workers start with queued jobs only.
LEMMA HandoffStarts == HandoffInit => HandoffInductive
<1> SUFFICES ASSUME HandoffInit PROVE HandoffInductive
    OBVIOUS
<1>1. HandoffTypes
    BY HandoffAssumption DEF HandoffInit, HandoffTypes, Rows, Waiting, NoAdoption
<1>2. RowsHold /\ SocketsKnown /\ MapsHold /\ DrainHolds /\ OnePlace
    BY DEF HandoffInit, RowsHold, SocketsKnown, MapsHold, DrainHolds, OnePlace, Waiting, NoAdoption
<1>3. Undisturbed /\ SentIsMapped /\ UnmappedIsAdopted /\ CurrentIsRun
    BY DEF HandoffInit, Undisturbed, SentIsMapped, UnmappedIsAdopted, CurrentIsRun, Waiting, Current,
       Pairs
<1> QED
    BY <1>1, <1>2, <1>3 DEF HandoffInductive

\* A row is freed only by its own lease.
LEMMA FreesRow ==
    ASSUME HandoffInductive, NEW p \in Pairs, NEW r \in Rows,
           r.status # "handed_off", r.lease = 0, r.by = {},
           jobRow' = IF jobRow[p[1]].lease # p[2] THEN jobRow ELSE [jobRow EXCEPT ![p[1]] = r]
    PROVE  Frees(p)
<1>1. p[1] \in HandoffJobs /\ p[2] \in 1..LeaseMax /\ p = <<p[1], p[2]>>
    BY DEF Pairs
<1>2. CASE jobRow[p[1]].lease # p[2]
    BY <1>2 DEF Frees, Current, HandoffInductive, HandoffTypes
<1>3. CASE jobRow[p[1]].lease = p[2]
  <2>1. /\ jobRow' \in [HandoffJobs -> Rows] /\ jobRow'[p[1]] = r
        /\ \A j \in HandoffJobs : j # p[1] => jobRow'[j] = jobRow[j]
      BY <1>1, <1>3 DEF HandoffInductive, HandoffTypes
  <2>2. \E w \in HandoffWorkers : Current(w, p)
      BY <1>1, <1>3 DEF HandoffInductive, RowsHold, Current
  <2>3. ASSUME NEW w \in HandoffWorkers, NEW q \in Pairs
        PROVE  Current(w, q)' <=> Current(w, q) /\ q # p
    <3>1. q[1] \in HandoffJobs /\ q = <<q[1], q[2]>>
        BY DEF Pairs
    <3>2. CASE q[1] = p[1]
        BY <1>1, <1>3, <2>1, <3>1, <3>2 DEF Current
    <3>3. CASE q[1] # p[1]
        BY <2>1, <3>1, <3>3 DEF Current
    <3> QED
        BY <3>2, <3>3
  <2> QED
      BY <2>1, <2>2, <2>3 DEF Frees
<1> QED
    BY <1>2, <1>3

\* A returned lease frees its row, and nobody is left with it.
LEMMA ReturnedFrees ==
    ASSUME HandoffInductive, NEW p \in Pairs, Returned(p) PROVE Frees(p) /\ left' = left \ {p}
<1>1. Waiting \in Rows /\ Waiting.status # "handed_off" /\ Waiting.lease = 0 /\ Waiting.by = {}
    BY HandoffAssumption DEF Waiting, Rows
<1>2. jobRow' = IF jobRow[p[1]].lease # p[2] THEN jobRow ELSE [jobRow EXCEPT ![p[1]] = Waiting]
    BY DEF Returned
<1>3. Frees(p)
    BY <1>1, <1>2, FreesRow
<1> QED
    BY <1>3 DEF Returned

\* A release that empties the map of a dead socket forgets the socket.
LEMMA EmptiedForgets ==
    ASSUME HandoffInductive, NEW s \in Sockets, NEW p \in handoffs[s], Emptied(s, p) PROVE Forgets(p)
<1>1. s \in mapped
    BY DEF HandoffInductive, SocketsKnown
<1>2. /\ handoffs' \in [Sockets -> SUBSET Pairs]
      /\ handoffs'[s] = handoffs[s] \ {p} /\ \A t \in Sockets : t # s => handoffs'[t] = handoffs[t]
    BY DEF Emptied, HandoffInductive, HandoffTypes
<1>3. CASE s \notin workers /\ handoffs[s] = {p}
    BY <1>1, <1>2, <1>3 DEF Emptied, Forgets, HandoffInductive, HandoffTypes, SocketsKnown
<1>4. CASE ~(s \notin workers /\ handoffs[s] = {p})
    BY <1>1, <1>2, <1>4 DEF Emptied, Forgets, HandoffInductive, HandoffTypes, SocketsKnown
<1> QED
    BY <1>3, <1>4

\* Sockets, messages and executions name a worker and a lease.
LEMMA TuplesTyped ==
    ASSUME HandoffTypes
    PROVE  /\ \A s \in Sockets : s[1] \in HandoffWorkers
           /\ \A p \in Pairs : p = <<p[1], p[2]>> /\ p[1] \in HandoffJobs /\ p[2] \in 1..LeaseMax
           /\ \A m \in sending : /\ m = <<m[1], m[2], m[3]>> /\ m[1] \in Sockets /\ m[2] \in HandoffJobs
                                 /\ m[3] \in 1..LeaseMax /\ <<m[2], m[3]>> \in Pairs
           /\ \A x \in execution : /\ x = <<x[1], x[2], x[3]>> /\ x[1] \in HandoffWorkers /\ x[2] \in HandoffJobs
                                   /\ x[3] \in 1..LeaseMax /\ <<x[2], x[3]>> \in Pairs
    BY DEF HandoffTypes, Sockets, Pairs

-----------------------------------------------------------------------------
(* The steps                                                               *)

\* A hello opens a socket that asks for the leases of its worker.
LEMMA HelloPreserves ==
    ASSUME HandoffInductive, NEW w \in HandoffWorkers, Hello(w)
    PROVE  HandoffInductive'
<1>1. PICK s \in Of(w) : near[s] = "unused" /\ near' = [near EXCEPT ![s] = "open"]
         /\ workers' = workers \cup {s} /\ mapped' = mapped \cup {s}
         /\ adopting' = [adopting EXCEPT ![s].phase = "asked"]
    BY DEF Hello
<1>2. /\ w \in working /\ s \in Sockets /\ s[1] = w /\ near[s] = "unused"
      /\ near' \in [Sockets -> {"unused", "open", "closed"}]
      /\ near'[s] = "open" /\ \A t \in Sockets : t # s => near'[t] = near[t]
      /\ workers' = workers \cup {s} /\ mapped' = mapped \cup {s} /\ s \notin mapped
      /\ adopting' \in [Sockets -> [phase : {"no", "asked", "read"}, found : SUBSET Pairs]]
      /\ adopting'[s].phase = "asked"
      /\ \A t \in Sockets : adopting'[t].found = adopting[t].found /\ (t # s => adopting'[t] = adopting[t])
      /\ UNCHANGED <<jobRow, written, mainUp, handoffs, releasing, drained, working, announced, draining,
                     sending, execution, left, outages>>
  <2>1. s \in Sockets /\ s[1] = w /\ s \notin mapped
      BY <1>1 DEF Of, HandoffInductive, SocketsKnown, HandoffTypes
  <2>2. /\ adopting' \in [Sockets -> [phase : {"no", "asked", "read"}, found : SUBSET Pairs]]
        /\ adopting'[s].phase = "asked"
        /\ \A t \in Sockets : adopting'[t].found = adopting[t].found /\ (t # s => adopting'[t] = adopting[t])
      BY <1>1, <2>1 DEF HandoffInductive, HandoffTypes
  <2>3. /\ near' \in [Sockets -> {"unused", "open", "closed"}]
        /\ near'[s] = "open" /\ \A t \in Sockets : t # s => near'[t] = near[t]
      BY <1>1, <2>1 DEF HandoffInductive, HandoffTypes
  <2> QED
      BY <1>1, <2>1, <2>2, <2>3 DEF Hello, people, hitches
<1>3. \A u, p : Current(u, p)' <=> Current(u, p)
    BY <1>2 DEF Current
<1>4. HandoffTypes'
    BY <1>3, <1>2, HandoffAssumption DEF HandoffInductive, HandoffTypes, Rows, Pairs, Drains, Sockets
<1>5. RowsHold'
    BY <1>3, <1>2, HandoffAssumption DEF HandoffInductive, RowsHold, HandoffTypes
<1>6. SocketsKnown'
    BY <1>3, <1>2, HandoffAssumption DEF HandoffInductive, SocketsKnown, HandoffTypes
<1>7. MapsHold'
    BY <1>3, <1>2, HandoffAssumption DEF HandoffInductive, MapsHold, HandoffTypes
<1>8. DrainHolds'
    BY <1>3, <1>2, HandoffAssumption DEF HandoffInductive, DrainHolds, HandoffTypes, Waiting
<1>9. OnePlace'
    BY <1>3, <1>2, HandoffAssumption DEF HandoffInductive, OnePlace, HandoffTypes
<1>10. Undisturbed'
    BY <1>3, <1>2, HandoffAssumption DEF HandoffInductive, Undisturbed, HandoffTypes, OnePlace
<1>11. SentIsMapped'
    BY <1>3, <1>2, HandoffAssumption DEF HandoffInductive, SentIsMapped, HandoffTypes, OnePlace
<1>12. UnmappedIsAdopted'
    BY <1>3, <1>2, HandoffAssumption DEF HandoffInductive, UnmappedIsAdopted, HandoffTypes, Adopts, Of
<1>13. CurrentIsRun'
  <2> SUFFICES ASSUME NEW u \in HandoffWorkers, NEW p \in Pairs \ left', Current(u, p),
                      NEW t \in Of(u), near[t] = "closed", p \in handoffs[t] \/ Adopts(t, p)
               PROVE  near'[t] = "closed" /\ (p \in handoffs'[t] \/ Adopts(t, p)')
      BY <1>2, <1>3 DEF HandoffInductive, CurrentIsRun, Of
  <2> QED
      BY <1>2 DEF Of, Adopts
<1> QED
    BY <1>4, <1>5, <1>6, <1>7, <1>8, <1>9, <1>10, <1>11, <1>12, <1>13 DEF HandoffInductive

\* What the query finds is current, and of the worker that asked.
LEMMA AdoptReadPreserves ==
    ASSUME HandoffInductive, NEW s \in Sockets, AdoptRead(s)
    PROVE  HandoffInductive'
<1>1. \A u \in HandoffWorkers : \A p : p \in LeasesOf(u) <=> p \in Pairs /\ Current(u, p)
    BY LeasesAreCurrent DEF HandoffInductive
<1>2. /\ adopting' \in [Sockets -> [phase : {"no", "asked", "read"}, found : SUBSET Pairs]]
      /\ adopting[s].phase = "asked"
      /\ adopting'[s].found = LeasesOf(s[1]) /\ \A t \in Sockets : t # s => adopting'[t] = adopting[t]
      /\ s[1] \in HandoffWorkers
      /\ \A p : p \in LeasesOf(s[1]) <=> p \in Pairs /\ Current(s[1], p)
      /\ UNCHANGED <<jobRow, written, workers, mapped, mainUp, handoffs, releasing, drained, working,
                     announced, draining, near, sending, execution, left, outages>>
  <2>1. s[1] \in HandoffWorkers
      BY DEF Sockets
  <2>2. \A p : p \in LeasesOf(s[1]) <=> p \in Pairs /\ Current(s[1], p)
      BY <1>1, <2>1
  <2>3. [phase |-> "read", found |-> LeasesOf(s[1])] \in [phase : {"no", "asked", "read"},
  found : SUBSET Pairs]
      BY <2>2
  <2> QED
      BY <2>1, <2>2, <2>3 DEF AdoptRead, people, hitches, HandoffInductive, HandoffTypes
<1>3. \A p, q \in LeasesOf(s[1]) : p[1] = q[1] => p = q
    BY <1>2 DEF Pairs, Current
<1>4. \A u, p : Current(u, p)' <=> Current(u, p)
    BY <1>2 DEF Current
<1>5. HandoffTypes'
    BY <1>4, <1>2, <1>3, HandoffAssumption DEF HandoffInductive, HandoffTypes, Rows, Pairs, Drains,
       Sockets
<1>6. RowsHold'
    BY <1>4, <1>2, <1>3, HandoffAssumption DEF HandoffInductive, RowsHold, HandoffTypes
<1>7. SocketsKnown'
    BY <1>4, <1>2, <1>3, HandoffAssumption DEF HandoffInductive, SocketsKnown, HandoffTypes
<1>8. MapsHold'
  <2>1. ASSUME NEW p \in LeasesOf(s[1])
        PROVE  p[2] <= written /\ \A u \in HandoffWorkers : Current(u, p) => s[1] = u
    <3>1. /\ jobRow[p[1]].status = "handed_off" /\ jobRow[p[1]].by = {s[1]}
          /\ jobRow[p[1]].lease = p[2] /\ p[1] \in HandoffJobs
        BY <1>2 DEF Current, Pairs
    <3>2. jobRow[p[1]].lease \in 1..written
        BY <3>1 DEF HandoffInductive, RowsHold
    <3>3. \A u \in HandoffWorkers : Current(u, p) => s[1] = u
        BY <3>1 DEF Current
    <3>4. written \in Nat
        BY HandoffAssumption DEF HandoffInductive, HandoffTypes
    <3> QED
        BY <3>1, <3>2, <3>3, <3>4
  <2> QED
      BY <1>2, <1>3, <1>4, <2>1 DEF HandoffInductive, MapsHold
<1>9. DrainHolds'
    BY <1>4, <1>2, <1>3, HandoffAssumption DEF HandoffInductive, DrainHolds, HandoffTypes, Waiting
<1>10. OnePlace'
    BY <1>4, <1>2, <1>3, HandoffAssumption DEF HandoffInductive, OnePlace, HandoffTypes
<1>11. Undisturbed'
    BY <1>4, <1>2, <1>3, HandoffAssumption DEF HandoffInductive, Undisturbed, HandoffTypes, OnePlace
<1>12. SentIsMapped'
    BY <1>4, <1>2, <1>3, HandoffAssumption DEF HandoffInductive, SentIsMapped, HandoffTypes, OnePlace
<1>13. UnmappedIsAdopted'
    BY <1>4, <1>2, <1>3, HandoffAssumption DEF HandoffInductive, UnmappedIsAdopted, HandoffTypes,
       Adopts, Of
<1>14. CurrentIsRun'
  <2> SUFFICES ASSUME NEW u \in HandoffWorkers, NEW p \in Pairs \ left', Current(u, p),
                      NEW t \in Of(u), near[t] = "closed", p \in handoffs[t] \/ Adopts(t, p)
               PROVE  near'[t] = "closed" /\ (p \in handoffs'[t] \/ Adopts(t, p)')
      BY <1>2, <1>4 DEF HandoffInductive, CurrentIsRun, Of
  <2>1. t \in Sockets /\ t[1] = u
      BY DEF Of
  <2>2. CASE t = s
      BY <1>2, <2>1, <2>2 DEF Adopts
  <2>3. CASE t # s
      BY <1>2, <2>1, <2>3 DEF Adopts
  <2> QED
      BY <2>2, <2>3
<1> QED
    BY <1>5, <1>6, <1>7, <1>8, <1>9, <1>10, <1>11, <1>12, <1>13, <1>14 DEF HandoffInductive

\* A failing query leaves the leases it would have found to the sweep.
LEMMA AdoptFailsPreserves ==
    ASSUME HandoffInductive, NEW s \in Sockets, AdoptFails(s)
    PROVE  HandoffInductive'
<1>1. \A u \in HandoffWorkers : \A p : p \in LeasesOf(u) <=> p \in Pairs /\ Current(u, p)
    BY LeasesAreCurrent DEF HandoffInductive
<1>2. /\ adopting' \in [Sockets -> [phase : {"no", "asked", "read"}, found : SUBSET Pairs]]
      /\ adopting'[s].found = {} /\ \A t \in Sockets : t # s => adopting'[t] = adopting[t]
      /\ s[1] \in HandoffWorkers /\ outages' \in Nat /\ outages' # 0
      /\ left' \subseteq Pairs /\ left \subseteq left'
      /\ \A p \in Pairs : Current(s[1], p) => p \in left'
      /\ UNCHANGED <<jobRow, written, workers, mapped, mainUp, handoffs, releasing, drained, working,
                     announced, draining, near, sending, execution>>
  <2>1. s[1] \in HandoffWorkers
      BY DEF Sockets
  <2>2. \A p : p \in LeasesOf(s[1]) <=> p \in Pairs /\ Current(s[1], p)
      BY <1>1, <2>1
  <2> QED
      BY <2>1, <2>2 DEF AdoptFails, NoAdoption, people, HandoffInductive, HandoffTypes
<1>3. \A u, p : Current(u, p)' <=> Current(u, p)
    BY <1>2 DEF Current
<1>4. HandoffTypes'
    BY <1>3, <1>2, HandoffAssumption DEF HandoffInductive, HandoffTypes, Rows, Pairs, Drains, Sockets
<1>5. RowsHold'
    BY <1>3, <1>2, HandoffAssumption DEF HandoffInductive, RowsHold, HandoffTypes
<1>6. SocketsKnown'
    BY <1>3, <1>2, HandoffAssumption DEF HandoffInductive, SocketsKnown, HandoffTypes
<1>7. MapsHold'
    BY <1>3, <1>2, HandoffAssumption DEF HandoffInductive, MapsHold, HandoffTypes
<1>8. DrainHolds'
    BY <1>3, <1>2, HandoffAssumption DEF HandoffInductive, DrainHolds, HandoffTypes, Waiting
<1>9. OnePlace'
    BY <1>3, <1>2, HandoffAssumption DEF HandoffInductive, OnePlace, HandoffTypes
<1>10. Undisturbed'
    BY <1>3, <1>2, HandoffAssumption DEF HandoffInductive, Undisturbed, HandoffTypes, OnePlace
<1>11. SentIsMapped'
    BY <1>3, <1>2, HandoffAssumption DEF HandoffInductive, SentIsMapped, HandoffTypes, OnePlace
<1>12. UnmappedIsAdopted'
    BY <1>3, <1>2, HandoffAssumption DEF HandoffInductive, UnmappedIsAdopted, HandoffTypes, Adopts, Of
<1>13. CurrentIsRun'
  <2> SUFFICES ASSUME NEW u \in HandoffWorkers, NEW p \in Pairs \ left', Current(u, p),
                      NEW t \in Of(u), near[t] = "closed", p \in handoffs[t] \/ Adopts(t, p)
               PROVE  near'[t] = "closed" /\ (p \in handoffs'[t] \/ Adopts(t, p)')
      BY <1>2, <1>3 DEF HandoffInductive, CurrentIsRun, Of
  <2>1. t \in Sockets /\ t[1] = u
      BY DEF Of
  <2>2. t # s \/ p \in handoffs[t]
      BY <1>2, <2>1
  <2> QED
      BY <1>2, <2>1, <2>2 DEF Adopts
<1> QED
    BY <1>4, <1>5, <1>6, <1>7, <1>8, <1>9, <1>10, <1>11, <1>12, <1>13 DEF HandoffInductive

\* The leases found enter the map, and those they overwrite are left.
LEMMA AdoptedPreserves ==
    ASSUME HandoffInductive, NEW s \in Sockets, Adopted(s)
    PROVE  HandoffInductive'
<1>1. \A u \in HandoffWorkers : \A p : p \in LeasesOf(u) <=> p \in Pairs /\ Current(u, p)
    BY LeasesAreCurrent DEF HandoffInductive
<1> DEFINE found == adopting[s].found
           taken == {f[1] : f \in found}
           over == {p \in handoffs[s] : p[1] \in taken /\ p \notin found}
           w == s[1]
<1>2. /\ w \in HandoffWorkers /\ found \subseteq Pairs /\ (s \in workers => s \in mapped)
      /\ \A p : p \in over <=> p \in handoffs[s] /\ p \notin found /\ \E f \in found : f[1] = p[1]
      /\ over \subseteq handoffs[s]
    BY DEF Sockets, HandoffInductive, HandoffTypes
<1>3. /\ adopting' \in [Sockets -> [phase : {"no", "asked", "read"}, found : SUBSET Pairs]]
      /\ adopting'[s].found = {} /\ adopting[s].phase = "read"
      /\ \A t \in Sockets : t # s => adopting'[t] = adopting[t]
      /\ handoffs' \in [Sockets -> SUBSET Pairs]
      /\ \A t \in Sockets : t # s => handoffs'[t] = handoffs[t]
      /\ left' \subseteq Pairs /\ left \subseteq left'
      /\ IF s \in workers THEN handoffs'[s] = (handoffs[s] \ over) \cup found
                               /\ \A p \in over : Current(w, p) => p \in left'
         ELSE handoffs'[s] = handoffs[s] /\ \A p \in found : Current(w, p) => p \in left'
      /\ UNCHANGED <<jobRow, written, workers, mapped, mainUp, releasing, drained, working,
                     announced, draining, near, sending, execution, outages>>
  <2>1. /\ adopting' \in [Sockets -> [phase : {"no", "asked", "read"}, found : SUBSET Pairs]]
        /\ adopting'[s].found = {} /\ adopting[s].phase = "read"
        /\ \A t \in Sockets : t # s => adopting'[t] = adopting[t]
        /\ UNCHANGED <<jobRow, written, workers, mapped, mainUp, releasing, drained, working,
                       announced, draining, near, sending, execution, outages>>
      BY DEF Adopted, NoAdoption, people, hitches, HandoffInductive, HandoffTypes
  <2>2. \A p : p \in LeasesOf(w) <=> p \in Pairs /\ Current(w, p)
      BY <1>1, <1>2
  <2>3. CASE s \in workers
    <3>1. /\ handoffs' = [handoffs EXCEPT ![s] = (@ \ over) \cup found]
          /\ left' = left \cup (over \cap LeasesOf(w))
        BY <1>2, <2>3 DEF Adopted
    <3>2. handoffs[s] \subseteq Pairs
        BY DEF HandoffInductive, HandoffTypes
    <3> HIDE DEF over, found, w
    <3>3. /\ handoffs' \in [Sockets -> SUBSET Pairs] /\ handoffs'[s] = (handoffs[s] \ over) \cup found
          /\ \A t \in Sockets : t # s => handoffs'[t] = handoffs[t]
        BY <1>2, <3>1, <3>2 DEF HandoffInductive, HandoffTypes
    <3>4. /\ left' \subseteq Pairs /\ left \subseteq left'
          /\ \A p \in over : Current(w, p) => p \in left'
        BY <1>2, <2>2, <3>1, <3>2 DEF HandoffInductive, HandoffTypes
    <3> QED
        BY <2>1, <2>3, <3>3, <3>4
  <2>4. CASE s \notin workers
    <3>1. handoffs' = handoffs /\ left' = left \cup (found \cap LeasesOf(w))
        BY <2>4 DEF Adopted
    <3> HIDE DEF over, found, w
    <3> QED
        BY <1>2, <2>1, <2>2, <2>4, <3>1 DEF HandoffInductive, HandoffTypes
  <2> QED
      BY <2>3, <2>4
<1> HIDE DEF over, taken
<1>4. \A t \in Sockets : \A p \in handoffs[t] : t = s \/ p \in handoffs'[t]
    BY <1>3
<1>5. \A u, p : Current(u, p)' <=> Current(u, p)
    BY <1>3 DEF Current
<1>6. HandoffTypes'
    BY <1>5, <1>2, <1>3, HandoffAssumption DEF HandoffInductive, HandoffTypes, Rows, Pairs, Drains,
       Sockets
<1>7. RowsHold'
    BY <1>5, <1>2, <1>3, HandoffAssumption DEF HandoffInductive, RowsHold, HandoffTypes
<1>8. SocketsKnown'
    BY <1>5, <1>2, <1>3, HandoffAssumption DEF HandoffInductive, SocketsKnown, HandoffTypes
<1>9. MapsHold'
  <2>1. \A p, q \in handoffs'[s] : p[1] = q[1] => p = q
      BY <1>2, <1>3 DEF HandoffInductive, MapsHold
  <2>2. \A p \in handoffs'[s] : p \in handoffs[s] \/ p \in found
      BY <1>3
  <2>3. ASSUME NEW t \in Sockets
        PROVE  \A p \in handoffs'[t] \cup adopting'[t].found :
                  p[2] <= written /\ \A u \in HandoffWorkers : Current(u, p) => t[1] = u
      BY <1>3, <2>2 DEF HandoffInductive, MapsHold
  <2> QED
      BY <1>3, <1>5, <2>1, <2>3 DEF HandoffInductive, MapsHold
<1>10. DrainHolds'
    BY <1>5, <1>2, <1>3, HandoffAssumption DEF HandoffInductive, DrainHolds, HandoffTypes, Waiting
<1>11. OnePlace'
    BY <1>5, <1>2, <1>3, HandoffAssumption DEF HandoffInductive, OnePlace, HandoffTypes
<1>12. Undisturbed'
    BY <1>5, <1>2, <1>3, HandoffAssumption DEF HandoffInductive, Undisturbed, HandoffTypes, OnePlace
<1>13. SentIsMapped'
  <2> SUFFICES ASSUME NEW m \in sending, NEW u \in HandoffWorkers, Current(u, <<m[2], m[3]>>),
                      <<m[2], m[3]>> \notin left'
               PROVE  <<m[2], m[3]>> \in handoffs'[m[1]]
      BY <1>3, <1>5 DEF SentIsMapped
  <2> DEFINE p == <<m[2], m[3]>>
  <2>1. p \in handoffs[m[1]] /\ m[1] \in Sockets
      BY <1>3 DEF HandoffInductive, SentIsMapped, HandoffTypes
  <2>2. m[1][1] = u
      BY <2>1 DEF HandoffInductive, MapsHold
  <2> QED
      BY <1>2, <1>3, <2>1, <2>2
<1>14. UnmappedIsAdopted'
  <2> SUFFICES ASSUME NEW u \in HandoffWorkers, NEW p \in Pairs \ left', Current(u, p),
                      \A t \in mapped : p \notin handoffs'[t],
                      \A d \in drained : d.job # p[1],
                      NEW t \in Of(u) \cap workers
               PROVE  Adopts(t, p)'
      BY <1>3, <1>5 DEF UnmappedIsAdopted, Of
  <2>1. t \in Sockets /\ t[1] = u /\ t \in mapped
      BY DEF Of, HandoffInductive, HandoffTypes
  <2>2. ASSUME NEW r \in mapped PROVE p \notin handoffs[r]
    <3> SUFFICES ASSUME p \in handoffs[r] PROVE FALSE
        OBVIOUS
    <3>1. r \in Sockets
        BY DEF HandoffInductive, HandoffTypes
    <3>2. r = s
        BY <1>3, <3>1
    <3>3. w = u
        BY <3>1, <3>2 DEF HandoffInductive, MapsHold
    <3> QED
        BY <1>3, <3>2, <3>3
  <2>3. Adopts(t, p)
      BY <1>3, <2>2 DEF HandoffInductive, UnmappedIsAdopted
  <2>4. t # s
    <3> SUFFICES ASSUME t = s PROVE FALSE
        OBVIOUS
    <3>1. p \in found
        BY <1>3, <2>3 DEF Adopts
    <3> QED
        BY <1>3, <2>1, <3>1
  <2> QED
      BY <1>3, <2>1, <2>3, <2>4 DEF Adopts
<1>15. CurrentIsRun'
  <2> SUFFICES ASSUME NEW u \in HandoffWorkers, NEW p \in Pairs \ left', Current(u, p),
                      NEW t \in Of(u), near[t] = "closed", p \in handoffs[t] \/ Adopts(t, p)
               PROVE  p \in handoffs'[t] \/ Adopts(t, p)'
      BY <1>3, <1>5 DEF HandoffInductive, CurrentIsRun, Of
  <2>1. t \in Sockets /\ t[1] = u
      BY DEF Of
  <2>2. CASE t # s
      BY <1>3, <2>1, <2>2 DEF Adopts
  <2>3. CASE t = s
      BY <1>2, <1>3, <2>1, <2>3 DEF Adopts
  <2> QED
      BY <2>2, <2>3
<1> QED
    BY <1>6, <1>7, <1>8, <1>9, <1>10, <1>11, <1>12, <1>13, <1>14, <1>15 DEF HandoffInductive

\* The drain picks a row that nobody has.
LEMMA PickPreserves ==
    ASSUME HandoffInductive, NEW j \in HandoffJobs, NEW s \in workers, Pick(j, s)
    PROVE  HandoffInductive'
<1>1. /\ mainUp /\ drained = {} /\ jobRow[j].status = "queued" /\ written < LeaseMax
      /\ drained' = {[job |-> j, sock |-> s, phase |-> "picked", lease |-> 0]}
      /\ UNCHANGED <<jobRow, written, book, people, near, sending, execution, left, hitches>>
    BY DEF Pick
<1> DEFINE c == [job |-> j, sock |-> s, phase |-> "picked", lease |-> 0]
<1>2. c \in Drains /\ c.phase = "picked" /\ c.job = j
    BY HandoffAssumption DEF Drains, HandoffInductive, HandoffTypes
<1>3. jobRow[j] = Waiting
    BY <1>1 DEF Waiting, Rows, HandoffInductive, HandoffTypes, RowsHold
<1>4. drained' = {c}
    BY <1>1
<1> HIDE DEF c
<1>5. /\ drained = {} /\ written < LeaseMax
      /\ UNCHANGED <<jobRow, written, workers, mapped, handoffs, releasing, adopting, mainUp, working,
                     stopping, announced, draining, near, sending, execution, left, outages>>
    BY <1>1 DEF book, people, hitches
<1>6. \A u, p : Current(u, p)' <=> Current(u, p)
    BY <1>5 DEF Current
<1>7. HandoffTypes'
    BY <1>6, <1>2, <1>3, <1>4, <1>5, HandoffAssumption DEF HandoffInductive, HandoffTypes, Rows, Pairs,
       Drains, Sockets
<1>8. RowsHold'
    BY <1>6, <1>2, <1>3, <1>4, <1>5, HandoffAssumption DEF HandoffInductive, RowsHold, HandoffTypes
<1>9. SocketsKnown'
    BY <1>6, <1>2, <1>3, <1>4, <1>5, HandoffAssumption DEF HandoffInductive, SocketsKnown, HandoffTypes
<1>10. MapsHold'
    BY <1>6, <1>2, <1>3, <1>4, <1>5, HandoffAssumption DEF HandoffInductive, MapsHold, HandoffTypes
<1>11. DrainHolds'
    BY <1>6, <1>2, <1>3, <1>4, <1>5, HandoffAssumption DEF HandoffInductive, DrainHolds, HandoffTypes,
       Waiting
<1>12. OnePlace'
    BY <1>6, <1>2, <1>3, <1>4, <1>5, HandoffAssumption DEF HandoffInductive, OnePlace, HandoffTypes
<1>13. Undisturbed'
    BY <1>6, <1>2, <1>3, <1>4, <1>5, HandoffAssumption DEF HandoffInductive, Undisturbed, HandoffTypes,
       OnePlace
<1>14. SentIsMapped'
    BY <1>6, <1>2, <1>3, <1>4, <1>5, HandoffAssumption DEF HandoffInductive, SentIsMapped,
       HandoffTypes, OnePlace
<1>15. UnmappedIsAdopted'
    BY <1>6, <1>2, <1>3, <1>4, <1>5, HandoffAssumption DEF HandoffInductive, UnmappedIsAdopted,
       HandoffTypes, Adopts, Of
<1>16. CurrentIsRun'
    BY <1>6, <1>2, <1>3, <1>4, <1>5, HandoffAssumption DEF HandoffInductive, CurrentIsRun,
       HandoffTypes, Adopts, Of
<1> QED
    BY <1>7, <1>8, <1>9, <1>10, <1>11, <1>12, <1>13, <1>14, <1>15, <1>16 DEF HandoffInductive

\* A lease that is written is new: no map, message or execution has it.
LEMMA HandOffPreserves ==
    ASSUME HandoffInductive, NEW d \in drained, HandOff(d)
    PROVE  HandoffInductive'
<1>1. written \in Nat
    BY HandoffAssumption DEF HandoffInductive, HandoffTypes
<1>2. PICK l \in Nat : l = written + 1
    BY <1>1
<1> DEFINE e == [d EXCEPT !.phase = "written", !.lease = l]
           p == <<d.job, l>>
           v == d.sock[1]
<1>3. /\ drained = {d} /\ d \in Drains /\ d.phase = "picked" /\ jobRow[d.job] = Waiting
      /\ l \in 1..LeaseMax /\ written \in Nat /\ d.job \in HandoffJobs /\ v \in HandoffWorkers /\ p \in Pairs
  <2>1. drained = {d} /\ d \in Drains /\ d.phase = "picked"
      BY DEF HandOff, HandoffInductive, HandoffTypes
  <2>2. jobRow[d.job] = Waiting /\ written < LeaseMax
      BY <2>1 DEF HandoffInductive, DrainHolds
  <2>3. l \in 1..LeaseMax /\ written \in Nat
      BY <1>1, <1>2, <2>2, HandoffAssumption
  <2> QED
      BY <2>1, <2>2, <2>3 DEF Drains, Sockets, Pairs
<1>4. /\ jobRow' \in [HandoffJobs -> Rows]
      /\ jobRow'[d.job] = [status |-> "handed_off", by |-> {v}, lease |-> l]
      /\ \A j \in HandoffJobs : j # d.job => jobRow'[j] = jobRow[j]
      /\ written' = l
      /\ drained' = {e} /\ e \in Drains /\ e.job = d.job /\ e.sock = d.sock /\ e.phase = "written" /\ e.lease = l
      /\ UNCHANGED <<workers, mapped, handoffs, releasing, adopting, mainUp, working,
                     stopping, announced, draining, near, sending, execution, left, outages>>
  <2>1. [status |-> "handed_off", by |-> {v}, lease |-> l] \in Rows
      BY <1>3, HandoffAssumption DEF Rows
  <2>2. jobRow' = [jobRow EXCEPT ![d.job] = [status |-> "handed_off", by |-> {v}, lease |-> l]]
      BY <1>2 DEF HandOff
  <2>3. jobRow \in [HandoffJobs -> Rows]
      BY DEF HandoffInductive, HandoffTypes
  <2>4. e \in Drains /\ e.job = d.job /\ e.sock = d.sock /\ e.phase = "written" /\ e.lease = l
    <3>1. e.job = d.job /\ e.sock = d.sock /\ e.phase = "written" /\ e.lease = l
        BY <1>3 DEF Drains
    <3>2. l \in 0..LeaseMax
        BY <1>3
    <3>3. e \in Drains
        BY <1>3, <3>2 DEF Drains
    <3> QED
        BY <3>1, <3>3
  <2>5. drained' = {e} /\ written' = l
      BY <1>2 DEF HandOff
  <2> QED
      BY <1>3, <2>1, <2>2, <2>3, <2>4, <2>5 DEF HandOff, book, people, hitches
<1> HIDE DEF e
<1>5. \A u \in HandoffWorkers, q \in Pairs :
         Current(u, q)' <=> Current(u, q) \/ (u = v /\ q = p)
  <2> SUFFICES ASSUME NEW u \in HandoffWorkers, NEW q \in Pairs
               PROVE  Current(u, q)' <=> Current(u, q) \/ (u = v /\ q = p)
      OBVIOUS
  <2>1. q = <<q[1], q[2]>> /\ q[1] \in HandoffJobs
      BY DEF Pairs
  <2>2. CASE q[1] = d.job
    <3>1. ~Current(u, q)
        BY <1>3, <2>2 DEF Current, Waiting
    <3>2. Current(u, q)' <=> {v} = {u} /\ l = q[2]
        BY <1>4, <2>2 DEF Current
    <3>3. {v} = {u} <=> u = v
        OBVIOUS
    <3> QED
        BY <2>1, <2>2, <3>1, <3>2, <3>3
  <2>3. CASE q[1] # d.job
      BY <1>4, <2>1, <2>3 DEF Current
  <2> QED
      BY <2>2, <2>3
<1>6. /\ \A s \in Sockets : \A q \in handoffs[s] \cup adopting[s].found : q \in Pairs /\ q # p
      /\ \A m \in sending : m[3] # l /\ <<m[2], m[3]>> \in Pairs /\ m[1] \in Sockets /\ m[1][1] \in HandoffWorkers
      /\ \A x \in execution : x[3] # l /\ <<x[2], x[3]>> \in Pairs /\ x[1] \in HandoffWorkers
  <2>1. \A s \in Sockets : \A q \in handoffs[s] \cup adopting[s].found : q \in Pairs /\ q[2] <= written
      BY DEF HandoffInductive, HandoffTypes, MapsHold
  <2>2. \A q \in Pairs : q[2] \in Nat
      BY HandoffAssumption DEF Pairs
  <2>3. \A m \in sending : m[3] <= written /\ m[3] \in Nat /\ <<m[2],
  m[3]>> \in Pairs /\ m[1] \in Sockets /\ m[1][1] \in HandoffWorkers
      BY HandoffAssumption DEF HandoffInductive, HandoffTypes, OnePlace, Pairs, Sockets
  <2>4. \A m \in execution : m[3] <= written /\ m[3] \in Nat /\ <<m[2],
  m[3]>> \in Pairs /\ m[1] \in HandoffWorkers
      BY HandoffAssumption DEF HandoffInductive, HandoffTypes, OnePlace, Pairs
  <2> QED
      BY <1>2, <1>3, <2>1, <2>2, <2>3, <2>4
<1> HIDE DEF p, v
<1>7. HandoffTypes'
    BY <1>3, <1>4 DEF HandoffInductive, HandoffTypes
<1>8. RowsHold'
    BY <1>2, <1>3, <1>4 DEF HandoffInductive, RowsHold
<1>9. SocketsKnown'
    BY <1>3, <1>4, <1>5, <1>6, HandoffAssumption DEF HandoffInductive, SocketsKnown, HandoffTypes
<1>10. MapsHold'
  <2>1. \A s \in Sockets : \A q \in handoffs[s] \cup adopting[s].found :
           q[2] <= l /\ \A u \in HandoffWorkers : Current(u, q)' => s[1] = u
    <3>1. \A q \in Pairs : q[2] \in Nat
        BY HandoffAssumption DEF Pairs
    <3> QED
        BY <1>2, <1>3, <1>4, <1>5, <1>6, <3>1 DEF HandoffInductive, MapsHold
  <2> QED
      BY <1>4, <2>1 DEF HandoffInductive, MapsHold
<1>11. DrainHolds'
  <2>1. Current(v, p)'
      BY <1>3, <1>5
  <2> QED
      BY <1>3, <1>4, <2>1 DEF DrainHolds, v, p
<1>12. OnePlace'
    BY <1>2, <1>3, <1>4, <1>6, HandoffAssumption DEF HandoffInductive, OnePlace, HandoffTypes
<1>13. Undisturbed'
  <2>1. Current(v, p)'
      BY <1>3, <1>5
  <2>2. \A c \in drained' : Current(c.sock[1], <<c.job, c.lease>>)'
      BY <1>4, <2>1 DEF v, p
  <2> QED
      BY <1>4, <1>5, <1>6, <2>2 DEF HandoffInductive, Undisturbed
<1>14. SentIsMapped'
  <2>1. \A m \in sending : <<m[2], m[3]>> # p
      BY <1>6 DEF p
  <2> QED
      BY <1>4, <1>5, <1>6, <2>1 DEF HandoffInductive, SentIsMapped
<1>15. UnmappedIsAdopted'
  <2>1. \A u \in HandoffWorkers, q \in Pairs : q[1] # d.job => ~Current(u, q)' \/ Current(u, q)
      BY <1>5 DEF p
  <2> QED
      BY <1>3, <1>4, <2>1 DEF HandoffInductive, UnmappedIsAdopted, Adopts
<1>16. CurrentIsRun'
  <2>1. \A u \in HandoffWorkers, q \in Pairs : q[1] # d.job => ~Current(u, q)' \/ Current(u, q)
      BY <1>5 DEF p
  <2> QED
      BY <1>3, <1>4, <2>1 DEF HandoffInductive, CurrentIsRun, Adopts
<1> QED
    BY <1>7, <1>8, <1>9, <1>10, <1>11, <1>12, <1>13, <1>14, <1>15, <1>16 DEF HandoffInductive

\* The lease moves from the drain to the map and, if the socket is open, into a
\* message.
LEMMA DeliverJobPreserves ==
    ASSUME HandoffInductive, NEW d \in drained, DeliverJob(d)
    PROVE  HandoffInductive'
<1> DEFINE s == d.sock
           p == <<d.job, d.lease>>
           m == <<d.sock, d.job, d.lease>>
<1>1. /\ drained = {d} /\ d \in Drains /\ d.phase = "written" /\ d.job \in HandoffJobs /\ s \in Sockets
      /\ s[1] \in HandoffWorkers /\ d.lease \in 1..written /\ p \in Pairs
      /\ jobRow[d.job].status = "handed_off" => Current(s[1], p)
      /\ \A n \in sending : n[3] # d.lease
      /\ \A x \in execution : x[3] # d.lease
  <2>1. drained = {d} /\ d \in Drains /\ d.phase = "written"
      BY DEF DeliverJob, HandoffInductive, HandoffTypes
  <2>2. d.lease \in 1..written /\ (jobRow[d.job].status = "handed_off" => Current(s[1], p))
      BY <2>1 DEF HandoffInductive, DrainHolds
  <2>3. d.job \in HandoffJobs /\ s \in Sockets /\ s[1] \in HandoffWorkers
      BY <2>1 DEF Drains, Sockets
  <2>4. p \in Pairs
      BY <2>2, <2>3, HandoffAssumption DEF Pairs, HandoffInductive, HandoffTypes
  <2>5. (\A n \in sending : n[3] # d.lease) /\ \A x \in execution : x[3] # d.lease
      BY <2>1 DEF HandoffInductive, OnePlace
  <2> QED
      BY <2>1, <2>2, <2>3, <2>4, <2>5
<1>2. \A u \in HandoffWorkers, q \in Pairs : q[1] = d.job /\ Current(u, q) => q = p /\ u = s[1]
  <2> SUFFICES ASSUME NEW u \in HandoffWorkers, NEW q \in Pairs, q[1] = d.job, Current(u, q)
               PROVE  q = p /\ u = s[1]
      OBVIOUS
  <2>1. Current(s[1], p)
      BY <1>1 DEF Current
  <2>2. q[2] = d.lease /\ {u} = {s[1]}
      BY <2>1 DEF Current
  <2>3. q = <<q[1], q[2]>>
      BY TuplesTyped DEF HandoffInductive
  <2> QED
      BY <2>2, <2>3
<1>3. UNCHANGED <<jobRow, written, workers, mapped, releasing, adopting, mainUp, working,
                  stopping, announced, draining, near, execution, left, outages>>
    BY DEF DeliverJob, people, hitches
<1>4. \A u, q : Current(u, q)' <=> Current(u, q)
    BY <1>3 DEF Current
<1>5. /\ \A n \in sending : n = <<n[1], n[2], n[3]>> /\ n[1] \in Sockets /\ <<n[2], n[3]>> \in Pairs
      /\ \A x \in execution : x = <<x[1], x[2], x[3]>> /\ x[1] \in HandoffWorkers
      /\ \A q \in Pairs : q = <<q[1], q[2]>>
    BY TuplesTyped DEF HandoffInductive
<1>6. CASE d.sock \notin workers \ draining
  <2> DEFINE e == [d EXCEPT !.phase = "recovering"]
  <2>1. e \in Drains /\ e.job = d.job /\ e.sock = d.sock /\ e.phase = "recovering" /\ e.lease = d.lease
      BY <1>1 DEF Drains
  <2>2. drained' = {e} /\ UNCHANGED <<handoffs, sending>>
      BY <1>6 DEF DeliverJob
  <2> HIDE DEF e
  <2>3. HandoffTypes' /\ RowsHold' /\ SocketsKnown' /\ MapsHold'
      BY <1>3, <1>4, <2>1, <2>2 DEF HandoffInductive, HandoffTypes, RowsHold, SocketsKnown, MapsHold
  <2>4. DrainHolds' /\ OnePlace'
      BY <1>1, <1>3, <1>4, <2>1, <2>2 DEF HandoffInductive, DrainHolds, OnePlace
  <2>5. Undisturbed' /\ SentIsMapped' /\ UnmappedIsAdopted' /\ CurrentIsRun'
      BY <1>1, <1>3, <1>4, <2>1, <2>2
         DEF HandoffInductive, Undisturbed, SentIsMapped, UnmappedIsAdopted, CurrentIsRun, Adopts
  <2> QED
      BY <2>3, <2>4, <2>5 DEF HandoffInductive
<1>7. CASE d.sock \in workers \ draining
  <2>E. /\ drained' = {} /\ s \in workers /\ s \in mapped
        /\ handoffs' \in [Sockets -> SUBSET Pairs]
        /\ handoffs'[s] = {q \in handoffs[s] : q[1] # d.job} \cup {p}
        /\ \A t \in Sockets : t # s => handoffs'[t] = handoffs[t]
        /\ near[s] # "open" => sending' = sending
        /\ near[s] = "open" => sending' = sending \cup {m}
    <3>1. handoffs' = [handoffs EXCEPT ![s] = {q \in @ : q[1] # d.job} \cup {p}]
        BY <1>7 DEF DeliverJob
    <3>2. handoffs \in [Sockets -> SUBSET Pairs] /\ workers \subseteq mapped
        BY DEF HandoffInductive, HandoffTypes
    <3> QED
        BY <1>1, <1>7, <3>1, <3>2 DEF DeliverJob
  <2>M. m = <<m[1], m[2],
  m[3]>> /\ m[1] = s /\ m[2] = d.job /\ m[3] = d.lease /\ m \in Sockets \X HandoffJobs \X (1..LeaseMax)
      BY <1>1, HandoffAssumption DEF HandoffInductive, HandoffTypes
  <2>N. near[s] \in {"open", "closed"}
      BY <1>1, <2>E DEF HandoffInductive, HandoffTypes, SocketsKnown
  <2>U. sending \subseteq sending' /\ \A n \in sending' : n \in sending \/ (n = m /\ near[s] = "open")
      BY <2>E
  <2> HIDE DEF m
  <2>1. HandoffTypes'
      BY <1>3, <2>E, <2>M, <2>U DEF HandoffInductive, HandoffTypes
  <2>2. RowsHold' /\ SocketsKnown' /\ DrainHolds'
      BY <1>3, <1>4, <2>E DEF HandoffInductive, RowsHold, SocketsKnown, DrainHolds
  <2>3. MapsHold'
    <3>1. \A q \in handoffs'[s] : q = p \/ (q \in handoffs[s] /\ q[1] # d.job)
        BY <2>E
    <3>2. p[1] = d.job /\ p[2] <= written
        BY <1>1, HandoffAssumption DEF HandoffInductive, HandoffTypes
    <3>3. \A q, r \in handoffs'[s] : q[1] = r[1] => q = r
        BY <1>1, <3>1, <3>2 DEF HandoffInductive, MapsHold
    <3>4. \A q \in handoffs'[s] : q[2] <= written /\ \A u \in HandoffWorkers : Current(u, q) => s[1] = u
        BY <1>1, <1>2, <3>1, <3>2 DEF HandoffInductive, MapsHold
    <3> QED
        BY <1>3, <1>4, <2>E, <3>3, <3>4 DEF HandoffInductive, MapsHold
  <2>4. OnePlace'
      BY <1>1, <1>3, <2>E, <2>M, <2>U DEF HandoffInductive, OnePlace, HandoffTypes
  <2>5. Undisturbed'
    <3>1. ASSUME outages = 0, near[s] = "open" PROVE Current(s[1], p)
      <4>1. s[1] \in working
          BY <1>1, <3>1 DEF HandoffInductive, SocketsKnown
      <4> QED
          BY <1>1, <3>1, <4>1 DEF HandoffInductive, Undisturbed
    <3> QED
        BY <1>3, <1>4, <2>E, <2>M, <2>U, <3>1 DEF HandoffInductive, Undisturbed
  <2>6. SentIsMapped'
    <3> SUFFICES ASSUME NEW n \in sending', NEW u \in HandoffWorkers, Current(u, <<n[2], n[3]>>),
                        <<n[2], n[3]>> \notin left
                 PROVE  <<n[2], n[3]>> \in handoffs'[n[1]]
        BY <1>3, <1>4 DEF SentIsMapped
    <3>1. CASE n = m
        BY <2>E, <2>M, <3>1
    <3>2. CASE n \in sending
      <4>1. <<n[2], n[3]>> \in handoffs[n[1]]
          BY <3>2 DEF HandoffInductive, SentIsMapped
      <4>2. n[2] # d.job
          BY <1>1, <1>2, <1>5, <3>2
      <4> QED
          BY <1>5, <2>E, <3>2, <4>1, <4>2
    <3> QED
        BY <2>U, <3>1, <3>2
  <2>7. UnmappedIsAdopted'
    <3> SUFFICES ASSUME NEW u \in HandoffWorkers, NEW q \in Pairs \ left, Current(u, q),
                        \A t \in mapped : q \notin handoffs'[t]
                 PROVE  /\ \A t \in mapped : q \notin handoffs[t]
                        /\ \A c \in drained : c.job # q[1]
        BY <1>3, <1>4 DEF HandoffInductive, UnmappedIsAdopted, Adopts
    <3>1. q # p
        BY <2>E
    <3>2. q[1] # d.job
        BY <1>2, <3>1
    <3> QED
        BY <1>1, <2>E, <3>2 DEF HandoffInductive, HandoffTypes
  <2>8. CurrentIsRun'
    <3> SUFFICES ASSUME NEW u \in HandoffWorkers, NEW q \in Pairs \ left, Current(u, q)
                 PROVE  \/ <<u, q[1], q[2]>> \in execution
                        \/ \E n \in sending' : n[2] = q[1] /\ n[3] = q[2]
                        \/ \E t \in Of(u) : near[t] = "closed" /\ (q \in handoffs'[t] \/ Adopts(t, q))
        BY <1>3, <1>4, <2>E DEF CurrentIsRun, Adopts, Of
    <3>1. CASE q[1] = d.job
      <4>1. q = p /\ u = s[1]
          BY <1>2, <3>1
      <4>2. CASE near[s] = "open"
          BY <2>E, <2>M, <4>1, <4>2
      <4>3. CASE near[s] = "closed"
          BY <1>1, <2>E, <4>1, <4>3 DEF Of
      <4> QED
          BY <2>N, <4>2, <4>3
    <3>2. CASE q[1] # d.job
      <4>1. \A t \in Of(u) : q \in handoffs[t] => q \in handoffs'[t]
          BY <1>1, <2>E, <3>2 DEF Of
      <4> QED
          BY <1>1, <2>U, <3>2, <4>1 DEF HandoffInductive, CurrentIsRun
    <3> QED
        BY <3>1, <3>2
  <2> QED
      BY <2>1, <2>2, <2>3, <2>4, <2>5, <2>6, <2>7, <2>8 DEF HandoffInductive
<1> QED
    BY <1>6, <1>7

\* The lease that was not sent is given back.
LEMMA RecoveredPreserves ==
    ASSUME HandoffInductive, NEW d \in drained, Recovered(d)
    PROVE  HandoffInductive'
<1> DEFINE p == <<d.job, d.lease>>
<1>1. /\ drained = {d} /\ d \in Drains /\ d.phase = "recovering" /\ d.sock[1] \in HandoffWorkers
      /\ p \in Pairs /\ (jobRow[d.job].status = "handed_off" => Current(d.sock[1], p))
  <2>1. drained = {d} /\ d \in Drains /\ d.phase = "recovering"
      BY DEF Recovered, HandoffInductive, HandoffTypes
  <2>2. d.lease \in 1..written /\ (jobRow[d.job].status = "handed_off" => Current(d.sock[1], p))
      BY <2>1 DEF HandoffInductive, DrainHolds
  <2> QED
      BY <2>1, <2>2, HandoffAssumption DEF Drains, Sockets, Pairs, HandoffInductive, HandoffTypes
<1>2. Frees(p) /\ left' = left \ {p}
    BY <1>1, ReturnedFrees DEF Recovered
<1>3. /\ drained' = {}
      /\ UNCHANGED <<written, workers, mapped, releasing, handoffs, adopting, mainUp, working,
                     stopping, announced, draining, near, sending, execution, outages>>
    BY DEF Recovered, book, people, hitches
<1>4. \A u \in HandoffWorkers, q \in Pairs : Current(u, q)' => Current(u, q) /\ q[1] # d.job /\ q # p
  <2> SUFFICES ASSUME NEW u \in HandoffWorkers, NEW q \in Pairs, Current(u, q), q[1] = d.job
               PROVE  q = p
      BY <1>2 DEF Frees
  <2>1. Current(d.sock[1], p)
      BY <1>1 DEF Current
  <2>2. q[2] = d.lease
      BY <2>1 DEF Current
  <2> QED
      BY <2>2 DEF Pairs
<1>5. \A j \in HandoffJobs :
          jobRow'[j] = jobRow[j] \/ (jobRow'[j].status # "handed_off" /\ jobRow'[j].lease = 0 /\ jobRow'[j].by = {})
    BY <1>2 DEF Frees
<1>6. /\ \A n \in sending : n[1] \in Sockets /\ <<n[2], n[3]>> \in Pairs /\ <<n[2], n[3]>> # p
                            /\ n[1][1] \in HandoffWorkers
      /\ \A x \in execution : x[1] \in HandoffWorkers /\ <<x[2], x[3]>> \in Pairs /\ <<x[2], x[3]>> # p
      /\ \A s \in Sockets : \A q \in handoffs[s] \cup adopting[s].found : q \in Pairs
  <2>1. (\A n \in sending : n[3] # d.lease) /\ \A x \in execution : x[3] # d.lease
      BY <1>1 DEF HandoffInductive, OnePlace
  <2>2. \A s \in Sockets : s[1] \in HandoffWorkers
      BY TuplesTyped DEF HandoffInductive
  <2> QED
      BY <2>1, <2>2, TuplesTyped DEF HandoffInductive, HandoffTypes
<1> HIDE DEF p
<1>7. HandoffTypes'
    BY <1>2, <1>3 DEF Frees, HandoffInductive, HandoffTypes
<1>8. RowsHold'
    BY <1>3, <1>5 DEF HandoffInductive, RowsHold
<1>9. SocketsKnown'
    BY <1>3 DEF HandoffInductive, SocketsKnown
<1>10. MapsHold'
    BY <1>3, <1>4, <1>6 DEF HandoffInductive, MapsHold
<1>11. DrainHolds'
    BY <1>3 DEF DrainHolds
<1>12. OnePlace'
    BY <1>3 DEF HandoffInductive, OnePlace
<1>13. Undisturbed'
  <2>1. \A u \in HandoffWorkers, q \in Pairs : Current(u, q) /\ q # p => Current(u, q)'
      BY <1>2 DEF Frees
  <2> QED
      BY <1>3, <1>6, <2>1 DEF HandoffInductive, Undisturbed
<1>14. SentIsMapped'
    BY <1>2, <1>3, <1>4, <1>6 DEF HandoffInductive, SentIsMapped
<1>15. UnmappedIsAdopted'
    BY <1>1, <1>2, <1>3, <1>4 DEF HandoffInductive, UnmappedIsAdopted, Adopts
<1>16. CurrentIsRun'
    BY <1>1, <1>2, <1>3, <1>4 DEF HandoffInductive, CurrentIsRun, Adopts
<1> QED
    BY <1>7, <1>8, <1>9, <1>10, <1>11, <1>12, <1>13, <1>14, <1>15, <1>16 DEF HandoffInductive

\* Only an empty map is dropped at the close.
LEMMA CloseSeenPreserves ==
    ASSUME HandoffInductive, NEW s \in Sockets, CloseSeen(s)
    PROVE  HandoffInductive'
<1>1. /\ s \in workers /\ near[s] = "closed" /\ s[1] \in HandoffWorkers
      /\ workers' = workers \ {s}
      /\ mapped' \subseteq mapped /\ \A t \in mapped \ mapped' : t = s /\ handoffs[t] = {}
      /\ releasing' \subseteq mapped' \ workers' /\ workers' \subseteq mapped'
      /\ UNCHANGED <<jobRow, written, handoffs, adopting, mainUp, drained, working,
                     announced, draining, near, sending, execution, left, outages>>
    BY DEF CloseSeen, people, hitches, Sockets, HandoffInductive, HandoffTypes
<1>2. \A u, p : Current(u, p)' <=> Current(u, p)
    BY <1>1 DEF Current
<1>3. HandoffTypes'
    BY <1>2, <1>1, HandoffAssumption DEF HandoffInductive, HandoffTypes, Rows, Pairs, Drains, Sockets
<1>4. RowsHold'
    BY <1>2, <1>1, HandoffAssumption DEF HandoffInductive, RowsHold, HandoffTypes
<1>5. SocketsKnown'
    BY <1>2, <1>1, HandoffAssumption DEF HandoffInductive, SocketsKnown, HandoffTypes
<1>6. MapsHold'
    BY <1>2, <1>1, HandoffAssumption DEF HandoffInductive, MapsHold, HandoffTypes
<1>7. DrainHolds'
    BY <1>2, <1>1, HandoffAssumption DEF HandoffInductive, DrainHolds, HandoffTypes, Waiting
<1>8. OnePlace'
    BY <1>2, <1>1, HandoffAssumption DEF HandoffInductive, OnePlace, HandoffTypes
<1>9. Undisturbed'
    BY <1>2, <1>1, HandoffAssumption DEF HandoffInductive, Undisturbed, HandoffTypes, OnePlace
<1>10. SentIsMapped'
    BY <1>2, <1>1, HandoffAssumption DEF HandoffInductive, SentIsMapped, HandoffTypes, OnePlace
<1>11. UnmappedIsAdopted'
    BY <1>2, <1>1, HandoffAssumption DEF HandoffInductive, UnmappedIsAdopted, HandoffTypes, Adopts, Of
<1>12. CurrentIsRun'
    BY <1>2, <1>1, HandoffAssumption DEF HandoffInductive, CurrentIsRun, HandoffTypes, Adopts, Of
<1> QED
    BY <1>3, <1>4, <1>5, <1>6, <1>7, <1>8, <1>9, <1>10, <1>11, <1>12 DEF HandoffInductive

\* A lease of a closed socket is given back: unless a connection was lost, its
\* worker has gone.
LEMMA ReleaseNextPreserves ==
    ASSUME HandoffInductive, NEW s \in releasing, NEW p \in handoffs[s], ReleaseNext(s, p)
    PROVE  HandoffInductive'
<1>1. s \in Sockets /\ s \in mapped /\ s \notin workers /\ near[s] = "closed" /\ p \in Pairs
      /\ s[1] \in HandoffWorkers
    BY DEF HandoffInductive, HandoffTypes, SocketsKnown, Sockets
<1>2. Frees(p) /\ left' = left \ {p} /\ Forgets(p)
    BY <1>1, ReturnedFrees, EmptiedForgets DEF ReleaseNext
<1>3. UNCHANGED <<written, workers, adopting, mainUp, working, drained,
                  stopping, announced, draining, near, sending, execution, outages>>
    BY DEF ReleaseNext, people, hitches
<1>4. \A u \in HandoffWorkers, q \in Pairs : Current(u, q)' <=> Current(u, q) /\ q # p
    BY <1>2 DEF Frees
<1>5. \A j \in HandoffJobs :
          jobRow'[j] = jobRow[j] \/ (/\ jobRow[j].status = "handed_off" /\ jobRow'[j].status # "handed_off"
                                     /\ jobRow'[j].lease = 0 /\ jobRow'[j].by = {})
    BY <1>2 DEF Frees, Current
<1>6. /\ \A n \in sending : n[1] \in Sockets /\ <<n[2], n[3]>> \in Pairs /\ n[1][1] \in HandoffWorkers
      /\ \A x \in execution : x[1] \in HandoffWorkers /\ <<x[2], x[3]>> \in Pairs
      /\ \A c \in drained : c.job \in HandoffJobs /\ c.sock[1] \in HandoffWorkers
                            /\ (c.phase # "picked" => <<c.job, c.lease>> \in Pairs)
      /\ \A t \in Sockets : \A q \in handoffs[t] \cup adopting[t].found : q \in Pairs
  <2>1. \A c \in drained : c \in Drains
      BY DEF HandoffInductive, HandoffTypes
  <2>2. \A c \in drained : c.job \in HandoffJobs /\ c.sock \in Sockets
      BY <2>1 DEF Drains
  <2>3. \A c \in drained : c.phase # "picked" => c.lease \in 1..LeaseMax
    <3>1. 1..written \subseteq 1..LeaseMax
        BY HandoffAssumption DEF HandoffInductive, HandoffTypes
    <3> QED
        BY <3>1 DEF HandoffInductive, DrainHolds
  <2>4. \A t \in Sockets : t[1] \in HandoffWorkers
      BY TuplesTyped DEF HandoffInductive
  <2> QED
      BY <2>2, <2>3, <2>4, TuplesTyped DEF HandoffInductive, HandoffTypes, Pairs
<1>7. outages = 0 => \A u \in HandoffWorkers : Current(u, p) => u = s[1] /\ u \notin working
    BY <1>1 DEF HandoffInductive, SocketsKnown, MapsHold
<1>8. HandoffTypes'
    BY <1>2, <1>3 DEF Frees, Forgets, HandoffInductive, HandoffTypes
<1>9. RowsHold'
    BY <1>3, <1>5 DEF HandoffInductive, RowsHold
<1>10. SocketsKnown'
    BY <1>2, <1>3 DEF Forgets, HandoffInductive, SocketsKnown
<1>11. MapsHold'
    BY <1>2, <1>3, <1>4, <1>6 DEF Forgets, HandoffInductive, MapsHold
<1>12. DrainHolds'
  <2>1. \A c \in drained : jobRow[c.job] = Waiting => jobRow'[c.job] = Waiting
    <3>1. Waiting.status # "handed_off"
        BY DEF Waiting
    <3> QED
        BY <1>5, <1>6, <3>1
  <2>2. ASSUME NEW c \in drained, c.phase # "picked", jobRow'[c.job].status = "handed_off"
        PROVE  Current(c.sock[1], <<c.job, c.lease>>)'
    <3>1. jobRow'[c.job] = jobRow[c.job]
        BY <1>5, <1>6, <2>2
    <3> QED
        BY <2>2, <3>1 DEF HandoffInductive, DrainHolds, Current
  <2> QED
      BY <1>3, <2>1, <2>2 DEF HandoffInductive, DrainHolds
<1>13. OnePlace'
    BY <1>3 DEF HandoffInductive, OnePlace
<1>14. Undisturbed'
    BY <1>3, <1>4, <1>7, <1>6 DEF HandoffInductive, Undisturbed, OnePlace, SocketsKnown
<1>15. SentIsMapped'
  <2> SUFFICES ASSUME NEW n \in sending', NEW u \in HandoffWorkers, Current(u, <<n[2], n[3]>>)',
                      <<n[2], n[3]>> \notin left'
               PROVE  <<n[2], n[3]>> \in handoffs'[n[1]]
      BY DEF SentIsMapped
  <2>1. n \in sending /\ n[1] \in Sockets /\ <<n[2], n[3]>> # p
      BY <1>3, <1>4, <1>6
  <2>2. Current(u, <<n[2], n[3]>>) /\ <<n[2], n[3]>> \notin left
      BY <1>2, <1>4, <1>6, <2>1
  <2>3. <<n[2], n[3]>> \in handoffs[n[1]]
      BY <2>1, <2>2 DEF HandoffInductive, SentIsMapped
  <2> QED
      BY <1>2, <2>1, <2>3 DEF Forgets
<1>16. UnmappedIsAdopted'
  <2> SUFFICES ASSUME NEW u \in HandoffWorkers, NEW q \in Pairs \ left', Current(u, q)',
                      \A t \in mapped' : q \notin handoffs'[t],
                      \A c \in drained : c.job # q[1],
                      NEW t \in Of(u) \cap workers
               PROVE  Adopts(t, q)
      BY <1>3 DEF UnmappedIsAdopted, Adopts, Of
  <2>1. Current(u, q) /\ q # p /\ q \notin left
      BY <1>2, <1>4
  <2>2. \A r \in mapped : q \notin handoffs[r]
      BY <1>2, <2>1 DEF Forgets, HandoffInductive, HandoffTypes
  <2> QED
      BY <2>1, <2>2 DEF HandoffInductive, UnmappedIsAdopted
<1>17. CurrentIsRun'
  <2> SUFFICES ASSUME NEW u \in HandoffWorkers, NEW q \in Pairs \ left', Current(u, q)'
               PROVE  \/ <<u, q[1], q[2]>> \in execution'
                      \/ \E m \in sending : m[2] = q[1] /\ m[3] = q[2]
                      \/ \E c \in drained : c.job = q[1]
                      \/ \E t \in Of(u) : near[t] = "closed" /\ (q \in handoffs'[t] \/ Adopts(t, q))
      BY <1>3 DEF CurrentIsRun, Adopts, Of
  <2>1. Current(u, q) /\ q # p /\ q \notin left
      BY <1>2, <1>4
  <2>2. \A t \in Of(u) : q \in handoffs[t] => q \in handoffs'[t]
      BY <1>2, <2>1 DEF Forgets, Of
  <2>3. <<u, q[1], q[2]>> \in execution => <<u, q[1], q[2]>> \in execution'
      BY <1>3, <1>6, <2>1
  <2> QED
      BY <2>1, <2>2, <2>3 DEF HandoffInductive, CurrentIsRun
<1> QED
    BY <1>8, <1>9, <1>10, <1>11, <1>12, <1>13, <1>14, <1>15, <1>16, <1>17 DEF HandoffInductive

\* The message becomes an execution of the same lease by the same worker.
LEMMA JobReceivedPreserves ==
    ASSUME HandoffInductive, NEW m \in sending, JobReceived(m)
    PROVE  HandoffInductive'
<1>1. /\ m[1] \in Sockets /\ m[1][1] \in HandoffWorkers /\ <<m[2], m[3]>> \in Pairs /\ m = <<m[1], m[2], m[3]>>
      /\ m[2] \in HandoffJobs /\ m[3] \in 1..LeaseMax
      /\ near[m[1]] = "open" /\ m[1][1] \in working /\ m[3] <= written
  <2>1. \A s \in Sockets : s[1] \in HandoffWorkers
      BY TuplesTyped DEF HandoffInductive
  <2>2. m[1] \in Sockets /\ near[m[1]] = "open" /\ m[3] <= written
      BY TuplesTyped DEF HandoffInductive, OnePlace
  <2>3. m[1][1] \in working
      BY <2>2 DEF HandoffInductive, SocketsKnown
  <2> QED
      BY <2>1, <2>2, <2>3, TuplesTyped DEF HandoffInductive
<1> DEFINE y == <<m[1][1], m[2], m[3]>>
<1>2. /\ sending' = sending \ {m} /\ execution' = execution \cup {y}
      /\ y[1] = m[1][1] /\ y[2] = m[2] /\ y[3] = m[3]
      /\ UNCHANGED <<jobRow, written, workers, mapped, releasing, handoffs, adopting, mainUp, working, drained,
                     stopping, announced, draining, near, left, outages>>
    BY DEF JobReceived, book, people, hitches
<1>3. y \in HandoffWorkers \X HandoffJobs \X (1..LeaseMax)
    BY <1>1
<1> HIDE DEF y
<1>4. \A u, p : Current(u, p)' <=> Current(u, p)
    BY <1>2 DEF Current
<1>5. HandoffTypes'
    BY <1>4, <1>1, <1>2, <1>3, HandoffAssumption DEF HandoffInductive, HandoffTypes, Rows, Pairs,
       Drains, Sockets
<1>6. RowsHold'
    BY <1>4, <1>1, <1>2, <1>3, HandoffAssumption DEF HandoffInductive, RowsHold, HandoffTypes
<1>7. SocketsKnown'
    BY <1>4, <1>1, <1>2, <1>3, HandoffAssumption DEF HandoffInductive, SocketsKnown, HandoffTypes
<1>8. MapsHold'
    BY <1>4, <1>1, <1>2, <1>3, HandoffAssumption DEF HandoffInductive, MapsHold, HandoffTypes
<1>9. DrainHolds'
    BY <1>4, <1>1, <1>2, <1>3, HandoffAssumption DEF HandoffInductive, DrainHolds, HandoffTypes, Waiting
<1>10. OnePlace'
    BY <1>4, <1>1, <1>2, <1>3, HandoffAssumption DEF HandoffInductive, OnePlace, HandoffTypes
<1>11. Undisturbed'
    BY <1>4, <1>1, <1>2, <1>3, HandoffAssumption DEF HandoffInductive, Undisturbed, HandoffTypes,
       OnePlace
<1>12. SentIsMapped'
    BY <1>4, <1>1, <1>2, <1>3, HandoffAssumption DEF HandoffInductive, SentIsMapped, HandoffTypes,
       OnePlace
<1>13. UnmappedIsAdopted'
    BY <1>4, <1>1, <1>2, <1>3, HandoffAssumption DEF HandoffInductive, UnmappedIsAdopted, HandoffTypes,
       Adopts, Of
<1>14. CurrentIsRun'
  <2> SUFFICES ASSUME NEW u \in HandoffWorkers, NEW q \in Pairs \ left, Current(u, q),
                      q = <<m[2], m[3]>>
               PROVE  <<u, q[1], q[2]>> \in execution'
    <3>1. ASSUME NEW n \in sending, NEW q \in Pairs, n[2] = q[1], n[3] = q[2], q # <<m[2], m[3]>>
          PROVE  n \in sending'
      <4>1. q = <<n[2], n[3]>>
          BY <3>1, TuplesTyped DEF HandoffInductive
      <4> QED
          BY <1>2, <3>1, <4>1
    <3>2. execution \subseteq execution'
        BY <1>2
    <3> QED
        BY <1>2, <1>4, <3>1, <3>2 DEF HandoffInductive, CurrentIsRun, Adopts
  <2>1. CASE q \in handoffs[m[1]]
    <3>1. u = m[1][1]
        BY <1>1, <2>1 DEF HandoffInductive, MapsHold
    <3> QED
        BY <1>2, <3>1 DEF y
  <2> QED
      BY <2>1 DEF HandoffInductive, SentIsMapped
<1> QED
    BY <1>5, <1>6, <1>7, <1>8, <1>9, <1>10, <1>11, <1>12, <1>13, <1>14 DEF HandoffInductive

\* An execution ends, and its lease with it.
LEMMA JobReportedPreserves ==
    ASSUME HandoffInductive, NEW x \in execution, NEW again \in BOOLEAN, JobReported(x, again)
    PROVE  HandoffInductive'
<1> DEFINE p == <<x[2], x[3]>>
<1>1. /\ x[1] \in HandoffWorkers /\ p \in Pairs /\ x = <<x[1], x[2], x[3]>>
      /\ p[1] = x[2] /\ p[2] = x[3] /\ x[2] \in HandoffJobs
    BY TuplesTyped DEF HandoffInductive
<1>2. Frees(p) /\ Forgets(p) /\ left' = left \ {p}
  <2>1. Frees(p)
    <3> DEFINE r == IF again THEN Waiting ELSE [status |-> "completed", by |-> {}, lease |-> 0]
    <3>1. r \in Rows /\ r.status # "handed_off" /\ r.lease = 0 /\ r.by = {}
        BY HandoffAssumption DEF Waiting, Rows
    <3>2. jobRow' = IF jobRow[p[1]].lease # p[2] THEN jobRow ELSE [jobRow EXCEPT ![p[1]] = r]
        BY DEF JobReported
    <3> HIDE DEF r, p
    <3> QED
        BY <1>1, <3>1, <3>2, FreesRow
  <2>2. Forgets(p)
    <3>1. CASE UNCHANGED <<handoffs, mapped, releasing>>
        BY <3>1 DEF Forgets, HandoffInductive, HandoffTypes, SocketsKnown, JobReported
    <3>2. ASSUME NEW s \in mapped, p \in handoffs[s], Emptied(s, p) PROVE Forgets(p)
        BY <3>2, EmptiedForgets DEF HandoffInductive, HandoffTypes
    <3> QED
        BY <3>1, <3>2 DEF JobReported
  <2> QED
      BY <2>1, <2>2 DEF JobReported
<1>3. /\ execution' = execution \ {x}
      /\ UNCHANGED <<written, workers, adopting, mainUp, working, drained,
                     stopping, announced, draining, near, sending, outages>>
    BY DEF JobReported, people, hitches
<1>4. \A u \in HandoffWorkers, q \in Pairs : Current(u, q)' <=> Current(u, q) /\ q # p
    BY <1>2 DEF Frees
<1>5. \A j \in HandoffJobs :
          jobRow'[j] = jobRow[j] \/ (/\ jobRow[j].status = "handed_off" /\ jobRow'[j].status # "handed_off"
                                     /\ jobRow'[j].lease = 0 /\ jobRow'[j].by = {})
    BY <1>2, <1>1 DEF Frees, Current
<1>6. /\ \A n \in sending : n[1] \in Sockets /\ <<n[2], n[3]>> \in Pairs /\ n[1][1] \in HandoffWorkers
      /\ \A y \in execution : y = <<y[1], y[2], y[3]>> /\ y[1] \in HandoffWorkers /\ <<y[2], y[3]>> \in Pairs
      /\ \A c \in drained : c.job \in HandoffJobs /\ c.sock[1] \in HandoffWorkers
                            /\ (c.phase # "picked" => <<c.job, c.lease>> \in Pairs)
      /\ \A t \in Sockets : \A q \in handoffs[t] \cup adopting[t].found : q \in Pairs
  <2>1. \A c \in drained : c \in Drains
      BY DEF HandoffInductive, HandoffTypes
  <2>2. \A c \in drained : c.job \in HandoffJobs /\ c.sock \in Sockets
      BY <2>1 DEF Drains
  <2>3. \A c \in drained : c.phase # "picked" => c.lease \in 1..LeaseMax
    <3>1. 1..written \subseteq 1..LeaseMax
        BY HandoffAssumption DEF HandoffInductive, HandoffTypes
    <3> QED
        BY <3>1 DEF HandoffInductive, DrainHolds
  <2>4. \A t \in Sockets : t[1] \in HandoffWorkers
      BY TuplesTyped DEF HandoffInductive
  <2> QED
      BY <2>2, <2>3, <2>4, TuplesTyped DEF HandoffInductive, HandoffTypes, Pairs
<1>7. HandoffTypes'
    BY <1>2, <1>3 DEF Frees, Forgets, HandoffInductive, HandoffTypes
<1>8. RowsHold'
    BY <1>3, <1>5 DEF HandoffInductive, RowsHold
<1>9. SocketsKnown'
    BY <1>2, <1>3 DEF Forgets, HandoffInductive, SocketsKnown
<1>10. MapsHold'
    BY <1>2, <1>3, <1>4, <1>6 DEF Forgets, HandoffInductive, MapsHold
<1>11. DrainHolds'
  <2>1. \A c \in drained : jobRow[c.job] = Waiting => jobRow'[c.job] = Waiting
    <3>1. Waiting.status # "handed_off"
        BY DEF Waiting
    <3> QED
        BY <1>5, <1>6, <3>1
  <2>2. ASSUME NEW c \in drained, c.phase # "picked", jobRow'[c.job].status = "handed_off"
        PROVE  Current(c.sock[1], <<c.job, c.lease>>)'
    <3>1. jobRow'[c.job] = jobRow[c.job]
        BY <1>5, <1>6, <2>2
    <3> QED
        BY <2>2, <3>1 DEF HandoffInductive, DrainHolds, Current
  <2> QED
      BY <1>3, <2>1, <2>2 DEF HandoffInductive, DrainHolds
<1>12. OnePlace'
    BY <1>3 DEF HandoffInductive, OnePlace
<1>13. Undisturbed'
  <2> SUFFICES ASSUME outages = 0 PROVE Undisturbed'
      BY <1>3 DEF Undisturbed
  <2>1. \A n \in sending : <<n[2], n[3]>> # p
      BY DEF HandoffInductive, OnePlace
  <2>2. ASSUME NEW y \in execution, y # x PROVE <<y[2], y[3]>> # p
    <3> SUFFICES ASSUME <<y[2], y[3]>> = p PROVE FALSE
        OBVIOUS
    <3>1. Current(x[1], p) /\ Current(y[1], p)
        BY DEF HandoffInductive, Undisturbed
    <3>2. y[1] = x[1]
        BY <3>1 DEF Current
    <3> QED
        BY <1>1, <1>6, <2>2, <3>2
  <2>3. \A c \in drained : c.phase # "picked" => <<c.job, c.lease>> # p
      BY DEF HandoffInductive, OnePlace
  <2> HIDE DEF p
  <2>4. \A n \in sending : Current(n[1][1], <<n[2], n[3]>>)'
      BY <1>4, <1>6, <2>1 DEF HandoffInductive, Undisturbed
  <2>5. \A y \in execution' : Current(y[1], <<y[2], y[3]>>)'
      BY <1>3, <1>4, <1>6, <2>2 DEF HandoffInductive, Undisturbed
  <2>6. \A c \in drained : c.phase # "picked" /\ c.sock[1] \in working => Current(c.sock[1], <<c.job,
  c.lease>>)'
      BY <1>4, <1>6, <2>3 DEF HandoffInductive, Undisturbed
  <2> QED
      BY <1>3, <2>4, <2>5, <2>6 DEF Undisturbed
<1>14. SentIsMapped'
  <2> SUFFICES ASSUME NEW n \in sending', NEW u \in HandoffWorkers, Current(u, <<n[2], n[3]>>)',
                      <<n[2], n[3]>> \notin left'
               PROVE  <<n[2], n[3]>> \in handoffs'[n[1]]
      BY DEF SentIsMapped
  <2> HIDE DEF p
  <2>1. n \in sending /\ n[1] \in Sockets /\ <<n[2], n[3]>> # p
      BY <1>3, <1>4, <1>6
  <2>2. Current(u, <<n[2], n[3]>>) /\ <<n[2], n[3]>> \notin left
      BY <1>2, <1>4, <1>6, <2>1
  <2>3. <<n[2], n[3]>> \in handoffs[n[1]]
      BY <2>1, <2>2 DEF HandoffInductive, SentIsMapped
  <2> QED
      BY <1>2, <2>1, <2>3 DEF Forgets
<1>15. UnmappedIsAdopted'
  <2> SUFFICES ASSUME NEW u \in HandoffWorkers, NEW q \in Pairs \ left', Current(u, q)',
                      \A t \in mapped' : q \notin handoffs'[t],
                      \A c \in drained : c.job # q[1],
                      NEW t \in Of(u) \cap workers
               PROVE  Adopts(t, q)
      BY <1>3 DEF UnmappedIsAdopted, Adopts, Of
  <2>1. Current(u, q) /\ q # p /\ q \notin left
      BY <1>2, <1>4
  <2>2. \A r \in mapped : q \notin handoffs[r]
      BY <1>2, <2>1 DEF Forgets, HandoffInductive, HandoffTypes
  <2> QED
      BY <2>1, <2>2 DEF HandoffInductive, UnmappedIsAdopted
<1>16. CurrentIsRun'
  <2> SUFFICES ASSUME NEW u \in HandoffWorkers, NEW q \in Pairs \ left', Current(u, q)'
               PROVE  \/ <<u, q[1], q[2]>> \in execution'
                      \/ \E m \in sending : m[2] = q[1] /\ m[3] = q[2]
                      \/ \E c \in drained : c.job = q[1]
                      \/ \E t \in Of(u) : near[t] = "closed" /\ (q \in handoffs'[t] \/ Adopts(t, q))
      BY <1>3 DEF CurrentIsRun, Adopts, Of
  <2>1. Current(u, q) /\ q # p /\ q \notin left
      BY <1>2, <1>4
  <2>2. \A t \in Of(u) : q \in handoffs[t] => q \in handoffs'[t]
      BY <1>2, <2>1 DEF Forgets, Of
  <2>3. <<u, q[1], q[2]>> \in execution => <<u, q[1], q[2]>> \in execution'
      BY <1>1, <1>3, <2>1, TuplesTyped DEF HandoffInductive
  <2> QED
      BY <2>1, <2>2, <2>3 DEF HandoffInductive, CurrentIsRun
<1> QED
    BY <1>7, <1>8, <1>9, <1>10, <1>11, <1>12, <1>13, <1>14, <1>15, <1>16 DEF HandoffInductive

\* What was sent over the lost socket is in its map.
LEMMA SocketLostPreserves ==
    ASSUME HandoffInductive, NEW s \in Sockets, SocketLost(s)
    PROVE  HandoffInductive'
<1>1. /\ near[s] = "open" /\ near' \in [Sockets -> {"unused", "open", "closed"}]
      /\ near'[s] = "closed" /\ \A t \in Sockets : t # s => near'[t] = near[t]
      /\ sending' \subseteq sending /\ \A m \in sending : m \in sending' <=> m[1] # s
      /\ outages' \in Nat /\ outages' # 0
      /\ UNCHANGED <<jobRow, written, workers, mapped, releasing, handoffs, adopting, mainUp, working, drained,
                     stopping, announced, draining, execution, left>>
    BY DEF SocketLost, Drops, book, people, hitches, HandoffInductive, HandoffTypes
<1>2. \A u, p : Current(u, p)' <=> Current(u, p)
    BY <1>1 DEF Current
<1>3. HandoffTypes'
    BY <1>2, <1>1, HandoffAssumption DEF HandoffInductive, HandoffTypes, Rows, Pairs, Drains, Sockets
<1>4. RowsHold'
    BY <1>2, <1>1, HandoffAssumption DEF HandoffInductive, RowsHold, HandoffTypes
<1>5. SocketsKnown'
    BY <1>2, <1>1, HandoffAssumption DEF HandoffInductive, SocketsKnown, HandoffTypes
<1>6. MapsHold'
    BY <1>2, <1>1, HandoffAssumption DEF HandoffInductive, MapsHold, HandoffTypes
<1>7. DrainHolds'
    BY <1>2, <1>1, HandoffAssumption DEF HandoffInductive, DrainHolds, HandoffTypes, Waiting
<1>8. OnePlace'
    BY <1>2, <1>1, HandoffAssumption DEF HandoffInductive, OnePlace, HandoffTypes
<1>9. Undisturbed'
    BY <1>2, <1>1, HandoffAssumption DEF HandoffInductive, Undisturbed, HandoffTypes, OnePlace
<1>10. SentIsMapped'
    BY <1>2, <1>1, HandoffAssumption DEF HandoffInductive, SentIsMapped, HandoffTypes, OnePlace
<1>11. UnmappedIsAdopted'
    BY <1>2, <1>1, HandoffAssumption DEF HandoffInductive, UnmappedIsAdopted, HandoffTypes, Adopts, Of
<1>12. CurrentIsRun'
  <2> SUFFICES ASSUME NEW u \in HandoffWorkers, NEW q \in Pairs \ left, Current(u, q),
                      NEW m \in sending, m[2] = q[1], m[3] = q[2], m \notin sending'
               PROVE  \E t \in Of(u) : near'[t] = "closed" /\ q \in handoffs[t]
    <3>1. \A t \in Sockets : near[t] = "closed" => near'[t] = "closed"
        BY <1>1
    <3> QED
        BY <1>1, <1>2, <3>1 DEF HandoffInductive, CurrentIsRun, Adopts, Of
  <2>1. q = <<m[2], m[3]>> /\ m[1] \in Sockets
      BY TuplesTyped DEF HandoffInductive
  <2>2. q \in handoffs[m[1]]
      BY <2>1 DEF HandoffInductive, SentIsMapped
  <2>3. m[1][1] = u
      BY <2>1, <2>2 DEF HandoffInductive, MapsHold
  <2> QED
      BY <1>1, <2>1, <2>2, <2>3 DEF Of
<1> QED
    BY <1>3, <1>4, <1>5, <1>6, <1>7, <1>8, <1>9, <1>10, <1>11, <1>12 DEF HandoffInductive

\* An announcement changes no lease.
LEMMA StopAnnouncedPreserves ==
    ASSUME HandoffInductive, NEW w \in HandoffWorkers, StopAnnounced(w)
    PROVE  HandoffInductive'
<1>1. /\ announced' \subseteq Sockets
      /\ UNCHANGED <<jobRow, written, workers, mapped, releasing, handoffs, adopting, mainUp, working, drained,
                     draining, near, sending, execution, left, outages>>
    BY DEF StopAnnounced, Of, book, hitches, HandoffInductive, HandoffTypes
<1>2. \A u, p : Current(u, p)' <=> Current(u, p)
    BY <1>1 DEF Current
<1>3. HandoffTypes'
    BY <1>2, <1>1, HandoffAssumption DEF HandoffInductive, HandoffTypes, Rows, Pairs, Drains, Sockets
<1>4. RowsHold'
    BY <1>2, <1>1, HandoffAssumption DEF HandoffInductive, RowsHold, HandoffTypes
<1>5. SocketsKnown'
    BY <1>2, <1>1, HandoffAssumption DEF HandoffInductive, SocketsKnown, HandoffTypes
<1>6. MapsHold'
    BY <1>2, <1>1, HandoffAssumption DEF HandoffInductive, MapsHold, HandoffTypes
<1>7. DrainHolds'
    BY <1>2, <1>1, HandoffAssumption DEF HandoffInductive, DrainHolds, HandoffTypes, Waiting
<1>8. OnePlace'
    BY <1>2, <1>1, HandoffAssumption DEF HandoffInductive, OnePlace, HandoffTypes
<1>9. Undisturbed'
    BY <1>2, <1>1, HandoffAssumption DEF HandoffInductive, Undisturbed, HandoffTypes, OnePlace
<1>10. SentIsMapped'
    BY <1>2, <1>1, HandoffAssumption DEF HandoffInductive, SentIsMapped, HandoffTypes, OnePlace
<1>11. UnmappedIsAdopted'
    BY <1>2, <1>1, HandoffAssumption DEF HandoffInductive, UnmappedIsAdopted, HandoffTypes, Adopts, Of
<1>12. CurrentIsRun'
    BY <1>2, <1>1, HandoffAssumption DEF HandoffInductive, CurrentIsRun, HandoffTypes, Adopts, Of
<1> QED
    BY <1>3, <1>4, <1>5, <1>6, <1>7, <1>8, <1>9, <1>10, <1>11, <1>12 DEF HandoffInductive

\* Nor does its arrival.
LEMMA DrainingSeenPreserves ==
    ASSUME HandoffInductive, NEW s \in Sockets, DrainingSeen(s)
    PROVE  HandoffInductive'
<1> USE DEF DrainingSeen, book, people, hitches
<1>1. HandoffTypes'
    BY HandoffAssumption DEF HandoffInductive, HandoffTypes, Rows, Pairs, Drains, Sockets
<1>2. RowsHold'
    BY HandoffAssumption DEF HandoffInductive, RowsHold, HandoffTypes
<1>3. SocketsKnown'
    BY HandoffAssumption DEF HandoffInductive, SocketsKnown, HandoffTypes
<1>4. MapsHold'
    BY HandoffAssumption DEF HandoffInductive, MapsHold, HandoffTypes, Current
<1>5. DrainHolds'
    BY HandoffAssumption DEF HandoffInductive, DrainHolds, HandoffTypes, Current, Waiting
<1>6. OnePlace'
    BY HandoffAssumption DEF HandoffInductive, OnePlace, HandoffTypes
<1>7. Undisturbed'
    BY HandoffAssumption DEF HandoffInductive, Undisturbed, HandoffTypes, OnePlace, Current
<1>8. SentIsMapped'
    BY HandoffAssumption DEF HandoffInductive, SentIsMapped, HandoffTypes, OnePlace, Current
<1>9. UnmappedIsAdopted'
    BY HandoffAssumption DEF HandoffInductive, UnmappedIsAdopted, HandoffTypes, Current, Adopts, Of
<1>10. CurrentIsRun'
    BY HandoffAssumption DEF HandoffInductive, CurrentIsRun, HandoffTypes, Current, Adopts, Of
<1> QED
    BY <1>1, <1>2, <1>3, <1>4, <1>5, <1>6, <1>7, <1>8, <1>9, <1>10 DEF HandoffInductive

\* A worker that leaves runs nothing, and what was sent to it is in its map.
LEMMA WorkerLeavesPreserves ==
    ASSUME HandoffInductive, NEW w \in HandoffWorkers, WorkerLeaves(w)
    PROVE  HandoffInductive'
<1>1. /\ w \in working /\ (\A x \in execution : x[1] # w)
      /\ working' = working \ {w}
      /\ near' \in [Sockets -> {"unused", "open", "closed"}]
      /\ \A t \in Sockets : near'[t] = IF t[1] = w /\ near[t] = "open" THEN "closed" ELSE near[t]
      /\ sending' \subseteq sending /\ \A m \in sending : m \in sending' <=> m[1][1] # w
      /\ UNCHANGED <<jobRow, written, workers, mapped, releasing, handoffs, adopting, mainUp, drained,
                     stopping, announced, draining, execution, left, outages>>
    BY DEF WorkerLeaves, book, hitches, HandoffInductive, HandoffTypes
<1>2. \A u, p : Current(u, p)' <=> Current(u, p)
    BY <1>1 DEF Current
<1>3. HandoffTypes'
    BY <1>2, <1>1, HandoffAssumption DEF HandoffInductive, HandoffTypes, Rows, Pairs, Drains, Sockets
<1>4. RowsHold'
    BY <1>2, <1>1, HandoffAssumption DEF HandoffInductive, RowsHold, HandoffTypes
<1>5. SocketsKnown'
    BY <1>2, <1>1, HandoffAssumption DEF HandoffInductive, SocketsKnown, HandoffTypes
<1>6. MapsHold'
    BY <1>2, <1>1, HandoffAssumption DEF HandoffInductive, MapsHold, HandoffTypes
<1>7. DrainHolds'
    BY <1>2, <1>1, HandoffAssumption DEF HandoffInductive, DrainHolds, HandoffTypes, Waiting
<1>8. OnePlace'
    BY <1>2, <1>1, HandoffAssumption DEF HandoffInductive, OnePlace, HandoffTypes
<1>9. Undisturbed'
    BY <1>2, <1>1, HandoffAssumption DEF HandoffInductive, Undisturbed, HandoffTypes, OnePlace
<1>10. SentIsMapped'
    BY <1>2, <1>1, HandoffAssumption DEF HandoffInductive, SentIsMapped, HandoffTypes, OnePlace
<1>11. UnmappedIsAdopted'
    BY <1>2, <1>1, HandoffAssumption DEF HandoffInductive, UnmappedIsAdopted, HandoffTypes, Adopts, Of
<1>12. CurrentIsRun'
  <2> SUFFICES ASSUME NEW u \in HandoffWorkers, NEW q \in Pairs \ left, Current(u, q),
                      NEW m \in sending, m[2] = q[1], m[3] = q[2], m \notin sending'
               PROVE  \E t \in Of(u) : near'[t] = "closed" /\ q \in handoffs[t]
    <3>1. \A t \in Sockets : near[t] = "closed" => near'[t] = "closed"
        BY <1>1
    <3> QED
        BY <1>1, <1>2, <3>1 DEF HandoffInductive, CurrentIsRun, Adopts, Of
  <2>1. q = <<m[2], m[3]>> /\ m[1] \in Sockets
      BY TuplesTyped DEF HandoffInductive
  <2>2. q \in handoffs[m[1]]
      BY <2>1 DEF HandoffInductive, SentIsMapped
  <2>3. m[1][1] = u
      BY <2>1, <2>2 DEF HandoffInductive, MapsHold
  <2>4. near'[m[1]] = "closed"
      BY <1>1, <2>1 DEF HandoffInductive, OnePlace
  <2> QED
      BY <2>1, <2>2, <2>3, <2>4 DEF Of
<1> QED
    BY <1>3, <1>4, <1>5, <1>6, <1>7, <1>8, <1>9, <1>10, <1>11, <1>12 DEF HandoffInductive

\* A crashed worker's leases are in the maps of its sockets, or about to be.
LEMMA WorkerCrashesPreserves ==
    ASSUME HandoffInductive, NEW w \in HandoffWorkers, WorkerCrashes(w)
    PROVE  HandoffInductive'
<1>1. \A u \in HandoffWorkers : \A p : p \in LeasesOf(u) <=> p \in Pairs /\ Current(u, p)
    BY LeasesAreCurrent DEF HandoffInductive
<1>2. /\ w \in working /\ outages' \in Nat /\ outages' # 0
      /\ working' = working \ {w}
      /\ near' \in [Sockets -> {"unused", "open", "closed"}]
      /\ \A t \in Sockets : near'[t] = IF t[1] = w /\ near[t] = "open" THEN "closed" ELSE near[t]
      /\ sending' \subseteq sending /\ \A m \in sending : m \in sending' <=> m[1][1] # w
      /\ execution' \subseteq execution /\ \A x \in execution : x \in execution' <=> x[1] # w
      /\ left \subseteq left' /\ left' \subseteq Pairs
      /\ Of(w) \cap workers = {} => \A p \in Pairs : Current(w, p) => p \in left'
      /\ UNCHANGED <<jobRow, written, workers, mapped, releasing, handoffs, adopting, mainUp, drained,
                     stopping, announced, draining>>
  <2>1. \A p : p \in LeasesOf(w) <=> p \in Pairs /\ Current(w, p)
      BY <1>1
  <2> QED
      BY <2>1 DEF WorkerCrashes, book, HandoffInductive, HandoffTypes
<1>3. \A u, p : Current(u, p)' <=> Current(u, p)
    BY <1>2 DEF Current
<1>4. HandoffTypes'
    BY <1>3, <1>2, HandoffAssumption DEF HandoffInductive, HandoffTypes, Rows, Pairs, Drains, Sockets
<1>5. RowsHold'
    BY <1>3, <1>2, HandoffAssumption DEF HandoffInductive, RowsHold, HandoffTypes
<1>6. SocketsKnown'
    BY <1>3, <1>2, HandoffAssumption DEF HandoffInductive, SocketsKnown, HandoffTypes
<1>7. MapsHold'
    BY <1>3, <1>2, HandoffAssumption DEF HandoffInductive, MapsHold, HandoffTypes
<1>8. DrainHolds'
    BY <1>3, <1>2, HandoffAssumption DEF HandoffInductive, DrainHolds, HandoffTypes, Waiting
<1>9. OnePlace'
    BY <1>3, <1>2, HandoffAssumption DEF HandoffInductive, OnePlace, HandoffTypes
<1>10. Undisturbed'
    BY <1>3, <1>2, HandoffAssumption DEF HandoffInductive, Undisturbed, HandoffTypes, OnePlace
<1>11. SentIsMapped'
    BY <1>3, <1>2, HandoffAssumption DEF HandoffInductive, SentIsMapped, HandoffTypes, OnePlace
<1>12. UnmappedIsAdopted'
    BY <1>3, <1>2, HandoffAssumption DEF HandoffInductive, UnmappedIsAdopted, HandoffTypes, Adopts, Of
<1>13. CurrentIsRun'
  <2> SUFFICES ASSUME NEW u \in HandoffWorkers, NEW q \in Pairs \ left', Current(u, q),
                      \A d \in drained : d.job # q[1]
               PROVE  \/ <<u, q[1], q[2]>> \in execution'
                      \/ \E m \in sending' : m[2] = q[1] /\ m[3] = q[2]
                      \/ \E t \in Of(u) : near'[t] = "closed" /\ (q \in handoffs[t] \/ Adopts(t, q))
      BY <1>2, <1>3 DEF CurrentIsRun, Adopts
  <2>1. \A t \in Sockets : near[t] = "closed" => near'[t] = "closed"
      BY <1>2
  <2>2. q \notin left
      BY <1>2
  <2>3. CASE u = w
    <3>1. \A t \in Of(w) : t \in mapped => near'[t] = "closed"
        BY <1>2 DEF Of, HandoffInductive, HandoffTypes, SocketsKnown
    <3>2. PICK t \in Of(w) : t \in workers
        BY <1>2, <2>3 DEF Of
    <3>3. t \in mapped
        BY <3>2 DEF HandoffInductive, HandoffTypes
    <3>4. CASE \E r \in mapped : q \in handoffs[r]
      <4>1. PICK r \in mapped : q \in handoffs[r]
          BY <3>4
      <4>2. r \in Of(w)
          BY <2>3, <4>1 DEF Of, HandoffInductive, HandoffTypes, MapsHold
      <4> QED
          BY <2>3, <3>1, <4>1, <4>2
    <3>5. CASE ~\E r \in mapped : q \in handoffs[r]
      <4>1. Adopts(t, q)
          BY <2>2, <2>3, <3>2, <3>5 DEF HandoffInductive, UnmappedIsAdopted
      <4> QED
          BY <2>3, <3>1, <3>2, <3>3, <4>1
    <3> QED
        BY <3>4, <3>5
  <2>4. CASE u # w
    <3>1. <<u, q[1], q[2]>> \in execution => <<u, q[1], q[2]>> \in execution'
        BY <1>2, <2>4
    <3>2. ASSUME NEW m \in sending, m[2] = q[1], m[3] = q[2] PROVE m \in sending'
      <4>1. q = <<m[2], m[3]>> /\ m[1] \in Sockets
          BY <3>2, TuplesTyped DEF HandoffInductive
      <4>2. q \in handoffs[m[1]]
          BY <2>2, <4>1 DEF HandoffInductive, SentIsMapped
      <4>3. m[1][1] = u
          BY <4>1, <4>2 DEF HandoffInductive, MapsHold
      <4> QED
          BY <1>2, <2>4, <4>3
    <3>3. \A t \in Of(u) : t \in Sockets
        BY DEF Of
    <3> QED
        BY <2>1, <2>2, <3>1, <3>2, <3>3 DEF HandoffInductive, CurrentIsRun
  <2> QED
      BY <2>3, <2>4
<1> QED
    BY <1>4, <1>5, <1>6, <1>7, <1>8, <1>9, <1>10, <1>11, <1>12, <1>13 DEF HandoffInductive

\* With main go all maps and messages; what runs, runs on.
LEMMA MainCrashesPreserves == ASSUME HandoffInductive, MainCrashes PROVE HandoffInductive'
<1>1. \A u \in HandoffWorkers : \A p : p \in LeasesOf(u) <=> p \in Pairs /\ Current(u, p)
    BY LeasesAreCurrent DEF HandoffInductive
<1>2. /\ mainUp' = FALSE
      /\ workers' = {} /\ mapped' = {} /\ releasing' = {} /\ drained' = {} /\ sending' = {}
      /\ announced' = {} /\ draining' = {}
      /\ \A s \in Sockets : handoffs'[s] = {} /\ adopting'[s].found = {}
      /\ near' \in [Sockets -> {"unused", "open", "closed"}]
      /\ \A t \in Sockets : near'[t] # "open"
      /\ handoffs' \in [Sockets -> SUBSET Pairs]
      /\ adopting' \in [Sockets -> [phase : {"no", "asked", "read"}, found : SUBSET Pairs]]
      /\ left' \subseteq Pairs
      /\ \A u \in HandoffWorkers, p \in Pairs :
            Current(u, p) /\ <<u, p[1], p[2]>> \notin execution => p \in left'
      /\ UNCHANGED <<jobRow, written, working, stopping, execution, outages>>
  <2>1. left' = left \cup UNION {{p \in LeasesOf(u) : <<u, p[1], p[2]>> \notin execution} : u \in HandoffWorkers}
      BY DEF MainCrashes
  <2>2. \A u \in HandoffWorkers : LeasesOf(u) \subseteq Pairs
      BY <1>1
  <2>3. left' \subseteq Pairs
      BY <2>1, <2>2 DEF HandoffInductive, HandoffTypes
  <2>4. ASSUME NEW u \in HandoffWorkers, NEW p \in Pairs, Current(u, p), <<u, p[1],
  p[2]>> \notin execution
        PROVE  p \in left'
    <3>1. p \in LeasesOf(u)
        BY <1>1, <2>4
    <3> QED
        BY <2>1, <2>4, <3>1
  <2>5. /\ \A s \in Sockets : handoffs'[s] = {} /\ adopting'[s].found = {}
        /\ handoffs' \in [Sockets -> SUBSET Pairs]
        /\ adopting' \in [Sockets -> [phase : {"no", "asked", "read"}, found : SUBSET Pairs]]
      BY DEF MainCrashes, NoAdoption
  <2>6. /\ near' \in [Sockets -> {"unused", "open", "closed"}]
        /\ \A t \in Sockets : near'[t] # "open"
      BY DEF MainCrashes, HandoffInductive, HandoffTypes
  <2> QED
      BY <2>3, <2>4, <2>5, <2>6 DEF MainCrashes
<1>3. \A u, p : Current(u, p)' <=> Current(u, p)
    BY <1>2 DEF Current
<1>4. HandoffTypes'
    BY <1>3, <1>2, HandoffAssumption DEF HandoffInductive, HandoffTypes, Rows, Pairs, Drains, Sockets
<1>5. RowsHold'
    BY <1>3, <1>2, HandoffAssumption DEF HandoffInductive, RowsHold, HandoffTypes
<1>6. SocketsKnown'
    BY <1>3, <1>2, HandoffAssumption DEF HandoffInductive, SocketsKnown, HandoffTypes
<1>7. MapsHold'
    BY <1>3, <1>2, HandoffAssumption DEF HandoffInductive, MapsHold, HandoffTypes
<1>8. DrainHolds'
    BY <1>3, <1>2, HandoffAssumption DEF HandoffInductive, DrainHolds, HandoffTypes, Waiting
<1>9. OnePlace'
    BY <1>3, <1>2, HandoffAssumption DEF HandoffInductive, OnePlace, HandoffTypes
<1>10. Undisturbed'
    BY <1>3, <1>2, HandoffAssumption DEF HandoffInductive, Undisturbed, HandoffTypes, OnePlace
<1>11. SentIsMapped'
    BY <1>3, <1>2, HandoffAssumption DEF HandoffInductive, SentIsMapped, HandoffTypes, OnePlace
<1>12. UnmappedIsAdopted'
    BY <1>3, <1>2, HandoffAssumption DEF HandoffInductive, UnmappedIsAdopted, HandoffTypes, Adopts, Of
<1>13. CurrentIsRun'
    BY <1>3, <1>2, HandoffAssumption DEF HandoffInductive, CurrentIsRun, HandoffTypes, Adopts, Of
<1> QED
    BY <1>4, <1>5, <1>6, <1>7, <1>8, <1>9, <1>10, <1>11, <1>12, <1>13 DEF HandoffInductive

\* A new main starts with nothing.
LEMMA MainStartsPreserves == ASSUME HandoffInductive, MainStarts PROVE HandoffInductive'
<1> USE DEF MainStarts, book, people, hitches
<1>1. HandoffTypes'
    BY HandoffAssumption DEF HandoffInductive, HandoffTypes, Rows, Pairs, Drains, Sockets
<1>2. RowsHold'
    BY HandoffAssumption DEF HandoffInductive, RowsHold, HandoffTypes
<1>3. SocketsKnown'
    BY HandoffAssumption DEF HandoffInductive, SocketsKnown, HandoffTypes
<1>4. MapsHold'
    BY HandoffAssumption DEF HandoffInductive, MapsHold, HandoffTypes, Current
<1>5. DrainHolds'
    BY HandoffAssumption DEF HandoffInductive, DrainHolds, HandoffTypes, Current, Waiting
<1>6. OnePlace'
    BY HandoffAssumption DEF HandoffInductive, OnePlace, HandoffTypes
<1>7. Undisturbed'
    BY HandoffAssumption DEF HandoffInductive, Undisturbed, HandoffTypes, OnePlace, Current
<1>8. SentIsMapped'
    BY HandoffAssumption DEF HandoffInductive, SentIsMapped, HandoffTypes, OnePlace, Current
<1>9. UnmappedIsAdopted'
    BY HandoffAssumption DEF HandoffInductive, UnmappedIsAdopted, HandoffTypes, Current, Adopts, Of
<1>10. CurrentIsRun'
    BY HandoffAssumption DEF HandoffInductive, CurrentIsRun, HandoffTypes, Current, Adopts, Of
<1> QED
    BY <1>1, <1>2, <1>3, <1>4, <1>5, <1>6, <1>7, <1>8, <1>9, <1>10 DEF HandoffInductive

\* Every step of main, of a worker and of the network preserves it.
LEMMA HandoffStep ==
    ASSUME HandoffInductive, [HandoffNext]_handoffVars
    PROVE  HandoffInductive'
<1>1. ASSUME NEW w \in HandoffWorkers, Hello(w) PROVE HandoffInductive'
  BY <1>1, HelloPreserves
<1>2. ASSUME NEW w \in HandoffWorkers, StopAnnounced(w) PROVE HandoffInductive'
  BY <1>2, StopAnnouncedPreserves
<1>3. ASSUME NEW w \in HandoffWorkers, WorkerLeaves(w) PROVE HandoffInductive'
  BY <1>3, WorkerLeavesPreserves
<1>4. ASSUME NEW w \in HandoffWorkers, WorkerCrashes(w) PROVE HandoffInductive'
  BY <1>4, WorkerCrashesPreserves
<1>5. ASSUME NEW s \in Sockets, AdoptRead(s) PROVE HandoffInductive'
  BY <1>5, AdoptReadPreserves
<1>6. ASSUME NEW s \in Sockets, AdoptFails(s) PROVE HandoffInductive'
  BY <1>6, AdoptFailsPreserves
<1>7. ASSUME NEW s \in Sockets, Adopted(s) PROVE HandoffInductive'
  BY <1>7, AdoptedPreserves
<1>8. ASSUME NEW s \in Sockets, CloseSeen(s) PROVE HandoffInductive'
  BY <1>8, CloseSeenPreserves
<1>9. ASSUME NEW s \in Sockets, DrainingSeen(s) PROVE HandoffInductive'
  BY <1>9, DrainingSeenPreserves
<1>10. ASSUME NEW s \in Sockets, SocketLost(s) PROVE HandoffInductive'
  BY <1>10, SocketLostPreserves
<1>11. ASSUME NEW s \in releasing, NEW p \in handoffs[s], ReleaseNext(s, p) PROVE HandoffInductive'
  BY <1>11, ReleaseNextPreserves
<1>12. ASSUME NEW j \in HandoffJobs, NEW s \in workers, Pick(j, s) PROVE HandoffInductive'
  BY <1>12, PickPreserves
<1>13. ASSUME NEW d \in drained, HandOff(d) PROVE HandoffInductive'
  BY <1>13, HandOffPreserves
<1>14. ASSUME NEW d \in drained, DeliverJob(d) PROVE HandoffInductive'
  BY <1>14, DeliverJobPreserves
<1>15. ASSUME NEW d \in drained, Recovered(d) PROVE HandoffInductive'
  BY <1>15, RecoveredPreserves
<1>16. ASSUME NEW m \in sending, JobReceived(m) PROVE HandoffInductive'
  BY <1>16, JobReceivedPreserves
<1>17. ASSUME NEW x \in execution, NEW again \in BOOLEAN, JobReported(x, again) PROVE HandoffInductive'
  BY <1>17, JobReportedPreserves
<1>18. CASE MainCrashes
  BY <1>18, MainCrashesPreserves
<1>19. CASE MainStarts
  BY <1>19, MainStartsPreserves
<1>20. CASE UNCHANGED handoffVars
  <2>1. HandoffTypes'
    BY <1>20 DEF handoffVars, HandoffInductive, HandoffTypes
  <2>2. RowsHold'
    BY <1>20 DEF handoffVars, HandoffInductive, RowsHold
  <2>3. SocketsKnown'
    BY <1>20 DEF handoffVars, HandoffInductive, SocketsKnown
  <2>4. MapsHold'
    BY <1>20 DEF handoffVars, HandoffInductive, MapsHold, Current
  <2>5. DrainHolds'
    BY <1>20 DEF handoffVars, HandoffInductive, DrainHolds, Current
  <2>6. OnePlace'
    BY <1>20 DEF handoffVars, HandoffInductive, OnePlace
  <2>7. Undisturbed'
    BY <1>20 DEF handoffVars, HandoffInductive, Undisturbed, Current
  <2>8. SentIsMapped'
    BY <1>20 DEF handoffVars, HandoffInductive, SentIsMapped, Current
  <2>9. UnmappedIsAdopted'
    BY <1>20 DEF handoffVars, HandoffInductive, UnmappedIsAdopted, Current, Adopts
  <2>10. CurrentIsRun'
    BY <1>20 DEF handoffVars, HandoffInductive, CurrentIsRun, Current, Adopts
  <2> QED  BY <2>1, <2>2, <2>3, <2>4, <2>5, <2>6, <2>7, <2>8, <2>9, <2>10 DEF HandoffInductive
<1> QED  BY <1>1, <1>2, <1>3, <1>4, <1>5, <1>6, <1>7, <1>8, <1>9, <1>10,
          <1>11, <1>12, <1>13, <1>14, <1>15, <1>16, <1>17, <1>18, <1>19, <1>20 DEF HandoffNext

\* Through restarts of main, lost sockets and adoptions that overlap handoffs
\* and reports, the lease of a connected worker is tracked, is run, and while no
\* connection is lost nothing runs twice (_adoptActiveWorkerHandoffs,
\* _handleWorkerSocketClosed, _releaseWorkerHandoffs).
THEOREM LeasesSurviveRestarts == HandoffSpec => []HandoffInv
<1>1. HandoffInductive /\ [HandoffNext]_handoffVars => HandoffInductive'
  BY HandoffStep
<1> QED
  BY HandoffStarts, <1>1, HandoffInductiveImplies, PTL DEF HandoffSpec

=============================================================================
