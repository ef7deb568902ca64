----------------------------- MODULE JobHandoff -----------------------------
(***************************************************************************)
(* Who keeps the leases of a worker while sockets break and the main       *)
(* process restarts (background-jobs/main.js).  Main keeps, for every      *)
(* worker socket, a map of the leases sent through it, and gives them back *)
(* when the socket closes.  A new main has no maps: a worker's hello makes *)
(* it read the worker's leases from the store and adopt them.  Jobs run on *)
(* in the worker whatever happens to its socket, and are reported over     *)
(* connections of their own.                                               *)
(***************************************************************************)
EXTENDS Integers, FiniteSets

CONSTANTS
    HandoffJobs,
    HandoffWorkers,
    Frail,         \* those that may stop, crash or lose a socket
    SocketMax,     \* bound on the connections of a worker
    LeaseMax,      \* bound on the leases written
    OutageMax,     \* bound on lost sockets, dead workers and failed queries
    CrashMax       \* bound on restarts of main

ASSUME HandoffAssumption ==
    Frail \subseteq HandoffWorkers /\ {SocketMax, LeaseMax, OutageMax, CrashMax} \subseteq Nat

VARIABLES
    jobRow,      \* the job's row: its status, worker and lease
    written,     \* leases written so far
    mainUp,
    workers,     \* main's sockets: those it takes for open,
    mapped,      \*   those with a map in workerHandoffs,
    handoffs,    \*   the maps, as sets of <<job, lease>>,
    releasing,   \*   those whose leases are being released,
    adopting,    \*   and the adoption that a hello has started
    drained,     \* the drain's job, the socket it chose and how far it is
    working,     \* the workers that live,
    stopping,    \*   and those told to stop
    announced,   \* `draining` messages under way,
    draining,    \*   and the sockets they have reached: isDraining
    near,        \* a socket as its worker sees it
    sending,     \* job messages under way
    execution,   \* <<worker, job, lease>> in progress
    left,        \* leases that only the orphan sweep will end
    outages, losses

handoffVars == <<jobRow, written, mainUp, workers, mapped, handoffs, releasing, adopting,
                 drained, working, stopping, announced, draining, near, sending, execution, left, outages, losses>>

Sockets == HandoffWorkers \X (1..SocketMax)
Pairs == HandoffJobs \X (1..LeaseMax)
NoAdoption == [phase |-> "no", found |-> {}]
Of(w) == {s \in Sockets : s[1] = w}
Waiting == [status |-> "queued", by |-> {}, lease |-> 0]

\* handedOffJobsForWorker
LeasesOf(w) ==
    {<<j, jobRow[j].lease>> : j \in {k \in HandoffJobs : jobRow[k].status = "handed_off" /\ w \in jobRow[k].by}}

HandoffInit ==
    /\ jobRow = [j \in HandoffJobs |-> Waiting]
    /\ written = 0 /\ mainUp = TRUE
    /\ workers = {} /\ mapped = {} /\ releasing = {}
    /\ handoffs = [s \in Sockets |-> {}]
    /\ adopting = [s \in Sockets |-> NoAdoption]
    /\ drained = {}
    /\ working = HandoffWorkers /\ stopping = {} /\ announced = {} /\ draining = {}
    /\ near = [s \in Sockets |-> "unused"]
    /\ sending = {} /\ execution = {} /\ left = {}
    /\ outages = 0 /\ losses = 0

book == <<workers, mapped, handoffs, releasing, adopting>>
people == <<mainUp, working, stopping, announced, draining>>
hitches == <<outages, losses>>

-----------------------------------------------------------------------------
(* Connecting and adopting                                                 *)

\* A worker without a socket connects again unless it is stopping; its hello
\* opens a map and asks the store for its leases.
Hello(w) ==
    /\ mainUp /\ w \in working \ stopping
    /\ \A s \in Of(w) : near[s] # "open"
    /\ \E s \in Of(w) :
        /\ near[s] = "unused" /\ \A t \in Of(w) : t[2] < s[2] => near[t] # "unused"
        /\ near' = [near EXCEPT ![s] = "open"]
        /\ workers' = workers \cup {s}
        /\ mapped' = mapped \cup {s}
        /\ adopting' = [adopting EXCEPT ![s].phase = "asked"]
    /\ UNCHANGED <<jobRow, written, handoffs, releasing, drained, people, sending,
                   execution, left, hitches>>

\* The query of _adoptWorkerHandoffs is answered ...
AdoptRead(s) ==
    /\ adopting[s].phase = "asked"
    /\ adopting' = [adopting EXCEPT ![s] = [phase |-> "read", found |-> LeasesOf(s[1])]]
    /\ UNCHANGED <<jobRow, written, workers, mapped, handoffs, releasing, drained,
                   people, near, sending,
                   execution, left, hitches>>

\* ... or fails, which is only reported.
AdoptFails(s) ==
    /\ adopting[s].phase = "asked" /\ outages < OutageMax
    /\ outages' = outages + 1
    /\ adopting' = [adopting EXCEPT ![s] = NoAdoption]
    /\ left' = left \cup LeasesOf(s[1])
    /\ UNCHANGED <<jobRow, written, workers, mapped, handoffs, releasing, drained,
                   people, near, sending,
                   execution, losses>>

\* Mutant: the answer becomes the map.
AdoptedAsMap(s) ==
    /\ adopting[s].phase = "read"
    /\ LET found == adopting[s].found
           taken == {f[1] : f \in found}
           over == {p \in handoffs[s] : p[1] \in taken /\ p \notin found}
       IN  IF s \in mapped /\ s \in workers
           THEN /\ handoffs' = [handoffs EXCEPT ![s] = found]
                /\ left' = left \cup (over \cap LeasesOf(s[1]))
           ELSE left' = left \cup (found \cap LeasesOf(s[1])) /\ UNCHANGED handoffs
    /\ adopting' = [adopting EXCEPT ![s] = NoAdoption]
    /\ UNCHANGED <<jobRow, written, workers, mapped, releasing, drained, people, near,
                   sending, execution, hitches>>

\* The answer is written into the socket's map, over whatever a drain has put
\* there since; if the socket has closed it is dropped.
Adopted(s) ==
    /\ adopting[s].phase = "read"
    /\ LET found == adopting[s].found
           taken == {f[1] : f \in found}
           over == {p \in handoffs[s] : p[1] \in taken /\ p \notin found}
       IN  IF s \in mapped /\ s \in workers
           THEN /\ handoffs' = [handoffs EXCEPT ![s] = (@ \ over) \cup found]
                /\ left' = left \cup (over \cap LeasesOf(s[1]))
           ELSE left' = left \cup (found \cap LeasesOf(s[1])) /\ UNCHANGED handoffs
    /\ adopting' = [adopting EXCEPT ![s] = NoAdoption]
    /\ UNCHANGED <<jobRow, written, workers, mapped, releasing, drained, people, near,
                   sending, execution, hitches>>

-----------------------------------------------------------------------------
(* The drain                                                               *)

\* The drain has a queued job and a ready worker.
Pick(j, s) ==
    /\ mainUp /\ drained = {}
    /\ jobRow[j].status = "queued" /\ written < LeaseMax
    /\ s \in workers \ draining
    /\ drained' = {[job |-> j, sock |-> s, phase |-> "picked", lease |-> 0]}
    /\ UNCHANGED <<jobRow, written, book, people, near, sending, execution, left, hitches>>

\* markHandedOff
HandOff(d) ==
    /\ d \in drained /\ d.phase = "picked"
    /\ jobRow' = [jobRow EXCEPT ![d.job] = [status |-> "handed_off", by |-> {d.sock[1]}, lease |-> written + 1]]
    /\ written' = written + 1
    /\ drained' = {[d EXCEPT !.phase = "written", !.lease = written + 1]}
    /\ UNCHANGED <<book, people, near, sending, execution, left, hitches>>

\* The lease is entered in the socket's map and the job is sent, unless the
\* socket has closed or its worker has announced that it stops.
DeliverJob(d) ==
    /\ d \in drained /\ d.phase = "written"
    /\ IF d.sock \in workers \ draining
       THEN /\ drained' = {}
            /\ handoffs' = [handoffs EXCEPT ![d.sock] = {p \in @ : p[1] # d.job} \cup {<<d.job, d.lease>>}]
            /\ sending' = IF near[d.sock] = "open" THEN sending \cup {<<d.sock, d.job, d.lease>>} ELSE sending
       ELSE drained' = {[d EXCEPT !.phase = "recovering"]} /\ UNCHANGED <<handoffs, sending>>
    /\ UNCHANGED <<jobRow, written, workers, mapped, releasing, adopting, people, near,
                   execution, left, hitches>>

\* markReturnedToQueue, fenced by the lease.
Returned(p) ==
    /\ jobRow' = IF jobRow[p[1]].lease = p[2] THEN [jobRow EXCEPT ![p[1]] = Waiting] ELSE jobRow
    /\ left' = left \ {p}

\* _recoverHandoff
Recovered(d) ==
    /\ d \in drained /\ d.phase = "recovering"
    /\ Returned(<<d.job, d.lease>>)
    /\ drained' = {}
    /\ UNCHANGED <<written, book, people, near, sending, execution, hitches>>

-----------------------------------------------------------------------------
(* Closing                                                                 *)

\* _handleWorkerSocketClosed: an empty map is dropped at once.
CloseSeen(s) ==
    /\ s \in workers /\ near[s] = "closed"
    /\ workers' = workers \ {s}
    /\ mapped' = IF handoffs[s] = {} THEN mapped \ {s} ELSE mapped
    /\ releasing' = IF handoffs[s] = {} THEN releasing ELSE releasing \cup {s}
    /\ UNCHANGED <<jobRow, written, handoffs, adopting, drained, people, near, sending,
                   execution, left, hitches>>

\* Without its last entry the map of a closed socket is dropped.
Emptied(s, p) ==
    /\ handoffs' = [handoffs EXCEPT ![s] = @ \ {p}]
    /\ LET gone == IF s \notin workers /\ handoffs[s] = {p} THEN {s} ELSE {}
       IN  mapped' = mapped \ gone /\ releasing' = releasing \ gone

\* _releaseHandoff of the next lease.
ReleaseNext(s, p) ==
    /\ s \in releasing /\ p \in handoffs[s]
    /\ Returned(p)
    /\ Emptied(s, p)
    /\ UNCHANGED <<written, workers, adopting, drained, people, near, sending, execution,
                   hitches>>

-----------------------------------------------------------------------------
(* The workers                                                             *)

JobReceived(m) ==
    /\ m \in sending
    /\ sending' = sending \ {m}
    /\ execution' = execution \cup {<<m[1][1], m[2], m[3]>>}
    /\ UNCHANGED <<jobRow, written, book, drained, people, near, left, hitches>>

\* The job ends and is reported: its row is settled if the report carries its
\* lease, and the first map with the lease forgets it.
JobReported(x, again) ==
    LET p == <<x[2], x[3]>>
        known == {s \in mapped : p \in handoffs[s]}
    IN
    /\ mainUp /\ x \in execution
    /\ execution' = execution \ {x}
    /\ jobRow' = IF jobRow[p[1]].lease # p[2] THEN jobRow
                 ELSE [jobRow EXCEPT ![p[1]] = IF again THEN Waiting
                                               ELSE [status |-> "completed", by |-> {}, lease |-> 0]]
    /\ \/ known = {} /\ UNCHANGED <<handoffs, mapped, releasing>>
       \/ \E s \in known : Emptied(s, p)
    /\ left' = left \ {p}
    /\ UNCHANGED <<written, workers, adopting, drained, people, near, sending, hitches>>

Drops(s) ==
    /\ near' = [near EXCEPT ![s] = "closed"]
    /\ sending' = {m \in sending : m[1] # s}

\* The connection breaks, and main does not know yet.
SocketLost(s) ==
    /\ near[s] = "open" /\ s[1] \in Frail /\ outages < OutageMax
    /\ outages' = outages + 1
    /\ Drops(s)
    /\ UNCHANGED <<jobRow, written, book, drained, people, execution, left, losses>>

\* The worker announces that it drains, if it has a socket, and will not
\* connect again.
StopAnnounced(w) ==
    /\ w \in (working \cap Frail) \ stopping
    /\ stopping' = stopping \cup {w}
    /\ announced' = announced \cup {s \in Of(w) : near[s] = "open"}
    /\ UNCHANGED <<jobRow, written, book, drained, mainUp, working, draining, near,
                   sending, execution, left, hitches>>

\* _handleWorkerDraining
DrainingSeen(s) ==
    /\ s \in announced \cap workers
    /\ announced' = announced \ {s}
    /\ draining' = draining \cup {s}
    /\ UNCHANGED <<jobRow, written, book, drained, mainUp, working, stopping, near,
                   sending, execution, left, hitches>>

\* It closes its socket once it has nothing in flight.
WorkerLeaves(w) ==
    /\ w \in working \cap stopping
    /\ \A x \in execution : x[1] # w
    /\ working' = working \ {w}
    /\ near' = [s \in Sockets |-> IF s[1] = w /\ near[s] = "open" THEN "closed" ELSE near[s]]
    /\ sending' = {m \in sending : m[1][1] # w}
    /\ UNCHANGED <<jobRow, written, book, drained, mainUp, stopping, announced, draining,
                   execution, left, hitches>>

\* A worker dies with its jobs.  Leases that no map of main has are left.
WorkerCrashes(w) ==
    /\ w \in working \cap Frail /\ outages < OutageMax
    /\ outages' = outages + 1
    /\ working' = working \ {w}
    /\ near' = [s \in Sockets |-> IF s[1] = w /\ near[s] = "open" THEN "closed" ELSE near[s]]
    /\ sending' = {m \in sending : m[1][1] # w}
    /\ execution' = {x \in execution : x[1] # w}
    /\ left' = IF Of(w) \cap workers = {} THEN left \cup LeasesOf(w) ELSE left
    /\ UNCHANGED <<jobRow, written, book, drained, mainUp, stopping, announced, draining,
                   losses>>

\* Main dies, and everything it kept; a lease whose job has not reached its
\* worker is left.
MainCrashes ==
    /\ mainUp /\ losses < CrashMax
    /\ losses' = losses + 1
    /\ mainUp' = FALSE
    /\ workers' = {} /\ mapped' = {} /\ releasing' = {} /\ drained' = {} /\ sending' = {}
    /\ announced' = {} /\ draining' = {}
    /\ handoffs' = [s \in Sockets |-> {}]
    /\ adopting' = [s \in Sockets |-> NoAdoption]
    /\ near' = [s \in Sockets |-> IF near[s] = "open" THEN "closed" ELSE near[s]]
    /\ left' = left \cup UNION {{p \in LeasesOf(w) : <<w, p[1], p[2]>> \notin execution} : w \in HandoffWorkers}
    /\ UNCHANGED <<jobRow, written, working, stopping, execution, outages>>

MainStarts ==
    /\ ~mainUp
    /\ mainUp' = TRUE
    /\ UNCHANGED <<jobRow, written, book, drained, working, stopping, announced,
                   draining, near, sending, execution, left, hitches>>

HandoffNext ==
    \/ \E w \in HandoffWorkers : Hello(w) \/ StopAnnounced(w) \/ WorkerLeaves(w) \/ WorkerCrashes(w)
    \/ \E s \in Sockets : AdoptRead(s) \/ AdoptFails(s) \/ Adopted(s) \/ CloseSeen(s) \/ DrainingSeen(s) \/ SocketLost(s)
    \/ \E s \in releasing : \E p \in handoffs[s] : ReleaseNext(s, p)
    \/ \E j \in HandoffJobs, s \in workers : Pick(j, s)
    \/ \E d \in drained : HandOff(d) \/ DeliverJob(d) \/ Recovered(d)
    \/ \E m \in sending : JobReceived(m)
    \/ \E x \in execution, again \in BOOLEAN : JobReported(x, again)
    \/ MainCrashes \/ MainStarts

HandoffSpec == HandoffInit /\ [][HandoffNext]_handoffVars

-----------------------------------------------------------------------------
(* Properties                                                              *)

\* Types; only sockets with a map are in use or being closed, and a map has
\* one lease of a job.
HandoffTypeOK ==
    /\ jobRow \in [HandoffJobs -> [status : {"queued", "handed_off", "completed"},
                                   by : SUBSET HandoffWorkers, lease : 0..LeaseMax]]
    /\ written \in 0..LeaseMax /\ mainUp \in BOOLEAN
    /\ workers \subseteq mapped /\ releasing \subseteq mapped \ workers /\ mapped \subseteq Sockets
    /\ announced \cup draining \subseteq Sockets
    /\ \A s \in Sockets :
        /\ handoffs[s] \subseteq Pairs /\ adopting[s].found \subseteq Pairs
        /\ \A p, q \in handoffs[s] : p[1] = q[1] => p = q
        /\ s \notin mapped => handoffs[s] = {}
        /\ near[s] \in {"unused", "open", "closed"}
    /\ Cardinality(drained) <= 1 /\ left \subseteq Pairs
    /\ sending \subseteq {<<s, p[1], p[2]>> : s \in Sockets, p \in Pairs}
    /\ execution \subseteq {<<w, p[1], p[2]>> : w \in HandoffWorkers, p \in Pairs}

Adopts(s, p) == adopting[s].phase = "asked" \/ p \in adopting[s].found

\* Main knows every lease of a worker that is connected to it, or is about to,
\* through restarts of main, sockets that break and come back before main has
\* noticed, and adoptions that overlap handoffs and reports; so the close of
\* the worker's socket will give the lease back.  The exceptions are those of
\* the code's comment, the leases left to the orphan sweep, and a lease whose
\* entry an adoption overwrites with an older one.
ConnectedIsTracked ==
    \A w \in HandoffWorkers : \A p \in LeasesOf(w) \ left :
        Of(w) \cap workers # {} =>
            \/ \E s \in mapped : p \in handoffs[s]
            \/ \E s \in Of(w) \cap workers : Adopts(s, p)
            \/ \E d \in drained : d.job = p[1]

\* A lease that is held is at work, on its way to the worker, or about to be
\* given back, unless it is left to the orphan sweep.
HeldIsRun ==
    \A w \in HandoffWorkers : \A p \in LeasesOf(w) \ left :
        \/ <<w, p[1], p[2]>> \in execution
        \/ \E m \in sending : m[2] = p[1] /\ m[3] = p[2]
        \/ \E d \in drained : d.job = p[1]
        \/ \E s \in Of(w) : near[s] = "closed" /\ (p \in handoffs[s] \/ Adopts(s, p))

\* As long as no connection is lost, no job runs twice at once, however often main
\* restarts: adopting a lease never takes it from the worker that runs it, and
\* a stale entry of a map releases nothing.
RestartDoublesNothing ==
    outages = 0 => \A x, y \in execution : x[2] = y[2] => x = y

\* What main promises of the leases of its workers over broken sockets and its
\* own restarts: they are tracked, they are run, and nothing runs twice because
\* of a restart.
HandoffInv ==
    /\ HandoffTypeOK /\ ConnectedIsTracked /\ HeldIsRun
    /\ RestartDoublesNothing

=============================================================================
