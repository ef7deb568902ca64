------------------------------ MODULE JobRunner ------------------------------
(***************************************************************************)
(* A worker's child processes (background-jobs/worker.js with              *)
(* pooled-runner-child.js, forked-runner-child.js, job-runner.js).  A      *)
(* child performs the job and reports its end to main by itself; the       *)
(* worker watches the child, kills it when a job runs too long, and        *)
(* reports the jobs a dead child left behind as failed.  A pooled child    *)
(* runs several jobs at once and tells the worker of each; a forked child  *)
(* runs one and exits; a spawned one is on its own.                        *)
(*                                                                         *)
(* Main is the job's row: whoever reports first under the row's lease      *)
(* settles it, and a retried or rescheduled job is leased again, perhaps   *)
(* to a child that has not yet finished with its last run.                 *)
(***************************************************************************)
EXTENDS Integers, FiniteSets

CONSTANTS
    RunnerJobs,
    Modes,         \* execution modes in use
    MaxProcs,      \* bound on the child processes ever started, numbered in order
    ChildSlots,    \* pooledRunnerConcurrency
    MaxLeases,     \* bound on the leases ever written
    MaxTroubles    \* bound on crashes and reports that are given up

ASSUME RunnerAssumption ==
    /\ Modes \subseteq {"pooled", "forked", "spawned"}
    /\ ChildSlots \in Nat \ {0} /\ MaxProcs \in Nat
    /\ MaxLeases \in Nat /\ MaxTroubles \in Nat

Procs == 1..MaxProcs

VARIABLES
    execMode,       \* each job's execution mode
    held,       \* main: the lease a job runs under, 0 when it is queued or done
    issued,     \* main: leases written so far
    over,       \* main: the jobs that are finished
    proc,       \* child processes, as they really are
    kept,       \* worker: pooledChildren; FALSE once retired or seen to exit
    watch,      \* worker: jobs a child was given and has not answered for
    armed,      \* worker: children with a SIGKILL timer
    execs,      \* child: jobs in runningJobIds, and how far they have come
    said,       \* job-outcome messages under way to the worker
    failing,    \* worker: failure reports under way to main
    mixed,      \* jobs given to a child not yet done with their last run
    troubles

runnerVars == <<execMode, held, issued, over, proc, kept, watch, armed, execs,
                said, failing, mixed, troubles>>

Entries == [job: RunnerJobs, lease: 1..MaxLeases, proc: Procs]
Phases == {"sent", "performing", "reporting", "reported", "unreported", "told"}
Execs == [job: RunnerJobs, lease: 1..MaxLeases, proc: Procs, phase: Phases]

RunnerInit ==
    /\ execMode \in [RunnerJobs -> Modes]
    /\ held = [j \in RunnerJobs |-> 0]
    /\ issued = 0
    /\ over = {}
    /\ proc = [p \in Procs |-> "unborn"]
    /\ kept = [p \in Procs |-> FALSE]
    /\ watch = {} /\ armed = {} /\ execs = {} /\ said = {} /\ failing = {}
    /\ mixed = {} /\ troubles = 0

leaseVars == <<held, issued, over>>
childVars == <<proc, execs, said>>
workerVars == <<kept, watch, armed, failing>>

Trouble == troubles < MaxTroubles /\ troubles' = troubles + 1
Lives(p) == proc[p] \in {"up", "ending"}
Unborn == {p \in Procs : proc[p] = "unborn"}
On(p) == {e \in watch : e.proc = p}
Entry(e) == [job |-> e.job, lease |-> e.lease, proc |-> e.proc]

-----------------------------------------------------------------------------
(* Main.                                                                   *)

\* A report is applied if it carries the row's lease; the job is over or
\* waits for another lease.
Reported(e, again) ==
    IF held[e.job] # e.lease THEN UNCHANGED <<held, over>>
    ELSE /\ held' = [held EXCEPT ![e.job] = 0]
         /\ over' = IF again THEN over ELSE over \cup {e.job}

-----------------------------------------------------------------------------
(* The worker gives a job to a child.                                      *)

\* _selectPooledChild: a child of the pool with a free slot, ending or dead
\* though it may be, else a new one; forked and spawned jobs get their own.
CanHost(j, p) ==
    \/ p \in Unborn /\ \A q \in Unborn : p <= q
    \/ execMode[j] = "pooled" /\ kept[p] /\ Cardinality(On(p)) < ChildSlots
          /\ \A e \in On(p) : execMode[e.job] = "pooled"

\* The inflight map is keyed by the job's id: an entry of the job's last run
\* is overwritten.
Give(j, p) ==
    LET e == [job |-> j, lease |-> issued + 1, proc |-> p]
        busy == \E x \in execs \cup watch : x.job = j /\ x.proc = p
        alive == proc[p] = "unborn" \/ Lives(p)
    IN
    /\ held[j] = 0 /\ j \notin over /\ issued < MaxLeases
    /\ CanHost(j, p)
    /\ held' = [held EXCEPT ![j] = issued + 1]
    /\ issued' = issued + 1
    /\ proc' = IF proc[p] = "unborn" THEN [proc EXCEPT ![p] = "up"] ELSE proc
    /\ kept' = [kept EXCEPT ![p] = TRUE]
    /\ watch' = {x \in watch : x.job # j \/ x.proc # p} \cup {e}
    /\ execs' = IF ~alive THEN execs
                ELSE execs \cup {[job |-> j, lease |-> issued + 1,
                                  proc |-> p, phase |-> "sent"]}
    /\ mixed' = IF busy THEN mixed \cup {j} ELSE mixed
    /\ UNCHANGED <<execMode, over, armed, said, failing, troubles>>

-----------------------------------------------------------------------------
(* The child.                                                              *)

Moves(e, phase) ==
    execs' = (execs \ {e}) \cup {[e EXCEPT !.phase = phase]}

\* The job's message is taken up, also by a child that is shutting down, but
\* not if the job's id is in runningJobIds.
JobStarts(e) ==
    /\ e \in execs /\ e.phase = "sent"
    /\ IF \E x \in execs : x.job = e.job /\ x.proc = e.proc /\ x.phase # "sent"
       THEN execs' = execs \ {e}
       ELSE Moves(e, "performing")
    /\ UNCHANGED <<execMode, leaseVars, proc, said, workerVars, mixed, troubles>>

\* perform() returns or throws, and main has the report.
Reporting(e) == e \in execs /\ e.phase \in {"performing", "reporting"}

ChildReports(e, again) ==
    /\ Reporting(e)
    /\ Reported(e, again)
    /\ Moves(e, "reported")
    /\ UNCHANGED <<execMode, issued, proc, said, workerVars, mixed, troubles>>

\* A report is applied, but its answer is lost and the child tries again.
AnswerLost(e, again) ==
    /\ Reporting(e)
    /\ Trouble
    /\ Reported(e, again)
    /\ Moves(e, "reporting")
    /\ UNCHANGED <<execMode, issued, proc, said, workerVars, mixed>>

\* reportWithRetry gives up.
ReportGivenUp(e) ==
    /\ Reporting(e)
    /\ Trouble
    /\ Moves(e, "unreported")
    /\ UNCHANGED <<execMode, leaseVars, proc, said, workerVars, mixed>>

\* A pooled child tells the worker, and only then forgets the job.
OutcomeSent(e) ==
    /\ e \in execs /\ e.phase \in {"reported", "unreported"}
    /\ execMode[e.job] = "pooled"
    /\ Moves(e, "told")
    /\ said' = said \cup {[job |-> e.job, proc |-> e.proc,
                           acknowledged |-> e.phase = "reported"]}
    /\ UNCHANGED <<execMode, leaseVars, proc, workerVars, mixed, troubles>>

ChildForgets(e) ==
    /\ e \in execs /\ e.phase = "told"
    /\ execs' = execs \ {e}
    /\ UNCHANGED <<execMode, leaseVars, proc, said, workerVars, mixed, troubles>>

\* A forked or spawned child exits: cleanly only if its job was reported and
\* did not fail.
ChildFinishes(e, cleanly) ==
    /\ e \in execs /\ e.phase \in {"reported", "unreported"}
    /\ execMode[e.job] # "pooled"
    /\ cleanly => e.phase = "reported"
    /\ execs' = execs \ {e}
    /\ proc' = [proc EXCEPT ![e.proc] = IF cleanly THEN "clean" ELSE "dead"]
    /\ UNCHANGED <<execMode, leaseVars, said, workerVars, mixed, troubles>>

Dies(p) ==
    /\ proc' = [proc EXCEPT ![p] = "dead"]
    /\ execs' = {e \in execs : e.proc # p}
    /\ UNCHANGED <<execMode, leaseVars, said, workerVars, mixed>>

ChildCrashes(p) == Lives(p) /\ Trouble /\ Dies(p)

\* shutdownRunner has closed the connections.
ChildEnds(p) == proc[p] = "ending" /\ Dies(p) /\ UNCHANGED troubles

-----------------------------------------------------------------------------
(* The worker.                                                             *)

Terminated(p) == [proc EXCEPT ![p] = IF @ = "up" THEN "ending" ELSE @]

\* _onPooledJobTimeout, _onForkedJobTimeout.
TimesOut(e) ==
    /\ e \in watch /\ execMode[e.job] # "spawned"
    /\ proc' = Terminated(e.proc)
    /\ armed' = armed \cup {e.proc}
    /\ UNCHANGED <<execMode, leaseVars, execs, said, kept, watch, failing, mixed,
                   troubles>>

\* The grace is over: SIGKILL.
Kills(p) ==
    /\ p \in armed
    /\ armed' = armed \ {p}
    /\ IF Lives(p)
       THEN /\ proc' = [proc EXCEPT ![p] = "dead"]
            /\ execs' = {e \in execs : e.proc # p}
       ELSE UNCHANGED <<proc, execs>>
    /\ UNCHANGED <<execMode, leaseVars, said, kept, watch, failing, mixed, troubles>>

\* Mutant: an outcome is an outcome.
OutcomeTrusted(m, retire) ==
    LET done == {e \in watch : e.job = m.job /\ e.proc = m.proc}
    IN
    /\ m \in said
    /\ said' = said \ {m}
    /\ watch' = watch \ done
    /\ LET drained == retire /\ kept[m.proc] /\ On(m.proc) \subseteq done IN
       /\ kept' = IF drained THEN [kept EXCEPT ![m.proc] = FALSE] ELSE kept
       /\ proc' = IF drained THEN Terminated(m.proc) ELSE proc
    /\ UNCHANGED <<execMode, leaseVars, armed, execs, failing, mixed, troubles>>

\* _handlePooledChildMessage: the entry is found by the job's id.  A child
\* that has run enough is retired once nothing is left for it to do.
OutcomeHeard(m, retire) ==
    LET done == {e \in watch : e.job = m.job /\ e.proc = m.proc}
    IN
    /\ m \in said
    /\ said' = said \ {m}
    /\ watch' = watch \ done
    /\ failing' = IF m.acknowledged THEN failing
                  ELSE failing \cup {[job |-> e.job, lease |-> e.lease] : e \in done}
    /\ LET drained == retire /\ kept[m.proc] /\ On(m.proc) \subseteq done IN
       /\ kept' = IF drained THEN [kept EXCEPT ![m.proc] = FALSE] ELSE kept
       /\ proc' = IF drained THEN Terminated(m.proc) ELSE proc
    /\ UNCHANGED <<execMode, leaseVars, armed, execs, mixed, troubles>>

\* What a child's exit makes the worker report: every job in flight on a
\* pooled child, the job of a forked child that did not exit cleanly.
LeftBehind(p) ==
    {[job |-> e.job, lease |-> e.lease] : e \in
        {x \in On(p) : \/ execMode[x.job] = "pooled"
                       \/ execMode[x.job] = "forked" /\ proc[p] # "clean"}}

\* _handlePooledChildFailure, _handleForkedChildExit, the spawned child's
\* exit listener.
ExitSeen(p) ==
    /\ proc[p] \in {"dead", "clean"} /\ kept[p]
    /\ kept' = [kept EXCEPT ![p] = FALSE]
    /\ failing' = failing \cup LeftBehind(p)
    /\ watch' = watch \ On(p)
    /\ armed' = armed \ {p}
    /\ UNCHANGED <<execMode, leaseVars, childVars, mixed, troubles>>

\* _reportJobResult, retried until it is answered.
WorkerReports(r, again) ==
    /\ r \in failing
    /\ Reported(r, again)
    /\ failing' = failing \ {r}
    /\ UNCHANGED <<execMode, issued, childVars, kept, watch, armed, mixed, troubles>>

RunnerNext ==
    \/ \E j \in RunnerJobs, p \in Procs : Give(j, p)
    \/ \E e \in execs :
          \/ JobStarts(e) \/ ReportGivenUp(e)
          \/ OutcomeSent(e) \/ ChildForgets(e)
          \/ \E again \in BOOLEAN :
                ChildReports(e, again) \/ AnswerLost(e, again) \/ ChildFinishes(e, again)
    \/ \E p \in Procs : ChildCrashes(p) \/ ChildEnds(p) \/ Kills(p) \/ ExitSeen(p)
    \/ \E e \in watch : TimesOut(e)
    \/ \E m \in said, retire \in BOOLEAN : OutcomeHeard(m, retire)
    \/ \E r \in failing, again \in BOOLEAN : WorkerReports(r, again)

RunnerSpec == RunnerInit /\ [][RunnerNext]_runnerVars

-----------------------------------------------------------------------------
(* Properties.                                                             *)

RunnerTypeOK ==
    /\ execMode \in [RunnerJobs -> Modes]
    /\ held \in [RunnerJobs -> 0..MaxLeases] /\ issued \in 0..MaxLeases
    /\ over \subseteq RunnerJobs /\ mixed \subseteq RunnerJobs
    /\ proc \in [Procs -> {"unborn", "up", "ending", "dead", "clean"}]
    /\ kept \in [Procs -> BOOLEAN] /\ armed \subseteq Procs
    /\ watch \subseteq Entries /\ execs \subseteq Execs
    /\ said \subseteq [job: RunnerJobs, proc: Procs, acknowledged: BOOLEAN]
    /\ failing \subseteq [job: RunnerJobs, lease: 1..MaxLeases]
    /\ \A e \in execs : Lives(e.proc)
    /\ \A p \in Procs : Cardinality(On(p)) <= ChildSlots
    /\ \A e, f \in watch : e.job = f.job /\ e.proc = f.proc => e = f

\* A lease that is held has somebody left who will report it: a failure
\* report is under way, or the worker still waits for a child that has the
\* job, has answered for it, or is dead and will be seen to be.  (Not so for
\* a spawned child that dies, nor for a job that came back to the child that
\* was still finishing with it; those are left to main's orphan sweep.)
LeaseHasReporter ==
    \A j \in RunnerJobs :
        held[j] # 0 /\ execMode[j] # "spawned" /\ j \notin mixed =>
            \/ [job |-> j, lease |-> held[j]] \in failing
            \/ \E e \in watch :
                  /\ e.job = j /\ e.lease = held[j]
                  /\ \/ \E x \in execs : Entry(x) = e
                     \/ \E m \in said : m.job = j /\ m.proc = e.proc
                     \/ proc[e.proc] \in {"dead", "clean"} /\ kept[e.proc]

\* A job is never performed twice at once: the worker gives up a job only
\* when its child has exited or has said that it is done with it, however a
\* timeout, a crash and a late outcome race.  (A job that came back to the
\* child that was still finishing with it is again the exception: an outcome
\* of its last run that was never acknowledged is taken for one of this run,
\* and the failure reported for it sends a job that is being performed to
\* another child.)
NeverTwiceAtOnce ==
    \A x, y \in execs :
        x.job = y.job /\ x.job \notin mixed
            /\ x.phase = "performing" /\ y.phase = "performing" => x = y

\* A slot comes back: the worker waits only for children that exist, and a
\* child it no longer keeps has nothing left to do.
SlotsComeBack ==
    /\ \A e \in watch : kept[e.proc] /\ proc[e.proc] # "unborn"
    /\ \A x \in execs : x.phase = "told" \/ kept[x.proc] \/ x.job \in mixed

\* What the worker promises of the children it runs: every lease it took has
\* somebody left to report it, no job runs twice at once, and slots come back.
RunnerInv ==
    /\ RunnerTypeOK /\ LeaseHasReporter /\ NeverTwiceAtOnce /\ SlotsComeBack

=============================================================================
