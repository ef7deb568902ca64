------------------------------- MODULE MCJobs -------------------------------
(***************************************************************************)
(* The parts of the background jobs around the store and the dispatch:     *)
(* the credits of a worker's pool, its child processes, its leases over    *)
(* restarts, the startup reconciliation, idempotent enqueues, mail         *)
(* delivery, and the row locks of the store.  They share no state here, so *)
(* a behaviour runs one of them and leaves the others at rest: the states  *)
(* add up and do not multiply.                                             *)
(***************************************************************************)
EXTENDS WorkerAdmission, QueueReconcile, IdempotentEnqueue, MailDelivery,
        JobRunner, JobHandoff, LockOrder

VARIABLE part

\* Jobs and mains are numbered, and interchangeable: one order will do.
Rank == [none |-> 0, queued |-> 1, handed_off |-> 2]
InOrder(f) == \A j, k \in DOMAIN f : j < k => Rank[f[j]] <= Rank[f[k]]

\* The parts with a choice of initial states make it only when it is theirs.
MCInit ==
    /\ part \in {"admission", "reconcile", "enqueue", "mail", "runner", "handoff", "locks"}
    /\ Init /\ MailInit /\ HandoffInit
    /\ LockInit /\ keyOf[CHOOSE j \in LockJobs : TRUE] = CHOOSE k \in LockKeys : TRUE
    /\ part # "locks" => keyOf = [j \in LockJobs |-> CHOOSE k \in LockKeys : TRUE]
    /\ ReconcileInit /\ InOrder(status)
    /\ \A m, n \in Mains : m < n => config[m] <= config[n]
    /\ part # "reconcile" => cap = 0 /\ \A j \in Jobs : status[j] = "none"
    /\ part # "reconcile" => config = [m \in Mains |-> 0]
    /\ RunnerInit
    /\ part # "runner" => execMode = [j \in RunnerJobs |-> "pooled"]
    /\ execMode \in {<<"pooled", "pooled">>, <<"forked", "spawned">>}
    /\ IdemInit
    /\ part # "enqueue" => /\ level = "committed" /\ ~mail
                           /\ call = CHOOSE c \in [Callers -> Calls] : TRUE

\* Pooled jobs share a child; a forked or spawned one shares nothing with anybody,
\* so that one of each will do.
FirstLease ==
    (issued = 0 /\ issued' = 1 /\ \A j, k \in RunnerJobs : execMode[j] = execMode[k]) => held'[1] = 1

MCNext ==
    \/ /\ part = "admission" /\ Next
       /\ UNCHANGED <<reconcileVars, idemVars, mailVars, runnerVars, handoffVars, lockVars, part>>
    \/ /\ part = "reconcile" /\ ReconcileNext
       /\ UNCHANGED <<vars, idemVars, mailVars, runnerVars, handoffVars, lockVars, part>>
    \/ /\ part = "enqueue" /\ IdemNext
       /\ UNCHANGED <<vars, reconcileVars, mailVars, runnerVars, handoffVars, lockVars, part>>
    \/ /\ part = "mail" /\ MailNext
       /\ UNCHANGED <<vars, reconcileVars, idemVars, runnerVars, handoffVars, lockVars, part>>
    \/ /\ part = "runner" /\ RunnerNext /\ FirstLease
       /\ UNCHANGED <<vars, reconcileVars, idemVars, mailVars, handoffVars, lockVars, part>>
    \/ /\ part = "handoff" /\ HandoffNext
       /\ UNCHANGED <<vars, reconcileVars, idemVars, mailVars, runnerVars, lockVars, part>>
    \/ /\ part = "locks" /\ LockNext
       /\ UNCHANGED <<vars, reconcileVars, idemVars, mailVars, runnerVars, handoffVars, part>>

MCSpec ==
    MCInit /\ [][MCNext]_<<vars, reconcileVars, idemVars, mailVars, runnerVars,
                           handoffVars, lockVars, part>>
=============================================================================
