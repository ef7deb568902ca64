----------------------------- MODULE MCJobStore -----------------------------
(***************************************************************************)
(* A small instance of the store for TLC.  A behaviour is about leases of  *)
(* keyed jobs or about a schedule key, each with bounds of its own.        *)
(***************************************************************************)
EXTENDS JobStore, TLC

VARIABLE part

\* Later retries wait longer (job-semantics.js retryDelayMs).
MCRetryDelays == <<1, 2>>

\* Ids are interchangeable.
MCSymmetry == Permutations(Jobs) \cup Permutations(Handoffs)

Born == {j \in Jobs : jobs[j].status # "none"}
Issued == {h \in Handoffs : fate[h] # "unissued"}

\* Two jobs and three leases under a fixed and a tunable key.
LeasesBound ==
    /\ Cardinality(Born) <= 2
    /\ \A j \in Jobs : jobs[j].skey = None
    /\ \A k \in FixedKeys : cap[k] <= 1

\* Three jobs and two leases competing for a schedule key.
ScheduleBound ==
    /\ Cardinality(Issued) <= 2 /\ now <= 1
    /\ \A j \in Jobs : jobs[j].ckey = None

MCInit == part \in {"leases", "schedule"} /\ Init

MCNext ==
    /\ Next /\ UNCHANGED part
    /\ (part = "leases" /\ LeasesBound') \/ (part = "schedule" /\ ScheduleBound')

MCSpec == MCInit /\ [][MCNext]_<<vars, part>>
=============================================================================
