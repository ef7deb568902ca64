------------------------------ MODULE JobLease ------------------------------
(***************************************************************************)
(* What the store promises of a job, without rows, clocks, keys, counters  *)
(* or retries: it runs under at most one lease at a time, a lease runs at  *)
(* most one job, and a lease that was given up never runs anything again.  *)
(* JobStore implements this specification.                                 *)
(***************************************************************************)
CONSTANTS Jobs, Leases, None

VARIABLES
    holder,   \* the lease each job runs under, or None
    spent     \* the leases that were given up

Init == holder = [j \in Jobs |-> None] /\ spent = {}

Grant(j, l) ==
    /\ holder[j] = None
    /\ l \notin spent
    /\ \A i \in Jobs : holder[i] # l
    /\ holder' = [holder EXCEPT ![j] = l]
    /\ UNCHANGED spent

\* One step may settle several leases: the orphan sweep, the clearing of all.
Settle(S) ==
    /\ S # {}
    /\ \A j \in S : holder[j] # None
    /\ holder' = [j \in Jobs |-> IF j \in S THEN None ELSE holder[j]]
    /\ spent' = spent \cup {holder[j] : j \in S}

Next ==
    \/ \E j \in Jobs, l \in Leases : Grant(j, l)
    \/ \E S \in SUBSET Jobs : Settle(S)

Spec == Init /\ [][Next]_<<holder, spent>>
=============================================================================
