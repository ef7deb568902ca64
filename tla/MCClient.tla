------------------------------ MODULE MCClient ------------------------------
(***************************************************************************)
(* What runs in a browser or on a device: the offline mutations of two     *)
(* devices and the server that takes them, the pool of SQLite databases,   *)
(* the saves of an SQL.js database, and the resident databases of tenants. *)
(* They share no state, so a behaviour runs one of them and leaves the     *)
(* others at rest: the states add up and do not multiply.                  *)
(***************************************************************************)
EXTENDS SyncReplay, SinglePool, WebPersistence, TenantLifecycle

VARIABLE part

\* Actors have the same names in every part, and so have the fields and the
\* databases.
Sym == Permutations(Devices) \cup Permutations(Fields)

\* Where two databases fit, each is opened once; under a cap of one, one of them
\* comes back.
ReopensUnder(c) == c = 1 \/ pool'[EntryMax].life = "unborn"

MCInit ==
    /\ part \in {"replay", "single", "web", "tenants"}
    /\ SyncInit /\ SingleInit /\ WebInit /\ TenantInit
    /\ part # "single" => cap = 1

MCNext ==
    \/ part = "replay" /\ SyncNext /\ UNCHANGED <<singleVars, webVars, tenantVars, part>>
    \/ /\ part = "single" /\ SingleNext /\ ReopensUnder(cap)
       /\ UNCHANGED <<syncVars, webVars, tenantVars, part>>
    \/ part = "web" /\ WebNext /\ UNCHANGED <<syncVars, singleVars, tenantVars, part>>
    \/ part = "tenants" /\ TenantNext /\ UNCHANGED <<syncVars, singleVars, webVars, part>>

MCSpec == MCInit /\ [][MCNext]_<<syncVars, singleVars, webVars, tenantVars, part>>
=============================================================================
