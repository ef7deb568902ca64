----------------------------- MODULE MCDatabase -----------------------------
(***************************************************************************)
(* The connection pool and the transactions of one connection.  They share *)
(* no state, so a behaviour runs one of them and leaves the other at rest: *)
(* the states add up and do not multiply.                                  *)
(***************************************************************************)
EXTENDS DatabasePool, Transactions

VARIABLE part

\* The pool's clients and the operations have the same names.
Sym == Permutations(Clients) \cup Permutations(Conns) \cup Permutations(ReuseKeys)

\* The pool sees a failure or a close, not both.
OneMishap == poolFaults' + closes' <= 1

MCInit == PoolInit /\ TxnInit /\ part \in {"pool", "transactions"}

MCNext ==
    \/ part = "pool" /\ PoolNext /\ OneMishap /\ UNCHANGED <<txnVars, part>>
    \/ part = "transactions" /\ TxnNext /\ UNCHANGED <<poolVars, part>>

MCSpec == MCInit /\ [][MCNext]_<<poolVars, txnVars, part>>
=============================================================================
