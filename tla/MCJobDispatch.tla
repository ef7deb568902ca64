---------------------------- MODULE MCJobDispatch ----------------------------
(***************************************************************************)
(* Instances of JobDispatch for TLC.  The fault-tolerance run is about     *)
(* time (one worker, delays, failing calls) or about sockets (two workers  *)
(* that may lose theirs or be stopped), never about both at once.          *)
(***************************************************************************)
EXTENDS JobDispatch, TLC

\* Sound where every job is unkeyed and every worker may be stopped or none.
MCSymmetry == Permutations(Jobs) \cup Permutations(Workers)

\* Everything but the sockets: the worker stays.  A job at MaxTime is out of
\* reach of the longest timer.  A second failing call comes before anything that
\* takes time.
TimesBound ==
    /\ now < MaxTime /\ cuts = 0
    /\ errors <= 1 \/ (now = 0 /\ returns = 0)
    /\ Cardinality(conn) <= 1 /\ \A w \in Workers : up[w] = "up"

\* Everything but the clock: all jobs are due at once.  Of a failing call, a lost
\* socket and a worker that stops, two happen.
Stopped == Cardinality({w \in Workers : up[w] # "up"})
SocketsBound ==
    /\ Stopped <= 1 /\ errors <= 1 /\ errors + cuts + Stopped <= 2
    /\ now = 0 /\ returns = 0
    /\ \A j \in Jobs : at[j] = 0

Bound == TimesBound \/ SocketsBound
=============================================================================
