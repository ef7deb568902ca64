------------------------------ MODULE MCServer ------------------------------
(***************************************************************************)
(* The responses of one HTTP connection and the websocket sessions of one  *)
(* client.  They share no state, so a behaviour runs one of them and leaves*)
(* the other at rest: the states add up and do not multiply.               *)
(***************************************************************************)
EXTENDS HttpPipeline, WebsocketSession

VARIABLE part

Sym == Permutations(Sockets)

\* All of the sockets but one have said no more than it takes to resume.
OneTalks == \E s \in Sockets : \A t \in Sockets \ {s} : messages'[t] <= 1

\* One socket at a time is lost without notice, or a connection closed by the
\* server; while it is, three messages were sent at most.
Mishaps == Cardinality(cut') + Cardinality({k \in Connections : life'[k] = "closed"})
Said == Cardinality({p \in Sockets \X (1..MessageMax) : p[2] <= messages'[p[1]]})
OneMishap == Mishaps = 0 \/ (Mishaps = 1 /\ Said <= 3)

MCInit ==
    /\ part \in {"pipeline", "session"}
    /\ PipelineInit /\ SessionInit
    /\ part # "session" => ~resolver

MCNext ==
    \/ part = "pipeline" /\ PipelineNext /\ UNCHANGED <<sessVars, part>>
    \/ part = "session" /\ SessionNext /\ OneTalks /\ OneMishap /\ UNCHANGED <<pipeVars, part>>

MCSpec == MCInit /\ [][MCNext]_<<pipeVars, sessVars, part>>
=============================================================================
