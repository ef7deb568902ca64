----------------------------- MODULE MCProcess ------------------------------
(***************************************************************************)
(* What runs inside one process beside its requests: the event log behind  *)
(* the websocket channels, the sync change feed with a client that follows *)
(* it, the client's realtime bridge, and the in-process job dispatcher.    *)
(* No two of them share state: a behaviour runs one and leaves the others  *)
(* at rest.                                                                *)
(***************************************************************************)
EXTENDS ChannelEvents, SyncFeed, RealtimeBridge, LocalDispatch, TLC

VARIABLE part

Sym == Permutations(Writers) \cup Permutations(LocalJobs)

\* Subscribers only meet in the log and in the interest, which may be there from
\* the start: a behaviour has one.
OneSubscriber == Cardinality({s \in ChannelSubs : subAt'[s] # "none"}) <= 1

MCInit ==
    /\ part \in {"channel", "feed", "bridge", "local"}
    /\ ChannelInit /\ FeedInit /\ BridgeInit /\ LocalInit
    /\ part # "channel" => ~threaded /\ ~recorded
    /\ part # "bridge" => ~owns

MCNext ==
    \/ /\ part = "channel" /\ ChannelNext /\ OneSubscriber
       /\ UNCHANGED <<feedVars, bridgeVars, localVars, part>>
    \/ part = "feed" /\ FeedNext /\ UNCHANGED <<channelVars, bridgeVars, localVars, part>>
    \/ part = "bridge" /\ BridgeNext /\ UNCHANGED <<channelVars, feedVars, localVars, part>>
    \/ part = "local" /\ LocalNext /\ UNCHANGED <<channelVars, feedVars, bridgeVars, part>>

MCSpec == MCInit /\ [][MCNext]_<<channelVars, feedVars, bridgeVars, localVars, part>>
=============================================================================
