--------------------------- MODULE RealtimeBridge ---------------------------
(***************************************************************************)
(* Subscribing and unsubscribing the realtime bridge of the sync client    *)
(* (sync-realtime-bridge.js).  One attempt at a time walks through its     *)
(* awaits with resources of its own and hands them to the bridge at its    *)
(* end; unsubscribe may come at any of the awaits, finds nothing to close  *)
(* and leaves it to the attempt to see that its generation has passed.     *)
(***************************************************************************)
EXTENDS Naturals

CONSTANTS
    CallMax,        \* bound on the calls of subscribe and unsubscribe
    BridgeFaults,   \* bound on failing awaits
    OwnClients      \* {TRUE}: createClient, {FALSE}: a shared connection

ASSUME BridgeAssumption ==
    /\ CallMax \in Nat /\ BridgeFaults \in Nat
    /\ OwnClients \subseteq BOOLEAN

Attempts == 1..CallMax

VARIABLES
    owns,       \* does the configuration have the bridge build its client
    bridge,     \* _state
    generation, \* _generation
    held,       \* the attempt whose channels and client the bridge has, 0 if none
    attempts,   \* attempts begun; the last one is under way unless at = "none"
    at,         \* the await of the attempt under way (_subscribePromise)
    mine,       \* the generation it began in
    raised,     \* is it in its catch block
    open,       \* attempts whose channel subscriptions are open
    clients,    \* attempts whose own client is built and not yet disconnected
    closing,    \* attempts whose client an unsubscribe is disconnecting
    wanted,     \* was subscribe the last call
    calls, bridgeFaults

resources == <<open, clients, closing>>
bridgeVars == <<owns, bridge, generation, held, attempts, at, mine, raised, resources, wanted, calls, bridgeFaults>>

BridgeTypeOK ==
    /\ owns \in BOOLEAN /\ raised \in BOOLEAN /\ wanted \in BOOLEAN
    /\ bridge \in {"unsubscribed", "subscribing", "subscribed"}
    /\ held \in 0..attempts /\ attempts \in 0..CallMax
    /\ at \in {"none", "describe", "create", "connect", "token", "ready", "teardown"}
    /\ mine <= generation /\ generation <= calls /\ calls <= CallMax
    /\ open \subseteq 1..attempts /\ clients \subseteq 1..attempts /\ closing \subseteq clients
    /\ (clients # {} => owns)
    /\ bridgeFaults \in 0..BridgeFaults

BridgeInit ==
    /\ owns \in OwnClients
    /\ bridge = "unsubscribed" /\ generation = 0 /\ held = 0
    /\ attempts = 0 /\ at = "none" /\ mine = 0 /\ raised = FALSE
    /\ open = {} /\ clients = {} /\ closing = {}
    /\ wanted = FALSE /\ calls = 0 /\ bridgeFaults = 0

-----------------------------------------------------------------------------
(* The calls                                                               *)

\* subscribe: nothing when subscribed, and an attempt under way is joined,
\* whether or not an unsubscribe has cancelled it.
Subscribe ==
    /\ calls < CallMax
    /\ calls' = calls + 1
    /\ wanted' = TRUE
    /\ IF bridge = "subscribed" \/ at # "none"
       THEN UNCHANGED <<bridge, attempts, at, mine, raised>>
       ELSE /\ bridge' = "subscribing"
            /\ attempts' = attempts + 1
            /\ at' = "describe" /\ mine' = generation /\ raised' = FALSE
    /\ UNCHANGED <<owns, generation, held, resources, bridgeFaults>>

\* Mutant: the generation stands.
UnsubscribeSameGeneration ==
    /\ calls < CallMax
    /\ calls' = calls + 1
    /\ wanted' = FALSE
    /\ held' = 0
    /\ bridge' = "unsubscribed"
    /\ open' = open \ {held}
    /\ closing' = IF held \in clients THEN closing \cup {held} ELSE closing
    /\ UNCHANGED <<owns, generation, attempts, at, mine, raised, clients, bridgeFaults>>

\* unsubscribe, up to the await of the disconnection
Unsubscribe ==
    /\ calls < CallMax
    /\ calls' = calls + 1
    /\ wanted' = FALSE
    /\ generation' = generation + 1
    /\ held' = 0
    /\ bridge' = "unsubscribed"
    /\ open' = open \ {held}
    /\ closing' = IF held \in clients THEN closing \cup {held} ELSE closing
    /\ UNCHANGED <<owns, attempts, at, mine, raised, clients, bridgeFaults>>

Disconnected(a) ==
    /\ a \in closing
    /\ closing' = closing \ {a}
    /\ clients' = clients \ {a}
    /\ UNCHANGED <<owns, bridge, generation, held, attempts, at, mine, raised, open, wanted, calls, bridgeFaults>>

-----------------------------------------------------------------------------
(* The attempt under way                                                   *)

Stale == mine # generation

\* What follows teardown: the end of the attempt, as a return or as a throw.
Settled(thrown) ==
    /\ at' = "none"
    /\ bridge' = IF thrown /\ ~Stale THEN "unsubscribed" ELSE bridge
    /\ raised' = FALSE

\* teardown: the channels at once, then the disconnection if the client is ours
Teardown(thrown) ==
    /\ open' = open \ {attempts}
    /\ IF attempts \in clients
       THEN at' = "teardown" /\ raised' = thrown /\ UNCHANGED bridge
       ELSE Settled(thrown)

TornDown ==
    /\ at = "teardown"
    /\ clients' = clients \ {attempts}
    /\ Settled(raised)
    /\ UNCHANGED <<owns, generation, held, attempts, mine, open, closing, wanted, calls, bridgeFaults>>

\* The awaits before the channels are opened: each goes on to the next unless
\* the attempt became stale meanwhile.
Goes(from, to) ==
    /\ at = from
    /\ IF Stale THEN Teardown(FALSE) ELSE at' = to /\ UNCHANGED <<bridge, raised, open>>

Described ==
    /\ Goes("describe", IF owns THEN "create" ELSE "connect")
    /\ UNCHANGED <<owns, generation, held, attempts, mine, clients, closing, wanted, calls, bridgeFaults>>

\* createClient has returned; a stale attempt tears the new client down again.
Created ==
    /\ at = "create"
    /\ clients' = clients \cup {attempts}
    /\ at' = IF Stale THEN "teardown" ELSE "connect"
    /\ UNCHANGED <<owns, bridge, generation, held, attempts, mine, raised, open, closing, wanted, calls, bridgeFaults>>

Connected ==
    /\ Goes("connect", "token")
    /\ UNCHANGED <<owns, generation, held, attempts, mine, clients, closing, wanted, calls, bridgeFaults>>

\* With the token every channel is subscribed, in one go.
Subscribes ==
    /\ at = "token"
    /\ IF Stale THEN Teardown(FALSE)
       ELSE /\ at' = "ready"
            /\ open' = open \cup {attempts}
            /\ UNCHANGED <<bridge, raised>>
    /\ UNCHANGED <<owns, generation, held, attempts, mine, clients, closing, wanted, calls, bridgeFaults>>

\* Every channel is acknowledged: the bridge takes over.
Acknowledged ==
    /\ at = "ready"
    /\ IF Stale THEN Teardown(FALSE) /\ UNCHANGED held
       ELSE /\ bridge' = "subscribed" /\ held' = attempts
            /\ at' = "none"
            /\ UNCHANGED <<raised, open>>
    /\ UNCHANGED <<owns, generation, attempts, mine, clients, closing, wanted, calls, bridgeFaults>>

\* An await rejects, or the parameters of a channel are refused.
Rejected ==
    /\ at \in {"describe", "create", "connect", "token", "ready"} /\ bridgeFaults < BridgeFaults
    /\ Teardown(TRUE)
    /\ bridgeFaults' = bridgeFaults + 1
    /\ UNCHANGED <<owns, generation, held, attempts, mine, clients, closing, wanted, calls>>

BridgeNext ==
    \/ Subscribe \/ Unsubscribe \/ \E a \in Attempts : Disconnected(a)
    \/ Described \/ Created \/ Connected \/ Subscribes \/ Acknowledged \/ Rejected \/ TornDown

BridgeSpec == BridgeInit /\ [][BridgeNext]_bridgeVars

-----------------------------------------------------------------------------
(* Properties                                                              *)

\* No channel and no client is left behind by a cancelled or failed attempt:
\* what is open belongs to the bridge, to the attempt under way, or is being
\* disconnected by the unsubscribe that took it.
NothingLeftOpen ==
    /\ open \subseteq (IF bridge = "subscribed" THEN {held} ELSE {}) \cup (IF at = "none" THEN {} ELSE {attempts})
    /\ clients \subseteq (IF bridge = "subscribed" THEN {held} ELSE {}) \cup (IF at = "none" THEN {} ELSE {attempts}) \cup closing

\* The bridge is subscribed only if subscribe was the last call, whatever was
\* under way when unsubscribe came; and then its channels are open.
SubscribedIsWanted ==
    bridge = "subscribed" => wanted /\ held \in open /\ (owns => held \in clients)

\* What the bridge promises its owner: after unsubscribe() nothing stays open,
\* and what is subscribed is wanted.
BridgeInv ==
    /\ BridgeTypeOK /\ NothingLeftOpen /\ SubscribedIsWanted

=============================================================================
