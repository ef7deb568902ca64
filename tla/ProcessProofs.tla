--------------------------- MODULE ProcessProofs ----------------------------
(***************************************************************************)
(* Four parts that live in one process, for any number of jobs, calls,     *)
(* events, rows and failures: the realtime bridge of sync, which leaves    *)
(* nothing open once it is unsubscribed (BridgeInv); the dispatcher of     *)
(* local jobs, which performs no row twice, keeps within its cap and       *)
(* forgets no due job but in the known gaps (LocalInv); the channels with  *)
(* an event log, whose subscribers are sent what they missed (ChannelInv); *)
(* and the change feed, whose cursor leaves no hole behind it (FeedInv).   *)
(***************************************************************************)
EXTENDS RealtimeBridge, LocalDispatch, ChannelEvents, SyncFeed, FiniteSetTheorems, WellFoundedInduction, TLAPS

-----------------------------------------------------------------------------
(* The realtime bridge.                                                    *)

\* What the attempt under way has, by the await it has reached.
AttemptHolds ==
    /\ at # "none" => attempts # 0 /\ bridge # "subscribed" /\ attempts \notin closing
    /\ at # "none" /\ ~Stale => bridge = "subscribing" /\ wanted
    /\ at \in {"describe", "create"} => attempts \notin clients
    /\ at \in {"connect", "token", "ready"} /\ owns => attempts \in clients
    /\ at # "none" => (attempts \in open <=> at = "ready")

\* The bridge has an attempt's resources while it is subscribed.
BridgeHolds == IF bridge = "subscribed" THEN held \notin closing ELSE held = 0

BridgeModes ==
    /\ owns \in BOOLEAN /\ raised \in BOOLEAN /\ wanted \in BOOLEAN
    /\ bridge \in {"unsubscribed", "subscribing", "subscribed"}
    /\ at \in {"none", "describe", "create", "connect", "token", "ready", "teardown"}
    /\ (at = "create" => owns)

BridgeCounts ==
    /\ attempts \in Nat /\ held \in Nat /\ mine \in Nat /\ generation \in Nat /\ calls \in Nat
    /\ held <= attempts /\ attempts <= calls /\ calls <= CallMax
    /\ mine <= generation /\ generation <= calls
    /\ bridgeFaults \in Nat /\ bridgeFaults <= BridgeFaults

BridgeSets ==
    /\ closing \subseteq clients /\ (clients # {} => owns)
    /\ \A a \in open \cup clients : a \in Nat \ {0} /\ a <= attempts

BridgeInductive ==
    /\ BridgeModes /\ BridgeCounts /\ BridgeSets /\ AttemptHolds /\ BridgeHolds /\ NothingLeftOpen
    /\ SubscribedIsWanted

\* The bridge begins unsubscribed, with nothing open.
LEMMA BridgeStarts == BridgeInit => BridgeInductive
<1> SUFFICES ASSUME BridgeInit PROVE BridgeInductive
  OBVIOUS
<1>1. BridgeModes /\ BridgeSets
  BY BridgeAssumption DEF BridgeInit, BridgeModes, BridgeSets
<1>2. BridgeCounts
  BY BridgeAssumption DEF BridgeInit, BridgeCounts
<1>3. AttemptHolds /\ BridgeHolds /\ NothingLeftOpen /\ SubscribedIsWanted
  BY DEF BridgeInit, AttemptHolds, BridgeHolds, NothingLeftOpen, SubscribedIsWanted
<1> QED  BY <1>1, <1>2, <1>3 DEF BridgeInductive

\* What the bridge promises follows.
LEMMA BridgeInductiveHolds == BridgeInductive => BridgeInv
<1> SUFFICES ASSUME BridgeInductive PROVE BridgeInv
  OBVIOUS
<1>1. open \subseteq 1..attempts /\ clients \subseteq 1..attempts
  BY DEF BridgeInductive, BridgeModes, BridgeCounts, BridgeSets
<1>2. BridgeTypeOK
  BY <1>1, BridgeAssumption DEF BridgeInductive, BridgeModes, BridgeCounts, BridgeSets, BridgeTypeOK
<1> QED  BY <1>2 DEF BridgeInductive, BridgeInv

\* subscribe: joins the attempt or begins one.
LEMMA SubscribePreserves ==
    ASSUME BridgeInductive, Subscribe
    PROVE  BridgeInductive'
<1>1. BridgeModes'
  BY DEF BridgeInductive, BridgeModes, Subscribe
<1>2. BridgeCounts'
  BY BridgeAssumption DEF BridgeInductive, BridgeCounts, BridgeModes, BridgeSets, AttemptHolds,
       BridgeHolds, NothingLeftOpen, SubscribedIsWanted, Subscribe, Stale, resources
<1>3. BridgeSets'
  BY DEF BridgeInductive, BridgeSets, BridgeModes, BridgeCounts, Subscribe, resources
<1>4. AttemptHolds'
  BY DEF BridgeInductive, AttemptHolds, BridgeModes, BridgeCounts, BridgeSets, Subscribe, Stale,
       resources
<1>5. BridgeHolds'
  BY DEF BridgeInductive, BridgeHolds, Subscribe, resources
<1>6. NothingLeftOpen'
  BY DEF BridgeInductive, NothingLeftOpen, Subscribe, resources
<1>7. SubscribedIsWanted'
  BY DEF BridgeInductive, SubscribedIsWanted, Subscribe, resources
<1> QED  BY <1>1, <1>2, <1>3, <1>4, <1>5, <1>6, <1>7 DEF BridgeInductive

\* unsubscribe: a new generation, and what is held is closed.
LEMMA UnsubscribePreserves ==
    ASSUME BridgeInductive, Unsubscribe
    PROVE  BridgeInductive'
<1>1. BridgeModes'
  BY DEF BridgeInductive, BridgeModes, Unsubscribe
<1>2. BridgeCounts'
  BY BridgeAssumption DEF BridgeInductive, BridgeCounts, BridgeModes, BridgeSets, AttemptHolds,
       BridgeHolds, NothingLeftOpen, SubscribedIsWanted, Unsubscribe, Stale, resources
<1>3. BridgeSets'
  BY DEF BridgeInductive, BridgeSets, Unsubscribe, resources
<1>4. AttemptHolds'
  BY DEF BridgeInductive, AttemptHolds, BridgeModes, BridgeCounts, BridgeSets, BridgeHolds,
       NothingLeftOpen, SubscribedIsWanted, Unsubscribe, Stale, resources
<1>5. BridgeHolds'
  BY DEF BridgeInductive, BridgeHolds, Unsubscribe, resources
<1>6. NothingLeftOpen'
  BY DEF BridgeInductive, NothingLeftOpen, Unsubscribe, resources
<1>7. SubscribedIsWanted'
  BY DEF BridgeInductive, SubscribedIsWanted, Unsubscribe, resources
<1> QED  BY <1>1, <1>2, <1>3, <1>4, <1>5, <1>6, <1>7 DEF BridgeInductive

\* The socket of a client of ours is closed for good.
LEMMA DisconnectedPreserves ==
    ASSUME BridgeInductive, NEW a \in Attempts, Disconnected(a)
    PROVE  BridgeInductive'
<1>1. BridgeModes'
  BY DEF BridgeInductive, BridgeModes, Disconnected
<1>2. BridgeCounts'
  BY DEF BridgeInductive, BridgeCounts, Disconnected, Stale
<1>3. BridgeSets'
  BY DEF BridgeInductive, BridgeSets, Disconnected, resources
<1>4. AttemptHolds'
  BY DEF BridgeInductive, AttemptHolds, Disconnected, Stale, resources
<1>5. BridgeHolds'
  BY DEF BridgeInductive, BridgeHolds, Disconnected, resources
<1>6. NothingLeftOpen'
  BY DEF BridgeInductive, NothingLeftOpen, Disconnected, resources
<1>7. SubscribedIsWanted'
  BY DEF BridgeInductive, SubscribedIsWanted, BridgeModes, BridgeCounts, BridgeSets, AttemptHolds,
       BridgeHolds, NothingLeftOpen, Disconnected, resources
<1> QED  BY <1>1, <1>2, <1>3, <1>4, <1>5, <1>6, <1>7 DEF BridgeInductive

\* The resource has been described, or not.
LEMMA DescribedPreserves ==
    ASSUME BridgeInductive, Described
    PROVE  BridgeInductive'
<1>1. BridgeModes'
  BY DEF BridgeInductive, BridgeModes, Described, Goes, Teardown, Settled
<1>2. BridgeCounts'
  BY DEF BridgeInductive, BridgeCounts, Described, Stale, Goes, Teardown, Settled
<1>3. BridgeSets'
  BY DEF BridgeInductive, BridgeSets, Described, resources, Goes, Teardown
<1>4. AttemptHolds'
  BY DEF BridgeInductive, AttemptHolds, Described, Stale, resources, Goes, Teardown, Settled
<1>5. BridgeHolds'
  BY DEF BridgeInductive, BridgeHolds, Described, resources, Goes, Teardown, Settled
<1>6. NothingLeftOpen'
  BY DEF BridgeInductive, NothingLeftOpen, Described, resources, Goes, Teardown, Settled
<1>7. SubscribedIsWanted'
  BY DEF BridgeInductive, SubscribedIsWanted, BridgeModes, BridgeCounts, BridgeSets, AttemptHolds,
       BridgeHolds, NothingLeftOpen, Described, resources, Goes, Teardown, Settled
<1> QED  BY <1>1, <1>2, <1>3, <1>4, <1>5, <1>6, <1>7 DEF BridgeInductive

\* The client has been created, or not.
LEMMA CreatedPreserves ==
    ASSUME BridgeInductive, Created
    PROVE  BridgeInductive'
<1>1. BridgeModes'
  BY DEF BridgeInductive, BridgeModes, Created
<1>2. BridgeCounts'
  BY DEF BridgeInductive, BridgeCounts, Created, Stale
<1>3. BridgeSets'
  BY DEF BridgeInductive, BridgeSets, BridgeModes, BridgeCounts, AttemptHolds, BridgeHolds,
       NothingLeftOpen, SubscribedIsWanted, Created, resources
<1>4. AttemptHolds'
  BY DEF BridgeInductive, AttemptHolds, Created, Stale, resources
<1>5. BridgeHolds'
  BY DEF BridgeInductive, BridgeHolds, Created, resources
<1>6. NothingLeftOpen'
  BY DEF BridgeInductive, NothingLeftOpen, Created, resources
<1>7. SubscribedIsWanted'
  BY DEF BridgeInductive, SubscribedIsWanted, Created, resources
<1> QED  BY <1>1, <1>2, <1>3, <1>4, <1>5, <1>6, <1>7 DEF BridgeInductive

\* The client has connected, or not.
LEMMA ConnectedPreserves ==
    ASSUME BridgeInductive, Connected
    PROVE  BridgeInductive'
<1>1. BridgeModes'
  BY DEF BridgeInductive, BridgeModes, Connected, Goes, Teardown, Settled
<1>2. BridgeCounts'
  BY DEF BridgeInductive, BridgeCounts, Connected, Stale, Goes, Teardown, Settled
<1>3. BridgeSets'
  BY DEF BridgeInductive, BridgeSets, Connected, resources, Goes, Teardown
<1>4. AttemptHolds'
  BY DEF BridgeInductive, AttemptHolds, Connected, Stale, resources, Goes, Teardown, Settled
<1>5. BridgeHolds'
  BY DEF BridgeInductive, BridgeHolds, Connected, resources, Goes, Teardown, Settled
<1>6. NothingLeftOpen'
  BY DEF BridgeInductive, NothingLeftOpen, Connected, resources, Goes, Teardown, Settled
<1>7. SubscribedIsWanted'
  BY DEF BridgeInductive, SubscribedIsWanted, BridgeModes, BridgeCounts, BridgeSets, AttemptHolds,
       BridgeHolds, NothingLeftOpen, Connected, resources, Goes, Teardown, Settled
<1> QED  BY <1>1, <1>2, <1>3, <1>4, <1>5, <1>6, <1>7 DEF BridgeInductive

\* With the token every channel is subscribed.
LEMMA SubscribesPreserves ==
    ASSUME BridgeInductive, Subscribes
    PROVE  BridgeInductive'
<1>1. BridgeModes'
  BY DEF BridgeInductive, BridgeModes, Subscribes, Teardown, Settled
<1>2. BridgeCounts'
  BY DEF BridgeInductive, BridgeCounts, Subscribes, Stale, Teardown, Settled
<1>3. BridgeSets'
  <2>1. CASE Stale
    BY <2>1 DEF BridgeInductive, BridgeSets, BridgeModes, BridgeCounts, AttemptHolds, BridgeHolds,
         NothingLeftOpen, SubscribedIsWanted, Subscribes, Stale, resources, Teardown, Settled
  <2>2. CASE ~Stale
    <3>1. open' = open \cup {attempts} /\ UNCHANGED <<clients, closing, owns, attempts>> /\ attempts \in Nat \ {0}
      BY <2>2 DEF BridgeInductive, BridgeSets, BridgeModes, BridgeCounts, AttemptHolds,
           BridgeHolds, NothingLeftOpen, SubscribedIsWanted, Subscribes, Stale, resources,
           Teardown, Settled
    <3> QED  BY <3>1 DEF BridgeInductive, BridgeSets, BridgeCounts
  <2> QED  BY <2>1, <2>2
<1>4. AttemptHolds'
  BY DEF BridgeInductive, AttemptHolds, Subscribes, Stale, resources, Teardown, Settled
<1>5. BridgeHolds'
  BY DEF BridgeInductive, BridgeHolds, Subscribes, resources, Teardown, Settled
<1>6. NothingLeftOpen'
  BY DEF BridgeInductive, NothingLeftOpen, Subscribes, resources, Teardown, Settled
<1>7. SubscribedIsWanted'
  BY DEF BridgeInductive, SubscribedIsWanted, BridgeModes, BridgeCounts, BridgeSets, AttemptHolds,
       BridgeHolds, NothingLeftOpen, Subscribes, resources, Teardown, Settled
<1> QED  BY <1>1, <1>2, <1>3, <1>4, <1>5, <1>6, <1>7 DEF BridgeInductive

\* Every channel is acknowledged and the bridge takes over.
LEMMA AcknowledgedPreserves ==
    ASSUME BridgeInductive, Acknowledged
    PROVE  BridgeInductive'
<1>1. BridgeModes'
  BY DEF BridgeInductive, BridgeModes, Acknowledged, Teardown, Settled
<1>2. BridgeCounts'
  BY DEF BridgeInductive, BridgeCounts, Acknowledged, Stale, Teardown, Settled
<1>3. BridgeSets'
  BY DEF BridgeInductive, BridgeSets, Acknowledged, resources, Teardown
<1>4. AttemptHolds'
  BY DEF BridgeInductive, AttemptHolds, Acknowledged, Stale, resources, Teardown, Settled
<1>5. BridgeHolds'
  BY DEF BridgeInductive, BridgeHolds, BridgeModes, BridgeCounts, BridgeSets, AttemptHolds,
       NothingLeftOpen, SubscribedIsWanted, Acknowledged, resources, Teardown, Settled
<1>6. NothingLeftOpen'
  BY DEF BridgeInductive, NothingLeftOpen, BridgeModes, BridgeCounts, BridgeSets, AttemptHolds,
       BridgeHolds, SubscribedIsWanted, Acknowledged, resources, Teardown, Settled
<1>7. SubscribedIsWanted'
  BY DEF BridgeInductive, SubscribedIsWanted, BridgeModes, BridgeCounts, BridgeSets, AttemptHolds,
       BridgeHolds, NothingLeftOpen, Acknowledged, resources, Teardown, Settled
<1> QED  BY <1>1, <1>2, <1>3, <1>4, <1>5, <1>6, <1>7 DEF BridgeInductive

\* An await rejects, or the parameters of a channel are refused.
LEMMA RejectedPreserves ==
    ASSUME BridgeInductive, Rejected
    PROVE  BridgeInductive'
<1>1. BridgeModes'
  BY DEF BridgeInductive, BridgeModes, Rejected, Teardown, Settled
<1>2. BridgeCounts'
  BY BridgeAssumption DEF BridgeInductive, BridgeCounts, BridgeModes, BridgeSets, AttemptHolds,
       BridgeHolds, NothingLeftOpen, SubscribedIsWanted, Rejected, Stale, resources, Teardown,
       Settled
<1>3. BridgeSets'
  BY DEF BridgeInductive, BridgeSets, Rejected, resources, Teardown
<1>4. AttemptHolds'
  BY DEF BridgeInductive, AttemptHolds, Rejected, Stale, resources, Teardown, Settled
<1>5. BridgeHolds'
  BY DEF BridgeInductive, BridgeHolds, BridgeModes, BridgeCounts, BridgeSets, AttemptHolds,
       NothingLeftOpen, SubscribedIsWanted, Rejected, resources, Teardown, Settled
<1>6. NothingLeftOpen'
  BY DEF BridgeInductive, NothingLeftOpen, BridgeModes, BridgeCounts, BridgeSets, AttemptHolds,
       BridgeHolds, SubscribedIsWanted, Rejected, resources, Teardown, Settled
<1>7. SubscribedIsWanted'
  BY DEF BridgeInductive, SubscribedIsWanted, BridgeModes, BridgeCounts, BridgeSets, AttemptHolds,
       BridgeHolds, NothingLeftOpen, Rejected, resources, Teardown, Settled
<1> QED  BY <1>1, <1>2, <1>3, <1>4, <1>5, <1>6, <1>7 DEF BridgeInductive

\* What an attempt leaves is torn down.
LEMMA TornDownPreserves ==
    ASSUME BridgeInductive, TornDown
    PROVE  BridgeInductive'
<1>1. BridgeModes'
  BY DEF BridgeInductive, BridgeModes, TornDown, Settled
<1>2. BridgeCounts'
  BY DEF BridgeInductive, BridgeCounts, TornDown, Stale, Settled
<1>3. BridgeSets'
  BY DEF BridgeInductive, BridgeSets, BridgeModes, BridgeCounts, AttemptHolds, BridgeHolds,
       NothingLeftOpen, SubscribedIsWanted, TornDown, resources
<1>4. AttemptHolds'
  BY DEF BridgeInductive, AttemptHolds, TornDown, Stale, resources, Settled
<1>5. BridgeHolds'
  BY DEF BridgeInductive, BridgeHolds, BridgeModes, BridgeCounts, BridgeSets, AttemptHolds,
       NothingLeftOpen, SubscribedIsWanted, TornDown, resources, Settled
<1>6. NothingLeftOpen'
  BY DEF BridgeInductive, NothingLeftOpen, BridgeModes, BridgeCounts, BridgeSets, AttemptHolds,
       BridgeHolds, SubscribedIsWanted, TornDown, resources, Settled
<1>7. SubscribedIsWanted'
  BY DEF BridgeInductive, SubscribedIsWanted, BridgeModes, BridgeCounts, BridgeSets, AttemptHolds,
       BridgeHolds, NothingLeftOpen, TornDown, resources, Settled
<1> QED  BY <1>1, <1>2, <1>3, <1>4, <1>5, <1>6, <1>7 DEF BridgeInductive

\* Every step of the bridge, its callers and its socket.
LEMMA BridgeSteps == BridgeInductive /\ [BridgeNext]_bridgeVars => BridgeInductive'
<1> SUFFICES ASSUME BridgeInductive, [BridgeNext]_bridgeVars PROVE BridgeInductive'
  OBVIOUS
<1>1. CASE UNCHANGED bridgeVars
  BY <1>1 DEF bridgeVars, resources, BridgeInductive, BridgeModes, BridgeCounts, BridgeSets,
       AttemptHolds,
      BridgeHolds, NothingLeftOpen, SubscribedIsWanted, Stale
<1>2. ASSUME NEW a \in Attempts, Disconnected(a) PROVE BridgeInductive'
  BY <1>2, DisconnectedPreserves
<1> QED  BY <1>1, <1>2, SubscribePreserves, UnsubscribePreserves, DescribedPreserves,
     CreatedPreserves,
            ConnectedPreserves, SubscribesPreserves, AcknowledgedPreserves, RejectedPreserves,
            TornDownPreserves DEF BridgeNext

\* The bridge leaves nothing open after unsubscribe, and is subscribed only
\* when that was the last call, for every number of calls and failing awaits.
THEOREM BridgeKeepsPromise == BridgeSpec => []BridgeInv
<1> QED  BY BridgeStarts, BridgeSteps, BridgeInductiveHolds, PTL DEF BridgeSpec

-----------------------------------------------------------------------------
(* The dispatcher of local jobs.                                           *)

\* The rows; no lease is known that was not written.
RowsTyped ==
    /\ rowStatus \in [LocalJobs -> {"unborn", "queued", "handed_off", "gone"}]
    /\ due \in [LocalJobs -> 0..LocalEnd] /\ time \in 0..LocalEnd
    /\ lease \in [LocalJobs -> 0..MaxRuns] /\ runs \in [LocalJobs -> 0..MaxRuns]

OwnedTyped ==
    /\ flights \subseteq Flights /\ retrying \subseteq Flights
    /\ unacked \in [LocalJobs -> Flights \cup {NoFlight}]
    /\ stray \subseteq LocalJobs /\ overlooked \subseteq LocalJobs

DrainTyped ==
    /\ mode \in {"down", "on", "draining", "settling", "stopped"}
    /\ place \in {"idle", "woken", "retry", "probe", "claim", "arming", "arm"}
    /\ again \in BOOLEAN /\ rescue \in BOOLEAN
    /\ pick \in LocalJobs \cup {NoFlight}
    /\ place = "idle" => ~again \/ ~Accepting

TimersTyped ==
    /\ alarm \in 0..LocalEnd \cup {NoFlight} /\ soon \in 0..LocalEnd \cup {NoFlight}
    /\ probed \in 0..LocalEnd

\* A drain retries at its start and claims with room to spare.
DrainPlaces ==
    /\ place # "retry" => retrying = {}
    /\ place = "claim" => pick \in LocalJobs /\ OwnedCount < MaxAtOnce

\* What stop() has waited for is over.
StopWaited ==
    /\ mode \in {"settling", "stopped", "down"} => place = "idle" /\ flights = {}
    /\ mode \in {"stopped", "down"} => \A j \in LocalJobs : unacked[j] = NoFlight

\* Every lease in anybody's hands was written.
LeasesWritten ==
    /\ \A j \in LocalJobs : lease[j] <= runs[j]
    /\ \A f \in flights \cup retrying : f.lease <= runs[f.job]
    /\ \A j \in LocalJobs : unacked[j] # NoFlight => unacked[j].lease <= runs[j] /\ unacked[j].job = j

\* A performance, finished or not, holds its row's lease, and is alone with it.
FlightsLeased ==
    /\ \A f \in flights : rowStatus[f.job] = "handed_off" /\ lease[f.job] = f.lease
    /\ \A f, g \in flights : f.job = g.job => f = g

\* An outcome that is still to be acknowledged is that of an earlier run.
OutcomesEarlier ==
    \A f \in flights :
        /\ unacked[f.job] # NoFlight => unacked[f.job].lease # f.lease
        /\ \A g \in retrying : g.job = f.job => g.lease # f.lease

WithinCap == IsFiniteSet(flights) /\ OwnedCount <= MaxAtOnce

\* An outcome that is owed will be retried.
OutcomesRetried ==
    Accepting => \A j \in LocalJobs : unacked[j] # NoFlight =>
        rescue \/ place = "woken" \/ again \/ (place = "retry" /\ unacked[j] \in retrying)

\* A drain that is arming the timer, and has not been told to go round again,
\* leaves no job that its timer or somebody else will not wake it for.
Wakened(j) == flights # {} \/ rescue \/ (j \in LocalKeyed /\ LocalKeyed \cap stray # {})
ArmCovers ==
    Accepting /\ ~again =>
        /\ place = "arming" => \A j \in LocalJobs :
              rowStatus[j] = "queued" => due[j] > probed \/ Wakened(j)
        /\ place = "arm" => \A j \in LocalJobs \ overlooked :
              rowStatus[j] = "queued" => (soon # NoFlight /\ soon <= due[j]) \/ Wakened(j)

LocalInductive ==
    /\ RowsTyped /\ OwnedTyped /\ DrainTyped /\ TimersTyped /\ DrainPlaces /\ StopWaited
    /\ LeasesWritten /\ FlightsLeased /\ OutcomesEarlier /\ WithinCap /\ OutcomesRetried
    /\ ArmCovers /\ LeaseIsOwned /\ NothingForgotten

\* Every set of numbers that is not empty has a least one.
LEMMA LeastNatural ==
    ASSUME NEW S \in SUBSET Nat, S # {}
    PROVE  \E m \in S : \A n \in S : m <= n
<1>1. PICK m \in S : \A n \in S : <<n, m>> \notin OpToRel(<, Nat)
  BY NatLessThanWellFounded, WFMin
<1>2. \A n \in S : ~(n < m)
  BY <1>1 DEF OpToRel
<1> QED  BY <1>2

\* While some job is available the store has one to offer.
LEMMA AvailableIsFound ==
    ASSUME RowsTyped, NEW j \in LocalJobs, Available(j)
    PROVE  NextAvailable # {}
<1> DEFINE dues == {due[k] : k \in {i \in LocalJobs : Available(i)}}
<1>1. dues \in SUBSET Nat /\ due[j] \in dues
  BY LocalAssumption DEF RowsTyped
<1>2. PICK m \in dues : \A n \in dues : m <= n
  <2> HIDE DEF dues
  <2> QED  BY <1>1, LeastNatural
<1>3. PICK k \in LocalJobs : Available(k) /\ due[k] = m
  BY <1>2
<1> QED  BY <1>2, <1>3 DEF NextAvailable

\* nextScheduledJob returns a time no later than that of any job ahead.
LEMMA NextIsSoonest ==
    ASSUME RowsTyped
    PROVE  /\ NextScheduledAt \in 0..LocalEnd \cup {NoFlight}
           /\ \A j \in LocalJobs : rowStatus[j] = "queued" /\ due[j] > time =>
                 NextScheduledAt # NoFlight /\ NextScheduledAt <= due[j]
<1>1. Ahead \in SUBSET Nat /\ Ahead \subseteq 0..LocalEnd
  BY LocalAssumption DEF RowsTyped, Ahead
<1>2. CASE Ahead = {}
  BY <1>2 DEF NextScheduledAt, Ahead
<1>3. CASE Ahead # {}
  <2>1. \E m \in Ahead : \A n \in Ahead : m <= n
    BY <1>1, <1>3, LeastNatural
  <2>2. NextScheduledAt \in Ahead /\ \A n \in Ahead : NextScheduledAt <= n
    BY <1>3, <2>1 DEF NextScheduledAt, Min
  <2>3. NextScheduledAt # NoFlight
    BY <1>1, <2>2, LocalAssumption
  <2>4. \A j \in LocalJobs : rowStatus[j] = "queued" /\ due[j] > time => due[j] \in Ahead
    BY DEF Ahead
  <2> QED  BY <1>1, <2>2, <2>3, <2>4
<1> QED  BY <1>2, <1>3

\* The performances and the outcomes owed can be counted.
LEMMA CountTyped ==
    ASSUME IsFiniteSet(flights)
    PROVE  /\ IsFiniteSet(Owed) /\ Cardinality(flights) \in Nat /\ Cardinality(Owed) \in Nat
           /\ OwnedCount = Cardinality(flights) + Cardinality(Owed)
<1>1. Owed \subseteq LocalJobs
  BY DEF Owed
<1> QED  BY <1>1, LocalAssumption, FS_Subset, FS_CardinalityType DEF OwnedCount

\* A set with one more element.
LEMMA OneMore ==
    ASSUME NEW S, IsFiniteSet(S), NEW x
    PROVE  /\ IsFiniteSet(S \cup {x})
           /\ Cardinality(S) \in Nat /\ Cardinality(S \cup {x}) \in Nat
           /\ Cardinality(S \cup {x}) <= Cardinality(S) + 1
<1>1. IsFiniteSet(S \cup {x})
  BY FS_AddElement
<1>2. Cardinality(S) \in Nat /\ Cardinality(S \cup {x}) \in Nat
  BY <1>1, FS_CardinalityType
<1>3. Cardinality(S \cup {x}) = Cardinality(S) \/ Cardinality(S \cup {x}) = Cardinality(S) + 1
  BY FS_AddElement
<1> QED  BY <1>1, <1>2, <1>3

\* Nothing is owned that was not, except for one performance or outcome in
\* the place of another performance.
LEMMA CountKept ==
    ASSUME IsFiniteSet(flights),
           \/ flights' \subseteq flights /\ Owed' \subseteq Owed
           \/ \E f \in flights : \E j : flights' = flights \ {f} /\ Owed' \subseteq Owed \cup {j}
           \/ \E f \in flights : \E g : flights' = (flights \ {f}) \cup {g} /\ Owed' \subseteq Owed
    PROVE  IsFiniteSet(flights') /\ OwnedCount \in Nat /\ OwnedCount' \in Nat /\ OwnedCount' <= OwnedCount
<1>1. IsFiniteSet(Owed) /\ Cardinality(flights) \in Nat /\ Cardinality(Owed) \in Nat
  BY CountTyped
<1>2. CASE flights' \subseteq flights /\ Owed' \subseteq Owed
  <2>1. /\ IsFiniteSet(flights') /\ Cardinality(flights') <= Cardinality(flights)
        /\ Cardinality(Owed') <= Cardinality(Owed)
        /\ Cardinality(flights') \in Nat /\ Cardinality(Owed') \in Nat
    BY <1>1, <1>2, FS_Subset, FS_CardinalityType
  <2> QED  BY <1>1, <2>1 DEF OwnedCount
<1>3. ASSUME NEW f \in flights, NEW j, flights' = flights \ {f}, Owed' \subseteq Owed \cup {j}
      PROVE  IsFiniteSet(flights') /\ OwnedCount \in Nat /\ OwnedCount' \in Nat /\ OwnedCount' <= OwnedCount
  <2>1. IsFiniteSet(flights') /\ Cardinality(flights') = Cardinality(flights) - 1
    BY <1>3, FS_RemoveElement
  <2>2. /\ IsFiniteSet(Owed \cup {j}) /\ Cardinality(Owed \cup {j}) <= Cardinality(Owed) + 1
    BY <1>1, OneMore
  <2>3. Cardinality(Owed') <= Cardinality(Owed \cup {j}) /\ IsFiniteSet(Owed')
    BY <1>3, <2>2, FS_Subset
  <2>4. Cardinality(flights') \in Nat /\ Cardinality(Owed') \in Nat /\ Cardinality(Owed \cup {j}) \in Nat
    BY <2>1, <2>2, <2>3, FS_CardinalityType
  <2>5. Cardinality(Owed') <= Cardinality(Owed) + 1
    BY <1>1, <2>2, <2>3, <2>4
  <2> QED  BY <1>1, <2>1, <2>4, <2>5 DEF OwnedCount
<1>4. ASSUME NEW f \in flights, NEW g, flights' = (flights \ {f}) \cup {g}, Owed' \subseteq Owed
      PROVE  IsFiniteSet(flights') /\ OwnedCount \in Nat /\ OwnedCount' \in Nat /\ OwnedCount' <= OwnedCount
  <2>1. IsFiniteSet(flights \ {f}) /\ Cardinality(flights \ {f}) = Cardinality(flights) - 1
    BY FS_RemoveElement
  <2>2. /\ IsFiniteSet(flights') /\ Cardinality(flights') <= Cardinality(flights \ {f}) + 1
    BY <1>4, <2>1, OneMore
  <2>3. Cardinality(Owed') <= Cardinality(Owed) /\ IsFiniteSet(Owed')
    BY <1>1, <1>4, FS_Subset
  <2>4. Cardinality(flights') \in Nat /\ Cardinality(Owed') \in Nat
    BY <2>2, <2>3, FS_CardinalityType
  <2> QED  BY <1>1, <2>1, <2>2, <2>3, <2>4 DEF OwnedCount
<1> QED  BY <1>2, <1>3, <1>4

\* The row after markHandedOff.
LEMMA LeaseIsNew ==
    ASSUME RowsTyped, NEW j \in LocalJobs, HandedOff(j)
    PROVE  /\ runs'[j] = runs[j] + 1 /\ lease'[j] = runs[j] + 1 /\ rowStatus'[j] = "handed_off"
           /\ \A k \in LocalJobs \ {j} :
                 runs'[k] = runs[k] /\ lease'[k] = lease[k] /\ rowStatus'[k] = rowStatus[k]
BY DEF RowsTyped, HandedOff

\* The rows after an acknowledgement: only that of a lease that still holds
\* changes, and it is no longer handed off.
LEMMA OutcomeIsStored ==
    ASSUME RowsTyped, NEW f \in Flights, NEW again_ \in BOOLEAN,
           NEW delay \in LocalDelays \cup {0}, Acknowledges(f, again_, delay)
    PROVE  /\ runs' = runs
           /\ \A k \in LocalJobs :
                 \/ rowStatus'[k] = rowStatus[k] /\ lease'[k] = lease[k] /\ due'[k] = due[k]
                 \/ /\ k = f.job /\ AcceptsHandoff(f)
                    /\ rowStatus'[k] \in {"queued", "gone"} /\ lease'[k] = 0 /\ due'[k] \in 0..LocalEnd
           /\ rowStatus' \in [LocalJobs -> {"unborn", "queued", "handed_off", "gone"}]
           /\ due' \in [LocalJobs -> 0..LocalEnd]
           /\ lease' \in [LocalJobs -> 0..MaxRuns]
<1>1. time + delay \in Nat /\ (again_ => time + delay \in 0..LocalEnd) /\ f.job \in LocalJobs
  BY LocalAssumption DEF RowsTyped, Acknowledges, Flights
<1>2. CASE AcceptsHandoff(f)
  <2>1. CASE again_
    BY <1>1, <1>2, <2>1, LocalAssumption DEF RowsTyped, Acknowledges, OutcomeStored
  <2>2. CASE ~again_
    BY <1>1, <1>2, <2>2, LocalAssumption DEF RowsTyped, Acknowledges, OutcomeStored
  <2> QED  BY <2>1, <2>2
<1>3. CASE ~AcceptsHandoff(f)
  BY <1>1, <1>3 DEF RowsTyped, Acknowledges, OutcomeStored, localRows
<1> QED  BY <1>2, <1>3

\* A job is inserted and the dispatcher woken.
LEMMA EnqueuedPreserves ==
    ASSUME LocalInductive, NEW j \in LocalJobs, NEW delay \in LocalDelays, Enqueued(j, delay)
    PROVE  LocalInductive'
<1>1. RowsTyped'
  BY LocalAssumption DEF LocalInductive, RowsTyped, OwnedTyped, DrainPlaces, Enqueued, Wake,
       Accepting, localRows, owned, drain, timers, bounds, still
<1>2. OwnedTyped'
  BY DEF LocalInductive, OwnedTyped, Enqueued, Flights, localRows, owned, drain, still
<1>3. DrainTyped'
  BY DEF LocalInductive, DrainTyped, Accepting, Enqueued, Wake, drain, timers, still
<1>4. TimersTyped'
  BY DEF LocalInductive, TimersTyped, Enqueued, drain, timers, still
<1>5. DrainPlaces'
  BY DEF LocalInductive, DrainPlaces, OwnedCount, Owed, Enqueued, Wake, owned, drain, still
<1>6. StopWaited'
  BY DEF LocalInductive, StopWaited, Enqueued, Wake, Accepting, owned, drain
<1>7. LeasesWritten'
  BY DEF LocalInductive, LeasesWritten, Enqueued, localRows, owned, drain, still
<1>8. FlightsLeased'
  BY DEF LocalInductive, FlightsLeased, Enqueued, localRows, owned
<1>9. OutcomesEarlier'
  BY DEF LocalInductive, OutcomesEarlier, Enqueued, localRows, owned, drain, still
<1>10. WithinCap'
  BY DEF LocalInductive, WithinCap, OwnedCount, Owed, Enqueued, owned
<1>11. OutcomesRetried'
  BY DEF LocalInductive, OutcomesRetried, Accepting, Enqueued, Wake, owned, drain, timers, still
<1>12. ArmCovers'
  BY DEF LocalInductive, ArmCovers, Accepting, Wakened, Enqueued, Wake, localRows, owned, drain,
       timers, still
<1>13. LeaseIsOwned'
  BY DEF LocalInductive, LeaseIsOwned, Owed, Enqueued, Wake, Accepting, localRows, owned
<1>14. NothingForgotten'
  BY DEF LocalInductive, NothingForgotten, Accepting, WakeComing, Enqueued, Wake, localRows, owned,
       drain, timers, bounds
<1> QED  BY <1>1, <1>2, <1>3, <1>4, <1>5, <1>6, <1>7, <1>8, <1>9, <1>10, <1>11, <1>12, <1>13,
     <1>14 DEF LocalInductive

\* The timer of the next job fires.
LEMMA AlarmFiresPreserves ==
    ASSUME LocalInductive, AlarmFires
    PROVE  LocalInductive'
<1>1. RowsTyped'
  BY DEF LocalInductive, RowsTyped, AlarmFires, localRows, bounds
<1>2. OwnedTyped'
  BY DEF LocalInductive, OwnedTyped, AlarmFires, Flights, localRows, owned, drain, still
<1>3. DrainTyped'
  BY DEF LocalInductive, DrainTyped, Accepting, AlarmFires, Wake, drain, timers, still
<1>4. TimersTyped'
  BY DEF LocalInductive, TimersTyped, AlarmFires, drain, timers, still
<1>5. DrainPlaces'
  BY DEF LocalInductive, DrainPlaces, OwnedCount, Owed, AlarmFires, Wake, owned, drain, still
<1>6. StopWaited'
  BY DEF LocalInductive, StopWaited, AlarmFires, Wake, Accepting, owned, drain
<1>7. LeasesWritten'
  BY DEF LocalInductive, LeasesWritten, AlarmFires, localRows, owned, drain, still
<1>8. FlightsLeased'
  BY DEF LocalInductive, FlightsLeased, AlarmFires, localRows, owned
<1>9. OutcomesEarlier'
  BY DEF LocalInductive, OutcomesEarlier, AlarmFires, localRows, owned, drain, still
<1>10. WithinCap'
  BY DEF LocalInductive, WithinCap, OwnedCount, Owed, AlarmFires, owned
<1>11. OutcomesRetried'
  BY DEF LocalInductive, OutcomesRetried, Accepting, AlarmFires, Wake, owned, drain, timers, still
<1>12. ArmCovers'
  BY DEF LocalInductive, ArmCovers, Accepting, Wakened, AlarmFires, Wake, localRows, owned, drain,
       timers, still
<1>13. LeaseIsOwned'
  BY DEF LocalInductive, LeaseIsOwned, Owed, AlarmFires, Wake, Accepting, localRows, owned
<1>14. NothingForgotten'
  BY DEF LocalInductive, NothingForgotten, Accepting, WakeComing, AlarmFires, Wake, localRows,
       owned, drain, timers, bounds
<1> QED  BY <1>1, <1>2, <1>3, <1>4, <1>5, <1>6, <1>7, <1>8, <1>9, <1>10, <1>11, <1>12, <1>13,
     <1>14 DEF LocalInductive

\* The timer of the next retry fires.
LEMMA RescueFiresPreserves ==
    ASSUME LocalInductive, RescueFires
    PROVE  LocalInductive'
<1>1. RowsTyped'
  BY DEF LocalInductive, RowsTyped, RescueFires, localRows, bounds
<1>2. OwnedTyped'
  BY DEF LocalInductive, OwnedTyped, RescueFires, Flights, localRows, owned, drain, still
<1>3. DrainTyped'
  BY DEF LocalInductive, DrainTyped, Accepting, RescueFires, Wake, drain, timers, still
<1>4. TimersTyped'
  BY DEF LocalInductive, TimersTyped, RescueFires, drain, timers, still
<1>5. DrainPlaces'
  BY DEF LocalInductive, DrainPlaces, OwnedCount, Owed, RescueFires, Wake, owned, drain, still
<1>6. StopWaited'
  BY DEF LocalInductive, StopWaited, RescueFires, Wake, Accepting, owned, drain
<1>7. LeasesWritten'
  BY DEF LocalInductive, LeasesWritten, RescueFires, localRows, owned, drain, still
<1>8. FlightsLeased'
  BY DEF LocalInductive, FlightsLeased, RescueFires, localRows, owned
<1>9. OutcomesEarlier'
  BY DEF LocalInductive, OutcomesEarlier, RescueFires, localRows, owned, drain, still
<1>10. WithinCap'
  BY DEF LocalInductive, WithinCap, OwnedCount, Owed, RescueFires, owned
<1>11. OutcomesRetried'
  BY DEF LocalInductive, OutcomesRetried, Accepting, RescueFires, Wake, owned, drain, timers, still
<1>12. ArmCovers'
  BY DEF LocalInductive, ArmCovers, Accepting, Wakened, RescueFires, Wake, localRows, owned, drain,
       timers, still
<1>13. LeaseIsOwned'
  BY DEF LocalInductive, LeaseIsOwned, Owed, RescueFires, Wake, Accepting, localRows, owned
<1>14. NothingForgotten'
  BY DEF LocalInductive, NothingForgotten, Accepting, WakeComing, RescueFires, Wake, localRows,
       owned, drain, timers, bounds
<1> QED  BY <1>1, <1>2, <1>3, <1>4, <1>5, <1>6, <1>7, <1>8, <1>9, <1>10, <1>11, <1>12, <1>13,
     <1>14 DEF LocalInductive

\* A drain begins, or goes round again.
LEMMA DrainStartsPreserves ==
    ASSUME LocalInductive, DrainStarts
    PROVE  LocalInductive'
<1>1. RowsTyped'
  BY DEF LocalInductive, RowsTyped, DrainStarts, localRows, bounds
<1>2. OwnedTyped'
  BY DEF LocalInductive, OwnedTyped, DrainStarts, Owed, Flights, localRows, owned, drain, still
<1>3. DrainTyped'
  BY DEF LocalInductive, DrainTyped, Accepting, DrainStarts, drain, timers, still
<1>4. TimersTyped'
  BY DEF LocalInductive, TimersTyped, DrainStarts, drain, timers, still
<1>5. DrainPlaces'
  BY DEF LocalInductive, DrainPlaces, OwnedCount, Owed, DrainStarts, owned, drain, still
<1>6. StopWaited'
  BY DEF LocalInductive, StopWaited, DrainStarts, Owed, owned, drain
<1>7. LeasesWritten'
  BY DEF LocalInductive, LeasesWritten, DrainStarts, Owed, localRows, owned, drain, still
<1>8. FlightsLeased'
  BY DEF LocalInductive, FlightsLeased, DrainStarts, localRows, owned
<1>9. OutcomesEarlier'
  BY DEF LocalInductive, OutcomesEarlier, RowsTyped, OwnedTyped, FlightsLeased, LeasesWritten,
       DrainPlaces, StopWaited, DrainStarts, Owed, localRows, owned, drain, still
<1>10. WithinCap'
  BY DEF LocalInductive, WithinCap, OwnedCount, Owed, DrainStarts, owned
<1>11. OutcomesRetried'
  BY DEF LocalInductive, OutcomesRetried, Accepting, DrainStarts, Owed, owned, drain, timers, still
<1>12. ArmCovers'
  BY DEF LocalInductive, ArmCovers, Accepting, Wakened, DrainStarts, localRows, owned, drain,
       timers, still
<1>13. LeaseIsOwned'
  BY DEF LocalInductive, LeaseIsOwned, Owed, DrainStarts, localRows, owned
<1>14. NothingForgotten'
  BY DEF LocalInductive, NothingForgotten, Accepting, WakeComing, DrainStarts, localRows, owned,
       drain, timers, bounds
<1> QED  BY <1>1, <1>2, <1>3, <1>4, <1>5, <1>6, <1>7, <1>8, <1>9, <1>10, <1>11, <1>12, <1>13,
     <1>14 DEF LocalInductive

\* A drain looks for an available job.
LEMMA ProbePreserves ==
    ASSUME LocalInductive, Probe
    PROVE  LocalInductive'
<1>1. RowsTyped'
  BY DEF LocalInductive, RowsTyped, Probe, NextAvailable, Available, localRows, bounds
<1>2. OwnedTyped'
  BY DEF LocalInductive, OwnedTyped, Probe, Flights, localRows, owned, drain, still
<1>3. DrainTyped'
  BY DEF LocalInductive, DrainTyped, DrainPlaces, Accepting, Probe, Disarmed, DrainEnds,
       NextAvailable, Available, localRows, owned, drain, timers, bounds, still
<1>4. TimersTyped'
  BY DEF LocalInductive, TimersTyped, RowsTyped, Probe, Disarmed, drain, timers, still
<1>5. DrainPlaces'
  BY DEF LocalInductive, DrainPlaces, DrainTyped, WithinCap, StopWaited, OwnedCount, Owed, Probe,
       Disarmed, DrainEnds, Accepting, NextAvailable, Available, localRows, owned, drain, timers,
       bounds, still
<1>6. StopWaited'
  BY DEF LocalInductive, StopWaited, Probe, Disarmed, DrainEnds, Accepting, owned, drain
<1>7. LeasesWritten'
  BY DEF LocalInductive, LeasesWritten, Probe, localRows, owned, drain, still
<1>8. FlightsLeased'
  BY DEF LocalInductive, FlightsLeased, Probe, NextAvailable, Available, localRows, owned
<1>9. OutcomesEarlier'
  BY DEF LocalInductive, OutcomesEarlier, Probe, localRows, owned, drain, still
<1>10. WithinCap'
  BY DEF LocalInductive, WithinCap, OwnedCount, Owed, Probe, owned
<1>11. OutcomesRetried'
  BY DEF LocalInductive, OutcomesRetried, Accepting, Probe, Disarmed, DrainEnds, owned, drain,
       timers, still
<1>12. ArmCovers'
  <2> SUFFICES ASSUME Accepting', ~again', place' = "arming", NEW j \in LocalJobs, rowStatus'[j] = "queued",
                      ~Wakened(j)'
               PROVE  due'[j] > probed'
    BY DEF ArmCovers, Probe, Disarmed, DrainEnds, LocalInductive, DrainPlaces
  <2>1. Accepting /\ ~again /\ rowStatus[j] = "queued" /\ ~Wakened(j) /\ due' = due /\ place # "woken"
    BY DEF Probe, Disarmed, DrainEnds, Accepting, Wakened, localRows, owned, drain, timers, bounds,
         still
  <2>2. Owed = {}
    BY <2>1 DEF LocalInductive, OutcomesRetried, OwnedTyped, Owed, Wakened, Probe
  <2>3. OwnedCount < MaxAtOnce
    <3>1. Cardinality(flights) = 0 /\ Cardinality(Owed) = 0
      BY <2>1, <2>2, FS_EmptySet DEF Wakened
    <3> QED  BY <3>1, LocalAssumption DEF OwnedCount
  <2>4. probed' = time /\ NextAvailable = {}
    BY <2>1, <2>3 DEF Probe
  <2>5. ~Available(j)
    BY <2>4, AvailableIsFound DEF LocalInductive
  <2>6. KeyFree(j)
    BY <2>1, <2>2, LocalAssumption DEF KeyFree, Wakened, LocalInductive, LeaseIsOwned, Accepting
  <2> QED  BY <2>1, <2>4, <2>5, <2>6, LocalAssumption DEF Available, LocalInductive, RowsTyped
<1>13. LeaseIsOwned'
  BY DEF LocalInductive, LeaseIsOwned, Owed, Probe, Disarmed, DrainEnds, Accepting, NextAvailable,
       Available, localRows, owned
<1>14. NothingForgotten'
  BY DEF LocalInductive, NothingForgotten, Accepting, WakeComing, Probe, Disarmed, DrainEnds,
       NextAvailable, Available, localRows, owned, drain, timers, bounds
<1> QED  BY <1>1, <1>2, <1>3, <1>4, <1>5, <1>6, <1>7, <1>8, <1>9, <1>10, <1>11, <1>12, <1>13,
     <1>14 DEF LocalInductive

\* Looking for one fails.
LEMMA ProbeFailsPreserves ==
    ASSUME LocalInductive, ProbeFails
    PROVE  LocalInductive'
<1>1. RowsTyped'
  BY DEF LocalInductive, RowsTyped, ProbeFails, DrainThrows, localRows, bounds
<1>2. OwnedTyped'
  BY DEF LocalInductive, OwnedTyped, ProbeFails, DrainThrows, Flights, localRows, owned, drain,
       still
<1>3. DrainTyped'
  BY DEF LocalInductive, DrainTyped, Accepting, ProbeFails, DrainThrows, RecoveryArmed, DrainEnds,
       drain, timers, still
<1>4. TimersTyped'
  BY DEF LocalInductive, TimersTyped, ProbeFails, DrainThrows, drain, timers, still
<1>5. DrainPlaces'
  BY DEF LocalInductive, DrainPlaces, OwnedCount, Owed, ProbeFails, DrainThrows, DrainEnds, owned,
       drain, still
<1>6. StopWaited'
  BY DEF LocalInductive, StopWaited, ProbeFails, DrainThrows, RecoveryArmed, DrainEnds, Accepting,
       owned, drain
<1>7. LeasesWritten'
  BY DEF LocalInductive, LeasesWritten, ProbeFails, DrainThrows, localRows, owned, drain, still
<1>8. FlightsLeased'
  BY DEF LocalInductive, FlightsLeased, ProbeFails, localRows, owned
<1>9. OutcomesEarlier'
  BY DEF LocalInductive, OutcomesEarlier, ProbeFails, DrainThrows, localRows, owned, drain, still
<1>10. WithinCap'
  BY DEF LocalInductive, WithinCap, OwnedCount, Owed, ProbeFails, owned
<1>11. OutcomesRetried'
  BY DEF LocalInductive, OutcomesRetried, Accepting, ProbeFails, DrainThrows, RecoveryArmed,
       DrainEnds, owned, drain, timers, still
<1>12. ArmCovers'
  BY DEF LocalInductive, ArmCovers, Accepting, Wakened, ProbeFails, DrainThrows, RecoveryArmed,
       DrainEnds, localRows, owned, drain, timers, still
<1>13. LeaseIsOwned'
  BY DEF LocalInductive, LeaseIsOwned, Owed, ProbeFails, DrainThrows, RecoveryArmed, DrainEnds,
       Accepting, localRows, owned
<1>14. NothingForgotten'
  BY DEF LocalInductive, NothingForgotten, Accepting, WakeComing, ProbeFails, DrainThrows,
       RecoveryArmed, DrainEnds, localRows, owned, drain, timers, bounds
<1> QED  BY <1>1, <1>2, <1>3, <1>4, <1>5, <1>6, <1>7, <1>8, <1>9, <1>10, <1>11, <1>12, <1>13,
     <1>14 DEF LocalInductive

\* The job found is handed off and performed, unless it is gone.
LEMMA ClaimJobPreserves ==
    ASSUME LocalInductive, ClaimJob
    PROVE  LocalInductive'
<1>1. pick \in LocalJobs /\ OwnedCount < MaxAtOnce
  BY DEF LocalInductive, DrainPlaces, ClaimJob
<1>2. RowsTyped'
  BY LocalAssumption DEF LocalInductive, RowsTyped, OwnedTyped, DrainPlaces, ClaimJob, HandedOff,
       Available, Accepting, localRows, owned, drain, timers, bounds, still
<1>3. OwnedTyped'
  BY LocalAssumption DEF LocalInductive, OwnedTyped, RowsTyped, DrainTyped, DrainPlaces, ClaimJob,
       HandedOff, Available, Accepting, Flights, localRows, owned, drain, timers, bounds, still
<1>4. DrainTyped'
  BY DEF LocalInductive, DrainTyped, Accepting, ClaimJob, drain, timers, still
<1>5. TimersTyped'
  BY DEF LocalInductive, TimersTyped, ClaimJob, drain, timers, still
<1>6. DrainPlaces'
  BY DEF LocalInductive, DrainPlaces, OwnedCount, Owed, ClaimJob, owned, drain, still
<1>7. StopWaited'
  BY DEF LocalInductive, StopWaited, ClaimJob, Accepting, owned, drain
<1>8. LeasesWritten'
  <2>1. CASE Available(pick)
    <3>1. /\ HandedOff(pick) /\ UNCHANGED <<unacked, stray, mode, retrying, overlooked>>
          /\ flights' = flights \cup {[job |-> pick, lease |-> runs[pick] + 1, what |-> "run"]}
      BY <2>1 DEF ClaimJob, bounds
    <3>2. /\ runs'[pick] = runs[pick] + 1 /\ lease'[pick] = runs[pick] + 1 /\ rowStatus'[pick] = "handed_off"
          /\ \A k \in LocalJobs \ {pick} :
                runs'[k] = runs[k] /\ lease'[k] = lease[k] /\ rowStatus'[k] = rowStatus[k]
      BY <1>1, <3>1, LeaseIsNew DEF LocalInductive
    <3> QED  BY <1>1, <2>1, <3>1, <3>2, LocalAssumption DEF LocalInductive, LeasesWritten,
         RowsTyped, OwnedTyped, Flights
  <2>2. CASE ~Available(pick)
    BY <2>2 DEF LocalInductive, LeasesWritten, RowsTyped, OwnedTyped, Flights, ClaimJob, localRows,
         owned, drain, timers, bounds, still
  <2> QED  BY <2>1, <2>2
<1>9. FlightsLeased'
  <2>1. CASE Available(pick)
    <3>1. /\ HandedOff(pick) /\ UNCHANGED <<unacked, stray, mode, retrying, overlooked>>
          /\ flights' = flights \cup {[job |-> pick, lease |-> runs[pick] + 1, what |-> "run"]}
      BY <2>1 DEF ClaimJob, bounds
    <3>2. /\ runs'[pick] = runs[pick] + 1 /\ lease'[pick] = runs[pick] + 1 /\ rowStatus'[pick] = "handed_off"
          /\ \A k \in LocalJobs \ {pick} :
                runs'[k] = runs[k] /\ lease'[k] = lease[k] /\ rowStatus'[k] = rowStatus[k]
      BY <1>1, <3>1, LeaseIsNew DEF LocalInductive
    <3> QED  BY <1>1, <2>1, <3>1, <3>2, LocalAssumption DEF LocalInductive, FlightsLeased,
         RowsTyped, OwnedTyped, Flights, Available
  <2>2. CASE ~Available(pick)
    BY <2>2 DEF LocalInductive, FlightsLeased, RowsTyped, OwnedTyped, Flights, Available, ClaimJob,
         localRows, owned, drain, timers, bounds, still
  <2> QED  BY <2>1, <2>2
<1>10. OutcomesEarlier'
  BY DEF LocalInductive, OutcomesEarlier, RowsTyped, OwnedTyped, FlightsLeased, LeasesWritten,
       DrainPlaces, StopWaited, ClaimJob, HandedOff, localRows, owned, drain, still
<1>11. WithinCap'
  <2>1. IsFiniteSet(flights) /\ OwnedCount <= MaxAtOnce /\ Owed' = Owed
    BY DEF LocalInductive, WithinCap, ClaimJob, Owed
  <2>2. \/ flights' = flights \cup {[job |-> pick, lease |-> runs[pick] + 1, what |-> "run"]}
        \/ flights' = flights
    BY DEF ClaimJob
  <2>3. /\ IsFiniteSet(flights') /\ Cardinality(flights') \in Nat
        /\ Cardinality(flights) \in Nat /\ Cardinality(flights') <= Cardinality(flights) + 1
    <3>1. CASE flights' = flights
      BY <2>1, <3>1, FS_CardinalityType
    <3>2. CASE flights' # flights
      BY <2>1, <2>2, <3>2, OneMore
    <3> QED  BY <3>1, <3>2
  <2>4. OwnedCount' = Cardinality(flights') + Cardinality(Owed)
    BY <2>1 DEF OwnedCount
  <2>5. Cardinality(Owed) \in Nat /\ OwnedCount = Cardinality(flights) + Cardinality(Owed)
    BY <2>1, CountTyped
  <2> QED  BY <1>1, <2>3, <2>4, <2>5, LocalAssumption DEF WithinCap
<1>12. OutcomesRetried'
  BY DEF LocalInductive, OutcomesRetried, Accepting, ClaimJob, owned, drain, timers, still
<1>13. ArmCovers'
  BY DEF LocalInductive, ArmCovers, Accepting, Wakened, ClaimJob, HandedOff, Available, localRows,
       owned, drain, timers, still
<1>14. LeaseIsOwned'
  <2> SUFFICES ASSUME NEW j \in LocalJobs, rowStatus'[j] = "handed_off", mode' # "down", j \notin stray'
               PROVE  \E g \in (flights \cup {unacked[k] : k \in Owed})' : g.job = j /\ g.lease = lease'[j]
    BY DEF LeaseIsOwned
  <2>1. CASE Available(pick)
    <3>1. /\ HandedOff(pick) /\ UNCHANGED <<unacked, stray, mode>> /\ Owed' = Owed
          /\ flights' = flights \cup {[job |-> pick, lease |-> runs[pick] + 1, what |-> "run"]}
      BY <2>1 DEF ClaimJob, Owed
    <3>2. /\ lease'[pick] = runs[pick] + 1
          /\ \A k \in LocalJobs \ {pick} : lease'[k] = lease[k] /\ rowStatus'[k] = rowStatus[k]
      BY <1>1, <3>1, LeaseIsNew DEF LocalInductive
    <3>3. CASE j = pick
      <4> DEFINE claimed == [job |-> pick, lease |-> runs[pick] + 1, what |-> "run"]
      <4>1. claimed \in flights' /\ claimed.job = j /\ claimed.lease = lease'[j]
        BY <3>1, <3>2, <3>3
      <4> QED  BY <4>1
    <3>4. CASE j # pick
      <4>1. PICK g \in flights \cup {unacked[k] : k \in Owed} : g.job = j /\ g.lease = lease[j]
        BY <3>1, <3>2, <3>4 DEF LocalInductive, LeaseIsOwned
      <4> QED  BY <3>1, <3>2, <3>4, <4>1
    <3> QED  BY <3>3, <3>4
  <2>2. CASE ~Available(pick)
    BY <2>2 DEF LocalInductive, LeaseIsOwned, Owed, ClaimJob, localRows, owned, drain, timers,
         bounds, still
  <2> QED  BY <2>1, <2>2
<1>15. NothingForgotten'
  BY DEF LocalInductive, NothingForgotten, Accepting, WakeComing, ClaimJob, HandedOff, Available,
       localRows, owned, drain, timers, bounds
<1> QED  BY <1>2, <1>3, <1>4, <1>5, <1>6, <1>7, <1>8, <1>9, <1>10, <1>11, <1>12, <1>13, <1>14,
     <1>15 DEF LocalInductive

\* A drain asks when the next job is due.
LEMMA ArmReadsPreserves ==
    ASSUME LocalInductive, ArmReads
    PROVE  LocalInductive'
<1>1. soon' = NextScheduledAt /\ UNCHANGED <<alarm, probed, due, rowStatus, time, flights, stray, rescue, again, mode>>
  BY DEF ArmReads, localRows, owned, drain, timers, bounds, still
<1>2. /\ NextScheduledAt \in 0..LocalEnd \cup {NoFlight}
      /\ \A j \in LocalJobs : rowStatus[j] = "queued" /\ due[j] > time =>
            NextScheduledAt # NoFlight /\ NextScheduledAt <= due[j]
  BY NextIsSoonest DEF LocalInductive
<1>3. RowsTyped'
  BY DEF LocalInductive, RowsTyped, ArmReads, localRows, bounds
<1>4. OwnedTyped'
  BY DEF LocalInductive, OwnedTyped, ArmReads, Flights, localRows, owned, drain, still
<1>5. DrainTyped'
  BY DEF LocalInductive, DrainTyped, Accepting, ArmReads, drain, timers, still
<1>6. TimersTyped'
  BY <1>1, <1>2 DEF LocalInductive, TimersTyped
<1>7. DrainPlaces'
  BY DEF LocalInductive, DrainPlaces, OwnedCount, Owed, ArmReads, owned, drain, still
<1>8. StopWaited'
  BY DEF LocalInductive, StopWaited, ArmReads, owned, drain
<1>9. LeasesWritten'
  BY DEF LocalInductive, LeasesWritten, ArmReads, localRows, owned, drain, still
<1>10. FlightsLeased'
  BY DEF LocalInductive, FlightsLeased, ArmReads, localRows, owned
<1>11. OutcomesEarlier'
  BY DEF LocalInductive, OutcomesEarlier, ArmReads, localRows, owned, drain, still
<1>12. WithinCap'
  BY DEF LocalInductive, WithinCap, OwnedCount, Owed, ArmReads, owned
<1>13. OutcomesRetried'
  BY DEF LocalInductive, OutcomesRetried, Accepting, ArmReads, owned, drain, timers, still
<1>14. ArmCovers'
  <2> SUFFICES ASSUME Accepting', ~again', NEW j \in LocalJobs \ overlooked', rowStatus'[j] = "queued", ~Wakened(j)'
               PROVE  soon' # NoFlight /\ soon' <= due'[j]
    BY DEF ArmCovers, ArmReads
  <2>1. Accepting /\ ~again /\ rowStatus[j] = "queued" /\ ~Wakened(j)
    BY <1>1 DEF Accepting, Wakened
  <2>2. due[j] > probed
    BY <2>1 DEF LocalInductive, ArmCovers, ArmReads
  <2>3. due[j] > time
    BY <2>1, <2>2, LocalAssumption DEF ArmReads, LocalInductive, RowsTyped
  <2> QED  BY <1>1, <1>2, <2>1, <2>3
<1>15. LeaseIsOwned'
  BY DEF LocalInductive, LeaseIsOwned, Owed, ArmReads, localRows, owned
<1>16. NothingForgotten'
  BY DEF LocalInductive, NothingForgotten, Accepting, WakeComing, ArmReads, localRows, owned,
       drain, timers, bounds
<1> QED  BY <1>3, <1>4, <1>5, <1>6, <1>7, <1>8, <1>9, <1>10, <1>11, <1>12, <1>13, <1>14, <1>15,
     <1>16 DEF LocalInductive

\* Asking fails.
LEMMA ArmFailsPreserves ==
    ASSUME LocalInductive, ArmFails
    PROVE  LocalInductive'
<1>1. RowsTyped'
  BY DEF LocalInductive, RowsTyped, ArmFails, DrainThrows, localRows, bounds
<1>2. OwnedTyped'
  BY DEF LocalInductive, OwnedTyped, ArmFails, DrainThrows, Flights, localRows, owned, drain, still
<1>3. DrainTyped'
  BY DEF LocalInductive, DrainTyped, Accepting, ArmFails, DrainThrows, RecoveryArmed, DrainEnds,
       drain, timers, still
<1>4. TimersTyped'
  BY DEF LocalInductive, TimersTyped, ArmFails, DrainThrows, drain, timers, still
<1>5. DrainPlaces'
  BY DEF LocalInductive, DrainPlaces, OwnedCount, Owed, ArmFails, DrainThrows, DrainEnds, owned,
       drain, still
<1>6. StopWaited'
  BY DEF LocalInductive, StopWaited, ArmFails, DrainThrows, RecoveryArmed, DrainEnds, Accepting,
       owned, drain
<1>7. LeasesWritten'
  BY DEF LocalInductive, LeasesWritten, ArmFails, DrainThrows, localRows, owned, drain, still
<1>8. FlightsLeased'
  BY DEF LocalInductive, FlightsLeased, ArmFails, localRows, owned
<1>9. OutcomesEarlier'
  BY DEF LocalInductive, OutcomesEarlier, ArmFails, DrainThrows, localRows, owned, drain, still
<1>10. WithinCap'
  BY DEF LocalInductive, WithinCap, OwnedCount, Owed, ArmFails, owned
<1>11. OutcomesRetried'
  BY DEF LocalInductive, OutcomesRetried, Accepting, ArmFails, DrainThrows, RecoveryArmed,
       DrainEnds, owned, drain, timers, still
<1>12. ArmCovers'
  BY DEF LocalInductive, ArmCovers, Accepting, Wakened, ArmFails, DrainThrows, RecoveryArmed,
       DrainEnds, localRows, owned, drain, timers, still
<1>13. LeaseIsOwned'
  BY DEF LocalInductive, LeaseIsOwned, Owed, ArmFails, DrainThrows, RecoveryArmed, DrainEnds,
       Accepting, localRows, owned
<1>14. NothingForgotten'
  BY DEF LocalInductive, NothingForgotten, Accepting, WakeComing, ArmFails, DrainThrows,
       RecoveryArmed, DrainEnds, localRows, owned, drain, timers, bounds
<1> QED  BY <1>1, <1>2, <1>3, <1>4, <1>5, <1>6, <1>7, <1>8, <1>9, <1>10, <1>11, <1>12, <1>13,
     <1>14 DEF LocalInductive

\* The drain arms the timer for it and ends, or goes round again.
LEMMA ArmSetsPreserves ==
    ASSUME LocalInductive, ArmSets
    PROVE  LocalInductive'
<1>1. RowsTyped'
  BY DEF LocalInductive, RowsTyped, ArmSets, localRows, bounds
<1>2. OwnedTyped'
  BY DEF LocalInductive, OwnedTyped, ArmSets, Flights, localRows, owned, drain, still
<1>3. DrainTyped'
  BY DEF LocalInductive, DrainTyped, Accepting, ArmSets, DrainEnds, drain, timers, still
<1>4. TimersTyped'
  BY DEF LocalInductive, TimersTyped, ArmSets, drain, timers, still
<1>5. DrainPlaces'
  BY DEF LocalInductive, DrainPlaces, OwnedCount, Owed, ArmSets, DrainEnds, owned, drain, still
<1>6. StopWaited'
  BY DEF LocalInductive, StopWaited, ArmSets, DrainEnds, Accepting, owned, drain
<1>7. LeasesWritten'
  BY DEF LocalInductive, LeasesWritten, ArmSets, localRows, owned, drain, still
<1>8. FlightsLeased'
  BY DEF LocalInductive, FlightsLeased, ArmSets, localRows, owned
<1>9. OutcomesEarlier'
  BY DEF LocalInductive, OutcomesEarlier, ArmSets, localRows, owned, drain, still
<1>10. WithinCap'
  BY DEF LocalInductive, WithinCap, OwnedCount, Owed, ArmSets, owned
<1>11. OutcomesRetried'
  BY DEF LocalInductive, OutcomesRetried, Accepting, ArmSets, DrainEnds, owned, drain, timers, still
<1>12. ArmCovers'
  BY DEF LocalInductive, ArmCovers, Accepting, Wakened, ArmSets, DrainEnds, localRows, owned,
       drain, timers, still
<1>13. LeaseIsOwned'
  BY DEF LocalInductive, LeaseIsOwned, Owed, ArmSets, DrainEnds, Accepting, localRows, owned
<1>14. NothingForgotten'
  <2> SUFFICES ASSUME Accepting', ~WakeComing', NEW j \in LocalJobs \ overlooked', rowStatus'[j] = "queued",
                      ~(j \in LocalKeyed /\ LocalKeyed \cap stray' # {})
               PROVE  due'[j] > time' /\ alarm' # NoFlight /\ alarm' <= due'[j]
    BY DEF NothingForgotten
  <2>1. /\ Accepting /\ ~again /\ alarm' = soon /\ UNCHANGED <<localRows, owned, rescue, overlooked, time>>
    BY DEF ArmSets, DrainEnds, WakeComing, Accepting, bounds
  <2>2. ~Wakened(j)
    BY <2>1 DEF WakeComing, Wakened, owned
  <2>3. soon # NoFlight /\ soon <= due[j] /\ place = "arm"
    BY <2>1, <2>2 DEF LocalInductive, ArmCovers, ArmSets, localRows
  <2>4. soon \in Nat /\ due[j] \in Nat /\ time \in Nat /\ ~(soon <= time)
    BY <2>1, <2>3, LocalAssumption DEF LocalInductive, TimersTyped, RowsTyped, WakeComing
  <2> QED  BY <2>1, <2>3, <2>4 DEF localRows
<1> QED  BY <1>1, <1>2, <1>3, <1>4, <1>5, <1>6, <1>7, <1>8, <1>9, <1>10, <1>11, <1>12, <1>13,
     <1>14 DEF LocalInductive

\* A hand-off fails, written or not.
LEMMA ClaimFailsPreserves ==
    ASSUME LocalInductive, NEW committed \in BOOLEAN, ClaimFails(committed)
    PROVE  LocalInductive'
<1>1. pick \in LocalJobs
  BY DEF LocalInductive, DrainPlaces, ClaimFails
<1>2. RowsTyped'
  BY LocalAssumption DEF LocalInductive, RowsTyped, OwnedTyped, DrainPlaces, ClaimFails, HandedOff,
       Available, DrainThrows, CallFails, RecoveryArmed, DrainEnds, Accepting, localRows, owned,
       drain, timers, bounds, still
<1>3. OwnedTyped'
  BY DEF LocalInductive, OwnedTyped, RowsTyped, DrainTyped, DrainPlaces, ClaimFails, HandedOff,
       DrainThrows, Flights, localRows, owned, drain, still
<1>4. DrainTyped'
  BY DEF LocalInductive, DrainTyped, Accepting, ClaimFails, DrainThrows, RecoveryArmed, DrainEnds,
       drain, timers, still
<1>5. TimersTyped'
  BY DEF LocalInductive, TimersTyped, ClaimFails, DrainThrows, drain, timers, still
<1>6. DrainPlaces'
  BY DEF LocalInductive, DrainPlaces, OwnedCount, Owed, ClaimFails, DrainThrows, DrainEnds, owned,
       drain, still
<1>7. StopWaited'
  BY DEF LocalInductive, StopWaited, ClaimFails, DrainThrows, RecoveryArmed, DrainEnds, Accepting,
       owned, drain
<1>8. LeasesWritten'
  <2>1. CASE committed /\ Available(pick)
    <3>1. HandedOff(pick) /\ stray' = stray \cup {pick} /\ UNCHANGED <<flights, unacked, retrying>>
      BY <2>1 DEF ClaimFails, DrainThrows, still
    <3>2. /\ runs'[pick] = runs[pick] + 1 /\ lease'[pick] = runs[pick] + 1 /\ rowStatus'[pick] = "handed_off"
          /\ \A k \in LocalJobs \ {pick} :
                runs'[k] = runs[k] /\ lease'[k] = lease[k] /\ rowStatus'[k] = rowStatus[k]
      BY <1>1, <3>1, LeaseIsNew DEF LocalInductive
    <3> QED  BY <1>1, <2>1, <3>1, <3>2, LocalAssumption DEF LocalInductive, LeasesWritten,
         RowsTyped, OwnedTyped, Flights
  <2>2. CASE ~(committed /\ Available(pick))
    BY <2>2 DEF LocalInductive, LeasesWritten, RowsTyped, OwnedTyped, Flights, ClaimFails,
         DrainThrows, localRows, owned, drain, timers, bounds, still
  <2> QED  BY <2>1, <2>2
<1>9. FlightsLeased'
  <2>1. CASE committed /\ Available(pick)
    <3>1. HandedOff(pick) /\ stray' = stray \cup {pick} /\ UNCHANGED <<flights, unacked, retrying>>
      BY <2>1 DEF ClaimFails, DrainThrows, still
    <3>2. /\ runs'[pick] = runs[pick] + 1 /\ lease'[pick] = runs[pick] + 1 /\ rowStatus'[pick] = "handed_off"
          /\ \A k \in LocalJobs \ {pick} :
                runs'[k] = runs[k] /\ lease'[k] = lease[k] /\ rowStatus'[k] = rowStatus[k]
      BY <1>1, <3>1, LeaseIsNew DEF LocalInductive
    <3> QED  BY <1>1, <2>1, <3>1, <3>2, LocalAssumption DEF LocalInductive, FlightsLeased,
         RowsTyped, OwnedTyped, Flights, Available
  <2>2. CASE ~(committed /\ Available(pick))
    BY <2>2 DEF LocalInductive, FlightsLeased, RowsTyped, OwnedTyped, Flights, Available,
         ClaimFails, DrainThrows, localRows, owned, drain, timers, bounds, still
  <2> QED  BY <2>1, <2>2
<1>10. OutcomesEarlier'
  BY DEF LocalInductive, OutcomesEarlier, ClaimFails, HandedOff, DrainThrows, localRows, owned,
       drain, still
<1>11. WithinCap'
  BY DEF LocalInductive, WithinCap, OwnedCount, Owed, ClaimFails, owned
<1>12. OutcomesRetried'
  BY DEF LocalInductive, OutcomesRetried, Accepting, ClaimFails, DrainThrows, RecoveryArmed,
       DrainEnds, owned, drain, timers, still
<1>13. ArmCovers'
  BY DEF LocalInductive, ArmCovers, Accepting, Wakened, ClaimFails, HandedOff, Available,
       DrainThrows, RecoveryArmed, DrainEnds, localRows, owned, drain, timers, still
<1>14. LeaseIsOwned'
  BY DEF LocalInductive, LeaseIsOwned, RowsTyped, OwnedTyped, DrainTyped, Owed, ClaimFails,
       HandedOff, Available, DrainThrows, RecoveryArmed, DrainEnds, Accepting, localRows, owned
<1>15. NothingForgotten'
  BY DEF LocalInductive, NothingForgotten, Accepting, WakeComing, ClaimFails, HandedOff, Available,
       DrainThrows, RecoveryArmed, DrainEnds, localRows, owned, drain, timers, bounds
<1> QED  BY <1>2, <1>3, <1>4, <1>5, <1>6, <1>7, <1>8, <1>9, <1>10, <1>11, <1>12, <1>13, <1>14,
     <1>15 DEF LocalInductive

\* A drain acknowledges an outcome that is owed.
LEMMA RetryAcknowledgesPreserves ==
    ASSUME LocalInductive, NEW f \in retrying, NEW again_ \in BOOLEAN, NEW delay \in LocalDelays \cup {0}, RetryAcknowledges(f, again_, delay)
    PROVE  LocalInductive'
<1>1. f \in Flights
  BY DEF LocalInductive, OwnedTyped
<1>2. /\ runs' = runs
      /\ rowStatus' \in [LocalJobs -> {"unborn", "queued", "handed_off", "gone"}]
      /\ due' \in [LocalJobs -> 0..LocalEnd] /\ lease' \in [LocalJobs -> 0..MaxRuns]
  BY <1>1, OutcomeIsStored DEF LocalInductive, RetryAcknowledges
<1>3. RowsTyped'
  BY <1>2 DEF LocalInductive, RowsTyped, RetryAcknowledges, bounds
<1>4. OwnedTyped'
  BY DEF LocalInductive, OwnedTyped, RetryAcknowledges, Acknowledges, OutcomeStored,
       AcceptsHandoff, Flights, localRows, owned, drain, still
<1>5. DrainTyped'
  BY DEF LocalInductive, DrainTyped, Accepting, RetryAcknowledges, drain, timers, still
<1>6. TimersTyped'
  BY DEF LocalInductive, TimersTyped, RetryAcknowledges, drain, timers, still
<1>7. DrainPlaces'
  BY DEF LocalInductive, DrainPlaces, OwnedCount, Owed, RetryAcknowledges, owned, drain, still
<1>8. StopWaited'
  BY DEF LocalInductive, StopWaited, RetryAcknowledges, owned, drain
<1>9. LeasesWritten'
  BY DEF LocalInductive, LeasesWritten, RowsTyped, OwnedTyped, DrainTyped, RetryAcknowledges,
       Acknowledges, OutcomeStored, AcceptsHandoff, Flights, localRows, owned, drain, still
<1>10. FlightsLeased'
  BY DEF LocalInductive, FlightsLeased, RowsTyped, OwnedTyped, OutcomesEarlier, StopWaited,
       DrainPlaces, LeasesWritten, RetryAcknowledges, Acknowledges, OutcomeStored, AcceptsHandoff,
       Flights, localRows, owned
<1>11. OutcomesEarlier'
  BY DEF LocalInductive, OutcomesEarlier, RetryAcknowledges, Acknowledges, OutcomeStored,
       AcceptsHandoff, Flights, localRows, owned, drain, still
<1>12. WithinCap'
  <2>1. flights' \subseteq flights /\ Owed' \subseteq Owed
    BY DEF RetryAcknowledges, Owed, LocalInductive, OwnedTyped
  <2>2. IsFiniteSet(flights') /\ OwnedCount \in Nat /\ OwnedCount' \in Nat /\ OwnedCount' <= OwnedCount
    BY <2>1, CountKept DEF LocalInductive, WithinCap
  <2> QED  BY <2>2, LocalAssumption DEF LocalInductive, WithinCap
<1>13. OutcomesRetried'
  <2>1. /\ place = "retry" /\ retrying' = retrying \ {f} /\ unacked' = [unacked EXCEPT ![f.job] = NoFlight]
        /\ UNCHANGED <<mode, place, again, rescue>>
    BY DEF RetryAcknowledges, timers
  <2>2. f.job \in LocalJobs /\ \A j \in LocalJobs : unacked[j] # NoFlight => unacked[j].job = j
    BY <1>1 DEF LocalInductive, LeasesWritten, Flights
  <2> QED  BY <2>1, <2>2 DEF LocalInductive, OutcomesRetried, OwnedTyped, Accepting
<1>14. ArmCovers'
  BY DEF LocalInductive, ArmCovers, Accepting, Wakened, RetryAcknowledges, Acknowledges,
       OutcomeStored, AcceptsHandoff, localRows, owned, drain, timers, still
<1>15. LeaseIsOwned'
  BY DEF LocalInductive, LeaseIsOwned, RowsTyped, OwnedTyped, OutcomesEarlier, FlightsLeased,
       LeasesWritten, DrainPlaces, StopWaited, DrainTyped, Owed, RetryAcknowledges, Acknowledges,
       OutcomeStored, AcceptsHandoff, Flights, localRows, owned
<1>16. NothingForgotten'
  BY DEF LocalInductive, NothingForgotten, Accepting, WakeComing, RetryAcknowledges, Acknowledges,
       OutcomeStored, AcceptsHandoff, localRows, owned, drain, timers, bounds
<1> QED  BY <1>3, <1>4, <1>5, <1>6, <1>7, <1>8, <1>9, <1>10, <1>11, <1>12, <1>13, <1>14, <1>15,
     <1>16 DEF LocalInductive

\* Acknowledging it fails again.
LEMMA RetryFailsPreserves ==
    ASSUME LocalInductive, NEW f \in retrying, RetryFails(f)
    PROVE  LocalInductive'
<1>1. RowsTyped'
  BY DEF LocalInductive, RowsTyped, RetryFails, localRows, bounds
<1>2. OwnedTyped'
  BY DEF LocalInductive, OwnedTyped, RetryFails, Flights, localRows, owned, drain, still
<1>3. DrainTyped'
  BY DEF LocalInductive, DrainTyped, Accepting, RetryFails, RecoveryArmed, drain, timers, still
<1>4. TimersTyped'
  BY DEF LocalInductive, TimersTyped, RetryFails, drain, timers, still
<1>5. DrainPlaces'
  BY DEF LocalInductive, DrainPlaces, OwnedCount, Owed, RetryFails, owned, drain, still
<1>6. StopWaited'
  BY DEF LocalInductive, StopWaited, RetryFails, RecoveryArmed, Accepting, owned, drain
<1>7. LeasesWritten'
  BY DEF LocalInductive, LeasesWritten, RetryFails, localRows, owned, drain, still
<1>8. FlightsLeased'
  BY DEF LocalInductive, FlightsLeased, RetryFails, localRows, owned
<1>9. OutcomesEarlier'
  BY DEF LocalInductive, OutcomesEarlier, RetryFails, localRows, owned, drain, still
<1>10. WithinCap'
  BY DEF LocalInductive, WithinCap, OwnedCount, Owed, RetryFails, owned
<1>11. OutcomesRetried'
  BY DEF LocalInductive, OutcomesRetried, Accepting, RetryFails, RecoveryArmed, owned, drain,
       timers, still
<1>12. ArmCovers'
  BY DEF LocalInductive, ArmCovers, Accepting, Wakened, RetryFails, RecoveryArmed, localRows,
       owned, drain, timers, still
<1>13. LeaseIsOwned'
  BY DEF LocalInductive, LeaseIsOwned, Owed, RetryFails, RecoveryArmed, Accepting, localRows, owned
<1>14. NothingForgotten'
  BY DEF LocalInductive, NothingForgotten, Accepting, WakeComing, RetryFails, RecoveryArmed,
       localRows, owned, drain, timers, bounds
<1> QED  BY <1>1, <1>2, <1>3, <1>4, <1>5, <1>6, <1>7, <1>8, <1>9, <1>10, <1>11, <1>12, <1>13,
     <1>14 DEF LocalInductive

\* A performance ends, and is about to be acknowledged.
LEMMA PerformsPreserves ==
    ASSUME LocalInductive, NEW f \in flights, NEW what \in {"completed", "rescheduled", "failed"}, Performs(f, what)
    PROVE  LocalInductive'
<1>1. /\ IsFiniteSet(flights') /\ OwnedCount' <= OwnedCount
      /\ OwnedCount \in Nat /\ OwnedCount' \in Nat
  <2>1. flights' = (flights \ {f}) \cup {[f EXCEPT !.what = what]} /\ Owed' \subseteq Owed
    BY DEF Performs, Owed
  <2> QED  BY <2>1, CountKept DEF LocalInductive, WithinCap
<1>2. RowsTyped'
  BY DEF LocalInductive, RowsTyped, Performs, Flights, localRows, bounds
<1>3. OwnedTyped'
  BY DEF LocalInductive, OwnedTyped, Performs, Flights, localRows, owned, drain, still
<1>4. DrainTyped'
  BY DEF LocalInductive, DrainTyped, Accepting, Performs, drain, timers, still
<1>5. TimersTyped'
  BY DEF LocalInductive, TimersTyped, Performs, drain, timers, still
<1>6. DrainPlaces'
  BY <1>1, LocalAssumption DEF LocalInductive, DrainPlaces, DrainTyped, Performs, drain
<1>7. StopWaited'
  BY DEF LocalInductive, StopWaited, Performs, owned, drain
<1>8. LeasesWritten'
  BY DEF LocalInductive, LeasesWritten, RowsTyped, OwnedTyped, DrainTyped, Performs, Flights,
       localRows, owned, drain, still
<1>9. FlightsLeased'
  BY DEF LocalInductive, FlightsLeased, RowsTyped, OwnedTyped, Performs, Flights, localRows, owned
<1>10. OutcomesEarlier'
  BY DEF LocalInductive, OutcomesEarlier, RowsTyped, OwnedTyped, Performs, Flights, localRows,
       owned, drain, still
<1>11. WithinCap'
  BY <1>1, LocalAssumption DEF LocalInductive, WithinCap
<1>12. OutcomesRetried'
  BY DEF LocalInductive, OutcomesRetried, Accepting, Performs, owned, drain, timers, still
<1>13. ArmCovers'
  BY DEF LocalInductive, ArmCovers, Accepting, Wakened, Performs, localRows, owned, drain, timers,
       still
<1>14. LeaseIsOwned'
  <2> SUFFICES ASSUME NEW j \in LocalJobs, rowStatus'[j] = "handed_off", mode' # "down", j \notin stray'
               PROVE  \E g \in (flights \cup {unacked[k] : k \in Owed})' : g.job = j /\ g.lease = lease'[j]
    BY DEF LeaseIsOwned
  <2>1. PICK g \in flights \cup {unacked[k] : k \in Owed} : g.job = j /\ g.lease = lease[j]
    BY DEF LocalInductive, LeaseIsOwned, Performs, localRows
  <2>2. UNCHANGED <<lease, unacked>> /\ Owed' = Owed
    BY DEF Performs, localRows, Owed
  <2>3. CASE g # f
    BY <2>1, <2>2, <2>3 DEF Performs
  <2>4. CASE g = f
    <3>1. [f EXCEPT !.what = what] \in flights'
      BY DEF Performs
    <3>2. [f EXCEPT !.what = what].job = j /\ [f EXCEPT !.what = what].lease = lease'[j]
      BY <2>1, <2>2, <2>4 DEF LocalInductive, OwnedTyped, Flights
    <3> QED  BY <3>1, <3>2
  <2> QED  BY <2>3, <2>4
<1>15. NothingForgotten'
  BY DEF LocalInductive, NothingForgotten, Accepting, WakeComing, Performs, localRows, owned,
       drain, timers, bounds
<1> QED  BY <1>2, <1>3, <1>4, <1>5, <1>6, <1>7, <1>8, <1>9, <1>10, <1>11, <1>12, <1>13, <1>14,
     <1>15 DEF LocalInductive

\* Its outcome is acknowledged.
LEMMA PerformanceEndsPreserves ==
    ASSUME LocalInductive, NEW f \in flights, NEW again_ \in BOOLEAN, NEW delay \in LocalDelays \cup {0}, PerformanceEnds(f, again_, delay)
    PROVE  LocalInductive'
<1>1. /\ IsFiniteSet(flights') /\ OwnedCount' <= OwnedCount
      /\ OwnedCount \in Nat /\ OwnedCount' \in Nat
  <2>1. flights' \subseteq flights /\ Owed' \subseteq Owed
    BY DEF PerformanceEnds, Owed
  <2> QED  BY <2>1, CountKept DEF LocalInductive, WithinCap
<1>2. RowsTyped'
  BY LocalAssumption DEF LocalInductive, RowsTyped, OwnedTyped, DrainPlaces, PerformanceEnds,
       Acknowledges, OutcomeStored, AcceptsHandoff, Wake, Accepting, Flights, localRows, owned,
       drain, timers, bounds, still
<1>3. OwnedTyped'
  BY DEF LocalInductive, OwnedTyped, PerformanceEnds, Acknowledges, OutcomeStored, AcceptsHandoff,
       Flights, localRows, owned, drain, still
<1>4. DrainTyped'
  BY DEF LocalInductive, DrainTyped, Accepting, PerformanceEnds, Wake, drain, timers, still
<1>5. TimersTyped'
  BY DEF LocalInductive, TimersTyped, PerformanceEnds, drain, timers, still
<1>6. DrainPlaces'
  BY <1>1, LocalAssumption DEF LocalInductive, DrainPlaces, DrainTyped, PerformanceEnds, Wake, still
<1>7. StopWaited'
  BY DEF LocalInductive, StopWaited, PerformanceEnds, Wake, Accepting, owned, drain
<1>8. LeasesWritten'
  BY DEF LocalInductive, LeasesWritten, RowsTyped, OwnedTyped, DrainTyped, PerformanceEnds,
       Acknowledges, OutcomeStored, AcceptsHandoff, Flights, localRows, owned, drain, still
<1>9. FlightsLeased'
  BY DEF LocalInductive, FlightsLeased, RowsTyped, OwnedTyped, PerformanceEnds, Acknowledges,
       OutcomeStored, AcceptsHandoff, Flights, localRows, owned
<1>10. OutcomesEarlier'
  BY DEF LocalInductive, OutcomesEarlier, PerformanceEnds, Acknowledges, OutcomeStored,
       AcceptsHandoff, Flights, localRows, owned, drain, still
<1>11. WithinCap'
  BY <1>1, LocalAssumption DEF LocalInductive, WithinCap
<1>12. OutcomesRetried'
  BY DEF LocalInductive, OutcomesRetried, Accepting, PerformanceEnds, Wake, owned, drain, timers,
       still
<1>13. ArmCovers'
  BY DEF LocalInductive, ArmCovers, Accepting, Wakened, PerformanceEnds, Acknowledges,
       OutcomeStored, AcceptsHandoff, Wake, localRows, owned, drain, timers, still
<1>14. LeaseIsOwned'
  BY DEF LocalInductive, LeaseIsOwned, RowsTyped, OwnedTyped, DrainTyped, Owed, PerformanceEnds,
       Acknowledges, OutcomeStored, AcceptsHandoff, Wake, Accepting, Flights, localRows, owned
<1>15. NothingForgotten'
  BY DEF LocalInductive, NothingForgotten, Accepting, WakeComing, PerformanceEnds, Acknowledges,
       OutcomeStored, AcceptsHandoff, Wake, localRows, owned, drain, timers, bounds
<1> QED  BY <1>2, <1>3, <1>4, <1>5, <1>6, <1>7, <1>8, <1>9, <1>10, <1>11, <1>12, <1>13, <1>14,
     <1>15 DEF LocalInductive

\* Acknowledging it fails, and the outcome is owed.
LEMMA AcknowledgeFailsPreserves ==
    ASSUME LocalInductive, NEW f \in flights, NEW committed \in BOOLEAN, NEW again_ \in BOOLEAN, NEW delay \in LocalDelays \cup {0}, AcknowledgeFails(f, committed, again_, delay)
    PROVE  LocalInductive'
<1>1. /\ IsFiniteSet(flights') /\ OwnedCount' <= OwnedCount
      /\ OwnedCount \in Nat /\ OwnedCount' \in Nat
  <2>1. flights' = flights \ {f} /\ Owed' \subseteq Owed \cup {f.job}
    BY DEF AcknowledgeFails, Owed, LocalInductive, OwnedTyped
  <2> QED  BY <2>1, CountKept DEF LocalInductive, WithinCap
<1>2. RowsTyped'
  BY LocalAssumption DEF LocalInductive, RowsTyped, OwnedTyped, DrainPlaces, AcknowledgeFails,
       CallFails, Acknowledges, OutcomeStored, AcceptsHandoff, Wake, Accepting, Flights, localRows,
       owned, drain, timers, bounds, still
<1>3. OwnedTyped'
  BY DEF LocalInductive, OwnedTyped, AcknowledgeFails, Acknowledges, OutcomeStored, AcceptsHandoff,
       Flights, localRows, owned, drain, still
<1>4. DrainTyped'
  BY DEF LocalInductive, DrainTyped, Accepting, AcknowledgeFails, Wake, drain, timers, still
<1>5. TimersTyped'
  BY DEF LocalInductive, TimersTyped, AcknowledgeFails, drain, timers, still
<1>6. DrainPlaces'
  BY <1>1, LocalAssumption DEF LocalInductive, DrainPlaces, DrainTyped, AcknowledgeFails, Wake,
       still
<1>7. StopWaited'
  BY DEF LocalInductive, StopWaited, AcknowledgeFails, Wake, Accepting, owned, drain
<1>8. LeasesWritten'
  BY DEF LocalInductive, LeasesWritten, RowsTyped, OwnedTyped, DrainTyped, AcknowledgeFails,
       Acknowledges, OutcomeStored, AcceptsHandoff, Flights, localRows, owned, drain, still
<1>9. FlightsLeased'
  BY DEF LocalInductive, FlightsLeased, RowsTyped, OwnedTyped, AcknowledgeFails, Acknowledges,
       OutcomeStored, AcceptsHandoff, Flights, localRows, owned
<1>10. OutcomesEarlier'
  BY DEF LocalInductive, OutcomesEarlier, RowsTyped, OwnedTyped, FlightsLeased, LeasesWritten,
       DrainPlaces, StopWaited, AcknowledgeFails, Acknowledges, OutcomeStored, AcceptsHandoff,
       Flights, localRows, owned, drain, still
<1>11. WithinCap'
  BY <1>1, LocalAssumption DEF LocalInductive, WithinCap
<1>12. OutcomesRetried'
  BY DEF LocalInductive, OutcomesRetried, Accepting, AcknowledgeFails, Wake, owned, drain, timers,
       still
<1>13. ArmCovers'
  BY DEF LocalInductive, ArmCovers, Accepting, Wakened, AcknowledgeFails, Acknowledges,
       OutcomeStored, AcceptsHandoff, Wake, localRows, owned, drain, timers, still
<1>14. LeaseIsOwned'
  BY LocalAssumption DEF LocalInductive, LeaseIsOwned, RowsTyped, OwnedTyped, OutcomesEarlier,
       FlightsLeased, LeasesWritten, DrainPlaces, StopWaited, DrainTyped, Owed, AcknowledgeFails,
       CallFails, Acknowledges, OutcomeStored, AcceptsHandoff, Wake, Accepting, Flights, localRows,
       owned, drain, timers, bounds, still
<1>15. NothingForgotten'
  BY DEF LocalInductive, NothingForgotten, Accepting, WakeComing, AcknowledgeFails, Acknowledges,
       OutcomeStored, AcceptsHandoff, Wake, localRows, owned, drain, timers, bounds
<1> QED  BY <1>2, <1>3, <1>4, <1>5, <1>6, <1>7, <1>8, <1>9, <1>10, <1>11, <1>12, <1>13, <1>14,
     <1>15 DEF LocalInductive

\* stop() is called.
LEMMA StopsPreserves ==
    ASSUME LocalInductive, Stops
    PROVE  LocalInductive'
<1>1. RowsTyped'
  BY DEF LocalInductive, RowsTyped, Stops, localRows, bounds
<1>2. OwnedTyped'
  BY DEF LocalInductive, OwnedTyped, Stops, Flights, localRows, owned, drain, still
<1>3. DrainTyped'
  BY DEF LocalInductive, DrainTyped, Accepting, Stops, drain, timers, still
<1>4. TimersTyped'
  BY DEF LocalInductive, TimersTyped, Stops, drain, timers, still
<1>5. DrainPlaces'
  BY DEF LocalInductive, DrainPlaces, OwnedCount, Owed, Stops, owned, drain, still
<1>6. StopWaited'
  BY DEF LocalInductive, StopWaited, Stops, Accepting, owned, drain
<1>7. LeasesWritten'
  BY DEF LocalInductive, LeasesWritten, Stops, localRows, owned, drain, still
<1>8. FlightsLeased'
  BY DEF LocalInductive, FlightsLeased, Stops, localRows, owned
<1>9. OutcomesEarlier'
  BY DEF LocalInductive, OutcomesEarlier, Stops, localRows, owned, drain, still
<1>10. WithinCap'
  BY DEF LocalInductive, WithinCap, OwnedCount, Owed, Stops, owned
<1>11. OutcomesRetried'
  BY DEF LocalInductive, OutcomesRetried, Accepting, Stops, owned, drain, timers, still
<1>12. ArmCovers'
  BY DEF LocalInductive, ArmCovers, Accepting, Wakened, Stops, localRows, owned, drain, timers,
       still
<1>13. LeaseIsOwned'
  BY DEF LocalInductive, LeaseIsOwned, Owed, Stops, Accepting, localRows, owned
<1>14. NothingForgotten'
  BY DEF LocalInductive, NothingForgotten, Accepting, WakeComing, Stops, localRows, owned, drain,
       timers, bounds
<1> QED  BY <1>1, <1>2, <1>3, <1>4, <1>5, <1>6, <1>7, <1>8, <1>9, <1>10, <1>11, <1>12, <1>13,
     <1>14 DEF LocalInductive

\* stop() has waited for the drain and the performances.
LEMMA StopWaitsPreserves ==
    ASSUME LocalInductive, StopWaits
    PROVE  LocalInductive'
<1>1. RowsTyped'
  BY DEF LocalInductive, RowsTyped, StopWaits, localRows, bounds
<1>2. OwnedTyped'
  BY DEF LocalInductive, OwnedTyped, StopWaits, Flights, localRows, owned, drain, still
<1>3. DrainTyped'
  BY DEF LocalInductive, DrainTyped, Accepting, StopWaits, drain, timers, still
<1>4. TimersTyped'
  BY DEF LocalInductive, TimersTyped, StopWaits, drain, timers, still
<1>5. DrainPlaces'
  BY DEF LocalInductive, DrainPlaces, OwnedCount, Owed, StopWaits, owned, drain, still
<1>6. StopWaited'
  BY DEF LocalInductive, StopWaited, StopWaits, Accepting, owned, drain
<1>7. LeasesWritten'
  BY DEF LocalInductive, LeasesWritten, StopWaits, localRows, owned, drain, still
<1>8. FlightsLeased'
  BY DEF LocalInductive, FlightsLeased, StopWaits, localRows, owned
<1>9. OutcomesEarlier'
  BY DEF LocalInductive, OutcomesEarlier, StopWaits, localRows, owned, drain, still
<1>10. WithinCap'
  BY DEF LocalInductive, WithinCap, OwnedCount, Owed, StopWaits, owned
<1>11. OutcomesRetried'
  BY DEF LocalInductive, OutcomesRetried, Accepting, StopWaits, owned, drain, timers, still
<1>12. ArmCovers'
  BY DEF LocalInductive, ArmCovers, Accepting, Wakened, StopWaits, localRows, owned, drain, timers,
       still
<1>13. LeaseIsOwned'
  BY DEF LocalInductive, LeaseIsOwned, Owed, StopWaits, Accepting, localRows, owned
<1>14. NothingForgotten'
  BY DEF LocalInductive, NothingForgotten, Accepting, WakeComing, StopWaits, localRows, owned,
       drain, timers, bounds
<1> QED  BY <1>1, <1>2, <1>3, <1>4, <1>5, <1>6, <1>7, <1>8, <1>9, <1>10, <1>11, <1>12, <1>13,
     <1>14 DEF LocalInductive

\* stop() acknowledges what is owed.
LEMMA StopAcknowledgesPreserves ==
    ASSUME LocalInductive, NEW j \in Owed, NEW again_ \in BOOLEAN, NEW delay \in LocalDelays \cup {0}, StopAcknowledges(j, again_, delay)
    PROVE  LocalInductive'
<1>1. RowsTyped'
  BY LocalAssumption DEF LocalInductive, RowsTyped, OwnedTyped, DrainPlaces, StopAcknowledges,
       Owed, Acknowledges, OutcomeStored, AcceptsHandoff, Accepting, Flights, localRows, owned,
       drain, timers, bounds, still
<1>2. OwnedTyped'
  BY DEF LocalInductive, OwnedTyped, StopAcknowledges, Owed, Acknowledges, OutcomeStored,
       AcceptsHandoff, Flights, localRows, owned, drain, still
<1>3. DrainTyped'
  BY DEF LocalInductive, DrainTyped, Accepting, StopAcknowledges, drain, timers, still
<1>4. TimersTyped'
  BY DEF LocalInductive, TimersTyped, StopAcknowledges, drain, timers, still
<1>5. DrainPlaces'
  BY DEF LocalInductive, DrainPlaces, DrainTyped, WithinCap, StopWaited, OwnedCount, Owed,
       StopAcknowledges, owned, drain, still
<1>6. StopWaited'
  BY DEF LocalInductive, StopWaited, StopAcknowledges, Owed, Accepting, owned, drain
<1>7. LeasesWritten'
  BY DEF LocalInductive, LeasesWritten, RowsTyped, OwnedTyped, DrainTyped, StopAcknowledges, Owed,
       Acknowledges, OutcomeStored, AcceptsHandoff, Flights, localRows, owned, drain, still
<1>8. FlightsLeased'
  BY DEF LocalInductive, FlightsLeased, RowsTyped, OwnedTyped, OutcomesEarlier, StopWaited,
       DrainPlaces, LeasesWritten, StopAcknowledges, Acknowledges, OutcomeStored, AcceptsHandoff,
       Flights, localRows, owned
<1>9. OutcomesEarlier'
  BY DEF LocalInductive, OutcomesEarlier, StopAcknowledges, Owed, Acknowledges, OutcomeStored,
       AcceptsHandoff, Flights, localRows, owned, drain, still
<1>10. WithinCap'
  <2>1. flights' \subseteq flights /\ Owed' \subseteq Owed
    BY DEF StopAcknowledges, Owed, LocalInductive, OwnedTyped
  <2>2. IsFiniteSet(flights') /\ OwnedCount \in Nat /\ OwnedCount' \in Nat /\ OwnedCount' <= OwnedCount
    BY <2>1, CountKept DEF LocalInductive, WithinCap
  <2> QED  BY <2>2, LocalAssumption DEF LocalInductive, WithinCap
<1>11. OutcomesRetried'
  BY DEF LocalInductive, OutcomesRetried, Accepting, StopAcknowledges, Owed, owned, drain, timers,
       still
<1>12. ArmCovers'
  BY DEF LocalInductive, ArmCovers, Accepting, Wakened, StopAcknowledges, Acknowledges,
       OutcomeStored, AcceptsHandoff, localRows, owned, drain, timers, still
<1>13. LeaseIsOwned'
  BY DEF LocalInductive, LeaseIsOwned, RowsTyped, OwnedTyped, DrainTyped, Owed, StopAcknowledges,
       Acknowledges, OutcomeStored, AcceptsHandoff, Accepting, Flights, localRows, owned
<1>14. NothingForgotten'
  BY DEF LocalInductive, NothingForgotten, Accepting, WakeComing, StopAcknowledges, Acknowledges,
       OutcomeStored, AcceptsHandoff, localRows, owned, drain, timers, bounds
<1> QED  BY <1>1, <1>2, <1>3, <1>4, <1>5, <1>6, <1>7, <1>8, <1>9, <1>10, <1>11, <1>12, <1>13,
     <1>14 DEF LocalInductive

\* stop() is over.
LEMMA StoppedPreserves ==
    ASSUME LocalInductive, Stopped
    PROVE  LocalInductive'
<1>1. RowsTyped'
  BY DEF LocalInductive, RowsTyped, Stopped, localRows, bounds
<1>2. OwnedTyped'
  BY DEF LocalInductive, OwnedTyped, Stopped, Owed, Flights, localRows, owned, drain, still
<1>3. DrainTyped'
  BY DEF LocalInductive, DrainTyped, Accepting, Stopped, drain, timers, still
<1>4. TimersTyped'
  BY DEF LocalInductive, TimersTyped, Stopped, drain, timers, still
<1>5. DrainPlaces'
  BY DEF LocalInductive, DrainPlaces, OwnedCount, Owed, Stopped, owned, drain, still
<1>6. StopWaited'
  BY DEF LocalInductive, StopWaited, Stopped, Owed, Accepting, owned, drain
<1>7. LeasesWritten'
  BY DEF LocalInductive, LeasesWritten, Stopped, Owed, localRows, owned, drain, still
<1>8. FlightsLeased'
  BY DEF LocalInductive, FlightsLeased, Stopped, localRows, owned
<1>9. OutcomesEarlier'
  BY DEF LocalInductive, OutcomesEarlier, Stopped, Owed, localRows, owned, drain, still
<1>10. WithinCap'
  BY DEF LocalInductive, WithinCap, OwnedCount, Owed, Stopped, owned
<1>11. OutcomesRetried'
  BY DEF LocalInductive, OutcomesRetried, Accepting, Stopped, Owed, owned, drain, timers, still
<1>12. ArmCovers'
  BY DEF LocalInductive, ArmCovers, Accepting, Wakened, Stopped, localRows, owned, drain, timers,
       still
<1>13. LeaseIsOwned'
  BY DEF LocalInductive, LeaseIsOwned, Owed, Stopped, Accepting, localRows, owned
<1>14. NothingForgotten'
  BY DEF LocalInductive, NothingForgotten, Accepting, WakeComing, Stopped, localRows, owned, drain,
       timers, bounds
<1> QED  BY <1>1, <1>2, <1>3, <1>4, <1>5, <1>6, <1>7, <1>8, <1>9, <1>10, <1>11, <1>12, <1>13,
     <1>14 DEF LocalInductive

\* Everything in memory is gone.
LEMMA ForgetsPreserves ==
    ASSUME LocalInductive, Forgets
    PROVE  LocalInductive'
<1>1. RowsTyped'
  BY DEF LocalInductive, RowsTyped, Forgets, localRows, bounds
<1>2. OwnedTyped'
  BY DEF LocalInductive, OwnedTyped, Forgets, Flights, localRows, owned, drain, still
<1>3. DrainTyped'
  BY DEF LocalInductive, DrainTyped, Accepting, Forgets, drain, timers, still
<1>4. TimersTyped'
  BY DEF LocalInductive, TimersTyped, Forgets, drain, timers, still
<1>5. DrainPlaces'
  BY DEF LocalInductive, DrainPlaces, OwnedCount, Owed, Forgets, owned, drain, still
<1>6. StopWaited'
  BY DEF LocalInductive, StopWaited, Forgets, Accepting, owned, drain
<1>7. LeasesWritten'
  BY DEF LocalInductive, LeasesWritten, Forgets, localRows, owned, drain, still
<1>8. FlightsLeased'
  BY DEF LocalInductive, FlightsLeased, Forgets, localRows, owned
<1>9. OutcomesEarlier'
  BY DEF LocalInductive, OutcomesEarlier, Forgets, localRows, owned, drain, still
<1>10. WithinCap'
  <2>1. flights' \subseteq flights /\ Owed' \subseteq Owed
    BY DEF Forgets, Owed
  <2>2. IsFiniteSet(flights') /\ OwnedCount \in Nat /\ OwnedCount' \in Nat /\ OwnedCount' <= OwnedCount
    BY <2>1, CountKept DEF LocalInductive, WithinCap
  <2> QED  BY <2>2, LocalAssumption DEF LocalInductive, WithinCap
<1>11. OutcomesRetried'
  BY DEF LocalInductive, OutcomesRetried, Accepting, Forgets, owned, drain, timers, still
<1>12. ArmCovers'
  BY DEF LocalInductive, ArmCovers, Accepting, Wakened, Forgets, localRows, owned, drain, timers,
       still
<1>13. LeaseIsOwned'
  BY DEF LocalInductive, LeaseIsOwned, Owed, Forgets, Accepting, localRows, owned
<1>14. NothingForgotten'
  BY DEF LocalInductive, NothingForgotten, Accepting, WakeComing, Forgets, localRows, owned, drain,
       timers, bounds
<1> QED  BY <1>1, <1>2, <1>3, <1>4, <1>5, <1>6, <1>7, <1>8, <1>9, <1>10, <1>11, <1>12, <1>13,
     <1>14 DEF LocalInductive

\* A process starts over the rows that the last one left.
LEMMA StartsPreserves ==
    ASSUME LocalInductive, NEW S \in SUBSET LocalJobs, NEW delay \in LocalDelays, Starts(S, delay)
    PROVE  LocalInductive'
<1>1. RowsTyped'
  BY LocalAssumption DEF LocalInductive, RowsTyped, OwnedTyped, DrainPlaces, Starts, Accepting,
       localRows, owned, drain, timers, bounds, still
<1>2. OwnedTyped'
  BY DEF LocalInductive, OwnedTyped, Starts, Flights, localRows, owned, drain, still
<1>3. DrainTyped'
  BY DEF LocalInductive, DrainTyped, Accepting, Starts, drain, timers, still
<1>4. TimersTyped'
  BY DEF LocalInductive, TimersTyped, Starts, drain, timers, still
<1>5. DrainPlaces'
  BY DEF LocalInductive, DrainPlaces, DrainTyped, WithinCap, StopWaited, OwnedCount, Owed, Starts,
       owned, drain, still
<1>6. StopWaited'
  BY DEF LocalInductive, StopWaited, Starts, Accepting, owned, drain
<1>7. LeasesWritten'
  BY DEF LocalInductive, LeasesWritten, RowsTyped, OwnedTyped, DrainTyped, Starts, localRows,
       owned, drain, still
<1>8. FlightsLeased'
  BY DEF LocalInductive, FlightsLeased, RowsTyped, OwnedTyped, OutcomesEarlier, StopWaited,
       DrainPlaces, LeasesWritten, Starts, localRows, owned
<1>9. OutcomesEarlier'
  BY DEF LocalInductive, OutcomesEarlier, Starts, localRows, owned, drain, still
<1>10. WithinCap'
  BY DEF LocalInductive, WithinCap, OwnedCount, Owed, Starts, owned
<1>11. OutcomesRetried'
  BY DEF LocalInductive, OutcomesRetried, Accepting, Starts, owned, drain, timers, still
<1>12. ArmCovers'
  BY DEF LocalInductive, ArmCovers, Accepting, Wakened, Starts, localRows, owned, drain, timers,
       still
<1>13. LeaseIsOwned'
  BY DEF LocalInductive, LeaseIsOwned, Owed, Starts, Accepting, localRows, owned
<1>14. NothingForgotten'
  BY DEF LocalInductive, NothingForgotten, Accepting, WakeComing, Starts, localRows, owned, drain,
       timers, bounds
<1> QED  BY <1>1, <1>2, <1>3, <1>4, <1>5, <1>6, <1>7, <1>8, <1>9, <1>10, <1>11, <1>12, <1>13,
     <1>14 DEF LocalInductive

\* Time passes.
LEMMA PassesPreserves ==
    ASSUME LocalInductive, Passes
    PROVE  LocalInductive'
<1>1. RowsTyped'
  BY LocalAssumption DEF LocalInductive, RowsTyped, OwnedTyped, DrainPlaces, Passes, Accepting,
       localRows, owned, drain, timers, bounds, still
<1>2. OwnedTyped'
  BY DEF LocalInductive, OwnedTyped, Passes, Flights, localRows, owned, drain, still
<1>3. DrainTyped'
  BY DEF LocalInductive, DrainTyped, Accepting, Passes, drain, timers, still
<1>4. TimersTyped'
  BY DEF LocalInductive, TimersTyped, Passes, drain, timers, still
<1>5. DrainPlaces'
  BY DEF LocalInductive, DrainPlaces, OwnedCount, Owed, Passes, owned, drain, still
<1>6. StopWaited'
  BY DEF LocalInductive, StopWaited, Passes, Accepting, owned, drain
<1>7. LeasesWritten'
  BY DEF LocalInductive, LeasesWritten, Passes, localRows, owned, drain, still
<1>8. FlightsLeased'
  BY DEF LocalInductive, FlightsLeased, Passes, localRows, owned
<1>9. OutcomesEarlier'
  BY DEF LocalInductive, OutcomesEarlier, Passes, localRows, owned, drain, still
<1>10. WithinCap'
  BY DEF LocalInductive, WithinCap, OwnedCount, Owed, Passes, owned
<1>11. OutcomesRetried'
  BY DEF LocalInductive, OutcomesRetried, Accepting, Passes, owned, drain, timers, still
<1>12. ArmCovers'
  BY DEF LocalInductive, ArmCovers, Accepting, Wakened, Passes, localRows, owned, drain, timers,
       still
<1>13. LeaseIsOwned'
  BY DEF LocalInductive, LeaseIsOwned, Owed, Passes, Accepting, localRows, owned
<1>14. NothingForgotten'
  BY DEF LocalInductive, NothingForgotten, RowsTyped, OwnedTyped, DrainTyped, TimersTyped,
       Accepting, WakeComing, Passes, localRows, owned, drain, timers, bounds
<1> QED  BY <1>1, <1>2, <1>3, <1>4, <1>5, <1>6, <1>7, <1>8, <1>9, <1>10, <1>11, <1>12, <1>13,
     <1>14 DEF LocalInductive

\* The dispatcher starts without a job.
LEMMA LocalStarts == LocalInit => LocalInductive
<1> SUFFICES ASSUME LocalInit PROVE LocalInductive
  OBVIOUS
<1>1. RowsTyped /\ OwnedTyped /\ DrainTyped /\ TimersTyped
  <2>1. RowsTyped
    BY LocalAssumption DEF LocalInit, RowsTyped
  <2>2. OwnedTyped
    BY DEF LocalInit, OwnedTyped
  <2>3. DrainTyped
    BY DEF LocalInit, DrainTyped
  <2>4. TimersTyped
    BY LocalAssumption DEF LocalInit, TimersTyped
  <2> QED  BY <2>1, <2>2, <2>3, <2>4
<1>2. WithinCap /\ DrainPlaces
  <2>1. flights = {} /\ Owed = {} /\ Cardinality({}) = 0 /\ IsFiniteSet({})
    BY FS_EmptySet DEF LocalInit, Owed
  <2>2. OwnedCount = 0
    BY <2>1 DEF OwnedCount
  <2> QED  BY <2>1, <2>2, LocalAssumption DEF LocalInit, WithinCap, DrainPlaces
<1>3. StopWaited /\ LeasesWritten /\ FlightsLeased /\ OutcomesEarlier /\ OutcomesRetried /\ ArmCovers
  BY DEF LocalInit, StopWaited, LeasesWritten, FlightsLeased, OutcomesEarlier, OutcomesRetried,
       ArmCovers, Accepting
<1>4. LeaseIsOwned /\ NothingForgotten
  BY DEF LocalInit, LeaseIsOwned, NothingForgotten, Accepting
<1> QED  BY <1>1, <1>2, <1>3, <1>4 DEF LocalInductive

\* The distinct performances and outcomes are no more than their count.
LEMMA OwnedIsWithinCap ==
    ASSUME OwnedTyped, WithinCap
    PROVE  OwnedWithinCap
<1> DEFINE kept == {unacked[j] : j \in Owed}
<1>1. IsFiniteSet(Owed) /\ Cardinality(flights) \in Nat /\ Cardinality(Owed) \in Nat
  BY CountTyped DEF WithinCap
<1>2. IsFiniteSet(kept) /\ Cardinality(kept) <= Cardinality(Owed)
  <2>1. [j \in Owed |-> unacked[j]] \in Surjection(Owed, kept)
    BY DEF Surjection
  <2> QED  BY <1>1, <2>1, FS_Surjection
<1>3. /\ IsFiniteSet(flights \cup kept) /\ Cardinality(kept) \in Nat
      /\ Cardinality(flights \cup kept) <= Cardinality(flights) + Cardinality(kept)
  <2>1. IsFiniteSet(flights) /\ IsFiniteSet(flights \cap kept)
    BY FS_Intersection DEF WithinCap
  <2>2. /\ IsFiniteSet(flights \cup kept)
        /\ Cardinality(flights \cup kept) = Cardinality(flights) + Cardinality(kept) - Cardinality(flights \cap kept)
    BY <1>2, <2>1, FS_Union
  <2>3. Cardinality(kept) \in Nat /\ Cardinality(flights \cap kept) \in Nat
    BY <1>2, <2>1, FS_CardinalityType
  <2> QED  BY <1>1, <2>2, <2>3
<1>4. Cardinality(flights \cup kept) \in Nat
  BY <1>3, FS_CardinalityType
<1>5. Cardinality(flights) + Cardinality(Owed) <= MaxAtOnce
  BY DEF WithinCap, OwnedCount
<1> QED  BY <1>1, <1>2, <1>3, <1>4, <1>5, LocalAssumption DEF OwnedWithinCap

\* What the dispatcher promises follows.
LEMMA LocalInductiveHolds == LocalInductive => LocalInv
<1> SUFFICES ASSUME LocalInductive PROVE LocalInv
  OBVIOUS
<1>1. LocalTypeOK
  BY DEF LocalInductive, RowsTyped, OwnedTyped, DrainTyped, TimersTyped, LocalTypeOK
<1>2. RunningIsLeased
  BY DEF LocalInductive, FlightsLeased, RunningIsLeased
<1>3. OwnedWithinCap
  BY OwnedIsWithinCap DEF LocalInductive
<1>4. StopSettles
  BY DEF LocalInductive, StopWaited, LeaseIsOwned, StopSettles, Owed
<1> QED  BY <1>1, <1>2, <1>3, <1>4 DEF LocalInductive, LocalInv

\* Every step of the dispatcher, its jobs and its processes.
LEMMA LocalSteps == LocalInductive /\ [LocalNext]_localVars => LocalInductive'
<1> SUFFICES ASSUME LocalInductive, [LocalNext]_localVars PROVE LocalInductive'
  OBVIOUS
<1>1. CASE UNCHANGED localVars
  BY <1>1 DEF localVars, LocalInductive, RowsTyped, OwnedTyped, DrainTyped, TimersTyped,
       DrainPlaces, StopWaited,
      LeasesWritten, FlightsLeased, OutcomesEarlier, WithinCap, OutcomesRetried, ArmCovers, Wakened, LeaseIsOwned,
      NothingForgotten, WakeComing, Accepting, OwnedCount, Owed
<1>2. ASSUME NEW j \in LocalJobs, NEW delay \in LocalDelays, Enqueued(j, delay) PROVE LocalInductive'
  BY <1>2, EnqueuedPreserves
<1>3. CASE AlarmFires \/ RescueFires
  BY <1>3, AlarmFiresPreserves, RescueFiresPreserves
<1>4. CASE DrainSteps
  <2>1. ASSUME NEW committed \in BOOLEAN, ClaimFails(committed) PROVE LocalInductive'
    BY <2>1, ClaimFailsPreserves
  <2>2. ASSUME NEW f \in retrying, NEW again_ \in BOOLEAN, NEW delay \in LocalDelays \cup {0},
               RetryAcknowledges(f, again_, delay)
        PROVE LocalInductive'
    BY <2>2, RetryAcknowledgesPreserves
  <2>3. ASSUME NEW f \in retrying, RetryFails(f) PROVE LocalInductive'
    BY <2>3, RetryFailsPreserves
  <2> QED  BY <1>4, <2>1, <2>2, <2>3, DrainStartsPreserves, ProbePreserves, ProbeFailsPreserves,
              ClaimJobPreserves, ArmReadsPreserves, ArmFailsPreserves, ArmSetsPreserves DEF DrainSteps
<1>5. CASE PerformanceSteps
  <2>1. ASSUME NEW f \in flights, NEW what \in {"completed", "rescheduled", "failed"}, Performs(f, what)
        PROVE LocalInductive'
    BY <2>1, PerformsPreserves
  <2>2. ASSUME NEW f \in flights, NEW again_ \in BOOLEAN, NEW delay \in LocalDelays \cup {0},
               PerformanceEnds(f, again_, delay)
        PROVE LocalInductive'
    BY <2>2, PerformanceEndsPreserves
  <2>3. ASSUME NEW f \in flights, NEW again_ \in BOOLEAN, NEW delay \in LocalDelays \cup {0},
               NEW committed \in BOOLEAN, AcknowledgeFails(f, committed, again_, delay)
        PROVE LocalInductive'
    BY <2>3, AcknowledgeFailsPreserves
  <2> QED  BY <1>5, <2>1, <2>2, <2>3 DEF PerformanceSteps
<1>6. CASE Stops \/ StopWaits \/ Stopped \/ Forgets
  BY <1>6, StopsPreserves, StopWaitsPreserves, StoppedPreserves, ForgetsPreserves
<1>7. ASSUME NEW j \in Owed, NEW again_ \in BOOLEAN, NEW delay \in LocalDelays \cup {0},
             StopAcknowledges(j, again_, delay)
      PROVE LocalInductive'
  BY <1>7, StopAcknowledgesPreserves
<1>8. ASSUME NEW S \in SUBSET LocalJobs, NEW delay \in LocalDelays, Starts(S, delay) PROVE LocalInductive'
  BY <1>8, StartsPreserves
<1>9. CASE Passes
  BY <1>9, PassesPreserves
<1> QED  BY <1>1, <1>2, <1>3, <1>4, <1>5, <1>6, <1>7, <1>8, <1>9 DEF LocalNext

\* The in-process dispatcher loses no lease and no due job, runs no job twice
\* at once, keeps to its cap and has settled everything when stop() returns,
\* for every number of jobs, failures and restarts.
THEOREM LocalJobsSafe == LocalSpec => []LocalInv
<1> QED  BY LocalStarts, LocalSteps, LocalInductiveHolds, PTL DEF LocalSpec

-----------------------------------------------------------------------------
(* The channels: how far publishing has come.                              *)

\* The publishes that have settled are the first ones, and of the others the
\* first at most is in the log.
SettledCount == accepted - Len(queue)
InsertedCount == IF publishing = "dispatch" THEN SettledCount + 1 ELSE SettledCount

\* Numbers follow one another through the queue, and nothing is stored or sent early.
PublishedInOrder ==
    /\ SettledCount \in Nat /\ \A i \in DOMAIN queue : queue[i] = SettledCount + i
    /\ failedAt > 0 => publishing = "idle" /\ failedAt = SettledCount
    /\ log \subseteq 1..InsertedCount /\ ToSet(port) \subseteq 1..SettledCount

\* Event e has been sent to s, or is going to be if s listens, or its publish failed.
Owes(s, e) == e > SettledCount \/ e \in ToSet(port) \/ e \in ToSet(seen[s]) \/ e = failedAt

\* Sent in the order of publishing.
Increasing(list) == \A i, k \in DOMAIN list : i < k => list[i] < list[k]

\* A subscriber of the second kind listens before its barrier: what is published
\* later it is sent, and what was published before is in the log by the time that
\* it reads its ceiling.
SecondFollows(s) ==
    /\ subAt[s] \in {"none", "hook", "hook2", "barrier", "checkpoint", "ceiling", "fetch",
                     "replay", "live", "gap", "failed"}
    /\ subAt[s] \in {"barrier", "checkpoint", "ceiling", "fetch", "replay", "live"} =>
          \A e \in log : e > mark[s] => Owes(s, e)
    /\ subAt[s] \in {"checkpoint", "ceiling", "fetch", "replay"} \/ (subAt[s] = "live" /\ since[s] > 0) =>
          mark[s] <= SettledCount /\ (~threaded /\ failedAt > 0 => mark[s] < failedAt)
    /\ subAt[s] = "fetch" => \A e \in log : e <= mark[s] => e <= ceiling[s]
    /\ subAt[s] = "replay" => \A e \in log : since[s] < e /\ e <= mark[s] => e \in ToSet(rows[s])
    /\ subAt[s] = "live" /\ since[s] > 0 =>
          \A e \in log : since[s] < e /\ e <= mark[s] => e \in ToSet(seen[s])

\* A subscriber of the first kind reads up to its ceiling, and what is dispatched
\* beyond it passes by, is found back, or comes later.
FirstFollows(s) ==
    /\ subAt[s] \in {"none", "mark", "checkpoint", "ceiling", "register", "fetch", "replay",
                     "refetch", "resend", "live", "gap"}
    /\ subAt[s] \in {"none", "mark", "checkpoint", "ceiling", "register", "fetch", "gap"} => seen[s] = <<>>
    /\ subAt[s] \in {"register", "fetch", "replay"} =>
          \A e \in log : e > ceiling[s] =>
              \/ e > SettledCount \/ e \in ToSet(port) \/ e = failedAt
              \/ e \in passed[s] \/ s \in buffered
    /\ subAt[s] = "replay" =>
          /\ \A e \in log : since[s] < e /\ e <= ceiling[s] => e \in ToSet(rows[s]) \cup ToSet(seen[s])
          /\ Increasing(seen[s]) /\ Increasing(rows[s])
          /\ \A i \in DOMAIN seen[s], k \in DOMAIN rows[s] : seen[s][i] < rows[s][k]
    /\ subAt[s] \in {"refetch", "resend"} =>
          \A e \in log : since[s] < e /\ e <= ceiling[s] => e \in ToSet(seen[s])
    /\ subAt[s] = "resend" =>
          \A e \in log : e > ceiling[s] => Owes(s, e) \/ e \in ToSet(rows[s])
    /\ subAt[s] = "live" /\ since[s] > 0 =>
          \A e \in log : e > since[s] => Owes(s, e) \/ e \in passed[s]

\* A subscriber has nothing from beyond the log, and nothing from behind a publish
\* that failed.
FollowsLog(s) ==
    /\ since[s] <= SettledCount /\ ceiling[s] <= InsertedCount
    /\ ToSet(rows[s]) \cup ToSet(seen[s]) \subseteq 1..InsertedCount
    /\ failedAt > 0 => \A e \in ToSet(rows[s]) \cup ToSet(seen[s]) : e <= failedAt
    /\ s \in First => FirstFollows(s)
    /\ s \in Second => SecondFollows(s)

\* The inductive invariant.
ChannelInductive ==
    /\ ChannelTypeOK /\ rows \in [ChannelSubs -> Seq(Events)] /\ seen \in [ChannelSubs -> Seq(Events)]
    /\ PublishedInOrder
    /\ failedAt > 0 => \A e \in log \cup ToSet(port) : e <= failedAt
    /\ \A s \in ChannelSubs : FollowsLog(s)

\* Sequences of events as sets: the rest of one, a longer one, one after another.
LEMMA RestOfEvents ==
    ASSUME NEW S, NEW list \in Seq(S), list # <<>>
    PROVE  /\ Head(list) \in S /\ Head(list) = list[1] /\ Tail(list) \in Seq(S) /\ Len(list) \in Nat \ {0}
           /\ 1 \in DOMAIN list /\ DOMAIN list = 1..Len(list)
           /\ Len(Tail(list)) = Len(list) - 1 /\ DOMAIN Tail(list) = 1..(Len(list) - 1)
           /\ \A i \in DOMAIN Tail(list) : i + 1 \in DOMAIN list /\ Tail(list)[i] = list[i + 1]
           /\ ToSet(list) = {Head(list)} \cup ToSet(Tail(list))
<1>1. /\ Head(list) \in S /\ Head(list) = list[1] /\ Tail(list) \in Seq(S) /\ Len(list) \in Nat \ {0}
      /\ 1 \in DOMAIN list /\ DOMAIN list = 1..Len(list)
      /\ Len(Tail(list)) = Len(list) - 1 /\ DOMAIN Tail(list) = 1..(Len(list) - 1)
      /\ \A i \in DOMAIN Tail(list) : i + 1 \in DOMAIN list /\ Tail(list)[i] = list[i + 1]
  OBVIOUS
<1>2. ASSUME NEW i \in DOMAIN list PROVE list[i] \in {Head(list)} \cup ToSet(Tail(list))
  <2>1. CASE i = 1
    BY <1>1, <2>1
  <2>2. CASE i # 1
    <3>1. i - 1 \in DOMAIN Tail(list) /\ Tail(list)[i - 1] = list[i]
      BY <1>1, <2>2
    <3> QED  BY <3>1 DEF ToSet
  <2> QED  BY <2>1, <2>2
<1>3. \A i \in DOMAIN Tail(list) : Tail(list)[i] \in ToSet(list)
  BY <1>1 DEF ToSet
<1>4. Head(list) \in ToSet(list)
  BY <1>1 DEF ToSet
<1> QED  BY <1>1, <1>2, <1>3, <1>4 DEF ToSet

\* A longer sequence of events.
LEMMA OneMoreEvent ==
    ASSUME NEW S, NEW list \in Seq(S), NEW e \in S
    PROVE  /\ Append(list, e) \in Seq(S) /\ Len(Append(list, e)) = Len(list) + 1 /\ Len(list) \in Nat
           /\ DOMAIN list = 1..Len(list) /\ DOMAIN Append(list, e) = 1..(Len(list) + 1)
           /\ \A i \in DOMAIN list : Append(list, e)[i] = list[i]
           /\ Append(list, e)[Len(list) + 1] = e
           /\ ToSet(Append(list, e)) = ToSet(list) \cup {e}
<1>1. /\ Append(list, e) \in Seq(S) /\ Len(Append(list, e)) = Len(list) + 1 /\ Len(list) \in Nat
      /\ DOMAIN list = 1..Len(list) /\ DOMAIN Append(list, e) = 1..(Len(list) + 1)
      /\ \A i \in DOMAIN list : Append(list, e)[i] = list[i]
      /\ Append(list, e)[Len(list) + 1] = e
  OBVIOUS
<1>2. \A i \in 1..(Len(list) + 1) : i \in 1..Len(list) \/ i = Len(list) + 1
  BY <1>1
<1>3. ToSet(Append(list, e)) \subseteq ToSet(list) \cup {e}
  BY <1>1, <1>2 DEF ToSet
<1>4. ToSet(list) \cup {e} \subseteq ToSet(Append(list, e))
  <2>1. \A i \in DOMAIN list : i \in DOMAIN Append(list, e)
    BY <1>1
  <2>2. Len(list) + 1 \in DOMAIN Append(list, e)
    BY <1>1
  <2> QED  BY <1>1, <2>1, <2>2 DEF ToSet
<1> QED  BY <1>1, <1>3, <1>4

\* One sequence of events after another.
LEMMA EventsAndMore ==
    ASSUME NEW S, NEW list \in Seq(S), NEW more \in Seq(S)
    PROVE  list \o more \in Seq(S) /\ ToSet(list \o more) = ToSet(list) \cup ToSet(more)
<1>1. /\ list \o more \in Seq(S) /\ Len(list) \in Nat /\ Len(more) \in Nat
      /\ DOMAIN list = 1..Len(list) /\ DOMAIN more = 1..Len(more)
      /\ DOMAIN (list \o more) = 1..(Len(list) + Len(more))
      /\ \A i \in 1..Len(list) : (list \o more)[i] = list[i]
      /\ \A i \in 1..Len(more) : (list \o more)[Len(list) + i] = more[i]
  OBVIOUS
<1>2. ASSUME NEW i \in DOMAIN (list \o more) PROVE (list \o more)[i] \in ToSet(list) \cup ToSet(more)
  <2>1. CASE i \in 1..Len(list)
    BY <1>1, <2>1 DEF ToSet
  <2>2. CASE i \notin 1..Len(list)
    <3>1. i - Len(list) \in 1..Len(more) /\ Len(list) + (i - Len(list)) = i
      BY <1>1, <2>2
    <3>2. (list \o more)[i] = more[i - Len(list)]
      BY <1>1, <3>1
    <3> QED  BY <1>1, <3>1, <3>2 DEF ToSet
  <2> QED  BY <2>1, <2>2
<1>3. \A i \in DOMAIN list : i \in DOMAIN (list \o more)
  BY <1>1
<1>4. \A i \in DOMAIN more : Len(list) + i \in DOMAIN (list \o more)
  BY <1>1
<1> QED  BY <1>1, <1>2, <1>3, <1>4 DEF ToSet

\* What getEventsAfter answers.
LEMMA RowsAreFound ==
    ASSUME ChannelTypeOK, NEW low, NEW high, NEW found \in RowsAfter(low, high)
    PROVE  /\ found \in Seq(Events) /\ Increasing(found)
           /\ ToSet(found) = {e \in log : low < e /\ e <= high}
<1> DEFINE between == {e \in log : low < e /\ e <= high}
<1>1. between \subseteq Events
  BY DEF ChannelTypeOK
<1>2. IsFiniteSet(between)
  <2>1. EventMax \in Int /\ 1 \in Int
    BY ChannelAssumption
  <2>2. IsFiniteSet(Events)
    BY <2>1, FS_Interval DEF Events
  <2> QED  BY <1>1, <2>2, FS_Subset
<1>3. Cardinality(between) \in Nat
  BY <1>2, FS_CardinalityType
<1>4. /\ found \in [1..Cardinality(between) -> between] /\ \A e \in between : \E i \in DOMAIN found : found[i] = e
      /\ \A i, k \in DOMAIN found : i < k => found[i] < found[k]
  BY DEF RowsAfter
<1> HIDE DEF between
<1>5. found \in Seq(between) /\ ToSet(found) = between
  BY <1>3, <1>4 DEF ToSet
<1> QED  BY <1>1, <1>3, <1>4, <1>5 DEF Increasing, between

\* Among numbers with a bound there is a highest one.
LEMMA HighestNatural ==
    ASSUME NEW S \in SUBSET Nat, S # {}, NEW b \in Nat, \A n \in S : n <= b
    PROVE  Max(S) \in S /\ \A n \in S : n <= Max(S)
<1>0. b \in Int /\ \A n \in S : n \in Int
  OBVIOUS
<1> DEFINE below == {b - n : n \in S}
<1>1. below \in SUBSET Nat /\ below # {}
  <2>1. \A n \in S : b - n \in Nat
    OBVIOUS
  <2> QED  BY <2>1
<1>2. PICK m \in below : \A n \in below : m <= n
  <2> HIDE DEF below
  <2> QED  BY <1>1, LeastNatural
<1>3. PICK top \in S : m = b - top
  OBVIOUS
<1>4. \A n \in S : n <= top
  <2> SUFFICES ASSUME NEW n \in S PROVE n <= top
    OBVIOUS
  <2>1. b - n \in below
    OBVIOUS
  <2>2. b - top <= b - n
    BY <1>2, <1>3, <2>1
  <2>3. top \in Int /\ n \in Int /\ b \in Int
    <3> HIDE DEF below
    <3> QED  BY <1>0
  <2> HIDE DEF below
  <2> QED  BY <2>2, <2>3
<1>5. \E t \in S : \A n \in S : t >= n
  BY <1>4
<1>6. Max(S) \in S /\ \A n \in S : Max(S) >= n
  BY <1>5 DEF Max
<1> QED  BY <1>6

\* latestSequence is the highest row there is.
LEMMA LatestIsHighest ==
    ASSUME ChannelTypeOK, log # {}
    PROVE  LatestSequence \in log /\ \A e \in log : e <= LatestSequence
<1>1. log \in SUBSET Nat /\ EventMax \in Nat /\ \A e \in log : e <= EventMax
  BY ChannelAssumption DEF ChannelTypeOK, Events
<1>2. Max(log) \in log /\ \A e \in log : e <= Max(log)
  BY <1>1, HighestNatural
<1> QED  BY <1>2 DEF LatestSequence

\* What publishing and cleaning up do to the log and to what is under way.
LogMoves ==
    /\ subscribers' = subscribers /\ threaded' = threaded
    /\ SettledCount' \in Nat /\ SettledCount <= SettledCount' /\ InsertedCount <= InsertedCount'
    /\ \A e \in log' : e \in log \/ (e > SettledCount' /\ e > InsertedCount /\ e > SettledCount)
    /\ \A e \in log : e > SettledCount => e > SettledCount' \/ e \in ToSet(port') \/ e = failedAt'
    /\ ToSet(port) \subseteq ToSet(port')
    /\ failedAt' = failedAt \/ (failedAt = 0 /\ failedAt' = SettledCount + 1)

\* Whoever follows the log goes on following it.
LEMMA LogMovesOn ==
    ASSUME ChannelInductive, LogMoves, ChannelTypeOK', PublishedInOrder',
           failedAt' > 0 => \A e \in log' \cup ToSet(port') : e <= failedAt'
    PROVE  ChannelInductive'
<1>1. /\ subAt' = subAt /\ since' = since /\ ceiling' = ceiling /\ rows' = rows /\ mark' = mark
      /\ buffered' = buffered /\ seen' = seen /\ passed' = passed /\ threaded' = threaded
  BY DEF LogMoves, subscribers
<1>2. /\ SettledCount \in Nat /\ SettledCount' \in Nat /\ InsertedCount \in Nat /\ InsertedCount' \in Nat
      /\ SettledCount <= SettledCount' /\ InsertedCount <= InsertedCount' /\ SettledCount <= InsertedCount /\ InsertedCount <= SettledCount + 1
      /\ failedAt \in Nat /\ log \subseteq Nat \ {0} /\ log' \subseteq Nat \ {0}
  <2>1. SettledCount \in Nat /\ SettledCount' \in Nat /\ SettledCount <= SettledCount' /\ InsertedCount <= InsertedCount'
    BY DEF ChannelInductive, PublishedInOrder, LogMoves
  <2>2. InsertedCount \in Nat /\ SettledCount <= InsertedCount /\ InsertedCount <= SettledCount + 1
    BY <2>1 DEF InsertedCount
  <2>3. InsertedCount' = SettledCount' + 1 \/ InsertedCount' = SettledCount'
    BY DEF InsertedCount
  <2>4. InsertedCount' \in Nat
    BY <2>1, <2>3
  <2>5. failedAt \in Nat /\ log \subseteq Nat \ {0} /\ log' \subseteq Nat \ {0}
    BY ChannelAssumption DEF ChannelInductive, ChannelTypeOK, Events
  <2> QED  BY <2>1, <2>2, <2>4, <2>5
<1>3. \A e \in log' : e \in log \/ (e > SettledCount' /\ e > InsertedCount /\ e > SettledCount)
  BY DEF LogMoves
<1>4. failedAt' = failedAt \/ (failedAt = 0 /\ failedAt' = SettledCount + 1)
  BY DEF LogMoves
<1>5. ASSUME NEW s \in ChannelSubs PROVE FollowsLog(s)'
  <2>1. FollowsLog(s) /\ since[s] \in Nat /\ ceiling[s] \in Nat /\ mark[s] \in Nat
    BY ChannelAssumption DEF ChannelInductive, ChannelTypeOK
  <2>2. \A e \in log : Owes(s, e) => Owes(s, e)'
    BY <1>1, <1>2, <1>4 DEF LogMoves, Owes
  <2>3. \A e \in log' : e \notin log => Owes(s, e)'
    BY <1>3 DEF Owes
  <2>4. \A e \in log : e > SettledCount \/ e \in ToSet(port) \/ e = failedAt =>
            e > SettledCount' \/ e \in ToSet(port') \/ e = failedAt'
    BY <1>2, <1>4 DEF LogMoves
  <2>5. since'[s] <= SettledCount' /\ ceiling'[s] <= InsertedCount'
    BY <1>1, <1>2, <2>1 DEF FollowsLog
  <2>6. ToSet(rows'[s]) \cup ToSet(seen'[s]) \subseteq 1..InsertedCount'
    BY <1>1, <1>2, <2>1 DEF FollowsLog
  <2>7. ASSUME failedAt' > 0, NEW e \in ToSet(rows'[s]) \cup ToSet(seen'[s]) PROVE e <= failedAt'
    <3>1. e \in ToSet(rows[s]) \cup ToSet(seen[s]) /\ e \in 1..InsertedCount
      BY <1>1, <2>1, <2>7 DEF FollowsLog
    <3>2. CASE failedAt' = failedAt
      BY <2>1, <2>7, <3>1, <3>2 DEF FollowsLog
    <3>3. CASE failedAt' = SettledCount + 1
      BY <1>2, <3>1, <3>3
    <3> QED  BY <1>4, <3>2, <3>3
  <2>8. ASSUME s \in First PROVE FirstFollows(s)'
    <3>1. FirstFollows(s)
      BY <2>1, <2>8 DEF FollowsLog
    <3>2. ceiling[s] <= InsertedCount /\ \A e \in log' : e \notin log => e > ceiling[s]
      BY <1>2, <1>3, <2>1 DEF FollowsLog
    <3>3. subAt[s] \in {"register", "fetch", "replay"} =>
            \A e \in log' : e > ceiling[s] =>
                \/ e > SettledCount' \/ e \in ToSet(port') \/ e = failedAt'
                \/ e \in passed[s] \/ s \in buffered
      BY <1>3, <2>4, <3>1 DEF FirstFollows
    <3>4. subAt[s] = "replay" =>
            \A e \in log' : since[s] < e /\ e <= ceiling[s] => e \in ToSet(rows[s]) \cup ToSet(seen[s])
      BY <1>2, <2>1, <3>1, <3>2 DEF FirstFollows
    <3>5. subAt[s] \in {"refetch", "resend"} =>
            \A e \in log' : since[s] < e /\ e <= ceiling[s] => e \in ToSet(seen[s])
      BY <1>2, <2>1, <3>1, <3>2 DEF FirstFollows
    <3>6. subAt[s] = "resend" =>
            \A e \in log' : e > ceiling[s] => Owes(s, e)' \/ e \in ToSet(rows[s])
      BY <2>2, <2>3, <3>1 DEF FirstFollows
    <3>7. subAt[s] = "live" /\ since[s] > 0 =>
            \A e \in log' : e > since[s] => Owes(s, e)' \/ e \in passed[s]
      BY <2>2, <2>3, <3>1 DEF FirstFollows
    <3> QED  BY <1>1, <3>1, <3>3, <3>4, <3>5, <3>6, <3>7 DEF FirstFollows, Increasing, Owes
  <2>9. ASSUME s \in Second PROVE SecondFollows(s)'
    <3>1. SecondFollows(s)
      BY <2>1, <2>9 DEF FollowsLog
    <3>2. subAt[s] \in {"barrier", "checkpoint", "ceiling", "fetch", "replay", "live"} =>
            \A e \in log' : e > mark[s] => Owes(s, e)'
      BY <2>2, <2>3, <3>1 DEF SecondFollows
    <3>3. subAt[s] \in {"checkpoint", "ceiling", "fetch", "replay"} \/ (subAt[s] = "live" /\ since[s] > 0) =>
            /\ mark[s] <= SettledCount' /\ (~threaded /\ failedAt' > 0 => mark[s] < failedAt')
            /\ \A e \in log' : e \notin log => e > mark[s]
      BY <1>2, <1>3, <1>4, <2>1, <3>1 DEF SecondFollows
    <3>4. subAt[s] = "fetch" => \A e \in log' : e <= mark[s] => e <= ceiling[s]
      <4> SUFFICES ASSUME subAt[s] = "fetch", NEW e \in log', e <= mark[s] PROVE e <= ceiling[s]
        OBVIOUS
      <4>1. e \in log
        BY <1>2, <2>1, <3>3
      <4> QED  BY <3>1, <4>1 DEF SecondFollows
    <3>5. subAt[s] = "replay" => \A e \in log' : since[s] < e /\ e <= mark[s] => e \in ToSet(rows[s])
      <4> SUFFICES ASSUME subAt[s] = "replay", NEW e \in log', since[s] < e, e <= mark[s]
                   PROVE  e \in ToSet(rows[s])
        OBVIOUS
      <4>1. e \in log
        BY <1>2, <2>1, <3>3
      <4> QED  BY <3>1, <4>1 DEF SecondFollows
    <3>6. subAt[s] = "live" /\ since[s] > 0 =>
            \A e \in log' : since[s] < e /\ e <= mark[s] => e \in ToSet(seen[s])
      BY <1>2, <2>1, <3>1, <3>3 DEF SecondFollows
    <3> QED  BY <1>1, <3>1, <3>2, <3>3, <3>4, <3>5, <3>6 DEF SecondFollows, Owes
  <2> QED  BY <2>5, <2>6, <2>7, <2>8, <2>9 DEF FollowsLog
<1> QED  BY <1>1, <1>5 DEF ChannelInductive

\* The queue holds the events that have not settled.
LEMMA QueueIsUnsettled ==
    ASSUME ChannelInductive
    PROVE  /\ queue \in Seq(Events) /\ Len(queue) \in Nat /\ DOMAIN queue = 1..Len(queue)
           /\ accepted \in Nat /\ SettledCount \in Nat /\ accepted = SettledCount + Len(queue)
           /\ InsertedCount \in Nat /\ SettledCount <= InsertedCount /\ InsertedCount <= SettledCount + 1
           /\ queue # <<>> => Head(queue) = SettledCount + 1
           /\ publishing # "idle" => queue # <<>> /\ failedAt = 0
           /\ publishing = "idle" => InsertedCount = SettledCount
<1>1. queue \in Seq(Events) /\ accepted \in Nat /\ failedAt \in Nat
  BY ChannelAssumption DEF ChannelInductive, ChannelTypeOK
<1>2. Len(queue) \in Nat /\ DOMAIN queue = 1..Len(queue) /\ SettledCount \in Nat /\ accepted = SettledCount + Len(queue)
  BY <1>1 DEF ChannelInductive, PublishedInOrder, SettledCount
<1>3. queue # <<>> => Head(queue) = SettledCount + 1
  BY <1>1, <1>2 DEF ChannelInductive, PublishedInOrder
<1>4. publishing # "idle" => queue # <<>> /\ failedAt = 0
  BY <1>1 DEF ChannelInductive, PublishedInOrder, ChannelTypeOK
<1> QED  BY <1>1, <1>2, <1>3, <1>4 DEF InsertedCount

\* publish: one more event at the end of the queue.
LEMMA PublishPreserves == ChannelInductive /\ Publish => ChannelInductive'
<1> SUFFICES ASSUME ChannelInductive, Publish PROVE ChannelInductive'
  OBVIOUS
<1>0. /\ accepted \in Nat /\ SettledCount \in Nat /\ Len(queue) \in Nat
      /\ accepted = SettledCount + Len(queue) /\ DOMAIN queue = 1..Len(queue) /\ queue \in Seq(Events)
  BY QueueIsUnsettled
<1>1. /\ accepted < EventMax /\ accepted' = accepted + 1 /\ queue' = Append(queue, accepted + 1)
      /\ publishing' = publishing /\ failedAt' = failedAt /\ publishFaults' = publishFaults
      /\ interest' = interest /\ log' = log /\ port' = port /\ subscribers' = subscribers
  BY DEF Publish
<1>2. accepted + 1 \in Events
  BY <1>1, ChannelAssumption DEF ChannelInductive, ChannelTypeOK, Events
<1>3. /\ Len(queue') = Len(queue) + 1 /\ DOMAIN queue' = 1..(Len(queue) + 1) /\ queue' \in Seq(Events)
      /\ \A i \in DOMAIN queue : queue'[i] = queue[i]
      /\ queue'[Len(queue) + 1] = accepted + 1
  BY <1>0, <1>1, <1>2, OneMoreEvent
<1>4. SettledCount' = SettledCount /\ InsertedCount' = InsertedCount
  <2>1. accepted' - Len(queue') = accepted - Len(queue)
    BY <1>0, <1>1, <1>3
  <2> QED  BY <1>1, <2>1 DEF SettledCount, InsertedCount
<1>5. ChannelTypeOK'
  <2>1. accepted' \in 0..EventMax /\ queue' # <<>>
    <3>1. Len(queue') # 0
      BY <1>0, <1>3
    <3>2. Len(<<>>) = 0
      OBVIOUS
    <3>3. queue' # <<>>
      BY <3>1, <3>2
    <3> QED  BY <1>0, <1>1, <1>2, <3>3 DEF Events
  <2> QED  BY <1>1, <1>3, <2>1 DEF ChannelInductive, ChannelTypeOK, subscribers, interest
<1>6. \A i \in DOMAIN queue' : queue'[i] = SettledCount' + i
  <2> SUFFICES ASSUME NEW i \in 1..(Len(queue) + 1) PROVE queue'[i] = SettledCount + i
    BY <1>3, <1>4
  <2>1. CASE i \in DOMAIN queue
    BY <1>3, <2>1 DEF ChannelInductive, PublishedInOrder
  <2>2. CASE i \notin DOMAIN queue
    <3>1. i = Len(queue) + 1 /\ accepted + 1 = SettledCount + i
      BY <1>0, <2>2
    <3> QED  BY <1>3, <3>1
  <2> QED  BY <2>1, <2>2
<1>7. PublishedInOrder'
  BY <1>1, <1>4, <1>6 DEF ChannelInductive, PublishedInOrder
<1>8. LogMoves
  BY <1>1, <1>4, QueueIsUnsettled DEF LogMoves, interest
<1> QED  BY <1>1, <1>5, <1>7, <1>8, LogMovesOn DEF ChannelInductive

\* A callback of the queue begins, or has asked whether to persist.
LEMMA PublishWaitsPreserves ==
    ASSUME ChannelInductive, publishing' \in {"interest", "persist"}, queue # <<>>, failedAt = 0,
           publishing # "dispatch",
           UNCHANGED <<accepted, queue, failedAt, publishFaults, interest, log, port, subscribers>>
    PROVE  ChannelInductive'
<1>1. SettledCount' = SettledCount /\ InsertedCount' = InsertedCount
  BY DEF SettledCount, InsertedCount
<1>2. ChannelTypeOK'
  BY DEF ChannelInductive, ChannelTypeOK, subscribers, interest
<1>3. PublishedInOrder'
  BY <1>1 DEF ChannelInductive, PublishedInOrder
<1>4. LogMoves
  BY <1>1, QueueIsUnsettled DEF LogMoves, interest
<1> QED  BY <1>2, <1>3, <1>4, LogMovesOn DEF ChannelInductive

\* An event is dispatched: it leaves the queue for the port.
LEMMA DispatchPreserves ==
    ASSUME ChannelInductive, Dispatched, publishing \in {"interest", "dispatch"},
           UNCHANGED <<accepted, failedAt, publishFaults, interest, log, subscribers>>
    PROVE  ChannelInductive'
<1>1. queue # <<>> /\ failedAt = 0
  BY QueueIsUnsettled
<1>2. PICK e : e = Head(queue)
  OBVIOUS
<1>3. /\ port' = Append(port, e) /\ queue' = Tail(queue) /\ publishing' = "idle" /\ log' = log
      /\ accepted' = accepted /\ failedAt' = failedAt
  BY <1>2 DEF Dispatched
<1>4. /\ e \in Events /\ queue' \in Seq(Events) /\ Len(queue') = Len(queue) - 1 /\ e = SettledCount + 1
      /\ DOMAIN queue' = 1..(Len(queue) - 1)
      /\ \A i \in DOMAIN queue' : i + 1 \in DOMAIN queue /\ queue'[i] = queue[i + 1]
  BY <1>1, <1>2, <1>3, QueueIsUnsettled, RestOfEvents
<1>5. SettledCount' = SettledCount + 1 /\ InsertedCount' = SettledCount + 1
  BY <1>3, <1>4, QueueIsUnsettled DEF SettledCount, InsertedCount
<1>6. port' \in Seq(Events) /\ ToSet(port') = ToSet(port) \cup {e}
  BY <1>3, <1>4, OneMoreEvent DEF ChannelInductive, ChannelTypeOK
<1>7. ChannelTypeOK'
  BY <1>3, <1>4, <1>6 DEF ChannelInductive, ChannelTypeOK, subscribers, interest
<1>8. \A i \in DOMAIN queue' : queue'[i] = SettledCount' + i
  <2> SUFFICES ASSUME NEW i \in DOMAIN queue' PROVE queue'[i] = SettledCount + 1 + i
    BY <1>5
  <2>1. i + 1 \in DOMAIN queue /\ queue'[i] = queue[i + 1] /\ i \in Nat
    BY <1>4
  <2>2. queue[i + 1] = SettledCount + (i + 1)
    BY <2>1 DEF ChannelInductive, PublishedInOrder
  <2> QED  BY <2>1, <2>2, QueueIsUnsettled
<1>9. log \subseteq 1..InsertedCount /\ ToSet(port) \subseteq 1..SettledCount
  BY DEF ChannelInductive, PublishedInOrder
<1>10. log' \subseteq 1..InsertedCount' /\ ToSet(port') \subseteq 1..SettledCount'
  BY <1>3, <1>4, <1>5, <1>6, <1>9, QueueIsUnsettled
<1>11. PublishedInOrder'
  BY <1>1, <1>3, <1>5, <1>8, <1>10, QueueIsUnsettled DEF PublishedInOrder
<1>12. \A x \in log : x > SettledCount => x > SettledCount' \/ x \in ToSet(port')
  <2> SUFFICES ASSUME NEW x \in log, x > SettledCount PROVE x = e
    BY <1>6
  <2> QED  BY <1>4, <1>9, QueueIsUnsettled
<1>13. LogMoves
  BY <1>3, <1>5, <1>6, <1>12, QueueIsUnsettled DEF LogMoves, interest
<1> QED  BY <1>1, <1>3, <1>7, <1>11, <1>13, LogMovesOn

\* appendEvent: the head of the queue is the highest row of the log.
LEMMA PersistedPreserves == ChannelInductive /\ PublishPersisted => ChannelInductive'
<1> SUFFICES ASSUME ChannelInductive, PublishPersisted PROVE ChannelInductive'
  OBVIOUS
<1>1. PICK e : e = Head(queue)
  OBVIOUS
<1>2. /\ publishing = "persist" /\ log' = log \cup {e} /\ publishing' = "dispatch"
      /\ accepted' = accepted /\ queue' = queue /\ failedAt' = failedAt /\ publishFaults' = publishFaults
      /\ interest' = interest /\ port' = port /\ subscribers' = subscribers
  BY <1>1 DEF PublishPersisted
<1>3. queue # <<>> /\ failedAt = 0 /\ e = SettledCount + 1 /\ InsertedCount = SettledCount
  BY <1>1, <1>2, QueueIsUnsettled DEF InsertedCount
<1>4. e \in Events
  BY <1>1, <1>3, QueueIsUnsettled, RestOfEvents
<1>5. SettledCount' = SettledCount /\ InsertedCount' = SettledCount + 1
  BY <1>2 DEF SettledCount, InsertedCount
<1>6. ChannelTypeOK'
  BY <1>2, <1>3, <1>4 DEF ChannelInductive, ChannelTypeOK, subscribers, interest
<1>7. log' \subseteq 1..InsertedCount'
  <2>1. log \subseteq 1..SettledCount
    BY <1>3 DEF ChannelInductive, PublishedInOrder
  <2>2. log \cup {e} \subseteq 1..(SettledCount + 1)
    <3>1. SettledCount \in Nat
      BY QueueIsUnsettled
    <3>2. \A n \in Nat : 1..n \subseteq 1..(n + 1) /\ n + 1 \in 1..(n + 1)
      OBVIOUS
    <3> QED  BY <1>3, <2>1, <3>1, <3>2
  <2> QED  BY <1>2, <1>5, <2>2
<1>8. PublishedInOrder'
  BY <1>2, <1>3, <1>5, <1>7 DEF ChannelInductive, PublishedInOrder
<1>9. LogMoves
  BY <1>2, <1>3, <1>5, QueueIsUnsettled DEF LogMoves, interest
<1> QED  BY <1>2, <1>3, <1>6, <1>8, <1>9, LogMovesOn

\* A publish fails: it settles, and nothing after it does.
LEMMA PublishFailsPreserves == ChannelInductive /\ PublishFails => ChannelInductive'
<1> SUFFICES ASSUME ChannelInductive, PublishFails PROVE ChannelInductive'
  OBVIOUS
<1>0. PICK e : e = Head(queue)
  OBVIOUS
<1>1. /\ publishing \in {"interest", "persist", "dispatch"} /\ publishFaults < PublishFaults
      /\ publishFaults' = publishFaults + 1 /\ failedAt' = e /\ queue' = Tail(queue)
      /\ publishing' = "idle" /\ accepted' = accepted /\ interest' = interest
      /\ log' = log /\ port' \in {port, Append(port, e)} /\ subscribers' = subscribers
  BY <1>0 DEF PublishFails
<1>2. queue # <<>> /\ failedAt = 0 /\ e = SettledCount + 1
  BY <1>0, <1>1, QueueIsUnsettled
<1>3. /\ e \in Events /\ queue' \in Seq(Events) /\ Len(queue') = Len(queue) - 1
      /\ DOMAIN queue' = 1..(Len(queue) - 1)
      /\ \A i \in DOMAIN queue' : i + 1 \in DOMAIN queue /\ queue'[i] = queue[i + 1]
  BY <1>0, <1>1, <1>2, QueueIsUnsettled, RestOfEvents
<1>4. SettledCount' = SettledCount + 1 /\ InsertedCount' = SettledCount + 1
  BY <1>1, <1>3, QueueIsUnsettled DEF SettledCount, InsertedCount
<1>5. port' \in Seq(Events) /\ ToSet(port) \subseteq ToSet(port') /\ ToSet(port') \subseteq ToSet(port) \cup {e}
  <2>1. port \in Seq(Events)
    BY DEF ChannelInductive, ChannelTypeOK
  <2>2. Append(port, e) \in Seq(Events) /\ ToSet(Append(port, e)) = ToSet(port) \cup {e}
    BY <1>3, <2>1, OneMoreEvent
  <2> QED  BY <1>1, <2>1, <2>2
<1>6. failedAt' \in 0..EventMax /\ publishFaults' \in 0..PublishFaults
  BY <1>1, <1>3, ChannelAssumption DEF ChannelInductive, ChannelTypeOK, Events
<1>7. ChannelTypeOK'
  BY <1>1, <1>3, <1>5, <1>6 DEF ChannelInductive, ChannelTypeOK, subscribers, interest
<1>8. \A i \in DOMAIN queue' : queue'[i] = SettledCount' + i
  <2> SUFFICES ASSUME NEW i \in DOMAIN queue' PROVE queue'[i] = SettledCount + 1 + i
    BY <1>4
  <2>1. i + 1 \in DOMAIN queue /\ queue'[i] = queue[i + 1] /\ i \in Nat
    BY <1>3
  <2>2. queue[i + 1] = SettledCount + (i + 1)
    BY <2>1 DEF ChannelInductive, PublishedInOrder
  <2> QED  BY <2>1, <2>2, QueueIsUnsettled
<1>9. log \subseteq 1..InsertedCount /\ ToSet(port) \subseteq 1..SettledCount
  BY DEF ChannelInductive, PublishedInOrder
<1>10. log' \subseteq 1..InsertedCount' /\ ToSet(port') \subseteq 1..SettledCount'
  BY <1>1, <1>2, <1>4, <1>5, <1>9, QueueIsUnsettled
<1>11. PublishedInOrder'
  <2>1. SettledCount' \in Nat
    BY <1>4, QueueIsUnsettled
  <2>2. publishing' = "idle" /\ failedAt' = SettledCount'
    BY <1>1, <1>2, <1>4
  <2> QED  BY <1>8, <1>10, <2>1, <2>2 DEF PublishedInOrder
<1>12. \A x \in log' \cup ToSet(port') : x <= failedAt'
  <2>1. failedAt' = SettledCount' /\ failedAt' = InsertedCount' /\ SettledCount' \in Nat
    BY <1>1, <1>2, <1>4, QueueIsUnsettled
  <2> QED  BY <1>10, <2>1
<1>13. \A x \in log : x > SettledCount => x = failedAt'
  <2> SUFFICES ASSUME NEW x \in log, x > SettledCount PROVE x = e
    BY <1>1
  <2> QED  BY <1>2, <1>9, QueueIsUnsettled
<1>14. LogMoves
  <2>1. /\ subscribers' = subscribers /\ threaded' = threaded /\ log' = log
        /\ failedAt = 0 /\ failedAt' = SettledCount + 1
    BY <1>1, <1>2 DEF interest
  <2>2. /\ SettledCount' \in Nat /\ SettledCount <= SettledCount' /\ InsertedCount <= InsertedCount'
    BY <1>4, QueueIsUnsettled
  <2> QED  BY <1>5, <1>13, <2>1, <2>2 DEF LogMoves
<1> QED  BY <1>7, <1>11, <1>12, <1>14, LogMovesOn

\* The log loses rows only from here on.
LEMMA CleanupPreserves == ChannelInductive /\ Cleanup => ChannelInductive'
<1> SUFFICES ASSUME ChannelInductive, Cleanup PROVE ChannelInductive'
  OBVIOUS
<1>1. log' \subseteq log /\ UNCHANGED <<publisher, interest, port, subscribers>>
  BY DEF Cleanup
<1>2. SettledCount' = SettledCount /\ InsertedCount' = InsertedCount
  BY <1>1 DEF SettledCount, InsertedCount, publisher
<1>3. ChannelTypeOK' /\ PublishedInOrder'
  BY <1>1, <1>2 DEF ChannelInductive, ChannelTypeOK, PublishedInOrder, publisher, subscribers, interest
<1>4. LogMoves
  BY <1>1, <1>2, QueueIsUnsettled DEF LogMoves, publisher, interest
<1> QED  BY <1>1, <1>3, <1>4, LogMovesOn DEF ChannelInductive, publisher

\* What lapses and what others mark says nothing of the log.
LEMMA InterestPreserves == ChannelInductive /\ InterestChanges => ChannelInductive'
<1> SUFFICES ASSUME ChannelInductive, InterestChanges PROVE ChannelInductive'
  OBVIOUS
<1>1. /\ UNCHANGED <<publisher, threaded, log, port, subscribers>>
      /\ mapped' \in {"empty", "others", "channel"} /\ recorded' \in BOOLEAN
  BY DEF InterestChanges, ChannelInductive, ChannelTypeOK
<1>2. SettledCount' = SettledCount /\ InsertedCount' = InsertedCount
  BY <1>1 DEF SettledCount, InsertedCount, publisher
<1>3. ChannelTypeOK' /\ PublishedInOrder'
  BY <1>1, <1>2 DEF ChannelInductive, ChannelTypeOK, PublishedInOrder, publisher, subscribers
<1>4. LogMoves
  BY <1>1, <1>2, QueueIsUnsettled DEF LogMoves, publisher
<1> QED  BY <1>1, <1>3, <1>4, LogMovesOn DEF ChannelInductive, publisher

\* Publishing, step by step.
LEMMA PublishingPreserves ==
    ASSUME ChannelInductive, PublishStep \/ Cleanup \/ InterestChanges
    PROVE  ChannelInductive'
<1>1. CASE PublishBegins
  BY <1>1, PublishWaitsPreserves DEF PublishBegins
<1>2. CASE PublishChecked
  <2>1. CASE Interested
    BY <1>2, <2>1, PublishWaitsPreserves, QueueIsUnsettled DEF PublishChecked
  <2>2. CASE ~Interested
    BY <1>2, <2>2, DispatchPreserves DEF PublishChecked
  <2> QED  BY <2>1, <2>2
<1>3. CASE PublishReturns
  BY <1>3, DispatchPreserves DEF PublishReturns
<1> QED  BY <1>1, <1>2, <1>3, PublishPreserves, PersistedPreserves, PublishFailsPreserves,
            CleanupPreserves, InterestPreserves DEF PublishStep

\* A listener that goes on at the end of a longer list is still in order.
LEMMA SetOfMore ==
    ASSUME ChannelInductive, NEW s \in ChannelSubs, NEW e \in Events
    PROVE  /\ seen[s] \in Seq(Events) /\ rows[s] \in Seq(Events)
           /\ Append(seen[s], e) \in Seq(Events) /\ ToSet(Append(seen[s], e)) = ToSet(seen[s]) \cup {e}
BY OneMoreEvent DEF ChannelInductive

\* The port hands over its first event: to those who listen, to nobody who
\* replays, and past those who are about to register.
LEMMA DeliverPreserves == ChannelInductive /\ Deliver => ChannelInductive'
<1> SUFFICES ASSUME ChannelInductive, Deliver PROVE ChannelInductive'
  OBVIOUS
<1>1. PICK e : e = Head(port)
  OBVIOUS
<1>2. /\ port # <<>> /\ port' = Tail(port)
      /\ seen' = [s \in ChannelSubs |-> IF Listens(s) /\ ~Replaying(s) THEN Append(seen[s], e) ELSE seen[s]]
      /\ buffered' = buffered \cup {s \in First : Replaying(s)}
      /\ passed' = [s \in ChannelSubs |-> IF subAt[s] = "register" THEN passed[s] \cup {e} ELSE passed[s]]
      /\ accepted' = accepted /\ queue' = queue /\ publishing' = publishing /\ failedAt' = failedAt
      /\ publishFaults' = publishFaults /\ threaded' = threaded /\ mapped' = mapped /\ recorded' = recorded /\ log' = log /\ subAt' = subAt
      /\ since' = since /\ ceiling' = ceiling /\ rows' = rows /\ mark' = mark
  BY <1>1 DEF Deliver, publisher, interest
<1>3. /\ e \in Events /\ e \in ToSet(port) /\ port' \in Seq(Events)
      /\ ToSet(port) = ToSet(port') \cup {e}
  BY <1>1, <1>2, RestOfEvents DEF ChannelInductive, ChannelTypeOK
<1>4. SettledCount' = SettledCount /\ InsertedCount' = InsertedCount
  BY <1>2 DEF SettledCount, InsertedCount
<1>5. e \in 1..SettledCount /\ e \in 1..InsertedCount /\ ToSet(port') \subseteq 1..SettledCount /\ (failedAt > 0 => e <= failedAt)
  <2>1. e \in 1..SettledCount /\ ToSet(port') \subseteq 1..SettledCount
    BY <1>3 DEF ChannelInductive, PublishedInOrder
  <2> QED  BY <1>3, <2>1, QueueIsUnsettled DEF ChannelInductive
<1>6. PublishedInOrder' /\ (failedAt' > 0 => \A x \in log' \cup ToSet(port') : x <= failedAt')
  BY <1>2, <1>3, <1>4, <1>5 DEF ChannelInductive, PublishedInOrder
<1>7. ASSUME NEW s \in ChannelSubs
      PROVE  /\ seen'[s] \in Seq(Events) /\ passed'[s] \in SUBSET Events
             /\ (Listens(s) /\ ~Replaying(s) /\ ToSet(seen'[s]) = ToSet(seen[s]) \cup {e})
                \/ (~(Listens(s) /\ ~Replaying(s)) /\ seen'[s] = seen[s])
             /\ passed[s] \subseteq passed'[s] /\ (subAt[s] = "register" => e \in passed'[s])
             /\ s \in First /\ Replaying(s) => s \in buffered'
             /\ s \in buffered => s \in buffered'
  BY <1>2, <1>3, SetOfMore DEF ChannelInductive, ChannelTypeOK
<1>8. /\ seen' \in [ChannelSubs -> Seq(Events)] /\ passed' \in [ChannelSubs -> SUBSET Events]
      /\ buffered' \subseteq First
  <2>1. buffered' \subseteq First
    BY <1>2 DEF ChannelInductive, ChannelTypeOK
  <2>2. /\ seen' = [s \in ChannelSubs |-> seen'[s]] /\ passed' = [s \in ChannelSubs |-> passed'[s]]
    BY <1>2
  <2> QED  BY <1>7, <2>1, <2>2
<1>9. ChannelTypeOK'
  BY <1>2, <1>3, <1>8 DEF ChannelInductive, ChannelTypeOK
<1>10. ASSUME NEW s \in ChannelSubs PROVE FollowsLog(s)'
  <2>1. FollowsLog(s) /\ ToSet(seen'[s]) \subseteq ToSet(seen[s]) \cup {e} /\ ToSet(seen[s]) \subseteq ToSet(seen'[s])
    BY <1>7 DEF ChannelInductive
  <2>2. ToSet(rows'[s]) \cup ToSet(seen'[s]) \subseteq 1..InsertedCount'
    BY <1>2, <1>4, <1>5, <2>1 DEF FollowsLog
  <2>3. failedAt' > 0 => \A x \in ToSet(rows'[s]) \cup ToSet(seen'[s]) : x <= failedAt'
    BY <1>2, <1>5, <2>1 DEF FollowsLog
  <2>4. Listens(s) /\ ~Replaying(s) => \A x \in log : Owes(s, x) => Owes(s, x)'
    BY <1>2, <1>3, <1>4, <1>7 DEF Owes
  <2>5. ASSUME s \in Second PROVE SecondFollows(s)'
    <3>1. SecondFollows(s) /\ ~Replaying(s)
      BY <2>1, <2>5, ChannelAssumption DEF FollowsLog, Replaying
    <3>2. subAt[s] \in {"barrier", "checkpoint", "ceiling", "fetch", "replay", "live"} => Listens(s)
      BY <2>5 DEF Listens
    <3>3. subAt[s] \in {"barrier", "checkpoint", "ceiling", "fetch", "replay", "live"} =>
            \A x \in log : x > mark[s] => Owes(s, x)'
      BY <2>4, <3>1, <3>2 DEF SecondFollows
    <3> QED  BY <1>2, <1>4, <2>1, <3>1, <3>3 DEF SecondFollows
  <2>6. ASSUME s \in First PROVE FirstFollows(s)'
    <3>1. FirstFollows(s)
      BY <2>1, <2>6 DEF FollowsLog
    <3>2. s \notin Second
      BY <2>6, ChannelAssumption
    <3>3. subAt[s] \in {"refetch", "resend", "live"} => Listens(s) /\ ~Replaying(s)
      BY <3>2 DEF Listens, Replaying
    <3>4. subAt[s] \in {"none", "mark", "checkpoint", "ceiling", "register", "fetch", "gap", "replay"} =>
            seen'[s] = seen[s]
      BY <1>7, <2>6, <3>2 DEF Listens, Replaying
    <3>5. subAt[s] \in {"register", "fetch", "replay"} =>
            \A x \in log : x > ceiling[s] =>
                x > SettledCount \/ x \in ToSet(port') \/ x = failedAt \/ x \in passed'[s] \/ s \in buffered'
      <4> SUFFICES ASSUME subAt[s] \in {"register", "fetch", "replay"}, NEW x \in log, x > ceiling[s]
                   PROVE  x > SettledCount \/ x \in ToSet(port') \/ x = failedAt \/ x \in passed'[s] \/ s \in buffered'
        OBVIOUS
      <4>1. x > SettledCount \/ x \in ToSet(port) \/ x = failedAt \/ x \in passed[s] \/ s \in buffered
        BY <3>1 DEF FirstFollows
      <4>2. x = e => x \in passed'[s] \/ s \in buffered'
        BY <1>7, <2>6 DEF Replaying
      <4> QED  BY <1>3, <1>7, <4>1, <4>2
    <3>6. subAt[s] = "resend" =>
            \A x \in log : x > ceiling[s] => Owes(s, x)' \/ x \in ToSet(rows[s])
      BY <2>4, <3>1, <3>3 DEF FirstFollows
    <3>7. subAt[s] = "live" /\ since[s] > 0 =>
            \A x \in log : x > since[s] => Owes(s, x)' \/ x \in passed'[s]
      BY <1>7, <2>4, <3>1, <3>3 DEF FirstFollows
    <3>8. /\ subAt[s] \in {"none", "mark", "checkpoint", "ceiling", "register", "fetch", "gap"} => seen'[s] = <<>>
          /\ subAt[s] = "replay" =>
                /\ \A x \in log : since[s] < x /\ x <= ceiling[s] => x \in ToSet(rows[s]) \cup ToSet(seen'[s])
                /\ Increasing(seen'[s]) /\ Increasing(rows[s])
                /\ \A i \in DOMAIN seen'[s], k \in DOMAIN rows[s] : seen'[s][i] < rows[s][k]
      BY <3>1, <3>4 DEF FirstFollows
    <3>9. subAt[s] \in {"refetch", "resend"} =>
            \A x \in log : since[s] < x /\ x <= ceiling[s] => x \in ToSet(seen'[s])
      BY <2>1, <3>1 DEF FirstFollows
    <3>10. subAt[s] \in {"none", "mark", "checkpoint", "ceiling", "register", "fetch", "replay",
                         "refetch", "resend", "live", "gap"}
      BY <3>1 DEF FirstFollows
    <3> QED  BY <1>2, <1>4, <3>5, <3>6, <3>7, <3>8, <3>9, <3>10 DEF FirstFollows, Increasing
  <2> QED  BY <1>2, <1>4, <2>1, <2>2, <2>3, <2>5, <2>6 DEF FollowsLog
<1> QED  BY <1>2, <1>6, <1>8, <1>9, <1>10 DEF ChannelInductive

\* A step of one subscriber leaves the others as they are.
OnlyOf(s) ==
    /\ UNCHANGED <<publisher, threaded, log, port, buffered, passed>>
    /\ \A u \in ChannelSubs \ {s} :
          /\ subAt'[u] = subAt[u] /\ since'[u] = since[u] /\ ceiling'[u] = ceiling[u]
          /\ rows'[u] = rows[u] /\ mark'[u] = mark[u] /\ seen'[u] = seen[u]

\* What one subscriber does keeps the invariant, if that subscriber follows the log.
LEMMA OneFollows ==
    ASSUME ChannelInductive, ChannelTypeOK', NEW s \in ChannelSubs, OnlyOf(s), FollowsLog(s)',
           rows' \in [ChannelSubs -> Seq(Events)], seen' \in [ChannelSubs -> Seq(Events)]
    PROVE  ChannelInductive'
<1>1. /\ accepted' = accepted /\ queue' = queue /\ publishing' = publishing /\ failedAt' = failedAt
      /\ log' = log /\ port' = port /\ buffered' = buffered /\ passed' = passed /\ threaded' = threaded
  BY DEF OnlyOf, publisher
<1>2. SettledCount' = SettledCount /\ InsertedCount' = InsertedCount
  BY <1>1 DEF SettledCount, InsertedCount
<1>3. ASSUME NEW u \in ChannelSubs, u # s PROVE FollowsLog(u)'
  <2>1. /\ subAt'[u] = subAt[u] /\ since'[u] = since[u] /\ ceiling'[u] = ceiling[u]
        /\ rows'[u] = rows[u] /\ mark'[u] = mark[u] /\ seen'[u] = seen[u] /\ FollowsLog(u)
    BY <1>3 DEF OnlyOf, ChannelInductive
  <2>2. \A e \in log : Owes(u, e)' = Owes(u, e)
    BY <1>1, <1>2, <2>1 DEF Owes
  <2>3. u \in First => FirstFollows(u)'
    BY <1>1, <1>2, <2>1, <2>2 DEF FollowsLog, FirstFollows, Increasing
  <2>4. u \in Second => SecondFollows(u)'
    BY <1>1, <1>2, <2>1, <2>2 DEF FollowsLog, SecondFollows
  <2> QED  BY <1>1, <1>2, <2>1, <2>3, <2>4 DEF FollowsLog
<1>4. PublishedInOrder' /\ (failedAt' > 0 => \A e \in log' \cup ToSet(port') : e <= failedAt')
  BY <1>1, <1>2 DEF ChannelInductive, PublishedInOrder
<1> QED  BY <1>3, <1>4 DEF ChannelInductive

\* The interest may change, the mode does not.
InterestMoves ==
    /\ threaded' = threaded /\ mapped' \in {"empty", "others", "channel"} /\ recorded' \in BOOLEAN

\* What a step of a subscriber leaves alone, and where it goes.
MovesTo(s, where) ==
    /\ s \in ChannelSubs /\ UNCHANGED <<publisher, log, port, buffered, passed>>
    /\ subAt' = [subAt EXCEPT ![s] = where] /\ InterestMoves

\* What is known of a subscriber that takes a step, before and after it.
LEMMA MovesOn ==
    ASSUME ChannelInductive, NEW s, NEW where, MovesTo(s, where)
    PROVE  /\ accepted' = accepted /\ queue' = queue /\ publishing' = publishing /\ failedAt' = failedAt
           /\ publishFaults' = publishFaults /\ log' = log /\ port' = port /\ buffered' = buffered
           /\ passed' = passed /\ threaded' = threaded /\ subAt'[s] = where /\ \A u \in ChannelSubs \ {s} : subAt'[u] = subAt[u]
           /\ SettledCount' = SettledCount /\ InsertedCount' = InsertedCount /\ failedAt \in Nat
           /\ FollowsLog(s) /\ (s \in First => FirstFollows(s)) /\ (s \in Second => SecondFollows(s))
           /\ ~(s \in First /\ s \in Second) /\ (s \in First \/ s \in Second)
           /\ since[s] \in Nat /\ ceiling[s] \in Nat /\ mark[s] \in Nat
           /\ rows[s] \in Seq(Events) /\ seen[s] \in Seq(Events)
<1>1. /\ accepted' = accepted /\ queue' = queue /\ publishing' = publishing /\ failedAt' = failedAt
      /\ publishFaults' = publishFaults /\ log' = log /\ port' = port /\ buffered' = buffered /\ passed' = passed
      /\ s \in ChannelSubs /\ threaded' = threaded
  BY DEF MovesTo, InterestMoves, publisher
<1>2. subAt'[s] = where /\ \A u \in ChannelSubs \ {s} : subAt'[u] = subAt[u]
  BY DEF MovesTo, ChannelInductive, ChannelTypeOK
<1>3. SettledCount' = SettledCount /\ InsertedCount' = InsertedCount
  BY <1>1 DEF SettledCount, InsertedCount
<1>4. FollowsLog(s) /\ (s \in First => FirstFollows(s)) /\ (s \in Second => SecondFollows(s))
  BY <1>1 DEF ChannelInductive, FollowsLog
<1>5. ~(s \in First /\ s \in Second) /\ (s \in First \/ s \in Second)
  BY <1>1, ChannelAssumption DEF ChannelSubs
<1>6. since[s] \in Nat /\ ceiling[s] \in Nat /\ mark[s] \in Nat /\ failedAt \in Nat
  BY <1>1, ChannelAssumption DEF ChannelInductive, ChannelTypeOK
<1>7. rows[s] \in Seq(Events) /\ seen[s] \in Seq(Events)
  BY <1>1 DEF ChannelInductive
<1> QED  BY <1>1, <1>2, <1>3, <1>4, <1>5, <1>6, <1>7

\* Where a subscribe handler can be.
Places == {"none", "hook", "hook2", "mark", "barrier", "checkpoint", "ceiling", "register", "fetch",
           "replay", "refetch", "resend", "live", "gap", "failed"}

\* The step of one subscriber: its types, and what it then follows.
LEMMA StepFollows ==
    ASSUME ChannelInductive, NEW s, NEW where \in Places, MovesTo(s, where), FollowsLog(s)',
           NEW since1 \in 0..EventMax, since' = [since EXCEPT ![s] = since1],
           NEW ceiling1 \in 0..EventMax, ceiling' = [ceiling EXCEPT ![s] = ceiling1],
           NEW mark1 \in 0..EventMax, mark' = [mark EXCEPT ![s] = mark1],
           NEW rows1 \in Seq(Events), rows' = [rows EXCEPT ![s] = rows1],
           NEW seen1 \in Seq(Events), seen' = [seen EXCEPT ![s] = seen1]
    PROVE  ChannelInductive'
<1>1. /\ since' \in [ChannelSubs -> 0..EventMax] /\ ceiling' \in [ChannelSubs -> 0..EventMax]
      /\ mark' \in [ChannelSubs -> 0..EventMax] /\ rows' \in [ChannelSubs -> Seq(Events)]
      /\ seen' \in [ChannelSubs -> Seq(Events)] /\ subAt' \in [ChannelSubs -> Places]
      /\ \A u \in ChannelSubs \ {s} :
            /\ since'[u] = since[u] /\ ceiling'[u] = ceiling[u]
            /\ rows'[u] = rows[u] /\ mark'[u] = mark[u] /\ seen'[u] = seen[u]
  BY DEF ChannelInductive, ChannelTypeOK, MovesTo, Places
<1>2. /\ accepted' = accepted /\ queue' = queue /\ publishing' = publishing /\ failedAt' = failedAt
      /\ publishFaults' = publishFaults /\ log' = log /\ port' = port /\ buffered' = buffered
      /\ passed' = passed /\ threaded' = threaded /\ \A u \in ChannelSubs \ {s} : subAt'[u] = subAt[u]
  BY MovesOn
<1>3. OnlyOf(s)
  BY <1>1, <1>2 DEF OnlyOf, publisher
<1>4. /\ accepted \in 0..EventMax /\ queue \in Seq(Events)
      /\ publishing \in {"idle", "interest", "persist", "dispatch"}
      /\ (publishing # "idle" => queue # <<>>)
      /\ failedAt \in 0..EventMax /\ log \subseteq Events /\ port \in Seq(Events)
      /\ buffered \subseteq First /\ passed \in [ChannelSubs -> SUBSET Events]
      /\ publishFaults \in 0..PublishFaults /\ threaded' \in BOOLEAN
      /\ mapped' \in {"empty", "others", "channel"} /\ recorded' \in BOOLEAN
  BY DEF ChannelInductive, ChannelTypeOK, MovesTo, InterestMoves
<1>5. ChannelTypeOK'
  BY <1>1, <1>2, <1>4 DEF ChannelTypeOK, Places
<1> QED  BY <1>1, <1>3, <1>5, OneFollows DEF MovesTo

\* A step that changes the place alone.
LEMMA PlaceFollows ==
    ASSUME ChannelInductive, NEW s, NEW where \in Places, MovesTo(s, where), FollowsLog(s)',
           UNCHANGED <<since, ceiling, mark, rows, seen>>
    PROVE  ChannelInductive'
<1>1. s \in ChannelSubs
  BY DEF MovesTo
<1>2. /\ since[s] \in 0..EventMax /\ ceiling[s] \in 0..EventMax /\ mark[s] \in 0..EventMax
      /\ rows[s] \in Seq(Events) /\ seen[s] \in Seq(Events)
      /\ since = [since EXCEPT ![s] = since[s]] /\ ceiling = [ceiling EXCEPT ![s] = ceiling[s]]
      /\ mark = [mark EXCEPT ![s] = mark[s]] /\ rows = [rows EXCEPT ![s] = rows[s]]
      /\ seen = [seen EXCEPT ![s] = seen[s]]
  BY <1>1 DEF ChannelInductive, ChannelTypeOK
<1> QED  BY <1>2, StepFollows

\* A subscriber asks.
LEMMA AskPreserves ==
    ASSUME ChannelInductive, NEW s \in ChannelSubs, NEW e \in 0..EventMax, AsksFirst(s, e) \/ AsksSecond(s, e)
    PROVE  ChannelInductive'
<1>1. PICK where \in {"mark", "hook"} :
          /\ where = IF s \in First THEN "mark" ELSE "hook"
          /\ subAt[s] = "none" /\ e <= SettledCount /\ since' = [since EXCEPT ![s] = e]
          /\ subAt' = [subAt EXCEPT ![s] = where]
          /\ UNCHANGED <<publisher, interest, log, port, ceiling, rows, mark, buffered, seen, passed>>
  BY ChannelAssumption DEF AsksFirst, AsksSecond, At, SettledCount
<1>2. MovesTo(s, where)
  BY <1>1 DEF MovesTo, InterestMoves, interest, ChannelInductive, ChannelTypeOK
<1>3. /\ subAt'[s] = where /\ since'[s] = e /\ ceiling'[s] = ceiling[s] /\ rows'[s] = rows[s]
      /\ mark'[s] = mark[s] /\ seen'[s] = seen[s]
  BY <1>1 DEF ChannelInductive, ChannelTypeOK
<1>4. s \in First => FirstFollows(s)'
  BY <1>1, <1>2, <1>3, MovesOn DEF FirstFollows
<1>5. s \in Second => SecondFollows(s)'
  BY <1>1, <1>2, <1>3, MovesOn DEF SecondFollows
<1>6. FollowsLog(s)'
  BY <1>1, <1>2, <1>3, <1>4, <1>5, MovesOn DEF FollowsLog
<1>7. /\ ceiling[s] \in 0..EventMax /\ mark[s] \in 0..EventMax
      /\ rows[s] \in Seq(Events) /\ seen[s] \in Seq(Events)
      /\ ceiling' = [ceiling EXCEPT ![s] = ceiling[s]] /\ mark' = [mark EXCEPT ![s] = mark[s]]
      /\ rows' = [rows EXCEPT ![s] = rows[s]] /\ seen' = [seen EXCEPT ![s] = seen[s]]
  BY <1>1 DEF ChannelInductive, ChannelTypeOK
<1> QED  BY <1>1, <1>2, <1>6, <1>7, StepFollows DEF Places

\* A handler goes on with what it has: markChannelInterested, canSubscribe, the
\* barrier, the look for the checkpoint, the registration, the end of a replay.
LEMMA HandlerPreserves ==
    ASSUME ChannelInductive, NEW s \in ChannelSubs,
           \/ Marked(s) \/ Allowed(s) \/ BarrierPassed(s) \/ CheckpointRead(s)
           \/ RegisteredFirst(s) \/ ReplayFinished(s) \/ HeldBackSent(s)
    PROVE  ChannelInductive'
<1>1. /\ UNCHANGED <<publisher, log, port, since, ceiling, rows, mark, buffered, seen, passed>>
      /\ InterestMoves
  BY DEF Marked, Allowed, BarrierPassed, CheckpointRead, RegisteredFirst, ReplayFinished,
         HeldBackSent, MarksChannel, InterestMoves, interest, ChannelInductive, ChannelTypeOK
<1>2. ASSUME NEW where \in Places, subAt' = [subAt EXCEPT ![s] = where],
             MovesTo(s, where) /\ subAt'[s] = where => FollowsLog(s)'
      PROVE  ChannelInductive'
  <2>1. MovesTo(s, where) /\ subAt'[s] = where
    BY <1>1, <1>2, MovesOn DEF MovesTo
  <2> QED  BY <1>1, <1>2, <2>1, PlaceFollows
<1>3. ASSUME NEW where, MovesTo(s, where), subAt'[s] = where,
             s \in First => FirstFollows(s)', s \in Second => SecondFollows(s)'
      PROVE  FollowsLog(s)'
  BY <1>1, <1>3, MovesOn DEF FollowsLog
<1>4. CASE Marked(s)
  <2>1. PICK where \in {"live", "checkpoint"} :
            /\ where = IF since[s] = 0 THEN "live" ELSE "checkpoint"
            /\ subAt[s] = "mark" /\ subAt' = [subAt EXCEPT ![s] = where]
    BY <1>4 DEF Marked, At
  <2>2. ASSUME MovesTo(s, where), subAt'[s] = where PROVE FollowsLog(s)'
    <3>1. s \in First => FirstFollows(s)'
      BY <1>1, <2>1, <2>2, MovesOn DEF FirstFollows
    <3>2. s \notin Second
      BY <2>1, <2>2, MovesOn DEF SecondFollows
    <3> QED  BY <1>3, <2>2, <3>1, <3>2
  <2> QED  BY <1>2, <2>1, <2>2 DEF Places
<1>5. CASE Allowed(s)
  <2>1. subAt[s] = "hook" /\ subAt' = [subAt EXCEPT ![s] = "hook2"]
    BY <1>5 DEF Allowed, At
  <2>2. ASSUME MovesTo(s, "hook2"), subAt'[s] = "hook2" PROVE FollowsLog(s)'
    <3>1. s \in Second => SecondFollows(s)'
      BY <1>1, <2>1, <2>2, MovesOn DEF SecondFollows
    <3>2. s \notin First
      BY <2>1, <2>2, MovesOn DEF FirstFollows
    <3> QED  BY <1>3, <2>2, <3>1, <3>2
  <2> QED  BY <1>2, <2>1, <2>2 DEF Places
<1>6. CASE BarrierPassed(s)
  <2>1. PICK where \in {"failed", "checkpoint"} :
            /\ subAt[s] = "barrier" /\ subAt' = [subAt EXCEPT ![s] = where]
            /\ where = "checkpoint" => ~(failedAt # 0 /\ failedAt <= mark[s]) /\ mark[s] <= SettledCount
    BY <1>6 DEF BarrierPassed, At, SettledCount
  <2>2. ASSUME MovesTo(s, where), subAt'[s] = where PROVE FollowsLog(s)'
    <3>1. s \notin First
      BY <2>1, <2>2, MovesOn DEF FirstFollows
    <3>2. SecondFollows(s) /\ failedAt \in Nat /\ mark[s] \in Nat
      BY <2>2, <3>1, MovesOn
    <3>3. where = "checkpoint" => mark[s] <= SettledCount /\ (failedAt > 0 => mark[s] < failedAt)
      BY <2>1, <3>2
    <3>4. \A e \in log : Owes(s, e) => Owes(s, e)'
      BY <1>1, <2>2, MovesOn DEF Owes
    <3>5. SecondFollows(s)'
      BY <1>1, <2>1, <2>2, <3>2, <3>3, <3>4, MovesOn DEF SecondFollows
    <3> QED  BY <1>3, <2>2, <3>1, <3>5
  <2> QED  BY <1>2, <2>1, <2>2 DEF Places
<1>7. CASE CheckpointRead(s)
  <2>1. PICK where \in {"ceiling", "gap"} : subAt[s] = "checkpoint" /\ subAt' = [subAt EXCEPT ![s] = where]
    BY <1>7 DEF CheckpointRead, At
  <2>2. ASSUME MovesTo(s, where), subAt'[s] = where PROVE FollowsLog(s)'
    <3>1. s \in First => FirstFollows(s)'
      BY <1>1, <2>1, <2>2, MovesOn DEF FirstFollows
    <3>2. \A e \in log : Owes(s, e) => Owes(s, e)'
      BY <1>1, <2>2, MovesOn DEF Owes
    <3>3. s \in Second => SecondFollows(s)'
      BY <1>1, <2>1, <2>2, <3>2, MovesOn DEF SecondFollows
    <3> QED  BY <1>3, <2>2, <3>1, <3>3
  <2> QED  BY <1>2, <2>1, <2>2 DEF Places
<1>8. CASE RegisteredFirst(s)
  <2>1. s \in First /\ subAt[s] = "register" /\ subAt' = [subAt EXCEPT ![s] = "fetch"]
    BY <1>8 DEF RegisteredFirst, At
  <2>2. ASSUME MovesTo(s, "fetch"), subAt'[s] = "fetch" PROVE FollowsLog(s)'
    <3>1. FirstFollows(s)'
      BY <1>1, <2>1, <2>2, MovesOn DEF FirstFollows
    <3> QED  BY <1>3, <2>1, <2>2, <3>1, MovesOn
  <2> QED  BY <1>2, <2>1, <2>2 DEF Places
<1>9. CASE ReplayFinished(s)
  <2>1. PICK where \in {"refetch", "live"} :
            /\ where = IF s \in buffered THEN "refetch" ELSE "live"
            /\ s \in First /\ subAt[s] = "replay" /\ rows[s] = <<>> /\ subAt' = [subAt EXCEPT ![s] = where]
    BY <1>9 DEF ReplayFinished, At
  <2>2. ASSUME MovesTo(s, where), subAt'[s] = where PROVE FollowsLog(s)'
    <3>1. FirstFollows(s) /\ ToSet(rows[s]) = {} /\ ceiling[s] \in Nat /\ log \subseteq Nat /\ since[s] \in Nat
      <4>1. log \subseteq Nat
        BY DEF ChannelInductive, ChannelTypeOK, Events
      <4>2. FirstFollows(s) /\ ceiling[s] \in Nat /\ since[s] \in Nat
        BY <2>1, <2>2, MovesOn
      <4> QED  BY <2>1, <4>1, <4>2 DEF ToSet
    <3>2. \A e \in log : since[s] < e /\ e <= ceiling[s] => e \in ToSet(seen[s])
      BY <2>1, <3>1 DEF FirstFollows
    <3>3. where = "live" => \A e \in log : e > since[s] => Owes(s, e) \/ e \in passed[s]
      <4> SUFFICES ASSUME where = "live", NEW e \in log, e > since[s] PROVE Owes(s, e) \/ e \in passed[s]
        OBVIOUS
      <4>1. CASE e <= ceiling[s]
        BY <3>1, <3>2, <4>1 DEF Owes
      <4>2. CASE e > ceiling[s]
        BY <2>1, <3>1, <4>2 DEF FirstFollows, Owes
      <4> QED  BY <3>1, <4>1, <4>2
    <3>4. \A e \in log : Owes(s, e) => Owes(s, e)'
      BY <1>1, <2>2, MovesOn DEF Owes
    <3>5. FirstFollows(s)'
      BY <1>1, <2>1, <2>2, <3>2, <3>3, <3>4, MovesOn DEF FirstFollows
    <3> QED  BY <1>3, <2>1, <2>2, <3>5, MovesOn
  <2> QED  BY <1>2, <2>1, <2>2 DEF Places
<1>10. CASE HeldBackSent(s)
  <2>1. subAt[s] = "resend" /\ rows[s] = <<>> /\ subAt' = [subAt EXCEPT ![s] = "live"]
    BY <1>10 DEF HeldBackSent, At
  <2>2. ASSUME MovesTo(s, "live"), subAt'[s] = "live" PROVE FollowsLog(s)'
    <3>1. s \in First /\ s \notin Second
      BY <2>1, <2>2, MovesOn DEF SecondFollows
    <3>2. FirstFollows(s) /\ ToSet(rows[s]) = {} /\ ceiling[s] \in Nat /\ log \subseteq Nat /\ since[s] \in Nat
      BY <2>1, <2>2, <3>1, MovesOn DEF ToSet, ChannelInductive, ChannelTypeOK, Events
    <3>3. \A e \in log : e > since[s] => Owes(s, e)
      <4> SUFFICES ASSUME NEW e \in log, e > since[s] PROVE Owes(s, e)
        OBVIOUS
      <4>1. CASE e <= ceiling[s]
        BY <2>1, <3>2, <4>1 DEF FirstFollows, Owes
      <4>2. CASE e > ceiling[s]
        BY <2>1, <3>2, <4>2 DEF FirstFollows
      <4> QED  BY <3>2, <4>1, <4>2
    <3>4. \A e \in log : Owes(s, e) => Owes(s, e)'
      BY <1>1, <2>2, MovesOn DEF Owes
    <3>5. FirstFollows(s)'
      BY <1>1, <2>1, <2>2, <3>3, <3>4, MovesOn DEF FirstFollows
    <3> QED  BY <1>3, <2>2, <3>1, <3>5
  <2> QED  BY <1>2, <2>1, <2>2 DEF Places
<1> QED  BY <1>4, <1>5, <1>6, <1>7, <1>8, <1>9, <1>10

\* subscribed() has run: what has been accepted is what the barrier waits for, and
\* where there is no barrier what has settled is in the log.
LEMMA HookedPreserves == \A s \in ChannelSubs : ChannelInductive /\ Hooked(s) => ChannelInductive'
<1> SUFFICES ASSUME NEW s \in ChannelSubs, ChannelInductive, Hooked(s) PROVE ChannelInductive'
  OBVIOUS
<1>0. PICK waits : waits = IF threaded THEN SettledCount ELSE accepted
  OBVIOUS
<1>1. PICK where \in {"live", "barrier", "checkpoint"} :
          /\ where = IF since[s] = 0 THEN "live" ELSE IF threaded THEN "checkpoint" ELSE "barrier"
          /\ subAt[s] = "hook2" /\ subAt' = [subAt EXCEPT ![s] = where]
          /\ mark' = [mark EXCEPT ![s] = waits] /\ InterestMoves
          /\ UNCHANGED <<publisher, log, port, since, ceiling, rows, buffered, seen, passed>>
  BY <1>0 DEF Hooked, At, SettledCount, MarksChannel, InterestMoves, interest, ChannelInductive, ChannelTypeOK
<1>2. MovesTo(s, where)
  BY <1>1 DEF MovesTo, InterestMoves, interest, ChannelInductive, ChannelTypeOK
<1>3. /\ subAt'[s] = where /\ since'[s] = since[s] /\ ceiling'[s] = ceiling[s] /\ rows'[s] = rows[s]
      /\ mark'[s] = waits /\ seen'[s] = seen[s]
  BY <1>1, <1>2, MovesOn DEF ChannelInductive, ChannelTypeOK
<1>4. waits \in 0..EventMax /\ \A e \in log : e > waits => e > SettledCount
  <2>1. InsertedCount <= accepted
    <3>1. CASE publishing = "idle"
      BY <3>1, QueueIsUnsettled
    <3>2. CASE publishing # "idle"
      <4>1. Len(queue) > 0
        BY <3>2, QueueIsUnsettled
      <4> QED  BY <4>1, QueueIsUnsettled
    <3> QED  BY <3>1, <3>2
  <2>2. log \subseteq 1..InsertedCount
    BY DEF ChannelInductive, PublishedInOrder
  <2>3. \A e \in log : ~(e > accepted)
    BY <2>1, <2>2, QueueIsUnsettled
  <2>4. SettledCount \in 0..EventMax /\ accepted \in 0..EventMax
    <3>1. accepted \in 0..EventMax /\ EventMax \in Nat
      BY ChannelAssumption DEF ChannelInductive, ChannelTypeOK
    <3>2. SettledCount \in Nat /\ SettledCount <= accepted
      BY QueueIsUnsettled
    <3> QED  BY <3>1, <3>2
  <2> QED  BY <1>0, <2>3, <2>4
<1>5. s \notin First
  BY <1>1, <1>2, MovesOn DEF FirstFollows
<1>6. SecondFollows(s)'
  <2>1. SecondFollows(s)
    BY <1>2, <1>5, MovesOn
  <2>2. \A e \in log : e > waits => Owes(s, e)'
    BY <1>2, <1>4, MovesOn DEF Owes
  <2>3. where = "checkpoint" => threaded /\ waits <= SettledCount
    BY <1>0, <1>1, QueueIsUnsettled
  <2>4. where = "live" => since[s] = 0
    BY <1>1
  <2> QED  BY <1>1, <1>2, <1>3, <2>1, <2>2, <2>3, <2>4, MovesOn DEF SecondFollows
<1>7. FollowsLog(s)'
  BY <1>1, <1>2, <1>3, <1>5, <1>6, MovesOn DEF FollowsLog
<1>8. /\ waits \in 0..EventMax /\ ceiling[s] \in 0..EventMax /\ since[s] \in 0..EventMax
      /\ rows[s] \in Seq(Events) /\ seen[s] \in Seq(Events)
      /\ ceiling' = [ceiling EXCEPT ![s] = ceiling[s]] /\ since' = [since EXCEPT ![s] = since[s]]
      /\ rows' = [rows EXCEPT ![s] = rows[s]] /\ seen' = [seen EXCEPT ![s] = seen[s]]
  BY <1>1, <1>4 DEF ChannelInductive, ChannelTypeOK
<1> QED  BY <1>1, <1>2, <1>7, <1>8, StepFollows DEF Places

\* latestSequence: nothing in the log is above it, but what is inserted later.
LEMMA CeilingPreserves == \A s \in ChannelSubs : ChannelInductive /\ CeilingRead(s) => ChannelInductive'
<1> SUFFICES ASSUME NEW s \in ChannelSubs, ChannelInductive, CeilingRead(s) PROVE ChannelInductive'
  OBVIOUS
<1>1. PICK top : top = IF LatestSequence = 0 THEN since[s] ELSE LatestSequence
  OBVIOUS
<1>2. PICK where \in {"register", "live", "fetch"} :
          /\ where = IF s \in First THEN "register" ELSE IF top <= since[s] THEN "live" ELSE "fetch"
          /\ subAt[s] = "ceiling" /\ subAt' = [subAt EXCEPT ![s] = where]
          /\ ceiling' = [ceiling EXCEPT ![s] = top]
          /\ UNCHANGED <<publisher, interest, log, port, since, rows, mark, buffered, seen, passed>>
  BY <1>1 DEF CeilingRead, At
<1>3. MovesTo(s, where)
  BY <1>2 DEF MovesTo, InterestMoves, interest, ChannelInductive, ChannelTypeOK
<1>4. log \subseteq Nat \ {0} /\ log \subseteq 0..EventMax /\ since[s] \in 0..EventMax
  BY ChannelAssumption DEF ChannelInductive, ChannelTypeOK, Events
<1>5. top \in 0..EventMax /\ top <= InsertedCount /\ \A e \in log : e <= top
  <2>1. CASE log = {}
    <3>1. top = since[s]
      BY <1>1, <2>1 DEF LatestSequence
    <3>2. since[s] <= SettledCount
      BY <1>3, MovesOn DEF FollowsLog
    <3> QED  BY <1>4, <2>1, <3>1, <3>2, QueueIsUnsettled
  <2>2. CASE log # {}
    <3>1. LatestSequence \in log /\ \A e \in log : e <= LatestSequence
      BY <2>2, LatestIsHighest DEF ChannelInductive
    <3>2. top = LatestSequence
      BY <1>1, <1>4, <3>1
    <3>3. log \subseteq 1..InsertedCount
      BY DEF ChannelInductive, PublishedInOrder
    <3> QED  BY <1>4, <3>1, <3>2, <3>3, QueueIsUnsettled
  <2> QED  BY <2>1, <2>2
<1>6. /\ subAt'[s] = where /\ since'[s] = since[s] /\ ceiling'[s] = top /\ rows'[s] = rows[s]
      /\ mark'[s] = mark[s] /\ seen'[s] = seen[s]
  BY <1>2, <1>3, MovesOn DEF ChannelInductive, ChannelTypeOK
<1>7. \A e \in log : ~(e > top)
  BY <1>4, <1>5
<1>8. s \in First => FirstFollows(s)'
  BY <1>2, <1>3, <1>6, <1>7, MovesOn DEF FirstFollows
<1>9. s \in Second => SecondFollows(s)'
  <2> SUFFICES ASSUME s \in Second PROVE SecondFollows(s)'
    OBVIOUS
  <2>1. SecondFollows(s) /\ s \notin First
    BY <1>3, MovesOn
  <2>2. where = "live" => \A e \in log : ~(since[s] < e)
    BY <1>2, <1>4, <1>5, <2>1
  <2>3. \A e \in log : Owes(s, e) => Owes(s, e)'
    BY <1>2, <1>3, MovesOn DEF Owes
  <2> QED  BY <1>2, <1>3, <1>5, <1>6, <2>1, <2>2, <2>3, MovesOn DEF SecondFollows
<1>10. FollowsLog(s)'
  BY <1>2, <1>3, <1>5, <1>6, <1>8, <1>9, MovesOn DEF FollowsLog
<1>11. /\ since[s] \in 0..EventMax /\ mark[s] \in 0..EventMax
       /\ rows[s] \in Seq(Events) /\ seen[s] \in Seq(Events)
       /\ since' = [since EXCEPT ![s] = since[s]] /\ mark' = [mark EXCEPT ![s] = mark[s]]
       /\ rows' = [rows EXCEPT ![s] = rows[s]] /\ seen' = [seen EXCEPT ![s] = seen[s]]
  BY <1>2 DEF ChannelInductive, ChannelTypeOK
<1> QED  BY <1>2, <1>3, <1>5, <1>10, <1>11, StepFollows DEF Places

\* Rows are read: all that the log still holds between the two bounds.
LEMMA RowsReadPreserves ==
    ASSUME ChannelInductive, NEW s \in ChannelSubs, RowsRead(s) \/ HeldBackRead(s)
    PROVE  ChannelInductive'
<1>1. PICK where \in {"replay", "resend"}, low \in Nat, high \in Nat, found \in Seq(Nat) :
          /\ found \in RowsAfter(low, high) /\ rows' = [rows EXCEPT ![s] = found] /\ subAt' = [subAt EXCEPT ![s] = where]
          /\ where = "replay" => subAt[s] = "fetch" /\ low = since[s] /\ high = ceiling[s]
          /\ where = "resend" => subAt[s] = "refetch" /\ low = ceiling[s] /\ high = EventMax
          /\ UNCHANGED <<publisher, interest, log, port, since, ceiling, mark, buffered, seen, passed>>
  <2>1. since[s] \in Nat /\ ceiling[s] \in Nat /\ EventMax \in Nat
    BY ChannelAssumption DEF ChannelInductive, ChannelTypeOK
  <2>2. CASE RowsRead(s)
    <3>1. PICK found \in RowsAfter(since[s], ceiling[s]) : rows' = [rows EXCEPT ![s] = found]
      BY <2>2 DEF RowsRead
    <3>0. found \in Seq(Nat)
      BY <2>1, <3>1, RowsAreFound DEF ChannelInductive, Events
    <3>2. /\ subAt[s] = "fetch" /\ subAt' = [subAt EXCEPT ![s] = "replay"]
          /\ UNCHANGED <<publisher, interest, log, port, since, ceiling, mark, buffered, seen, passed>>
      BY <2>2 DEF RowsRead, At
    <3> QED  BY <2>1, <3>0, <3>1, <3>2
  <2>3. CASE HeldBackRead(s)
    <3>1. PICK found \in RowsAfter(ceiling[s], EventMax) : rows' = [rows EXCEPT ![s] = found]
      BY <2>3 DEF HeldBackRead
    <3>0. found \in Seq(Nat)
      BY <2>1, <3>1, RowsAreFound DEF ChannelInductive, Events
    <3>2. /\ subAt[s] = "refetch" /\ subAt' = [subAt EXCEPT ![s] = "resend"]
          /\ UNCHANGED <<publisher, interest, log, port, since, ceiling, mark, buffered, seen, passed>>
      BY <2>3 DEF HeldBackRead, At
    <3> QED  BY <2>1, <3>0, <3>1, <3>2
  <2> QED  BY <2>2, <2>3
<1>2. found \in Seq(Events) /\ Increasing(found) /\ ToSet(found) = {e \in log : low < e /\ e <= high}
  BY <1>1, RowsAreFound DEF ChannelInductive
<1>3. MovesTo(s, where)
  BY <1>1 DEF MovesTo, InterestMoves, interest, ChannelInductive, ChannelTypeOK
<1>4. log \subseteq Nat /\ \A e \in log : e <= EventMax
  BY ChannelAssumption DEF ChannelInductive, ChannelTypeOK, Events
<1>5. /\ subAt'[s] = where /\ since'[s] = since[s] /\ ceiling'[s] = ceiling[s] /\ rows'[s] = found
      /\ mark'[s] = mark[s] /\ seen'[s] = seen[s]
  BY <1>1, <1>2, <1>3, MovesOn DEF ChannelInductive, ChannelTypeOK
<1>6. s \in First => FirstFollows(s)'
  <2> SUFFICES ASSUME s \in First PROVE FirstFollows(s)'
    OBVIOUS
  <2>1. FirstFollows(s)
    BY <1>3, MovesOn
  <2>2. CASE where = "replay"
    <3>1. seen[s] = <<>> /\ DOMAIN seen[s] = {}
      BY <1>1, <2>1, <2>2 DEF FirstFollows
    <3>2. Increasing(seen[s]) /\ \A e \in log : since[s] < e /\ e <= ceiling[s] => e \in ToSet(found)
      BY <1>1, <1>2, <2>2, <3>1 DEF Increasing
    <3>3. \A e \in log : e > ceiling[s] =>
            e > SettledCount \/ e \in ToSet(port) \/ e = failedAt \/ e \in passed[s] \/ s \in buffered
      BY <1>1, <2>1, <2>2 DEF FirstFollows
    <3> QED  BY <1>1, <1>2, <1>3, <1>5, <2>2, <3>1, <3>2, <3>3, MovesOn DEF FirstFollows, Increasing
  <2>3. CASE where = "resend"
    <3>1. \A e \in log : e > ceiling[s] => e \in ToSet(found)
      BY <1>1, <1>2, <1>4, <2>3
    <3>2. \A e \in log : since[s] < e /\ e <= ceiling[s] => e \in ToSet(seen[s])
      BY <1>1, <2>1, <2>3 DEF FirstFollows
    <3> QED  BY <1>1, <1>3, <1>5, <2>3, <3>1, <3>2, MovesOn DEF FirstFollows
  <2> QED  BY <2>2, <2>3
<1>7. s \in Second => SecondFollows(s)'
  <2> SUFFICES ASSUME s \in Second PROVE SecondFollows(s)'
    OBVIOUS
  <2>1. SecondFollows(s)
    BY <1>3, MovesOn
  <2>2. where = "replay" /\ subAt[s] = "fetch" /\ low = since[s] /\ high = ceiling[s]
    BY <1>1, <2>1 DEF SecondFollows
  <2>3. \A e \in log : since[s] < e /\ e <= mark[s] => e \in ToSet(found)
    BY <1>2, <2>1, <2>2 DEF SecondFollows
  <2>4. \A e \in log : Owes(s, e) => Owes(s, e)'
    BY <1>1, <1>3, MovesOn DEF Owes
  <2> QED  BY <1>1, <1>3, <1>5, <2>1, <2>2, <2>3, <2>4, MovesOn DEF SecondFollows
<1>8. FollowsLog(s)'
  <2>1. ToSet(found) \subseteq log
    BY <1>2
  <2>2. log \subseteq 1..InsertedCount /\ (failedAt > 0 => \A e \in log : e <= failedAt)
    BY DEF ChannelInductive, PublishedInOrder
  <2> QED  BY <1>1, <1>3, <1>5, <1>6, <1>7, <2>1, <2>2, MovesOn DEF FollowsLog
<1>9. /\ since[s] \in 0..EventMax /\ mark[s] \in 0..EventMax /\ ceiling[s] \in 0..EventMax
      /\ seen[s] \in Seq(Events)
      /\ since' = [since EXCEPT ![s] = since[s]] /\ mark' = [mark EXCEPT ![s] = mark[s]]
      /\ ceiling' = [ceiling EXCEPT ![s] = ceiling[s]] /\ seen' = [seen EXCEPT ![s] = seen[s]]
  BY <1>1 DEF ChannelInductive, ChannelTypeOK
<1> QED  BY <1>1, <1>2, <1>3, <1>8, <1>9, StepFollows DEF Places

\* The second kind is sent its rows.
LEMMA ReplaySecondPreserves == \A s \in ChannelSubs : ChannelInductive /\ ReplaySecond(s) => ChannelInductive'
<1> SUFFICES ASSUME NEW s \in ChannelSubs, ChannelInductive, ReplaySecond(s) PROVE ChannelInductive'
  OBVIOUS
<1>1. PICK sent : sent = seen[s] \o rows[s]
  OBVIOUS
<1>2. /\ s \in Second /\ subAt[s] = "replay" /\ subAt' = [subAt EXCEPT ![s] = "live"]
      /\ seen' = [seen EXCEPT ![s] = sent] /\ rows' = [rows EXCEPT ![s] = <<>>]
      /\ UNCHANGED <<publisher, interest, log, port, since, ceiling, mark, buffered, passed>>
  BY <1>1 DEF ReplaySecond, At, ChannelInductive
<1>3. MovesTo(s, "live")
  BY <1>2 DEF MovesTo, InterestMoves, interest, ChannelInductive, ChannelTypeOK
<1>4. sent \in Seq(Events) /\ ToSet(sent) = ToSet(seen[s]) \cup ToSet(rows[s])
  BY <1>1, EventsAndMore DEF ChannelInductive
<1>5. /\ subAt'[s] = "live" /\ since'[s] = since[s] /\ ceiling'[s] = ceiling[s] /\ rows'[s] = <<>>
      /\ mark'[s] = mark[s] /\ seen'[s] = sent
  BY <1>2, <1>3, MovesOn DEF ChannelInductive, ChannelTypeOK
<1>6. SecondFollows(s) /\ s \notin First
  BY <1>2, <1>3, MovesOn
<1>7. \A e \in log : Owes(s, e) => Owes(s, e)'
  BY <1>2, <1>3, <1>4, <1>5, MovesOn DEF Owes
<1>8. SecondFollows(s)'
  BY <1>2, <1>3, <1>4, <1>5, <1>6, <1>7, MovesOn DEF SecondFollows
<1>9. ToSet(rows'[s]) = {}
  BY <1>5 DEF ToSet
<1>10. FollowsLog(s)'
  BY <1>2, <1>3, <1>4, <1>5, <1>6, <1>8, <1>9, MovesOn DEF FollowsLog
<1>11. /\ since[s] \in 0..EventMax /\ mark[s] \in 0..EventMax /\ ceiling[s] \in 0..EventMax
       /\ since' = [since EXCEPT ![s] = since[s]] /\ mark' = [mark EXCEPT ![s] = mark[s]]
       /\ ceiling' = [ceiling EXCEPT ![s] = ceiling[s]] /\ <<>> \in Seq(Events)
  BY <1>2 DEF ChannelInductive, ChannelTypeOK
<1> QED  BY <1>2, <1>3, <1>4, <1>10, <1>11, StepFollows DEF Places

\* The first kind is sent its next row.
LEMMA ReplayNextPreserves == \A s \in ChannelSubs : ChannelInductive /\ ReplayNext(s) => ChannelInductive'
<1> SUFFICES ASSUME NEW s \in ChannelSubs, ChannelInductive, ReplayNext(s) PROVE ChannelInductive'
  OBVIOUS
<1>1. PICK sent, left, e : sent = Append(seen[s], e) /\ left = Tail(rows[s]) /\ e = Head(rows[s])
  OBVIOUS
<1>2. PICK where \in {"replay", "resend"} :
          /\ s \in First /\ subAt[s] = where /\ rows[s] # <<>>
          /\ seen' = [seen EXCEPT ![s] = sent] /\ rows' = [rows EXCEPT ![s] = left]
          /\ UNCHANGED <<publisher, interest, log, port, subAt, since, ceiling, mark, buffered, passed>>
  BY <1>1 DEF ReplayNext, ChannelInductive
<1>3. MovesTo(s, where)
  BY <1>2 DEF MovesTo, InterestMoves, interest, ChannelInductive, ChannelTypeOK
<1>4. /\ e \in Events /\ e = rows[s][1] /\ left \in Seq(Events) /\ ToSet(rows[s]) = {e} \cup ToSet(left)
      /\ 1 \in DOMAIN rows[s] /\ DOMAIN rows[s] = 1..Len(rows[s]) /\ Len(rows[s]) \in Nat
      /\ \A i \in DOMAIN left : i + 1 \in DOMAIN rows[s] /\ left[i] = rows[s][i + 1]
      /\ DOMAIN left = 1..(Len(rows[s]) - 1)
  BY <1>1, <1>2, RestOfEvents DEF ChannelInductive
<1>5. /\ sent \in Seq(Events) /\ ToSet(sent) = ToSet(seen[s]) \cup {e}
      /\ DOMAIN seen[s] = 1..Len(seen[s]) /\ DOMAIN sent = 1..(Len(seen[s]) + 1) /\ Len(seen[s]) \in Nat
      /\ \A i \in DOMAIN seen[s] : sent[i] = seen[s][i]
      /\ sent[Len(seen[s]) + 1] = e
  BY <1>1, <1>4, OneMoreEvent DEF ChannelInductive
<1>6. /\ subAt'[s] = where /\ since'[s] = since[s] /\ ceiling'[s] = ceiling[s] /\ rows'[s] = left
      /\ mark'[s] = mark[s] /\ seen'[s] = sent
  BY <1>2, <1>3, <1>4, <1>5, MovesOn DEF ChannelInductive, ChannelTypeOK
<1>7. FirstFollows(s) /\ s \notin Second
  BY <1>2, <1>3, MovesOn
<1>8. ToSet(rows[s]) \cup ToSet(seen[s]) = ToSet(left) \cup ToSet(sent)
  BY <1>4, <1>5
<1>9. ASSUME where = "replay" PROVE FirstFollows(s)'
  <2>1. /\ Increasing(seen[s]) /\ Increasing(rows[s])
        /\ \A i \in DOMAIN seen[s], k \in DOMAIN rows[s] : seen[s][i] < rows[s][k]
    BY <1>2, <1>7, <1>9 DEF FirstFollows
  <2>2. Increasing(left)
    <3> SUFFICES ASSUME NEW i \in DOMAIN left, NEW k \in DOMAIN left, i < k PROVE left[i] < left[k]
      BY DEF Increasing
    <3>1. i + 1 < k + 1 /\ i + 1 \in DOMAIN rows[s] /\ k + 1 \in DOMAIN rows[s]
      BY <1>4
    <3> QED  BY <1>4, <2>1, <3>1 DEF Increasing
  <2>3. Increasing(sent)
    <3> SUFFICES ASSUME NEW i \in DOMAIN sent, NEW k \in DOMAIN sent, i < k PROVE sent[i] < sent[k]
      BY DEF Increasing
    <3>1. i \in DOMAIN seen[s]
      BY <1>5
    <3>2. CASE k \in DOMAIN seen[s]
      BY <1>5, <2>1, <3>1, <3>2 DEF Increasing
    <3>3. CASE k \notin DOMAIN seen[s]
      <4>1. k = Len(seen[s]) + 1
        BY <1>5, <3>3
      <4> QED  BY <1>4, <1>5, <2>1, <3>1, <4>1
    <3> QED  BY <3>2, <3>3
  <2>4. \A i \in DOMAIN sent, k \in DOMAIN left : sent[i] < left[k]
    <3> SUFFICES ASSUME NEW i \in DOMAIN sent, NEW k \in DOMAIN left PROVE sent[i] < left[k]
      OBVIOUS
    <3>1. k + 1 \in DOMAIN rows[s] /\ left[k] = rows[s][k + 1] /\ 1 < k + 1
      BY <1>4
    <3>2. CASE i \in DOMAIN seen[s]
      BY <1>5, <2>1, <3>1, <3>2
    <3>3. CASE i \notin DOMAIN seen[s]
      <4>1. i = Len(seen[s]) + 1
        BY <1>5, <3>3
      <4>2. rows[s][1] < rows[s][k + 1]
        BY <1>4, <2>1, <3>1 DEF Increasing
      <4> QED  BY <1>4, <1>5, <3>1, <4>1, <4>2
    <3> QED  BY <3>2, <3>3
  <2>5. \A x \in log : since[s] < x /\ x <= ceiling[s] => x \in ToSet(left) \cup ToSet(sent)
    BY <1>2, <1>7, <1>8, <1>9 DEF FirstFollows
  <2>6. \A x \in log : x > ceiling[s] =>
            x > SettledCount \/ x \in ToSet(port) \/ x = failedAt \/ x \in passed[s] \/ s \in buffered
    BY <1>2, <1>7, <1>9 DEF FirstFollows
  <2>7. /\ \A i, k \in DOMAIN seen'[s] : i < k => seen'[s][i] < seen'[s][k]
        /\ \A i, k \in DOMAIN rows'[s] : i < k => rows'[s][i] < rows'[s][k]
        /\ \A i \in DOMAIN seen'[s], k \in DOMAIN rows'[s] : seen'[s][i] < rows'[s][k]
    BY <1>6, <2>2, <2>3, <2>4 DEF Increasing
  <2>8. /\ \A x \in log' : since'[s] < x /\ x <= ceiling'[s] => x \in ToSet(rows'[s]) \cup ToSet(seen'[s])
        /\ \A x \in log' : x > ceiling'[s] =>
              \/ x > SettledCount' \/ x \in ToSet(port') \/ x = failedAt'
              \/ x \in passed'[s] \/ s \in buffered'
    BY <1>3, <1>6, <2>5, <2>6, MovesOn
  <2> QED  BY <1>6, <1>9, <2>7, <2>8 DEF FirstFollows, Increasing
<1>10. ASSUME where = "resend" PROVE FirstFollows(s)'
  <2>1. \A x \in log : since[s] < x /\ x <= ceiling[s] => x \in ToSet(sent)
    BY <1>2, <1>5, <1>7, <1>10 DEF FirstFollows
  <2>2. \A x \in log : x > ceiling[s] => Owes(s, x)' \/ x \in ToSet(left)
    <3> SUFFICES ASSUME NEW x \in log, x > ceiling[s] PROVE Owes(s, x)' \/ x \in ToSet(left)
      OBVIOUS
    <3>1. Owes(s, x) \/ x \in ToSet(rows[s])
      BY <1>2, <1>7, <1>10 DEF FirstFollows
    <3>2. Owes(s, x) => Owes(s, x)'
      BY <1>3, <1>5, <1>6, MovesOn DEF Owes
    <3>3. x = e => Owes(s, x)'
      BY <1>5, <1>6 DEF Owes
    <3> QED  BY <1>4, <3>1, <3>2, <3>3
  <2> QED  BY <1>2, <1>3, <1>6, <1>10, <2>1, <2>2, MovesOn DEF FirstFollows
<1>11. FollowsLog(s)'
  <2>1. FirstFollows(s)'
    BY <1>2, <1>9, <1>10
  <2> QED  BY <1>2, <1>3, <1>6, <1>7, <1>8, <2>1, MovesOn DEF FollowsLog
<1>12. /\ since[s] \in 0..EventMax /\ mark[s] \in 0..EventMax /\ ceiling[s] \in 0..EventMax
       /\ since' = [since EXCEPT ![s] = since[s]] /\ mark' = [mark EXCEPT ![s] = mark[s]]
       /\ ceiling' = [ceiling EXCEPT ![s] = ceiling[s]]
  BY <1>2 DEF ChannelInductive, ChannelTypeOK
<1> QED  BY <1>2, <1>3, <1>4, <1>5, <1>11, <1>12, StepFollows DEF Places

\* The channel starts with nothing published and nobody subscribed.
LEMMA ChannelStarts == ChannelInit => ChannelInductive
<1> SUFFICES ASSUME ChannelInit PROVE ChannelInductive
  OBVIOUS
<1>1. /\ accepted = 0 /\ queue = <<>> /\ publishing = "idle" /\ failedAt = 0 /\ log = {} /\ port = <<>>
      /\ \A s \in ChannelSubs : /\ subAt[s] = "none" /\ since[s] = 0 /\ ceiling[s] = 0
                                /\ rows[s] = <<>> /\ seen[s] = <<>> /\ mark[s] = 0
  BY DEF ChannelInit
<1>2. SettledCount = 0 /\ InsertedCount = 0 /\ ToSet(<<>>) = {}
  <2>1. Len(<<>>) = 0 /\ DOMAIN <<>> = {}
    OBVIOUS
  <2>2. SettledCount = 0 /\ publishing # "dispatch"
    <3>1. accepted = 0 /\ Len(queue) = 0 /\ publishing = "idle"
      BY <1>1, <2>1
    <3> QED  BY <3>1 DEF SettledCount
  <2>3. ToSet(<<>>) = {}
    BY <2>1 DEF ToSet
  <2> QED  BY <2>2, <2>3 DEF SettledCount, InsertedCount
<1>3. ChannelTypeOK /\ rows \in [ChannelSubs -> Seq(Events)] /\ seen \in [ChannelSubs -> Seq(Events)]
  BY ChannelAssumption DEF ChannelInit, ChannelTypeOK
<1>4. PublishedInOrder
  BY <1>1, <1>2 DEF PublishedInOrder
<1>5. \A s \in ChannelSubs : FollowsLog(s)
  BY <1>1, <1>2 DEF FollowsLog, FirstFollows, SecondFollows
<1> QED  BY <1>1, <1>3, <1>4, <1>5 DEF ChannelInductive

\* Every step of the channel keeps the invariant.
LEMMA ChannelSteps == ChannelInductive /\ [ChannelNext]_channelVars => ChannelInductive'
<1> SUFFICES ASSUME ChannelInductive, [ChannelNext]_channelVars PROVE ChannelInductive'
  OBVIOUS
<1>1. CASE PublishStep \/ Cleanup \/ InterestChanges
  BY <1>1, PublishingPreserves
<1>2. CASE Deliver
  BY <1>2, DeliverPreserves
<1>3. ASSUME NEW s \in ChannelSubs, SubscriberStep(s) PROVE ChannelInductive'
  BY <1>3, AskPreserves, HandlerPreserves, HookedPreserves, CeilingPreserves, RowsReadPreserves,
     ReplaySecondPreserves, ReplayNextPreserves DEF SubscriberStep
<1>4. CASE UNCHANGED channelVars
  <2>1. SettledCount' = SettledCount /\ InsertedCount' = InsertedCount
    BY <1>4 DEF SettledCount, InsertedCount, channelVars, publisher
  <2>2. ChannelTypeOK'
    BY <1>4 DEF channelVars, publisher, interest, ChannelInductive, ChannelTypeOK
  <2>3. /\ queue' = queue /\ publishing' = publishing /\ failedAt' = failedAt /\ log' = log /\ port' = port
        /\ subscribers' = subscribers /\ threaded' = threaded
    BY <1>4 DEF channelVars, publisher, interest, subscribers
  <2>4. PublishedInOrder'
    BY <2>1, <2>3 DEF ChannelInductive, PublishedInOrder
  <2>5. LogMoves
    BY <2>1, <2>3, QueueIsUnsettled DEF LogMoves
  <2>6. failedAt' > 0 => \A e \in log' \cup ToSet(port') : e <= failedAt'
    BY <2>3 DEF ChannelInductive
  <2> QED  BY <2>2, <2>4, <2>5, <2>6, LogMovesOn
<1> QED  BY <1>1, <1>2, <1>3, <1>4 DEF ChannelNext

\* What is followed is complete, in order, and stops at a failure.
LEMMA ChannelInductiveHolds == ChannelInductive => ChannelInv
<1> SUFFICES ASSUME ChannelInductive PROVE ChannelInv
  OBVIOUS
<1>1. \A s \in ChannelSubs : FollowsLog(s)
  BY DEF ChannelInductive
<1>2. \A e \in log : e > SettledCount => e \in ToSet(queue)
  <2> SUFFICES ASSUME NEW e \in log, e > SettledCount PROVE e \in ToSet(queue)
    OBVIOUS
  <2>1. e \in 1..InsertedCount /\ e \in Nat
    BY QueueIsUnsettled DEF ChannelInductive, PublishedInOrder
  <2>2. e = SettledCount + 1 /\ publishing # "idle"
    BY <2>1, QueueIsUnsettled
  <2>3. e = Head(queue) /\ queue # <<>>
    BY <2>2, QueueIsUnsettled
  <2> QED  BY <2>3, QueueIsUnsettled, RestOfEvents
<1>3. \A s \in ChannelSubs : \A e \in log : Owes(s, e) => e \in ToSet(seen[s]) \cup UnderWay \cup {failedAt}
  BY <1>2 DEF Owes, UnderWay
<1>4. ReplayLosesNothing
  <2> SUFFICES ASSUME NEW s \in Second, subAt[s] = "live", since[s] > 0, NEW e \in log, e > since[s]
               PROVE  e \in ToSet(seen[s]) \cup UnderWay \cup {failedAt}
    BY DEF ReplayLosesNothing, Complete
  <2>1. SecondFollows(s) /\ s \in ChannelSubs /\ e \in Nat /\ mark[s] \in Nat
    BY <1>1, ChannelAssumption DEF FollowsLog, ChannelSubs, ChannelInductive, ChannelTypeOK, Events
  <2>2. CASE e > mark[s]
    BY <1>3, <2>1, <2>2 DEF SecondFollows
  <2>3. CASE e <= mark[s]
    BY <2>1, <2>3 DEF SecondFollows
  <2> QED  BY <2>1, <2>2, <2>3
<1>5. FirstKindLosesOnlyInGap
  <2> SUFFICES ASSUME NEW s \in First, subAt[s] = "live", since[s] > 0, NEW e \in log, e > since[s]
               PROVE  e \in ToSet(seen[s]) \cup UnderWay \cup (passed[s] \cup {failedAt})
    BY DEF FirstKindLosesOnlyInGap, Complete
  <2>1. FirstFollows(s) /\ s \in ChannelSubs
    BY <1>1 DEF FollowsLog, ChannelSubs
  <2> QED  BY <1>3, <2>1 DEF FirstFollows
<1>6. ReplayInOrder
  <2> SUFFICES ASSUME NEW s \in First, subAt[s] \in {"fetch", "replay"}, NEW i \in 1..Len(seen[s]) - 1
               PROVE  seen[s][i] < seen[s][i + 1]
    BY DEF ReplayInOrder
  <2>1. FirstFollows(s) /\ seen[s] \in Seq(Events)
    BY <1>1 DEF FollowsLog, ChannelSubs, ChannelInductive
  <2>2. i \in DOMAIN seen[s] /\ i + 1 \in DOMAIN seen[s] /\ i < i + 1 /\ seen[s] # <<>>
    BY <2>1
  <2> QED  BY <2>1, <2>2 DEF FirstFollows, Increasing
<1>7. FailureStopsChannel
  <2> SUFFICES ASSUME failedAt > 0 PROVE FailureStopsChannel
    BY DEF FailureStopsChannel
  <2>1. \A s \in ChannelSubs : \A e \in ToSet(seen[s]) : e <= failedAt
    BY <1>1 DEF FollowsLog
  <2>2. ASSUME NEW s \in Second, ~threaded, subAt[s] = "live", since[s] > 0 PROVE failedAt > mark[s]
    <3>1. SecondFollows(s) /\ mark[s] \in Nat /\ failedAt \in Nat
      BY <1>1, ChannelAssumption DEF FollowsLog, ChannelSubs, ChannelInductive, ChannelTypeOK
    <3> QED  BY <2>2, <3>1 DEF SecondFollows
  <2> QED  BY <2>1, <2>2 DEF FailureStopsChannel, ChannelInductive
<1> QED  BY <1>4, <1>5, <1>6, <1>7 DEF ChannelInv, ChannelInductive

\* Whether its session runs in a worker thread or in the host's process, a
\* subscriber that comes back with the last event it saw is sent every event of
\* the log after it, but for one whose publish failed when it was there: a
\* subscriber of the second kind without another exception, one of the first but
\* for what is dispatched between its read of the ceiling and its registration,
\* and this in order while it replays.  Behind a publish that failed nothing is
\* stored or sent (websocket-events-host.js, websocket-event-log-store.js,
\* websocket-session.js).
THEOREM ReplaysComplete == ChannelSpec => []ChannelInv
<1>1. ChannelInductive => ChannelInv
  BY ChannelInductiveHolds
<1> QED  BY ChannelStarts, ChannelSteps, <1>1, PTL DEF ChannelSpec

-----------------------------------------------------------------------------
(* The change feed.                                                        *)

Publishing == [item : Items, seq : Sequences, saved : BOOLEAN]

FeedTypes ==
    /\ FeedTypeOK /\ breaks \in Nat
    /\ publish \in [Writers -> SUBSET Publishing] /\ pulled \in [Items -> Sequences]

\* No row, cursor or bound is beyond what has been saved, and a pull moves ahead
\* of the saved cursor.
FeedNumbers ==
    /\ newest <= sequence /\ \A i \in Items : row[i] <= newest
    /\ cursor <= newest /\ after <= newest /\ upTo <= newest
    /\ pull # "idle" => cursor <= after

\* Sequences are allocated once; what was saved is not ahead of the item's row
\* unless the row has fallen back.
FeedPublishes ==
    /\ \A w \in Writers : \A p \in publish[w] :
          /\ p.seq <= sequence /\ (~p.saved => p.seq # newest)
          /\ p.saved => p.seq <= newest /\ (p.item \in overtaken \/ p.seq <= row[p.item])
    /\ \A w, v \in Writers : \A p \in publish[w], q \in publish[v] :
          ~p.saved /\ ~q.saved /\ p.seq = q.seq => w = v

FeedPushes ==
    \A c \in ToSet(wire) \cup ToSet(inbox) :
        c.seq <= newest /\ (c.item \in overtaken \/ c.seq <= row[c.item])

\* A row that has moved since the page was read has moved behind the cursor of
\* the pull, which will meet it again.
FeedPage ==
    /\ pull # "apply" => page = <<>>
    /\ \A c \in ToSet(page) :
          cursor < c.seq /\ (c.seq # row[c.item] => c.item \in overtaken \/ row[c.item] > after)

\* How far the pull has come, and what is known of the rows before that.
Reach == IF pull = "idle" THEN cursor ELSE after
Change(i) == [item |-> i, seq |-> row[i]]
Pulled(i) == row[i] <= Reach => pulled[i] = row[i] \/ i \in overtaken \/ Change(i) \in ToSet(page)
Repaired(i) ==
    \/ local[i] = row[i] \/ row[i] > Reach \/ i \in overtaken \/ i \in missed
    \/ Change(i) \in ToSet(inbox) \/ Change(i) \in ToSet(page)

FeedInductive ==
    /\ FeedTypes /\ FeedNumbers /\ FeedPublishes /\ FeedPushes /\ FeedPage
    /\ \A i \in Items : Pulled(i) /\ Repaired(i)

\* The numbers of the feed are numbers.
LEMMA FeedIsNumbered ==
    ASSUME FeedTypes
    PROVE  /\ newest \in Nat /\ sequence \in Nat /\ cursor \in Nat /\ after \in Nat /\ upTo \in Nat
           /\ ItemMax \in Nat /\ PublishMax \in Nat /\ BatchSize \in Nat \ {0} /\ Sequences \subseteq Nat
           /\ \A i \in Items : row[i] \in Nat /\ local[i] \in Nat /\ pulled[i] \in Nat
           /\ \A c \in Changes : c.item \in Items /\ c.seq \in Nat /\ c.seq \in Sequences
           /\ wire \in Seq(Changes) /\ inbox \in Seq(Changes) /\ page \in Seq(Changes)
           /\ ToSet(wire) \subseteq Changes /\ ToSet(inbox) \subseteq Changes /\ ToSet(page) \subseteq Changes
           /\ \A w \in Writers : \A p \in publish[w] :
                 p.item \in Items /\ p.seq \in Nat /\ p.seq \in Sequences /\ p.saved \in BOOLEAN
<1>1. /\ ItemMax \in Nat /\ PublishMax \in Nat /\ BatchSize \in Nat \ {0} /\ Sequences \subseteq Nat
  BY FeedAssumption DEF Sequences
<1>2. /\ newest \in Nat /\ sequence \in Nat /\ cursor \in Nat /\ after \in Nat /\ upTo \in Nat
      /\ \A i \in Items : row[i] \in Nat /\ local[i] \in Nat /\ pulled[i] \in Nat
  BY <1>1 DEF FeedTypes, FeedTypeOK
<1>3. \A c \in Changes : c.item \in Items /\ c.seq \in Nat /\ c.seq \in Sequences
  BY <1>1 DEF Changes
<1>4. wire \in Seq(Changes) /\ inbox \in Seq(Changes) /\ page \in Seq(Changes)
  BY DEF FeedTypes, FeedTypeOK
<1>5. ToSet(wire) \subseteq Changes /\ ToSet(inbox) \subseteq Changes /\ ToSet(page) \subseteq Changes
  BY <1>4 DEF ToSet
<1>6. \A w \in Writers : \A p \in publish[w] :
         p.item \in Items /\ p.seq \in Nat /\ p.seq \in Sequences /\ p.saved \in BOOLEAN
  <2> SUFFICES ASSUME NEW w \in Writers, NEW p \in publish[w]
               PROVE  p.item \in Items /\ p.seq \in Nat /\ p.seq \in Sequences /\ p.saved \in BOOLEAN
    OBVIOUS
  <2>1. p \in Publishing
    BY DEF FeedTypes
  <2> QED  BY <1>1, <2>1 DEF Publishing
<1> QED  BY <1>1, <1>2, <1>3, <1>4, <1>5, <1>6

\* A page and a publish of one element.
LEMMA OneIsFew == Cardinality({}) = 0 /\ \A p : Cardinality({p}) = 1
  BY FS_EmptySet, FS_Singleton

\* A sequence is allocated, higher than any other.
LEMMA AllocatePreserves ==
    ASSUME FeedInductive, NEW w \in Writers, NEW i \in Items, Allocate(w, i)
    PROVE  FeedInductive'
<1>1. PICK p : p = [item |-> i, seq |-> sequence + 1, saved |-> FALSE]
  OBVIOUS
<1>2. /\ sequence < ItemMax + PublishMax /\ sequence' = sequence + 1 /\ publish' = [publish EXCEPT ![w] = {p}]
      /\ row' = row /\ newest' = newest /\ overtaken' = overtaken /\ local' = local /\ pulled' = pulled
      /\ link' = link /\ wire' = wire /\ inbox' = inbox /\ missed' = missed /\ cursor' = cursor /\ pull' = pull
      /\ after' = after /\ upTo' = upTo /\ page' = page /\ full' = full /\ scheduled' = scheduled
      /\ breaks' = breaks
  BY <1>1 DEF Allocate, pushes, puller
<1>3. FeedTypes /\ newest <= sequence
  BY DEF FeedInductive, FeedNumbers
<1>4. sequence + 1 \in Sequences /\ sequence + 1 > sequence /\ newest < sequence + 1
  BY <1>2, <1>3, FeedIsNumbered DEF Sequences
<1>5. p \in Publishing /\ p.item = i /\ p.seq = sequence + 1 /\ p.saved = FALSE
  BY <1>1, <1>4 DEF Publishing
<1>6. publish'[w] = {p} /\ \A v \in Writers \ {w} : publish'[v] = publish[v]
  BY <1>2, <1>3 DEF FeedTypes
<1>7. publish' \in [Writers -> SUBSET Publishing] /\ \A v \in Writers : Cardinality(publish'[v]) <= 1
  <2>1. publish \in [Writers -> SUBSET Publishing] /\ {p} \in SUBSET Publishing
    BY <1>3, <1>5 DEF FeedTypes
  <2>2. publish' \in [Writers -> SUBSET Publishing]
    BY <1>2, <2>1
  <2>3. \A v \in Writers : Cardinality(publish'[v]) <= 1
    <3>1. \A v \in Writers : Cardinality(publish[v]) <= 1
      BY <1>3 DEF FeedTypes, FeedTypeOK
    <3>2. Cardinality(publish'[w]) = 1
      BY <1>6, OneIsFew
    <3> QED  BY <1>6, <3>1, <3>2
  <2> QED  BY <2>2, <2>3
<1>8. FeedTypes'
  BY <1>2, <1>3, <1>4, <1>7 DEF FeedTypes, FeedTypeOK
<1>9. FeedNumbers'
  BY <1>2, <1>3, <1>4, FeedIsNumbered DEF FeedInductive, FeedNumbers
<1>10. FeedPublishes'
  <2>1. ASSUME NEW v \in Writers, NEW q \in publish'[v]
        PROVE  /\ q.seq <= sequence' /\ (~q.saved => q.seq # newest)
               /\ q.saved => q.seq <= newest /\ (q.item \in overtaken \/ q.seq <= row[q.item])
    <3>1. CASE v = w
      BY <1>2, <1>3, <1>4, <1>5, <1>6, <2>1, <3>1, FeedIsNumbered
    <3>2. CASE v # w
      <4>1. q \in publish[v] /\ q.seq <= sequence /\ q.seq \in Nat
        BY <1>3, <1>6, <2>1, <3>2, FeedIsNumbered DEF FeedInductive, FeedPublishes
      <4> QED  BY <1>2, <1>3, <2>1, <4>1, FeedIsNumbered DEF FeedInductive, FeedPublishes
    <3> QED  BY <3>1, <3>2
  <2>2. ASSUME NEW v \in Writers, NEW u \in Writers, NEW q \in publish'[v], NEW r \in publish'[u],
               ~q.saved, ~r.saved, q.seq = r.seq
        PROVE  v = u
    <3>1. \A x \in Writers \ {w} : \A s \in publish'[x] : s \in publish[x] /\ s.seq # sequence + 1
      BY <1>3, <1>6, FeedIsNumbered DEF FeedInductive, FeedPublishes
    <3>2. CASE v = w /\ u # w
      BY <1>5, <1>6, <2>2, <3>1, <3>2
    <3>3. CASE u = w /\ v # w
      BY <1>5, <1>6, <2>2, <3>1, <3>3
    <3>4. CASE u # w /\ v # w
      BY <2>2, <3>1, <3>4 DEF FeedInductive, FeedPublishes
    <3> QED  BY <3>2, <3>3, <3>4
  <2> QED  BY <1>2, <2>1, <2>2 DEF FeedPublishes
<1>11. FeedPushes' /\ FeedPage' /\ \A j \in Items : Pulled(j)' /\ Repaired(j)'
  BY <1>2 DEF FeedInductive, FeedPushes, FeedPage, Pulled, Repaired, Reach, Change
<1> QED  BY <1>8, <1>9, <1>10, <1>11 DEF FeedInductive

\* A row is saved: with a sequence beyond all others, or it is overtaken.
LEMMA SaveRowPreserves ==
    ASSUME FeedInductive, NEW w \in Writers, SaveRow(w)
    PROVE  FeedInductive'
<1>1. PICK p \in publish[w], q \in {[r EXCEPT !.saved = TRUE] : r \in publish[w]} :
          /\ ~p.saved /\ q = [p EXCEPT !.saved = TRUE]
          /\ row' = [row EXCEPT ![p.item] = p.seq] /\ missed' = missed \cup {p.item}
          /\ newest' = IF newest > p.seq THEN newest ELSE p.seq
          /\ overtaken' = IF newest > p.seq THEN overtaken \cup {p.item} ELSE overtaken \ {p.item}
          /\ publish' = [publish EXCEPT ![w] = {q}]
          /\ sequence' = sequence /\ link' = link /\ wire' = wire /\ inbox' = inbox /\ cursor' = cursor
          /\ pull' = pull /\ after' = after /\ upTo' = upTo /\ page' = page /\ full' = full
          /\ scheduled' = scheduled /\ local' = local /\ pulled' = pulled /\ breaks' = breaks
  BY DEF SaveRow, puller
<1>2. FeedTypes /\ FeedNumbers
  BY DEF FeedInductive
<1>3. PICK j \in Items, n \in Sequences : j = p.item /\ n = p.seq /\ n \in Nat /\ n <= sequence /\ n # newest
  BY <1>1, <1>2, FeedIsNumbered DEF FeedInductive, FeedPublishes
<1>4. q \in Publishing /\ q.item = j /\ q.seq = n /\ q.saved = TRUE
  <2>1. p \in Publishing
    BY <1>1, <1>2 DEF FeedTypes
  <2> QED  BY <1>1, <1>3, <2>1 DEF Publishing
<1>5. publish'[w] = {q} /\ \A v \in Writers \ {w} : publish'[v] = publish[v]
  BY <1>1, <1>2 DEF FeedTypes
<1>6. publish' \in [Writers -> SUBSET Publishing] /\ \A v \in Writers : Cardinality(publish'[v]) <= 1
  <2>1. publish \in [Writers -> SUBSET Publishing] /\ {q} \in SUBSET Publishing
    BY <1>2, <1>4 DEF FeedTypes
  <2>2. publish' \in [Writers -> SUBSET Publishing]
    BY <1>1, <2>1
  <2>3. \A v \in Writers : Cardinality(publish[v]) <= 1
    BY <1>2 DEF FeedTypes, FeedTypeOK
  <2>4. Cardinality(publish'[w]) = 1
    BY <1>5, OneIsFew
  <2> QED  BY <1>5, <2>2, <2>3, <2>4
<1>7. /\ row' \in [Items -> Sequences] /\ row'[j] = n /\ \A i \in Items \ {j} : row'[i] = row[i]
  BY <1>1, <1>2, <1>3 DEF FeedTypes, FeedTypeOK
<1>8. newest' \in Nat /\ newest' \in Sequences /\ newest <= newest' /\ n <= newest' /\ newest' <= sequence
  BY <1>1, <1>2, <1>3, FeedIsNumbered DEF FeedNumbers, FeedTypes, FeedTypeOK
<1>9. overtaken' \subseteq Items /\ \A i : i # j => (i \in overtaken' <=> i \in overtaken)
  BY <1>1, <1>2, <1>3 DEF FeedTypes, FeedTypeOK
<1>10. \A x \in Nat : x <= newest => j \in overtaken' \/ x < row'[j]
  BY <1>1, <1>2, <1>3, <1>7, FeedIsNumbered
<1>11. missed' \subseteq Items /\ j \in missed' /\ missed \subseteq missed'
  BY <1>1, <1>2, <1>3 DEF FeedTypes, FeedTypeOK
<1>12. FeedTypes'
  BY <1>1, <1>2, <1>6, <1>7, <1>8, <1>9, <1>11 DEF FeedTypes, FeedTypeOK
<1>13. FeedNumbers'
  <2>1. \A i \in Items : row'[i] <= newest'
    <3>1. newest \in Nat /\ \A i \in Items : row[i] \in Nat /\ row[i] <= newest
      BY <1>2, FeedIsNumbered DEF FeedNumbers
    <3>2. \A i \in Items \ {j} : row'[i] <= newest'
      BY <1>7, <1>8, <3>1
    <3> QED  BY <1>7, <1>8, <3>2
  <2> QED  BY <1>1, <1>2, <1>8, <2>1, FeedIsNumbered DEF FeedNumbers
<1>14. FeedPublishes'
  <2>1. ASSUME NEW v \in Writers, NEW r \in publish'[v]
        PROVE  /\ r.seq <= sequence /\ (~r.saved => r.seq # newest')
               /\ r.saved => r.seq <= newest' /\ (r.item \in overtaken' \/ r.seq <= row'[r.item])
    <3>1. CASE v = w
      BY <1>3, <1>4, <1>5, <1>7, <1>8, <2>1, <3>1
    <3>2. CASE v # w
      <4>1. r \in publish[v] /\ r.seq <= sequence /\ r.seq \in Nat /\ r.item \in Items
        BY <1>2, <1>5, <2>1, <3>2, FeedIsNumbered DEF FeedInductive, FeedPublishes
      <4>2. ~r.saved => r.seq # newest /\ r.seq # n
        BY <1>1, <1>3, <2>1, <3>2, <4>1 DEF FeedInductive, FeedPublishes
      <4>3. newest' = newest \/ newest' = n
        BY <1>1, <1>3
      <4>4. r.saved => r.seq <= newest /\ (r.item \in overtaken \/ r.seq <= row[r.item])
        BY <2>1, <4>1 DEF FeedInductive, FeedPublishes
      <4>5. r.saved => r.seq <= newest' /\ (r.item \in overtaken' \/ r.seq <= row'[r.item])
        <5>1. CASE r.item = j
          BY <1>2, <1>7, <1>3, <1>8, <1>10, <4>1, <4>4, <5>1, FeedIsNumbered
        <5>2. CASE r.item # j
          BY <1>2, <1>7, <1>8, <1>9, <4>1, <4>4, <5>2, FeedIsNumbered
        <5> QED  BY <5>1, <5>2
      <4> QED  BY <4>1, <4>2, <4>3, <4>5
    <3> QED  BY <3>1, <3>2
  <2>2. ASSUME NEW v \in Writers, NEW u \in Writers, NEW r \in publish'[v], NEW s \in publish'[u],
               ~r.saved, ~s.saved, r.seq = s.seq
        PROVE  v = u
    <3>1. v # w /\ u # w
      BY <1>4, <1>5, <2>2
    <3> QED  BY <1>5, <2>2, <3>1 DEF FeedInductive, FeedPublishes
  <2> QED  BY <1>1, <2>1, <2>2 DEF FeedPublishes
<1>15. FeedPushes'
  <2> SUFFICES ASSUME NEW c \in ToSet(wire) \cup ToSet(inbox)
               PROVE  c.seq <= newest' /\ (c.item \in overtaken' \/ c.seq <= row'[c.item])
    BY <1>1 DEF FeedPushes
  <2>1. c.seq \in Nat /\ c.item \in Items /\ c.seq <= newest /\ (c.item \in overtaken \/ c.seq <= row[c.item])
    BY <1>2, FeedIsNumbered DEF FeedInductive, FeedPushes
  <2>2. CASE c.item = j
    <3>1. j \in overtaken' \/ c.seq < row'[j]
      BY <1>10, <2>1
    <3>2. newest \in Nat
      BY <1>2, FeedIsNumbered
    <3> QED  BY <1>3, <1>7, <1>8, <2>1, <2>2, <3>1, <3>2
  <2>3. CASE c.item # j
    BY <1>2, <1>7, <1>8, <1>9, <2>1, <2>3, FeedIsNumbered
  <2> QED  BY <2>2, <2>3
<1>16. FeedPage'
  <2>1. pull # "apply" => page = <<>>
    BY DEF FeedInductive, FeedPage
  <2>2. ASSUME NEW c \in ToSet(page)
        PROVE  cursor < c.seq /\ (c.seq # row'[c.item] => c.item \in overtaken' \/ row'[c.item] > after)
    <3>1. /\ c.seq \in Nat /\ c.item \in Items /\ cursor < c.seq
          /\ c.seq # row[c.item] => c.item \in overtaken \/ row[c.item] > after
      BY <1>2, FeedIsNumbered DEF FeedInductive, FeedPage
    <3>2. after \in Nat /\ after <= newest
      BY <1>2, FeedIsNumbered DEF FeedNumbers
    <3>3. CASE c.item = j
      <4>1. j \in overtaken' \/ after < row'[j]
        BY <1>10, <3>2
      <4> QED  BY <1>3, <1>7, <3>1, <3>2, <3>3, <4>1
    <3>4. CASE c.item # j
      BY <1>7, <1>9, <3>1, <3>4
    <3> QED  BY <3>3, <3>4
  <2> QED  BY <1>1, <2>1, <2>2 DEF FeedPage
<1>17. ASSUME NEW i \in Items PROVE Pulled(i)' /\ Repaired(i)'
  <2>1. Reach' = Reach /\ Reach \in Nat /\ Reach <= newest
    BY <1>1, <1>2, FeedIsNumbered DEF Reach, FeedNumbers
  <2>2. CASE i = j
    <3>1. j \in overtaken' \/ Reach < row'[j]
      BY <1>10, <2>1
    <3>2. ~(row'[j] <= Reach) \/ j \in overtaken'
      BY <1>3, <1>7, <2>1, <3>1
    <3> QED  BY <1>11, <2>1, <2>2, <3>2 DEF Pulled, Repaired
  <2>3. CASE i # j
    <3>1. Pulled(i) /\ Repaired(i) /\ row'[i] = row[i] /\ (i \in overtaken' <=> i \in overtaken)
      BY <1>7, <1>9, <2>3 DEF FeedInductive
    <3>2. Change(i)' = Change(i)
      BY <3>1 DEF Change
    <3>3. pulled' = pulled /\ local' = local /\ page' = page /\ inbox' = inbox
      BY <1>1
    <3> QED  BY <1>11, <2>1, <3>1, <3>2, <3>3 DEF Pulled, Repaired
  <2> QED  BY <2>2, <2>3
<1> QED  BY <1>12, <1>13, <1>14, <1>15, <1>16, <1>17 DEF FeedInductive

\* What a step does to one writer's publish, once it is saved: nothing is left.
LEMMA BroadcastPreserves ==
    ASSUME FeedInductive, NEW w \in Writers, Broadcast(w)
    PROVE  FeedInductive'
<1>1. PICK p \in publish[w], c \in {[item |-> r.item, seq |-> r.seq] : r \in publish[w]} :
          /\ p.saved /\ c = [item |-> p.item, seq |-> p.seq]
          /\ wire' = IF link THEN Append(wire, c) ELSE wire
          /\ publish' = [publish EXCEPT ![w] = {}]
          /\ row' = row /\ newest' = newest /\ overtaken' = overtaken /\ local' = local /\ pulled' = pulled
          /\ sequence' = sequence /\ link' = link /\ inbox' = inbox /\ missed' = missed /\ cursor' = cursor
          /\ pull' = pull /\ after' = after /\ upTo' = upTo /\ page' = page /\ full' = full
          /\ scheduled' = scheduled /\ breaks' = breaks
  BY DEF Broadcast, puller
<1>2. FeedTypes /\ FeedNumbers
  BY DEF FeedInductive
<1>3. /\ c \in Changes /\ c.item = p.item /\ c.seq = p.seq
      /\ c.seq <= newest /\ (c.item \in overtaken \/ c.seq <= row[c.item])
  BY <1>1, <1>2, FeedIsNumbered DEF FeedInductive, FeedPublishes, Changes
<1>4. wire' \in Seq(Changes) /\ ToSet(wire') \subseteq ToSet(wire) \cup {c}
  <2>1. wire \in Seq(Changes)
    BY <1>2, FeedIsNumbered
  <2>2. Append(wire, c) \in Seq(Changes) /\ ToSet(Append(wire, c)) = ToSet(wire) \cup {c}
    BY <1>3, <2>1, OneMoreEvent
  <2> QED  BY <1>1, <2>1, <2>2
<1>5. publish'[w] = {} /\ \A v \in Writers \ {w} : publish'[v] = publish[v]
  BY <1>1, <1>2 DEF FeedTypes
<1>6. publish' \in [Writers -> SUBSET Publishing] /\ \A v \in Writers : Cardinality(publish'[v]) <= 1
  <2>1. publish \in [Writers -> SUBSET Publishing]
    BY <1>2 DEF FeedTypes
  <2>2. publish' \in [Writers -> SUBSET Publishing]
    BY <1>1, <2>1
  <2>3. \A v \in Writers : Cardinality(publish[v]) <= 1
    BY <1>2 DEF FeedTypes, FeedTypeOK
  <2>4. Cardinality(publish'[w]) = 0
    BY <1>5, OneIsFew
  <2> QED  BY <1>5, <2>2, <2>3, <2>4
<1>7. FeedTypes'
  BY <1>1, <1>2, <1>4, <1>6 DEF FeedTypes, FeedTypeOK
<1>8. FeedNumbers'
  BY <1>1, <1>2 DEF FeedNumbers
<1>9. FeedPublishes'
  <2>1. \A v \in Writers : \A q \in publish'[v] : q \in publish[v]
    BY <1>5
  <2> QED  BY <1>1, <2>1 DEF FeedInductive, FeedPublishes
<1>10. FeedPushes'
  <2> SUFFICES ASSUME NEW d \in ToSet(wire') \cup ToSet(inbox)
               PROVE  d.seq <= newest /\ (d.item \in overtaken \/ d.seq <= row[d.item])
    BY <1>1 DEF FeedPushes
  <2> QED  BY <1>3, <1>4 DEF FeedInductive, FeedPushes
<1>11. FeedPage' /\ \A j \in Items : Pulled(j)' /\ Repaired(j)'
  BY <1>1 DEF FeedInductive, FeedPage, Pulled, Repaired, Reach, Change
<1> QED  BY <1>7, <1>8, <1>9, <1>10, <1>11 DEF FeedInductive

\* A push arrives in the inbox.
LEMMA ArrivesPreserves ==
    ASSUME FeedInductive, Arrives
    PROVE  FeedInductive'
<1>1. PICK c, rest, more : c = Head(wire) /\ rest = Tail(wire) /\ more = Append(inbox, c)
  OBVIOUS
<1>2. /\ wire # <<>> /\ inbox' = more /\ wire' = rest
      /\ missed' = IF c.seq = row[c.item] THEN missed \ {c.item} ELSE missed
      /\ row' = row /\ newest' = newest /\ overtaken' = overtaken /\ local' = local /\ pulled' = pulled
      /\ sequence' = sequence /\ publish' = publish /\ link' = link /\ cursor' = cursor
      /\ pull' = pull /\ after' = after /\ upTo' = upTo /\ page' = page /\ full' = full
      /\ scheduled' = scheduled /\ breaks' = breaks
  BY <1>1 DEF Arrives, feed, puller
<1>3. FeedTypes /\ FeedNumbers
  BY DEF FeedInductive
<1>4. c \in Changes /\ rest \in Seq(Changes) /\ ToSet(wire) = {c} \cup ToSet(rest)
  <2>1. wire \in Seq(Changes)
    BY <1>3, FeedIsNumbered
  <2> QED  BY <1>1, <1>2, <2>1, RestOfEvents
<1>5. more \in Seq(Changes) /\ ToSet(more) = ToSet(inbox) \cup {c}
  <2>1. inbox \in Seq(Changes)
    BY <1>3, FeedIsNumbered
  <2> QED  BY <1>1, <1>4, <2>1, OneMoreEvent
<1>6. missed' \subseteq Items
  BY <1>2, <1>3 DEF FeedTypes, FeedTypeOK
<1>7. FeedTypes'
  BY <1>2, <1>3, <1>4, <1>5, <1>6 DEF FeedTypes, FeedTypeOK
<1>8. FeedNumbers' /\ FeedPublishes' /\ FeedPage'
  BY <1>2 DEF FeedInductive, FeedNumbers, FeedPublishes, FeedPage
<1>9. FeedPushes'
  BY <1>2, <1>4, <1>5 DEF FeedInductive, FeedPushes
<1>10. ASSUME NEW i \in Items PROVE Pulled(i)' /\ Repaired(i)'
  <2>1. Pulled(i) /\ Repaired(i) /\ Change(i)' = Change(i) /\ Reach' = Reach
    BY <1>2 DEF FeedInductive, Change, Reach
  <2>2. i \in missed => i \in missed' \/ Change(i) \in ToSet(inbox')
    <3>1. CASE i = c.item /\ c.seq = row[i]
      <4>1. c = Change(i)
        BY <1>4, <3>1 DEF Changes, Change
      <4> QED  BY <1>2, <1>5, <4>1
    <3>2. CASE ~(i = c.item /\ c.seq = row[i])
      BY <1>2, <3>2
    <3> QED  BY <3>1, <3>2
  <2>3. ToSet(inbox) \subseteq ToSet(inbox')
    BY <1>2, <1>5
  <2> QED  BY <1>2, <2>1, <2>2, <2>3 DEF Pulled, Repaired
<1> QED  BY <1>7, <1>8, <1>9, <1>10 DEF FeedInductive

\* A push is applied: an older one than the copy is noted as missed.
LEMMA PushAppliedPreserves ==
    ASSUME FeedInductive, PushApplied
    PROVE  FeedInductive'
<1>1. PICK c, rest : c = Head(inbox) /\ rest = Tail(inbox)
  OBVIOUS
<1>2. /\ inbox # <<>> /\ inbox' = rest /\ local' = [local EXCEPT ![c.item] = c.seq]
      /\ missed' = IF c.seq < local[c.item] THEN missed \cup {c.item} ELSE missed
      /\ row' = row /\ newest' = newest /\ overtaken' = overtaken /\ wire' = wire /\ pulled' = pulled
      /\ sequence' = sequence /\ publish' = publish /\ link' = link /\ cursor' = cursor
      /\ pull' = pull /\ after' = after /\ upTo' = upTo /\ page' = page /\ full' = full
      /\ scheduled' = scheduled /\ breaks' = breaks
  BY <1>1 DEF PushApplied, feed, puller
<1>3. FeedTypes /\ FeedNumbers
  BY DEF FeedInductive
<1>4. c \in Changes /\ rest \in Seq(Changes) /\ ToSet(inbox) = {c} \cup ToSet(rest)
  <2>1. inbox \in Seq(Changes)
    BY <1>3, FeedIsNumbered
  <2> QED  BY <1>1, <1>2, <2>1, RestOfEvents
<1>5. c.item \in Items /\ c.seq \in Nat /\ c.seq \in Sequences /\ (c.item \in overtaken \/ c.seq <= row[c.item])
  BY <1>3, <1>4, FeedIsNumbered DEF FeedInductive, FeedPushes
<1>6. missed' \subseteq Items /\ missed \subseteq missed'
  BY <1>2, <1>3, <1>5 DEF FeedTypes, FeedTypeOK
<1>7. local' \in [Items -> Sequences] /\ local'[c.item] = c.seq /\ \A i \in Items \ {c.item} : local'[i] = local[i]
  BY <1>2, <1>3, <1>5 DEF FeedTypes, FeedTypeOK
<1>8. FeedTypes'
  BY <1>2, <1>3, <1>4, <1>6, <1>7 DEF FeedTypes, FeedTypeOK
<1>9. FeedNumbers' /\ FeedPublishes' /\ FeedPage'
  BY <1>2 DEF FeedInductive, FeedNumbers, FeedPublishes, FeedPage
<1>10. FeedPushes'
  BY <1>2, <1>4 DEF FeedInductive, FeedPushes
<1>11. ASSUME NEW i \in Items PROVE Pulled(i)' /\ Repaired(i)'
  <2>1. Pulled(i) /\ Repaired(i) /\ Change(i)' = Change(i) /\ Reach' = Reach
    BY <1>2 DEF FeedInductive, Change, Reach
  <2>2. Pulled(i)'
    BY <1>2, <2>1 DEF Pulled
  <2>3. CASE i # c.item
    <3>1. c # Change(i)
      BY <2>3 DEF Change
    <3> QED  BY <1>2, <1>4, <1>6, <1>7, <2>1, <2>2, <2>3, <3>1 DEF Repaired
  <2>4. CASE i = c.item /\ c.seq = row[i]
    BY <1>2, <1>7, <2>2, <2>4 DEF Repaired
  <2>5. CASE i = c.item /\ c.seq # row[i]
    <3>1. c # Change(i)
      BY <2>5 DEF Change
    <3>2. local[i] = row[i] => i \in overtaken \/ i \in missed'
      BY <1>2, <1>3, <1>5, <2>5, FeedIsNumbered
    <3> QED  BY <1>2, <1>4, <1>6, <2>1, <2>2, <3>1, <3>2 DEF Repaired
  <2> QED  BY <2>3, <2>4, <2>5
<1> QED  BY <1>8, <1>9, <1>10, <1>11 DEF FeedInductive

\* The connection is lost, or is back.
LEMMA LinkPreserves ==
    ASSUME FeedInductive, Drops \/ Resumes
    PROVE  FeedInductive'
<1>1. /\ link' \in BOOLEAN /\ (wire' = <<>> \/ wire' = wire) /\ (breaks' = breaks + 1 \/ breaks' = breaks)
      /\ scheduled' \in {scheduled, "waiting"}
      /\ row' = row /\ newest' = newest /\ overtaken' = overtaken /\ local' = local /\ pulled' = pulled
      /\ sequence' = sequence /\ publish' = publish /\ inbox' = inbox /\ missed' = missed /\ cursor' = cursor
      /\ pull' = pull /\ after' = after /\ upTo' = upTo /\ page' = page /\ full' = full
  BY DEF Drops, Resumes, feed, puller
<1>2. wire' \in Seq(Changes) /\ ToSet(wire') \subseteq ToSet(wire)
  <2>1. wire \in Seq(Changes) /\ <<>> \in Seq(Changes) /\ ToSet(<<>>) = {}
    BY FeedIsNumbered DEF FeedInductive, ToSet
  <2> QED  BY <1>1, <2>1
<1>3. FeedTypes'
  BY <1>1, <1>2 DEF FeedInductive, FeedTypes, FeedTypeOK
<1>4. FeedPushes'
  BY <1>1, <1>2 DEF FeedInductive, FeedPushes
<1>5. FeedNumbers' /\ FeedPublishes' /\ FeedPage' /\ \A i \in Items : Pulled(i)' /\ Repaired(i)'
  BY <1>1 DEF FeedInductive, FeedNumbers, FeedPublishes, FeedPage, Pulled, Repaired, Reach, Change
<1> QED  BY <1>3, <1>4, <1>5 DEF FeedInductive

\* A pull begins at the saved cursor, asks for the highest sequence, and ends or
\* fails.
LEMMA PullMovesPreserves ==
    ASSUME FeedInductive, PullBegins \/ Resolve \/ PageDone \/ PullFails
    PROVE  FeedInductive'
<1>1. /\ row' = row /\ newest' = newest /\ overtaken' = overtaken /\ local' = local /\ pulled' = pulled
      /\ sequence' = sequence /\ publish' = publish /\ inbox' = inbox /\ missed' = missed
      /\ link' = link /\ wire' = wire /\ full' = full
      /\ breaks' = breaks \/ breaks' = breaks + 1
  BY DEF PullBegins, Resolve, PageDone, PullFails, feed, pushes
<1>2. FeedTypes /\ FeedNumbers /\ FeedPage
  BY DEF FeedInductive
<1>3. /\ newest \in Nat /\ cursor \in Nat /\ after \in Nat /\ upTo \in Nat
      /\ cursor \in Sequences /\ after \in Sequences /\ upTo \in Sequences
      /\ page \in Seq(Changes) /\ Len(page) <= BatchSize /\ Len(<<>>) = 0 /\ <<>> \in Seq(Changes)
      /\ \A i \in Items : row[i] \in Nat /\ row[i] \in Sequences
      /\ ToSet(<<>>) = {} /\ 0 \in Sequences
      /\ breaks \in Nat /\ BatchSize \in Nat
  BY <1>2, FeedIsNumbered, FeedAssumption DEF FeedTypes, FeedTypeOK, Sequences, ToSet
<1>4. /\ cursor' \in Sequences /\ after' \in Sequences /\ upTo' \in Sequences
      /\ cursor' <= newest /\ after' <= newest /\ upTo' <= newest
  <2>1. CASE PullBegins
    BY <1>2, <1>3, <2>1 DEF PullBegins, FeedNumbers
  <2>2. CASE Resolve
    <3>1. Items # {} => Max(Range(row)) \in Sequences /\ Max(Range(row)) <= newest
      <4> SUFFICES ASSUME Items # {} PROVE Max(Range(row)) \in Sequences /\ Max(Range(row)) <= newest
        OBVIOUS
      <4>1. DOMAIN row = Items
        BY <1>2 DEF FeedTypes, FeedTypeOK
      <4>2. Range(row) \in SUBSET Nat /\ Range(row) # {} /\ \A n \in Range(row) : n <= newest /\ n \in Sequences
        BY <1>2, <1>3, <4>1 DEF FeedNumbers, Range
      <4>3. Max(Range(row)) \in Range(row)
        BY <1>3, <4>2, HighestNatural
      <4> QED  BY <4>2, <4>3
    <3> QED  BY <1>2, <1>3, <2>2, <3>1 DEF Resolve, FeedNumbers
  <2>3. CASE PageDone
    BY <1>2, <1>3, <2>3 DEF PageDone, Ends, FeedNumbers
  <2>4. CASE PullFails
    BY <1>2, <1>3, <2>4 DEF PullFails, Ends, FeedNumbers
  <2> QED  BY <2>1, <2>2, <2>3, <2>4
<1>5. /\ pull' \in {"idle", "asked", "limited", "apply"} /\ scheduled' \in {"no", "waiting", "running"}
      /\ (page' = page \/ page' = <<>>)
  BY <1>2 DEF PullBegins, Resolve, PageDone, PullFails, Ends, FeedTypes, FeedTypeOK
<1>6. FeedTypes'
  <2>1. page' \in Seq(Changes) /\ Len(page') <= BatchSize /\ breaks' \in Nat
    <3>1. page' \in Seq(Changes)
      BY <1>3, <1>5
    <3>2. Len(page') <= BatchSize
      <4>1. 0 <= BatchSize
        BY <1>3
      <4> QED  BY <1>3, <1>5, <4>1
    <3>3. breaks' \in Nat
      BY <1>1, <1>3
    <3> QED  BY <3>1, <3>2, <3>3
  <2>2. {cursor', after', upTo'} \subseteq Sequences
    BY <1>4
  <2> QED  BY <1>1, <1>2, <1>5, <2>1, <2>2 DEF FeedTypes, FeedTypeOK
<1>7. /\ pull' # "idle" => cursor' = cursor /\ cursor' <= after' /\ Reach' = after'
      /\ pull' # "apply" /\ page' = <<>>
      /\ pull' = "idle" => Reach' = cursor'
      /\ Reach' = Reach \/ (Reach' = cursor /\ pull # "idle")
      /\ page = <<>> \/ (Reach' = cursor /\ pull # "idle")
  <2>1. CASE PullBegins
    BY <1>2, <1>3, <2>1 DEF PullBegins, Reach, FeedPage
  <2>2. CASE Resolve
    BY <1>2, <1>3, <2>2 DEF Resolve, Reach, FeedPage, FeedNumbers
  <2>3. CASE PageDone
    BY <1>2, <1>3, <2>3 DEF PageDone, Ends, Reach, FeedNumbers
  <2>4. CASE PullFails
    BY <1>2, <1>3, <2>4 DEF PullFails, Ends, Reach, FeedNumbers
  <2> QED  BY <2>1, <2>2, <2>3, <2>4
<1>8. FeedNumbers' /\ FeedPublishes' /\ FeedPushes' /\ FeedPage'
  BY <1>1, <1>2, <1>3, <1>4, <1>7 DEF FeedInductive, FeedNumbers, FeedPublishes, FeedPushes,
       FeedPage
<1>9. ASSUME NEW i \in Items PROVE Pulled(i)' /\ Repaired(i)'
  <2>1. Pulled(i) /\ Repaired(i) /\ Change(i)' = Change(i) /\ row[i] \in Nat
    BY <1>1, <1>3 DEF FeedInductive, Change
  <2>2. CASE Reach' = Reach /\ page = <<>>
    BY <1>1, <1>7, <2>1, <2>2 DEF Pulled, Repaired
  <2>3. CASE Reach' = cursor /\ pull # "idle"
    <3>1. Reach = after /\ cursor <= after
      BY <1>2, <2>3 DEF Reach, FeedNumbers
    <3>2. Change(i) \in ToSet(page) => row[i] > cursor
      BY <1>2, <1>3 DEF FeedPage, Change
    <3> QED  BY <1>1, <1>3, <1>7, <2>1, <2>3, <3>1, <3>2 DEF Pulled, Repaired
  <2> QED  BY <1>7, <2>2, <2>3
<1> QED  BY <1>6, <1>8, <1>9 DEF FeedInductive

\* A page: the rows behind the cursor of the pull, up to the last one in it.
LEMMA PageIsRead ==
    ASSUME FeedTypes, NEW found \in PageRows
    PROVE  /\ found \in Seq(Changes) /\ Len(found) \in Nat /\ Len(found) <= BatchSize
           /\ \A c \in ToSet(found) : c \in Changes /\ c.seq = row[c.item] /\ c.seq > after /\ c.seq <= upTo
           /\ found # <<>> => /\ Last(found) \in ToSet(found)
                              /\ \A i \in Items : after < row[i] /\ row[i] <= Last(found).seq =>
                                    Change(i) \in ToSet(found)
<1> DEFINE rowsDue == {[item |-> i, seq |-> row[i]] : i \in {i \in Items : row[i] > after /\ row[i] <= upTo}}
<1>1. /\ found \in UNION {[1..n -> rowsDue] : n \in 0..BatchSize}
      /\ \A c \in rowsDue \ ToSet(found) : \A k \in DOMAIN found : found[k].seq < c.seq
  BY DEF PageRows
<1>2. \A c \in rowsDue : c \in Changes /\ c.seq = row[c.item] /\ c.seq > after /\ c.seq <= upTo /\ c.seq \in Nat
  BY FeedIsNumbered DEF Changes, FeedTypes, FeedTypeOK
<1>3. \A i \in Items : row[i] > after /\ row[i] <= upTo => Change(i) \in rowsDue
  BY DEF Change
<1> HIDE DEF rowsDue
<1>4. PICK n \in 0..BatchSize : found \in [1..n -> rowsDue]
  BY <1>1
<1>5. n \in Nat /\ n <= BatchSize
  BY <1>4, FeedIsNumbered
<1>6. found \in Seq(rowsDue) /\ Len(found) = n
  BY <1>4, <1>5
<1>7. rowsDue \subseteq Changes
  BY <1>2
<1>8. found \in Seq(Changes)
  BY <1>6, <1>7
<1>9. \A c \in ToSet(found) : c \in rowsDue
  BY <1>6 DEF ToSet
<1>10. ASSUME found # <<>>
       PROVE  /\ Last(found) \in ToSet(found)
              /\ \A i \in Items : after < row[i] /\ row[i] <= Last(found).seq => Change(i) \in ToSet(found)
  <2>1. n \in DOMAIN found /\ Last(found) = found[n]
    BY <1>4, <1>5, <1>6, <1>10 DEF Last
  <2>2. Last(found) \in ToSet(found)
    BY <2>1 DEF ToSet
  <2>3. found[n].seq <= upTo /\ found[n].seq \in Nat /\ upTo \in Nat /\ after \in Nat
    BY <1>2, <1>9, <2>1, <2>2, FeedIsNumbered
  <2>4. ASSUME NEW i \in Items, after < row[i], row[i] <= Last(found).seq PROVE Change(i) \in ToSet(found)
    <3>1. row[i] \in Nat /\ row[i] <= found[n].seq /\ Change(i).seq = row[i]
      BY <2>1, <2>4, FeedIsNumbered DEF Change
    <3>2. Change(i) \in rowsDue
      BY <1>3, <2>3, <2>4, <3>1
    <3>3. CASE Change(i) \notin ToSet(found)
      <4>1. found[n].seq < row[i]
        BY <1>1, <2>1, <3>1, <3>2, <3>3
      <4> QED  BY <2>3, <3>1, <4>1
    <3> QED  BY <3>3
  <2> QED  BY <2>2, <2>4
<1> QED  BY <1>2, <1>5, <1>6, <1>8, <1>9, <1>10

\* A page is read.
LEMMA ReadPagePreserves ==
    ASSUME FeedInductive, ReadPage
    PROVE  FeedInductive'
<1>1. PICK found \in PageRows :
          /\ page' = found /\ full' = (Len(found) = BatchSize)
          /\ after' = IF found = <<>> THEN after ELSE Last(found).seq
          /\ pull = "limited" /\ pull' = "apply"
          /\ row' = row /\ newest' = newest /\ overtaken' = overtaken /\ local' = local /\ pulled' = pulled
          /\ sequence' = sequence /\ publish' = publish /\ inbox' = inbox /\ missed' = missed
          /\ link' = link /\ wire' = wire /\ cursor' = cursor /\ upTo' = upTo
          /\ scheduled' = scheduled /\ breaks' = breaks
  BY DEF ReadPage, feed, pushes
<1>2. FeedTypes /\ FeedNumbers /\ page = <<>>
  BY <1>1 DEF FeedInductive, FeedPage
<1>3. /\ newest \in Nat /\ cursor \in Nat /\ after \in Nat /\ upTo \in Nat /\ after \in Sequences
      /\ cursor <= after /\ after <= newest /\ upTo <= newest
      /\ \A i \in Items : row[i] \in Nat
  BY <1>1, <1>2, FeedIsNumbered DEF FeedNumbers, FeedTypes, FeedTypeOK
<1>4. /\ found \in Seq(Changes) /\ Len(found) \in Nat /\ Len(found) <= BatchSize
      /\ \A c \in ToSet(found) : /\ c \in Changes /\ c.seq = row[c.item] /\ c.seq > after /\ c.seq <= upTo
                                 /\ c.seq \in Nat /\ c.seq \in Sequences
  BY <1>2, PageIsRead, FeedIsNumbered
<1>5. /\ after' \in Sequences /\ after' \in Nat /\ after <= after' /\ after' <= newest
      /\ \A i \in Items : after < row[i] /\ row[i] <= after' => Change(i) \in ToSet(found)
  <2>1. CASE found = <<>>
    <3>1. \A i \in Items : ~(after < row[i] /\ row[i] <= after)
      BY <1>3
    <3> QED  BY <1>1, <1>3, <2>1, <3>1
  <2>2. CASE found # <<>>
    <3>1. /\ Last(found) \in ToSet(found) /\ after' = Last(found).seq
          /\ \A i \in Items : after < row[i] /\ row[i] <= Last(found).seq => Change(i) \in ToSet(found)
      BY <1>1, <1>2, <2>2, PageIsRead
    <3>2. after' \in Sequences /\ after' \in Nat /\ after' > after /\ after' <= upTo
      BY <1>4, <3>1
    <3> QED  BY <1>3, <3>1, <3>2
  <2> QED  BY <2>1, <2>2
<1>6. FeedTypes'
  BY <1>1, <1>2, <1>4, <1>5 DEF FeedTypes, FeedTypeOK
<1>7. FeedNumbers'
  BY <1>1, <1>2, <1>3, <1>5 DEF FeedNumbers
<1>8. FeedPage'
  BY <1>1, <1>3, <1>4 DEF FeedPage
<1>9. FeedPublishes' /\ FeedPushes'
  BY <1>1 DEF FeedInductive, FeedPublishes, FeedPushes
<1>10. ASSUME NEW i \in Items PROVE Pulled(i)' /\ Repaired(i)'
  <2>1. Pulled(i) /\ Repaired(i) /\ Change(i)' = Change(i) /\ Reach = after /\ Reach' = after'
    BY <1>1 DEF FeedInductive, Change, Reach
  <2>2. Change(i) \notin ToSet(page)
    BY <1>2 DEF ToSet
  <2>3. row[i] \in Nat /\ (row[i] <= after \/ row[i] > after' \/ Change(i) \in ToSet(page'))
    BY <1>1, <1>3, <1>5
  <2> QED  BY <1>1, <1>3, <1>5, <2>1, <2>2, <2>3 DEF Pulled, Repaired
<1> QED  BY <1>6, <1>7, <1>8, <1>9, <1>10 DEF FeedInductive

\* The next row of the page is applied.
LEMMA RowAppliedPreserves ==
    ASSUME FeedInductive, RowApplied
    PROVE  FeedInductive'
<1>1. PICK c, rest : c = Head(page) /\ rest = Tail(page)
  OBVIOUS
<1>2. /\ pull = "apply" /\ page # <<>> /\ page' = rest
      /\ local' = [local EXCEPT ![c.item] = c.seq] /\ pulled' = [pulled EXCEPT ![c.item] = c.seq]
      /\ missed' = IF c.seq = row[c.item] THEN missed \ {c.item} ELSE missed
      /\ row' = row /\ newest' = newest /\ overtaken' = overtaken /\ wire' = wire /\ inbox' = inbox
      /\ sequence' = sequence /\ publish' = publish /\ link' = link /\ cursor' = cursor
      /\ pull' = pull /\ after' = after /\ upTo' = upTo /\ full' = full
      /\ scheduled' = scheduled /\ breaks' = breaks
  BY <1>1 DEF RowApplied, feed
<1>3. FeedTypes /\ FeedNumbers /\ FeedPage
  BY DEF FeedInductive
<1>4. /\ c \in Changes /\ rest \in Seq(Changes) /\ ToSet(page) = {c} \cup ToSet(rest)
      /\ Len(rest) = Len(page) - 1 /\ Len(page) \in Nat
  <2>1. page \in Seq(Changes)
    BY <1>3, FeedIsNumbered
  <2> QED  BY <1>1, <1>2, <2>1, RestOfEvents
<1>5. /\ c.item \in Items /\ c.seq \in Nat /\ c.seq \in Sequences
      /\ c.seq # row[c.item] => c.item \in overtaken \/ row[c.item] > after
  BY <1>3, <1>4, FeedIsNumbered DEF FeedPage
<1>6. /\ local' \in [Items -> Sequences] /\ local'[c.item] = c.seq /\ \A i \in Items \ {c.item} : local'[i] = local[i]
  BY <1>2, <1>3, <1>5 DEF FeedTypes, FeedTypeOK
<1>7. /\ pulled' \in [Items -> Sequences] /\ pulled'[c.item] = c.seq
      /\ \A i \in Items \ {c.item} : pulled'[i] = pulled[i]
  BY <1>2, <1>3, <1>5 DEF FeedTypes
<1>8. Len(rest) <= BatchSize
  BY <1>3, <1>4, FeedIsNumbered DEF FeedTypes, FeedTypeOK
<1>9. FeedTypes'
  <2>1. missed' \subseteq Items /\ \A i \in Items : pulled'[i] \in Sequences
    BY <1>2, <1>3, <1>7 DEF FeedTypes, FeedTypeOK
  <2> QED  BY <1>2, <1>3, <1>4, <1>6, <1>7, <1>8, <2>1 DEF FeedTypes, FeedTypeOK
<1>10. FeedNumbers' /\ FeedPublishes' /\ FeedPushes'
  BY <1>2 DEF FeedInductive, FeedNumbers, FeedPublishes, FeedPushes
<1>11. FeedPage'
  BY <1>2, <1>3, <1>4 DEF FeedPage
<1>12. ASSUME NEW i \in Items PROVE Pulled(i)' /\ Repaired(i)'
  <2>1. Pulled(i) /\ Repaired(i) /\ Change(i)' = Change(i) /\ Reach = after /\ Reach' = after
    BY <1>2 DEF FeedInductive, Change, Reach
  <2>2. CASE i # c.item
    <3>1. c # Change(i)
      BY <2>2 DEF Change
    <3> QED  BY <1>2, <1>4, <1>6, <1>7, <2>1, <2>2, <3>1 DEF Pulled, Repaired
  <2>3. CASE i = c.item /\ c.seq = row[i]
    BY <1>2, <1>6, <1>7, <2>3 DEF Pulled, Repaired
  <2>4. CASE i = c.item /\ c.seq # row[i]
    <3>1. i \in overtaken \/ (row[i] > after /\ ~(row[i] <= after))
      <4>1. row[i] \in Nat /\ after \in Nat
        BY <1>3, FeedIsNumbered
      <4> QED  BY <1>5, <2>4, <4>1
    <3> QED  BY <1>2, <2>1, <3>1 DEF Pulled, Repaired
  <2> QED  BY <2>2, <2>3, <2>4
<1> QED  BY <1>9, <1>10, <1>11, <1>12 DEF FeedInductive

\* The feed starts with its rows saved, and a client that has none.
LEMMA FeedStarts == FeedInit => FeedInductive
<1> SUFFICES ASSUME FeedInit PROVE FeedInductive
  OBVIOUS
<1>1. ItemMax \in Nat /\ PublishMax \in Nat /\ BatchSize \in Nat /\ BreakMax \in Nat
  BY FeedAssumption
<1>2. Sequences \subseteq Nat /\ ItemMax \in Sequences /\ 0 \in Sequences
      /\ \A i \in Items : i \in Sequences /\ i \in Nat /\ i <= ItemMax
  BY <1>1 DEF Sequences, Items
<1>3. ToSet(<<>>) = {} /\ Len(<<>>) = 0 /\ <<>> \in Seq(Changes) /\ 0 <= BatchSize
  BY <1>1 DEF ToSet
<1>4. FeedTypeOK
  <2>1. row \in [Items -> Sequences] /\ local \in [Items -> Sequences] /\ \A i \in Items : pulled[i] \in Sequences
    BY <1>2 DEF FeedInit
  <2>2. \A w \in Writers : Cardinality(publish[w]) <= 1
    BY OneIsFew DEF FeedInit
  <2>3. {sequence, newest} \subseteq Sequences /\ {cursor, after, upTo} \subseteq Sequences
    BY <1>2 DEF FeedInit
  <2>4. /\ wire = <<>> /\ inbox = <<>> /\ page = <<>> /\ overtaken = {} /\ missed = {} /\ link = TRUE
        /\ full = FALSE /\ pull = "idle" /\ scheduled = "waiting"
    BY DEF FeedInit
  <2> QED  BY <1>3, <2>1, <2>2, <2>3, <2>4 DEF FeedTypeOK
<1>5. FeedTypes
  BY <1>2, <1>4 DEF FeedInit, FeedTypes
<1>6. FeedNumbers
  BY <1>1, <1>2 DEF FeedInit, FeedNumbers
<1>7. FeedPublishes /\ FeedPushes /\ FeedPage
  BY <1>3 DEF FeedInit, FeedPublishes, FeedPushes, FeedPage
<1>8. \A i \in Items : ~(row[i] <= Reach) /\ row[i] > Reach
  BY <1>1, <1>2 DEF FeedInit, Reach, Items
<1> QED  BY <1>5, <1>6, <1>7, <1>8 DEF FeedInductive, Pulled, Repaired

\* Every step of the feed and of its client keeps the invariant.
LEMMA FeedSteps == FeedInductive /\ [FeedNext]_feedVars => FeedInductive'
<1> SUFFICES ASSUME FeedInductive, [FeedNext]_feedVars PROVE FeedInductive'
  OBVIOUS
<1>1. CASE FeedNext
  BY <1>1, AllocatePreserves, SaveRowPreserves, BroadcastPreserves, ArrivesPreserves,
       PushAppliedPreserves,
     LinkPreserves, PullMovesPreserves, ReadPagePreserves, RowAppliedPreserves DEF FeedNext
<1>2. CASE UNCHANGED feedVars
  <2>1. /\ row' = row /\ newest' = newest /\ overtaken' = overtaken /\ local' = local /\ pulled' = pulled
        /\ sequence' = sequence /\ publish' = publish /\ inbox' = inbox /\ missed' = missed
        /\ link' = link /\ wire' = wire /\ cursor' = cursor /\ upTo' = upTo /\ page' = page /\ full' = full
        /\ scheduled' = scheduled /\ breaks' = breaks /\ pull' = pull /\ after' = after
    BY <1>2 DEF feedVars, feed, pushes, puller
  <2>2. FeedTypes'
    BY <2>1 DEF FeedInductive, FeedTypes, FeedTypeOK
  <2>3. FeedNumbers' /\ FeedPublishes' /\ FeedPushes' /\ FeedPage' /\ \A i \in Items : Pulled(i)' /\ Repaired(i)'
    BY <2>1 DEF FeedInductive, FeedNumbers, FeedPublishes, FeedPushes, FeedPage, Pulled, Repaired,
         Reach, Change
  <2> QED  BY <2>2, <2>3 DEF FeedInductive
<1> QED  BY <1>1, <1>2

\* While rows move to the end of the feed, pulls fail between pages and pushes
\* arrive among them, the saved cursor passes no row that was not applied, and a
\* copy that is behind is repaired by a later pull or a push under way, unless
\* its row was saved behind a later sequence or its push was lost
\* (sync-model-change-feed-service.js, sync-api-client.js, sync-realtime-bridge.js).
THEOREM PullsLeaveNoHole == FeedSpec => []FeedInv
<1>1. FeedInductive => FeedInv
  <2> SUFFICES ASSUME FeedInductive PROVE FeedInv
    OBVIOUS
  <2>1. /\ FeedTypes /\ FeedNumbers /\ FeedPage /\ \A i \in Items : Pulled(i) /\ Repaired(i)
        /\ cursor \in Nat /\ after \in Nat /\ \A i \in Items : row[i] \in Nat
    BY FeedIsNumbered DEF FeedInductive
  <2>2. cursor <= Reach /\ Reach \in Nat
    BY <2>1 DEF FeedNumbers, Reach
  <2>3. \A i \in Items : Change(i) \in ToSet(page) => ~(row[i] <= cursor)
    BY <2>1 DEF FeedPage, Change
  <2>4. CursorLeavesNoHole
    BY <2>1, <2>2, <2>3 DEF CursorLeavesNoHole, Pulled
  <2>5. StaleIsRepaired
    BY <2>1, <2>2 DEF StaleIsRepaired, Repaired, Change
  <2> QED  BY <2>1, <2>4, <2>5 DEF FeedInv, FeedTypes
<1> QED  BY FeedStarts, FeedSteps, <1>1, PTL DEF FeedSpec

=============================================================================
