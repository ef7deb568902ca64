---------------------------- MODULE ChannelEvents ----------------------------
(***************************************************************************)
(* The events of one replay-logged channel: the publish queue of           *)
(* http-server/websocket-events-host.js, the event log of                  *)
(* websocket-event-log-store.js, and subscribers that come back with the   *)
(* id of the last event they saw.  Two kinds of subscriber replay          *)
(* differently: a channel of the first kind (subscribeToChannel) holds     *)
(* live events back while it replays, one of the second kind               *)
(* (_handleChannelSubscribe) is registered first and replays then.         *)
(*                                                                         *)
(* The sessions run in worker threads (`threaded`, the default) or in the  *)
(* process of the host.  In worker threads they mark interest in a store   *)
(* of their own, and they cannot wait for the host's publishes.            *)
(*                                                                         *)
(* Events are numbered in the order they are published; rows of the log    *)
(* are inserted in that order, so the numbers are the rows' sequences.     *)
(***************************************************************************)
EXTENDS Naturals, Sequences, FiniteSets, SequencesExt, FiniteSetsExt

CONSTANTS
    First,       \* subscribers of the first kind
    Second,      \* subscribers of the second kind
    EventMax,    \* bound on the events
    PublishFaults \* bound on publishes that fail

ChannelSubs == First \cup Second

ASSUME ChannelAssumption ==
    /\ First \cap Second = {}
    /\ {EventMax, PublishFaults} \subseteq Nat

Events == 1..EventMax

VARIABLES
    accepted,   \* publishes so far
    queue,      \* publishQueuesByChannel: those not settled, the running one first
    publishing, \* what the running publish awaits: "idle", "interest", "persist"
    failedAt,   \* the publish that rejected the channel's tail, 0 if none did
    threaded,   \* do the sessions run in worker threads
    mapped,     \* _interestedChannels of the host's store: it has the "channel",
                \* only "others", or it is "empty"
    recorded,   \* is there a row of the channel's interest that has not lapsed
    log,        \* rows of the event log
    port,       \* events on their way to the process of the sessions
    subAt,      \* subAt[s]: what the subscribe handler of s awaits
    since,      \* since[s]: the event that lastEventId names, 0 if none
    ceiling,    \* ceiling[s]: ceilingSequence
    rows,       \* rows[s]: events read from the log and yet to be sent
    mark,       \* mark[s]: how many publishes have settled when s reads the log, those
                \* that its barrier waits for
    buffered,   \* those whose replay state is marked buffered
    seen,       \* seen[s]: the events sent to s, in order
    passed,     \* passed[s]: dispatched between the read of the ceiling and the
                \* registration of s
    publishFaults

publisher == <<accepted, queue, publishing, failedAt, publishFaults>>
interest == <<threaded, mapped, recorded>>
channelVars == <<publisher, interest, log, port, subAt, since, ceiling, rows,
                 mark, buffered, seen, passed>>

ChannelTypeOK ==
    /\ accepted \in 0..EventMax
    /\ queue \in Seq(Events)
    /\ publishing \in {"idle", "interest", "persist", "dispatch"}
    /\ publishing # "idle" => queue # <<>>
    /\ failedAt \in 0..EventMax
    /\ threaded \in BOOLEAN /\ mapped \in {"empty", "others", "channel"} /\ recorded \in BOOLEAN
    /\ log \subseteq Events
    /\ port \in Seq(Events)
    /\ subAt \in [ChannelSubs -> {"none", "hook", "hook2", "mark", "barrier", "checkpoint",
                            "ceiling", "register", "fetch", "replay", "refetch",
                            "resend", "live", "gap", "failed"}]
    /\ since \in [ChannelSubs -> 0..EventMax]
    /\ ceiling \in [ChannelSubs -> 0..EventMax]
    /\ \A s \in ChannelSubs : rows[s] \in Seq(Events) /\ seen[s] \in Seq(Events)
    /\ mark \in [ChannelSubs -> 0..EventMax]
    /\ buffered \subseteq First
    /\ passed \in [ChannelSubs -> SUBSET Events]
    /\ publishFaults \in 0..PublishFaults

ChannelInit ==
    /\ accepted = 0 /\ queue = <<>> /\ publishing = "idle" /\ failedAt = 0
    /\ threaded \in BOOLEAN /\ mapped = "empty" /\ recorded \in BOOLEAN
    /\ log = {} /\ port = <<>>
    /\ subAt = [s \in ChannelSubs |-> "none"]
    /\ since = [s \in ChannelSubs |-> 0]
    /\ ceiling = [s \in ChannelSubs |-> 0]
    /\ rows = [s \in ChannelSubs |-> <<>>]
    /\ mark = [s \in ChannelSubs |-> 0]
    /\ buffered = {}
    /\ seen = [s \in ChannelSubs |-> <<>>]
    /\ passed = [s \in ChannelSubs |-> {}]
    /\ publishFaults = 0

-----------------------------------------------------------------------------
(* Publishing                                                              *)

subscribers == <<subAt, since, ceiling, rows, mark, buffered, seen, passed>>

\* publish and broadcastV2: behind the channel's tail.
Publish ==
    /\ accepted < EventMax
    /\ accepted' = accepted + 1
    /\ queue' = Append(queue, accepted + 1)
    /\ UNCHANGED <<publishing, failedAt, publishFaults, interest, log, port, subscribers>>

\* _queuePublish: the next callback runs when the one before it has succeeded.
PublishBegins ==
    /\ publishing = "idle" /\ queue # <<>> /\ failedAt = 0
    /\ publishing' = "interest"
    /\ UNCHANGED <<accepted, queue, failedAt, publishFaults, interest, log, port, subscribers>>

\* Every handler is told, in the order of the queue.
Dispatched ==
    /\ port' = Append(port, Head(queue))
    /\ queue' = Tail(queue)
    /\ publishing' = "idle"

\* shouldPersistChannel: the row is read only while the map has an entry.
Interested == mapped = "channel" \/ (mapped = "others" /\ recorded)

PublishChecked ==
    /\ publishing = "interest"
    /\ IF Interested THEN publishing' = "persist" /\ UNCHANGED <<queue, port>>
                     ELSE Dispatched
    /\ UNCHANGED <<accepted, failedAt, publishFaults, interest, log, subscribers>>

\* appendEvent: the row is there ...
PublishPersisted ==
    /\ publishing = "persist"
    /\ log' = log \cup {Head(queue)}
    /\ publishing' = "dispatch"
    /\ UNCHANGED <<accepted, queue, failedAt, publishFaults, interest, port, subscribers>>

\* ... and its insert returns.
PublishReturns ==
    /\ publishing = "dispatch"
    /\ Dispatched
    /\ UNCHANGED <<accepted, failedAt, publishFaults, interest, log, subscribers>>

\* What can go wrong: the row of the interest is not read, the event is not
\* inserted, or a handler throws, before or after that of the sessions; the
\* answer to the insert is lost.  The tail stays rejected, nothing behind it runs.
PublishFails ==
    /\ publishFaults < PublishFaults
    /\ \/ publishing = "interest" /\ mapped = "others" /\ UNCHANGED port
       \/ publishing = "persist" /\ UNCHANGED port
       \/ /\ publishing = "dispatch" \/ (publishing = "interest" /\ ~Interested)
          /\ port' \in {port, Append(port, Head(queue))}
    /\ publishFaults' = publishFaults + 1
    /\ failedAt' = Head(queue)
    /\ queue' = Tail(queue)
    /\ publishing' = "idle"
    /\ UNCHANGED <<accepted, interest, log, subscribers>>

\* cleanupExpired removes the oldest rows.
Cleanup ==
    /\ log # {}
    /\ log' = log \ {Min(log)}
    /\ UNCHANGED <<publisher, interest, port, subscribers>>

\* Interest lapses, in the map and in its table, and other channels are marked.
InterestChanges ==
    /\ \/ recorded /\ recorded' = FALSE /\ UNCHANGED mapped
       \/ mapped = "channel" /\ mapped' \in {"empty", "others"} /\ UNCHANGED recorded
       \/ mapped = "others" /\ mapped' = "empty" /\ UNCHANGED recorded
       \/ mapped = "empty" /\ mapped' = "others" /\ UNCHANGED recorded
    /\ UNCHANGED <<publisher, threaded, log, port, subscribers>>

-----------------------------------------------------------------------------
(* Live events                                                             *)

\* Mutant: the second kind is registered when its replay is over.
ListensWhenLive(s) ==
    IF s \in Second THEN subAt[s] = "live"
    ELSE subAt[s] \in {"fetch", "replay", "refetch", "resend", "live"}

\* Is s registered for live events?
Listens(s) ==
    IF s \in Second
    THEN subAt[s] \in {"hook2", "barrier", "checkpoint", "ceiling", "fetch", "replay", "live", "gap"}
    ELSE subAt[s] \in {"fetch", "replay", "refetch", "resend", "live"}

\* channelReplayStates has an entry for s.
Replaying(s) == s \in First /\ subAt[s] \in {"fetch", "replay"}

\* The process of the sessions takes an event off its port: sendEvent for the
\* first kind, _broadcastToChannelLocal for the second.
Deliver ==
    /\ port # <<>>
    /\ port' = Tail(port)
    /\ LET e == Head(port)
       IN  /\ seen' = [s \in ChannelSubs |-> IF Listens(s) /\ ~Replaying(s)
                                             THEN Append(seen[s], e) ELSE seen[s]]
           /\ buffered' = buffered \cup {s \in First : Replaying(s)}
           /\ passed' = [s \in ChannelSubs |-> IF subAt[s] = "register"
                                               THEN passed[s] \cup {e} ELSE passed[s]]
    /\ UNCHANGED <<publisher, interest, log, subAt, since, ceiling, rows, mark>>

-----------------------------------------------------------------------------
(* Subscribing                                                             *)

At(s, where) == subAt' = [subAt EXCEPT ![s] = where]

\* Rows of the log after `low` up to `high`, in order (getEventsAfter).
RowsAfter(low, high) ==
    LET found == {e \in log : low < e /\ e <= high}
    IN  {r \in [1..Cardinality(found) -> found] :
            /\ \A e \in found : \E i \in DOMAIN r : r[i] = e
            /\ \A i, k \in DOMAIN r : i < k => r[i] < r[k]}

LatestSequence == IF log = {} THEN 0 ELSE Max(log)

\* A subscriber asks to be told what it missed after event e, or nothing (0).
AsksFirst(s, e) ==
    /\ s \in First /\ subAt[s] = "none" /\ e \in 0..(accepted - Len(queue))
    /\ since' = [since EXCEPT ![s] = e]
    /\ At(s, "mark")
    /\ UNCHANGED <<publisher, interest, log, port, ceiling, rows, mark, buffered, seen, passed>>

AsksSecond(s, e) ==
    /\ s \in Second /\ subAt[s] = "none" /\ e \in 0..(accepted - Len(queue))
    /\ since' = [since EXCEPT ![s] = e]
    /\ At(s, "hook")
    /\ UNCHANGED <<publisher, interest, log, port, ceiling, rows, mark, buffered, seen, passed>>

\* markChannelInterested: a worker thread's store has a map of its own.
MarksChannel ==
    /\ recorded' = TRUE
    /\ mapped' = IF threaded THEN mapped ELSE "channel"
    /\ UNCHANGED threaded

\* The first kind marks its channel; without a lastEventId there is nothing to
\* replay.
Marked(s) ==
    /\ subAt[s] = "mark"
    /\ MarksChannel
    /\ At(s, IF since[s] = 0 THEN "live" ELSE "checkpoint")
    /\ UNCHANGED <<publisher, log, port, since, ceiling, rows, mark, buffered, seen, passed>>

\* canSubscribe agrees: the subscription is registered; then subscribed() runs.
Allowed(s) ==
    /\ subAt[s] = "hook"
    /\ At(s, "hook2")
    /\ UNCHANGED <<publisher, interest, log, port, since, ceiling, rows, mark, buffered, seen, passed>>

\* subscribed() may mark the channel.  In the host's process the replay waits for
\* what is published by now, in a worker thread for nothing.
Hooked(s) ==
    /\ subAt[s] = "hook2"
    /\ UNCHANGED interest \/ MarksChannel
    /\ At(s, IF since[s] = 0 THEN "live" ELSE IF threaded THEN "checkpoint" ELSE "barrier")
    /\ mark' = [mark EXCEPT ![s] = IF threaded THEN accepted - Len(queue) ELSE accepted]
    /\ UNCHANGED <<publisher, log, port, since, ceiling, rows, buffered, seen, passed>>

\* awaitPendingBroadcasts: the publishes accepted so far have settled; if one
\* was rejected, here or on another channel, so is the subscription.
BarrierPassed(s) ==
    /\ subAt[s] = "barrier"
    /\ \/ At(s, "failed")
       \/ /\ ~(failedAt # 0 /\ failedAt <= mark[s])
          /\ mark[s] <= accepted - Len(queue)
          /\ At(s, "checkpoint")
    /\ UNCHANGED <<publisher, interest, log, port, since, ceiling, rows, mark, buffered, seen, passed>>

\* getEventById: the row may have expired, which ends the first kind's attempt
\* and the second kind's replay.
CheckpointRead(s) ==
    /\ subAt[s] = "checkpoint"
    /\ At(s, IF since[s] \in log THEN "ceiling" ELSE "gap")
    /\ UNCHANGED <<publisher, interest, log, port, since, ceiling, rows, mark, buffered, seen, passed>>

\* latestSequence: what is inserted from here on is not replayed.
CeilingRead(s) ==
    /\ subAt[s] = "ceiling"
    /\ LET top == IF LatestSequence = 0 THEN since[s] ELSE LatestSequence
       IN  /\ ceiling' = [ceiling EXCEPT ![s] = top]
           /\ At(s, IF s \in First THEN "register" ELSE IF top <= since[s] THEN "live" ELSE "fetch")
    /\ UNCHANGED <<publisher, interest, log, port, since, rows, mark, buffered, seen, passed>>

\* The handler of the first kind runs on: replay state and subscription.
RegisteredFirst(s) ==
    /\ s \in First /\ subAt[s] = "register"
    /\ At(s, "fetch")
    /\ UNCHANGED <<publisher, interest, log, port, since, ceiling, rows, mark, buffered, seen, passed>>

RowsRead(s) ==
    /\ subAt[s] = "fetch"
    /\ \E found \in RowsAfter(since[s], ceiling[s]) : rows' = [rows EXCEPT ![s] = found]
    /\ At(s, "replay")
    /\ UNCHANGED <<publisher, interest, log, port, since, ceiling, mark, buffered, seen, passed>>

\* The second kind sends all of them at once.
ReplaySecond(s) ==
    /\ s \in Second /\ subAt[s] = "replay"
    /\ seen' = [seen EXCEPT ![s] = @ \o rows[s]]
    /\ rows' = [rows EXCEPT ![s] = <<>>]
    /\ At(s, "live")
    /\ UNCHANGED <<publisher, interest, log, port, since, ceiling, mark, buffered, passed>>

\* The first kind may await a channel's handler for every event.
ReplayNext(s) ==
    /\ s \in First /\ subAt[s] \in {"replay", "resend"} /\ rows[s] # <<>>
    /\ seen' = [seen EXCEPT ![s] = Append(@, Head(rows[s]))]
    /\ rows' = [rows EXCEPT ![s] = Tail(@)]
    /\ UNCHANGED <<publisher, interest, log, port, subAt, since, ceiling, mark, buffered, passed>>

\* _finishReplayState: live again, and what was held back is read and sent.
ReplayFinished(s) ==
    /\ s \in First /\ subAt[s] = "replay" /\ rows[s] = <<>>
    /\ At(s, IF s \in buffered THEN "refetch" ELSE "live")
    /\ UNCHANGED <<publisher, interest, log, port, since, ceiling, rows, mark, buffered, seen, passed>>

HeldBackRead(s) ==
    /\ subAt[s] = "refetch"
    /\ \E held \in RowsAfter(ceiling[s], EventMax) : rows' = [rows EXCEPT ![s] = held]
    /\ At(s, "resend")
    /\ UNCHANGED <<publisher, interest, log, port, since, ceiling, mark, buffered, seen, passed>>

HeldBackSent(s) ==
    /\ subAt[s] = "resend" /\ rows[s] = <<>>
    /\ At(s, "live")
    /\ UNCHANGED <<publisher, interest, log, port, since, ceiling, rows, mark, buffered, seen, passed>>

PublishStep == Publish \/ PublishBegins \/ PublishChecked \/ PublishPersisted
               \/ PublishReturns \/ PublishFails

SubscriberStep(s) ==
    \/ \E e \in 0..EventMax : AsksFirst(s, e) \/ AsksSecond(s, e)
    \/ Marked(s) \/ Allowed(s) \/ Hooked(s) \/ BarrierPassed(s)
    \/ CheckpointRead(s) \/ CeilingRead(s) \/ RegisteredFirst(s) \/ RowsRead(s)
    \/ ReplaySecond(s) \/ ReplayNext(s) \/ ReplayFinished(s)
    \/ HeldBackRead(s) \/ HeldBackSent(s)

ChannelNext == PublishStep \/ Cleanup \/ InterestChanges \/ Deliver \/ \E s \in ChannelSubs : SubscriberStep(s)

ChannelSpec == ChannelInit /\ [][ChannelNext]_channelVars

-----------------------------------------------------------------------------
(* Properties                                                              *)

\* Events that a subscriber may still get.
UnderWay == ToSet(port) \cup ToSet(queue)

\* Every event the log holds after lastEventId was sent to s, or will be.
Complete(s, except) ==
    subAt[s] = "live" /\ since[s] > 0 =>
        \A e \in log : e > since[s] => e \in ToSet(seen[s]) \cup UnderWay \cup except

\* A subscription of the second kind that resumed with lastEventId misses
\* nothing, whatever is published, persisted, dispatched and expires while its
\* handler goes from one read of the log to the next: but for the event whose
\* publish failed when it had been inserted, which nobody is sent any more.
ReplayLosesNothing == \A s \in Second : Complete(s, {failedAt})

\* The first kind may also miss what is dispatched between its read of the
\* ceiling and its registration: what it holds back it sends.
FirstKindLosesOnlyInGap == \A s \in First : Complete(s, passed[s] \cup {failedAt})

\* Until its replay is over, a subscriber of the first kind is sent events in
\* their order: nothing live overtakes what it missed.
ReplayInOrder ==
    \A s \in First : subAt[s] \in {"fetch", "replay"} =>
        \A i \in 1..Len(seen[s]) - 1 : seen[s][i] < seen[s][i + 1]

\* A failed publish ends the channel: nothing behind it is persisted or reaches
\* a subscriber, and in the host's process no subscriber whose barrier saw it
\* becomes live.
FailureStopsChannel ==
    failedAt > 0 =>
        /\ \A e \in log \cup ToSet(port) : e <= failedAt
        /\ \A s \in ChannelSubs : \A e \in ToSet(seen[s]) : e <= failedAt
        /\ \A s \in Second : ~threaded /\ subAt[s] = "live" /\ since[s] > 0 => failedAt > mark[s]

\* What a subscriber with a replay point is promised: every persisted event
\* after it, in order, through the hand-over from replay to live delivery.
ChannelInv ==
    /\ ChannelTypeOK /\ ReplayLosesNothing /\ FirstKindLosesOnlyInGap
    /\ ReplayInOrder /\ FailureStopsChannel

=============================================================================
