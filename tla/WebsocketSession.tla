-------------------------- MODULE WebsocketSession --------------------------
(***************************************************************************)
(* The server side of websocket clients                                    *)
(* (http-server/client/websocket-session.js and the registry of paused     *)
(* sessions in configuration.js): messages handled one at a time, handles  *)
(* (channel subscriptions and connections) opened by callbacks that await  *)
(* and closed by either side, sockets that are lost long before it is      *)
(* noticed, sessions that pause, resume on another socket or expire, and   *)
(* broadcasts throughout.                                                  *)
(*                                                                         *)
(* A socket stands for the session object made for it.  Every handle is    *)
(* opened once.  Broadcasts of a handle are numbered, so that what the     *)
(* client got can be compared with what was sent.                          *)
(***************************************************************************)
EXTENDS Naturals, Sequences, FiniteSets, SequencesExt

CONSTANTS
    Sockets,      \* the sockets clients connect, one after another or at once
    Channels,     \* channel subscriptions, by id
    Connections,  \* websocket connections, by id
    Resolvers,    \* is an identity resolver configured: subset of BOOLEAN
    MaxPending,   \* _inboundMaxPendingMessages
    PausedCap,    \* WEBSOCKET_PAUSED_QUEUE_CAP
    MessageMax,   \* bound on the messages of a socket
    BroadcastMax, \* bound on the broadcasts of a subscription
    NoSession

Handles == Channels \cup Connections

ASSUME SessionAssumption ==
    /\ Channels \cap Connections = {}
    /\ Resolvers \subseteq BOOLEAN
    /\ {MaxPending, PausedCap} \subseteq Nat \ {0}
    /\ {MessageMax, BroadcastMax} \subseteq Nat
    /\ NoSession \notin Sockets

\* session-resume names the session by its id, which is the socket it began on.
Messages == [op : {"open", "end"}, on : Handles] \cup [op : {"resume"}, on : Sockets]

VARIABLES
    resolver,  \* is an identity resolver configured
    sess,      \* sess[s]: "none" before the upgrade, "open", "paused", "dead"
    sid,       \* sid[s]: sessionId
    cut,       \* sockets that are gone and whose sessions do not know it yet
    grace,     \* grace[id]: _pausedWebsocketSessions, each with its timer
    inbox,     \* inbox[s]: messages on _messageChain, the running one included
    stage,     \* stage[s]: what the running handler awaits
    claimed,   \* claimed[s]: the paused session a resume has found
    shut,      \* shut: sessions with _inboundClosed
    pendingIn, \* pendingIn[s]: _inboundPendingMessages
    messages,  \* messages[s]: how many the socket has sent
    reg,       \* reg[s]: _channelSubscriptions and _connections
    holder,    \* holder[h]: the session the handle's object points to
    life,      \* life[h]: "none", "asked", "open", "over", or "closed" by the server
    serverClosing,   \* connections whose close() awaits onClose
    ends,      \* ends[h]: how often unsubscribed or onClose was called
    bucket,    \* subscriptions registered for broadcasts
    outq,      \* outq[s]: _outboundQueue, pairs of a handle and a number
    sent,      \* sent[h]: the broadcasts so far
    got,       \* got[h]: what reached the client, in order
    skipped,   \* skipped[h]: those that a full paused queue or a lost socket dropped
    late       \* handles a handler gave to a session that was dead already

work == <<inbox, stage, claimed, shut, pendingIn, messages>>
handles == <<reg, holder, life, serverClosing, ends, bucket, late>>
traffic == <<outq, sent, got, skipped>>
sessVars == <<resolver, sess, cut, sid, grace, work, handles, traffic>>

SessionTypeOK ==
    /\ resolver \in BOOLEAN
    /\ sess \in [Sockets -> {"none", "open", "paused", "dead"}]
    /\ cut \subseteq Sockets
    /\ sid \in [Sockets -> Sockets]
    /\ grace \in [Sockets -> Sockets \cup {NoSession}]
    /\ \A s \in Sockets : inbox[s] \in Seq(Messages)
    /\ stage \in [Sockets -> {"idle", "hook", "subscribed", "ending", "identity", "onResume"}]
    /\ claimed \in [Sockets -> Sockets \cup {NoSession}]
    /\ shut \subseteq Sockets
    /\ pendingIn \in [Sockets -> 0..MaxPending]
    /\ messages \in [Sockets -> 0..MessageMax]
    /\ reg \in [Sockets -> SUBSET Handles]
    /\ holder \in [Handles -> Sockets \cup {NoSession}]
    /\ life \in [Handles -> {"none", "asked", "open", "over", "closed"}]
    /\ serverClosing \subseteq Connections
    /\ ends \in [Handles -> Nat]
    /\ bucket \subseteq Channels
    /\ \A s \in Sockets : /\ outq[s] \in Seq(Channels \X (1..BroadcastMax))
                          /\ Len(outq[s]) <= PausedCap
    /\ sent \in [Channels -> 0..BroadcastMax]
    /\ \A h \in Channels : got[h] \in Seq(1..BroadcastMax)
    /\ skipped \in [Channels -> SUBSET (1..BroadcastMax)]
    /\ late \subseteq Handles

SessionInit ==
    /\ resolver \in Resolvers
    /\ sess = [s \in Sockets |-> "none"] /\ cut = {}
    /\ sid = [s \in Sockets |-> s]
    /\ grace = [s \in Sockets |-> NoSession]
    /\ inbox = [s \in Sockets |-> <<>>]
    /\ stage = [s \in Sockets |-> "idle"]
    /\ claimed = [s \in Sockets |-> NoSession]
    /\ shut = {}
    /\ pendingIn = [s \in Sockets |-> 0]
    /\ messages = [s \in Sockets |-> 0]
    /\ reg = [s \in Sockets |-> {}]
    /\ holder = [h \in Handles |-> NoSession]
    /\ life = [h \in Handles |-> "none"] /\ serverClosing = {}
    /\ ends = [h \in Handles |-> 0]
    /\ bucket = {}
    /\ outq = [s \in Sockets |-> <<>>]
    /\ sent = [h \in Channels |-> 0]
    /\ got = [h \in Channels |-> <<>>]
    /\ skipped = [h \in Channels |-> {}]
    /\ late = {}

-----------------------------------------------------------------------------
(* Closing                                                                 *)

\* The life of the handles when those of H have ended; what the server has closed
\* stays closed.
Ended(H) == [h \in Handles |-> IF h \in H /\ life[h] # "closed" THEN "over" ELSE life[h]]

\* Mutant: the subscriptions are not unregistered.
TornDownListed(H) ==
    /\ life' = Ended(H)
    /\ ends' = [h \in Handles |-> IF h \in H THEN ends[h] + 1 ELSE ends[h]]
    /\ UNCHANGED bucket

\* _teardownConnections and _teardownChannelSubscriptions: the handles of H end,
\* and their callbacks are called, be they closed already or not.
TornDown(H) ==
    /\ life' = Ended(H)
    /\ ends' = [h \in Handles |-> IF h \in H THEN ends[h] + 1 ELSE ends[h]]
    /\ bucket' = bucket \ H

\* _abandonInboundMessages
Abandon(S) ==
    /\ shut' = shut \cup S
    /\ pendingIn' = [s \in Sockets |-> IF s \in S THEN 0 ELSE pendingIn[s]]

\* The branch of _handleClose that destroys the session, and the destroy() its
\* "close" event leads to.
Destroyed(s) ==
    /\ Abandon({s})
    /\ sess' = [sess EXCEPT ![s] = "dead"]
    /\ TornDown(reg[s])
    /\ reg' = [reg EXCEPT ![s] = {}]
    /\ UNCHANGED grace

\* Mutant: the entry is made under the id the session was born with.
PausedUnderOldId(s) ==
    /\ Abandon({s})
    /\ sess' = [sess EXCEPT ![s] = "paused"]
    /\ grace' = [grace EXCEPT ![s] = IF @ = NoSession THEN s ELSE @]
    /\ UNCHANGED <<reg, life, ends, bucket>>

\* The branch that pauses it: the first session paused under an id has the entry.
Paused(s) ==
    /\ Abandon({s})
    /\ sess' = [sess EXCEPT ![s] = "paused"]
    /\ grace' = [grace EXCEPT ![sid[s]] = IF @ = NoSession THEN s ELSE @]
    /\ UNCHANGED <<reg, life, ends, bucket>>

MayPause(s, allowResume) == allowResume /\ reg[s] # {}

HandleClose(s, allowResume) ==
    IF MayPause(s, allowResume) THEN Paused(s) ELSE Destroyed(s)

\* The socket is gone.  Nobody tells the session (handleClientAbort forgets the
\* client alone): what it sends from here on is dropped.
SocketLost(s) ==
    /\ sess[s] = "open" /\ s \notin cut
    /\ cut' = cut \cup {s}
    /\ UNCHANGED <<resolver, sess, sid, grace, work, handles, traffic>>

\* A close frame, or a heartbeat that was not answered.
Drop(s) ==
    /\ sess[s] = "open"
    /\ HandleClose(s, TRUE)
    /\ cut' = cut \ {s}
    /\ UNCHANGED <<resolver, sid, inbox, stage, claimed, messages, holder, serverClosing, late, traffic>>

\* _expireWebsocketSession
GraceExpires(id) ==
    LET p == grace[id]
    IN  /\ p # NoSession
        /\ grace' = [grace EXCEPT ![id] = NoSession]
        /\ Abandon({p})
        /\ sess' = [sess EXCEPT ![p] = "dead"]
        /\ TornDown(reg[p])
        /\ reg' = [reg EXCEPT ![p] = {}]
        /\ UNCHANGED <<resolver, cut, sid, inbox, stage, claimed, messages, holder, serverClosing, late, traffic>>

-----------------------------------------------------------------------------
(* Messages                                                                *)

\* A websocket upgrade.
Connect(s) ==
    /\ sess[s] = "none"
    /\ sess' = [sess EXCEPT ![s] = "open"]
    /\ UNCHANGED <<resolver, cut, sid, grace, work, handles, traffic>>

\* What a client sends: it opens every handle once, ends one it has asked for
\* and resumes a session it had on another socket.
Sendable(s, m) ==
    CASE m.op = "open" -> life[m.on] = "none"
      [] m.op = "end" -> life[m.on] \in {"asked", "open"} \/ m.on \in serverClosing
      [] m.op = "resume" -> m.on # s /\ sess[m.on] # "none"

\* _admitInboundMessage
CanAdmit(s) == pendingIn[s] < MaxPending

\* A message arrives and is admitted.
Receive(s, m) ==
    /\ sess[s] = "open" /\ s \notin cut /\ messages[s] < MessageMax /\ Sendable(s, m)
    /\ CanAdmit(s)
    /\ messages' = [messages EXCEPT ![s] = @ + 1]
    /\ inbox' = [inbox EXCEPT ![s] = Append(@, m)]
    /\ pendingIn' = [pendingIn EXCEPT ![s] = @ + 1]
    /\ life' = IF m.op = "open" THEN [life EXCEPT ![m.on] = "asked"] ELSE life
    /\ UNCHANGED <<resolver, sess, cut, sid, grace, stage, claimed, shut, reg, holder, serverClosing, ends,
                   bucket, late, traffic>>

\* _closeForInboundBacklog
Overload(s) ==
    /\ sess[s] = "open" /\ s \notin cut /\ messages[s] < MessageMax
    /\ ~CanAdmit(s)
    /\ messages' = [messages EXCEPT ![s] = @ + 1]
    /\ HandleClose(s, FALSE)
    /\ UNCHANGED <<resolver, cut, sid, inbox, stage, claimed, holder, serverClosing, late, traffic>>

\* The running handler of s is over: its admission is released, unless the
\* accounting has started anew.
HandlerDone(s) ==
    /\ inbox' = [inbox EXCEPT ![s] = Tail(@)]
    /\ stage' = [stage EXCEPT ![s] = "idle"]
    /\ pendingIn' = IF s \in shut THEN pendingIn ELSE [pendingIn EXCEPT ![s] = @ - 1]

Awaits(s, what) ==
    /\ stage' = [stage EXCEPT ![s] = what]
    /\ UNCHANGED <<inbox, pendingIn>>

NextIs(s, op) == inbox[s] # <<>> /\ stage[s] = "idle" /\ Head(inbox[s]).op = op /\ s \notin shut

On(s) == Head(inbox[s]).on

\* _runMessageWork on a message that was abandoned.
DiscardMessage(s) ==
    /\ inbox[s] # <<>> /\ stage[s] = "idle" /\ s \in shut
    /\ HandlerDone(s)
    /\ UNCHANGED <<resolver, sess, cut, sid, grace, claimed, shut, messages, handles, traffic>>

\* _handleConnectionOpen up to onConnect, _handleChannelSubscribe up to
\* canSubscribe.
BeginOpen(s) ==
    /\ NextIs(s, "open")
    /\ holder' = [holder EXCEPT ![On(s)] = s]
    /\ Awaits(s, "hook")
    /\ UNCHANGED <<resolver, sess, cut, sid, grace, claimed, shut, messages, reg, life, serverClosing,
                   ends, bucket, late, traffic>>

\* The handle is registered, whatever became of the session meanwhile; a
\* subscription awaits subscribed() and its replay then.
Registered(s) ==
    /\ stage[s] = "hook"
    /\ LET h == On(s)
       IN  /\ reg' = [reg EXCEPT ![s] = @ \cup {h}]
           /\ life' = IF life[h] = "closed" THEN life ELSE [life EXCEPT ![h] = "open"]
           /\ late' = IF sess[s] = "dead" THEN late \cup {h} ELSE late
           /\ IF h \in Channels
              THEN /\ bucket' = bucket \cup {h}
                   /\ Awaits(s, "subscribed")
              ELSE HandlerDone(s) /\ UNCHANGED bucket
    /\ UNCHANGED <<resolver, sess, cut, sid, grace, claimed, shut, messages, holder, serverClosing, ends,
                   traffic>>

\* onConnect throws, or canSubscribe throws or says no.
Refused(s) ==
    /\ stage[s] = "hook"
    /\ life' = Ended({On(s)})
    /\ HandlerDone(s)
    /\ UNCHANGED <<resolver, sess, cut, sid, grace, claimed, shut, messages, reg, holder, serverClosing,
                   ends, bucket, late, traffic>>

Subscribed(s) ==
    /\ stage[s] = "subscribed"
    /\ HandlerDone(s)
    /\ UNCHANGED <<resolver, sess, cut, sid, grace, claimed, shut, messages, handles, traffic>>

\* subscribed() or the replay throws: the subscription is dropped.
SubscribedFails(s) ==
    /\ stage[s] = "subscribed"
    /\ HandlerDone(s)
    /\ reg' = [reg EXCEPT ![s] = @ \ {On(s)}]
    /\ bucket' = bucket \ {On(s)}
    /\ UNCHANGED <<resolver, sess, cut, sid, grace, claimed, shut, messages, holder, life, serverClosing,
                   ends, late, traffic>>

\* _handleConnectionClose and _handleChannelUnsubscribe up to their callback.
BeginEnd(s) ==
    /\ NextIs(s, "end")
    /\ IF On(s) \in reg[s]
       THEN /\ TornDown({On(s)})
            /\ reg' = [reg EXCEPT ![s] = @ \ {On(s)}]
            /\ Awaits(s, "ending")
       ELSE HandlerDone(s) /\ UNCHANGED <<reg, life, ends, bucket>>
    /\ UNCHANGED <<resolver, sess, cut, sid, grace, claimed, shut, messages, holder, serverClosing, late,
                   traffic>>

\* The callback has returned; likewise _fireOnResume.
CallbackReturns(s) ==
    /\ stage[s] \in {"ending", "onResume"}
    /\ HandlerDone(s)
    /\ UNCHANGED <<resolver, sess, cut, sid, grace, claimed, shut, messages, handles, traffic>>

\* WebsocketConnection.close() by the server, perhaps while onConnect runs: onClose
\* is called ...
BeginServerClose(h) ==
    /\ h \in Connections
    /\ life[h] = "open" \/ (life[h] = "asked" /\ \E s \in Sockets : stage[s] = "hook" /\ On(s) = h)
    /\ life' = [life EXCEPT ![h] = "closed"]
    /\ ends' = [ends EXCEPT ![h] = @ + 1]
    /\ serverClosing' = serverClosing \cup {h}
    /\ UNCHANGED <<resolver, sess, cut, sid, grace, work, reg, holder, bucket, late, traffic>>

\* ... and when it has returned the session forgets the connection.
ServerCloses(h) ==
    /\ h \in serverClosing
    /\ serverClosing' = serverClosing \ {h}
    /\ reg' = [reg EXCEPT ![holder[h]] = @ \ {h}]
    /\ UNCHANGED <<resolver, sess, cut, sid, grace, work, holder, life, ends, bucket, late, traffic>>

-----------------------------------------------------------------------------
(* Resumption                                                              *)

\* The numbers of h in the queue q.
NumbersOf(h, q) == LET mine == SelectSeq(q, LAMBDA e : e[1] = h)
                   IN  [i \in 1..Len(mine) |-> mine[i][2]]

\* sendJson of the messages q on session s: out (and lost, if the socket is), into
\* the paused queue (which drops its oldest), or nowhere; the queues were Q.
SentOn(s, q, Q) ==
    LET all == Q[s] \o q
        over == IF Len(all) > PausedCap THEN Len(all) - PausedCap ELSE 0
        Skips(lost) == skipped' = [h \in Channels |-> skipped[h] \cup ToSet(NumbersOf(h, lost))]
    IN  CASE sess[s] = "open" /\ s \notin cut ->
               /\ got' = [h \in Channels |-> got[h] \o NumbersOf(h, q)]
               /\ outq' = Q
               /\ UNCHANGED skipped
          [] sess[s] = "open" /\ s \in cut -> outq' = Q /\ Skips(q) /\ UNCHANGED got
          [] sess[s] = "paused" ->
               /\ outq' = [Q EXCEPT ![s] = SubSeq(all, over + 1, Len(all))]
               /\ Skips(SubSeq(all, 1, over))
               /\ UNCHANGED got
          [] OTHER -> outq' = Q /\ UNCHANGED <<got, skipped>>

\* The rest of _handleSessionResume once the identities agree: s takes over the
\* handles and the queue of p, which is destroyed.
Claim(s, p, id) ==
    /\ grace' = [grace EXCEPT ![id] = NoSession]
    /\ reg' = [reg EXCEPT ![s] = @ \cup reg[p], ![p] = {}]
    /\ holder' = [h \in Handles |-> IF h \in reg[p] THEN s ELSE holder[h]]
    /\ sid' = [sid EXCEPT ![s] = id]
    /\ SentOn(s, outq[p], [outq EXCEPT ![p] = <<>>])
    /\ sess' = [sess EXCEPT ![p] = "dead"]
    /\ Abandon({p})
    /\ stage' = [stage EXCEPT ![s] = "onResume"]
    /\ late' = IF sess[s] = "dead" THEN late \cup reg[p] ELSE late
    /\ UNCHANGED <<cut, inbox, life, serverClosing, ends, bucket, sent>>

\* Without a resolver nothing is awaited between finding and claiming.
BeginResume(s) ==
    LET p == grace[On(s)]
    IN  /\ NextIs(s, "resume")
        /\ IF p = NoSession
           THEN HandlerDone(s) /\ UNCHANGED <<sess, cut, sid, grace, claimed, shut, handles, traffic>>
           ELSE IF resolver
           THEN /\ claimed' = [claimed EXCEPT ![s] = p]
                /\ Awaits(s, "identity")
                /\ UNCHANGED <<sess, cut, sid, grace, shut, handles, traffic>>
           ELSE Claim(s, p, On(s)) /\ UNCHANGED claimed
        /\ UNCHANGED <<resolver, messages>>

IdentityMatches(s) ==
    /\ stage[s] = "identity"
    /\ Claim(s, claimed[s], On(s))
    /\ claimed' = [claimed EXCEPT ![s] = NoSession]
    /\ UNCHANGED <<resolver, messages>>

\* The paused session is finalized and the client told that it is gone.
IdentityDiffers(s) ==
    LET p == claimed[s]
    IN  /\ stage[s] = "identity"
        /\ grace' = [grace EXCEPT ![On(s)] = NoSession]
        /\ sess' = [sess EXCEPT ![p] = "dead"]
        /\ TornDown(reg[p])
        /\ reg' = [reg EXCEPT ![p] = {}]
        /\ claimed' = [claimed EXCEPT ![s] = NoSession]
        /\ shut' = shut \cup {p}
        /\ HandlerDone(s)
        /\ UNCHANGED <<resolver, cut, sid, messages, holder, serverClosing, late, traffic>>

-----------------------------------------------------------------------------
\* A broadcast reaches a registered subscription (_broadcastToChannelLocal).
Broadcast(h) ==
    /\ h \in bucket /\ sent[h] < BroadcastMax
    /\ sent' = [sent EXCEPT ![h] = @ + 1]
    /\ SentOn(holder[h], <<<<h, sent[h] + 1>>>>, outq)
    /\ UNCHANGED <<resolver, sess, cut, sid, grace, work, handles>>

SessionNext ==
    \/ \E s \in Sockets :
         \/ Connect(s) \/ SocketLost(s) \/ Drop(s) \/ Overload(s) \/ DiscardMessage(s)
         \/ \E m \in Messages : Receive(s, m)
         \/ BeginOpen(s) \/ Registered(s) \/ Refused(s) \/ Subscribed(s) \/ SubscribedFails(s)
         \/ BeginEnd(s) \/ CallbackReturns(s)
         \/ BeginResume(s) \/ IdentityMatches(s) \/ IdentityDiffers(s)
         \/ GraceExpires(s)
    \/ \E h \in Channels : Broadcast(h)
    \/ \E h \in Connections : BeginServerClose(h) \/ ServerCloses(h)

SessionSpec == SessionInit /\ [][SessionNext]_sessVars

-----------------------------------------------------------------------------
(* Properties                                                              *)

\* However drops, expiries, resumptions and the client's own messages race,
\* unsubscribed() and onClose() are called at most once: but for a connection that
\* the server closes, which the client or a teardown may close again while its
\* close() awaits onClose, or ever after if onConnect itself closed it.
EndsAtMostOnce ==
    \A h \in Handles : ends[h] <= IF life[h] = "closed" THEN 2 ELSE 1

\* A handle belongs to one session, the one its object sends through, so that a
\* message never goes out on a socket that another client holds.
OneHolder ==
    \A s \in Sockets : \A h \in reg[s] :
        holder[h] = s /\ \A t \in Sockets \ {s} : h \notin reg[t]

\* While its session lives, the client has got, or will get on resumption, the
\* broadcasts since the subscription was registered, in order, each once, and all
\* but those that a full paused queue or a socket lost without notice dropped (a
\* subscription that a handler gave to a dead session is out of reach until a
\* running resumption revives it).
DeliveredInOrder ==
    \A s \in Sockets : \A h \in (reg[s] \cap bucket) \ late : sess[s] # "dead" =>
        LET all == got[h] \o NumbersOf(h, outq[s])
        IN  /\ \A i \in 1..Len(all) - 1 : all[i] < all[i + 1]
            /\ ToSet(all) = 1..sent[h] \ skipped[h]

\* A dead session keeps no handle whose end nobody will call, but for those
\* that a handler running since before the end gave it.
TeardownComplete == \A s \in Sockets : sess[s] = "dead" => reg[s] \subseteq late

\* Without an identity resolver a paused session has its entry, and with it the
\* timer that ends it, until it is resumed.
PausedIsTracked ==
    ~resolver => \A s \in Sockets : sess[s] = "paused" => grace[sid[s]] = s

\* The inbound budget is what the session works on: a session that lives is
\* neither closed for messages that are done nor does it take more than the cap.
AdmissionExact ==
    \A s \in Sockets : pendingIn[s] = IF s \in shut THEN 0 ELSE Len(inbox[s])

\* After unsubscribed() the subscription is silent (with a resolver a grace
\* timer may end the session between the two halves of its resumption).
EndedIsSilent ==
    [][~resolver => \A h \in Channels : ends[h] > 0 => got'[h] = got[h]]_sessVars

\* "unsubscribed() fires exactly once ... on session teardown": no handle is
\* left in a session that is gone.
NoHandleLeftBehind == \A s \in Sockets : sess[s] = "dead" => reg[s] = {}

\* What a session promises over lost and resumed sockets: one holder of every
\* handle, messages in order, one end, and nothing left behind by a teardown.
SessionInv ==
    /\ SessionTypeOK /\ EndsAtMostOnce /\ OneHolder /\ DeliveredInOrder
    /\ TeardownComplete /\ PausedIsTracked /\ AdmissionExact

=============================================================================
