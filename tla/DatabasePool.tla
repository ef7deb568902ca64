---------------------------- MODULE DatabasePool ----------------------------
(***************************************************************************)
(* The connection pool of one database identifier,                         *)
(* database/pool/async-tracked-multi-connection.js: checkouts that take an *)
(* idle connection, open one below the cap or queue; the drain that serves *)
(* the queue; the reaper; check-in, discard, the captured connections of   *)
(* tenant databases and closeAll.                                          *)
(*                                                                         *)
(* JavaScript runs one callback at a time, so the code between two awaits  *)
(* is one step.  An await of I/O (connect, close, name, clean up) is a     *)
(* step boundary.  After an await of a promise that has settled already    *)
(* the code is due at once: other callbacks run first only if Ticks is     *)
(* TRUE, that is, if they became due in the same turn of the event loop.   *)
(***************************************************************************)
EXTENDS Naturals, Sequences, FiniteSets, SequencesExt, Functions

CONSTANTS
    Clients,      \* callers of withConnection, checkout and discard
    Conns,        \* connection objects, each opened at most once
    ReuseKeys,    \* physical databases (getConfigurationReuseKey)
    PoolMax,      \* pool.max
    PoolFaults,   \* bound on failing connects, closes, names and cleanups
    Closes,       \* bound on calls of closeAll and closeCapturedConnection
    Ticks,        \* may callbacks run between a settled promise and its await
    Drainer,      \* the one running drainPendingCheckoutsActual
    Reaper,       \* the idle timer's callback
    Closer,       \* a running closeAll or closeCapturedConnection
    NoConn

ASSUME PoolAssumption ==
    /\ PoolMax \in Nat \ {0}
    /\ PoolFaults \in Nat
    /\ Closes \in Nat
    /\ Ticks \in BOOLEAN
    /\ NoConn \notin Conns
    /\ Cardinality({Drainer, Reaper, Closer}) = 3
    /\ {Drainer, Reaper, Closer} \cap Clients = {}

PoolProcs == Clients \cup {Drainer, Reaper, Closer}

VARIABLES
    conn,      \* conn[c]: the collection that holds connection c
    dead,      \* connections with the CLOSED_CONNECTION mark
    connKey,   \* the reuse key stamped on the connection, NoConn before
    pp,        \* pp[p]: what process p waits for
    hand,      \* hand[p]: the connection process p works on
    want,      \* want[p]: the reuse key process p asked for
    todo,      \* todo[p]: connections p took out of the pool and has yet to close
    pending,   \* pendingCheckouts
    serving,   \* the checkout the drain works on
    heard,     \* does a waitForCheckout listen to the running drain
    kept,      \* lifecycleRetainedReuseKeys
    undo,      \* openCapturedConnections that forget their key if they fail
    retained,  \* lifecycleRetainedConnections
    poolFaults, closes

keeping == <<kept, undo, retained>>
poolVars == <<conn, dead, connKey, pp, hand, want, todo, pending, serving,
              heard, kept, undo, retained, poolFaults, closes>>

\* "idle" is connections, "used" connectionsInUse, "kept" a retained connection
\* that is checked in.  Outside every collection: "new", "loose" (opened, not
\* yet registered), "cut" (closeAll dropped it under its user), "closing",
\* "closed", and "lost" (open, known to nobody).
PoolTypeOK ==
    /\ conn \in [Conns -> {"new", "loose", "idle", "used", "kept", "cut",
                           "closing", "closed", "lost"}]
    /\ dead \subseteq Conns
    /\ connKey \in [Conns -> ReuseKeys \cup {NoConn}]
    /\ pp \in [PoolProcs -> {"off", "reap", "reap2", "spawn", "spawned",
                             "naming", "unname", "waiting", "using", "cleaning",
                             "discard", "failed", "top", "evict", "ending",
                             "close"}]
    /\ hand \in [PoolProcs -> Conns \cup {NoConn}]
    /\ want \in [PoolProcs -> ReuseKeys \cup {NoConn}]
    /\ todo \in [PoolProcs -> SUBSET Conns]
    /\ pending \in Seq(Clients) /\ IsInjective(pending)
    /\ serving \in Clients \cup {NoConn}
    /\ heard \in BOOLEAN
    /\ kept \subseteq ReuseKeys
    /\ undo \subseteq Clients
    /\ retained \in [ReuseKeys -> Conns \cup {NoConn}]
    /\ poolFaults \in 0..PoolFaults
    /\ closes \in 0..Closes

PoolInit ==
    /\ conn = [c \in Conns |-> "new"]
    /\ dead = {}
    /\ connKey = [c \in Conns |-> NoConn]
    /\ pp = [p \in PoolProcs |-> "off"]
    /\ hand = [p \in PoolProcs |-> NoConn]
    /\ want = [p \in PoolProcs |-> NoConn]
    /\ todo = [p \in PoolProcs |-> {}]
    /\ pending = <<>>
    /\ serving = NoConn
    /\ heard = FALSE
    /\ kept = {}
    /\ undo = {}
    /\ retained = [k \in ReuseKeys |-> NoConn]
    /\ poolFaults = 0
    /\ closes = 0

-----------------------------------------------------------------------------
ConnsIn(state) == {c \in Conns : conn[c] = state}

\* takeIdleConnectionForReuseKey takes any of these: their order in the list
\* is left open.  An idle connection has no open transaction (check-in rolls
\* it back), so the includeOpenTransactions option makes no difference.
IdleFor(k) == {c \in ConnsIn("idle") : connKey[c] = k}

LiveCount == Cardinality(ConnsIn("idle") \cup ConnsIn("used") \cup ConnsIn("kept"))
             + Cardinality({p \in PoolProcs : pp[p] = "spawn"})

CanSpawn == LiveCount < PoolMax

Move(C, state) == [c \in Conns |-> IF c \in C THEN state ELSE conn[c]]

\* The drain pp[Drainer] after drainPendingCheckouts: a running one is joined.
Poked(pps) == IF pps[Drainer] = "off" THEN [pps EXCEPT ![Drainer] = "top"] ELSE pps

\* Rejecting the checkouts of P; openCapturedConnection then forgets its key.
Reject(P, pps) ==
    /\ pp' = [p \in PoolProcs |-> IF p \in P THEN "off" ELSE pps[p]]
    /\ kept' = kept \ {want[p] : p \in P \cap undo}
    /\ undo' = undo \ P
    /\ want' = [p \in PoolProcs |-> IF p \in P THEN NoConn ELSE want[p]]
    /\ UNCHANGED retained

\* activateConnection up to its await of setConnectionCheckoutName.
Activate(p, c) ==
    /\ conn' = [conn EXCEPT ![c] = "used"]
    /\ hand' = [hand EXCEPT ![p] = c]
    /\ pp' = [pp EXCEPT ![p] = "naming"]

\* The synchronous part of reapIdleConnections: any of the idle connections may
\* have expired, closed ones are dropped, the others are closed one by one.
\* The wait for closes that somebody else began only delays and is left out.
StartReap(p, at) ==
    \E E \in SUBSET (ConnsIn("idle") \ dead) :
        /\ conn' = [c \in Conns |-> IF c \in E THEN "closing"
                                    ELSE IF conn[c] = "idle" /\ c \in dead THEN "closed"
                                    ELSE conn[c]]
        /\ todo' = [todo EXCEPT ![p] = E]
        /\ pp' = [pp EXCEPT ![p] = at]

-----------------------------------------------------------------------------
(* Checkout                                                                *)

\* A client stands for the checkout it makes, so it makes another one only
\* when the drain has let go of the last.
MayCheckout(p) == pp[p] = "off" /\ p # serving

\* checkout: an idle connection, or a reap and then CheckoutAfterReap.
Checkout(p, k) ==
    /\ MayCheckout(p)
    /\ want' = [want EXCEPT ![p] = k]
    /\ \/ \E c \in IdleFor(k) : Activate(p, c) /\ UNCHANGED todo
       \/ IdleFor(k) = {} /\ StartReap(p, "reap") /\ UNCHANGED hand
    /\ UNCHANGED <<dead, connKey, pending, serving, heard, keeping, poolFaults, closes>>

\* checkoutForConfiguration: the retained connection of the key comes first.
CheckoutCaptured(p, k) ==
    /\ MayCheckout(p)
    /\ want' = [want EXCEPT ![p] = k]
    /\ LET first == {retained[k]} \cap ConnsIn("kept")
           C == IF first # {} THEN first ELSE IdleFor(k)
       IN  \/ \E c \in C : Activate(p, c) /\ UNCHANGED todo
           \/ C = {} /\ StartReap(p, "reap") /\ UNCHANGED hand
    /\ UNCHANGED <<dead, connKey, pending, serving, heard, retained, poolFaults, closes>>

\* openCapturedConnection: retain the key, check out, and check in (CleanOk).
OpenCaptured(p, k) ==
    /\ CheckoutCaptured(p, k)
    /\ kept' = kept \cup {k}
    /\ undo' = IF k \in kept THEN undo ELSE undo \cup {p}

\* waitForCheckout, when neither an idle connection nor capacity is left.
CheckoutAfterReap(p) ==
    /\ p \in Clients /\ pp[p] = "reap" /\ todo[p] = {}
    /\ \/ /\ \E c \in IdleFor(want[p]) : Activate(p, c)
          /\ UNCHANGED <<pending, heard>>
       \/ /\ IdleFor(want[p]) = {} /\ CanSpawn
          /\ pp' = [pp EXCEPT ![p] = "spawn"]
          /\ UNCHANGED <<conn, hand, pending, heard>>
       \/ /\ IdleFor(want[p]) = {} /\ ~CanSpawn
          /\ pp' = Poked([pp EXCEPT ![p] = "waiting"])
          /\ pending' = Append(pending, p)
          /\ heard' = TRUE
          /\ UNCHANGED <<conn, hand>>
    /\ UNCHANGED <<dead, connKey, want, todo, serving, keeping, poolFaults, closes>>

\* The connection that spawnConnectionForCheckout opened carries the key of the
\* caller, or of the checkout the drain serves.
SpawnOk(p) ==
    /\ pp[p] = "spawn"
    /\ \E c \in ConnsIn("new") :
        /\ connKey' = [connKey EXCEPT ![c] = want[IF p = Drainer THEN serving ELSE p]]
        /\ conn' = [conn EXCEPT ![c] = "loose"]
        /\ hand' = [hand EXCEPT ![p] = c]
    /\ pp' = [pp EXCEPT ![p] = "spawned"]
    /\ UNCHANGED <<dead, want, todo, pending, serving, heard, keeping, poolFaults, closes>>

\* The caller's code runs on: the new connection is registered.
SpawnRegistered(p) ==
    /\ pp[p] = "spawned"
    /\ Activate(p, hand[p])
    /\ UNCHANGED <<dead, connKey, want, todo, pending, serving, heard, keeping, poolFaults, closes>>

PoolFault == poolFaults < PoolFaults /\ poolFaults' = poolFaults + 1

\* Where a failed activation leaves p: a client's checkout rejects; the drain
\* rejects the checkout it serves and goes on.
GiveUp(p) ==
    IF p = Drainer THEN Reject({serving}, [pp EXCEPT ![Drainer] = "top"])
    ELSE Reject({p}, pp)

SpawnFail(p) ==
    /\ pp[p] = "spawn" /\ PoolFault
    /\ GiveUp(p)
    /\ UNCHANGED <<conn, dead, connKey, hand, todo, pending, serving, heard, closes>>

\* The checkout resolves: its caller uses the connection.
NameOk(p) ==
    /\ pp[p] = "naming"
    /\ IF p = Drainer
       THEN /\ pp' = [pp EXCEPT ![Drainer] = "top", ![serving] = "using"]
            /\ hand' = [hand EXCEPT ![Drainer] = NoConn, ![serving] = hand[p]]
       ELSE /\ pp' = [pp EXCEPT ![p] = "using"]
            /\ UNCHANGED hand
    /\ UNCHANGED <<conn, dead, connKey, want, todo, pending, serving, heard, keeping, poolFaults, closes>>

\* closeConnection on the connection in p's hand: out of every collection.
CloseInHand(p, at) ==
    /\ conn' = [conn EXCEPT ![hand[p]] = "closing"]
    /\ dead' = dead \cup {hand[p]}
    /\ retained' = [k \in ReuseKeys |-> IF retained[k] = hand[p] THEN NoConn ELSE retained[k]]
    /\ pp' = [pp EXCEPT ![p] = at]

NameFail(p) ==
    /\ pp[p] = "naming" /\ PoolFault
    /\ CloseInHand(p, "unname")
    /\ UNCHANGED <<connKey, hand, want, todo, pending, serving, heard, kept, undo, closes>>

Unnamed(p) ==
    /\ pp[p] = "unname"
    /\ GiveUp(p)
    /\ conn' = [conn EXCEPT ![hand[p]] = "closed"]
    /\ hand' = [hand EXCEPT ![p] = NoConn]
    /\ UNCHANGED <<dead, connKey, todo, pending, serving, heard, poolFaults, closes>>

\* timeoutPendingCheckout
TimeoutPending(p) ==
    /\ p \in ToSet(pending)
    /\ pending' = SelectSeq(pending, LAMBDA q : q # p)
    /\ Reject({p}, pp)
    /\ UNCHANGED <<conn, dead, connKey, hand, todo, serving, heard, poolFaults, closes>>

-----------------------------------------------------------------------------
(* Check-in and discard                                                    *)

\* checkin up to its cleanup; a connection closed meanwhile is only untracked.
Checkin(p) ==
    /\ pp[p] = "using"
    /\ IF hand[p] \in dead
       THEN /\ pp' = Poked([pp EXCEPT ![p] = "off"])
            /\ hand' = [hand EXCEPT ![p] = NoConn]
            /\ want' = [want EXCEPT ![p] = NoConn]
            /\ conn' = [conn EXCEPT ![hand[p]] = IF @ = "used" THEN "closed" ELSE @]
            /\ undo' = undo \ {p}
       ELSE pp' = [pp EXCEPT ![p] = "cleaning"] /\ UNCHANGED <<hand, want, conn, undo>>
    /\ UNCHANGED <<dead, connKey, todo, pending, serving, heard, kept, retained, poolFaults, closes>>

\* Mutant: the connection becomes idle and nobody is told.
CleanOkSilent(p) ==
    /\ pp[p] = "cleaning"
    /\ conn' = [conn EXCEPT ![hand[p]] = "idle"]
    /\ pp' = [pp EXCEPT ![p] = "off"]
    /\ hand' = [hand EXCEPT ![p] = NoConn]
    /\ want' = [want EXCEPT ![p] = NoConn]
    /\ undo' = undo \ {p}
    /\ UNCHANGED <<dead, connKey, todo, pending, serving, heard, kept, retained, poolFaults, closes>>

\* Rolled back, unlocked and renamed: retained if its key is and no retained
\* connection is checked in already, idle otherwise.
CleanOk(p) ==
    /\ pp[p] = "cleaning"
    /\ LET c == hand[p]
           k == connKey[c]
           r == retained[k]
           keep == k \in kept /\ (r \in {NoConn, c} \/ conn[r] = "used")
       IN  /\ conn' = [conn EXCEPT ![c] = IF keep THEN "kept" ELSE "idle"]
           /\ retained' = IF keep THEN [retained EXCEPT ![k] = c] ELSE retained
    /\ pp' = Poked([pp EXCEPT ![p] = "off"])
    /\ hand' = [hand EXCEPT ![p] = NoConn]
    /\ want' = [want EXCEPT ![p] = NoConn]
    /\ undo' = undo \ {p}
    /\ UNCHANGED <<dead, connKey, todo, pending, serving, heard, kept, poolFaults, closes>>

\* closeCheckedOutConnectionAfterCheckinFailure
CleanFail(p) ==
    /\ pp[p] = "cleaning" /\ PoolFault
    /\ CloseInHand(p, "discard")
    /\ UNCHANGED <<connKey, hand, want, todo, pending, serving, heard, kept, undo, closes>>

\* discard, which openCapturedConnection never calls.
Discard(p) ==
    /\ pp[p] = "using" /\ p \notin undo
    /\ CloseInHand(p, "discard")
    /\ UNCHANGED <<connKey, hand, want, todo, pending, serving, heard, kept, undo, poolFaults, closes>>

\* Its close settled, one way or the other: the queue is drained, and a check-in
\* of openCapturedConnection waits for that ...
Discarded(p) ==
    /\ pp[p] = "discard"
    /\ conn' = [conn EXCEPT ![hand[p]] = "closed"]
    /\ hand' = [hand EXCEPT ![p] = NoConn]
    /\ IF p \in undo
       THEN pp' = Poked([pp EXCEPT ![p] = "failed"]) /\ UNCHANGED want
       ELSE pp' = Poked([pp EXCEPT ![p] = "off"]) /\ want' = [want EXCEPT ![p] = NoConn]
    /\ UNCHANGED <<dead, connKey, todo, pending, serving, heard, keeping, poolFaults, closes>>

\* ... before it fails and the key is forgotten.
CheckinFailed(p) ==
    /\ pp[p] = "failed"
    /\ Reject({p}, pp)
    /\ UNCHANGED <<conn, dead, connKey, hand, todo, pending, serving, heard, poolFaults, closes>>

-----------------------------------------------------------------------------
(* The drain                                                               *)

\* The end of a drain: its promise is there to be joined until DrainEnded.
EndDrain(pps) ==
    /\ pp' = [pps EXCEPT ![Drainer] = "ending"]
    /\ serving' = NoConn
    /\ heard' = FALSE

Matched == {i \in DOMAIN pending : IdleFor(want[pending[i]]) # {}}

\* One turn of drainPendingCheckoutsActual up to its first await: the first
\* checkout an idle connection fits, or a reap on behalf of the oldest.
DrainTop ==
    /\ pp[Drainer] = "top"
    /\ \/ /\ pending = <<>>
          /\ EndDrain(pp)
          /\ UNCHANGED <<conn, hand, todo, pending>>
       \/ /\ Matched # {}
          /\ LET i == CHOOSE n \in Matched : \A m \in Matched : n <= m
             IN  /\ serving' = pending[i]
                 /\ pending' = RemoveAt(pending, i)
                 /\ \E c \in IdleFor(want[pending[i]]) : Activate(Drainer, c)
          /\ UNCHANGED <<todo, heard>>
       \/ /\ pending # <<>> /\ Matched = {}
          /\ serving' = Head(pending)
          /\ StartReap(Drainer, "reap")
          /\ UNCHANGED <<hand, pending, heard>>
    /\ UNCHANGED <<dead, connKey, want, keeping, poolFaults, closes>>

\* The rest of closeIdleConnectionForPendingCheckoutCapacity, and of the turn.
DrainAfterReap ==
    /\ pp[Drainer] = "reap" /\ todo[Drainer] = {}
    /\ LET k == want[serving]
           queued == serving \in ToSet(pending)
       IN  \/ /\ IdleFor(k) = {} /\ ~CanSpawn /\ ConnsIn("idle") # {}
              /\ \E c \in ConnsIn("idle") :
                   /\ conn' = [conn EXCEPT ![c] = "closing"]
                   /\ dead' = dead \cup {c}
                   /\ hand' = [hand EXCEPT ![Drainer] = c]
              /\ pp' = [pp EXCEPT ![Drainer] = "evict"]
              /\ UNCHANGED <<todo, pending>>
           \/ /\ (IdleFor(k) # {} \/ CanSpawn \/ ConnsIn("idle") = {}) /\ ~queued
              /\ pp' = [pp EXCEPT ![Drainer] = "top"]
              /\ UNCHANGED <<conn, dead, hand, todo, pending>>
           \/ /\ queued /\ CanSpawn
              /\ pending' = Tail(pending)
              /\ pp' = [pp EXCEPT ![Drainer] = "spawn"]
              /\ UNCHANGED <<conn, dead, hand, todo>>
           \/ /\ queued /\ ~CanSpawn /\ IdleFor(k) # {}
              /\ pending' = Tail(pending)
              /\ \E c \in IdleFor(k) : Activate(Drainer, c)
              /\ UNCHANGED <<dead, todo>>
           \/ /\ queued /\ ~CanSpawn /\ ConnsIn("idle") = {}
              /\ StartReap(Drainer, "reap2")
              /\ UNCHANGED <<dead, hand, pending>>
    /\ UNCHANGED <<connKey, want, serving, heard, keeping, poolFaults, closes>>

\* After idleConnectionForPendingCheckout: its connection, or the end.
DrainAfterReap2 ==
    /\ pp[Drainer] = "reap2" /\ todo[Drainer] = {}
    /\ \/ /\ serving \notin ToSet(pending)
          /\ pp' = [pp EXCEPT ![Drainer] = "top"]
          /\ UNCHANGED <<conn, hand, pending, serving, heard>>
       \/ /\ serving \in ToSet(pending) /\ IdleFor(want[serving]) # {}
          /\ pending' = Tail(pending)
          /\ \E c \in IdleFor(want[serving]) : Activate(Drainer, c)
          /\ UNCHANGED <<serving, heard>>
       \/ /\ serving \in ToSet(pending) /\ IdleFor(want[serving]) = {}
          /\ EndDrain(pp)
          /\ UNCHANGED <<conn, hand, pending>>
    /\ UNCHANGED <<dead, connKey, want, todo, keeping, poolFaults, closes>>

\* closeOneIdleConnectionForCapacity is done: another turn.
Evicted ==
    /\ pp[Drainer] = "evict"
    /\ conn' = [conn EXCEPT ![hand[Drainer]] = "closed"]
    /\ hand' = [hand EXCEPT ![Drainer] = NoConn]
    /\ pp' = [pp EXCEPT ![Drainer] = "top"]
    /\ UNCHANGED <<dead, connKey, want, todo, pending, serving, heard, keeping, poolFaults, closes>>

\* pendingCheckoutDrainPromise is cleared.
DrainEnded ==
    /\ pp[Drainer] = "ending"
    /\ pp' = [pp EXCEPT ![Drainer] = "off"]
    /\ UNCHANGED <<conn, dead, connKey, hand, want, todo, pending, serving, heard, keeping, poolFaults, closes>>

\* A drain that throws ends; if a waitForCheckout listens, it rejects the queue.
FailDrain ==
    /\ Reject(IF heard THEN ToSet(pending) ELSE {}, [pp EXCEPT ![Drainer] = "off"])
    /\ pending' = IF heard THEN <<>> ELSE pending
    /\ serving' = NoConn
    /\ heard' = FALSE

EvictFail ==
    /\ pp[Drainer] = "evict" /\ PoolFault
    /\ FailDrain
    /\ conn' = [conn EXCEPT ![hand[Drainer]] = "closed"]
    /\ hand' = [hand EXCEPT ![Drainer] = NoConn]
    /\ UNCHANGED <<dead, connKey, todo, closes>>

-----------------------------------------------------------------------------
(* Reaping and closing                                                     *)

\* scheduleIdleConnectionReaper's timer fires; it is armed while a connection
\* is idle.
ReaperFires ==
    /\ pp[Reaper] = "off" /\ ConnsIn("idle") # {}
    /\ StartReap(Reaper, "reap")
    /\ UNCHANGED <<dead, connKey, hand, want, pending, serving, heard, keeping, poolFaults, closes>>

ReaperDone ==
    /\ pp[Reaper] = "reap" /\ todo[Reaper] = {}
    /\ pp' = [pp EXCEPT ![Reaper] = "off"]
    /\ UNCHANGED <<conn, dead, connKey, hand, want, todo, pending, serving, heard, keeping, poolFaults, closes>>

\* closeConnection of one connection on p's list; a connection that closeAll
\* dropped may have been checked in again, and stays where it is.
Shut(c) ==
    /\ conn' = [conn EXCEPT ![c] = IF @ \in {"closing", "cut", "kept"} THEN "closed" ELSE @]
    /\ dead' = dead \cup {c}
    /\ retained' = [k \in ReuseKeys |-> IF retained[k] = c THEN NoConn ELSE retained[k]]

CloseNext(p) ==
    \E c \in todo[p] :
        /\ Shut(c)
        /\ todo' = [todo EXCEPT ![p] = @ \ {c}]
        /\ UNCHANGED <<connKey, pp, hand, want, pending, serving, heard, kept, undo, poolFaults, closes>>

\* A close that throws ends the loop: the others on the list stay open.
CloseNextFails(p) ==
    \E c \in todo[p] :
        /\ PoolFault
        /\ conn' = [d \in Conns |-> IF d = c THEN "closed"
                                    ELSE IF d \in todo[p] /\ conn[d] = "closing" THEN "lost"
                                    ELSE conn[d]]
        /\ dead' = dead \cup {c}
        /\ todo' = [todo EXCEPT ![p] = {}]
        /\ IF p = Drainer THEN FailDrain
           ELSE /\ Reject({p}, pp)
                /\ UNCHANGED <<pending, serving, heard>>
        /\ UNCHANGED <<connKey, hand, closes>>

\* closeAll: rejects the queue, forgets every connection and closes them.
CloseAll ==
    /\ pp[Closer] = "off" /\ closes < Closes
    /\ closes' = closes + 1
    /\ LET gone == ConnsIn("idle") \cup ConnsIn("used") \cup ConnsIn("kept")
       IN  /\ conn' = [c \in Conns |-> IF c \notin gone THEN conn[c]
                                       ELSE IF conn[c] = "used" THEN "cut" ELSE "closing"]
           /\ todo' = [todo EXCEPT ![Closer] = gone]
    /\ pending' = <<>>
    /\ pp' = [p \in PoolProcs |-> IF p \in ToSet(pending) THEN "off"
                                  ELSE IF p = Closer THEN "close" ELSE pp[p]]
    /\ want' = [p \in PoolProcs |-> IF p \in ToSet(pending) THEN NoConn ELSE want[p]]
    /\ kept' = {}
    /\ undo' = undo \ ToSet(pending)
    /\ retained' = [k \in ReuseKeys |-> NoConn]
    /\ UNCHANGED <<dead, connKey, hand, serving, heard, poolFaults>>

\* closeCapturedConnection: refused while a connection of the key is in use.
CloseCaptured(k) ==
    /\ pp[Closer] = "off" /\ closes < Closes
    /\ \A c \in ConnsIn("used") : connKey[c] # k
    /\ closes' = closes + 1
    /\ LET gone == IdleFor(k) \cup ({retained[k]} \cap ConnsIn("kept"))
       IN  /\ conn' = Move(gone, "closing")
           /\ todo' = [todo EXCEPT ![Closer] = gone]
    /\ kept' = kept \ {k}
    /\ retained' = [retained EXCEPT ![k] = NoConn]
    /\ pp' = [pp EXCEPT ![Closer] = "close"]
    /\ UNCHANGED <<dead, connKey, hand, want, pending, serving, heard, undo, poolFaults>>

CloserDone ==
    /\ pp[Closer] = "close" /\ todo[Closer] = {}
    /\ pp' = [pp EXCEPT ![Closer] = "off"]
    /\ UNCHANGED <<conn, dead, connKey, hand, want, todo, pending, serving, heard, keeping, poolFaults, closes>>

\* The code of p that is due: it awaits nothing that has not settled.
Due(p) == \/ pp[p] \in {"top", "spawned", "ending"}
          \/ pp[p] \in {"reap", "reap2", "close"} /\ todo[p] = {}

\* May process p take a step?  Due code runs before the next event.
MayStep(p) == Ticks \/ Due(p) \/ \A q \in PoolProcs : ~Due(q)

ClientStep(p) ==
    \/ \E k \in ReuseKeys :
         \/ Checkout(p, k)
         \/ CheckoutCaptured(p, k) /\ UNCHANGED <<kept, undo>>
         \/ OpenCaptured(p, k)
    \/ CheckoutAfterReap(p) \/ TimeoutPending(p)
    \/ Checkin(p) \/ CleanOk(p) \/ CleanFail(p) \/ Discard(p) \/ Discarded(p)
    \/ CheckinFailed(p)

OpeningStep(p) ==
    \/ SpawnOk(p) \/ SpawnFail(p) \/ SpawnRegistered(p)
    \/ NameOk(p) \/ NameFail(p) \/ Unnamed(p)

DrainStep == DrainTop \/ DrainAfterReap \/ DrainAfterReap2 \/ Evicted \/ EvictFail \/ DrainEnded

CloserStep == CloseAll \/ (\E k \in ReuseKeys : CloseCaptured(k)) \/ CloserDone

PoolNext ==
    \/ \E p \in Clients : MayStep(p) /\ ClientStep(p)
    \/ \E p \in Clients \cup {Drainer} : MayStep(p) /\ OpeningStep(p)
    \/ MayStep(Drainer) /\ DrainStep
    \/ MayStep(Reaper) /\ (ReaperFires \/ ReaperDone)
    \/ MayStep(Closer) /\ CloserStep
    \/ \E p \in PoolProcs : MayStep(p) /\ (CloseNext(p) \/ CloseNextFails(p))

PoolSpec == PoolInit /\ [][PoolNext]_poolVars

-----------------------------------------------------------------------------
(* Properties                                                              *)

\* A connection is in the hands of at most one caller (or of the drain that
\* activates it for one), and is never offered to another while it is; what
\* connectionsInUse lists, somebody holds, or the cap is used up for good.
PoolExclusive ==
    /\ \A p, q \in PoolProcs : hand[p] # NoConn /\ p # q => hand[p] # hand[q]
    /\ \A p \in PoolProcs : hand[p] # NoConn => conn[hand[p]] \notin {"new", "idle", "kept"}
    /\ \A c \in ConnsIn("used") : \E p \in PoolProcs : hand[p] = c

\* pool.max caps the idle, the used and the opening connections together, as
\* long as closeAll did not cut connections that come back.
PoolCapRespected == closes = 0 => LiveCount <= PoolMax

\* Until a close-all, what a caller is given is open and of the database it
\* asked for, however the waits, the reaper and the evictions interleave.
HandedOutFits ==
    \A p \in Clients : pp[p] = "using" /\ closes = 0 =>
        /\ hand[p] \notin dead
        /\ connKey[hand[p]] = want[p]

\* Could a drain started now do something for the queue?
Servable == pending # <<>> /\ (Matched # {} \/ ConnsIn("idle") # {} \/ CanSpawn)

\* Is a drain running, does somebody free capacity who will start one, or is a
\* callback due that has not registered its connection yet?
DrainComing == \/ pp[Drainer] # "off"
               \/ \E p \in Clients : pp[p] = "discard" \/ Due(p)

\* A waiting checkout that could be served always has a drain coming.  Holds
\* until something fails or is closed outside the drain: see NoStrandedWaiter.
StrandedOnlyAfterFault ==
    Servable /\ poolFaults = 0 /\ closes = 0 => DrainComing

\* "additional checkouts wait for a compatible connection to be checked in or
\* for capacity to be freed": checkouts that could be served do not wait on.
NoStrandedWaiter == Servable => DrainComing

\* What the pool promises its clients: a connection of their own and of their
\* database, within the cap, and an answer to every waiter.
PoolInv ==
    /\ PoolTypeOK /\ PoolExclusive /\ PoolCapRespected /\ HandedOutFits
    /\ StrandedOnlyAfterFault

=============================================================================
