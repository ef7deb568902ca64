----------------------------- MODULE SinglePool -----------------------------
(***************************************************************************)
(* The keyed pool of SQLite in browsers and on devices,                    *)
(* database/pool/single-multi-use.js: one connection for each physical     *)
(* database (its reuse key), shared by everybody who uses that database,   *)
(* under a cap on the number of databases that are open.                   *)
(*                                                                         *)
(* The code between two awaits is one step.  Connecting, closing and the   *)
(* cleanup of a check-in are I/O and end a step; setConnectionCheckoutName *)
(* of SQLite is not, and neither are the continuations of a settled        *)
(* promise: those run before anything else does (Prompt).                  *)
(***************************************************************************)
EXTENDS Integers, Sequences, FiniteSets, SequencesExt

CONSTANTS
    Users,        \* callers of the pool, one checkout each at a time
    Databases,    \* physical databases
    Caps,         \* the values of pool.max to try
    EntryMax,     \* bound on the connections ever opened
    UpsetMax,     \* bound on failing connects, closes and cleanups and on closeAlls
    NoBase        \* no database

ASSUME SinglePoolAssumption ==
    /\ NoBase \notin Databases
    /\ IsFiniteSet(Users)
    /\ Caps \subseteq Nat \ {0} /\ Caps # {}
    /\ {EntryMax, UpsetMax} \subseteq Nat

Entries == 1..EntryMax
None == 0

VARIABLES
    cap,       \* pool.max
    pool,      \* pool[e]: the connection entry e
    current,   \* the pool's mutable fallback connection
    spawnOf,   \* connectionEntrySpawnPromises
    reserved,  \* connectionsBeingSpawned
    waiters,   \* capacityWaiters
    user,      \* user[u]: the call u makes
    closer,    \* the running closeAll: "off", "settling" or "closing"
    singleFaults, closeAlls

singleVars == <<cap, pool, current, spawnOf, reserved, waiters, user, closer, singleFaults, closeAlls>>

\* "listed" is in connectionEntries; "closing" is out of it, its close() awaited;
\* "stray" is open, but replaced in connectionEntries by another; "outdated" is
\* spawning since before a closeAll.  uses is activeCheckoutCount, resident
\* lifecycleRetained, ambient retained.
EntryStates == {"unborn", "spawning", "outdated", "listed", "closing", "closed", "stray"}
NewEntry(state, b) ==
    [life |-> state, base |-> b, uses |-> 0, resident |-> FALSE, ambient |-> FALSE]

\* step is what the call waits for, held the entry it has or joins, shuts the
\* entry whose close it awaits.  late: it joined an entry another was cleaning
\* up, or waited for a close between taking its entry and counting the use.
\* freed: it closed an idle entry to make room for itself, or queues behind one
\* that did.
Kinds == {"ambient", "captured", "open"}
Steps == {"off", "joins", "evicts", "waits", "granted", "switches", "using", "cleans", "closes"}
NoCall == [step |-> "off", kind |-> "captured", base |-> NoBase, held |-> None,
           shuts |-> None, late |-> FALSE, freed |-> FALSE]

SingleTypeOK ==
    /\ cap \in Caps
    /\ pool \in [Entries -> [life : EntryStates, base : Databases \cup {NoBase},
                             uses : 0..Cardinality(Users), resident : BOOLEAN, ambient : BOOLEAN]]
    /\ current \in Entries \cup {None}
    /\ spawnOf \in [Databases -> Entries \cup {None}]
    /\ reserved \in 0..cap
    /\ waiters \in Seq(Users) /\ IsInjective(waiters)
    /\ user \in [Users -> [step : Steps, kind : Kinds, base : Databases \cup {NoBase},
                           held : Entries \cup {None}, shuts : Entries \cup {None},
                           late : BOOLEAN, freed : BOOLEAN]]
    /\ closer \in {"off", "settling", "closing"}
    /\ singleFaults \in 0..UpsetMax
    /\ closeAlls \in 0..UpsetMax

SingleInit ==
    /\ cap \in Caps
    /\ pool = [e \in Entries |-> NewEntry("unborn", NoBase)]
    /\ current = None
    /\ spawnOf = [b \in Databases |-> None]
    /\ reserved = 0
    /\ waiters = <<>>
    /\ user = [u \in Users |-> NoCall]
    /\ closer = "off"
    /\ singleFaults = 0
    /\ closeAlls = 0

-----------------------------------------------------------------------------
(* Capacity                                                                *)

In(state) == {e \in Entries : pool[e].life = state}
Spawning == In("spawning") \cup In("outdated")

\* connectionEntries.get
EntryOf(b) == {e \in In("listed") : pool[e].base = b}

\* connectionEntrySpawnPromises.get
SpawningOf(b) == spawnOf[b] # None

\* canSpawnConnection, with `listed` entries and `spawning` reservations.
RoomFor(listed, spawning) == Cardinality(listed) + spawning < cap
Room == RoomFor(In("listed"), reserved)

\* Entries that reserveConnectionCapacity may close.
Idle == {e \in In("listed") : pool[e].uses = 0 /\ ~pool[e].resident}

\* A spawn that settled has users to serve, and a granted waiter runs on, before
\* any other callback of the event loop.
Joinable(u) == user[u].step = "joins" /\ user[u].held \notin Spawning
Prompt == \A u \in Users : user[u].step # "granted" /\ ~Joinable(u)

\* notifyCapacityWaiters, given the entries and reservations at the call and the
\* calls as they are then: the first waiter takes the slot if there is one.
Notified(listed, spawning, calls) ==
    IF waiters # <<>> /\ RoomFor(listed, spawning)
    THEN /\ waiters' = Tail(waiters)
         /\ reserved' = spawning + 1
         /\ user' = [calls EXCEPT ![Head(waiters)].step = "granted"]
    ELSE /\ UNCHANGED waiters
         /\ reserved' = spawning
         /\ user' = calls

Calm == singleFaults + closeAlls < UpsetMax
SingleFault == Calm /\ singleFaults' = singleFaults + 1 /\ UNCHANGED closeAlls
upsets == <<closer, singleFaults, closeAlls>>

\* removeAndCloseEntry up to its await.  Nothing reads the fields of an entry
\* that has left connectionEntries.
Removed(e) == [pool EXCEPT ![e] = NewEntry("closing", @.base)]
Removes(e) ==
    /\ pool' = Removed(e)
    /\ current' = IF current = e THEN None ELSE current

Closed(e) == [pool EXCEPT ![e] = NewEntry("closed", NoBase)]

\* The next entry starts to connect.
Spawns(u, call) ==
    LET b == call.base
    IN  \E e \in In("unborn") :
            /\ \A d \in In("unborn") : e <= d
            /\ pool' = [pool EXCEPT ![e] = NewEntry("spawning", b)]
            /\ spawnOf' = [spawnOf EXCEPT ![b] = e]
            /\ user' = [user EXCEPT ![u] = [call EXCEPT !.step = "joins", !.held = e]]

\* reserveConnectionCapacity: closes an idle entry or joins the waiters.
Reserves(u, call) ==
    \/ /\ \E e \in Idle :
            /\ Removes(e)
            /\ user' = [user EXCEPT ![u] = [call EXCEPT !.step = "evicts", !.shuts = e, !.freed = TRUE]]
       /\ UNCHANGED waiters
    \/ /\ Idle = {}
       /\ waiters' = Append(waiters, u)
       /\ user' = [user EXCEPT ![u] = [call EXCEPT !.step = "waits",
                                        !.freed = \E v \in ToSet(waiters) : user[v].freed]]
       /\ UNCHANGED <<pool, current>>

\* checkoutForConfiguration once it has its entry: an ambient checkout makes it
\* the pool's connection and closes the last one if that is idle; only then is
\* the use counted.
Takes(u, e, call) ==
    LET ambient == call.kind = "ambient"
        last == IF ambient THEN {current} \cap (In("listed") \ {e}) ELSE {}
        shut == last \cap Idle
        cleaned == \E v \in Users : user[v].step = "cleans" /\ user[v].held = e
        taken == [call EXCEPT !.held = e, !.late = cleaned \/ shut # {}]
    IN  /\ current' = IF ambient THEN e ELSE current
        /\ pool' = [d \in Entries |->
                      IF d \in shut THEN NewEntry("closing", pool[d].base)
                      ELSE [pool[d] EXCEPT !.ambient = (@ /\ d \notin last) \/ (d = e /\ ambient),
                                           !.uses = IF d = e /\ shut = {} THEN @ + 1 ELSE @]]
        /\ user' = [user EXCEPT ![u] =
                      IF shut = {} THEN [taken EXCEPT !.step = "using"]
                      ELSE [taken EXCEPT !.step = "switches", !.shuts = current]]

-----------------------------------------------------------------------------
(* Checkout                                                                *)

\* withCapturedOperationConnection: one captured operation per database, from
\* its checkout to the end of its check-in.
TurnFree(b) ==
    \A v \in Users : ~(user[v].step # "off" /\ user[v].kind = "captured" /\ user[v].base = b)

\* checkout (ambient), withCapturedOperationConnection and openCapturedConnection
\* up to the first await.
CheckOut(u, kind, b) ==
    LET call == [NoCall EXCEPT !.kind = kind, !.base = b]
        absent == EntryOf(b) = {} /\ ~SpawningOf(b)
    IN  /\ Prompt /\ user[u].step = "off"
        /\ kind = "captured" => TurnFree(b)
        /\ \/ /\ \E e \in EntryOf(b) : Takes(u, e, call)
              /\ UNCHANGED <<spawnOf, reserved, waiters>>
           \/ /\ EntryOf(b) = {} /\ SpawningOf(b)
              /\ user' = [user EXCEPT ![u] = [call EXCEPT !.step = "joins", !.held = spawnOf[b]]]
              /\ UNCHANGED <<pool, current, spawnOf, reserved, waiters>>
           \/ /\ absent /\ waiters = <<>> /\ Room
              /\ Spawns(u, call)
              /\ reserved' = reserved + 1
              /\ UNCHANGED <<current, waiters>>
           \/ /\ absent /\ (waiters # <<>> \/ ~Room)
              /\ Reserves(u, call)
              /\ UNCHANGED <<spawnOf, reserved>>
        /\ UNCHANGED upsets

\* The idle entry is closed: the first waiter is told, and the loop of
\* reserveConnectionCapacity looks for another idle entry, or waits.
EvictDone(u) ==
    /\ Prompt /\ user[u].step = "evicts"
    /\ LET woken == IF Room /\ waiters # <<>> THEN <<Head(waiters)>> ELSE <<>>
           rest == IF woken = <<>> THEN waiters ELSE Tail(waiters)
           told == [v \in Users |-> IF v \in ToSet(woken) THEN [user[v] EXCEPT !.step = "granted"]
                                    ELSE user[v]]
           shut == Closed(user[u].shuts)
       IN  /\ reserved' = reserved + Len(woken)
           /\ \/ \E e \in Idle :
                   /\ pool' = [shut EXCEPT ![e] = NewEntry("closing", @.base)]
                   /\ current' = IF current = e THEN None ELSE current
                   /\ user' = [told EXCEPT ![u].shuts = e]
                   /\ waiters' = rest
              \/ /\ Idle = {}
                 /\ pool' = shut
                 /\ user' = [told EXCEPT ![u].step = "waits", ![u].shuts = None]
                 /\ waiters' = Append(rest, u)
                 /\ UNCHANGED current
    /\ UNCHANGED <<spawnOf, upsets>>

Over(u) == [user EXCEPT ![u] = NoCall]

\* close() of an evicted or replaced entry, or of a check-in, throws: the call
\* rejects, and nobody tells the waiters.
CloseThrows(u) ==
    /\ Prompt /\ user[u].step \in {"evicts", "switches", "closes"} /\ SingleFault
    /\ pool' = Closed(user[u].shuts)
    /\ user' = Over(u)
    /\ UNCHANGED <<current, spawnOf, reserved, waiters, closer>>

\* The waiter's timer.
WaitTimesOut(u) ==
    /\ Prompt /\ user[u].step = "waits"
    /\ \E i \in DOMAIN waiters : waiters[i] = u /\ waiters' = RemoveAt(waiters, i)
    /\ user' = Over(u)
    /\ UNCHANGED <<pool, current, spawnOf, reserved, upsets>>

\* The rest of a checkout that waited for capacity and has its reservation: it
\* spawns, or gives the reservation back if the database is open or opening.
\* It is three awaits away from the slot; who awaited the spawn has gone on by then.
Granted(u) ==
    /\ user[u].step = "granted" /\ \A v \in Users : ~Joinable(v)
    /\ LET b == user[u].base
           there == EntryOf(b) \cup ({spawnOf[b]} \ {None})
       IN  \/ /\ there = {}
              /\ Spawns(u, user[u])
              /\ UNCHANGED <<reserved, waiters>>
           \/ /\ \E e \in IF EntryOf(b) # {} THEN EntryOf(b) ELSE there :
                   Notified(In("listed"), reserved - 1,
                            [user EXCEPT ![u].step = "joins", ![u].held = e])
              /\ UNCHANGED <<pool, spawnOf>>
    /\ UNCHANGED <<current, upsets>>

\* spawnConnectionEntry: connected.  After a closeAll the connection is closed
\* again; otherwise it is listed, over whatever had its place.
SpawnDone(e) ==
    /\ Prompt
    /\ \/ /\ e \in In("outdated")
          /\ pool' = Closed(e)
          /\ Notified(In("listed"), reserved - 1, user)
       \/ /\ e \in In("spawning")
          /\ LET over == EntryOf(pool[e].base)
             IN  /\ pool' = [d \in Entries |->
                               IF d = e THEN [pool[e] EXCEPT !.life = "listed"]
                               ELSE IF d \in over THEN [pool[d] EXCEPT !.life = "stray"] ELSE pool[d]]
                 /\ Notified((In("listed") \ over) \cup {e}, reserved - 1, user)
    /\ UNCHANGED <<current, spawnOf, upsets>>

SpawnFails(e) ==
    /\ Prompt /\ e \in Spawning /\ SingleFault
    /\ pool' = Closed(e)
    /\ Notified(In("listed"), reserved - 1, user)
    /\ UNCHANGED <<current, spawnOf, closer>>

\* A user that awaited the spawn promise: it drops the promise and goes on, or
\* rejects.
Joins(u) ==
    /\ Joinable(u)
    /\ spawnOf' = [b \in Databases |-> IF spawnOf[b] = user[u].held THEN None ELSE spawnOf[b]]
    /\ IF user[u].held \in In("closed")
       THEN user' = Over(u) /\ UNCHANGED <<pool, current>>
       ELSE Takes(u, user[u].held, user[u])
    /\ UNCHANGED <<reserved, waiters, upsets>>

\* The last ambient connection is closed: the new use is counted.
SwitchDone(u) ==
    /\ Prompt /\ user[u].step = "switches"
    /\ LET e == user[u].held
       IN  pool' = [Closed(user[u].shuts) EXCEPT ![e].uses = IF e \in In("listed") THEN @ + 1 ELSE @]
    /\ Notified(In("listed"), reserved, [user EXCEPT ![u].step = "using", ![u].shuts = None])
    /\ UNCHANGED <<current, spawnOf, upsets>>

-----------------------------------------------------------------------------
(* Check-in and close                                                      *)

\* checkin up to its cleanup.  An entry that is no longer listed is left alone;
\* openCapturedConnection marks its entry first.
CheckIn(u) ==
    /\ Prompt /\ user[u].step = "using"
    /\ LET e == user[u].held
           known == e \in In("listed") /\ pool[e].uses > 0
       IN  /\ pool' = IF e \in In("listed")
                      THEN [pool EXCEPT ![e].resident = @ \/ user[u].kind = "open",
                                        ![e].uses = IF known THEN @ - 1 ELSE @]
                      ELSE pool
           /\ user' = IF known /\ pool[e].uses = 1 THEN [user EXCEPT ![u].step = "cleans"] ELSE Over(u)
    /\ UNCHANGED <<current, spawnOf, reserved, waiters, upsets>>

\* Mutant: an ambient connection stays open whoever waits.
KeepsAmbient(e) == pool[e].resident \/ pool[e].ambient

\* A connection survives its last check-in if the lifecycle owns it, or if it
\* is the ambient one and nobody waits for its place.
Keeps(e) == pool[e].resident \/ (pool[e].ambient /\ waiters = <<>>)

\* The locks are released and the name is cleared, or that failed: the entry is
\* closed unless it is kept.  Nothing looks at activeCheckoutCount again.
CleanUp(u, keeps) ==
    LET e == user[u].held
    IN  /\ Prompt /\ user[u].step = "cleans"
        /\ IF keeps \/ e \notin In("listed")
           THEN user' = Over(u) /\ UNCHANGED <<pool, current>>
           ELSE Removes(e) /\ user' = [user EXCEPT ![u].step = "closes", ![u].shuts = e]
        /\ UNCHANGED <<spawnOf, reserved, waiters, closer>>

CleanDone(u) == CleanUp(u, Keeps(user[u].held)) /\ UNCHANGED <<singleFaults, closeAlls>>
CleanFails(u) == CleanUp(u, FALSE) /\ SingleFault

\* closeCapturedConnection, which deleteCapturedDatabase begins with; it throws
\* when the entry is in use.
CloseShared(u, b) ==
    /\ Prompt /\ user[u].step = "off"
    /\ \E e \in EntryOf(b) :
        /\ pool[e].uses = 0
        /\ Removes(e)
        /\ user' = [user EXCEPT ![u].step = "closes", ![u].shuts = e]
    /\ UNCHANGED <<spawnOf, reserved, waiters, upsets>>

CloseDone(u) ==
    /\ Prompt /\ user[u].step = "closes"
    /\ pool' = Closed(user[u].shuts)
    /\ Notified(In("listed"), reserved, Over(u))
    /\ UNCHANGED <<current, spawnOf, upsets>>

\* closeAll: the waiters reject, and the spawns under way are awaited ...
CloseAllBegins ==
    /\ Prompt /\ closer = "off" /\ Calm
    /\ closeAlls' = closeAlls + 1
    /\ closer' = "settling"
    /\ pool' = [e \in Entries |-> [pool[e] EXCEPT !.life = IF @ = "spawning" THEN "outdated" ELSE @]]
    /\ user' = [u \in Users |-> IF u \in ToSet(waiters) THEN NoCall ELSE user[u]]
    /\ waiters' = <<>>
    /\ UNCHANGED <<current, spawnOf, reserved, singleFaults>>

\* ... then every entry is dropped and closed, under its users too.
CloseAllCloses ==
    /\ Prompt /\ closer = "settling" /\ In("outdated") = {}
    /\ closer' = "closing"
    /\ pool' = [e \in Entries |-> IF e \in In("listed") THEN NewEntry("closing", pool[e].base) ELSE pool[e]]
    /\ spawnOf' = [b \in Databases |-> None]
    /\ current' = None
    /\ UNCHANGED <<reserved, waiters, user, singleFaults, closeAlls>>

CloseAllEnds ==
    /\ Prompt /\ closer = "closing"
    /\ closer' = "off"
    /\ pool' = [e \in Entries |-> IF e \in In("closing") /\ \A u \in Users : user[u].shuts # e
                                  THEN NewEntry("closed", NoBase) ELSE pool[e]]
    /\ UNCHANGED <<current, spawnOf, reserved, waiters, user, singleFaults, closeAlls>>

UserStep(u) ==
    \/ \E b \in Databases : (\E kind \in Kinds : CheckOut(u, kind, b)) \/ CloseShared(u, b)
    \/ EvictDone(u) \/ CloseThrows(u) \/ WaitTimesOut(u) \/ Granted(u) \/ Joins(u)
    \/ SwitchDone(u) \/ CheckIn(u) \/ CleanDone(u) \/ CleanFails(u) \/ CloseDone(u)

SingleNext ==
    /\ \/ \E u \in Users : UserStep(u)
       \/ \E e \in Entries : SpawnDone(e) \/ SpawnFails(e)
       \/ CloseAllBegins \/ CloseAllCloses \/ CloseAllEnds
    /\ UNCHANGED cap

SingleSpec == SingleInit /\ [][SingleNext]_singleVars

-----------------------------------------------------------------------------
(* Properties                                                              *)

\* connectionsBeingSpawned is the number of connections being opened and of
\* waiters that were granted a slot and have yet to use it: whatever fails, is
\* joined or is closed meanwhile, no slot is lost for good or given out twice.
SlotsExact ==
    reserved = Cardinality(Spawning) + Cardinality({u \in Users : user[u].step = "granted"})

\* Whoever uses a connection uses an open one.  Not so after closeAll, and not
\* for a user that came in one of two gaps (`late`): it took the entry while the
\* last user's check-in awaited its cleanup, which closes the entry without a
\* second look; or its own checkout awaited the close of the last ambient
\* connection before it was counted, and the entry was closed as idle.
OpenForItsUsers ==
    \A u \in Users :
        user[u].step = "using" /\ ~user[u].late /\ closeAlls = 0 => user[u].held \in In("listed")

\* Two users of one database share one connection: a second one is never opened
\* beside the first, however their checkouts wait for and join each other, until
\* a closeAll forgets the spawns it did not wait for.  (So pool.max bounds the
\* open databases: there are as many as connections.)
SharedByAll ==
    closeAlls = 0 =>
        \A d, e \in Spawning \cup In("listed") \cup In("stray") :
            pool[d].base = pool[e].base => d = e

\* Nobody who could wake the waiters is under way.
NobodyBusy ==
    /\ closer = "off" /\ Spawning = {} /\ In("closing") = {}
    /\ \A u \in Users : user[u].step \in {"off", "waits", "using"}

\* A checkout waits for capacity only while there is none: a slot or an idle
\* connection never stands free beside a waiter.  Not so after a close that threw
\* or a closeAll, which wake nobody, and not for a checkout that closed the idle
\* connection itself (`freed`): it then waits for a slot that is already there,
\* and whoever comes next waits behind it.
WaitsOnlyWhenFull ==
    /\ NobodyBusy /\ waiters # <<>> /\ ~user[Head(waiters)].freed
    /\ singleFaults + closeAlls = 0
    => ~Room /\ Idle = {}

\* A database has one image in memory at a time: it is not loaded again while
\* the image that holds its last writes is still being saved and closed.
OneImagePerDatabase ==
    \A d \in In("spawning") \cup In("listed"), e \in In("closing") : pool[d].base # pool[e].base

\* What the shared SQLite pool promises its users: one open connection per
\* database as long as anybody uses it, within the cap, and no needless wait.
SingleInv ==
    /\ SingleTypeOK /\ SlotsExact /\ OpenForItsUsers /\ SharedByAll
    /\ WaitsOnlyWhenFull

=============================================================================
