------------------------------ MODULE SyncFeed ------------------------------
(***************************************************************************)
(* The server's change feed and a client that follows it.  A publish gives *)
(* the row of a changed item the next server sequence, saves it and        *)
(* broadcasts it (sync-publisher.js, sync-change-fanout.js,                *)
(* server-sequence-allocator.js).  The client pulls the rows behind its    *)
(* cursor page by page (sync-model-change-feed-service.js,                 *)
(* sync-api-client.js, sync-scope-store.js) and applies what is pushed to  *)
(* it meanwhile (sync-realtime-bridge.js); neither looks at the other.     *)
(***************************************************************************)
EXTENDS Naturals, Sequences, FiniteSets, SequencesExt, FiniteSetsExt

CONSTANTS
    ItemMax,   \* the items are 1..ItemMax, each with its row in the feed
    Writers,   \* requests that publish at the same time
    PublishMax,\* bound on the publishes
    BatchSize, \* rows of a page
    BreakMax   \* bound on lost connections and failing pulls

ASSUME FeedAssumption ==
    /\ {ItemMax, PublishMax, BreakMax} \subseteq Nat
    /\ BatchSize \in Nat \ {0}

Items == 1..ItemMax

VARIABLES
    row,       \* row[i]: the sequence and the value of i's row
    sequence,  \* the last sequence allocated; publishes are numbered by it
    publish,   \* publish[w]: what w is publishing, at most one
    newest,    \* the highest sequence a row was ever saved with
    overtaken, \* items whose row was saved behind a later sequence
    link,      \* is the channel's connection up
    wire,      \* pushes under way
    inbox,     \* pushes on _applyPromise
    missed,    \* items whose last push did not arrive, or arrived before an older one,
               \* until a pull applies the row
    cursor,    \* the scope's saved cursor
    pull,      \* where the pull is
    after,     \* its afterCursor
    upTo,      \* its upToCursor, 0 before the first page
    page,      \* rows of the page yet to be applied
    full,      \* was the page a full one
    scheduled, \* _scheduledPull: "no", "waiting" for the flight, "running"
    local,     \* local[i]: the value of the local copy
    pulled,    \* pulled[i]: the last sequence of i a pull applied
    breaks

feed == <<row, sequence, publish, newest, overtaken>>
pushes == <<link, wire, inbox, missed>>
puller == <<cursor, pull, after, upTo, page, full, scheduled>>
feedVars == <<feed, pushes, puller, local, pulled, breaks>>

Sequences == 0..(ItemMax + PublishMax)
Changes == [item : Items, seq : Sequences]

\* The value of a change is told by its sequence.
FeedTypeOK ==
    /\ row \in [Items -> Sequences] /\ local \in [Items -> Sequences]
    /\ \A i \in Items : pulled[i] \in Sequences
    /\ {sequence, newest} \subseteq Sequences
    /\ \A w \in Writers : Cardinality(publish[w]) <= 1
    /\ overtaken \subseteq Items /\ missed \subseteq Items
    /\ wire \in Seq(Changes) /\ inbox \in Seq(Changes)
    /\ link \in BOOLEAN /\ full \in BOOLEAN
    /\ {cursor, after, upTo} \subseteq Sequences
    /\ pull \in {"idle", "asked", "limited", "apply"}
    /\ page \in Seq(Changes) /\ Len(page) <= BatchSize
    /\ scheduled \in {"no", "waiting", "running"}

FeedInit ==
    /\ row = [i \in Items |-> i] /\ local = [i \in Items |-> 0] /\ pulled = [i \in Items |-> 0]
    /\ sequence = ItemMax /\ newest = ItemMax
    /\ publish = [w \in Writers |-> {}]
    /\ overtaken = {} /\ missed = {}
    /\ link = TRUE /\ wire = <<>> /\ inbox = <<>>
    /\ cursor = 0 /\ pull = "idle" /\ after = 0 /\ upTo = 0 /\ page = <<>> /\ full = FALSE
    /\ scheduled = "waiting"
    /\ breaks = 0

-----------------------------------------------------------------------------
(* Publishing, after the commit of the item                                *)

\* upsertSyncRow has found the row, and advanceServerSequence allocates.
Allocate(w, i) ==
    /\ publish[w] = {} /\ sequence < ItemMax + PublishMax
    /\ sequence' = sequence + 1
    /\ publish' = [publish EXCEPT ![w] = {[item |-> i, seq |-> sequence + 1, saved |-> FALSE]}]
    /\ UNCHANGED <<row, newest, overtaken, pushes, puller, local, pulled, breaks>>

\* The row is saved: a publish of the same item may have saved it since, with a
\* later sequence, and the row then falls back.
SaveRow(w) ==
    /\ \E p \in publish[w] :
        /\ ~p.saved
        /\ row' = [row EXCEPT ![p.item] = p.seq]
        /\ newest' = IF newest > p.seq THEN newest ELSE p.seq
        /\ overtaken' = IF newest > p.seq THEN overtaken \cup {p.item} ELSE overtaken \ {p.item}
        /\ missed' = missed \cup {p.item}
        /\ publish' = [publish EXCEPT ![w] = {[p EXCEPT !.saved = TRUE]}]
    /\ UNCHANGED <<sequence, link, wire, inbox, puller, local, pulled, breaks>>

\* The broadcast reaches the client's channel if its connection is up.
Broadcast(w) ==
    /\ \E p \in publish[w] :
        /\ p.saved
        /\ wire' = IF link THEN Append(wire, [item |-> p.item, seq |-> p.seq]) ELSE wire
    /\ publish' = [publish EXCEPT ![w] = {}]
    /\ UNCHANGED <<row, sequence, newest, overtaken, link, inbox, missed, puller, local, pulled, breaks>>

-----------------------------------------------------------------------------
(* The realtime bridge                                                     *)

\* enqueueApply
Arrives ==
    /\ wire # <<>>
    /\ inbox' = Append(inbox, Head(wire))
    /\ wire' = Tail(wire)
    /\ missed' = IF Head(wire).seq = row[Head(wire).item] THEN missed \ {Head(wire).item} ELSE missed
    /\ UNCHANGED <<feed, link, puller, local, pulled, breaks>>

\* applyMessage, whatever the local copy holds.
PushApplied ==
    /\ inbox # <<>>
    /\ local' = [local EXCEPT ![Head(inbox).item] = Head(inbox).seq]
    /\ missed' = IF Head(inbox).seq < local[Head(inbox).item] THEN missed \cup {Head(inbox).item} ELSE missed
    /\ inbox' = Tail(inbox)
    /\ UNCHANGED <<feed, link, wire, puller, pulled, breaks>>

\* The connection is lost, and with it what is under way.
Drops ==
    /\ link /\ breaks < BreakMax
    /\ link' = FALSE
    /\ wire' = <<>>
    /\ breaks' = breaks + 1
    /\ UNCHANGED <<feed, inbox, missed, puller, local, pulled>>

\* It is back: onResume schedules a pull unless one is scheduled (schedulePull).
Resumes ==
    /\ ~link
    /\ link' = TRUE
    /\ scheduled' = IF scheduled = "no" THEN "waiting" ELSE scheduled
    /\ UNCHANGED <<feed, wire, inbox, missed, cursor, pull, after, upTo, page, full, local, pulled, breaks>>

-----------------------------------------------------------------------------
(* Pulling                                                                 *)

\* A pull of the bridge, or of the application, gets the flight and loads the
\* scope's cursor.
PullBegins ==
    /\ pull = "idle"
    /\ scheduled' = IF scheduled = "waiting" THEN "running" ELSE scheduled
    /\ pull' = "asked"
    /\ after' = cursor
    /\ upTo' = 0
    /\ UNCHANGED <<feed, pushes, cursor, page, full, local, pulled, breaks>>

\* resolveUpToCursor: the highest sequence there is, unless the client names one
\* or the feed is empty.
Resolve ==
    /\ pull = "asked"
    /\ upTo' = IF upTo = 0 /\ Items # {} THEN Max(Range(row)) ELSE upTo
    /\ pull' = "limited"
    /\ UNCHANGED <<feed, pushes, cursor, after, page, full, scheduled, local, pulled, breaks>>

\* The rows of a page: the first ones behind the cursor, by sequence.
PageRows ==
    LET due == {[item |-> i, seq |-> row[i]] : i \in {i \in Items : row[i] > after /\ row[i] <= upTo}}
    IN  {found \in UNION {[1..n -> due] : n \in 0..BatchSize} :
            /\ \A k, l \in DOMAIN found : k < l => found[k].seq < found[l].seq
            /\ \A c \in due \ ToSet(found) :
                  Len(found) = BatchSize /\ \A k \in DOMAIN found : found[k].seq < c.seq}

\* The page is read and answered.
ReadPage ==
    /\ pull = "limited"
    /\ \E found \in PageRows :
        /\ page' = found
        /\ full' = (Len(found) = BatchSize)
        /\ after' = IF found = <<>> THEN after ELSE Last(found).seq
    /\ pull' = "apply"
    /\ UNCHANGED <<feed, pushes, cursor, upTo, scheduled, local, pulled, breaks>>

\* Mutant: applies a row only when there is no local copy yet.
RowAppliedToNew ==
    /\ pull = "apply" /\ page # <<>>
    /\ local' = IF local[Head(page).item] = 0 THEN [local EXCEPT ![Head(page).item] = Head(page).seq] ELSE local
    /\ pulled' = [pulled EXCEPT ![Head(page).item] = Head(page).seq]
    /\ missed' = IF Head(page).seq = row[Head(page).item] THEN missed \ {Head(page).item} ELSE missed
    /\ page' = Tail(page)
    /\ UNCHANGED <<feed, link, wire, inbox, cursor, pull, after, upTo, full, scheduled, breaks>>

\* applySync of the next row.
RowApplied ==
    /\ pull = "apply" /\ page # <<>>
    /\ local' = [local EXCEPT ![Head(page).item] = Head(page).seq]
    /\ pulled' = [pulled EXCEPT ![Head(page).item] = Head(page).seq]
    /\ missed' = IF Head(page).seq = row[Head(page).item] THEN missed \ {Head(page).item} ELSE missed
    /\ page' = Tail(page)
    /\ UNCHANGED <<feed, link, wire, inbox, cursor, pull, after, upTo, full, scheduled, breaks>>

Ends(c) ==
    /\ cursor' = c
    /\ pull' = "idle"
    /\ page' = <<>>
    /\ scheduled' = IF scheduled = "running" THEN "no" ELSE scheduled

\* Another page, or the cursor is saved and the pull is done.
PageDone ==
    /\ pull = "apply" /\ page = <<>>
    /\ \/ full /\ pull' = "asked" /\ UNCHANGED <<cursor, page, scheduled>>
       \/ ~full /\ Ends(after)
    /\ UNCHANGED <<feed, pushes, after, upTo, full, local, pulled, breaks>>

\* A request or an apply fails: the cursor is not saved.
PullFails ==
    /\ pull # "idle" /\ breaks < BreakMax
    /\ Ends(cursor)
    /\ breaks' = breaks + 1
    /\ UNCHANGED <<feed, pushes, after, upTo, full, local, pulled>>

FeedNext ==
    \/ \E w \in Writers : (\E i \in Items : Allocate(w, i)) \/ SaveRow(w) \/ Broadcast(w)
    \/ Arrives \/ PushApplied \/ Drops \/ Resumes
    \/ PullBegins \/ Resolve \/ ReadPage \/ RowApplied \/ PageDone \/ PullFails

FeedSpec == FeedInit /\ [][FeedNext]_feedVars

-----------------------------------------------------------------------------
(* Properties                                                              *)

\* The cursor passes no row that a pull has not applied, while rows move to the
\* end of the feed between the pages and pulls fail halfway; the exception is a
\* row saved after some row had been saved with a later sequence.
CursorLeavesNoHole ==
    \A i \in Items : row[i] <= cursor => pulled[i] = row[i] \/ i \in overtaken

\* A local copy that is behind its row is going to be brought up to date, by a
\* pull that will see the row, by the page in hand or by a push under way,
\* unless the row was overtaken, or its push was lost or applied before an
\* older one (the bridge compares no sequences).
StaleIsRepaired ==
    \A i \in Items :
        \/ local[i] = row[i] \/ row[i] > cursor \/ i \in overtaken
        \/ [item |-> i, seq |-> row[i]] \in ToSet(wire) \cup ToSet(inbox) \cup ToSet(page)
        \/ i \in missed

\* What the change feed promises a puller: no hole below its cursor, and a stale
\* copy is one a later pull repairs.
FeedInv ==
    /\ FeedTypeOK /\ CursorLeavesNoHole /\ StaleIsRepaired

=============================================================================
