----------------------------- MODULE SyncReplay -----------------------------
(***************************************************************************)
(* Conflict-tracked offline sync of one record.  A device appends every    *)
(* local update to its mutation log (local-mutation-log.js) and replays it *)
(* to the server when it is online (sync-client.js, sync-api-client.js);   *)
(* the server applies an update only on the version it was made on         *)
(* (sync-envelope-replay-service.js, conflict-strategy.js).  Requests and  *)
(* answers get lost, a client gives up waiting, the server stops halfway.  *)
(*                                                                         *)
(* A version of the record is its position in history.  The n-th mutation  *)
(* of a device is named n: clientMutationId, and occurredAt as well, since *)
(* those of a record are strictly increasing.                              *)
(*                                                                         *)
(* Every device is an actor of its own, as it is when the actor is the     *)
(* authentication token.  Two devices of one actor would share their sync  *)
(* row and see each other's mutations as stale: nothing is said of them.   *)
(***************************************************************************)
EXTENDS Naturals, Sequences, FiniteSets, SequencesExt

CONSTANTS
    Devices,      \* the actors, each with its log
    Fields,       \* the attributes a mutation writes, one each
    MutationMax,  \* bound on the mutations of all devices together
    PostMax,      \* bound on the requests of all devices together
    FaultMax,     \* bound on lost messages, timeouts and server stops
    Nobody        \* no request

ASSUME SyncAssumption ==
    /\ Nobody \notin Devices
    /\ {MutationMax, PostMax, FaultMax} \subseteq Nat

VARIABLES
    history, \* the writes of the record, [by, ids, base]; its length is the version
    rows,    \* rows[d]: the sync rows of actor d for the record
    requests,\* requests the server has yet to receive or works on
    lock,    \* the request that holds the record's advisory lock
    local,   \* local[d]: the version of the local copy
    editing, \* editing[d]: the mutation being queued, at most one
    log,     \* log[d]: the mutation log
    made,    \* made[d]: mutations so far
    seen,    \* seen[d][n]: the local version when the user made the mutation
    flight,  \* flight[d]: the replay in progress, at most one
    posts,   \* posts[d]: requests so far
    sent,    \* sent[d]: mutations some request held
    regrouped, \* mutations first sent behind one that had been sent before
    faults

server == <<history, rows, requests, lock>>
client == <<local, editing, log, made, seen, flight, posts, sent, regrouped>>
syncVars == <<server, client, faults>>

Names == 1..MutationMax
Versions == 0..MutationMax
Version == Len(history)

\* How much of a bound is used up.
Total(count) == Cardinality(UNION {{d} \X (1..count[d]) : d \in Devices})

Statuses == {"pending", "conflict", "rejected", "synced"}
Mutations == [n : Names, dep : 0..MutationMax, field : Fields, base : Versions,
              status : Statuses, orphan : BOOLEAN]
Rows == [at : Names, ids : SUBSET Names, ack : Versions]

SyncTypeOK ==
    /\ history \in Seq([by : Devices, ids : SUBSET Names, base : Versions])
    /\ \A d \in Devices :
        /\ rows[d] \subseteq Rows
        /\ local[d] \in 0..Version
        /\ Cardinality(editing[d]) <= 1 /\ Cardinality(flight[d]) <= 1
        /\ log[d] \in Seq(Mutations)
        /\ \A i, j \in DOMAIN log[d] : i < j => log[d][i].n < log[d][j].n
        /\ made[d] \in 0..MutationMax
    /\ lock \in {Nobody} \cup {<<r.dev, r.no>> : r \in requests}
    /\ regrouped \subseteq Devices \X Names

SyncInit ==
    /\ history = <<>>
    /\ rows = [d \in Devices |-> {}]
    /\ requests = {} /\ lock = Nobody
    /\ local = [d \in Devices |-> 0]
    /\ editing = [d \in Devices |-> {}]
    /\ log = [d \in Devices |-> <<>>]
    /\ made = [d \in Devices |-> 0]
    /\ seen = [d \in Devices |-> [n \in Names |-> 0]]
    /\ flight = [d \in Devices |-> {}]
    /\ posts = [d \in Devices |-> 0]
    /\ sent = [d \in Devices |-> {}]
    /\ regrouped = {}
    /\ faults = 0

-----------------------------------------------------------------------------
(* The mutation log of a device                                            *)

\* trackedMutationCallback has captured the base version, and
\* queueConflictTrackedSync reads the log for the record's last mutation.
BeginQueue(d, f) ==
    /\ editing[d] = {} /\ Total(made) + Cardinality({e \in Devices : editing[e] # {}}) < MutationMax
    /\ editing' = [editing EXCEPT ![d] = {[field |-> f, base |-> local[d],
           dep |-> IF log[d] = <<>> THEN 0 ELSE Last(log[d]).n]}]
    /\ UNCHANGED <<server, local, log, made, seen, flight, posts, sent, regrouped, faults>>

\* append
Queued(d) ==
    /\ \E e \in editing[d] :
        /\ log' = [log EXCEPT ![d] = Append(@,
               [n |-> made[d] + 1, dep |-> e.dep, field |-> e.field, base |-> e.base, status |-> "pending",
                orphan |-> e.dep # 0 /\ \A i \in DOMAIN log[d] : log[d][i].n # e.dep])]
        /\ seen' = [seen EXCEPT ![d][made[d] + 1] = e.base]
    /\ made' = [made EXCEPT ![d] = @ + 1]
    /\ editing' = [editing EXCEPT ![d] = {}]
    /\ UNCHANGED <<server, local, flight, posts, sent, regrouped, faults>>

\* Those that open intent depends on.
Protected(d) ==
    {log[d][i].dep : i \in {k \in DOMAIN log[d] : log[d][k].status \in {"pending", "conflict"}}}

\* compact deletes terminal mutations that no open one depends on, the newest
\* ones kept.
Compact(d) ==
    /\ \E keep \in 0..1 :
        LET old == SelectSeq(log[d], LAMBDA m : m.status \in {"rejected", "synced"} /\ m.n \notin Protected(d))
            gone == {old[i].n : i \in 1..(Len(old) - keep)}
        IN  /\ gone # {}
            /\ log' = [log EXCEPT ![d] = SelectSeq(@, LAMBDA m : m.n \notin gone)]
    /\ UNCHANGED <<server, local, editing, made, seen, flight, posts, sent, regrouped, faults>>

-----------------------------------------------------------------------------
(* Replay, the client's side                                               *)

Pending(d) == {i \in DOMAIN log[d] : log[d][i].status = "pending"}

\* Mutant: a dependency that has been answered will do.
ReadyWhenAnswered(d) == {i \in Pending(d) : log[d][i].dep = 0 \/
                \E k \in DOMAIN log[d] : log[d][k].n = log[d][i].dep /\ log[d][k].status # "pending"}

\* Those whose dependency is acknowledged.
Ready(d) == {i \in Pending(d) : log[d][i].dep = 0 \/
                \E k \in DOMAIN log[d] : log[d][k].n = log[d][i].dep /\ log[d][k].status = "synced"}

\* canCoalesceConflictRecords: same base, disjoint attributes of neighbours.
CanCoalesce(a, b) == a.base = b.base /\ a.field # b.field

\* conflictReplayGroups: the first ready mutation and the pending ones behind
\* it, each depending on the one before, as far as they coalesce.
Group(d) ==
    LET first == CHOOSE i \in Ready(d) : \A j \in Ready(d) : i <= j
        ends == {e \in first..Len(log[d]) : \A i \in first + 1..e :
                    /\ i \in Pending(d) /\ log[d][i].dep = log[d][i - 1].n
                    /\ CanCoalesce(log[d][i - 1], log[d][i])}
        end == CHOOSE e \in ends : \A x \in ends : x <= e
    IN  SubSeq(log[d], first, end)

\* What the server has applied of a device.
Applied(d) == UNION {h.ids : h \in {x \in ToSet(history) : x.by = d}}

\* The replay reads the log and posts the first group.
Post(d) ==
    /\ flight[d] = {} /\ Ready(d) # {} /\ Total(posts) < PostMax
    /\ LET g == Group(d)
           ids == {m.n : m \in ToSet(g)}
       IN  /\ flight' = [flight EXCEPT ![d] = {[no |-> posts[d] + 1, ids |-> ids,
                  observed |-> FALSE, rebase |-> {}]}]
           /\ requests' = requests \cup {[dev |-> d, no |-> posts[d] + 1, ids |-> ids, at |-> g[1].n,
                  base |-> g[1].base, phase |-> "sent", row |-> {}, answer |-> "none", ack |-> {}]}
           /\ regrouped' = regrouped \cup {<<d, n>> : n \in IF g[1].n \in sent[d] THEN ids \ sent[d] ELSE {}}
           /\ sent' = [sent EXCEPT ![d] = @ \cup ids]
    /\ posts' = [posts EXCEPT ![d] = @ + 1]
    /\ UNCHANGED <<history, rows, lock, local, editing, log, made, seen, faults>>

\* replayResultLocalStatus
StatusOf(answer) ==
    IF answer \in {"successful", "duplicate"} THEN "synced"
    ELSE IF answer = "conflict" THEN "conflict" ELSE "rejected"

\* The answer arrives: every mutation of the group takes its status, and the
\* successor is to be rebased unless a remote change was observed meanwhile.
Answered(d) ==
    \E r \in requests, fl \in flight[d] :
        /\ r.dev = d /\ r.no = fl.no /\ r.phase = "answered" /\ fl.rebase = {}
        /\ requests' = requests \ {r}
        /\ log' = [log EXCEPT ![d] = [i \in DOMAIN @ |->
               IF @[i].n \in fl.ids THEN [@[i] EXCEPT !.status = StatusOf(r.answer)] ELSE @[i]]]
        /\ flight' = [flight EXCEPT ![d] =
               IF r.ack # {} /\ ~fl.observed THEN {[fl EXCEPT !.rebase = r.ack]} ELSE {}]
        /\ UNCHANGED <<history, rows, lock, local, editing, made, seen, posts, sent, regrouped, faults>>

\* rebaseConflictSuccessor
Rebase(d) ==
    \E fl \in flight[d] : \E v \in fl.rebase :
        /\ log' = [log EXCEPT ![d] = [i \in DOMAIN @ |->
               IF @[i].status = "pending" /\ @[i].dep \in fl.ids /\ \A n \in fl.ids : n <= @[i].dep
               THEN [@[i] EXCEPT !.base = v] ELSE @[i]]]
        /\ flight' = [flight EXCEPT ![d] = {}]
        /\ UNCHANGED <<server, local, editing, made, seen, posts, sent, regrouped, faults>>

\* A pull or a realtime message applies the record's current version; the
\* replay in progress will find another remote generation (noteRemoteVersion).
Observe(d) ==
    /\ local[d] < Version
    /\ local' = [local EXCEPT ![d] = Version]
    /\ flight' = [flight EXCEPT ![d] = {[fl EXCEPT !.observed = TRUE] : fl \in @}]
    /\ UNCHANGED <<server, editing, log, made, seen, posts, sent, regrouped, faults>>

-----------------------------------------------------------------------------
(* Replay, the server's side                                               *)

Moved(r, new) == requests' = (requests \ {r}) \cup {new}

\* shouldApplyReplayMutation: it is newer than the row.
ShouldApply(r, row) == r.at > row.at

\* isDuplicateReplayMutation
IsDuplicate(r, row) == row.at = r.at /\ row.ids = r.ids

\* The sync row is looked up, and with it whether the mutation is to be applied
\* (shouldApplyReplayMutation), a duplicate or an older one; the access check
\* or the handler may refuse it.
LookUp(r) ==
    /\ r.phase = "sent"
    /\ \/ \E row \in rows[r.dev] : ~ShouldApply(r, row)
          /\ LET same == IsDuplicate(r, row)
             IN  Moved(r, [r EXCEPT !.phase = "answered", !.ack = IF same THEN {row.ack} ELSE {},
                               !.answer = IF same THEN "duplicate" ELSE "successful"])
       \/ \E row \in {{}} \cup {{x} : x \in rows[r.dev]} :
          /\ row = {} => rows[r.dev] = {}
          /\ \A x \in row : ShouldApply(r, x)
          /\ \/ Moved(r, [r EXCEPT !.phase = "found", !.row = row])
             \/ Moved(r, [r EXCEPT !.phase = "answered", !.answer = "failed"])
    /\ UNCHANGED <<history, rows, lock, client, faults>>

\* Under the advisory lock the record is read and its version compared
\* (routedReplayConflictResult) ...
Check(r) ==
    /\ r.phase = "found" /\ lock = Nobody
    /\ IF r.base = Version
       THEN lock' = <<r.dev, r.no>> /\ Moved(r, [r EXCEPT !.phase = "checked"])
       ELSE UNCHANGED lock /\ Moved(r, [r EXCEPT !.phase = "answered", !.answer = "conflict"])
    /\ UNCHANGED <<history, rows, client, faults>>

\* ... and saved.
Save(r) ==
    /\ r.phase = "checked"
    /\ history' = Append(history, [by |-> r.dev, ids |-> r.ids, base |-> r.base])
    /\ lock' = Nobody
    /\ Moved(r, [r EXCEPT !.phase = "saved", !.ack = {Version + 1}])
    /\ UNCHANGED <<rows, client, faults>>

\* persistReplayMutation writes the sync row that was looked up, or a new one.
Persist(r) ==
    /\ r.phase = "saved"
    /\ rows' = [rows EXCEPT ![r.dev] = (@ \ r.row) \cup {[at |-> r.at, ids |-> r.ids, ack |-> v] : v \in r.ack}]
    /\ Moved(r, [r EXCEPT !.phase = "answered", !.answer = "successful"])
    /\ UNCHANGED <<history, lock, client, faults>>

-----------------------------------------------------------------------------
(* Faults                                                                  *)

Fault == faults < FaultMax /\ faults' = faults + 1

GiveUp(d) == flight' = [flight EXCEPT ![d] = {}]

\* The request or its answer is lost, or the server stops while it works on it.
Lost(r) ==
    /\ Fault
    /\ \E fl \in flight[r.dev] : fl.no = r.no /\ fl.rebase = {}
    /\ requests' = requests \ {r}
    /\ lock' = IF lock = <<r.dev, r.no>> THEN Nobody ELSE lock
    /\ GiveUp(r.dev)
    /\ UNCHANGED <<history, rows, local, editing, log, made, seen, posts, sent, regrouped>>

\* The client stops waiting for a request that goes on.
TimesOut(r) ==
    /\ Fault
    /\ \E fl \in flight[r.dev] : fl.no = r.no /\ fl.rebase = {}
    /\ GiveUp(r.dev)
    /\ UNCHANGED <<server, local, editing, log, made, seen, posts, sent, regrouped>>

\* Nobody waits for the answer.
Unheard(r) ==
    /\ r.phase = "answered" /\ \A fl \in flight[r.dev] : fl.no # r.no
    /\ requests' = requests \ {r}
    /\ UNCHANGED <<history, rows, lock, client, faults>>

SyncNext ==
    \/ \E d \in Devices :
        \/ \E f \in Fields : BeginQueue(d, f)
        \/ Queued(d) \/ Compact(d) \/ Post(d) \/ Answered(d) \/ Rebase(d) \/ Observe(d)
    \/ \E r \in requests :
        LookUp(r) \/ Check(r) \/ Save(r) \/ Persist(r) \/ Lost(r) \/ TimesOut(r) \/ Unheard(r)

SyncSpec == SyncInit /\ [][SyncNext]_syncVars

-----------------------------------------------------------------------------
(* Properties                                                              *)

\* However often a mutation is sent again, alone or with others, while an
\* earlier request may still be at work: the server applies it at most once.
AppliedOnce ==
    \A i, j \in DOMAIN history : i # j /\ history[i].by = history[j].by =>
        history[i].ids \cap history[j].ids = {}

\* A mutation is applied only if the user who made it had seen every write of
\* the other devices, after any chain of rebases on its own acknowledgements.
NoBlindOverwrite ==
    \A i \in DOMAIN history : \A n \in history[i].ids :
        \A j \in seen[history[i].by][n] + 1..i - 1 : history[j].by = history[i].by

\* A device's mutations are applied in the order they were made, none past one
\* that was refused: what it depends on is acknowledged, or goes with it.
PredecessorFirst ==
    \A d \in Devices : \A i \in DOMAIN log[d] : \A k \in DOMAIN log[d] :
        log[d][i].n \in Applied(d) /\ log[d][k].n = log[d][i].dep =>
            \/ log[d][k].status = "synced"
            \/ \E h \in ToSet(history) : h.by = d /\ {log[d][i].n, log[d][k].n} \subseteq h.ids

\* compact leaves what open intent depends on, unless it ran while the intent
\* was being queued.
DependencyKept ==
    \A d \in Devices : \A i \in DOMAIN log[d] :
        log[d][i].status \in {"pending", "conflict"} /\ log[d][i].dep # 0 /\ ~log[d][i].orphan =>
            \E k \in DOMAIN log[d] : log[d][k].n = log[d][i].dep

\* A mutation the client holds for synced was applied, unless it was sent along
\* with one whose acknowledgement had got lost: the server takes such a request
\* for an old one and answers "successful".
SyncedIsAppliedButRegrouped ==
    \A d \in Devices : \A i \in DOMAIN log[d] :
        log[d][i].status = "synced" => log[d][i].n \in Applied(d) \/ <<d, log[d][i].n>> \in regrouped

\* A mutation the client holds for synced was applied.
SyncedIsApplied ==
    \A d \in Devices : \A i \in DOMAIN log[d] : log[d][i].status = "synced" => log[d][i].n \in Applied(d)

\* What the replay of offline mutations promises: each is applied once, after
\* its predecessors and over no value the device had not seen.
SyncInv ==
    /\ SyncTypeOK /\ AppliedOnce /\ NoBlindOverwrite /\ PredecessorFirst
    /\ DependencyKept /\ SyncedIsAppliedButRegrouped

=============================================================================
