--------------------------- MODULE WebPersistence ---------------------------
(***************************************************************************)
(* The SQL.js database of a browser: the database is in memory, and        *)
(* connection-sql-js.js saves its bytes after a debounce, outside of       *)
(* transactions, under a mutex that the start of a transaction takes too.  *)
(* The driver, sqlite/index.web.js, starts and ends the transactions.      *)
(*                                                                         *)
(* Transactions come one after the other (the operation lease, or one      *)
(* caller at a time); plain statements come at any time, and what is       *)
(* written while a transaction is open belongs to it.                      *)
(***************************************************************************)
EXTENDS Naturals, Sequences, FiniteSets

CONSTANTS
    Starters,     \* callers of transaction()
    Known,        \* TRUE: statements that query() knows to write; FALSE: others
    WriteMax,     \* bound on the rows written
    SaveFaults,   \* bound on failing saves and BEGINs
    NoStarter

ASSUME WebPersistenceAssumption ==
    /\ NoStarter \notin Starters /\ Known \subseteq BOOLEAN
    /\ {WriteMax, SaveFaults} \subseteq Nat

RowIds == 1..WriteMax

VARIABLES
    image,      \* the rows in memory that no open transaction could undo
    layer,      \* the rows of the open transaction
    open,       \* does SQL.js have a transaction open
    disk,       \* the rows in the browser's storage
    count,      \* _transactionsCount
    starting,   \* databaseTransactionStarting
    debounced,  \* saveDatabaseDebounce.isPending
    deferred,   \* databaseSaveDeferred
    line,       \* databaseSaveMutex: its holder first, then those who wait
    phase,      \* what the holder awaits: "nothing", "save" or "begin"
    content,    \* the bytes it saves
    on,         \* on[s]: where caller s is
    owed,       \* owed[s]: what s has committed and not been answered for
    promised,   \* what the resolved commits have committed
    unknown,    \* history: the rows written by statements that armed no save
    written, saveFaults

webVars == <<image, layer, open, disk, count, starting, debounced, deferred, line,
             phase, content, on, owed, promised, unknown, written, saveFaults>>

\* "saves": saveDatabase, for a flush of caller `by` or for nobody; "starts":
\* withTransactionStart.
Jobs == [does : {"saves", "starts"}, by : Starters \cup {NoStarter}]
Places == {"off", "queued", "begun", "counted", "body", "ended", "settled", "flushing"}

WebTypeOK ==
    /\ {image, layer, disk, content, promised, unknown} \subseteq SUBSET RowIds
    /\ {open, starting, debounced, deferred} \subseteq BOOLEAN
    /\ count \in 0..1
    /\ line \in Seq(Jobs)
    /\ phase \in {"nothing", "save", "begin"}
    /\ on \in [Starters -> Places]
    /\ owed \in [Starters -> SUBSET RowIds]
    /\ written \in 0..WriteMax
    /\ saveFaults \in 0..SaveFaults

WebInit ==
    /\ image = {} /\ layer = {} /\ disk = {} /\ content = {} /\ promised = {} /\ unknown = {}
    /\ open = FALSE /\ starting = FALSE /\ debounced = FALSE /\ deferred = FALSE
    /\ count = 0
    /\ line = <<>>
    /\ phase = "nothing"
    /\ on = [s \in Starters |-> "off"]
    /\ owed = [s \in Starters |-> {}]
    /\ written = 0
    /\ saveFaults = 0

-----------------------------------------------------------------------------
(* Saves                                                                   *)

\* Mutant: nothing marks the time between BEGIN and the count of it.
DefersByCount == count > 0

\* saveDatabase leaves the bytes to the transaction's end.
Defers == count > 0 \/ starting

\* connection.export().  SQL.js closes and reopens the database to export it,
\* which ends an open transaction.
Export ==
    /\ content' = image
    /\ deferred' = FALSE
    /\ open' = FALSE
    /\ layer' = {}

Saving(by) == [does |-> "saves", by |-> by]
Promises(s) == promised' = promised \cup (IF s \in Starters THEN owed[s] ELSE {})
Back(s) == [t \in Starters |-> IF t = s THEN "off" ELSE on[t]]

\* Whoever is first in line for a free mutex goes on before any later event of
\* the page; only the awaits between BEGIN or COMMIT and its count may come first.
MutexPrompt == line # <<>> => phase # "nothing"

\* A statement that writes.  query() arms the debounce for those that begin with
\* `delete`, `insert into` or `update` and for scripts, and for no other: not for
\* what creates, alters or drops a table.
Write(known) ==
    /\ MutexPrompt /\ written < WriteMax
    /\ written' = written + 1
    /\ IF open THEN layer' = layer \cup {written'} /\ UNCHANGED image
       ELSE image' = image \cup {written'} /\ UNCHANGED layer
    /\ debounced' = (debounced \/ known)
    /\ unknown' = IF known THEN unknown ELSE unknown \cup {written'}
    /\ UNCHANGED <<open, disk, count, starting, deferred, line, phase, content, on, owed, promised, saveFaults>>

\* The debounce's timer.  (Between the count of a transaction's end and its
\* flush there is no await in which a timer could fire.)
DebounceFires ==
    /\ MutexPrompt /\ debounced
    /\ \A s \in Starters : on[s] # "settled"
    /\ debounced' = FALSE
    /\ line' = Append(line, Saving(NoStarter))
    /\ UNCHANGED <<image, layer, open, disk, count, starting, deferred, phase, content, on, owed, promised, unknown, written, saveFaults>>

\* flushPendingWrites of the application.
Flush ==
    /\ MutexPrompt /\ ~\E i \in DOMAIN line : line[i] = Saving(NoStarter)
    /\ debounced' = FALSE
    /\ line' = Append(line, Saving(NoStarter))
    /\ UNCHANGED <<image, layer, open, disk, count, starting, deferred, phase, content, on, owed, promised, unknown, written, saveFaults>>

\* The first in line gets the mutex.
SaveEnters ==
    /\ line # <<>> /\ phase = "nothing" /\ Head(line).does = "saves"
    /\ IF Defers
       THEN /\ deferred' = TRUE
            /\ line' = Tail(line)
            /\ on' = Back(Head(line).by)
            /\ Promises(Head(line).by)
            /\ UNCHANGED <<phase, content, open, layer>>
       ELSE /\ Export
            /\ phase' = "save"
            /\ UNCHANGED <<line, on, promised>>
    /\ UNCHANGED <<image, disk, count, starting, debounced, owed, unknown, written, saveFaults>>

StartEnters ==
    /\ line # <<>> /\ phase = "nothing" /\ Head(line).does = "starts"
    /\ IF deferred
       THEN Export /\ phase' = "save" /\ UNCHANGED starting
       ELSE starting' = TRUE /\ phase' = "begin" /\ UNCHANGED <<content, deferred, open, layer>>
    /\ UNCHANGED <<image, disk, count, debounced, line, on, owed, promised, unknown, written, saveFaults>>

\* persistence.save resolves.
SaveEnds ==
    /\ phase = "save"
    /\ disk' = content
    /\ IF Head(line).does = "starts"
       THEN /\ starting' = TRUE
            /\ phase' = "begin"
            /\ UNCHANGED <<line, on, promised>>
       ELSE /\ phase' = "nothing"
            /\ line' = Tail(line)
            /\ on' = Back(Head(line).by)
            /\ Promises(Head(line).by)
            /\ UNCHANGED starting
    /\ UNCHANGED <<image, layer, open, count, debounced, deferred, content, owed, unknown, written, saveFaults>>

SaveFault == saveFaults < SaveFaults /\ saveFaults' = saveFaults + 1

\* persistence.save rejects, and so does whoever awaits it.
SaveFails ==
    /\ phase = "save" /\ SaveFault
    /\ phase' = "nothing"
    /\ line' = Tail(line)
    /\ on' = Back(Head(line).by)
    /\ starting' = IF Head(line).does = "starts" THEN FALSE ELSE starting
    /\ UNCHANGED <<image, layer, open, disk, count, debounced, deferred, content, owed, promised, unknown, written>>

-----------------------------------------------------------------------------
(* Transactions                                                            *)

\* startTransaction up to the mutex: a save that the debounce owes becomes one
\* that the start makes.
StartTransaction(s) ==
    /\ MutexPrompt /\ on[s] = "off" /\ count = 0
    /\ \A t \in Starters : on[t] \in {"off", "settled", "flushing"}
    /\ debounced' = FALSE
    /\ deferred' = (deferred \/ debounced)
    /\ line' = Append(line, [does |-> "starts", by |-> s])
    /\ on' = [on EXCEPT ![s] = "queued"]
    /\ owed' = [owed EXCEPT ![s] = {}]
    /\ UNCHANGED <<image, layer, open, disk, count, starting, phase, content, promised, unknown, written, saveFaults>>

\* BEGIN, and the mutex is free; or BEGIN fails.
Begins ==
    /\ phase = "begin"
    /\ open' = TRUE
    /\ on' = [on EXCEPT ![Head(line).by] = "begun"]
    /\ phase' = "nothing"
    /\ line' = Tail(line)
    /\ UNCHANGED <<image, layer, disk, count, starting, debounced, deferred, content, owed, promised, unknown, written, saveFaults>>

BeginFails ==
    /\ phase = "begin" /\ SaveFault
    /\ starting' = FALSE
    /\ on' = Back(Head(line).by)
    /\ phase' = "nothing"
    /\ line' = Tail(line)
    /\ UNCHANGED <<image, layer, open, disk, count, debounced, deferred, content, owed, promised, unknown, written>>

\* The rest of startTransaction: the transaction is counted, then the mark goes.
Counts(s) ==
    /\ on[s] = "begun"
    /\ count' = count + 1
    /\ on' = [on EXCEPT ![s] = "counted"]
    /\ UNCHANGED <<image, layer, open, disk, starting, debounced, deferred, line, phase, content, owed, promised, unknown, written, saveFaults>>

CompleteTransactionStart(s) ==
    /\ on[s] = "counted"
    /\ starting' = FALSE
    /\ on' = [on EXCEPT ![s] = "body"]
    /\ UNCHANGED <<image, layer, open, disk, count, debounced, deferred, line, phase, content, owed, promised, unknown, written, saveFaults>>

\* COMMIT; or ROLLBACK, by choice or after a COMMIT that failed.
Commits(s) ==
    /\ MutexPrompt /\ on[s] = "body"
    /\ image' = image \cup layer
    /\ layer' = {}
    /\ open' = FALSE
    /\ owed' = [owed EXCEPT ![s] = image']
    /\ on' = [on EXCEPT ![s] = "ended"]
    /\ UNCHANGED <<disk, count, starting, debounced, deferred, line, phase, content, promised, unknown, written, saveFaults>>

RollsBack(s) ==
    /\ MutexPrompt /\ on[s] = "body"
    /\ layer' = {}
    /\ open' = FALSE
    /\ on' = [on EXCEPT ![s] = "ended"]
    /\ UNCHANGED <<image, disk, count, starting, debounced, deferred, line, phase, content, owed, promised, unknown, written, saveFaults>>

EndIsCounted(s) ==
    /\ on[s] = "ended"
    /\ count' = count - 1
    /\ on' = [on EXCEPT ![s] = "settled"]
    /\ UNCHANGED <<image, layer, open, disk, starting, debounced, deferred, line, phase, content, owed, promised, unknown, written, saveFaults>>

\* hasPendingDatabaseSave
Owes == debounced \/ deferred

\* flushPendingDatabaseSave after the outermost transaction.
FlushPending(s) ==
    /\ MutexPrompt /\ on[s] = "settled"
    /\ IF Owes
       THEN /\ debounced' = FALSE
            /\ line' = Append(line, Saving(s))
            /\ on' = [on EXCEPT ![s] = "flushing"]
            /\ UNCHANGED promised
       ELSE /\ on' = [on EXCEPT ![s] = "off"]
            /\ Promises(s)
            /\ UNCHANGED <<debounced, line>>
    /\ UNCHANGED <<image, layer, open, disk, count, starting, deferred, phase, content, owed, unknown, written, saveFaults>>

WebNext ==
    \/ (\E known \in Known : Write(known)) \/ DebounceFires \/ Flush
    \/ SaveEnters \/ StartEnters \/ SaveEnds \/ SaveFails
    \/ Begins \/ BeginFails
    \/ \E s \in Starters :
        \/ StartTransaction(s) \/ Counts(s) \/ CompleteTransactionStart(s)
        \/ Commits(s) \/ RollsBack(s) \/ EndIsCounted(s) \/ FlushPending(s)

WebSpec == WebInit /\ [][WebNext]_webVars

-----------------------------------------------------------------------------
(* Properties                                                              *)

\* A transaction whose BEGIN succeeded is open until its own COMMIT or ROLLBACK:
\* no save, however it was queued, deferred or left over from before, exports
\* the database in between and so ends it.
TransactionSurvivesSaves ==
    \A s \in Starters : on[s] \in {"begun", "counted", "body"} => open

\* The storage holds a state that the memory was in, outside of transactions: no
\* row that a transaction has not committed or has rolled back, and none without
\* the rows that were there before it.
StorageIsAPast ==
    /\ disk \subseteq image
    /\ \A r \in disk, q \in image : q < r => q \in disk

\* When nothing is queued, owed or open, what the memory holds beyond the storage
\* was written by statements that armed no save: between debounce, deferral and
\* the start of transactions no save is dropped.  (A save that failed is not
\* repeated until the next write.)
NoSaveForgotten ==
    line = <<>> /\ ~debounced /\ ~deferred /\ saveFaults = 0
        /\ (\A s \in Starters : on[s] = "off")
    => image \ unknown \subseteq disk

\* What a resolved transaction() has committed is in storage or in the save under
\* way, which somebody else may have begun, except for what statements wrote that
\* armed no save.
CommitIsSaved ==
    saveFaults = 0 =>
        promised \ unknown \subseteq disk \cup (IF phase = "save" THEN content ELSE {})

\* The same without the save under way, as commitTransaction says of itself.
CommitIsStored == saveFaults = 0 => promised \ unknown \subseteq disk

\* What the browser database promises: a save never ends a transaction, none is
\* forgotten that was armed, what is stored is a past state of the database, and
\* an answered commit is in it or will be when the save under way ends.
WebInv ==
    /\ WebTypeOK /\ TransactionSurvivesSaves /\ StorageIsAPast
    /\ NoSaveForgotten /\ CommitIsSaved

=============================================================================
