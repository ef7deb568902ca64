---------------------------- MODULE Transactions ----------------------------
(***************************************************************************)
(* Transactions on one physical connection: the callback frames, nesting   *)
(* and deadlock retry of database/drivers/base.js, and the operations of   *)
(* configuration.withTransaction, which take the connection of a           *)
(* single-multi-use pool for themselves under an operation lease.          *)
(*                                                                         *)
(* Every caller runs one transaction.  In each of its frames it may write  *)
(* and register an after-commit callback, both named by the frame's mark,  *)
(* so that a property can compare what became durable with what ran.  What  *)
(* runs between two waits (for I/O, the lease or the mutex) is one step.    *)
(***************************************************************************)
EXTENDS Naturals, Integers, Sequences, FiniteSets, SequencesExt

CONSTANTS
    Ordinary,      \* callers of connection.transaction and query
    Operations,    \* callers of configuration.withTransaction
    Victims,       \* callers the database may choose to end a deadlock
    Catches,       \* the errors an outer callback swallows: "plain", "deadlock"
    DeadlockTries, \* deadlockMaxRetries
    NestMax,       \* bound on nesting
    FrameMax,      \* bound on the frames of one attempt
    TxnFaults,     \* bound on failing callbacks and statements
    NoOne

TxnCallers == Ordinary \cup Operations

ASSUME TransactionsAssumption ==
    /\ Ordinary \cap Operations = {}
    /\ NoOne \notin TxnCallers
    /\ Victims \subseteq TxnCallers
    /\ Catches \subseteq {"plain", "deadlock"}
    /\ {DeadlockTries, NestMax, FrameMax} \subseteq Nat \ {0}
    /\ TxnFaults \in Nat

Marks == TxnCallers \X (1..DeadlockTries) \X (1..FrameMax)
Frames == [mark : Marks, callbacks : SUBSET Marks]

VARIABLES
    durable,   \* the marks that are committed
    layers,    \* what is not: the transaction's writes, then each savepoint's
    txCount,   \* _transactionsCount
    stack,     \* _transactionCallbackFrames
    lease,     \* the operation whose lease is on the connection
    turns,     \* operationLeaseQueue, the running operation first
    at,        \* at[c]: where caller c is
    calls,     \* calls[c]: c's transaction() calls in progress, with how each began
    attempt, used, \* attempt[c], and the frames the attempt has used
    thrown,    \* thrown[c]: the error on its way out of c's frames
    ranCount,  \* how often a callback ran
    txnFaults

txnVars == <<durable, layers, txCount, stack, lease, turns, at, calls, attempt,
             used, thrown, ranCount, txnFaults>>

TxnTypeOK ==
    /\ durable \subseteq Marks
    /\ layers \in Seq(SUBSET Marks)
    /\ txCount \in Int
    /\ stack \in Seq(Frames)
    /\ lease \in Operations \cup {NoOne}
    /\ turns \in Seq(Operations)
    /\ at \in [TxnCallers -> {"idle", "turn", "enter", "start", "body", "end", "undo",
                           "backoff", "release", "done", "failed"}]
    /\ calls \in [TxnCallers -> Seq([mark : Marks, began : {"begin", "savepoint"}])]
    /\ attempt \in [TxnCallers -> 1..DeadlockTries]
    /\ used \in [TxnCallers -> 0..FrameMax]
    /\ thrown \in [TxnCallers -> {"none", "plain", "deadlock", "callback"}]
    /\ ranCount \in [Marks -> Nat]
    /\ txnFaults \in 0..TxnFaults

TxnInit ==
    /\ durable = {}
    /\ layers = <<>>
    /\ txCount = 0
    /\ stack = <<>>
    /\ lease = NoOne
    /\ turns = <<>>
    /\ at = [c \in TxnCallers |-> "idle"]
    /\ calls = [c \in TxnCallers |-> <<>>]
    /\ attempt = [c \in TxnCallers |-> 1]
    /\ used = [c \in TxnCallers |-> 0]
    /\ thrown = [c \in TxnCallers |-> "none"]
    /\ ranCount = [m \in Marks |-> 0]
    /\ txnFaults = 0

-----------------------------------------------------------------------------
\* _waitForOperationLease lets the owner pass and keeps everybody else waiting.
Passes(c) == lease \in {NoOne, c}

\* Errors a statement of c may meet.
Errors(c) == {"plain"} \cup IF c \in Victims THEN {"deadlock"} ELSE {}

\* _transactionsActionsMutex is held, or about to be taken, from the moment a
\* frame is pushed until its BEGIN or SAVEPOINT is done; and an error that has
\* nothing left to roll back passes through its frames at once.
MutexFree == \A c \in TxnCallers : at[c] # "start" /\ ~ (at[c] = "undo" /\ txCount = 0)

Goes(c, where) == at' = [at EXCEPT ![c] = where]

TxnFault == txnFaults < TxnFaults /\ txnFaults' = txnFaults + 1

\* The database: a write goes to the innermost layer, or straight to durable.
WriteTo(m) ==
    IF layers = <<>>
    THEN durable' = durable \cup {m} /\ UNCHANGED layers
    ELSE layers' = [layers EXCEPT ![Len(layers)] = @ \cup {m}] /\ UNCHANGED durable

TopCall(c) == calls[c][Len(calls[c])]

-----------------------------------------------------------------------------
(* Entering                                                                *)

\* withOperationConnection: the operation queues for its turn ...
OperationAsks(c) ==
    /\ c \in Operations /\ at[c] = "idle"
    /\ turns' = Append(turns, c)
    /\ Goes(c, "turn")
    /\ UNCHANGED <<durable, layers, txCount, stack, lease, calls, attempt, used, thrown, ranCount, txnFaults>>

\* ... and installs its lease, unless a transaction is open (setOperationLease).
OperationTurn(c) ==
    /\ at[c] = "turn" /\ Head(turns) = c /\ MutexFree
    /\ IF lease # NoOne \/ txCount > 0
       THEN Goes(c, "failed") /\ turns' = Tail(turns) /\ UNCHANGED lease
       ELSE Goes(c, "enter") /\ lease' = c /\ UNCHANGED turns
    /\ UNCHANGED <<durable, layers, txCount, stack, calls, attempt, used, thrown, ranCount, txnFaults>>

\* An ordinary caller writes outside a transaction of its own (query).
PlainWrite(c) ==
    /\ c \in Ordinary /\ at[c] = "idle" /\ Passes(c)
    /\ WriteTo(<<c, 1, 1>>)
    /\ Goes(c, "done")
    /\ UNCHANGED <<txCount, stack, lease, turns, calls, attempt, used, thrown, ranCount, txnFaults>>

OrdinaryEnters(c) ==
    /\ c \in Ordinary /\ at[c] = "idle"
    /\ Goes(c, "enter")
    /\ UNCHANGED <<durable, layers, txCount, stack, lease, turns, calls, attempt, used, thrown, ranCount, txnFaults>>

\* _runTransactionAttempt up to its first await: the frame is pushed before the
\* transaction (or the savepoint, when one is open) is started.
PushFrame(c) ==
    LET m == <<c, attempt[c], used[c] + 1>>
    IN  /\ used[c] < FrameMax
        /\ used' = [used EXCEPT ![c] = @ + 1]
        /\ stack' = Append(stack, [mark |-> m, callbacks |-> {}])
        /\ calls' = [calls EXCEPT ![c] = Append(@, [mark |-> m,
               began |-> IF txCount = 0 THEN "begin" ELSE "savepoint"])]
        /\ Goes(c, "start")

\* transaction(): waits for a foreign lease, then begins its first attempt.
Enter(c) ==
    /\ at[c] = "enter" /\ Passes(c)
    /\ PushFrame(c)
    /\ UNCHANGED <<durable, layers, txCount, lease, turns, attempt, thrown, ranCount, txnFaults>>

\* A nested transaction() in the callback.
Nest(c) ==
    /\ at[c] = "body" /\ Len(calls[c]) < NestMax /\ Passes(c)
    /\ PushFrame(c)
    /\ UNCHANGED <<durable, layers, txCount, lease, turns, attempt, thrown, ranCount, txnFaults>>

\* startTransaction waits for a foreign lease; both run under the mutex.
Start(c) ==
    /\ at[c] = "start" /\ Passes(c)
    /\ layers' = Append(layers, {})
    /\ txCount' = IF TopCall(c).began = "begin" THEN txCount + 1 ELSE txCount
    /\ Goes(c, "body")
    /\ UNCHANGED <<durable, stack, lease, turns, calls, attempt, used, thrown, ranCount, txnFaults>>

\* An error leaves c's innermost call: the callback around it lets it pass or,
\* if it is of a kind it catches, may go on.
Leaves(c, error) ==
    \/ Goes(c, "undo") /\ thrown' = [thrown EXCEPT ![c] = error]
    \/ /\ Len(calls[c]) > 1 /\ error \in Catches
       /\ Goes(c, "body") /\ thrown' = [thrown EXCEPT ![c] = "none"]

\* BEGIN or SAVEPOINT fails: the frame is popped.
StartFails(c) ==
    /\ at[c] = "start" /\ Passes(c) /\ TxnFault
    /\ stack' = Front(stack)
    /\ calls' = [calls EXCEPT ![c] = Front(@)]
    /\ \E error \in Errors(c) : Leaves(c, error)
    /\ UNCHANGED <<durable, layers, txCount, lease, turns, attempt, used, ranCount>>

-----------------------------------------------------------------------------
(* The callback                                                            *)

\* A write, and the registration of an after-commit callback on the current
\* frame, which is the top of the stack whoever pushed it (afterCommit).
Work(c) ==
    LET m == TopCall(c).mark
        top == Len(stack)
    IN  /\ at[c] = "body" /\ Passes(c)
        /\ WriteTo(m)
        /\ IF stack = <<>>
           THEN ranCount' = [ranCount EXCEPT ![m] = @ + 1] /\ UNCHANGED stack
           ELSE /\ stack' = [stack EXCEPT ![top].callbacks = @ \cup {m}]
                /\ UNCHANGED ranCount
        /\ UNCHANGED <<txCount, lease, turns, at, calls, attempt, used, thrown, txnFaults>>

\* The callback, or a before-commit guard after it, throws.
Throws(c) ==
    /\ at[c] = "body" /\ TxnFault
    /\ thrown' = [thrown EXCEPT ![c] = "plain"]
    /\ Goes(c, "undo")
    /\ UNCHANGED <<durable, layers, txCount, stack, lease, turns, calls, attempt, used, ranCount>>

\* A deadlock: MySQL rolls the transaction back, SQLite only reports the lock.
Deadlocked(c) ==
    /\ c \in Victims /\ at[c] \in {"body", "end"} /\ TxnFault
    /\ layers' \in {<<>>, layers}
    /\ thrown' = [thrown EXCEPT ![c] = "deadlock"]
    /\ Goes(c, "undo")
    /\ UNCHANGED <<durable, txCount, stack, lease, turns, calls, attempt, used, ranCount>>

\* The callback returns and the guards of its frame hold.
Returns(c) ==
    /\ at[c] = "body"
    /\ Goes(c, "end")
    /\ UNCHANGED <<durable, layers, txCount, stack, lease, turns, calls, attempt, used, thrown, ranCount, txnFaults>>

-----------------------------------------------------------------------------
(* The end of a frame                                                      *)

\* RELEASE SAVEPOINT merges the layer into the one below; COMMIT makes the
\* transaction durable.  COMMIT without a transaction is harmless.
Durably(c) ==
    IF TopCall(c).began = "savepoint"
    THEN /\ LET n == Len(layers)
            IN  layers' = IF n > 1
                          THEN Append(SubSeq(layers, 1, n - 2), layers[n - 1] \cup layers[n])
                          ELSE layers
         /\ UNCHANGED <<durable, txCount>>
    ELSE /\ durable' = durable \cup UNION ToSet(layers)
         /\ layers' = <<>>
         /\ txCount' = txCount - 1

\* The callbacks of R run, once more each.
Run(R) == ranCount' = [m \in Marks |-> IF m \in R THEN ranCount[m] + 1 ELSE ranCount[m]]

\* Where c goes on when its innermost call is over: in the callback around it,
\* or out of transaction(); an operation then gives its lease back.
Outwards(c) == IF Len(calls[c]) > 1 THEN "body"
               ELSE IF c \in Operations THEN "release" ELSE "done"

\* Mutant: the callbacks of a nested frame are dropped with it.
HandoverDrops == stack' = Front(stack) /\ Run(IF Len(stack) = 1 THEN Last(stack).callbacks ELSE {})

\* The frame is popped (_commitTransactionCallbackFrame): its callbacks go to
\* the frame below, or run.
Handover ==
    LET popped == Last(stack)
        below == Front(stack)
    IN  IF below # <<>>
        THEN /\ stack' = [below EXCEPT ![Len(below)].callbacks = @ \cup popped.callbacks]
             /\ UNCHANGED ranCount
        ELSE stack' = below /\ Run(popped.callbacks)

Commit(c) ==
    /\ at[c] = "end"
    /\ Durably(c)
    /\ Handover
    /\ calls' = [calls EXCEPT ![c] = Front(@)]
    /\ Goes(c, Outwards(c))
    /\ UNCHANGED <<lease, turns, attempt, used, thrown, txnFaults>>

\* The error a failing callback raises from _runTransactionAttempt: whatever its
\* message is, transaction() does not retry it.
CallbackError == "callback"

\* COMMIT is done and a callback throws: some of them ran.
CallbackFails(c) ==
    /\ at[c] = "end" /\ Len(stack) = 1 /\ TopCall(c).began = "begin" /\ TxnFault
    /\ Durably(c)
    /\ Last(stack).callbacks # {}
    /\ \E R \in SUBSET Last(stack).callbacks : Run(R)
    /\ stack' = <<>>
    /\ calls' = [calls EXCEPT ![c] = Front(@)]
    /\ thrown' = [thrown EXCEPT ![c] = CallbackError]
    /\ Goes(c, "undo")
    /\ UNCHANGED <<lease, turns, attempt, used>>

\* The catch of _runTransactionAttempt.  ROLLBACK TO fails when the savepoint is
\* gone, and the whole transaction is rolled back instead; the outermost call
\* rolls back what is still open.
Rollback(c) ==
    /\ at[c] = "undo" /\ calls[c] # <<>>
    /\ IF TopCall(c).began = "savepoint" /\ Len(layers) > 1
       THEN layers' = Front(layers) /\ UNCHANGED txCount
       ELSE IF TopCall(c).began = "savepoint" \/ txCount > 0
       THEN layers' = <<>> /\ txCount' = txCount - 1
       ELSE UNCHANGED <<layers, txCount>>
    /\ stack' = Front(stack)
    /\ calls' = [calls EXCEPT ![c] = Front(@)]
    /\ Leaves(c, thrown[c])
    /\ UNCHANGED <<durable, lease, turns, attempt, used, ranCount, txnFaults>>

\* The error leaves transaction(): a deadlock is retried while attempts are
\* left, everything else ends the caller's transaction.
Escapes(c) ==
    /\ at[c] = "undo" /\ calls[c] = <<>>
    /\ IF thrown[c] = "deadlock" /\ attempt[c] < DeadlockTries /\ txCount = 0
       THEN Goes(c, "backoff")
       ELSE Goes(c, IF c \in Operations THEN "release" ELSE "failed")
    /\ UNCHANGED <<durable, layers, txCount, stack, lease, turns, calls, attempt, used, thrown, ranCount, txnFaults>>

\* The next attempt does not look at the lease again before it pushes its frame.
Retry(c) ==
    /\ at[c] = "backoff"
    /\ attempt' = [attempt EXCEPT ![c] = @ + 1]
    /\ thrown' = [thrown EXCEPT ![c] = "none"]
    /\ LET m == <<c, attempt[c] + 1, 1>>
       IN  /\ used' = [used EXCEPT ![c] = 1]
           /\ stack' = Append(stack, [mark |-> m, callbacks |-> {}])
           /\ calls' = [calls EXCEPT ![c] = <<[mark |-> m,
                  began |-> IF txCount = 0 THEN "begin" ELSE "savepoint"]>>]
           /\ Goes(c, "start")
    /\ UNCHANGED <<durable, layers, txCount, lease, turns, ranCount, txnFaults>>

\* The cleanup of runOwnedOperation and withOperationConnection.
OperationEnds(c) ==
    /\ at[c] = "release"
    /\ lease' = NoOne
    /\ turns' = Tail(turns)
    /\ Goes(c, IF thrown[c] = "none" THEN "done" ELSE "failed")
    /\ UNCHANGED <<durable, layers, txCount, stack, calls, attempt, used, thrown, ranCount, txnFaults>>

TxnStep(c) ==
    \/ OperationAsks(c) \/ OperationTurn(c) \/ PlainWrite(c) \/ OrdinaryEnters(c)
    \/ Enter(c) \/ Nest(c) \/ Start(c) \/ StartFails(c)
    \/ Work(c) \/ Throws(c) \/ Deadlocked(c) \/ Returns(c) \/ Commit(c)
    \/ CallbackFails(c) \/ Rollback(c) \/ Escapes(c) \/ Retry(c)
    \/ OperationEnds(c)

TxnNext == \E c \in TxnCallers : TxnStep(c)

TxnSpec == TxnInit /\ [][TxnNext]_txnVars

-----------------------------------------------------------------------------
(* Properties                                                              *)

\* While an operation holds its lease nothing but its own work is in the open
\* transaction, and nobody else is between a BEGIN and its end: the operation
\* neither joins an ordinary transaction nor lets a query in.
OperationIsolated ==
    lease # NoOne =>
        /\ \A i \in 1..Len(layers) : \A m \in layers[i] : m[1] = lease
        /\ \A c \in TxnCallers \ {lease} : at[c] \notin {"body", "end"}

\* A callback runs at most once, and only for work that is durable.
CallbackOnlyAfterCommit ==
    \A m \in Marks : ranCount[m] <= 1 /\ (ranCount[m] = 1 => m \in durable)

\* A transaction that resolved has run the callback of everything it made
\* durable, before withTransaction settles.
ResolvedRanItsCallbacks ==
    \A c \in TxnCallers : at[c] = "done" /\ used[c] > 0 =>
        \A m \in durable : m[1] = c => ranCount[m] = 1

\* A transaction that rejected left nothing behind, unless its commit was done
\* and a callback after it failed; and whatever was retried, the work of one
\* attempt at most is durable.
AllOrNothing ==
    /\ \A c \in TxnCallers : at[c] = "failed" /\ thrown[c] # "callback" =>
           \A m \in durable : m[1] # c
    /\ \A m, n \in durable : m[1] = n[1] => m[2] = n[2]

\* _transactionsCount, by which transaction() chooses between BEGIN and a
\* savepoint and decides on a retry, agrees with the database and with the calls
\* in progress whenever no error is on its way out.
CountIsTruth ==
    (\A c \in TxnCallers : at[c] # "undo") =>
        /\ txCount = IF layers = <<>> THEN 0 ELSE 1
        /\ txCount = Cardinality({c \in TxnCallers :
               /\ calls[c] # <<>> /\ calls[c][1].began = "begin"
               /\ Len(calls[c]) > 1 \/ at[c] # "start"})

\* The count was lost: a deadlock met three calls deep is rolled back once for
\* each savepoint, as each finds its savepoint gone (1665-1673), and the count
\* falls below zero.  It stays there: nothing begins a transaction any more.
CountLost == txCount < 0

\* What a transaction promises its caller: isolation from other operations, all
\* or nothing, and callbacks after the commit and only then.
TxnInv ==
    \/ CountLost
    \/ /\ TxnTypeOK /\ OperationIsolated /\ CallbackOnlyAfterCommit
       /\ ResolvedRanItsCallbacks /\ AllOrNothing /\ CountIsTruth

\* A deadlock ends an operation only when its attempts are used up: the database
\* aborted the whole transaction, so the outermost call repeats it (mysql
\* index.js:378), whichever of the nested calls met the deadlock.
DeadlocksAreRetried ==
    \A c \in Operations :
        at[c] = "release" /\ thrown[c] = "deadlock" => attempt[c] = DeadlockTries

=============================================================================
