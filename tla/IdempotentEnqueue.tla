-------------------------- MODULE IdempotentEnqueue --------------------------
(***************************************************************************)
(* Enqueueing under an idempotency key (background-jobs/store.js,          *)
(* _enqueueIdempotently).  Callers in different processes run one          *)
(* transaction each, statement by statement; the primary key of the        *)
(* ownership table, not a lock, decides between them.  A caller whose      *)
(* acknowledgement is lost does not know whether it committed and asks     *)
(* again, with a fresh job id.                                             *)
(*                                                                         *)
(* A scope is a job name, a queue and a key.  When the jobs are required   *)
(* mail deliveries the key is also the id of the mail operation, one row   *)
(* that all the scopes of that key share.                                  *)
(***************************************************************************)
EXTENDS Integers, FiniteSets

CONSTANTS
    Callers,
    Scopes,       \* scopes with one and the same idempotency key
    Digests,      \* request digests
    Isolation,    \* isolation levels of the database: "committed" reads see
                  \* every commit, "snapshot" reads those before the first
    MaxTries,     \* bound on a caller's transactions
    MaxMishaps,   \* bound on rolled back transactions and lost answers
    Nothing

VARIABLES
    level,      \* the database's isolation level
    mail,       \* whether the jobs are mail deliveries
    owners,     \* background_job_idempotency_keys, by scope
    operation,  \* the row of the key in mailer_delivery_operations
    born,       \* every job row ever committed, with its scope
    pruned,     \* those that retention has deleted
    call,       \* what each caller asks for
    step,       \* where its transaction is
    view,       \* what the tables held at its first read
    tries, answer, mishaps

idemVars == <<level, mail, owners, operation, born, pruned, call, step, view,
              tries, answer, mishaps>>

Calls == [scope: Scopes, digest: Digests]
JobIds == Callers \X (1..MaxTries)
Owners == [job: JobIds, digest: Digests]
Refusals == {"conflict", "error"}

\* Ids, answers and refusals are told apart, and nothing is none of them.
ASSUME IdemAssumption ==
    /\ MaxTries \in Nat /\ MaxMishaps \in Nat
    /\ Nothing \notin Owners /\ Nothing \notin JobIds /\ Nothing \notin Refusals
    /\ \A r \in Refusals : r \notin JobIds

Steps == {"idle", "look", "claim", "lost", "check", "count", "mail", "commit",
          "unknown", "done"}
Tables == [owners |-> owners, operation |-> operation]
Views == [owners: [Scopes -> Owners \cup {Nothing}],
          operation: Owners \cup {Nothing}]

IdemInit ==
    /\ level \in Isolation /\ mail \in BOOLEAN
    /\ owners = [s \in Scopes |-> Nothing]
    /\ operation = Nothing
    /\ born = {} /\ pruned = {}
    /\ call \in [Callers -> Calls]
    /\ step = [p \in Callers |-> "idle"]
    /\ view = [p \in Callers |-> Nothing]
    /\ tries = [p \in Callers |-> 0]
    /\ answer = [p \in Callers |-> Nothing]
    /\ mishaps = 0

\* The id generated for the job of the caller's current call (_prepareJob).
Prepared(p) == <<p, tries[p]>>
OwnerRow(p) == [job |-> Prepared(p), digest |-> call[p].digest]

\* What a SELECT in the caller's transaction returns.
Sees(p) == IF level = "snapshot" THEN view[p] ELSE Tables

\* Uncommitted rows and locks of other transactions.
HoldsScope(p, s) == call[p].scope = s /\ step[p] \in {"count", "mail", "commit"}
HoldsCount(p) == step[p] \in {"mail", "commit"}

Goes(p, where) ==
    /\ step' = [step EXCEPT ![p] = where]
    /\ UNCHANGED <<answer, view>>

\* The transaction ends without an insert: with an id, or by throwing.
Ends(p, what) ==
    /\ step' = [step EXCEPT ![p] = "done"]
    /\ answer' = [answer EXCEPT ![p] = what]
    /\ view' = [view EXCEPT ![p] = Nothing]

tables == <<level, mail, owners, operation, born, pruned>>
asking == <<call, tries, mishaps>>

\* A first call, a replay of a finished one, or another go after an answer
\* that never came; always the same request.
Ask(p) ==
    /\ step[p] \in {"idle", "unknown", "done"} /\ tries[p] < MaxTries
    /\ step' = [step EXCEPT ![p] = "look"]
    /\ tries' = [tries EXCEPT ![p] = @ + 1]
    /\ answer' = [answer EXCEPT ![p] = Nothing]
    /\ UNCHANGED <<tables, call, view, mishaps>>

\* _idempotencyOwnership, the transaction's first read.
Look(p) ==
    /\ step[p] = "look"
    /\ view' = [view EXCEPT ![p] = Tables]
    /\ step' = [step EXCEPT ![p] = IF owners[call[p].scope] = Nothing
                                   THEN "claim" ELSE "check"]
    /\ UNCHANGED <<tables, asking, answer>>

\* _claimIdempotencyOwnership: the insert waits for an uncommitted row of
\* the scope and fails, to its savepoint, on a committed one.
Claim(p) ==
    /\ step[p] = "claim"
    /\ \A q \in Callers \ {p} : ~HoldsScope(q, call[p].scope)
    /\ Goes(p, IF owners[call[p].scope] = Nothing THEN "count" ELSE "lost")
    /\ UNCHANGED <<tables, asking>>

\* The loser reads the winner's row, if its transaction can see it.
Lost(p) ==
    /\ step[p] = "lost"
    /\ IF Sees(p).owners[call[p].scope] = Nothing THEN Ends(p, "error")
       ELSE Goes(p, "check")
    /\ UNCHANGED <<tables, asking>>

\* _validateIdempotencyOwnership and _validateMailDeliveryOperation.
Check(p) ==
    LET row == Sees(p).owners[call[p].scope]
        op == Sees(p).operation
    IN
    /\ step[p] = "check"
    /\ \/ row.digest # call[p].digest /\ Ends(p, "conflict")
       \/ row.digest = call[p].digest /\ mail /\ op = Nothing /\ Ends(p, "error")
       \/ /\ row.digest = call[p].digest /\ mail /\ op \notin {Nothing, row}
          /\ Ends(p, "conflict")
       \/ row.digest = call[p].digest /\ (mail => op = row) /\ Ends(p, row.job)
    /\ UNCHANGED <<tables, asking>>

\* _lockCountRevision and _insertPreparedJob.
LockCount(p) ==
    /\ step[p] = "count"
    /\ \A q \in Callers \ {p} : ~HoldsCount(q)
    /\ Goes(p, "mail")
    /\ UNCHANGED <<tables, asking>>

\* Mutant: a duplicate operation is taken for one's own.
PersistAnyway(p) ==
    /\ step[p] = "mail"
    /\ Goes(p, "commit")
    /\ UNCHANGED <<tables, asking>>

\* _persistMailDeliveryOperation: an operation that is there already belongs
\* to another job.
PersistMail(p) ==
    /\ step[p] = "mail"
    /\ IF ~mail \/ operation = Nothing THEN Goes(p, "commit")
       ELSE Ends(p, IF Sees(p).operation = Nothing THEN "error" ELSE "conflict")
    /\ UNCHANGED <<tables, asking>>

\* Ownership, job and operation become visible together; the producer may
\* have given up waiting for the acknowledgement.
Commit(p, heard) ==
    /\ step[p] = "commit"
    /\ heard \/ mishaps < MaxMishaps
    /\ mishaps' = IF heard THEN mishaps ELSE mishaps + 1
    /\ owners' = [owners EXCEPT ![call[p].scope] = OwnerRow(p)]
    /\ operation' = IF mail /\ operation = Nothing THEN OwnerRow(p) ELSE operation
    /\ born' = born \cup {<<Prepared(p), call[p].scope>>}
    /\ view' = [view EXCEPT ![p] = Nothing]
    /\ step' = [step EXCEPT ![p] = IF heard THEN "done" ELSE "unknown"]
    /\ answer' = [answer EXCEPT ![p] = IF heard THEN Prepared(p) ELSE Nothing]
    /\ UNCHANGED <<level, mail, pruned, call, tries>>

\* A statement fails, the connection or the process is lost: nothing stays.
Rollback(p) ==
    /\ step[p] \in {"look", "claim", "lost", "check", "count", "mail", "commit"}
    /\ mishaps < MaxMishaps /\ mishaps' = mishaps + 1
    /\ step' = [step EXCEPT ![p] = "unknown"]
    /\ view' = [view EXCEPT ![p] = Nothing]
    /\ UNCHANGED <<tables, call, tries, answer>>

\* Retention deletes a finished job's row and never its ownership.
Prune(j) ==
    /\ \E s \in Scopes : <<j, s>> \in born
    /\ j \notin pruned
    /\ pruned' = pruned \cup {j}
    /\ UNCHANGED <<level, mail, owners, operation, born, call, step, view,
                   tries, answer, mishaps>>

IdemNext ==
    \/ \E p \in Callers :
          \/ Ask(p) \/ Look(p) \/ Claim(p) \/ Lost(p) \/ Check(p)
          \/ LockCount(p) \/ PersistMail(p) \/ Rollback(p)
    \/ \E p \in Callers, heard \in BOOLEAN : Commit(p, heard)
    \/ \E j \in JobIds : Prune(j)

-----------------------------------------------------------------------------
(* Properties.                                                             *)

IdemTypeOK ==
    /\ level \in Isolation /\ mail \in BOOLEAN
    /\ owners \in [Scopes -> Owners \cup {Nothing}]
    /\ operation \in Owners \cup {Nothing}
    /\ born \subseteq JobIds \X Scopes /\ pruned \subseteq JobIds
    /\ call \in [Callers -> Calls]
    /\ step \in [Callers -> Steps] /\ view \in [Callers -> Views \cup {Nothing}]
    /\ tries \in [Callers -> 0..MaxTries] /\ mishaps \in 0..MaxMishaps
    /\ answer \in [Callers -> JobIds \cup Refusals \cup {Nothing}]
    /\ \A p \in Callers : /\ step[p] = "done" <=> answer[p] # Nothing
                          /\ step[p] = "done" => view[p] = Nothing

\* One logical enqueue makes one job, ever: not two when the first calls
\* race, not two when an answer is lost and the call is repeated, and not
\* again when retention has deleted the job.
OneJobPerScope ==
    \A s \in Scopes : Cardinality({b \in born : b[2] = s}) <= 1

\* An id that a caller is given is the id of the job that was committed for
\* its scope, and that job was requested with the very same request.
AnswerIsTheJob ==
    \A p \in Callers :
        answer[p] \in JobIds =>
            /\ <<answer[p], call[p].scope>> \in born
            /\ owners[call[p].scope] =
                  [job |-> answer[p], digest |-> call[p].digest]

\* One mail operation is delivered by one job, whatever queues its id is
\* enqueued under: the operation row names the job, and the second scope's
\* ownership and job are rolled back with its failing insert.
OneJobPerOperation ==
    mail => /\ Cardinality(born) <= 1
            /\ operation = Nothing <=> born = {}

\* Where statements read what is committed, concurrent first enqueues converge:
\* the loser of the race is given the winner's id or a conflict, never the bare
\* duplicate-key error.  A transaction that reads from an older snapshot may be
\* left with that error, but only when the winner's ownership, or the operation
\* of the key, is committed, so that asking again finds it.
Beaten(p) == owners[call[p].scope] # Nothing \/ (mail /\ operation # Nothing)
LoserConverges ==
    \A p \in Callers : answer[p] = "error" => level = "snapshot" /\ Beaten(p)

\* What an idempotency key promises its callers (_claimIdempotencyOwnership and
\* the mail operation tied to it): one job, no other job in any answer, and no
\* bare error except for a loser that reads from an older snapshot.
IdemInv ==
    /\ IdemTypeOK /\ OneJobPerScope /\ AnswerIsTheJob /\ OneJobPerOperation
    /\ LoserConverges

=============================================================================
