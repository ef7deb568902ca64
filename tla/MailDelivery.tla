---------------------------- MODULE MailDelivery ----------------------------
(***************************************************************************)
(* The attempts at one required mail delivery (mailer/base.js              *)
(* deliverPayload, mailer/delivery-operation-store.js).  The job of the    *)
(* operation may run under several leases: it is retried, and a worker     *)
(* that was given up may still be running.  The provider suppresses a      *)
(* request whose key it has seen, for Window after the first.              *)
(***************************************************************************)
EXTENDS Integers

CONSTANTS
    Attempts,    \* executions of the delivery job
    Window,   \* providerRetentionMs
    MaxClock     \* bound on the clock

ASSUME MailAssumption == Window \in Nat \ {0} /\ MaxClock \in Nat

VARIABLES
    first,      \* first_attempt_started_at_ms, or Never
    phase,      \* where each attempt is
    read,       \* the clock as the attempt read it
    until,      \* when the provider forgets the key, or Never
    delivered,  \* how often the provider has sent the mail
    late,       \* history: an attempt admitted inside the window of the
                \* operation reached the provider after its end
    clock

mailVars == <<first, phase, read, until, delivered, late, clock>>

Never == -1

MailInit ==
    /\ first = Never /\ until = Never
    /\ phase = [a \in Attempts |-> "queued"]
    /\ read = [a \in Attempts |-> 0]
    /\ delivered = 0 /\ late = FALSE /\ clock = 0

\* The attempt reads the clock and then waits for the row's write lock.
Begin(a) ==
    /\ phase[a] = "queued"
    /\ phase' = [phase EXCEPT ![a] = "locking"]
    /\ read' = [read EXCEPT ![a] = clock]
    /\ UNCHANGED <<first, until, delivered, late, clock>>

\* The one-shot timestamp, written once.
Started(a) == IF first = Never THEN read[a] ELSE first

\* Mutant: the expiry is not checked.
AdmittedAlways(a) == TRUE
Admitted(a) == read[a] < Started(a) + Window

\* The transaction of beginAttempt.
BeginAttempt(a) ==
    /\ phase[a] = "locking"
    /\ first' = Started(a)
    /\ phase' = [phase EXCEPT ![a] = IF Admitted(a) THEN "sending" ELSE "expired"]
    /\ UNCHANGED <<read, until, delivered, late, clock>>

\* backend.deliver with the operation's id as the idempotency key.
Deliver(a) ==
    /\ phase[a] = "sending"
    /\ phase' = [phase EXCEPT ![a] = "sent"]
    /\ IF clock < until THEN UNCHANGED <<until, delivered>>
       ELSE until' = clock + Window /\ delivered' = delivered + 1
    /\ late' = (late \/ (read[a] < first + Window /\ clock >= first + Window))
    /\ UNCHANGED <<first, read, clock>>

\* The process dies before the provider was reached.
Fail(a) ==
    /\ phase[a] \in {"locking", "sending"}
    /\ phase' = [phase EXCEPT ![a] = "queued"]
    /\ UNCHANGED <<first, read, until, delivered, late, clock>>

Pass ==
    /\ clock < MaxClock /\ clock' = clock + 1
    /\ UNCHANGED <<first, phase, read, until, delivered, late>>

MailNext ==
    \/ \E a \in Attempts : Begin(a) \/ BeginAttempt(a) \/ Deliver(a) \/ Fail(a)
    \/ Pass

-----------------------------------------------------------------------------
(* Properties.                                                             *)

MailTypeOK ==
    /\ first \in 0..MaxClock \cup {Never}
    /\ phase \in [Attempts -> {"queued", "locking", "sending", "sent", "expired"}]
    /\ read \in [Attempts -> 0..MaxClock]
    /\ until \in Nat \cup {Never} /\ delivered \in Nat
    /\ late \in BOOLEAN /\ clock \in 0..MaxClock

\* A required mail is sent twice only if some attempt asked inside the retention
\* window and stalled past its end before it reached the provider: an attempt
\* that asks later is turned away, so retries and overlapping leases alone never
\* outlive the suppression.
DuplicateOnlyIfLate == delivered > 1 => late

\* A mail goes out a second time only when an attempt that began inside the
\* operation's window outlived it (beginAttempt, deliverPayload).
MailInv ==
    /\ MailTypeOK /\ DuplicateOnlyIfLate

=============================================================================
