--------------------------- MODULE TenantLifecycle --------------------------
(***************************************************************************)
(* The resident SQLite databases of a frontend's tenants,                  *)
(* tenants/frontend-tenant-sqlite-lifecycle.js: at most maxOpenHandles of  *)
(* them are open, pinned ones stay open, and each is migrated to a schema  *)
(* generation by one callback that everybody who asks for it shares.       *)
(*                                                                         *)
(* serialize() runs one critical section after the other, and what awaits  *)
(* inside of one is I/O of the pool, so each section is one step with the  *)
(* outcomes of that I/O.  Callbacks run between the sections.              *)
(***************************************************************************)
EXTENDS Integers, Sequences, FiniteSets, SequencesExt

CONSTANTS
    Tenants,      \* physical tenant databases
    Callers,      \* callers of initialize, withPin and databaseOperation
    Generations,  \* schema generations
    MaxHandles,   \* maxOpenHandles
    HandleFaults, \* bound on failing opens, closes, deletes and migrations
    NoGeneration  \* schemaGeneration is undefined

ASSUME TenantAssumption ==
    /\ IsFiniteSet(Tenants) /\ IsFiniteSet(Callers)
    /\ NoGeneration \notin Generations \cup Tenants
    /\ MaxHandles \in Nat \ {0}
    /\ HandleFaults \in Nat

VARIABLES
    handle,      \* handle[d]: the lifecycle entry of d
    recent,      \* the handles by lastUsed, the least recent first
    busyOutside, \* databases that users of the pool other than these calls use
    act,         \* act[k]: the call k makes
    handleFaults

tenantVars == <<handle, recent, busyOutside, act, handleFaults>>

\* run is the readinessPromise: none, pending, or settled and not yet cleared.
Runs == {"none", "running", "done", "failed"}
Handles == [known : BOOLEAN, open : BOOLEAN, pins : Int, run : Runs, ready : BOOLEAN,
            generation : Generations \cup {NoGeneration}, dirty : BOOLEAN]
Fresh == [known |-> FALSE, open |-> FALSE, pins |-> 0, run |-> "none", ready |-> FALSE,
          generation |-> NoGeneration, dirty |-> FALSE]

\* "initializes" awaits a readiness promise, "pins" runs the callback of withPin,
\* "operates" that of databaseOperation.  stale: the promise is no longer the handle's.  ready:
\* the operation required readiness and was admitted on `generation`.
Acts == [does : {"nothing", "initializes", "pins", "operates"}, on : Tenants \cup {NoGeneration},
         stale : BOOLEAN, ready : BOOLEAN, generation : Generations \cup {NoGeneration}]
Nothing == [does |-> "nothing", on |-> NoGeneration, stale |-> FALSE, ready |-> FALSE,
            generation |-> NoGeneration]

TenantTypeOK ==
    /\ handle \in [Tenants -> Handles]
    /\ recent \in Seq(Tenants) /\ IsInjective(recent)
    /\ {d \in Tenants : handle[d].open} \subseteq ToSet(recent)
    /\ busyOutside \subseteq Tenants
    /\ act \in [Callers -> Acts]
    /\ handleFaults \in 0..HandleFaults

TenantInit ==
    /\ handle = [d \in Tenants |-> Fresh]
    /\ recent = <<>>
    /\ busyOutside = {}
    /\ act = [k \in Callers |-> Nothing]
    /\ handleFaults = 0

-----------------------------------------------------------------------------
(* Opening and evicting                                                    *)

Callbacks(d) == {k \in Callers : act[k].does \in {"pins", "operates"} /\ act[k].on = d}

\* lastUsed = ++sequence
Touched(d, order) ==
    LET was == {i \in DOMAIN order : order[i] = d}
    IN  Append(IF was = {} THEN order ELSE RemoveAt(order, CHOOSE i \in was : TRUE), d)

\* The entry is deleted from the map.
Forgotten(d, map) == [map EXCEPT ![d] = Fresh]

\* Neither pinned nor in use in the pool: assertClosable, and the check of a
\* change of generation.
Unused(d) == handle[d].pins = 0 /\ d \notin busyOutside

HasRoom(d) == Cardinality({e \in Tenants \ {d} : handle[e].open}) < MaxHandles

\* Mutant: pins are left out of the choice.
VictimsThoughPinned(d) == {e \in Tenants \ {d} : handle[e].open /\ ~handle[e].dirty}

\* The victim of evictFor(d): the least recently used clean and unused handle.
Victims(d) ==
    LET clean == {e \in Tenants \ {d} : handle[e].open /\ ~handle[e].dirty /\ Unused(e)}
        lastUsed(e) == CHOOSE i \in DOMAIN recent : recent[i] = e
    IN  {e \in clean : \A f \in clean : lastUsed(e) <= lastUsed(f)}

Outcome(ok, map, order, cost) == [ok |-> ok, map |-> map, order |-> order, cost |-> cost]

\* openUnlocked, and open(): what it may leave behind.  A handle that cannot be
\* opened stays in the map, closed; a victim whose close fails stays open.
Openings(d) ==
    LET met == [handle EXCEPT ![d].known = TRUE]
        bases == (IF HasRoom(d) THEN {met} ELSE {}) \cup
                 (IF HasRoom(d) THEN {} ELSE {Forgotten(v, met) : v \in Victims(d)})
        opened == {Outcome(TRUE, [m EXCEPT ![d].open = TRUE], Touched(d, recent), 0) : m \in bases}
        failed == {Outcome(FALSE, m, recent, 1) : m \in bases}
        kept == IF HasRoom(d) THEN {} ELSE {Outcome(FALSE, met, recent, 1) : v \in Victims(d)}
        full == IF bases = {} THEN {Outcome(FALSE, met, recent, 0)} ELSE {}
    IN  IF handle[d].open THEN {Outcome(TRUE, handle, recent, 0)}
        ELSE opened \cup failed \cup kept \cup full

\* A critical section that begins by opening d and goes on with Then.
Opens(d, Then(_)) ==
    \E o \in Openings(d) :
        /\ handleFaults + o.cost <= HandleFaults
        /\ handleFaults' = handleFaults + o.cost
        /\ IF o.ok THEN Then(o) ELSE handle' = o.map /\ recent' = o.order /\ UNCHANGED act

Open(d) ==
    /\ Opens(d, LAMBDA o : handle' = o.map /\ recent' = Touched(d, o.order) /\ UNCHANGED act)
    /\ UNCHANGED busyOutside

HandleFault == handleFaults < HandleFaults /\ handleFaults' = handleFaults + 1
Calls(k, call) == act' = [act EXCEPT ![k] = call]

-----------------------------------------------------------------------------
(* Initialization                                                          *)

Initializes(d) == [Nothing EXCEPT !.does = "initializes", !.on = d]

\* initialize up to the await of the readiness promise: joins the handle's
\* promise, or opens the handle and starts the migration of g, which pins it.
\* It returns at once when g is ready, and throws when another generation is in
\* use or being migrated to.
Initialize(k, d, g) ==
    LET h == handle[d]
        other == h.generation \notin {NoGeneration, g}
    IN  /\ act[k] = Nothing
        /\ \/ /\ h.run # "none" /\ ~other
              /\ Calls(k, Initializes(d))
              /\ UNCHANGED <<handle, recent, handleFaults>>
           \/ /\ h.run = "none" /\ (IF other THEN Unused(d) ELSE ~h.ready)
              /\ Opens(d, LAMBDA o :
                    /\ handle' = [o.map EXCEPT ![d].ready = FALSE, ![d].generation = g,
                                               ![d].pins = @ + 1, ![d].run = "running"]
                    /\ recent' = o.order
                    /\ Calls(k, Initializes(d)))
        /\ UNCHANGED busyOutside

\* The callback ends.  Its own databaseOperation, inside the pin of the
\* migration, may have left writes unsaved.
MigrationEnds(d) ==
    /\ handle[d].run = "running"
    /\ \/ handle' = [handle EXCEPT ![d].run = "done", ![d].dirty = TRUE] /\ UNCHANGED handleFaults
       \/ handle' = [handle EXCEPT ![d].run = "failed"] /\ HandleFault
    /\ recent' = Touched(d, recent)
    /\ UNCHANGED <<busyOutside, act>>

\* The section after the await: the first of those who share the promise makes
\* the handle ready or not, and takes the pin away; the others find another
\* promise, or none.
Settle(k) ==
    LET d == act[k].on
        h == handle[d]
    IN  /\ act[k].does = "initializes"
        /\ act[k].stale \/ h.run # "running"
        /\ IF act[k].stale THEN UNCHANGED handle /\ Calls(k, Nothing)
           ELSE /\ handle' = [handle EXCEPT ![d].run = "none", ![d].ready = (h.run = "done"),
                                            ![d].pins = @ - 1]
                /\ act' = [c \in Callers |->
                             IF c = k THEN Nothing
                             ELSE [act[c] EXCEPT !.stale = @ \/ (act[c].does = "initializes" /\ act[c].on = d)]]
        /\ UNCHANGED <<recent, busyOutside, handleFaults>>

-----------------------------------------------------------------------------
(* Pins and operations                                                     *)

WithPin(k, d) ==
    /\ act[k] = Nothing
    /\ Opens(d, LAMBDA o :
            /\ handle' = [o.map EXCEPT ![d].pins = @ + 1]
            /\ recent' = Touched(d, o.order)
            /\ Calls(k, [Nothing EXCEPT !.does = "pins", !.on = d]))
    /\ UNCHANGED busyOutside

\* databaseOperation of a database the lifecycle knows.  Of one it does not know
\* the callback runs without a pin, or is refused.
DatabaseOperation(k, d, requires) ==
    /\ act[k] = Nothing
    /\ handle[d].known /\ (requires => handle[d].ready)
    /\ Opens(d, LAMBDA o :
            /\ handle' = [o.map EXCEPT ![d].pins = @ + 1]
            /\ recent' = Touched(d, o.order)
            /\ Calls(k, [Nothing EXCEPT !.does = "operates", !.on = d, !.ready = requires,
                                        !.generation = handle[d].generation]))
    /\ UNCHANGED busyOutside

\* The callback of withPin ends.
Unpin(k) ==
    /\ act[k].does = "pins"
    /\ handle' = [handle EXCEPT ![act[k].on].pins = @ - 1]
    /\ Calls(k, Nothing)
    /\ UNCHANGED <<recent, busyOutside, handleFaults>>

\* The callback of an operation ends, with unsaved writes or without.
OperationEnds(k) ==
    LET d == act[k].on
    IN  /\ act[k].does = "operates"
        /\ \E dirty \in BOOLEAN :
              handle' = [handle EXCEPT ![d].pins = @ - 1, ![d].dirty = @ \/ dirty]
        /\ recent' = Touched(d, recent)
        /\ Calls(k, Nothing)
        /\ UNCHANGED <<busyOutside, handleFaults>>

-----------------------------------------------------------------------------
(* Flush, close and delete                                                 *)

FlushHandle(d) ==
    /\ Opens(d, LAMBDA o :
            /\ handle' = [o.map EXCEPT ![d].dirty = FALSE]
            /\ recent' = Touched(d, o.order)
            /\ UNCHANGED act)
    /\ UNCHANGED busyOutside

\* close, with or without a flush.  When the pool fails, or finds the connection
\* in use after the flush, the handle is open as before.
CloseHandle(d, flush) ==
    /\ handle[d].open /\ Unused(d) /\ (handle[d].dirty => flush)
    /\ handle' = Forgotten(d, handle)
    /\ UNCHANGED <<recent, busyOutside, act, handleFaults>>

\* delete.  When the pool or the storage fails the handle stays, closed and
\* unready.
DeleteHandle(d) ==
    /\ Unused(d)
    /\ \/ handle' = Forgotten(d, handle) /\ UNCHANGED handleFaults
       \/ handle' = [handle EXCEPT ![d].known = TRUE, ![d].ready = FALSE, ![d].open = FALSE] /\ HandleFault
    /\ UNCHANGED <<recent, busyOutside, act>>

\* Somebody checks a connection out past the lifecycle, or in again.
UseOutside(d) ==
    /\ busyOutside' = IF d \in busyOutside THEN busyOutside \ {d} ELSE busyOutside \cup {d}
    /\ UNCHANGED <<handle, recent, act, handleFaults>>

TenantNext ==
    \/ \E d \in Tenants :
        \/ Open(d) \/ MigrationEnds(d) \/ FlushHandle(d) \/ DeleteHandle(d) \/ UseOutside(d)
        \/ \E flush \in BOOLEAN : CloseHandle(d, flush)
        \/ \E k \in Callers :
            \/ \E g \in Generations : Initialize(k, d, g)
            \/ WithPin(k, d)
            \/ \E requires \in BOOLEAN : DatabaseOperation(k, d, requires)
    \/ \E k \in Callers : Settle(k) \/ Unpin(k) \/ OperationEnds(k)

TenantSpec == TenantInit /\ [][TenantNext]_tenantVars

-----------------------------------------------------------------------------
(* Properties                                                              *)

\* At most maxOpenHandles handles are open, whoever opens, evicts, fails or
\* deletes.
HandlesWithinCap == Cardinality({d \in Tenants : handle[d].open}) <= MaxHandles

\* A pin keeps its handle: while a callback of withPin, of an operation or of a
\* migration runs, its handle is open and no other call evicts, closes or
\* deletes it.
PinnedStaysOpen ==
    \A d \in Tenants :
        handle[d].run # "none" \/ Callbacks(d) # {} => handle[d].open

\* pinCount is the number of running callbacks: those who share a migration take
\* its pin away once, so no handle loses somebody else's pin or keeps one for
\* good.
PinsExact ==
    \A d \in Tenants :
        handle[d].pins = Cardinality(Callbacks(d)) + (IF handle[d].run = "none" THEN 0 ELSE 1)

\* An operation that was admitted on a ready generation runs on it to its end:
\* nobody migrates the database to another one under it.
AdmittedStaysReady ==
    \A k \in Callers :
        act[k].ready => LET h == handle[act[k].on]
                        IN  h.ready /\ h.generation = act[k].generation

\* What the tenant coordinator promises its callers: handles within the cap,
\* and a database in use that stays open and ready.
TenantInv ==
    /\ TenantTypeOK /\ HandlesWithinCap /\ PinnedStaysOpen /\ PinsExact
    /\ AdmittedStaysReady

=============================================================================
