---------------------------- MODULE ClientProofs ----------------------------
(***************************************************************************)
(* What runs in a browser or on a device, for any number of callers,       *)
(* databases, writes and failures.                                         *)
(*                                                                         *)
(* WebInv, of the database of SQL.js and its bytes in storage: the argument *)
(* follows a row from memory to storage.  At any time a row that is not    *)
(* stored is owed by the debounce, by the deferred mark or by a save in    *)
(* line, or came from a statement that arms no save; and a commit that has *)
(* not been answered for is owed by one of them that will come before the  *)
(* next transaction, or is stored already.                                 *)
(*                                                                         *)
(* TenantInv, of the resident databases of tenants: every critical section *)
(* opens a handle before it does anything else, so what an opening may do  *)
(* to this handle and to the others is proved once (OpeningsAreSafe).      *)
(*                                                                         *)
(* SingleInv, of the connections of SQLite that callers share under a cap: *)
(* the argument accounts for three things.  Every reserved slot is owed by *)
(* a spawn or by a granted waiter; while anybody waits, every free slot    *)
(* has a close under way whose end gives it to a waiter; and an open       *)
(* connection without a use is about to be used or to be closed.           *)
(***************************************************************************)
EXTENDS WebPersistence, TenantLifecycle, SinglePool, SequenceTheorems, FiniteSetTheorems, TLAPS

-----------------------------------------------------------------------------
(* Saves of a SQL.js database.                                             *)

Started == {"begun", "counted", "body", "ended"}

\* One transaction at a time, from the queue to the count of its end.
OneTransaction ==
    \A s, t \in Starters :
        on[s] \in Started \cup {"queued"} /\ on[t] \in Started \cup {"queued"} => s = t

\* Who is in line, and where its caller is.
LineMatches ==
    /\ \A i \in DOMAIN line :
          /\ line[i].does = "starts" => line[i].by \in Starters /\ on[line[i].by] = "queued"
          /\ line[i].does = "saves" /\ line[i].by \in Starters => on[line[i].by] = "flushing"
    /\ \A i, k \in DOMAIN line : i # k /\ line[i] = line[k] => line[i].by = NoStarter
    /\ \A s \in Starters : on[s] = "flushing" => \E i \in DOMAIN line : line[i] = Saving(s)
    /\ phase # "nothing" => line # <<>>
    /\ phase = "begin" => line[1].does = "starts"

\* The driver's marks and SQL.js say the same of the transaction.
MarksAgree ==
    /\ count = 1 <=> \E s \in Starters : on[s] \in {"counted", "body", "ended"}
    /\ starting <=> phase = "begin" \/ \E s \in Starters : on[s] \in {"begun", "counted"}
    /\ open <=> \E s \in Starters : on[s] \in {"begun", "counted", "body"}
    /\ phase = "save" => \A s \in Starters : on[s] \notin Started

\* Rows are never taken back once no transaction can undo them, so a save holds
\* what the last one held, and the commit that it was made for.
ImagesGrow ==
    /\ disk \subseteq image
    /\ \A s \in Starters : owed[s] \subseteq image
    /\ \A s \in Starters : on[s] \in {"queued", "begun", "counted", "body"} => owed[s] = {}
    /\ phase = "save" => disk \subseteq content /\ content \subseteq image
    /\ phase = "save" /\ line[1].does = "saves" /\ line[1].by \in Starters =>
          owed[line[1].by] \subseteq content

\* Rows are numbered as they are written, and what is stored or being stored has
\* every row that was there before its own.
RowsInOrder ==
    /\ \A r \in image : r <= written /\ \A q \in layer : r < q
    /\ \A r \in layer : r <= written
    /\ \A r \in disk, q \in image : q < r => q \in disk
    /\ phase = "save" => \A r \in content, q \in image : q < r => q \in content

\* A save to come.
Pending ==
    \/ debounced \/ deferred
    \/ \E i \in DOMAIN line : line[i].does = "saves" /\ ~(i = 1 /\ phase = "save")

\* What is not stored, and was written by a statement that arms a save, has a save
\* to come.
UnsavedIsPending ==
    /\ saveFaults = 0 /\ ~Pending => 
          image \ unknown \subseteq IF phase = "save" THEN content ELSE disk
    /\ layer # {} => open
    /\ ~Pending => layer \subseteq unknown
    /\ phase = "begin" \/ (phase = "save" /\ line[1].does = "starts") => ~deferred

\* No other transaction than that of s has begun.
Quiet(s) == phase # "begin" /\ \A t \in Starters : t # s => on[t] \notin Started

Stored(s) ==
    \/ owed[s] \ unknown \subseteq disk
    \/ phase = "save" /\ owed[s] \ unknown \subseteq content

\* A commit that is not stored has a save to come before the next transaction
\* begins: a later one would be put off.
CommitIsOwed ==
    saveFaults = 0 =>
        /\ \A s \in Starters : on[s] \in {"ended", "settled"} =>
              \/ Stored(s)
              \/ /\ Quiet(s)
                 /\ \/ deferred \/ (debounced /\ line = <<>>)
                    \/ line # <<>> /\ phase = "nothing" /\ line[1].does = "saves"
        /\ \A s \in Starters : on[s] = "flushing" =>
              \/ Stored(s)
              \/ /\ Quiet(s)
                 /\ \/ deferred
                    \/ \A i \in DOMAIN line : line[i] = Saving(s) =>
                          \A k \in 1..i : line[k].does = "saves"

\* The inductive invariant.
WebInductive ==
    /\ WebTypeOK /\ OneTransaction /\ LineMatches /\ MarksAgree /\ ImagesGrow
    /\ RowsInOrder /\ UnsavedIsPending /\ CommitIsOwed /\ CommitIsSaved

-----------------------------------------------------------------------------
(* The line of the mutex.                                                  *)

\* Somebody joins the line at its end.
LEMMA LineGrows ==
    ASSUME NEW q \in Seq(Jobs), NEW x \in Jobs, NEW r, r = Append(q, x)
    PROVE  /\ r \in Seq(Jobs) /\ r # <<>>
           /\ DOMAIN q \subseteq DOMAIN r /\ Len(q) + 1 \in DOMAIN r
           /\ \A i \in DOMAIN q : r[i] = q[i] /\ i \in Nat /\ i < Len(q) + 1
           /\ \A i \in DOMAIN r : i \in DOMAIN q \/ i = Len(q) + 1
           /\ r[Len(q) + 1] = x
           /\ q = <<>> => r[1] = x /\ DOMAIN q = {} /\ Len(q) + 1 = 1
           /\ q # <<>> => r[1] = q[1] /\ 1 \in DOMAIN q
           /\ \A i \in DOMAIN q : 1..i \subseteq DOMAIN q
    OBVIOUS

\* The first in line leaves it.
LEMMA Leaves ==
    ASSUME NEW q \in Seq(Jobs), q # <<>>, NEW r, r = Tail(q)
    PROVE  /\ r \in Seq(Jobs)
           /\ \A i \in DOMAIN r : i \in Nat \ {0} /\ i + 1 \in DOMAIN q /\ r[i] = q[i + 1]
           /\ \A i \in DOMAIN q : i # 1 => i \in Nat /\ i - 1 \in DOMAIN r /\ r[i - 1] = q[i]
           /\ 1 \in DOMAIN q /\ Head(q) = q[1] /\ q[1] \in Jobs
           /\ r # <<>> => 2 \in DOMAIN q /\ r[1] = q[2]
    OBVIOUS

\* The inductive invariant implies the one that the runs check.
LEMMA WebInductiveImplies == WebInductive => WebInv
<1> SUFFICES ASSUME WebInductive PROVE WebInv
    OBVIOUS
<1>1. TransactionSurvivesSaves
    BY DEF WebInductive, MarksAgree, TransactionSurvivesSaves
<1>2. NoSaveForgotten
  <2> SUFFICES ASSUME line = <<>>, ~debounced, ~deferred, saveFaults = 0
               PROVE  image \ unknown \subseteq disk
      BY DEF NoSaveForgotten
  <2>1. DOMAIN line = {}
      OBVIOUS
  <2>2. ~Pending
      BY <2>1 DEF Pending
  <2>3. phase # "save"
      BY DEF WebInductive, LineMatches
  <2> QED
      BY <2>2, <2>3 DEF WebInductive, UnsavedIsPending
<1>3. StorageIsAPast
    BY DEF WebInductive, ImagesGrow, RowsInOrder, StorageIsAPast
<1> QED
    BY <1>1, <1>2, <1>3 DEF WebInductive, WebInv

\* The page starts with an empty database.
LEMMA WebStarts == WebInit => WebInductive
<1> SUFFICES ASSUME WebInit PROVE WebInductive
    OBVIOUS
<1>1. DOMAIN line = {} /\ line \in Seq(Jobs)
    BY DEF WebInit
<1>2. WebTypeOK
  <2>1. {} \in SUBSET RowIds /\ on \in [Starters -> Places]
      BY DEF WebInit, Places
  <2>2. owed \in [Starters -> SUBSET RowIds]
      BY <2>1 DEF WebInit
  <2>3. 0 \in 0..WriteMax /\ 0 \in 0..SaveFaults
      BY WebPersistenceAssumption
  <2>4. {image, layer, disk, content, promised, unknown} \subseteq SUBSET RowIds
      BY <2>1 DEF WebInit
  <2>5. {open, starting, debounced, deferred} \subseteq BOOLEAN
      BY Zenon DEF WebInit
  <2>6. /\ count \in 0..1 /\ phase \in {"nothing", "save", "begin"}
        /\ written \in 0..WriteMax /\ saveFaults \in 0..SaveFaults
      BY <2>3 DEF WebInit
  <2> QED
      BY <1>1, <2>1, <2>2, <2>4, <2>5, <2>6 DEF WebTypeOK
<1>3. OneTransaction /\ LineMatches /\ MarksAgree
    BY <1>1 DEF WebInit, OneTransaction, LineMatches, MarksAgree, Started
<1>4. ImagesGrow /\ RowsInOrder /\ UnsavedIsPending /\ CommitIsOwed /\ CommitIsSaved
    BY <1>1 DEF WebInit, ImagesGrow, RowsInOrder, UnsavedIsPending, CommitIsOwed, CommitIsSaved
<1> QED
    BY <1>2, <1>3, <1>4 DEF WebInductive

-----------------------------------------------------------------------------
(* Saves                                                                   *)

\* A statement writes a row, and the debounce owes a save or the row is unknown.
LEMMA WritePreserves ==
    ASSUME WebInductive, NEW known \in Known, Write(known)
    PROVE  WebInductive'
<1>1. /\ UNCHANGED <<open, disk, count, starting, deferred, line, phase, content, on, owed,
                     promised, saveFaults>>
      /\ known \in BOOLEAN /\ debounced' = (debounced \/ known)
      /\ written' = written + 1 /\ written < WriteMax
      /\ \/ image' = image /\ layer' = layer \cup {written'} /\ open
         \/ image' = image \cup {written'} /\ layer' = layer /\ ~open
      /\ unknown' = IF known THEN unknown ELSE unknown \cup {written'}
    BY WebPersistenceAssumption DEF Write
<1>2. WebTypeOK'
  <2>1. written' \in RowIds /\ written' \in 0..WriteMax
      BY <1>1, WebPersistenceAssumption DEF WebInductive, WebTypeOK, RowIds
  <2>2. image' \in SUBSET RowIds /\ layer' \in SUBSET RowIds /\ unknown' \in SUBSET RowIds
      BY <1>1, <2>1 DEF WebInductive, WebTypeOK
  <2>3. debounced' \in BOOLEAN
      BY <1>1
  <2> QED
      BY <1>1, <2>1, <2>2, <2>3 DEF WebInductive, WebTypeOK
<1>3. OneTransaction' /\ LineMatches' /\ MarksAgree' /\ ImagesGrow' /\ CommitIsSaved'
    BY <1>1 DEF WebInductive, OneTransaction, LineMatches, MarksAgree, ImagesGrow, CommitIsSaved,
                Saving
<1>4. RowsInOrder'
  <2>1. /\ written \in Nat /\ disk \subseteq image
        /\ \A r \in image \cup layer : r \in Nat /\ r <= written
        /\ phase = "save" => content \subseteq image
        /\ ~open => layer = {}
      BY DEF WebInductive, WebTypeOK, RowIds, RowsInOrder, ImagesGrow, UnsavedIsPending
  <2> QED
      BY <1>1, <2>1 DEF WebInductive, RowsInOrder
<1>5. UnsavedIsPending'
  <2>1. (Pending => Pending') /\ (known => Pending')
      BY <1>1 DEF Pending
  <2> QED
      BY <1>1, <2>1 DEF WebInductive, UnsavedIsPending
<1>6. CommitIsOwed'
  <2>1. \A s \in Starters : (Quiet(s) => Quiet(s)') /\ (Stored(s) => Stored(s)')
      BY <1>1 DEF Quiet, Stored
  <2> QED
      BY <1>1, <2>1 DEF WebInductive, CommitIsOwed, Saving
<1> QED
    BY <1>2, <1>3, <1>4, <1>5, <1>6 DEF WebInductive

\* A save that nobody awaits joins the line.
LEMMA QueuedSavePreserves ==
    ASSUME WebInductive, MutexPrompt,
           debounced' = FALSE, line' = Append(line, Saving(NoStarter)),
           UNCHANGED <<image, layer, open, disk, count, starting, deferred, phase, content, on,
                       owed, promised, unknown, written, saveFaults>>
    PROVE  WebInductive'
<1> DEFINE x == Saving(NoStarter)
           n == Len(line) + 1
<1>1. x \in Jobs /\ x.does = "saves" /\ x.by = NoStarter /\ NoStarter \notin Starters
      /\ \A s \in Starters : x # Saving(s)
    BY WebPersistenceAssumption DEF Jobs, Saving
<1>2. line \in Seq(Jobs)
    BY DEF WebInductive, WebTypeOK
<1>3. /\ line' \in Seq(Jobs) /\ line' # <<>>
      /\ DOMAIN line \subseteq DOMAIN line' /\ n \in DOMAIN line'
      /\ \A i \in DOMAIN line : line'[i] = line[i] /\ i \in Nat /\ i < n
      /\ \A i \in DOMAIN line' : i \in DOMAIN line \/ i = n
      /\ line'[n] = x
      /\ line = <<>> => line'[1] = x /\ DOMAIN line = {} /\ n = 1
      /\ line # <<>> => line'[1] = line[1] /\ 1 \in DOMAIN line
      /\ \A i \in DOMAIN line : 1..i \subseteq DOMAIN line
    BY <1>1, <1>2, LineGrows
<1>4. line = <<>> => phase = "nothing"
    BY DEF WebInductive, LineMatches
<1> HIDE DEF x, n
<1>5. WebTypeOK'
    BY <1>3 DEF WebInductive, WebTypeOK
<1>6. OneTransaction' /\ MarksAgree' /\ RowsInOrder' /\ CommitIsSaved'
    BY DEF WebInductive, OneTransaction, MarksAgree, RowsInOrder, CommitIsSaved
<1>7. LineMatches'
    BY <1>1, <1>3, <1>4 DEF WebInductive, LineMatches, Saving
<1>8. ImagesGrow'
    BY <1>3, <1>4 DEF WebInductive, ImagesGrow
<1>9. UnsavedIsPending'
  <2>1. Pending'
      BY <1>1, <1>3, <1>4 DEF Pending
  <2> QED
      BY <1>3, <1>4, <2>1 DEF WebInductive, UnsavedIsPending
<1>10. CommitIsOwed'
  <2> SUFFICES ASSUME saveFaults = 0 PROVE CommitIsOwed'
      BY DEF CommitIsOwed
  <2>1. ASSUME NEW s \in Starters, on[s] \in {"ended", "settled"}
        PROVE  \/ Stored(s)
               \/ /\ Quiet(s)
                  /\ \/ deferred
                     \/ phase = "nothing" /\ line'[1].does = "saves"
      BY <2>1, <1>1, <1>3, <1>4 DEF WebInductive, CommitIsOwed
  <2>2. ASSUME NEW s \in Starters, on[s] = "flushing"
        PROVE  \/ Stored(s)
               \/ /\ Quiet(s)
                  /\ \/ deferred
                     \/ \A i \in DOMAIN line' : line'[i] = Saving(s) =>
                           \A k \in 1..i : line'[k].does = "saves"
      BY <2>2, <1>1, <1>3 DEF WebInductive, CommitIsOwed
  <2> QED
      BY <2>1, <2>2, <1>3 DEF CommitIsOwed, Quiet, Stored, Saving
<1> QED
    BY <1>5, <1>6, <1>7, <1>8, <1>9, <1>10 DEF WebInductive

\* The holder of the mutex exports the database: no transaction is open, and
\* everything in memory is in the bytes.
LEMMA ExportPreserves ==
    ASSUME WebInductive, line # <<>>, phase = "nothing", Export, phase' = "save",
           \A s \in Starters : on[s] \notin Started,
           UNCHANGED <<image, disk, count, starting, debounced, line, on, owed, promised, unknown, written,
                       saveFaults>>
    PROVE  WebInductive'
<1>1. WebTypeOK'
    BY DEF WebInductive, WebTypeOK, Export
<1>2. OneTransaction' /\ LineMatches'
    BY DEF WebInductive, OneTransaction, LineMatches, Saving
<1>3. MarksAgree'
    BY DEF WebInductive, MarksAgree, Export, Started
<1>4. 1 \in DOMAIN line
    BY DEF WebInductive, WebTypeOK
<1>5. ImagesGrow'
    BY <1>4 DEF WebInductive, ImagesGrow, Export, LineMatches
<1>6. UnsavedIsPending'
    BY DEF WebInductive, UnsavedIsPending, Export
<1>7. CommitIsOwed'
    BY DEF WebInductive, ImagesGrow, CommitIsOwed, Stored, Export
<1>8. CommitIsSaved'
    BY DEF WebInductive, CommitIsSaved, Export
<1>9. RowsInOrder'
    BY DEF WebInductive, RowsInOrder, Export
<1> QED
    BY <1>1, <1>2, <1>3, <1>5, <1>6, <1>7, <1>8, <1>9 DEF WebInductive

\* Whoever leaves the line takes its caller with it.
LEMMA LineShortens ==
    ASSUME WebInductive, line # <<>>, line' = Tail(line), phase' = "nothing", NEW place,
           place \notin {"queued", "flushing"},
           on' = [t \in Starters |-> IF t = line[1].by THEN place ELSE on[t]]
    PROVE  /\ line' \in Seq(Jobs) /\ LineMatches'
           /\ \A i \in DOMAIN line' : i \in Nat \ {0} /\ i + 1 \in DOMAIN line /\ line'[i] = line[i + 1]
           /\ \A i \in DOMAIN line : i # 1 => i \in Nat /\ i - 1 \in DOMAIN line' /\ line'[i - 1] = line[i]
           /\ 1 \in DOMAIN line /\ Head(line) = line[1] /\ line[1] \in Jobs
<1> DEFINE b == line[1].by
<1>1. /\ line' \in Seq(Jobs)
      /\ \A i \in DOMAIN line' : i \in Nat \ {0} /\ i + 1 \in DOMAIN line /\ line'[i] = line[i + 1]
      /\ \A i \in DOMAIN line : i # 1 => i \in Nat /\ i - 1 \in DOMAIN line' /\ line'[i - 1] = line[i]
      /\ 1 \in DOMAIN line /\ Head(line) = line[1] /\ line[1] \in Jobs
    BY Leaves DEF WebInductive, WebTypeOK
<1>2. ASSUME NEW i \in DOMAIN line, i # 1, line[i].by \in Starters PROVE line[i].by # b
  <2> SUFFICES ASSUME line[i].by = b PROVE FALSE
      OBVIOUS
  <2>1. line[i] \in Jobs /\ line[1] \in Jobs
      BY <1>1 DEF WebInductive, WebTypeOK
  <2>2. line[i].does = line[1].does
      BY <2>1, <1>1, <1>2 DEF Jobs, WebInductive, LineMatches
  <2>3. line[i] = line[1]
      BY <2>1, <2>2 DEF Jobs
  <2> QED
      BY <2>3, <1>1, <1>2, WebPersistenceAssumption DEF WebInductive, LineMatches
<1>3. \A i \in DOMAIN line' :
         /\ line'[i].does = "starts" => line'[i].by \in Starters /\ on'[line'[i].by] = "queued"
         /\ line'[i].does = "saves" /\ line'[i].by \in Starters => on'[line'[i].by] = "flushing"
  <2> SUFFICES ASSUME NEW i \in DOMAIN line'
               PROVE /\ line'[i].does = "starts" =>
                           line'[i].by \in Starters /\ on'[line'[i].by] = "queued"
                     /\ line'[i].does = "saves" /\ line'[i].by \in Starters =>
                           on'[line'[i].by] = "flushing"
      OBVIOUS
  <2>1. i + 1 \in DOMAIN line /\ i + 1 # 1 /\ line'[i] = line[i + 1]
      BY <1>1
  <2> QED
      BY <2>1, <1>2 DEF WebInductive, LineMatches
<1>4. \A i, k \in DOMAIN line' : i # k /\ line'[i] = line'[k] => line'[i].by = NoStarter
    BY <1>1 DEF WebInductive, LineMatches
<1>5. \A s \in Starters : on'[s] = "flushing" => \E i \in DOMAIN line' : line'[i] = Saving(s)
  <2> SUFFICES ASSUME NEW s \in Starters, on'[s] = "flushing"
               PROVE  \E i \in DOMAIN line' : line'[i] = Saving(s)
      OBVIOUS
  <2>1. s # b /\ on[s] = "flushing"
      OBVIOUS
  <2>2. PICK i \in DOMAIN line : line[i] = Saving(s)
      BY <2>1 DEF WebInductive, LineMatches
  <2>3. i # 1
      BY <2>1, <2>2 DEF Saving
  <2> QED
      BY <2>2, <2>3, <1>1
<1> QED
    BY <1>1, <1>3, <1>4, <1>5 DEF LineMatches, Saving

\* A save that finds a transaction begun is put off; the commit it was made for,
\* if any, is stored.
LEMMA PutOffPreserves ==
    ASSUME WebInductive, SaveEnters, Defers
    PROVE  WebInductive'
<1> DEFINE b == line[1].by
<1>1. /\ line # <<>> /\ phase = "nothing" /\ Head(line).does = "saves"
      /\ deferred' = TRUE /\ line' = Tail(line) /\ on' = Back(Head(line).by)
      /\ Promises(Head(line).by)
      /\ UNCHANGED <<phase, content, open, layer, image, disk, count, starting, debounced, owed,
                     unknown, written, saveFaults>>
    BY DEF SaveEnters
<1>2. Head(line) = line[1]
    BY <1>1, Leaves DEF WebInductive, WebTypeOK
<1>3. on' = [t \in Starters |-> IF t = b THEN "off" ELSE on[t]]
    BY <1>1, <1>2 DEF Back
<1>4. /\ line' \in Seq(Jobs) /\ LineMatches'
      /\ \A i \in DOMAIN line' : i \in Nat \ {0} /\ i + 1 \in DOMAIN line /\ line'[i] = line[i + 1]
      /\ 1 \in DOMAIN line /\ line[1] \in Jobs
    BY <1>1, <1>3, LineShortens
<1>5. b \in Starters => on[b] = "flushing"
    BY <1>1, <1>2, <1>4 DEF WebInductive, LineMatches
<1>6. \A s \in Starters : on'[s] = on[s] \/ (s = b /\ on[s] = "flushing" /\ on'[s] = "off")
    BY <1>3, <1>5
<1>7. \E t \in Starters : on[t] \in Started
    BY <1>1 DEF Defers, WebInductive, WebTypeOK, MarksAgree, Started
<1>8. b \in Starters /\ saveFaults = 0 => owed[b] \ unknown \subseteq disk
  <2> SUFFICES ASSUME b \in Starters, saveFaults = 0 PROVE owed[b] \ unknown \subseteq disk
      OBVIOUS
  <2>1. ~Quiet(b)
      BY <1>5, <1>7 DEF Quiet, Started
  <2> QED
      BY <2>1, <1>1, <1>5 DEF WebInductive, CommitIsOwed, Stored
<1>9. promised' = promised \cup (IF b \in Starters THEN owed[b] ELSE {})
    BY <1>1, <1>2 DEF Promises
<1> HIDE DEF b
<1>10. WebTypeOK'
  <2>1. on' \in [Starters -> Places]
      BY <1>3 DEF WebInductive, WebTypeOK, Places
  <2>2. promised' \in SUBSET RowIds
      BY <1>9 DEF WebInductive, WebTypeOK
  <2> QED
      BY <1>1, <1>4, <2>1, <2>2 DEF WebInductive, WebTypeOK
<1>11. OneTransaction'
    BY <1>6 DEF WebInductive, OneTransaction, Started
<1>12. MarksAgree'
    BY <1>1, <1>6 DEF WebInductive, MarksAgree, Started
<1>13. ImagesGrow'
    BY <1>1, <1>6 DEF WebInductive, ImagesGrow
<1>14. UnsavedIsPending'
    BY <1>1 DEF WebInductive, UnsavedIsPending, Pending
<1>15. CommitIsOwed'
  <2>1. \A s \in Starters : Quiet(s) => Quiet(s)'
      BY <1>1, <1>6 DEF Quiet, Started
  <2>2. \A s \in Starters : Stored(s) => Stored(s)'
      BY <1>1 DEF Stored
  <2> QED
      BY <2>1, <2>2, <1>1, <1>6 DEF WebInductive, CommitIsOwed
<1>16. CommitIsSaved'
    BY <1>1, <1>8, <1>9 DEF WebInductive, CommitIsSaved
<1>17. RowsInOrder'
    BY <1>1 DEF WebInductive, RowsInOrder
<1> QED
    BY <1>4, <1>10, <1>11, <1>12, <1>13, <1>14, <1>15, <1>16, <1>17 DEF WebInductive

\* A start that has nothing left to save goes on to BEGIN: every commit that was
\* not answered for is stored.
LEMMA ToBeginPreserves ==
    ASSUME WebInductive, line # <<>>, line[1].does = "starts", ~deferred,
           (phase = "nothing" /\ disk' = disk) \/ (phase = "save" /\ disk' = content),
           starting' = TRUE, phase' = "begin",
           UNCHANGED <<image, layer, open, count, debounced, deferred, line, content, on, owed,
                       promised, unknown, written, saveFaults>>
    PROVE  WebInductive'
<1>1. 1 \in DOMAIN line
    BY DEF WebInductive, WebTypeOK
<1>2. line[1].by \in Starters /\ on[line[1].by] = "queued"
    BY <1>1 DEF WebInductive, LineMatches
<1>3. \A s \in Starters : on[s] \notin Started
    BY <1>2 DEF WebInductive, OneTransaction, Started
<1>4. disk' \subseteq image /\ disk \subseteq disk'
    BY DEF WebInductive, ImagesGrow
<1>5. WebTypeOK'
    BY DEF WebInductive, WebTypeOK
<1>6. OneTransaction' /\ LineMatches'
    BY DEF WebInductive, OneTransaction, LineMatches, Saving
<1>7. MarksAgree'
    BY <1>3 DEF WebInductive, MarksAgree, Started
<1>8. ImagesGrow'
    BY <1>4 DEF WebInductive, ImagesGrow
<1>9. UnsavedIsPending'
    BY DEF WebInductive, UnsavedIsPending, Pending
<1>10. CommitIsOwed'
  <2>1. ASSUME NEW s \in Starters, saveFaults = 0, on[s] \in {"ended", "settled"} PROVE Stored(s)
      BY <2>1 DEF WebInductive, CommitIsOwed
  <2>2. ASSUME NEW s \in Starters, saveFaults = 0, on[s] = "flushing" PROVE Stored(s)
    <3>1. PICK i \in DOMAIN line : line[i] = Saving(s)
        BY <2>2 DEF WebInductive, LineMatches
    <3>2. 1 \in 1..i
        BY <3>1 DEF WebInductive, WebTypeOK
    <3> QED
        BY <2>2, <3>1, <3>2 DEF WebInductive, CommitIsOwed
  <2>3. \A s \in Starters : Stored(s) => owed[s] \ unknown \subseteq disk'
      BY <1>4 DEF Stored
  <2> QED
      BY <2>1, <2>2, <2>3 DEF CommitIsOwed, Stored
<1>11. CommitIsSaved'
    BY <1>4 DEF WebInductive, CommitIsSaved
<1>12. RowsInOrder'
    BY DEF WebInductive, RowsInOrder
<1> QED
    BY <1>5, <1>6, <1>7, <1>8, <1>9, <1>10, <1>11, <1>12 DEF WebInductive

\* A save that nobody's start awaited is stored.
LEMMA SavedPreserves ==
    ASSUME WebInductive, SaveEnds, line[1].does = "saves"
    PROVE  WebInductive'
<1> DEFINE b == line[1].by
<1>1. phase = "save" /\ line # <<>>
    BY DEF SaveEnds, WebInductive, LineMatches
<1>2. Head(line) = line[1]
    BY <1>1, Leaves DEF WebInductive, WebTypeOK
<1>3. /\ disk' = content /\ phase' = "nothing" /\ line' = Tail(line) /\ on' = Back(b)
      /\ Promises(b)
      /\ UNCHANGED <<starting, image, layer, open, count, debounced, deferred, content, owed,
                     unknown, written, saveFaults>>
    BY <1>1, <1>2 DEF SaveEnds
<1>4. on' = [t \in Starters |-> IF t = b THEN "off" ELSE on[t]]
    BY <1>3 DEF Back
<1>5. /\ line' \in Seq(Jobs) /\ LineMatches'
      /\ \A i \in DOMAIN line' : i \in Nat \ {0} /\ i + 1 \in DOMAIN line /\ line'[i] = line[i + 1]
      /\ \A i \in DOMAIN line : i # 1 => i \in Nat /\ i - 1 \in DOMAIN line' /\ line'[i - 1] = line[i]
      /\ 1 \in DOMAIN line /\ line[1] \in Jobs
    BY <1>1, <1>3, <1>4, LineShortens
<1>6. b \in Starters => on[b] = "flushing" /\ owed[b] \subseteq content
    BY <1>1, <1>5 DEF WebInductive, LineMatches, ImagesGrow
<1>7. \A s \in Starters : on'[s] = on[s] \/ (s = b /\ on[s] = "flushing" /\ on'[s] = "off")
    BY <1>4, <1>6
<1>8. promised' = promised \cup (IF b \in Starters THEN owed[b] ELSE {})
    BY <1>3 DEF Promises
<1>9. disk \subseteq content /\ content \subseteq image
    BY <1>1 DEF WebInductive, ImagesGrow
<1> HIDE DEF b
<1>10. WebTypeOK'
  <2>1. on' \in [Starters -> Places]
      BY <1>4 DEF WebInductive, WebTypeOK, Places
  <2>2. promised' \in SUBSET RowIds
      BY <1>8 DEF WebInductive, WebTypeOK
  <2> QED
      BY <1>3, <1>5, <2>1, <2>2 DEF WebInductive, WebTypeOK
<1>11. OneTransaction'
    BY <1>7 DEF WebInductive, OneTransaction, Started
<1>12. MarksAgree'
    BY <1>1, <1>3, <1>7 DEF WebInductive, MarksAgree, Started
<1>13. ImagesGrow'
    BY <1>3, <1>7, <1>9 DEF WebInductive, ImagesGrow
<1>14. UnsavedIsPending'
  <2>1. Pending => Pending'
    <3> SUFFICES ASSUME NEW i \in DOMAIN line, line[i].does = "saves", i # 1 PROVE Pending'
        BY <1>1, <1>3 DEF Pending
    <3>1. i - 1 \in DOMAIN line' /\ line'[i - 1].does = "saves"
        BY <1>5
    <3> QED
        BY <3>1, <1>3 DEF Pending
  <2> QED
      BY <2>1, <1>1, <1>3 DEF WebInductive, UnsavedIsPending
<1>15. CommitIsOwed'
  <2> SUFFICES ASSUME saveFaults = 0 PROVE CommitIsOwed'
      BY <1>3 DEF CommitIsOwed
  <2>1. \A s \in Starters : Quiet(s) => Quiet(s)'
      BY <1>3, <1>7 DEF Quiet, Started
  <2>2. \A s \in Starters : Stored(s) => Stored(s)'
      BY <1>3, <1>9 DEF Stored
  <2>3. ASSUME NEW s \in Starters, on'[s] \in {"ended", "settled"}
        PROVE  Stored(s)' \/ (Quiet(s)' /\ deferred')
      BY <2>1, <2>2, <2>3, <1>1, <1>3, <1>7 DEF WebInductive, CommitIsOwed
  <2>4. ASSUME NEW s \in Starters, on'[s] = "flushing"
        PROVE  \/ Stored(s)'
               \/ /\ Quiet(s)'
                  /\ \/ deferred'
                     \/ \A i \in DOMAIN line' : line'[i] = Saving(s) =>
                           \A k \in 1..i : line'[k].does = "saves"
    <3>1. \/ Stored(s)
          \/ /\ Quiet(s)
             /\ \/ deferred
                \/ \A i \in DOMAIN line : line[i] = Saving(s) =>
                      \A k \in 1..i : line[k].does = "saves"
        BY <2>4, <1>7 DEF WebInductive, CommitIsOwed
    <3>2. ASSUME \A i \in DOMAIN line : line[i] = Saving(s) => \A k \in 1..i : line[k].does = "saves",
                 NEW i \in DOMAIN line', line'[i] = Saving(s), NEW k \in 1..i
          PROVE  line'[k].does = "saves"
      <4>1. i + 1 \in DOMAIN line /\ line[i + 1] = Saving(s)
          BY <3>2, <1>5
      <4>2. k + 1 \in 1..(i + 1) /\ k \in DOMAIN line'
          BY <3>2, <1>5
      <4> QED
          BY <3>2, <4>1, <4>2, <1>5
    <3> QED
        BY <3>1, <3>2, <2>1, <2>2, <1>3
  <2> QED
      BY <2>3, <2>4, <1>3 DEF CommitIsOwed, Saving
<1>16. CommitIsSaved'
    BY <1>1, <1>3, <1>6, <1>8, <1>9 DEF WebInductive, CommitIsSaved
<1>17. RowsInOrder'
    BY <1>1, <1>3 DEF WebInductive, RowsInOrder
<1> QED
    BY <1>5, <1>10, <1>11, <1>12, <1>13, <1>14, <1>15, <1>16, <1>17 DEF WebInductive

\* A save or a BEGIN fails, and its caller with it: nothing is promised of
\* storage any more, but the transaction of another caller goes on.
LEMMA FailurePreserves ==
    ASSUME WebInductive, SaveFails \/ BeginFails
    PROVE  WebInductive'
<1> DEFINE b == line[1].by
<1>1. phase \in {"save", "begin"} /\ line # <<>>
    BY DEF SaveFails, BeginFails, WebInductive, LineMatches
<1>2. Head(line) = line[1]
    BY <1>1, Leaves DEF WebInductive, WebTypeOK
<1>3. /\ phase' = "nothing" /\ line' = Tail(line) /\ on' = Back(b)
      /\ starting' = IF phase = "begin" \/ line[1].does = "starts" THEN FALSE ELSE starting
      /\ saveFaults < SaveFaults /\ saveFaults' = saveFaults + 1
      /\ UNCHANGED <<image, layer, open, disk, count, debounced, deferred, content, owed,
                     promised, unknown, written>>
    BY <1>1, <1>2 DEF SaveFails, BeginFails, SaveFault
<1>4. on' = [t \in Starters |-> IF t = b THEN "off" ELSE on[t]]
    BY <1>3 DEF Back
<1>5. /\ line' \in Seq(Jobs) /\ LineMatches' /\ 1 \in DOMAIN line /\ line[1] \in Jobs
    BY <1>1, <1>3, <1>4, LineShortens
<1>6. /\ b \in Starters => on[b] \in {"queued", "flushing"}
      /\ \A s \in Starters : on[s] \notin Started
  <2>1. /\ line[1].does = "starts" => b \in Starters /\ on[b] = "queued"
        /\ line[1].does = "saves" /\ b \in Starters => on[b] = "flushing"
        /\ line[1].does \in {"starts", "saves"}
      BY <1>5 DEF WebInductive, LineMatches, Jobs
  <2> QED
      BY <2>1, <1>1, <1>5 DEF WebInductive, LineMatches, MarksAgree, OneTransaction, Started
<1>7. \A s \in Starters : on'[s] = on[s] \/ (on[s] \in {"queued", "flushing"} /\ on'[s] = "off")
    BY <1>4, <1>6
<1> HIDE DEF b
<1>8. saveFaults' \in 0..SaveFaults /\ saveFaults' # 0
    BY <1>3, WebPersistenceAssumption DEF WebInductive, WebTypeOK
<1>9. WebTypeOK'
  <2>1. on' \in [Starters -> Places]
      BY <1>4 DEF WebInductive, WebTypeOK, Places
  <2>2. starting' \in BOOLEAN
      BY <1>3 DEF WebInductive, WebTypeOK
  <2> QED
      BY <1>3, <1>5, <1>8, <2>1, <2>2 DEF WebInductive, WebTypeOK
<1>10. OneTransaction'
    BY <1>7 DEF WebInductive, OneTransaction, Started
<1>11. MarksAgree'
  <2>1. starting => phase = "begin"
      BY <1>6 DEF WebInductive, MarksAgree, Started
  <2>2. ~starting'
      BY <2>1, <1>3 DEF WebInductive, WebTypeOK
  <2> QED
      BY <2>2, <1>3, <1>6, <1>7 DEF WebInductive, MarksAgree, Started
<1>12. ImagesGrow'
    BY <1>3, <1>7 DEF WebInductive, ImagesGrow
<1>13. UnsavedIsPending'
    BY <1>3, <1>6, <1>8 DEF WebInductive, UnsavedIsPending, MarksAgree, Started
<1>14. CommitIsOwed' /\ CommitIsSaved'
    BY <1>8 DEF CommitIsOwed, CommitIsSaved
<1>15. RowsInOrder'
    BY <1>3 DEF WebInductive, RowsInOrder
<1> QED
    BY <1>5, <1>9, <1>10, <1>11, <1>12, <1>13, <1>14, <1>15 DEF WebInductive

-----------------------------------------------------------------------------
(* Transactions                                                            *)

\* BEGIN: the transaction is open, and no commit depends on a save to come.
LEMMA BeginsPreserves ==
    ASSUME WebInductive, Begins
    PROVE  WebInductive'
<1> DEFINE b == line[1].by
<1>1. phase = "begin" /\ line # <<>> /\ line[1].does = "starts"
    BY DEF Begins, WebInductive, LineMatches
<1>2. Head(line) = line[1] /\ 1 \in DOMAIN line
    BY <1>1, Leaves DEF WebInductive, WebTypeOK
<1>3. b \in Starters /\ on[b] = "queued"
    BY <1>1, <1>2 DEF WebInductive, LineMatches
<1>4. /\ open' = TRUE /\ phase' = "nothing" /\ line' = Tail(line)
      /\ on' = [t \in Starters |-> IF t = b THEN "begun" ELSE on[t]]
      /\ UNCHANGED <<image, layer, disk, count, starting, debounced, deferred, content, owed,
                     promised, unknown, written, saveFaults>>
    BY <1>2, <1>3 DEF Begins, WebInductive, WebTypeOK
<1>5. /\ line' \in Seq(Jobs) /\ LineMatches'
      /\ \A i \in DOMAIN line : i # 1 => i \in Nat /\ i - 1 \in DOMAIN line' /\ line'[i - 1] = line[i]
    BY <1>1, <1>4, LineShortens
<1> HIDE DEF b
<1>6. \A s \in Starters : on[s] \notin Started
    BY <1>3 DEF WebInductive, OneTransaction, Started
<1>7. WebTypeOK'
  <2>1. on' \in [Starters -> Places]
      BY <1>4 DEF WebInductive, WebTypeOK, Places
  <2> QED
      BY <1>4, <1>5, <2>1 DEF WebInductive, WebTypeOK
<1>8. OneTransaction'
    BY <1>3, <1>4 DEF WebInductive, OneTransaction, Started
<1>9. MarksAgree'
    BY <1>1, <1>3, <1>4, <1>6 DEF WebInductive, MarksAgree, Started
<1>10. ImagesGrow'
    BY <1>3, <1>4 DEF WebInductive, ImagesGrow
<1>11. UnsavedIsPending'
  <2>1. Pending => Pending'
    <3> SUFFICES ASSUME NEW i \in DOMAIN line, line[i].does = "saves" PROVE Pending'
        BY <1>4 DEF Pending
    <3>1. i - 1 \in DOMAIN line' /\ line'[i - 1].does = "saves"
        BY <1>1, <1>5
    <3> QED
        BY <3>1, <1>4 DEF Pending
  <2> QED
      BY <2>1, <1>1, <1>4 DEF WebInductive, UnsavedIsPending
<1>12. CommitIsOwed'
    BY <1>1, <1>4 DEF WebInductive, CommitIsOwed, Quiet, Stored
<1>13. CommitIsSaved'
    BY <1>1, <1>4 DEF WebInductive, CommitIsSaved
<1>14. RowsInOrder'
    BY <1>4 DEF WebInductive, RowsInOrder
<1> QED
    BY <1>5, <1>7, <1>8, <1>9, <1>10, <1>11, <1>12, <1>13, <1>14 DEF WebInductive

\* A caller asks for a transaction: what the debounce owed, the start owes.
LEMMA StartPreserves ==
    ASSUME WebInductive, NEW s \in Starters, StartTransaction(s)
    PROVE  WebInductive'
<1> DEFINE x == [does |-> "starts", by |-> s]
           n == Len(line) + 1
<1>1. /\ x \in Jobs /\ x.does = "starts" /\ x.by = s
      /\ \A t \in Starters : x # Saving(t)
    BY DEF Jobs, Saving
<1>2. /\ MutexPrompt /\ on[s] = "off" /\ count = 0
      /\ \A t \in Starters : on[t] \in {"off", "settled", "flushing"}
      /\ debounced' = FALSE /\ deferred' = (deferred \/ debounced)
      /\ line' = Append(line, x)
      /\ on' = [on EXCEPT ![s] = "queued"] /\ owed' = [owed EXCEPT ![s] = {}]
      /\ UNCHANGED <<image, layer, open, disk, count, starting, phase, content, promised,
                     unknown, written, saveFaults>>
    BY DEF StartTransaction
<1>3. /\ line' \in Seq(Jobs) /\ line' # <<>>
      /\ DOMAIN line \subseteq DOMAIN line' /\ n \in DOMAIN line'
      /\ \A i \in DOMAIN line : line'[i] = line[i] /\ i \in Nat /\ i < n
      /\ \A i \in DOMAIN line' : i \in DOMAIN line \/ i = n
      /\ line'[n] = x
      /\ line = <<>> => line'[1] = x /\ DOMAIN line = {} /\ n = 1
      /\ line # <<>> => line'[1] = line[1] /\ 1 \in DOMAIN line
      /\ \A i \in DOMAIN line : 1..i \subseteq DOMAIN line
    BY <1>1, <1>2, LineGrows DEF WebInductive, WebTypeOK
<1> HIDE DEF x, n
<1>4. /\ on' \in [Starters -> Places]
      /\ \A t \in Starters : on'[t] = IF t = s THEN "queued" ELSE on[t]
      /\ owed' \in [Starters -> SUBSET RowIds]
      /\ \A t \in Starters : owed'[t] = IF t = s THEN {} ELSE owed[t]
    BY <1>2 DEF WebInductive, WebTypeOK, Places
<1>5. /\ \A i \in DOMAIN line : line[i].does # "starts"
      /\ phase # "begin" /\ (line = <<>> => phase = "nothing")
    BY <1>2, <1>3 DEF WebInductive, LineMatches
<1>6. WebTypeOK'
  <2>1. deferred' \in BOOLEAN /\ debounced' \in BOOLEAN
      BY <1>2
  <2> QED
      BY <1>2, <1>3, <1>4, <2>1 DEF WebInductive, WebTypeOK
<1>7. OneTransaction'
    BY <1>2, <1>4 DEF WebInductive, OneTransaction, Started
<1>8. LineMatches'
  <2>1. \A i \in DOMAIN line : line[i] # x /\ ~(line[i].does = "saves" /\ line[i].by = s)
      BY <1>1, <1>2, <1>5 DEF WebInductive, LineMatches
  <2> QED
      BY <2>1, <1>1, <1>2, <1>3, <1>4, <1>5 DEF WebInductive, LineMatches, Saving
<1>9. MarksAgree'
    BY <1>2, <1>4 DEF WebInductive, MarksAgree, Started
<1>10. ImagesGrow'
  <2>1. phase = "save" /\ line[1].does = "saves" /\ line[1].by \in Starters =>
            line[1].by # s /\ line'[1] = line[1]
      BY <1>2, <1>3, <1>5 DEF WebInductive, LineMatches
  <2> QED
      BY <2>1, <1>2, <1>3, <1>4, <1>5 DEF WebInductive, ImagesGrow
<1>11. UnsavedIsPending'
  <2>1. Pending => Pending'
      BY <1>2, <1>3 DEF Pending
  <2> QED
      BY <2>1, <1>2, <1>3, <1>5 DEF WebInductive, UnsavedIsPending
<1>12. CommitIsOwed'
  <2> SUFFICES ASSUME saveFaults = 0 PROVE CommitIsOwed'
      BY <1>2 DEF CommitIsOwed
  <2>1. \A t \in Starters : t # s /\ Stored(t) => Stored(t)'
      BY <1>2, <1>4 DEF Stored
  <2>2. \A t \in Starters : Quiet(t)'
      BY <1>2, <1>4, <1>5 DEF Quiet, Started
  <2>3. ASSUME NEW t \in Starters, on'[t] \in {"ended", "settled"}
        PROVE  \/ Stored(t)' \/ deferred'
               \/ phase' = "nothing" /\ line'[1].does = "saves"
      BY <2>1, <2>3, <1>2, <1>3, <1>4 DEF WebInductive, CommitIsOwed
  <2>4. ASSUME NEW t \in Starters, on'[t] = "flushing"
        PROVE  \/ Stored(t)' \/ deferred'
               \/ \A i \in DOMAIN line' : line'[i] = Saving(t) =>
                     \A k \in 1..i : line'[k].does = "saves"
    <3>1. t # s /\ on[t] = "flushing"
        BY <2>4, <1>4
    <3>2. \/ Stored(t) \/ deferred
          \/ \A i \in DOMAIN line : line[i] = Saving(t) => \A k \in 1..i : line[k].does = "saves"
        BY <3>1 DEF WebInductive, CommitIsOwed
    <3>3. ASSUME NEW i \in DOMAIN line', line'[i] = Saving(t)
          PROVE  /\ i \in DOMAIN line /\ line[i] = Saving(t)
                 /\ \A k \in 1..i : line'[k] = line[k]
        BY <3>3, <1>1, <1>3
    <3> QED
        BY <3>1, <3>2, <3>3, <2>1, <1>2
  <2> QED
      BY <2>2, <2>3, <2>4, <1>3 DEF CommitIsOwed, Saving
<1>13. RowsInOrder' /\ CommitIsSaved'
    BY <1>2 DEF WebInductive, RowsInOrder, CommitIsSaved
<1> QED
    BY <1>6, <1>7, <1>8, <1>9, <1>10, <1>11, <1>12, <1>13 DEF WebInductive

\* The transaction is counted, and the mark of its start goes.
LEMMA CountPreserves ==
    ASSUME WebInductive, NEW s \in Starters, Counts(s) \/ CompleteTransactionStart(s)
    PROVE  WebInductive'
<1> DEFINE place == IF on[s] = "begun" THEN "counted" ELSE "body"
<1>1. /\ on[s] \in {"begun", "counted"} /\ on' = [on EXCEPT ![s] = place]
      /\ UNCHANGED <<image, layer, open, disk, debounced, deferred, line, phase, content, owed,
                     promised, unknown, written, saveFaults>>
      /\ \/ on[s] = "begun" /\ place = "counted" /\ count' = count + 1 /\ starting' = starting
         \/ on[s] = "counted" /\ place = "body" /\ count' = count /\ starting' = FALSE
    BY DEF Counts, CompleteTransactionStart
<1> HIDE DEF place
<1>2. /\ on' \in [Starters -> Places]
      /\ \A t \in Starters : on'[t] = IF t = s THEN place ELSE on[t]
      /\ place \in {"counted", "body"}
    BY <1>1 DEF WebInductive, WebTypeOK, Places
<1>3. \A t \in Starters : on[t] \in Started \cup {"queued"} => t = s
    BY <1>1 DEF WebInductive, OneTransaction, Started
<1>4. phase = "nothing"
  <2>1. phase # "save"
      BY <1>1 DEF WebInductive, MarksAgree, Started
  <2>2. phase # "begin"
    <3> SUFFICES ASSUME phase = "begin" PROVE FALSE
        OBVIOUS
    <3>1. 1 \in DOMAIN line /\ line[1].does = "starts"
        BY DEF WebInductive, WebTypeOK, LineMatches
    <3> QED
        BY <3>1, <1>1, <1>3 DEF WebInductive, LineMatches
  <2> QED
      BY <2>1, <2>2 DEF WebInductive, WebTypeOK
<1>5. on[s] = "begun" => count = 0
    BY <1>3 DEF WebInductive, WebTypeOK, MarksAgree, Started
<1>6. WebTypeOK'
  <2>1. count' \in 0..1
      BY <1>1, <1>5 DEF WebInductive, WebTypeOK
  <2>2. starting \in BOOLEAN
      BY DEF WebInductive, WebTypeOK
  <2>3. starting' \in BOOLEAN
      BY <2>2, <1>1
  <2> QED
      BY <1>1, <1>2, <2>1, <2>3 DEF WebInductive, WebTypeOK
<1>7. OneTransaction'
    BY <1>2, <1>3 DEF OneTransaction, Started
<1>8. LineMatches'
    BY <1>1, <1>2 DEF WebInductive, LineMatches, Saving
<1>9. MarksAgree'
    BY <1>1, <1>2, <1>3, <1>4, <1>5 DEF WebInductive, MarksAgree, Started
<1>10. ImagesGrow'
    BY <1>1, <1>2, <1>4 DEF WebInductive, ImagesGrow
<1>11. UnsavedIsPending'
    BY <1>1 DEF WebInductive, UnsavedIsPending, Pending
<1>12. CommitIsOwed'
    BY <1>1, <1>2 DEF WebInductive, CommitIsOwed, Quiet, Stored, Started, Saving
<1>13. RowsInOrder' /\ CommitIsSaved'
    BY <1>1 DEF WebInductive, RowsInOrder, CommitIsSaved
<1> QED
    BY <1>6, <1>7, <1>8, <1>9, <1>10, <1>11, <1>12, <1>13 DEF WebInductive

\* COMMIT or ROLLBACK: nobody has the mutex and nobody waits, so that what was
\* written is owed by the debounce or by the deferred mark.
LEMMA EndPreserves ==
    ASSUME WebInductive, NEW s \in Starters, Commits(s) \/ RollsBack(s)
    PROVE  WebInductive'
<1>1. /\ MutexPrompt /\ on[s] = "body" /\ on' = [on EXCEPT ![s] = "ended"]
      /\ layer' = {} /\ open' = FALSE
      /\ \/ image' = image \cup layer /\ owed' = [owed EXCEPT ![s] = image']
         \/ image' = image /\ owed' = owed
      /\ UNCHANGED <<disk, count, starting, debounced, deferred, line, phase, content, promised,
                     unknown, written, saveFaults>>
    BY DEF Commits, RollsBack
<1>2. /\ on' \in [Starters -> Places]
      /\ \A t \in Starters : on'[t] = IF t = s THEN "ended" ELSE on[t]
    BY <1>1 DEF WebInductive, WebTypeOK, Places
<1>3. \A t \in Starters : on[t] \in Started \cup {"queued"} => t = s
    BY <1>1 DEF WebInductive, OneTransaction, Started
<1>4. phase = "nothing" /\ line = <<>> /\ DOMAIN line = {}
  <2>1. phase # "save"
      BY <1>1 DEF WebInductive, MarksAgree, Started
  <2>2. phase # "begin"
    <3> SUFFICES ASSUME phase = "begin" PROVE FALSE
        OBVIOUS
    <3>1. 1 \in DOMAIN line /\ line[1].does = "starts"
        BY DEF WebInductive, WebTypeOK, LineMatches
    <3> QED
        BY <3>1, <1>1, <1>3 DEF WebInductive, LineMatches
  <2>3. phase = "nothing"
      BY <2>1, <2>2 DEF WebInductive, WebTypeOK
  <2> QED
      BY <2>3, <1>1 DEF MutexPrompt
<1>5. /\ image \subseteq image' /\ image' \in SUBSET RowIds
      /\ owed' \in [Starters -> SUBSET RowIds]
      /\ owed'[s] \subseteq image' /\ \A t \in Starters : t # s => owed'[t] = owed[t]
  <2>1. owed[s] \subseteq image
      BY DEF WebInductive, ImagesGrow
  <2> QED
      BY <2>1, <1>1 DEF WebInductive, WebTypeOK
<1>6. WebTypeOK'
    BY <1>1, <1>2, <1>5 DEF WebInductive, WebTypeOK
<1>7. OneTransaction'
    BY <1>2, <1>3 DEF OneTransaction, Started
<1>8. LineMatches'
    BY <1>1, <1>2 DEF WebInductive, LineMatches, Saving
<1>9. MarksAgree'
    BY <1>1, <1>2, <1>3, <1>4 DEF WebInductive, MarksAgree, Started
<1>10. ImagesGrow'
    BY <1>1, <1>2, <1>4, <1>5 DEF WebInductive, ImagesGrow
<1>11. ~Pending => layer \subseteq unknown
    BY DEF WebInductive, UnsavedIsPending
<1>12. UnsavedIsPending'
    BY <1>1, <1>4, <1>11 DEF WebInductive, UnsavedIsPending, Pending
<1>13. CommitIsOwed'
  <2> SUFFICES ASSUME saveFaults = 0 PROVE CommitIsOwed'
      BY <1>1 DEF CommitIsOwed
  <2>1. Quiet(s)'
      BY <1>1, <1>2, <1>3, <1>4 DEF Quiet, Started
  <2>2. Stored(s)' \/ deferred' \/ debounced'
    <3>1. CASE Pending
        BY <3>1, <1>1, <1>4 DEF Pending
    <3>2. CASE ~Pending
        BY <3>2, <1>1, <1>4, <1>5, <1>11 DEF WebInductive, UnsavedIsPending, Stored
    <3> QED
        BY <3>1, <3>2
  <2>3. \A t \in Starters : t # s => ~Quiet(t)
      BY <1>1 DEF Quiet, Started
  <2>4. \A t \in Starters : t # s /\ on[t] \in {"ended", "settled", "flushing"} => Stored(t)
      BY <2>3 DEF WebInductive, CommitIsOwed
  <2>5. \A t \in Starters : t # s /\ Stored(t) => Stored(t)'
      BY <1>1, <1>5 DEF Stored
  <2> QED
      BY <2>1, <2>2, <2>4, <2>5, <1>1, <1>2, <1>4 DEF CommitIsOwed
<1>14. CommitIsSaved'
    BY <1>1 DEF WebInductive, CommitIsSaved
<1>15. RowsInOrder'
  <2>1. disk \subseteq image /\ \A r \in image \cup layer : r \in Nat
      BY DEF WebInductive, WebTypeOK, RowIds, ImagesGrow
  <2> QED
      BY <1>1, <1>4, <2>1 DEF WebInductive, RowsInOrder
<1> QED
    BY <1>6, <1>7, <1>8, <1>9, <1>10, <1>12, <1>13, <1>14, <1>15 DEF WebInductive

\* The end is counted.
LEMMA EndCountedPreserves ==
    ASSUME WebInductive, NEW s \in Starters, EndIsCounted(s)
    PROVE  WebInductive'
<1>1. /\ on[s] = "ended" /\ on' = [on EXCEPT ![s] = "settled"] /\ count' = count - 1
      /\ UNCHANGED <<image, layer, open, disk, starting, debounced, deferred, line, phase,
                     content, owed, promised, unknown, written, saveFaults>>
    BY DEF EndIsCounted
<1>2. /\ on' \in [Starters -> Places]
      /\ \A t \in Starters : on'[t] = IF t = s THEN "settled" ELSE on[t]
    BY <1>1 DEF WebInductive, WebTypeOK, Places
<1>3. \A t \in Starters : on[t] \in Started \cup {"queued"} => t = s
    BY <1>1 DEF WebInductive, OneTransaction, Started
<1>4. count = 1 /\ count' = 0
    BY <1>1 DEF WebInductive, WebTypeOK, MarksAgree
<1>5. WebTypeOK'
    BY <1>1, <1>2, <1>4 DEF WebInductive, WebTypeOK
<1>6. OneTransaction'
    BY <1>2, <1>3 DEF OneTransaction, Started
<1>7. LineMatches'
    BY <1>1, <1>2 DEF WebInductive, LineMatches, Saving
<1>8. MarksAgree'
    BY <1>1, <1>2, <1>3, <1>4 DEF WebInductive, MarksAgree, Started
<1>9. ImagesGrow'
    BY <1>1, <1>2 DEF WebInductive, ImagesGrow
<1>10. UnsavedIsPending'
    BY <1>1 DEF WebInductive, UnsavedIsPending, Pending
<1>11. CommitIsOwed'
    BY <1>1, <1>2 DEF WebInductive, CommitIsOwed, Quiet, Stored, Started, Saving
<1>12. RowsInOrder' /\ CommitIsSaved'
    BY <1>1 DEF WebInductive, RowsInOrder, CommitIsSaved
<1> QED
    BY <1>5, <1>6, <1>7, <1>8, <1>9, <1>10, <1>11, <1>12 DEF WebInductive

\* The caller flushes what is owed, or finds nothing and returns.
LEMMA FlushPreserves ==
    ASSUME WebInductive, NEW s \in Starters, FlushPending(s)
    PROVE  WebInductive'
<1> DEFINE x == Saving(s)
           n == Len(line) + 1
<1>1. /\ MutexPrompt /\ on[s] = "settled"
      /\ UNCHANGED <<image, layer, open, disk, count, starting, deferred, phase, content, owed,
                     unknown, written, saveFaults>>
    BY DEF FlushPending
<1>2. CASE ~Owes
  <2>1. /\ on' = [on EXCEPT ![s] = "off"] /\ promised' = promised \cup owed[s]
        /\ UNCHANGED <<debounced, line>>
      BY <1>2 DEF FlushPending, Promises
  <2>2. /\ on' \in [Starters -> Places]
        /\ \A t \in Starters : on'[t] = IF t = s THEN "off" ELSE on[t]
      BY <2>1 DEF WebInductive, WebTypeOK, Places
  <2>3. WebTypeOK'
    <3>1. promised' \in SUBSET RowIds
        BY <2>1 DEF WebInductive, WebTypeOK
    <3> QED
        BY <1>1, <2>1, <2>2, <3>1 DEF WebInductive, WebTypeOK
  <2>4. OneTransaction'
      BY <2>2 DEF WebInductive, OneTransaction, Started
  <2>5. LineMatches'
      BY <1>1, <2>1, <2>2 DEF WebInductive, LineMatches, Saving
  <2>6. MarksAgree'
      BY <1>1, <2>1, <2>2 DEF WebInductive, MarksAgree, Started
  <2>7. ImagesGrow' /\ UnsavedIsPending'
      BY <1>1, <2>1, <2>2 DEF WebInductive, ImagesGrow, UnsavedIsPending, Pending
  <2>8. CommitIsOwed'
      BY <1>1, <2>1, <2>2 DEF WebInductive, CommitIsOwed, Quiet, Stored, Started, Saving
  <2>9. saveFaults = 0 => Stored(s)
      BY <1>1, <1>2 DEF WebInductive, CommitIsOwed, Owes, MutexPrompt
  <2>10. CommitIsSaved'
      BY <2>9, <1>1, <2>1 DEF WebInductive, CommitIsSaved, Stored
  <2>11. RowsInOrder'
      BY <1>1 DEF WebInductive, RowsInOrder
  <2> QED
      BY <2>3, <2>4, <2>5, <2>6, <2>7, <2>8, <2>10, <2>11 DEF WebInductive
<1>3. CASE Owes
  <2>1. /\ debounced' = FALSE /\ line' = Append(line, x) /\ on' = [on EXCEPT ![s] = "flushing"]
        /\ promised' = promised
      BY <1>3 DEF FlushPending
  <2>2. /\ x \in Jobs /\ x.does = "saves" /\ x.by = s
        /\ \A t \in Starters : x = Saving(t) => t = s
        /\ NoStarter # s
      BY WebPersistenceAssumption DEF Jobs, Saving
  <2>3. /\ line' \in Seq(Jobs) /\ line' # <<>>
        /\ DOMAIN line \subseteq DOMAIN line' /\ n \in DOMAIN line'
        /\ \A i \in DOMAIN line : line'[i] = line[i] /\ i \in Nat /\ i < n
        /\ \A i \in DOMAIN line' : i \in DOMAIN line \/ i = n
        /\ line'[n] = x
        /\ line = <<>> => line'[1] = x /\ DOMAIN line = {} /\ n = 1
        /\ line # <<>> => line'[1] = line[1] /\ 1 \in DOMAIN line
        /\ \A i \in DOMAIN line : 1..i \subseteq DOMAIN line
      BY <2>1, <2>2, LineGrows DEF WebInductive, WebTypeOK
  <2> HIDE DEF x, n
  <2>4. /\ on' \in [Starters -> Places]
        /\ \A t \in Starters : on'[t] = IF t = s THEN "flushing" ELSE on[t]
      BY <2>1 DEF WebInductive, WebTypeOK, Places
  <2>5. /\ \A i \in DOMAIN line : line[i].by = s => line[i].does \notin {"saves", "starts"}
        /\ line = <<>> => phase = "nothing"
        /\ line # <<>> => phase # "nothing"
      BY <1>1 DEF WebInductive, LineMatches, MutexPrompt
  <2>6. WebTypeOK'
    <3>1. debounced' \in BOOLEAN
        BY <2>1
    <3> QED
        BY <1>1, <2>1, <2>3, <2>4, <3>1 DEF WebInductive, WebTypeOK
  <2>7. OneTransaction'
      BY <2>4 DEF WebInductive, OneTransaction, Started
  <2>8. LineMatches'
    <3>1. \A i \in DOMAIN line : line[i] # x
        BY <2>2, <2>5
    <3>2. \A i \in DOMAIN line : line[i].does = "starts" => line[i].by # s
        BY <2>5
    <3>3. \A i, k \in DOMAIN line' : i # k /\ line'[i] = line'[k] => line'[i].by = NoStarter
        BY <3>1, <2>3 DEF WebInductive, LineMatches
    <3>4. \A t \in Starters : on'[t] = "flushing" => \E i \in DOMAIN line' : line'[i] = Saving(t)
        BY <2>3, <2>4 DEF WebInductive, LineMatches, x
    <3>5. \A i \in DOMAIN line' :
             /\ line'[i].does = "starts" => line'[i].by \in Starters /\ on'[line'[i].by] = "queued"
             /\ line'[i].does = "saves" /\ line'[i].by \in Starters =>
                   on'[line'[i].by] = "flushing"
        BY <3>2, <2>2, <2>3, <2>4 DEF WebInductive, LineMatches
    <3> QED
        BY <3>3, <3>4, <3>5, <1>1, <2>3, <2>5 DEF WebInductive, LineMatches, Saving
  <2>9. MarksAgree'
      BY <1>1, <2>1, <2>4 DEF WebInductive, MarksAgree, Started
  <2>10. ImagesGrow'
      BY <1>1, <2>1, <2>3, <2>4, <2>5 DEF WebInductive, ImagesGrow
  <2>11. UnsavedIsPending'
    <3>1. Pending'
        BY <1>1, <2>2, <2>3, <2>5 DEF Pending
    <3> QED
        BY <3>1, <1>1, <2>1, <2>3, <2>5 DEF WebInductive, UnsavedIsPending
  <2>12. CommitIsOwed'
    <3> SUFFICES ASSUME saveFaults = 0 PROVE CommitIsOwed'
        BY <1>1 DEF CommitIsOwed
    <3>1. \A t \in Starters : (Quiet(t) => Quiet(t)') /\ (Stored(t) => Stored(t)')
        BY <1>1, <2>4 DEF Quiet, Stored, Started
    <3>2. ASSUME NEW t \in Starters, on'[t] \in {"ended", "settled"}
          PROVE  \/ Stored(t)'
                 \/ /\ Quiet(t)'
                    /\ deferred' \/ (phase' = "nothing" /\ line'[1].does = "saves")
        BY <3>1, <3>2, <1>1, <2>2, <2>3, <2>4, <2>5 DEF WebInductive, CommitIsOwed
    <3>3. ASSUME NEW t \in Starters, t # s, on'[t] = "flushing"
          PROVE  \/ Stored(t)'
                 \/ /\ Quiet(t)'
                    /\ \/ deferred'
                       \/ \A i \in DOMAIN line' : line'[i] = Saving(t) =>
                             \A k \in 1..i : line'[k].does = "saves"
        BY <3>1, <3>3, <1>1, <2>2, <2>3, <2>4 DEF WebInductive, CommitIsOwed
    <3>4. \/ Stored(s)'
          \/ /\ Quiet(s)'
             /\ \/ deferred'
                \/ \A i \in DOMAIN line' : line'[i] = Saving(s) =>
                      \A k \in 1..i : line'[k].does = "saves"
      <4>1. Stored(s) \/ (Quiet(s) /\ (deferred \/ line = <<>>))
          BY <1>1, <2>5 DEF WebInductive, CommitIsOwed
      <4>2. line = <<>> => \A i \in DOMAIN line' : \A k \in 1..i : line'[k].does = "saves"
          BY <2>2, <2>3
      <4> QED
          BY <4>1, <4>2, <3>1, <1>1
    <3> QED
        BY <3>2, <3>3, <3>4, <2>3 DEF CommitIsOwed, Saving
  <2>13. RowsInOrder' /\ CommitIsSaved'
      BY <1>1, <2>1 DEF WebInductive, RowsInOrder, CommitIsSaved
  <2> QED
      BY <2>6, <2>7, <2>8, <2>9, <2>10, <2>11, <2>12, <2>13 DEF WebInductive
<1> QED
    BY <1>2, <1>3

\* Every step of the page keeps the invariant.
LEMMA WebStep == WebInductive /\ [WebNext]_webVars => WebInductive'
<1> SUFFICES ASSUME WebInductive, [WebNext]_webVars PROVE WebInductive'
    OBVIOUS
<1>1. line # <<>> => Head(line) = line[1] /\ 1 \in DOMAIN line /\ line[1] \in Jobs
    BY Leaves DEF WebInductive, WebTypeOK
<1>2. CASE \E known \in Known : Write(known)
    BY <1>2, WritePreserves
<1>3. CASE DebounceFires \/ Flush
    BY <1>3, QueuedSavePreserves DEF DebounceFires, Flush
<1>4. CASE SaveEnters
  <2>1. CASE Defers
      BY <1>4, <2>1, PutOffPreserves
  <2>2. CASE ~Defers
    <3>1. \A s \in Starters : on[s] \notin Started
        BY <2>2 DEF Defers, WebInductive, WebTypeOK, MarksAgree, Started
    <3> QED
        BY <1>4, <2>2, <3>1, ExportPreserves DEF SaveEnters
  <2> QED
      BY <2>1, <2>2
<1>5. CASE StartEnters
  <2>1. line # <<>> /\ phase = "nothing" /\ line[1].does = "starts"
      BY <1>1, <1>5 DEF StartEnters
  <2>2. \A s \in Starters : on[s] \notin Started
      BY <1>1, <2>1 DEF WebInductive, LineMatches, OneTransaction, Started
  <2>3. CASE deferred
      BY <1>5, <2>1, <2>2, <2>3, ExportPreserves DEF StartEnters
  <2>4. CASE ~deferred
    <3>1. /\ starting' = TRUE /\ phase' = "begin" /\ disk' = disk
          /\ UNCHANGED <<image, layer, open, count, debounced, deferred, line, content, on, owed,
                         promised, unknown, written, saveFaults>>
        BY <1>5, <2>4 DEF StartEnters
    <3> QED
        BY <2>1, <2>4, <3>1, ToBeginPreserves
  <2> QED
      BY <2>3, <2>4
<1>6. CASE SaveEnds
  <2>1. phase = "save" /\ line # <<>> /\ line[1].does \in {"starts", "saves"}
      BY <1>1, <1>6 DEF SaveEnds, WebInductive, LineMatches, Jobs
  <2>2. CASE line[1].does = "starts"
    <3>1. ~deferred
        BY <2>1, <2>2 DEF WebInductive, UnsavedIsPending
    <3> QED
        BY <1>1, <1>6, <2>1, <2>2, <3>1, ToBeginPreserves DEF SaveEnds
  <2>3. CASE line[1].does = "saves"
      BY <1>6, <2>3, SavedPreserves
  <2> QED
      BY <2>1, <2>2, <2>3
<1>7. CASE SaveFails \/ BeginFails
    BY <1>7, FailurePreserves
<1>8. CASE Begins
    BY <1>8, BeginsPreserves
<1>9. ASSUME NEW s \in Starters,
             \/ StartTransaction(s) \/ Counts(s) \/ CompleteTransactionStart(s)
             \/ Commits(s) \/ RollsBack(s) \/ EndIsCounted(s) \/ FlushPending(s)
      PROVE  WebInductive'
    BY <1>9, StartPreserves, CountPreserves, EndPreserves, EndCountedPreserves, FlushPreserves
<1>10. CASE UNCHANGED webVars
  <2>1. UNCHANGED <<image, layer, open, disk, count, starting, debounced, deferred, line, phase,
                    content, on, owed, promised, unknown, written, saveFaults>>
      BY <1>10 DEF webVars
  <2>2. WebTypeOK' /\ OneTransaction' /\ LineMatches' /\ MarksAgree'
      BY <2>1 DEF WebInductive, WebTypeOK, OneTransaction, LineMatches, MarksAgree, Saving
  <2>3. /\ ImagesGrow' /\ RowsInOrder' /\ UnsavedIsPending' /\ CommitIsOwed'
        /\ CommitIsSaved'
      BY <2>1 DEF WebInductive, ImagesGrow, RowsInOrder, UnsavedIsPending, Pending, CommitIsOwed, Quiet, Stored,
                  CommitIsSaved, Saving
  <2> QED
      BY <2>2, <2>3 DEF WebInductive
<1> QED
    BY <1>2, <1>3, <1>4, <1>5, <1>6, <1>7, <1>8, <1>9, <1>10 DEF WebNext

\* For any number of callers, rows and failing saves: no save ends a transaction
\* (index.web.js, connection-sql-js.js); the storage always holds a past state of
\* the memory, without rows of an open or undone transaction; no save that a
\* statement armed is forgotten between debounce, deferral and the start of the next
\* transaction; and what a resolved transaction() committed by statements that arm
\* a save is in storage or in the save under way.
THEOREM CommitsReachStorage == WebSpec => []WebInv
<1>1. WebSpec => []WebInductive
    BY WebStarts, WebStep, PTL DEF WebSpec
<1> QED
    BY <1>1, WebInductiveImplies, PTL

-----------------------------------------------------------------------------
(* The databases of tenants.                                               *)

HandlesTyped == handle \in [Tenants -> Handles] /\ busyOutside \subseteq Tenants
ActsTyped == act \in [Callers -> Acts]
FaultsTyped == handleFaults \in 0..HandleFaults

\* Handles and an order of use, as a section may leave them behind.
Resident(map, order) ==
    /\ map \in [Tenants -> Handles]
    /\ order \in Seq(Tenants) /\ IsInjective(order)
    /\ {e \in Tenants : map[e].open} \subseteq ToSet(order)
    /\ Cardinality({e \in Tenants : map[e].open}) <= MaxHandles

\* What a section that opens d does to the handles.
Reopened(d, map) ==
    /\ \A e \in Tenants \ {d} : map[e] = handle[e] \/ (map[e] = Fresh /\ Unused(e))
    /\ \/ map[d] = [handle[d] EXCEPT !.known = TRUE, !.open = TRUE]
       \/ map[d] = [handle[d] EXCEPT !.known = TRUE] \/ map[d] = handle[d]

\* A handle that is pinned is open, counts its pins, and is not ready while it
\* is being migrated.
HandleHolds(d) ==
    /\ handle[d].run # "none" => ~handle[d].ready
    /\ handle[d].run # "none" \/ Callbacks(d) # {} => handle[d].open
    /\ handle[d].pins = Cardinality(Callbacks(d)) + (IF handle[d].run = "none" THEN 0 ELSE 1)

\* Who awaits a promise, awaits that of the handle unless it is stale; nothing
\* else is ready than an operation, and it is on a ready handle.
CallHolds(k) ==
    /\ act[k].does # "nothing" => act[k].on \in Tenants
    /\ act[k].does = "initializes" /\ ~act[k].stale => handle[act[k].on].run # "none"
    /\ act[k].ready => /\ act[k].does = "operates" /\ handle[act[k].on].ready
                       /\ handle[act[k].on].generation = act[k].generation

TenantInductive ==
    /\ HandlesTyped /\ ActsTyped /\ FaultsTyped /\ Resident(handle, recent)
    /\ \A d \in Tenants : HandleHolds(d)
    /\ \A k \in Callers : CallHolds(k)
\* A handle that is used becomes the most recent one; none appears twice.
LEMMA TouchedKeeps ==
    ASSUME NEW order \in Seq(Tenants), IsInjective(order), NEW d \in Tenants
    PROVE  /\ Touched(d, order) \in Seq(Tenants) /\ IsInjective(Touched(d, order))
           /\ ToSet(Touched(d, order)) = ToSet(order) \cup {d}
<1> DEFINE was == {i \in DOMAIN order : order[i] = d}
           at == CHOOSE i \in was : TRUE
           left == IF was = {} THEN order ELSE RemoveAt(order, at)
<1>1. Touched(d, order) = Append(left, d)
  BY DEF Touched
<1>2. /\ left \in Seq(Tenants) /\ IsInjective(left)
      /\ ToSet(left) = ToSet(order) \ {d}
  <2>1. CASE was = {}
    BY <2>1 DEF ToSet
  <2>2. CASE was # {}
    <3>1. at \in 1..Len(order) /\ order[at] = d /\ left = RemoveAt(order, at)
      BY <2>2
    <3>2. \A i \in 1..Len(order) : i # at => order[i] # d
      BY <3>1 DEF IsInjective
    <3> HIDE DEF at, left, was
    <3>3. /\ left \in Seq(Tenants) /\ Len(left) = Len(order) - 1
          /\ \A i \in 1..Len(order) - 1 : left[i] = IF i < at THEN order[i] ELSE order[i + 1]
      <4> DEFINE low == SubSeq(order, 1, at - 1)
                 high == SubSeq(order, at + 1, Len(order))
      <4>1. low \in Seq(Tenants) /\ Len(low) = at - 1 /\ \A i \in 1..at - 1 : low[i] = order[i]
        BY <3>1
      <4>2. /\ high \in Seq(Tenants) /\ Len(high) = Len(order) - at
            /\ \A i \in 1..Len(order) - at : high[i] = order[i + at]
        BY <3>1
      <4>3. left = low \o high
        BY <3>1 DEF RemoveAt
      <4> HIDE DEF low, high
      <4>4. left \in Seq(Tenants) /\ Len(left) = Len(order) - 1
        <5>1. left \in Seq(Tenants) /\ Len(left) = Len(low) + Len(high)
          <6>1. low \in Seq(Tenants) /\ high \in Seq(Tenants)
            BY <4>1, <4>2
          <6>2. low \o high \in Seq(Tenants) /\ Len(low \o high) = Len(low) + Len(high)
            BY <6>1
          <6> QED  BY <4>3, <6>2
        <5> QED  BY <3>1, <4>1, <4>2, <5>1
      <4>5. \A i \in 1..Len(order) - 1 : left[i] = IF i < at THEN order[i] ELSE order[i + 1]
        <5> SUFFICES ASSUME NEW i \in 1..Len(order) - 1
                     PROVE  left[i] = IF i < at THEN order[i] ELSE order[i + 1]
          OBVIOUS
        <5>1. left[i] = IF i <= Len(low) THEN low[i] ELSE high[i - Len(low)]
          BY <3>1, <4>1, <4>2, <4>3
        <5>2. CASE i < at
          BY <3>1, <4>1, <5>1, <5>2
        <5>3. CASE ~(i < at)
          <6>1. i - (at - 1) \in 1..Len(order) - at /\ ~(i <= at - 1)
            BY <3>1, <5>3
          <6> QED  BY <3>1, <4>1, <4>2, <5>1, <5>3, <6>1
        <5> QED  BY <5>2, <5>3
      <4> QED  BY <4>4, <4>5
    <3>4. IsInjective(left)
      <4> SUFFICES ASSUME NEW i \in 1..Len(order) - 1, NEW j \in 1..Len(order) - 1, left[i] = left[j]
                   PROVE  i = j
        BY <3>3 DEF IsInjective
      <4> DEFINE o(n) == IF n < at THEN n ELSE n + 1
      <4>1. left[i] = order[o(i)] /\ left[j] = order[o(j)] /\ o(i) \in 1..Len(order) /\ o(j) \in 1..Len(order)
        BY <3>1, <3>3
      <4>2. o(i) = o(j)
        <5>1. \A a, b \in 1..Len(order) : order[a] = order[b] => a = b
          BY DEF IsInjective
        <5> HIDE DEF o
        <5> QED  BY <4>1, <5>1
      <4> QED  BY <3>1, <4>2
    <3>5. \A i \in 1..Len(order) - 1 : left[i] \in ToSet(order) \ {d}
      <4> SUFFICES ASSUME NEW i \in 1..Len(order) - 1 PROVE left[i] \in ToSet(order) \ {d}
        OBVIOUS
      <4>1. CASE i < at
        BY <3>1, <3>2, <3>3, <4>1 DEF ToSet
      <4>2. CASE ~(i < at)
        <5>1. i + 1 \in 1..Len(order) /\ i + 1 # at /\ left[i] = order[i + 1]
          BY <3>1, <3>3, <4>2
        <5> QED  BY <3>2, <5>1 DEF ToSet
      <4> QED  BY <4>1, <4>2
    <3>6. ASSUME NEW n \in 1..Len(order), order[n] # d
          PROVE  \E i \in 1..Len(order) - 1 : left[i] = order[n]
      <4>1. CASE n < at
        <5>1. n \in 1..Len(order) - 1 /\ left[n] = order[n]
          BY <3>1, <3>3, <4>1
        <5> QED  BY <5>1
      <4>2. CASE ~(n < at)
        <5>1. n # at
          BY <3>1, <3>6
        <5>2. n - 1 \in 1..Len(order) - 1 /\ left[n - 1] = order[n]
          BY <3>1, <3>3, <4>2, <5>1
        <5> QED  BY <5>2
      <4> QED  BY <4>1, <4>2
    <3>7. ToSet(left) = {left[i] : i \in 1..Len(order) - 1} /\ ToSet(order) = {order[i] : i \in 1..Len(order)}
      BY <3>3 DEF ToSet
    <3> QED  BY <3>3, <3>4, <3>5, <3>6, <3>7
  <2> QED  BY <2>1, <2>2
<1> HIDE DEF was, at, left
<1>3. Append(left, d) \in Seq(Tenants)
  BY <1>2
<1>4. /\ Len(Append(left, d)) = Len(left) + 1 /\ Append(left, d)[Len(left) + 1] = d
      /\ \A i \in 1..Len(left) : Append(left, d)[i] = left[i]
  BY <1>2
<1>5. \A i \in 1..Len(left) : left[i] # d
  BY <1>2 DEF ToSet
<1>6. IsInjective(Append(left, d))
  BY <1>2, <1>3, <1>4, <1>5 DEF IsInjective
<1>7. ToSet(Append(left, d)) = ToSet(left) \cup {d}
  BY <1>2, <1>3, <1>4 DEF ToSet
<1> QED  BY <1>1, <1>2, <1>3, <1>6, <1>7

\* The open handles, and those but one, can be counted.
LEMMA OpenOnesCounted ==
    ASSUME NEW map \in [Tenants -> Handles], NEW d \in Tenants
    PROVE  /\ IsFiniteSet({e \in Tenants : map[e].open})
           /\ Cardinality({e \in Tenants : map[e].open}) \in Nat
           /\ Cardinality({e \in Tenants \ {d} : map[e].open}) \in Nat
           /\ Cardinality({e \in Tenants : map[e].open}) =
                 Cardinality({e \in Tenants \ {d} : map[e].open}) + (IF map[d].open THEN 1 ELSE 0)
<1> DEFINE all == {e \in Tenants : map[e].open}
           others == {e \in Tenants \ {d} : map[e].open}
<1>1. IsFiniteSet(all) /\ IsFiniteSet(others)
  <2>1. all \subseteq Tenants /\ others \subseteq Tenants
    OBVIOUS
  <2> HIDE DEF all, others
  <2> QED  BY <2>1, TenantAssumption, FS_Subset
<1>2. Cardinality(all) \in Nat /\ Cardinality(others) \in Nat
  <2> HIDE DEF all, others
  <2> QED  BY <1>1, FS_CardinalityType
<1>3. CASE map[d].open
  <2>1. all = others \cup {d} /\ d \notin others
    BY <1>3
  <2> HIDE DEF all, others
  <2>2. Cardinality(all) = Cardinality(others) + 1
    BY <1>1, <2>1, FS_AddElement
  <2> QED  BY <1>1, <1>2, <1>3, <2>2 DEF all, others
<1>4. CASE ~map[d].open
  <2>1. all = others
    BY <1>4
  <2> HIDE DEF all, others
  <2>2. Cardinality(all) = Cardinality(others) + 0
    BY <1>2, <2>1
  <2> QED  BY <1>1, <1>2, <1>4, <2>2 DEF all, others
<1> QED  BY <1>3, <1>4

\* An opening leaves handles within the cap, and takes nothing away from those
\* that are pinned or in use.
LEMMA OpeningsAreSafe ==
    ASSUME TenantInductive, NEW d \in Tenants, NEW o \in Openings(d)
    PROVE  /\ Resident(o.map, o.order) /\ Reopened(d, o.map)
           /\ o.ok => o.map[d].open
<1> DEFINE met == [handle EXCEPT ![d].known = TRUE]
           bases == (IF HasRoom(d) THEN {met} ELSE {}) \cup
                    (IF HasRoom(d) THEN {} ELSE {Forgotten(v, met) : v \in Victims(d)})
           opened(m) == [m EXCEPT ![d].open = TRUE]
<1>1. /\ handle \in [Tenants -> Handles] /\ met \in [Tenants -> Handles] /\ Fresh \in Handles
      /\ \A e \in Tenants : met[e].open = handle[e].open
      /\ \A e \in Tenants \ {d} : met[e] = handle[e]
  <2>1. handle \in [Tenants -> Handles]
    BY DEF TenantInductive, HandlesTyped
  <2>2. Fresh \in Handles
    BY DEF Handles, Fresh, Runs
  <2>3. [handle[d] EXCEPT !.known = TRUE] \in Handles /\ [handle[d] EXCEPT !.known = TRUE].open = handle[d].open
    BY <2>1 DEF Handles
  <2>4. met = [handle EXCEPT ![d] = [handle[d] EXCEPT !.known = TRUE]]
    OBVIOUS
  <2> QED  BY <2>1, <2>2, <2>3, <2>4
<1>2. Resident(handle, recent) /\ Resident(met, recent)
  <2>1. {e \in Tenants : met[e].open} = {e \in Tenants : handle[e].open}
    BY <1>1
  <2> HIDE DEF met
  <2> QED  BY <1>1, <2>1 DEF TenantInductive, Resident
<1>3. CASE handle[d].open
  <2>1. o = Outcome(TRUE, handle, recent, 0)
    BY <1>3 DEF Openings
  <2> QED  BY <1>2, <1>3, <2>1 DEF Outcome, Reopened
<1>4. CASE ~handle[d].open
  <2>1. ASSUME NEW m \in bases
        PROVE  /\ Resident(m, recent) /\ Reopened(d, m) /\ m[d] = met[d]
               /\ Cardinality({e \in Tenants \ {d} : m[e].open}) < MaxHandles
    <3>1. CASE HasRoom(d)
      <4>1. m = met
        BY <3>1
      <4>2. {e \in Tenants \ {d} : met[e].open} = {e \in Tenants \ {d} : handle[e].open}
        BY <1>1
      <4>3. Reopened(d, met)
        BY <1>1 DEF Reopened
      <4> HIDE DEF met
      <4> QED  BY <1>2, <3>1, <4>1, <4>2, <4>3 DEF HasRoom
    <3>2. CASE ~HasRoom(d)
      <4>1. PICK v \in Victims(d) : m = Forgotten(v, met)
        BY <3>2
      <4>2. v \in Tenants \ {d} /\ handle[v].open /\ Unused(v)
        BY DEF Victims
      <4>3. /\ m \in [Tenants -> Handles] /\ m[v] = Fresh
            /\ \A e \in Tenants \ {v} : m[e] = met[e]
        BY <1>1, <4>1, <4>2 DEF Forgotten
      <4>4. Reopened(d, m) /\ m[d] = met[d]
        BY <1>1, <4>2, <4>3 DEF Reopened
      <4>5. {e \in Tenants : m[e].open} = {e \in Tenants : handle[e].open} \ {v} /\ v \in {e \in Tenants : handle[e].open}
        <5>1. \A e \in Tenants : m[e].open <=> handle[e].open /\ e # v
          <6>1. ~Fresh.open
            BY DEF Fresh
          <6>2. ASSUME NEW e \in Tenants \ {v} PROVE m[e].open = handle[e].open
            BY <1>1, <4>3, <6>2
          <6> QED  BY <4>3, <6>1, <6>2
        <5> QED  BY <4>2, <5>1
      <4>6. /\ IsFiniteSet({e \in Tenants : handle[e].open})
            /\ Cardinality({e \in Tenants : handle[e].open}) \in Nat
        BY <1>1, OpenOnesCounted
      <4>7. Cardinality({e \in Tenants : m[e].open}) < MaxHandles
        <5> DEFINE was == {e \in Tenants : handle[e].open}
                   now == {e \in Tenants : m[e].open}
        <5>1. IsFiniteSet(was) /\ Cardinality(was) \in Nat /\ v \in was /\ now = was \ {v} /\ Cardinality(was) <= MaxHandles
          BY <4>5, <4>6 DEF TenantInductive, Resident
        <5> HIDE DEF was, now
        <5>2. Cardinality(now) = Cardinality(was) - 1
          BY <5>1, FS_RemoveElement
        <5>3. Cardinality(now) < MaxHandles
          BY <5>1, <5>2, TenantAssumption
        <5> QED  BY <5>3 DEF now
      <4>8. {e \in Tenants \ {d} : m[e].open} = {e \in Tenants : m[e].open}
        BY <1>1, <1>4, <4>4
      <4>9. Resident(m, recent)
        <5>1. {e \in Tenants : m[e].open} \subseteq ToSet(recent)
          BY <4>5 DEF TenantInductive, Resident
        <5>2. Cardinality({e \in Tenants : m[e].open}) \in Nat
          BY <4>3, OpenOnesCounted
        <5> QED  BY <4>3, <4>7, <5>1, <5>2, TenantAssumption DEF TenantInductive, Resident
      <4> QED  BY <4>4, <4>7, <4>8, <4>9
    <3> QED  BY <3>1, <3>2
  <2>2. ASSUME NEW m \in bases
        PROVE  Resident(opened(m), Touched(d, recent)) /\ Reopened(d, opened(m)) /\ opened(m)[d].open
    <3>1. /\ m \in [Tenants -> Handles] /\ recent \in Seq(Tenants) /\ IsInjective(recent)
          /\ {e \in Tenants : m[e].open} \subseteq ToSet(recent)
      BY <2>1 DEF Resident
    <3>2. /\ opened(m) \in [Tenants -> Handles] /\ opened(m)[d].open
          /\ \A e \in Tenants \ {d} : opened(m)[e] = m[e]
          /\ opened(m)[d] = [met[d] EXCEPT !.open = TRUE]
      BY <2>1, <3>1 DEF Handles
    <3>3. met[d] = [handle[d] EXCEPT !.known = TRUE]
      BY <1>1
    <3>4. Reopened(d, opened(m))
      <4>1. [met[d] EXCEPT !.open = TRUE] = [handle[d] EXCEPT !.known = TRUE, !.open = TRUE]
        BY <3>3
      <4> HIDE DEF opened, met
      <4> QED  BY <2>1, <3>2, <4>1 DEF Reopened
    <3> HIDE DEF bases, met, opened
    <3>5. {e \in Tenants : opened(m)[e].open} \subseteq ToSet(recent) \cup {d}
      BY <3>1, <3>2
    <3>6. Cardinality({e \in Tenants : opened(m)[e].open}) <= MaxHandles
      <4> DEFINE all == {e \in Tenants : opened(m)[e].open}
                 others == {e \in Tenants \ {d} : opened(m)[e].open}
      <4>1. others = {e \in Tenants \ {d} : m[e].open}
        BY <3>2
      <4>2. Cardinality(all) = Cardinality(others) + 1 /\ Cardinality(others) \in Nat
        BY <3>2, OpenOnesCounted
      <4>3. Cardinality(others) < MaxHandles
        BY <2>1, <4>1
      <4> HIDE DEF all, others
      <4>4. Cardinality(all) <= MaxHandles
        BY <4>2, <4>3, TenantAssumption
      <4> QED  BY <4>4 DEF all
    <3> QED  BY <3>1, <3>2, <3>4, <3>5, <3>6, TouchedKeeps DEF Resident
  <2>3. /\ o \in {Outcome(TRUE, [m EXCEPT ![d].open = TRUE], Touched(d, recent), 0) : m \in bases}
           \/ o \in {Outcome(FALSE, m, recent, 1) : m \in bases}
           \/ \E c \in {0, 1} : o = Outcome(FALSE, met, recent, c)
    BY <1>4 DEF Openings
  <2>4. ASSUME NEW m \in bases, o = Outcome(TRUE, opened(m), Touched(d, recent), 0)
        PROVE  Resident(o.map, o.order) /\ Reopened(d, o.map) /\ (o.ok => o.map[d].open)
    BY <2>2, <2>4 DEF Outcome
  <2>5. ASSUME NEW m \in bases, o = Outcome(FALSE, m, recent, 1)
        PROVE  Resident(o.map, o.order) /\ Reopened(d, o.map) /\ (o.ok => o.map[d].open)
    BY <2>1, <2>5 DEF Outcome
  <2>6. ASSUME NEW c \in {0, 1}, o = Outcome(FALSE, met, recent, c)
        PROVE  Resident(o.map, o.order) /\ Reopened(d, o.map) /\ (o.ok => o.map[d].open)
    <3>1. Reopened(d, met)
      BY <1>1 DEF Reopened
    <3> QED  BY <1>2, <2>6, <3>1 DEF Outcome
  <2> QED  BY <2>3, <2>4, <2>5, <2>6
<1> QED  BY <1>3, <1>4

\* Handles are as they were when one of them was used.
LEMMA ResidentTouched ==
    ASSUME NEW map, NEW order, Resident(map, order), NEW d \in Tenants
    PROVE  Resident(map, Touched(d, order))
BY TouchedKeeps DEF Resident

\* What an opening reports.
LEMMA OpeningsCost ==
    ASSUME NEW d \in Tenants, NEW o \in Openings(d)
    PROVE  o.cost \in {0, 1} /\ o.ok \in BOOLEAN
<1>1. \E m, order : \E ok \in BOOLEAN, c \in {0, 1} : o = Outcome(ok, m, order, c)
  BY DEF Openings
<1> QED  BY <1>1 DEF Outcome

\* The callbacks of a handle can be counted.
LEMMA CallbacksCounted ==
    ASSUME NEW d
    PROVE  IsFiniteSet(Callbacks(d)) /\ Cardinality(Callbacks(d)) \in Nat
<1>1. Callbacks(d) \subseteq Callers
  BY DEF Callbacks
<1> QED  BY <1>1, TenantAssumption, FS_Subset, FS_CardinalityType

\* A handle without a pin has no callback and no migration.
LEMMA UnusedIsIdle ==
    ASSUME TenantInductive, NEW d \in Tenants, handle[d].pins = 0
    PROVE  Callbacks(d) = {} /\ handle[d].run = "none"
<1>1. Cardinality(Callbacks(d)) = 0 /\ handle[d].run = "none"
  BY CallbacksCounted DEF TenantInductive, HandleHolds
<1> QED  BY <1>1, CallbacksCounted, FS_EmptySet

\* A handle that nobody uses may be forgotten by a call for another one.
LEMMA OthersKept ==
    ASSUME TenantInductive, NEW d \in Tenants,
           \A e \in Tenants \ {d} : handle'[e] = handle[e] \/ (handle'[e] = Fresh /\ Unused(e)),
           \A e \in Tenants \ {d} : Callbacks(e)' = Callbacks(e)
    PROVE  /\ \A e \in Tenants \ {d} : HandleHolds(e)'
           /\ \A k \in Callers : act'[k] = act[k] /\ act[k].on # d => CallHolds(k)'
<1>1. ASSUME NEW e \in Tenants \ {d} PROVE HandleHolds(e)'
  <2>1. CASE handle'[e] = handle[e]
    BY <2>1 DEF TenantInductive, HandleHolds
  <2>2. CASE handle'[e] = Fresh /\ Unused(e)
    <3>1. Callbacks(e)' = {} /\ Cardinality({}) = 0
      BY <2>2, UnusedIsIdle, FS_EmptySet DEF Unused
    <3> QED  BY <2>2, <3>1 DEF HandleHolds, Fresh
  <2> QED  BY <2>1, <2>2
<1>2. ASSUME NEW k \in Callers, act'[k] = act[k], act[k].on # d PROVE CallHolds(k)'
  <2>1. CASE act[k].on \notin Tenants
    BY <1>2, <2>1 DEF TenantInductive, CallHolds, ActsTyped
  <2>2. CASE act[k].on \in Tenants /\ handle'[act[k].on] = handle[act[k].on]
    BY <1>2, <2>2 DEF TenantInductive, CallHolds
  <2>3. CASE act[k].on \in Tenants /\ Unused(act[k].on)
    <3>1. Callbacks(act[k].on) = {} /\ handle[act[k].on].run = "none"
      BY <2>3, UnusedIsIdle DEF Unused
    <3>2. act[k].does # "operates"
      BY <3>1 DEF Callbacks
    <3> QED  BY <1>2, <2>3, <3>1, <3>2 DEF TenantInductive, CallHolds
  <2> QED  BY <1>2, <2>1, <2>2, <2>3
<1> QED  BY <1>1, <1>2

\* A callback begins ...
LEMMA CallbackBegins ==
    ASSUME ActsTyped, NEW k \in Callers, act[k] = Nothing, NEW call,
           act' = [act EXCEPT ![k] = call], call.does \in {"pins", "operates"}
    PROVE  /\ Cardinality(Callbacks(call.on)') = Cardinality(Callbacks(call.on)) + 1
           /\ \A e : e # call.on => Callbacks(e)' = Callbacks(e)
<1>1. act[k].does = "nothing" /\ act'[k] = call /\ \A c \in Callers \ {k} : act'[c] = act[c]
  BY DEF ActsTyped, Nothing
<1>2. Callbacks(call.on)' = Callbacks(call.on) \cup {k} /\ k \notin Callbacks(call.on)
  BY <1>1 DEF Callbacks
<1>3. \A e : e # call.on => Callbacks(e)' = Callbacks(e)
  BY <1>1 DEF Callbacks
<1> QED  BY <1>2, <1>3, CallbacksCounted, FS_AddElement

\* ... and ends.
LEMMA CallbackEnds ==
    ASSUME ActsTyped, NEW k \in Callers, NEW d, act[k].on = d, act[k].does \in {"pins", "operates"},
           act' = [act EXCEPT ![k] = Nothing]
    PROVE  /\ Cardinality(Callbacks(d)') = Cardinality(Callbacks(d)) - 1
           /\ Callbacks(d)' = Callbacks(d) \ {k}
           /\ \A e : e # d => Callbacks(e)' = Callbacks(e)
<1>1. Nothing.does = "nothing" /\ act'[k] = Nothing /\ \A c \in Callers \ {k} : act'[c] = act[c]
  BY DEF ActsTyped, Nothing
<1>2. Callbacks(d)' = Callbacks(d) \ {k} /\ k \in Callbacks(d)
  BY <1>1 DEF Callbacks
<1>3. \A e : e # d => Callbacks(e)' = Callbacks(e)
  BY <1>1 DEF Callbacks
<1>4. Cardinality(Callbacks(d) \ {k}) = Cardinality(Callbacks(d)) - 1
  BY <1>2, CallbacksCounted, FS_RemoveElement
<1> QED  BY <1>2, <1>3, <1>4

\* Changes of handles that nobody pins, without a callback.
LEMMA QuietSteps ==
    ASSUME TenantInductive, NEW d \in Tenants, Resident(handle', recent'),
           \A e \in Tenants \ {d} : handle'[e] = handle[e] \/ (handle'[e] = Fresh /\ Unused(e)),
           \/ /\ handle'[d].pins = handle[d].pins /\ handle'[d].run = handle[d].run
              /\ handle'[d].ready = handle[d].ready /\ handle'[d].generation = handle[d].generation
              /\ handle[d].open => handle'[d].open
           \/ Unused(d) /\ handle'[d].pins = 0 /\ handle'[d].run = "none",
           act' = act, busyOutside' \subseteq Tenants, handleFaults' \in 0..HandleFaults
    PROVE  TenantInductive'
<1>1. \A e : Callbacks(e)' = Callbacks(e)
  BY DEF Callbacks
<1>2. /\ \A e \in Tenants \ {d} : HandleHolds(e)'
      /\ \A k \in Callers : act[k].on # d => CallHolds(k)'
  BY <1>1, OthersKept
<1>3. HandleHolds(d)' /\ \A k \in Callers : act[k].on = d => CallHolds(k)'
  <2>1. CASE Unused(d) /\ handle'[d].pins = 0 /\ handle'[d].run = "none"
    <3>1. Callbacks(d) = {} /\ handle[d].run = "none" /\ Cardinality({}) = 0
      BY <2>1, UnusedIsIdle, FS_EmptySet DEF Unused
    <3>2. HandleHolds(d)'
      <4>1. Callbacks(d)' = {} /\ Cardinality(Callbacks(d)') = 0
        BY <1>1, <3>1
      <4> QED  BY <2>1, <4>1 DEF HandleHolds
    <3>3. ASSUME NEW k \in Callers, act[k].on = d PROVE CallHolds(k)'
      <4>1. act[k].does # "operates"
        BY <3>1, <3>3 DEF Callbacks
      <4> QED  BY <3>1, <3>3, <4>1 DEF TenantInductive, CallHolds
    <3> QED  BY <3>2, <3>3
  <2>2. CASE /\ handle'[d].pins = handle[d].pins /\ handle'[d].run = handle[d].run
             /\ handle'[d].ready = handle[d].ready /\ handle'[d].generation = handle[d].generation
             /\ handle[d].open => handle'[d].open
    <3>1. HandleHolds(d)'
      BY <1>1, <2>2 DEF TenantInductive, HandleHolds
    <3>2. ASSUME NEW k \in Callers, act[k].on = d PROVE CallHolds(k)'
      BY <2>2, <3>2 DEF TenantInductive, CallHolds
    <3> QED  BY <3>1, <3>2
  <2> QED  BY <2>1, <2>2
<1> QED  BY <1>2, <1>3 DEF TenantInductive, HandlesTyped, ActsTyped, FaultsTyped, Resident

\* One handle of the map is replaced.
LEMMA HandleChanged ==
    ASSUME NEW map \in [Tenants -> Handles], NEW d \in Tenants, NEW h \in Handles, NEW now,
           now = [map EXCEPT ![d] = h]
    PROVE  now \in [Tenants -> Handles] /\ now[d] = h /\ \A e \in Tenants \ {d} : now[e] = map[e]
OBVIOUS

\* A section that only opens a handle, or fails to.
LEMMA OpeningPreserves ==
    ASSUME TenantInductive, NEW d \in Tenants, NEW o \in Openings(d),
           handleFaults + o.cost <= HandleFaults, handleFaults' = handleFaults + o.cost,
           handle' = o.map, recent' = o.order \/ recent' = Touched(d, o.order),
           UNCHANGED <<act, busyOutside>>
    PROVE  TenantInductive'
<1>1. Resident(o.map, o.order) /\ Reopened(d, o.map)
  BY OpeningsAreSafe
<1>2. Resident(handle', recent')
  BY <1>1, ResidentTouched
<1>3. handleFaults' \in 0..HandleFaults
  BY OpeningsCost, TenantAssumption DEF TenantInductive, FaultsTyped
<1>4. /\ handle'[d].pins = handle[d].pins /\ handle'[d].run = handle[d].run
      /\ handle'[d].ready = handle[d].ready /\ handle'[d].generation = handle[d].generation
      /\ handle[d].open => handle'[d].open
  BY <1>1 DEF Reopened, TenantInductive, HandlesTyped, Handles
<1>5. \A e \in Tenants \ {d} : handle'[e] = handle[e] \/ (handle'[e] = Fresh /\ Unused(e))
  BY <1>1 DEF Reopened
<1> QED  BY <1>2, <1>3, <1>4, <1>5, QuietSteps DEF TenantInductive, HandlesTyped

\* Opening a handle changes nothing else of it.
LEMMA ReopenedIsSame ==
    ASSUME TenantInductive, NEW d \in Tenants, NEW map \in [Tenants -> Handles], Reopened(d, map)
    PROVE  /\ map[d].pins = handle[d].pins /\ map[d].run = handle[d].run
           /\ map[d].ready = handle[d].ready /\ map[d].generation = handle[d].generation
           /\ map[d].pins \in Int /\ map[d].open \in BOOLEAN
<1>1. handle[d] \in Handles /\ map[d] \in Handles
  BY DEF TenantInductive, HandlesTyped
<1> QED  BY <1>1 DEF Reopened, Handles

\* A section that opens a handle and begins a callback that pins it.
LEMMA PinningPreserves ==
    ASSUME TenantInductive, NEW d \in Tenants, NEW k \in Callers, act[k] = Nothing,
           NEW o \in Openings(d), o.ok,
           handleFaults + o.cost <= HandleFaults, handleFaults' = handleFaults + o.cost,
           handle' = [o.map EXCEPT ![d].pins = @ + 1], recent' = Touched(d, o.order),
           NEW call \in Acts, call.does \in {"pins", "operates"}, call.on = d,
           call.ready => /\ call.does = "operates"
                         /\ handle[d].ready /\ handle[d].generation = call.generation,
           act' = [act EXCEPT ![k] = call], busyOutside' = busyOutside
    PROVE  TenantInductive'
<1>1. Resident(o.map, o.order) /\ Reopened(d, o.map) /\ o.map[d].open
  BY OpeningsAreSafe
<1>2. /\ handle'[d] = [o.map[d] EXCEPT !.pins = @ + 1] /\ handle' \in [Tenants -> Handles]
      /\ \A e \in Tenants \ {d} : handle'[e] = o.map[e]
      /\ \A e \in Tenants : handle'[e].open = o.map[e].open
  <2>1. o.map \in [Tenants -> Handles] /\ o.map[d] \in Handles
    BY <1>1 DEF Resident
  <2>2. [o.map[d] EXCEPT !.pins = @ + 1] \in Handles /\ [o.map[d] EXCEPT !.pins = @ + 1].open = o.map[d].open
    BY <2>1 DEF Handles
  <2>3. handle' = [o.map EXCEPT ![d] = [o.map[d] EXCEPT !.pins = @ + 1]]
    OBVIOUS
  <2> QED  BY <2>1, <2>2, <2>3
<1>3. Resident(handle', recent')
  <2>1. {e \in Tenants : handle'[e].open} = {e \in Tenants : o.map[e].open}
    BY <1>2
  <2>2. Resident(o.map, Touched(d, o.order))
    BY <1>1, ResidentTouched
  <2> QED  BY <1>2, <2>1, <2>2 DEF Resident
<1>4. /\ handle'[d].open /\ handle'[d].pins = handle[d].pins + 1 /\ handle'[d].run = handle[d].run
      /\ handle'[d].ready = handle[d].ready /\ handle'[d].generation = handle[d].generation
  <2>1. o.map[d] \in Handles /\ o.map \in [Tenants -> Handles]
    BY <1>1 DEF Resident
  <2>2. /\ o.map[d].pins = handle[d].pins /\ o.map[d].run = handle[d].run /\ o.map[d].pins \in Int
        /\ o.map[d].ready = handle[d].ready /\ o.map[d].generation = handle[d].generation
    BY <1>1, <2>1, ReopenedIsSame
  <2> QED  BY <1>1, <1>2, <2>1, <2>2 DEF Handles
<1>5. \A e \in Tenants \ {d} : handle'[e] = handle[e] \/ (handle'[e] = Fresh /\ Unused(e))
  BY <1>1, <1>2 DEF Reopened
<1>6. /\ Cardinality(Callbacks(d)') = Cardinality(Callbacks(d)) + 1
      /\ \A e \in Tenants \ {d} : Callbacks(e)' = Callbacks(e)
  BY CallbackBegins DEF TenantInductive
<1>7. act' \in [Callers -> Acts] /\ act'[k] = call /\ \A c \in Callers \ {k} : act'[c] = act[c]
  BY DEF TenantInductive, ActsTyped
<1>8. HandleHolds(d)'
  <2>1. Cardinality(Callbacks(d)) \in Nat
    BY CallbacksCounted
  <2>2. handle[d].run # "none" => ~handle[d].ready
    BY DEF TenantInductive, HandleHolds
  <2>3. handle[d].pins = Cardinality(Callbacks(d)) + (IF handle[d].run = "none" THEN 0 ELSE 1)
    BY DEF TenantInductive, HandleHolds
  <2>4. handle'[d].pins = Cardinality(Callbacks(d)') + (IF handle'[d].run = "none" THEN 0 ELSE 1)
    BY <1>4, <1>6, <2>1, <2>3
  <2> QED  BY <1>4, <2>2, <2>4 DEF HandleHolds
<1>9. \A e \in Tenants : HandleHolds(e)'
  BY <1>5, <1>6, <1>8, OthersKept
<1>10. ASSUME NEW c \in Callers PROVE CallHolds(c)'
  <2>1. CASE c = k
    BY <1>4, <1>7, <2>1 DEF CallHolds
  <2>2. CASE c # k /\ act[c].on = d
    BY <1>4, <1>7, <2>2 DEF TenantInductive, CallHolds
  <2>3. CASE c # k /\ act[c].on # d
    BY <1>5, <1>6, <1>7, <2>3, OthersKept
  <2> QED  BY <2>1, <2>2, <2>3
<1>11. handleFaults' \in 0..HandleFaults
  BY OpeningsCost, TenantAssumption DEF TenantInductive, FaultsTyped
<1> QED  BY <1>2, <1>3, <1>7, <1>9, <1>10, <1>11 DEF TenantInductive, HandlesTyped, ActsTyped,
     FaultsTyped

\* The handle that a migration starts on.
StartsOn(now, map, d, g) ==
    now = [map EXCEPT ![d].ready = FALSE, ![d].generation = g, ![d].pins = @ + 1, ![d].run = "running"]

\* The handle of a migration is open, pinned once more, and not ready.
LEMMA MigratingHandle ==
    ASSUME NEW map \in [Tenants -> Handles], NEW d \in Tenants, NEW g \in Generations, NEW now,
           StartsOn(now, map, d, g)
    PROVE  /\ now \in [Tenants -> Handles] /\ \A e \in Tenants \ {d} : now[e] = map[e]
           /\ now[d].open = map[d].open /\ now[d].pins = map[d].pins + 1 /\ now[d].run = "running"
           /\ ~now[d].ready
<1> DEFINE h1 == [map[d] EXCEPT !.ready = FALSE]
           h2 == [h1 EXCEPT !.generation = g]
           h3 == [h2 EXCEPT !.pins = @ + 1]
           h4 == [h3 EXCEPT !.run = "running"]
<1>1. h1 \in Handles /\ h1.open = map[d].open /\ h1.pins = map[d].pins /\ h1.ready = FALSE
  BY DEF Handles
<1>2. h2 \in Handles /\ h2.open = h1.open /\ h2.pins = h1.pins /\ h2.ready = h1.ready
  <2> HIDE DEF h1
  <2> QED  BY <1>1 DEF Handles
<1>3. h3 \in Handles /\ h3.open = h2.open /\ h3.pins = h2.pins + 1 /\ h3.ready = h2.ready
  <2> HIDE DEF h2
  <2>1. h3 \in Handles
    BY <1>2 DEF Handles
  <2>2. h3.open = h2.open /\ h3.ready = h2.ready
    BY <1>2 DEF Handles
  <2>3. h3.pins = h2.pins + 1
    BY <1>2 DEF Handles
  <2> QED  BY <2>1, <2>2, <2>3
<1>4. h4 \in Handles /\ h4.open = h3.open /\ h4.pins = h3.pins /\ h4.ready = h3.ready /\ h4.run = "running"
  <2> HIDE DEF h3
  <2> QED  BY <1>3 DEF Handles, Runs
<1>5. now = [map EXCEPT ![d] = h4]
  BY DEF StartsOn
<1> HIDE DEF h1, h2, h3, h4
<1>6. now \in [Tenants -> Handles] /\ now[d] = h4 /\ \A e \in Tenants \ {d} : now[e] = map[e]
  BY <1>4, <1>5, HandleChanged
<1> QED  BY <1>1, <1>2, <1>3, <1>4, <1>6

\* A caller that waits for a migration.
LEMMA InitializesIsCall ==
    ASSUME NEW d \in Tenants
    PROVE  /\ Initializes(d) \in Acts /\ Initializes(d).does = "initializes" /\ Initializes(d).on = d
           /\ ~Initializes(d).ready
<1>1. Nothing \in Acts
  BY DEF Nothing, Acts
<1>2. [Nothing EXCEPT !.does = "initializes"] \in Acts
  BY <1>1 DEF Acts
<1>3. Initializes(d) \in Acts
  BY <1>2 DEF Initializes, Acts
<1> QED  BY <1>3 DEF Initializes, Nothing

\* A section that opens a handle and begins to migrate it.
LEMMA MigratingPreserves ==
    ASSUME TenantInductive, NEW d \in Tenants, NEW k \in Callers, NEW g \in Generations,
           act[k] = Nothing, handle[d].run = "none", ~handle[d].ready \/ Unused(d),
           NEW o \in Openings(d), o.ok,
           handleFaults + o.cost <= HandleFaults, handleFaults' = handleFaults + o.cost,
           StartsOn(handle', o.map, d, g),
           recent' = o.order, act' = [act EXCEPT ![k] = Initializes(d)], busyOutside' = busyOutside
    PROVE  TenantInductive'
<1>1. Resident(o.map, o.order) /\ Reopened(d, o.map) /\ o.map[d].open
  BY OpeningsAreSafe
<1>2. /\ handle' \in [Tenants -> Handles] /\ \A e \in Tenants \ {d} : handle'[e] = o.map[e]
      /\ handle'[d].open = o.map[d].open /\ handle'[d].pins = o.map[d].pins + 1
      /\ handle'[d].run = "running" /\ ~handle'[d].ready
  <2>1. o.map \in [Tenants -> Handles]
    BY <1>1 DEF Resident
  <2>2. PICK map \in [Tenants -> Handles] : map = o.map
    BY <2>1
  <2>3. StartsOn(handle', map, d, g)
    BY <2>2
  <2> QED  BY <2>2, <2>3, MigratingHandle
<1>3. /\ handle'[d].open /\ handle'[d].pins = handle[d].pins + 1 /\ handle'[d].run = "running"
      /\ ~handle'[d].ready
  <2>1. o.map[d] \in Handles /\ o.map \in [Tenants -> Handles]
    BY <1>1 DEF Resident
  <2>2. o.map[d].pins = handle[d].pins /\ o.map[d].pins \in Int
    BY <1>1, <2>1, ReopenedIsSame
  <2> QED  BY <1>1, <1>2, <2>1, <2>2 DEF Handles
<1>4. Resident(handle', recent')
  <2>1. \A e \in Tenants : handle'[e].open = o.map[e].open
    <3>1. handle'[d].open = o.map[d].open
      BY <1>2
    <3> QED  BY <1>2, <3>1
  <2>2. {e \in Tenants : handle'[e].open} = {e \in Tenants : o.map[e].open}
    BY <2>1
  <2> QED  BY <1>1, <1>2, <2>2 DEF Resident
<1>5. \A e \in Tenants \ {d} : handle'[e] = handle[e] \/ (handle'[e] = Fresh /\ Unused(e))
  BY <1>1, <1>2 DEF Reopened
<1>6. act[k].does = "nothing" /\ Initializes(d).does = "initializes" /\ Initializes(d).on = d /\ Initializes(d) \in Acts
      /\ ~Initializes(d).ready
  <2>1. act[k].does = "nothing"
    BY DEF Nothing
  <2> QED  BY <2>1, InitializesIsCall
<1>7. act' \in [Callers -> Acts] /\ act'[k] = Initializes(d) /\ \A c \in Callers \ {k} : act'[c] = act[c]
  BY <1>6 DEF TenantInductive, ActsTyped
<1>8. \A e : Callbacks(e)' = Callbacks(e)
  BY <1>6, <1>7 DEF Callbacks
<1>9. HandleHolds(d)'
  <2>1. handle[d].pins = Cardinality(Callbacks(d)) + 0 /\ Cardinality(Callbacks(d)) \in Nat
    BY CallbacksCounted DEF TenantInductive, HandleHolds
  <2>2. Cardinality(Callbacks(d)') = Cardinality(Callbacks(d))
    BY <1>8
  <2> QED  BY <1>3, <2>1, <2>2 DEF HandleHolds
<1>10. \A e \in Tenants : HandleHolds(e)'
  BY <1>5, <1>8, <1>9, OthersKept
<1>11. ASSUME NEW c \in Callers PROVE CallHolds(c)'
  <2>1. CASE c = k
    BY <1>3, <1>6, <1>7, <2>1 DEF CallHolds
  <2>2. CASE c # k /\ act[c].on = d
    <3>1. ~act[c].ready
      <4>1. CASE ~handle[d].ready
        BY <2>2, <4>1 DEF TenantInductive, CallHolds
      <4>2. CASE Unused(d)
        <5>1. Callbacks(d) = {}
          BY <4>2, UnusedIsIdle DEF Unused
        <5> QED  BY <2>2, <5>1 DEF Callbacks, TenantInductive, CallHolds
      <4> QED  BY <4>1, <4>2
    <3> QED  BY <1>3, <1>7, <2>2, <3>1 DEF TenantInductive, CallHolds
  <2>3. CASE c # k /\ act[c].on # d
    BY <1>5, <1>7, <1>8, <2>3, OthersKept
  <2> QED  BY <2>1, <2>2, <2>3
<1>12. handleFaults' \in 0..HandleFaults
  BY OpeningsCost, TenantAssumption DEF TenantInductive, FaultsTyped
<1> QED  BY <1>2, <1>4, <1>7, <1>10, <1>11, <1>12 DEF TenantInductive, HandlesTyped, ActsTyped,
     FaultsTyped

\* The callback of a migration ends; the pin stays until somebody settles it.
LEMMA MigrationEndsPreserves ==
    ASSUME TenantInductive, NEW d \in Tenants, MigrationEnds(d)
    PROVE  TenantInductive'
<1>1. /\ handle'[d].run \in {"done", "failed"} /\ handle'[d].pins = handle[d].pins
      /\ handle'[d].ready = handle[d].ready /\ handle'[d].generation = handle[d].generation
      /\ handle'[d].open = handle[d].open /\ handle[d].run = "running"
      /\ \A e \in Tenants \ {d} : handle'[e] = handle[e]
  BY DEF TenantInductive, HandlesTyped, Handles, MigrationEnds
<1>2. handle' \in [Tenants -> Handles]
  BY DEF TenantInductive, HandlesTyped, Handles, Runs, MigrationEnds
<1>3. Resident(handle', recent')
  <2>1. {e \in Tenants : handle'[e].open} = {e \in Tenants : handle[e].open}
    BY <1>1
  <2>2. Resident(handle, Touched(d, recent))
    BY ResidentTouched DEF TenantInductive
  <2> QED  BY <1>2, <2>1, <2>2 DEF Resident, MigrationEnds
<1>4. \A e : Callbacks(e)' = Callbacks(e)
  BY DEF Callbacks, MigrationEnds
<1>5. HandleHolds(d)'
  BY <1>1, <1>4 DEF TenantInductive, HandleHolds
<1>6. \A e \in Tenants : HandleHolds(e)'
  BY <1>1, <1>4, <1>5, OthersKept
<1>7. \A k \in Callers : CallHolds(k)'
  <2> SUFFICES ASSUME NEW k \in Callers PROVE CallHolds(k)'
    OBVIOUS
  <2>1. act' = act
    BY DEF MigrationEnds
  <2>2. CASE act[k].on = d
    BY <1>1, <2>1, <2>2 DEF TenantInductive, CallHolds
  <2>3. CASE act[k].on # d
    BY <1>1, <1>4, <2>1, <2>3, OthersKept
  <2> QED  BY <2>2, <2>3
<1>8. handleFaults' \in 0..HandleFaults
  BY TenantAssumption DEF TenantInductive, FaultsTyped, MigrationEnds, HandleFault
<1> QED  BY <1>2, <1>3, <1>6, <1>7, <1>8 DEF TenantInductive, HandlesTyped, ActsTyped, FaultsTyped,
     MigrationEnds

\* The callback of a pin or of an operation ends.
LEMMA UnpinPreserves ==
    ASSUME TenantInductive, NEW k \in Callers, Unpin(k) \/ OperationEnds(k)
    PROVE  TenantInductive'
<1>0. PICK d : d = act[k].on
  OBVIOUS
<1>1. /\ d \in Tenants /\ act[k].does \in {"pins", "operates"}
      /\ act' = [act EXCEPT ![k] = Nothing] /\ UNCHANGED <<busyOutside, handleFaults>>
      /\ recent' = recent \/ recent' = Touched(d, recent)
  BY <1>0 DEF TenantInductive, CallHolds, Unpin, OperationEnds, Calls
<1>2. /\ handle'[d].pins = handle[d].pins - 1 /\ handle'[d].run = handle[d].run
      /\ handle'[d].ready = handle[d].ready /\ handle'[d].generation = handle[d].generation
      /\ handle'[d].open = handle[d].open
      /\ \A e \in Tenants \ {d} : handle'[e] = handle[e]
      /\ handle' \in [Tenants -> Handles]
  <2>1. handle \in [Tenants -> Handles]
    BY DEF TenantInductive, HandlesTyped
  <2>2. CASE Unpin(k)
    BY <1>0, <1>1, <2>1, <2>2 DEF Handles, Unpin
  <2>3. CASE OperationEnds(k)
    <3>1. PICK dirty \in BOOLEAN :
               handle' = [handle EXCEPT ![act[k].on].pins = @ - 1, ![act[k].on].dirty = @ \/ dirty]
      BY <2>3 DEF OperationEnds
    <3> DEFINE h == [[handle[d] EXCEPT !.pins = @ - 1] EXCEPT !.dirty = @ \/ dirty]
    <3>2. handle' = [handle EXCEPT ![d] = h]
      BY <1>0, <1>1, <2>1, <3>1
    <3>3. [handle[d] EXCEPT !.pins = @ - 1] \in Handles
      BY <1>1, <2>1 DEF Handles
    <3>4. h \in Handles
      <4> DEFINE h1 == [handle[d] EXCEPT !.pins = @ - 1]
      <4>1. h1 \in Handles
        BY <3>3
      <4> HIDE DEF h1
      <4>2. [h1 EXCEPT !.dirty = @ \/ dirty] \in Handles
        BY <4>1 DEF Handles
      <4> QED  BY <4>2 DEF h1
    <3>5. /\ h.pins = handle[d].pins - 1 /\ h.run = handle[d].run /\ h.ready = handle[d].ready
          /\ h.generation = handle[d].generation /\ h.open = handle[d].open
      BY <1>1, <2>1 DEF Handles
    <3> HIDE DEF h
    <3>6. handle' \in [Tenants -> Handles] /\ handle'[d] = h /\ \A e \in Tenants \ {d} : handle'[e] = handle[e]
      BY <1>1, <2>1, <3>2, <3>4, HandleChanged
    <3> QED  BY <3>5, <3>6
  <2> QED  BY <2>2, <2>3
<1>3. Resident(handle', recent')
  <2>1. {e \in Tenants : handle'[e].open} = {e \in Tenants : handle[e].open}
    BY <1>2
  <2>2. Resident(handle, recent')
    BY <1>1, ResidentTouched DEF TenantInductive
  <2> QED  BY <1>2, <2>1, <2>2 DEF Resident
<1>4. /\ Cardinality(Callbacks(d)') = Cardinality(Callbacks(d)) - 1
      /\ Callbacks(d)' = Callbacks(d) \ {k}
      /\ \A e \in Tenants \ {d} : Callbacks(e)' = Callbacks(e)
  BY <1>0, <1>1, CallbackEnds DEF TenantInductive
<1>5. act' \in [Callers -> Acts] /\ act'[k] = Nothing /\ \A c \in Callers \ {k} : act'[c] = act[c]
  BY <1>1 DEF TenantInductive, ActsTyped, Acts, Nothing
<1>6. HandleHolds(d)'
  <2>1. Cardinality(Callbacks(d)) \in Nat
    BY CallbacksCounted
  <2> QED  BY <1>1, <1>2, <1>4, <2>1 DEF TenantInductive, HandleHolds
<1>7. \A e \in Tenants : HandleHolds(e)'
  BY <1>1, <1>2, <1>4, <1>6, OthersKept
<1>8. \A c \in Callers : CallHolds(c)'
  <2> SUFFICES ASSUME NEW c \in Callers PROVE CallHolds(c)'
    OBVIOUS
  <2>1. CASE c = k
    BY <1>5, <2>1 DEF CallHolds, Nothing
  <2>2. CASE c # k /\ act[c].on = d
    BY <1>1, <1>2, <1>5, <2>2 DEF TenantInductive, CallHolds
  <2>3. CASE c # k /\ act[c].on # d
    BY <1>1, <1>2, <1>4, <1>5, <2>3, OthersKept
  <2> QED  BY <2>1, <2>2, <2>3
<1> QED  BY <1>1, <1>2, <1>3, <1>5, <1>7, <1>8 DEF TenantInductive, HandlesTyped, ActsTyped,
     FaultsTyped

\* A caller that awaited a migration goes on; only the first takes the pin away.
LEMMA SettlePreserves ==
    ASSUME TenantInductive, NEW k \in Callers, Settle(k)
    PROVE  TenantInductive'
<1>0. PICK d : d = act[k].on
  OBVIOUS
<1>1. /\ d \in Tenants /\ act[k].does = "initializes"
      /\ UNCHANGED <<recent, busyOutside, handleFaults>>
  BY <1>0 DEF TenantInductive, CallHolds, Settle
<1>2. CASE act[k].stale
  <2>1. handle' = handle /\ act' = [act EXCEPT ![k] = Nothing]
    BY <1>2 DEF Settle, Calls
  <2>2. act' \in [Callers -> Acts] /\ act'[k] = Nothing /\ \A c \in Callers \ {k} : act'[c] = act[c]
    BY <2>1 DEF TenantInductive, ActsTyped, Acts, Nothing
  <2>3. \A e : Callbacks(e)' = Callbacks(e)
    BY <1>1, <2>2 DEF Callbacks, Nothing
  <2>4. \A e \in Tenants : HandleHolds(e)'
    BY <2>1, <2>3 DEF TenantInductive, HandleHolds
  <2>5. \A c \in Callers : CallHolds(c)'
    BY <2>1, <2>2 DEF TenantInductive, CallHolds, Nothing
  <2> QED  BY <1>1, <2>1, <2>2, <2>4, <2>5 DEF TenantInductive, HandlesTyped, ActsTyped,
       FaultsTyped, Resident
<1>3. CASE ~act[k].stale
  <2>1. /\ handle'[d].pins = handle[d].pins - 1 /\ handle'[d].run = "none"
        /\ handle'[d].generation = handle[d].generation
        /\ handle'[d].open = handle[d].open
        /\ \A e \in Tenants \ {d} : handle'[e] = handle[e]
        /\ handle' \in [Tenants -> Handles]
    BY <1>0, <1>1, <1>3 DEF TenantInductive, HandlesTyped, Handles, Runs, Settle
  <2>2. handle[d].run # "none" /\ ~handle[d].ready
    BY <1>0, <1>1, <1>3 DEF TenantInductive, CallHolds, HandleHolds
  <2>3. act' = [c \in Callers |->
                   IF c = k THEN Nothing
                   ELSE [act[c] EXCEPT !.stale = @ \/ (act[c].does = "initializes" /\ act[c].on = d)]]
    BY <1>0, <1>3 DEF Settle
  <2>4. /\ act'[k] = Nothing /\ Nothing \in Acts
        /\ \A c \in Callers \ {k} : /\ act'[c] \in Acts /\ act'[c].does = act[c].does /\ act'[c].on = act[c].on
                                    /\ act'[c].ready = act[c].ready /\ act'[c].generation = act[c].generation
                                    /\ act'[c].stale = (act[c].stale \/ (act[c].does = "initializes" /\ act[c].on = d))
    BY <2>3 DEF TenantInductive, ActsTyped, Acts, Nothing
  <2>5. \A e : Callbacks(e)' = Callbacks(e)
    BY <1>1, <2>4 DEF Callbacks, Nothing
  <2>6. Resident(handle', recent')
    <3>1. {e \in Tenants : handle'[e].open} = {e \in Tenants : handle[e].open}
      BY <2>1
    <3> QED  BY <1>1, <2>1, <3>1 DEF TenantInductive, Resident
  <2>7. HandleHolds(d)'
    <3>1. handle[d].pins = Cardinality(Callbacks(d)) + 1 /\ Cardinality(Callbacks(d)) \in Nat
      BY <1>1, <2>2, CallbacksCounted DEF TenantInductive, HandleHolds
    <3>2. Cardinality(Callbacks(d)') = Cardinality(Callbacks(d))
      BY <2>5
    <3> QED  BY <1>1, <2>1, <2>2, <3>1, <3>2 DEF TenantInductive, HandleHolds
  <2>8. \A e \in Tenants : HandleHolds(e)'
    BY <1>1, <2>1, <2>5, <2>7, OthersKept
  <2>9. \A c \in Callers : CallHolds(c)'
    <3> SUFFICES ASSUME NEW c \in Callers PROVE CallHolds(c)'
      OBVIOUS
    <3>0. CallHolds(c)
      BY DEF TenantInductive
    <3>1. CASE c = k
      BY <2>4, <3>1 DEF CallHolds, Nothing
    <3>2. CASE c # k /\ act[c].on = d
      <4>1. /\ act'[c].does = act[c].does /\ act'[c].on = d /\ act'[c].ready = act[c].ready
            /\ act[c].does = "initializes" => act'[c].stale
        BY <2>4, <3>2
      <4>2. ~act[c].ready
        BY <2>2, <3>0, <3>2 DEF CallHolds
      <4> QED  BY <1>1, <4>1, <4>2 DEF CallHolds
    <3>3. CASE c # k /\ act[c].on # d
      <4>1. /\ act'[c].does = act[c].does /\ act'[c].on = act[c].on /\ act'[c].ready = act[c].ready
            /\ act'[c].generation = act[c].generation /\ act'[c].stale = act[c].stale
        <5>1. act[c].stale \in BOOLEAN
          BY DEF TenantInductive, ActsTyped, Acts
        <5> QED  BY <2>4, <3>3, <5>1
      <4>2. act[c].on \in Tenants => handle'[act[c].on] = handle[act[c].on]
        BY <2>1, <3>3
      <4> QED  BY <3>0, <4>1, <4>2 DEF CallHolds
    <3> QED  BY <3>1, <3>2, <3>3
  <2>10. act' \in [Callers -> Acts]
    <3>1. \A c \in Callers : act'[c] \in Acts
      BY <2>4
    <3> QED  BY <2>3, <3>1
  <2> QED  BY <1>1, <2>1, <2>6, <2>8, <2>9, <2>10 DEF TenantInductive, HandlesTyped, ActsTyped,
       FaultsTyped
<1> QED  BY <1>2, <1>3

\* Closing one handle leaves the others within the cap.
LEMMA ClosedIsSafe ==
    ASSUME TenantInductive, NEW d \in Tenants, NEW h \in Handles, ~h.open,
           NEW now, now = [handle EXCEPT ![d] = h]
    PROVE  Resident(now, recent)
<1>1. handle \in [Tenants -> Handles] /\ Resident(handle, recent)
  BY DEF TenantInductive, HandlesTyped
<1>2. now \in [Tenants -> Handles] /\ now[d] = h /\ \A e \in Tenants \ {d} : now[e] = handle[e]
  BY <1>1
<1> DEFINE was == {e \in Tenants : handle[e].open}
           left == {e \in Tenants : now[e].open}
<1>3. left \subseteq was
  BY <1>2
<1>4. IsFiniteSet(was) /\ Cardinality(was) \in Nat /\ Cardinality(was) <= MaxHandles /\ was \subseteq ToSet(recent)
  BY <1>1, OpenOnesCounted DEF Resident
<1>5. Cardinality(left) \in Nat
  BY <1>2, OpenOnesCounted
<1> HIDE DEF was, left
<1>6. Cardinality(left) <= Cardinality(was)
  BY <1>3, <1>4, FS_Subset
<1>7. Cardinality(left) <= MaxHandles /\ left \subseteq ToSet(recent)
  BY <1>3, <1>4, <1>5, <1>6, TenantAssumption
<1> QED  BY <1>1, <1>2, <1>7 DEF Resident, left

\* A handle that nobody uses is closed.
LEMMA ForgettingPreserves ==
    ASSUME TenantInductive, NEW d \in Tenants, Unused(d), NEW h \in Handles,
           ~h.open, h.pins = 0, h.run = "none", handle' = [handle EXCEPT ![d] = h],
           recent' = recent, act' = act, busyOutside' = busyOutside, handleFaults' \in 0..HandleFaults
    PROVE  TenantInductive'
<1>1. Resident(handle', recent')
  BY ClosedIsSafe
<1>2. handle'[d] = h /\ \A e \in Tenants \ {d} : handle'[e] = handle[e]
  BY DEF TenantInductive, HandlesTyped
<1> QED  BY <1>1, <1>2, QuietSteps DEF TenantInductive, HandlesTyped

\* A handle the map does not know.
LEMMA FreshIsClosed == Fresh \in Handles /\ ~Fresh.open /\ Fresh.pins = 0 /\ Fresh.run = "none"
BY DEF Fresh, Handles, Runs

\* close.
LEMMA CloseHandlePreserves ==
    ASSUME TenantInductive, NEW d \in Tenants, NEW flush \in BOOLEAN, CloseHandle(d, flush)
    PROVE  TenantInductive'
BY FreshIsClosed, ForgettingPreserves DEF CloseHandle, Forgotten, TenantInductive, FaultsTyped

\* delete, also where the pool or the storage fails.
LEMMA DeleteHandlePreserves ==
    ASSUME TenantInductive, NEW d \in Tenants, DeleteHandle(d)
    PROVE  TenantInductive'
<1>1. handleFaults' \in 0..HandleFaults /\ Unused(d)
  BY TenantAssumption DEF TenantInductive, FaultsTyped, DeleteHandle, HandleFault
<1>2. CASE handle' = Forgotten(d, handle)
  BY <1>1, <1>2, FreshIsClosed, ForgettingPreserves DEF DeleteHandle, Forgotten
<1>3. CASE handle' = [handle EXCEPT ![d].known = TRUE, ![d].ready = FALSE, ![d].open = FALSE]
  <2>1. handle[d] \in Handles /\ handle[d].pins = 0 /\ handle[d].run = "none"
    BY <1>1, UnusedIsIdle DEF TenantInductive, HandlesTyped, Unused
  <2> DEFINE h1 == [handle[d] EXCEPT !.known = TRUE]
             h2 == [h1 EXCEPT !.ready = FALSE]
             h3 == [h2 EXCEPT !.open = FALSE]
  <2>2. h1 \in Handles /\ h1.pins = 0 /\ h1.run = "none"
    BY <2>1 DEF Handles
  <2>3. h2 \in Handles /\ h2.pins = 0 /\ h2.run = "none"
    <3> HIDE DEF h1
    <3> QED  BY <2>2 DEF Handles
  <2>4. h3 \in Handles /\ h3.pins = 0 /\ h3.run = "none" /\ ~h3.open
    <3> HIDE DEF h2
    <3> QED  BY <2>3 DEF Handles
  <2>5. handle' = [handle EXCEPT ![d] = h3]
    BY <1>3
  <2> HIDE DEF h1, h2, h3
  <2> QED  BY <1>1, <2>4, <2>5, ForgettingPreserves DEF DeleteHandle
<1> QED  BY <1>2, <1>3 DEF DeleteHandle

\* Somebody uses a database past the lifecycle.
LEMMA UseOutsidePreserves ==
    ASSUME TenantInductive, NEW d \in Tenants, UseOutside(d)
    PROVE  TenantInductive'
<1>1. UNCHANGED <<handle, recent, act, handleFaults>> /\ busyOutside' \subseteq Tenants
  BY DEF UseOutside, TenantInductive, HandlesTyped
<1>2. \A e : Callbacks(e)' = Callbacks(e)
  BY <1>1 DEF Callbacks
<1> QED  BY <1>1, <1>2 DEF TenantInductive, HandlesTyped, ActsTyped, FaultsTyped, Resident,
     HandleHolds, CallHolds

\* open.
LEMMA OpenPreserves ==
    ASSUME TenantInductive, NEW d \in Tenants, Open(d)
    PROVE  TenantInductive'
<1>1. PICK o \in Openings(d) :
          /\ handleFaults + o.cost <= HandleFaults /\ handleFaults' = handleFaults + o.cost
          /\ handle' = o.map /\ (recent' = o.order \/ recent' = Touched(d, o.order))
          /\ UNCHANGED <<act, busyOutside>>
  BY DEF Open, Opens
<1> QED  BY <1>1, OpeningPreserves

\* flush.
LEMMA FlushHandlePreserves ==
    ASSUME TenantInductive, NEW d \in Tenants, FlushHandle(d)
    PROVE  TenantInductive'
<1>1. PICK o \in Openings(d) :
          /\ handleFaults + o.cost <= HandleFaults /\ handleFaults' = handleFaults + o.cost
          /\ UNCHANGED <<act, busyOutside>>
          /\ \/ handle' = o.map /\ recent' = o.order
             \/ handle' = [o.map EXCEPT ![d].dirty = FALSE] /\ recent' = Touched(d, o.order)
  BY DEF FlushHandle, Opens
<1>2. CASE handle' = o.map /\ recent' = o.order
  BY <1>1, <1>2, OpeningPreserves
<1>3. CASE handle' = [o.map EXCEPT ![d].dirty = FALSE] /\ recent' = Touched(d, o.order)
  <2>1. Resident(o.map, o.order) /\ Reopened(d, o.map)
    BY OpeningsAreSafe
  <2>2. o.map \in [Tenants -> Handles] /\ o.map[d] \in Handles
    BY <2>1 DEF Resident
  <2>3. PICK h : h = [o.map[d] EXCEPT !.dirty = FALSE]
    OBVIOUS
  <2>4. /\ h \in Handles /\ h.open = o.map[d].open /\ h.pins = o.map[d].pins /\ h.run = o.map[d].run
        /\ h.ready = o.map[d].ready /\ h.generation = o.map[d].generation
    BY <2>2, <2>3 DEF Handles
  <2>5. /\ handle' \in [Tenants -> Handles] /\ handle'[d] = h
        /\ \A e \in Tenants \ {d} : handle'[e] = o.map[e]
    BY <1>3, <2>2, <2>3, <2>4
  <2>6. Resident(handle', recent')
    <3>1. {e \in Tenants : handle'[e].open} = {e \in Tenants : o.map[e].open}
      BY <2>4, <2>5
    <3>2. Resident(o.map, recent')
      BY <1>3, <2>1, ResidentTouched
    <3> QED  BY <2>5, <3>1, <3>2 DEF Resident
  <2>7. handleFaults' \in 0..HandleFaults
    BY <1>1, OpeningsCost, TenantAssumption DEF TenantInductive, FaultsTyped
  <2>8. /\ handle'[d].pins = handle[d].pins /\ handle'[d].run = handle[d].run
        /\ handle'[d].ready = handle[d].ready /\ handle'[d].generation = handle[d].generation
        /\ handle[d].open => handle'[d].open
    <3>1. /\ o.map[d].pins = handle[d].pins /\ o.map[d].run = handle[d].run
          /\ o.map[d].ready = handle[d].ready /\ o.map[d].generation = handle[d].generation
          /\ handle[d].open => o.map[d].open
      BY <2>1 DEF Reopened, TenantInductive, HandlesTyped, Handles
    <3> QED  BY <2>4, <2>5, <3>1
  <2>9. \A e \in Tenants \ {d} : handle'[e] = handle[e] \/ (handle'[e] = Fresh /\ Unused(e))
    BY <2>1, <2>5 DEF Reopened
  <2>10. act' = act /\ busyOutside' \subseteq Tenants
    BY <1>1 DEF TenantInductive, HandlesTyped
  <2> QED  BY <2>6, <2>7, <2>8, <2>9, <2>10, QuietSteps
<1> QED  BY <1>1, <1>2, <1>3

\* initialize: joins a migration, or opens the handle and begins one.
LEMMA InitializePreserves ==
    ASSUME TenantInductive, NEW k \in Callers, NEW d \in Tenants, NEW g \in Generations, Initialize(k, d, g)
    PROVE  TenantInductive'
<1>1. act[k] = Nothing /\ busyOutside' = busyOutside
  BY DEF Initialize
<1>2. CASE /\ handle[d].run # "none" /\ Calls(k, Initializes(d))
           /\ UNCHANGED <<handle, recent, handleFaults>>
  <2>1. /\ act[k].does = "nothing" /\ Initializes(d).does = "initializes" /\ Initializes(d).on = d
        /\ Initializes(d) \in Acts /\ ~Initializes(d).ready
    <3>1. act[k].does = "nothing"
      BY <1>1 DEF Nothing
    <3> QED  BY <3>1, InitializesIsCall
  <2>2. act' \in [Callers -> Acts] /\ act'[k] = Initializes(d) /\ \A c \in Callers \ {k} : act'[c] = act[c]
    BY <1>2, <2>1 DEF TenantInductive, ActsTyped, Calls
  <2>3. \A e : Callbacks(e)' = Callbacks(e)
    BY <2>1, <2>2 DEF Callbacks
  <2>4. \A e \in Tenants : HandleHolds(e)'
    BY <1>2, <2>3 DEF TenantInductive, HandleHolds
  <2>5. ASSUME NEW c \in Callers PROVE CallHolds(c)'
    BY <1>2, <2>1, <2>2 DEF TenantInductive, CallHolds
  <2> QED  BY <1>1, <1>2, <2>2, <2>4, <2>5 DEF TenantInductive, HandlesTyped, ActsTyped,
       FaultsTyped, Resident
<1>3. CASE /\ handle[d].run = "none" /\ (~handle[d].ready \/ Unused(d))
           /\ Opens(d, LAMBDA o :
                    /\ handle' = [o.map EXCEPT ![d].ready = FALSE, ![d].generation = g,
                                               ![d].pins = @ + 1, ![d].run = "running"]
                    /\ recent' = o.order
                    /\ Calls(k, Initializes(d)))
  <2>1. PICK o \in Openings(d) :
            /\ handleFaults + o.cost <= HandleFaults /\ handleFaults' = handleFaults + o.cost
            /\ \/ ~o.ok /\ handle' = o.map /\ recent' = o.order /\ UNCHANGED act
               \/ /\ o.ok /\ recent' = o.order /\ act' = [act EXCEPT ![k] = Initializes(d)]
                  /\ StartsOn(handle', o.map, d, g)
    BY <1>3 DEF Opens, Calls, StartsOn
  <2>2. CASE handle' = o.map /\ recent' = o.order /\ UNCHANGED act
    BY <1>1, <2>1, <2>2, OpeningPreserves
  <2>3. CASE /\ o.ok /\ recent' = o.order /\ act' = [act EXCEPT ![k] = Initializes(d)]
             /\ StartsOn(handle', o.map, d, g)
    BY <1>1, <1>3, <2>1, <2>3, MigratingPreserves
  <2> QED  BY <2>1, <2>2, <2>3
<1> QED  BY <1>2, <1>3 DEF Initialize

\* withPin.
LEMMA WithPinPreserves ==
    ASSUME TenantInductive, NEW k \in Callers, NEW d \in Tenants, WithPin(k, d)
    PROVE  TenantInductive'
<1>1. PICK call : call = [Nothing EXCEPT !.does = "pins", !.on = d]
  OBVIOUS
<1>2. call \in Acts /\ call.does = "pins" /\ call.on = d /\ call.ready = FALSE
  <2>1. PICK c : c = [Nothing EXCEPT !.does = "pins"]
    OBVIOUS
  <2>2. c \in Acts /\ c.does = "pins" /\ c.ready = FALSE
    BY <2>1 DEF Acts, Nothing
  <2>3. call = [c EXCEPT !.on = d]
    BY <1>1, <2>1
  <2> QED  BY <2>2, <2>3 DEF Acts
<1>3. PICK o \in Openings(d) :
          /\ handleFaults + o.cost <= HandleFaults /\ handleFaults' = handleFaults + o.cost
          /\ act[k] = Nothing /\ busyOutside' = busyOutside
          /\ \/ ~o.ok /\ handle' = o.map /\ recent' = o.order /\ UNCHANGED act
             \/ /\ o.ok /\ handle' = [o.map EXCEPT ![d].pins = @ + 1]
                /\ recent' = Touched(d, o.order) /\ act' = [act EXCEPT ![k] = call]
  BY <1>1 DEF WithPin, Opens, Calls
<1>4. CASE handle' = o.map /\ recent' = o.order /\ UNCHANGED act
  BY <1>3, <1>4, OpeningPreserves
<1>5. CASE /\ o.ok /\ handle' = [o.map EXCEPT ![d].pins = @ + 1]
           /\ recent' = Touched(d, o.order) /\ act' = [act EXCEPT ![k] = call]
  BY <1>2, <1>3, <1>5, PinningPreserves
<1> QED  BY <1>3, <1>4, <1>5

\* databaseOperation.
LEMMA DatabaseOperationPreserves ==
    ASSUME TenantInductive, NEW k \in Callers, NEW d \in Tenants, NEW requires \in BOOLEAN,
           DatabaseOperation(k, d, requires)
    PROVE  TenantInductive'
<1>1. PICK call : call = [Nothing EXCEPT !.does = "operates", !.on = d, !.ready = requires,
                                         !.generation = handle[d].generation]
  OBVIOUS
<1>2. /\ call \in Acts /\ call.does = "operates" /\ call.on = d /\ call.ready = requires
      /\ call.generation = handle[d].generation
  <2>1. PICK c : c = [Nothing EXCEPT !.does = "operates"]
    OBVIOUS
  <2>2. c \in Acts /\ c.does = "operates"
    BY <2>1 DEF Acts, Nothing
  <2>3. PICK c2 : c2 = [c EXCEPT !.on = d]
    OBVIOUS
  <2>4. c2 \in Acts /\ c2.does = "operates" /\ c2.on = d
    BY <2>2, <2>3 DEF Acts
  <2>5. PICK c3 : c3 = [c2 EXCEPT !.ready = requires]
    OBVIOUS
  <2>6. c3 \in Acts /\ c3.does = "operates" /\ c3.on = d /\ c3.ready = requires
    BY <2>4, <2>5 DEF Acts
  <2>7. call = [c3 EXCEPT !.generation = handle[d].generation]
    BY <1>1, <2>1, <2>3, <2>5
  <2>8. handle[d].generation \in Generations \cup {NoGeneration}
    BY DEF TenantInductive, HandlesTyped, Handles
  <2> QED  BY <2>6, <2>7, <2>8 DEF Acts
<1>3. PICK o \in Openings(d) :
          /\ handleFaults + o.cost <= HandleFaults /\ handleFaults' = handleFaults + o.cost
          /\ act[k] = Nothing /\ busyOutside' = busyOutside /\ (requires => handle[d].ready)
          /\ \/ ~o.ok /\ handle' = o.map /\ recent' = o.order /\ UNCHANGED act
             \/ /\ o.ok /\ handle' = [o.map EXCEPT ![d].pins = @ + 1]
                /\ recent' = Touched(d, o.order) /\ act' = [act EXCEPT ![k] = call]
  BY <1>1 DEF DatabaseOperation, Opens, Calls
<1>4. CASE handle' = o.map /\ recent' = o.order /\ UNCHANGED act
  BY <1>3, <1>4, OpeningPreserves
<1>5. CASE /\ o.ok /\ handle' = [o.map EXCEPT ![d].pins = @ + 1]
           /\ recent' = Touched(d, o.order) /\ act' = [act EXCEPT ![k] = call]
  BY <1>2, <1>3, <1>5, PinningPreserves
<1> QED  BY <1>3, <1>4, <1>5

-----------------------------------------------------------------------------
(* The tenants, over time.                                                 *)

\* No handle is known at first.
LEMMA TenantStarts ==
    ASSUME TenantInit
    PROVE  TenantInductive
<1>1. handle \in [Tenants -> Handles] /\ \A d \in Tenants : handle[d] = Fresh
  BY FreshIsClosed DEF TenantInit
<1>2. act \in [Callers -> Acts] /\ \A k \in Callers : act[k] = Nothing
  BY DEF TenantInit, Acts, Nothing
<1>3. {d \in Tenants : handle[d].open} = {}
  BY <1>1, FreshIsClosed
<1>4. Resident(handle, recent)
  <2>1. recent = <<>> /\ recent \in Seq(Tenants) /\ IsInjective(recent)
    BY DEF TenantInit, IsInjective
  <2>2. Cardinality({}) <= MaxHandles
    BY FS_EmptySet, TenantAssumption
  <2>3. Cardinality({d \in Tenants : handle[d].open}) <= MaxHandles
    BY <1>3, <2>2
  <2>4. {d \in Tenants : handle[d].open} \subseteq ToSet(recent)
    BY <1>3
  <2> QED  BY <1>1, <2>1, <2>3, <2>4 DEF Resident
<1>5. \A d \in Tenants : HandleHolds(d)
  <2>1. \A d : Callbacks(d) = {}
    BY <1>2 DEF Callbacks, Nothing
  <2>2. \A d : Cardinality(Callbacks(d)) = 0
    BY <2>1, FS_EmptySet
  <2>3. Fresh.pins = 0 /\ Fresh.run = "none"
    BY DEF Fresh
  <2> QED  BY <1>1, <2>1, <2>2, <2>3 DEF HandleHolds
<1>6. \A k \in Callers : CallHolds(k)
  BY <1>2 DEF CallHolds, Nothing
<1> QED  BY <1>1, <1>2, <1>4, <1>5, <1>6, TenantAssumption
         DEF TenantInductive, HandlesTyped, ActsTyped, FaultsTyped, TenantInit

\* Every section, callback and user of the pool.
LEMMA TenantSteps ==
    ASSUME TenantInductive, [TenantNext]_tenantVars
    PROVE  TenantInductive'
<1>1. ASSUME NEW d \in Tenants, Open(d) \/ MigrationEnds(d) \/ FlushHandle(d) \/ DeleteHandle(d) \/ UseOutside(d)
      PROVE  TenantInductive'
  BY <1>1, OpenPreserves, MigrationEndsPreserves, FlushHandlePreserves, DeleteHandlePreserves,
       UseOutsidePreserves
<1>2. ASSUME NEW d \in Tenants, NEW flush \in BOOLEAN, CloseHandle(d, flush)
      PROVE  TenantInductive'
  BY <1>2, CloseHandlePreserves
<1>3. ASSUME NEW d \in Tenants, NEW k \in Callers, NEW g \in Generations, Initialize(k, d, g)
      PROVE  TenantInductive'
  BY <1>3, InitializePreserves
<1>4. ASSUME NEW d \in Tenants, NEW k \in Callers, WithPin(k, d)
      PROVE  TenantInductive'
  BY <1>4, WithPinPreserves
<1>5. ASSUME NEW d \in Tenants, NEW k \in Callers, NEW requires \in BOOLEAN, DatabaseOperation(k, d, requires)
      PROVE  TenantInductive'
  BY <1>5, DatabaseOperationPreserves
<1>6. ASSUME NEW k \in Callers, Settle(k) \/ Unpin(k) \/ OperationEnds(k)
      PROVE  TenantInductive'
  BY <1>6, SettlePreserves, UnpinPreserves
<1>7. CASE UNCHANGED tenantVars
  <2>1. \A e : Callbacks(e)' = Callbacks(e)
    BY <1>7 DEF Callbacks, tenantVars
  <2> QED  BY <1>7, <2>1 DEF TenantInductive, HandlesTyped, ActsTyped, FaultsTyped, Resident,
       HandleHolds,
                             CallHolds, tenantVars
<1> QED  BY <1>1, <1>2, <1>3, <1>4, <1>5, <1>6, <1>7 DEF TenantNext

\* What the coordinator promises follows.
LEMMA TenantInductiveHolds ==
    ASSUME TenantInductive
    PROVE  TenantInv
<1>1. PinnedStaysOpen /\ PinsExact
  BY DEF TenantInductive, HandleHolds, PinnedStaysOpen, PinsExact
<1>2. AdmittedStaysReady
  BY DEF TenantInductive, CallHolds, AdmittedStaysReady
<1>3. TenantTypeOK /\ HandlesWithinCap
  BY DEF TenantInductive, HandlesTyped, ActsTyped, FaultsTyped, Resident, TenantTypeOK,
       HandlesWithinCap
<1> QED  BY <1>1, <1>2, <1>3 DEF TenantInv

\* The coordinator never has more handles open than it may, never closes,
\* evicts or deletes one that a callback uses, counts the callbacks exactly,
\* and never migrates a database under an operation that it admitted: for any
\* tenants, callers, generations, caps and faults.
THEOREM TenantsKeepPromise == TenantSpec => []TenantInv
<1>1. TenantInit => TenantInductive
  BY TenantStarts
<1>2. TenantInductive /\ [TenantNext]_tenantVars => TenantInductive'
  BY TenantSteps
<1>3. TenantInductive => TenantInv
  BY TenantInductiveHolds
<1> QED  BY <1>1, <1>2, <1>3, PTL DEF TenantSpec

-----------------------------------------------------------------------------
(* The shared pool of SQLite.                                              *)

PoolEntries == [life : EntryStates, base : Databases \cup {NoBase},
                uses : 0..Cardinality(Users), resident : BOOLEAN, ambient : BOOLEAN]
UserCalls == [step : Steps, kind : Kinds, base : Databases \cup {NoBase},
          held : Entries \cup {None}, shuts : Entries \cup {None},
          late : BOOLEAN, freed : BOOLEAN]

\* Who has been granted a slot, who uses an entry, who awaits a close that will
\* wake the waiters.
Granteds == {u \in Users : user[u].step = "granted"}
InUse(e) == {u \in Users : user[u].step = "using" /\ user[u].held = e}
Closers == {u \in Users : user[u].step \in {"evicts", "switches", "closes"}}
Joining(u, e) == user[u].step = "joins" /\ user[u].held = e

\* The waiters are who waits; from one that made room for itself on, all did or
\* stand behind one.
QueueHoldsWaiters ==
    /\ \A u \in Users : user[u].step = "waits" <=> u \in ToSet(waiters)
    /\ \A i, j \in DOMAIN waiters : i < j /\ user[waiters[i]].freed => user[waiters[j]].freed

\* What a call that is at its step has in hand.
CallOK(c) ==
    /\ c.step \in {"evicts", "waits", "granted"} => c.base \in Databases
    /\ c.step = "joins" => c.held \in Entries /\ pool[c.held].life # "unborn"
    /\ c.step \in {"switches", "using", "cleans"} =>
           c.held \in Entries /\ pool[c.held].life \notin {"unborn", "spawning", "outdated"}
    /\ c.step \in {"evicts", "switches", "closes"} =>
           c.shuts \in Entries /\ pool[c.shuts].life \in {"closing", "closed"}
    /\ c.step = "evicts" => c.freed
    /\ c.step = "switches" => c.late

CallsInOrder == \A u \in Users : CallOK(user[u])

\* Somebody awaits every spawn and every promise.
SpawnsAwaited ==
    /\ \A e \in Spawning : /\ pool[e].base \in Databases /\ pool[e].uses = 0
                            /\ \E u \in Users : Joining(u, e)
    /\ \A b \in Databases : spawnOf[b] # None => \E u \in Users : Joining(u, spawnOf[b])

\* One spawn settles at a time, and nothing closes its entry before those who
\* awaited it have gone on.
JoinTogether ==
    \A u, v \in Users : Joinable(u) /\ Joinable(v) =>
        user[u].held = user[v].held /\ pool[user[u].held].life \in {"listed", "closed"}

\* activeCheckoutCount
UsesCounted ==
    \A e \in In("listed") : pool[e].uses = Cardinality(InUse(e))

CleanedOnlyByLate ==
    \A u, v \in Users :
        /\ user[u].step = "using" /\ user[v].step = "cleans"
        /\ user[u].held = user[v].held /\ user[u].held \in In("listed")
        => user[u].late

\* The promises are those of the spawns, and no entry is replaced.
UntilCloseAll ==
    closeAlls = 0 =>
        /\ closer = "off" /\ In("outdated") = {} /\ In("stray") = {}
        /\ \A e \in Spawning : spawnOf[pool[e].base] = e

\* A checkout waits that did not make room for itself, and nothing has gone wrong.
Unbroken == singleFaults + closeAlls = 0 /\ waiters # <<>> /\ ~user[Head(waiters)].freed

\* For every free slot there is a close whose end will give it to a waiter.
ClosersCover ==
    Unbroken => cap <= Cardinality(In("listed")) + reserved + Cardinality(Closers)

\* An idle connection is about to be used or to be closed.
IdleIsTended ==
    Unbroken => \A e \in Idle : \E u \in Users :
                    user[u].held = e /\ user[u].step \in {"joins", "switches", "cleans"}

\* The inductive invariant.
SingleInductive ==
    /\ SingleTypeOK /\ SlotsExact /\ OpenForItsUsers /\ SharedByAll
    /\ QueueHoldsWaiters /\ CallsInOrder /\ SpawnsAwaited /\ JoinTogether /\ UsesCounted
    /\ CleanedOnlyByLate /\ UntilCloseAll /\ ClosersCover /\ IdleIsTended

-----------------------------------------------------------------------------
\* Types.
LEMMA CallTypes ==
    ASSUME SingleTypeOK
    PROVE  /\ cap \in Nat \ {0} /\ IsFiniteSet(Users) /\ IsFiniteSet(Entries)
           /\ EntryMax \in Nat /\ Entries \subseteq Nat \ {0} /\ None \notin Entries
           /\ pool \in [Entries -> PoolEntries] /\ user \in [Users -> UserCalls]
           /\ reserved \in Nat /\ reserved <= cap
           /\ waiters \in Seq(Users) /\ IsInjective(waiters)
           /\ spawnOf \in [Databases -> Entries \cup {None}]
           /\ current \in Entries \cup {None}
           /\ singleFaults \in Nat /\ closeAlls \in Nat
<1>1. EntryMax \in Nat /\ UpsetMax \in Nat /\ Caps \subseteq Nat \ {0} /\ IsFiniteSet(Users)
  BY SinglePoolAssumption
<1>2. IsFiniteSet(1..EntryMax)
  BY <1>1, FS_Interval
<1> QED  BY <1>1, <1>2 DEF SingleTypeOK, Entries, PoolEntries, UserCalls, None

LEMMA SetsOfUsers ==
    ASSUME NEW S, S \subseteq Users
    PROVE  /\ IsFiniteSet(S) /\ Cardinality(S) \in Nat /\ Cardinality(S) <= Cardinality(Users)
           /\ Cardinality(Users) \in Nat
           /\ Cardinality(S) = 0 => S = {}
           /\ \A u : u \notin S => Cardinality(S \cup {u}) = Cardinality(S) + 1
           /\ \A u : u \in S => Cardinality(S \ {u}) = Cardinality(S) - 1
           /\ \A u : u \in S => S \cup {u} = S
           /\ \A u : u \notin S => S \ {u} = S
<1>1. IsFiniteSet(Users)
  BY SinglePoolAssumption
<1>2. IsFiniteSet(S) /\ Cardinality(S) <= Cardinality(Users)
  BY <1>1, FS_Subset
<1>3. Cardinality(S) \in Nat /\ Cardinality(Users) \in Nat
  BY <1>1, <1>2, FS_CardinalityType
<1>4. Cardinality(S) = 0 => S = {}
  BY <1>2, FS_EmptySet
<1>5. \A u : u \notin S => Cardinality(S \cup {u}) = Cardinality(S) + 1
  BY <1>2, FS_AddElement
<1>6. \A u : u \in S => Cardinality(S \ {u}) = Cardinality(S) - 1
  BY <1>2, FS_RemoveElement
<1> QED  BY <1>2, <1>3, <1>4, <1>5, <1>6

LEMMA SetsOfEntries ==
    ASSUME NEW S, S \subseteq Entries
    PROVE  /\ IsFiniteSet(S) /\ Cardinality(S) \in Nat
           /\ Cardinality(S) = 0 => S = {}
           /\ \A e : e \notin S => Cardinality(S \cup {e}) = Cardinality(S) + 1
           /\ \A e : e \in S => Cardinality(S \ {e}) = Cardinality(S) - 1
           /\ \A e : e \in S => S \cup {e} = S
           /\ \A e : e \notin S => S \ {e} = S
<1>1. EntryMax \in Nat
  BY SinglePoolAssumption
<1>2. IsFiniteSet(Entries)
  BY <1>1, FS_Interval DEF Entries
<1>3. IsFiniteSet(S)
  BY <1>2, FS_Subset
<1>4. Cardinality(S) \in Nat
  BY <1>3, FS_CardinalityType
<1>5. Cardinality(S) = 0 => S = {}
  BY <1>3, FS_EmptySet
<1>6. \A e : e \notin S => Cardinality(S \cup {e}) = Cardinality(S) + 1
  BY <1>3, FS_AddElement
<1>7. \A e : e \in S => Cardinality(S \ {e}) = Cardinality(S) - 1
  BY <1>3, FS_RemoveElement
<1> QED  BY <1>3, <1>4, <1>5, <1>6, <1>7

-----------------------------------------------------------------------------
\* The calls after a step: u's is c, those of g are granted a slot.
Moves(u, c, g) ==
    /\ u \in Users /\ c \in UserCalls /\ u \notin g /\ g \subseteq ToSet(waiters)
    /\ user' = [v \in Users |-> IF v = u THEN c
                                ELSE IF v \in g THEN [user[v] EXCEPT !.step = "granted"] ELSE user[v]]

LEMMA MovesCalls ==
    ASSUME SingleTypeOK, QueueHoldsWaiters, NEW u, NEW c, NEW g, Moves(u, c, g)
    PROVE  /\ user' \in [Users -> UserCalls] /\ u \in Users /\ u \notin g /\ user'[u] = c
           /\ \A v \in Users : v # u /\ v \notin g => user'[v] = user[v]
           /\ \A v \in g : /\ v \in Users /\ v # u /\ user[v].step = "waits" /\ user'[v].step = "granted"
                           /\ user'[v].held = user[v].held /\ user'[v].late = user[v].late
                           /\ user'[v].freed = user[v].freed /\ user'[v].base = user[v].base
<1> USE CallTypes DEF Moves, QueueHoldsWaiters
<1>0. ToSet(waiters) \subseteq Users
  BY DEF ToSet
<1>1. user' \in [Users -> UserCalls]
  <2>1. \A v \in Users : [user[v] EXCEPT !.step = "granted"] \in UserCalls
    BY DEF UserCalls, Steps
  <2> QED  BY <2>1
<1>2. \A v \in g : /\ v \in Users /\ v # u /\ user[v].step = "waits" /\ user'[v].step = "granted"
                   /\ user'[v].held = user[v].held /\ user'[v].late = user[v].late
                   /\ user'[v].freed = user[v].freed /\ user'[v].base = user[v].base
  BY <1>0 DEF UserCalls
<1>3. user'[u] = c /\ \A v \in Users : v # u /\ v \notin g => user'[v] = user[v]
  OBVIOUS
<1> QED  BY <1>1, <1>2, <1>3

LEMMA MovesSets ==
    ASSUME SingleTypeOK, QueueHoldsWaiters, NEW u, NEW c, NEW g, Moves(u, c, g)
    PROVE  /\ Granteds' = (IF c.step = "granted" THEN Granteds \cup {u} ELSE Granteds \ {u}) \cup g
           /\ Closers' = IF c.step \in {"evicts", "switches", "closes"} THEN Closers \cup {u} ELSE Closers \ {u}
           /\ \A e : InUse(e)' = IF c.step = "using" /\ c.held = e THEN InUse(e) \cup {u} ELSE InUse(e) \ {u}
<1>1. \A v \in g : user[v].step = "waits" /\ user'[v].step = "granted" /\ v \in Users
  BY MovesCalls
<1>2. user'[u] = c /\ \A v \in Users : v # u /\ v \notin g => user'[v] = user[v]
  BY MovesCalls
<1>3. u \in Users /\ u \notin g
  BY MovesCalls
<1>4. Granteds' = (IF c.step = "granted" THEN Granteds \cup {u} ELSE Granteds \ {u}) \cup g
  <2>1. \A v \in Users : user'[v].step = "granted" <=>
                            v \in g \/ (v = u /\ c.step = "granted") \/ (v # u /\ user[v].step = "granted")
    BY <1>1, <1>2, <1>3
  <2>2. \A v : v \in Granteds' <=> v \in Users /\ user'[v].step = "granted"
    BY DEF Granteds
  <2>3. \A v : v \in Granteds <=> v \in Users /\ user[v].step = "granted"
    BY DEF Granteds
  <2> QED  BY <2>1, <2>2, <2>3, <1>1, <1>3
<1>5. Closers' = IF c.step \in {"evicts", "switches", "closes"} THEN Closers \cup {u} ELSE Closers \ {u}
  <2> DEFINE shutting(x) == x.step \in {"evicts", "switches", "closes"}
  <2>1. \A v \in Users : shutting(user'[v]) <=>
                            (v = u /\ shutting(c)) \/ (v # u /\ shutting(user[v]))
    BY <1>1, <1>2, <1>3
  <2>2. \A v : v \in Closers' <=> v \in Users /\ shutting(user'[v])
    BY DEF Closers
  <2>3. \A v : v \in Closers <=> v \in Users /\ shutting(user[v])
    BY DEF Closers
  <2>4. Closers' = IF shutting(c) THEN Closers \cup {u} ELSE Closers \ {u}
    <3> HIDE DEF shutting
    <3> QED  BY <2>1, <2>2, <2>3, <1>1, <1>3
  <2> QED  BY <2>4
<1>6. ASSUME NEW e
      PROVE  InUse(e)' = IF c.step = "using" /\ c.held = e THEN InUse(e) \cup {u} ELSE InUse(e) \ {u}
  <2> DEFINE uses(x) == x.step = "using" /\ x.held = e
  <2>1. \A v \in Users : uses(user'[v]) <=> (v = u /\ uses(c)) \/ (v # u /\ uses(user[v]))
    BY <1>1, <1>2, <1>3
  <2>2. \A v : v \in InUse(e)' <=> v \in Users /\ uses(user'[v])
    BY DEF InUse
  <2>3. \A v : v \in InUse(e) <=> v \in Users /\ uses(user[v])
    BY DEF InUse
  <2>4. InUse(e)' = IF uses(c) THEN InUse(e) \cup {u} ELSE InUse(e) \ {u}
    <3> HIDE DEF uses
    <3> QED  BY <2>1, <2>2, <2>3, <1>1, <1>3
  <2> QED  BY <2>4
<1> QED  BY <1>4, <1>5, <1>6

-----------------------------------------------------------------------------
\* The waiters after those of S have left.
Thinner(W, S) ==
    /\ W \in Seq(Users) /\ IsInjective(W) /\ ToSet(W) = ToSet(waiters) \ S
    /\ \A j \in DOMAIN W : \E l \in DOMAIN waiters : waiters[l] = W[j]
    /\ \A i, j \in DOMAIN W : i < j =>
           \E k, l \in DOMAIN waiters : k < l /\ waiters[k] = W[i] /\ waiters[l] = W[j]

LEMMA SameThins == ASSUME SingleTypeOK PROVE Thinner(waiters, {})
  BY CallTypes DEF Thinner

LEMMA TailThins ==
    ASSUME SingleTypeOK, waiters # <<>>
    PROVE  Thinner(Tail(waiters), {Head(waiters)}) /\ Head(waiters) \in ToSet(waiters)
<1> DEFINE W == Tail(waiters)
<1>1. waiters \in Seq(Users) /\ IsInjective(waiters)
  BY CallTypes
<1>2. /\ W \in Seq(Users) /\ Len(waiters) \in Nat \ {0} /\ Len(W) = Len(waiters) - 1
      /\ DOMAIN waiters = 1..Len(waiters) /\ DOMAIN W = 1..(Len(waiters) - 1)
      /\ \A i \in DOMAIN W : i \in Nat /\ i + 1 \in DOMAIN waiters /\ W[i] = waiters[i + 1]
      /\ Head(waiters) = waiters[1] /\ 1 \in DOMAIN waiters
  BY <1>1
<1>3. IsInjective(W)
  <2> SUFFICES ASSUME NEW i \in DOMAIN W, NEW j \in DOMAIN W, W[i] = W[j] PROVE i = j
    BY DEF IsInjective
  <2>1. i + 1 = j + 1
    BY <1>1, <1>2 DEF IsInjective
  <2> QED  BY <2>1, <1>2
<1>4. \A i \in DOMAIN W : W[i] # waiters[1]
  BY <1>1, <1>2 DEF IsInjective
<1>5. \A i \in DOMAIN waiters : i # 1 => i - 1 \in DOMAIN W /\ W[i - 1] = waiters[i]
  BY <1>2
<1> HIDE DEF W
<1>6. ToSet(W) = ToSet(waiters) \ {Head(waiters)}
  BY <1>2, <1>4, <1>5 DEF ToSet
<1>7. \A i, j \in DOMAIN W : i < j =>
           \E k, l \in DOMAIN waiters : k < l /\ waiters[k] = W[i] /\ waiters[l] = W[j]
  <2> SUFFICES ASSUME NEW i \in DOMAIN W, NEW j \in DOMAIN W, i < j
               PROVE  \E k, l \in DOMAIN waiters : k < l /\ waiters[k] = W[i] /\ waiters[l] = W[j]
    OBVIOUS
  <2>1. i + 1 < j + 1
    BY <1>2
  <2> QED  BY <2>1, <1>2
<1>8. Thinner(W, {Head(waiters)})
  BY <1>2, <1>3, <1>6, <1>7 DEF Thinner
<1> QED  BY <1>2, <1>8 DEF W, ToSet

LEMMA RemovalThins ==
    ASSUME SingleTypeOK, NEW n \in DOMAIN waiters
    PROVE  Thinner(RemoveAt(waiters, n), {waiters[n]})
<1> DEFINE W == RemoveAt(waiters, n)
           at(i) == IF i < n THEN i ELSE i + 1
<1>1. waiters \in Seq(Users) /\ IsInjective(waiters)
  BY CallTypes
<1>2. /\ Len(waiters) \in Nat /\ n \in 1..Len(waiters) /\ DOMAIN waiters = 1..Len(waiters)
  BY <1>1
<1>3. /\ W \in Seq(Users) /\ Len(W) = Len(waiters) - 1 /\ DOMAIN W = 1..(Len(waiters) - 1)
      /\ \A i \in DOMAIN W : W[i] = waiters[at(i)]
  <2> DEFINE a == SubSeq(waiters, 1, n - 1)
             b == SubSeq(waiters, n + 1, Len(waiters))
  <2>1. /\ a \in Seq(Users) /\ Len(a) = n - 1 /\ \A i \in 1..(n - 1) : a[i] = waiters[i]
    BY <1>1, <1>2
  <2>2. /\ b \in Seq(Users) /\ Len(b) = Len(waiters) - n
        /\ \A i \in 1..(Len(waiters) - n) : b[i] = waiters[n + i]
    BY <1>1, <1>2
  <2>3. W = a \o b
    BY DEF RemoveAt
  <2> HIDE DEF a, b, W
  <2>4. W \in Seq(Users) /\ Len(W) = Len(waiters) - 1
    <3>1. W \in Seq(Users) /\ Len(W) = Len(a) + Len(b)
      BY <2>1, <2>2, <2>3, ConcatProperties
    <3> QED  BY <3>1, <2>1, <2>2, <1>2
  <2>5. \A i \in 1..Len(W) : W[i] = IF i <= Len(a) THEN a[i] ELSE b[i - Len(a)]
    BY <2>1, <2>2, <2>3
  <2>6. ASSUME NEW i \in 1..Len(W)
        PROVE  W[i] = waiters[at(i)]
    <3>1. CASE i < n
      BY <3>1, <2>1, <2>5, <2>6, <2>4, <1>2
    <3>2. CASE ~(i < n)
      <4>1. i - (n - 1) \in 1..(Len(waiters) - n) /\ n + (i - (n - 1)) = i + 1 /\ ~(i <= n - 1)
        BY <3>2, <2>4, <1>2
      <4>2. W[i] = b[i - (n - 1)]
        BY <4>1, <2>5, <2>6, <2>1
      <4>3. b[i - (n - 1)] = waiters[n + (i - (n - 1))]
        BY <4>1, <2>2
      <4> QED  BY <3>2, <4>1, <4>2, <4>3
    <3> QED  BY <3>1, <3>2
  <2> QED  BY <2>4, <2>6
<1> HIDE DEF W
<1>4. \A i \in DOMAIN W : i \in Nat /\ at(i) \in DOMAIN waiters /\ at(i) # n
  BY <1>2, <1>3
<1>5. \A i, j \in DOMAIN W : (at(i) = at(j) => i = j) /\ (i < j => at(i) < at(j))
  BY <1>2, <1>3
<1>6. \A k \in DOMAIN waiters : k # n => \E i \in DOMAIN W : at(i) = k
  <2> SUFFICES ASSUME NEW k \in DOMAIN waiters, k # n PROVE \E i \in DOMAIN W : at(i) = k
    OBVIOUS
  <2>1. CASE k < n
    <3>1. k \in DOMAIN W /\ at(k) = k
      BY <2>1, <1>2, <1>3
    <3> QED  BY <3>1
  <2>2. CASE k > n
    <3>1. k - 1 \in DOMAIN W /\ at(k - 1) = k
      BY <2>2, <1>2, <1>3
    <3> QED  BY <3>1
  <2> QED  BY <2>1, <2>2, <1>2
<1> HIDE DEF at
<1>7. IsInjective(W)
  BY <1>1, <1>3, <1>4, <1>5 DEF IsInjective
<1>8. ToSet(W) = ToSet(waiters) \ {waiters[n]}
  <2>1. \A i \in DOMAIN W : W[i] # waiters[n]
    BY <1>1, <1>3, <1>4 DEF IsInjective
  <2> QED  BY <2>1, <1>3, <1>4, <1>6 DEF ToSet
<1>9. Thinner(W, {waiters[n]})
  BY <1>3, <1>4, <1>5, <1>7, <1>8 DEF Thinner
<1> QED  BY <1>9 DEF W

\* Those of S leave the waiters, the others keep their marks.
LEMMA QueueAfter ==
    ASSUME SingleTypeOK, QueueHoldsWaiters, NEW S, Thinner(waiters', S), S \subseteq ToSet(waiters),
           \A v \in Users : user'[v].step = "waits" <=> user[v].step = "waits" /\ v \notin S,
           \A v \in ToSet(waiters) \ S : user'[v].freed = user[v].freed
    PROVE  /\ QueueHoldsWaiters'
           /\ waiters' \in Seq(Users) /\ IsInjective(waiters')
           /\ Unbroken' /\ singleFaults + closeAlls = 0 => Unbroken
<1>1. waiters' \in Seq(Users) /\ IsInjective(waiters') /\ ToSet(waiters') = ToSet(waiters) \ S
  BY DEF Thinner
<1>2. \A u \in Users : user'[u].step = "waits" <=> u \in ToSet(waiters')
  BY <1>1 DEF QueueHoldsWaiters
<1>3. \A j \in DOMAIN waiters' : waiters'[j] \in ToSet(waiters')
  BY DEF ToSet
<1>4. \A i, j \in DOMAIN waiters' : i < j /\ user'[waiters'[i]].freed => user'[waiters'[j]].freed
  <2> SUFFICES ASSUME NEW i \in DOMAIN waiters', NEW j \in DOMAIN waiters', i < j, user'[waiters'[i]].freed
               PROVE  user'[waiters'[j]].freed
    OBVIOUS
  <2>1. PICK k \in DOMAIN waiters, l \in DOMAIN waiters : k < l /\ waiters[k] = waiters'[i] /\ waiters[l] = waiters'[j]
    BY DEF Thinner
  <2>2. user[waiters[k]].freed
    BY <2>1, <1>1, <1>3
  <2>3. user[waiters[l]].freed
    BY <2>1, <2>2 DEF QueueHoldsWaiters
  <2> QED  BY <2>1, <2>3, <1>1, <1>3
<1>5. ASSUME Unbroken', singleFaults + closeAlls = 0
      PROVE  Unbroken
  <2>1. waiters' # <<>> /\ Head(waiters') = waiters'[1] /\ 1 \in DOMAIN waiters'
    BY <1>1, <1>5 DEF Unbroken
  <2>2. PICK l \in DOMAIN waiters : waiters[l] = waiters'[1]
    BY <2>1 DEF Thinner
  <2>3. ~user[waiters[l]].freed
    BY <2>1, <2>2, <1>1, <1>3, <1>5 DEF Unbroken
  <2>4. waiters # <<>> /\ Head(waiters) = waiters[1] /\ 1 \in DOMAIN waiters /\ (l = 1 \/ 1 < l)
    BY CallTypes
  <2>5. ~user[waiters[1]].freed
    BY <2>3, <2>4 DEF QueueHoldsWaiters
  <2> QED  BY <1>5, <2>4, <2>5 DEF Unbroken
<1> QED  BY <1>1, <1>2, <1>4, <1>5 DEF QueueHoldsWaiters

\* What notifyCapacityWaiters decided, given `listed` entries and `spawning` reservations.
Told(g, listed, spawning) ==
    \/ g = {} /\ reserved' = spawning /\ (waiters = <<>> \/ ~RoomFor(listed, spawning))
    \/ g = {Head(waiters)} /\ waiters # <<>> /\ reserved' = spawning + 1 /\ RoomFor(listed, spawning)

\* notifyCapacityWaiters, while the call of u becomes c.
LEMMA NotifiedMoves ==
    ASSUME SingleTypeOK, QueueHoldsWaiters, NEW u \in Users, NEW c \in UserCalls, u \notin ToSet(waiters),
           NEW L, NEW r \in Int, NEW calls, calls = [v \in Users |-> IF v = u THEN c ELSE user[v]],
           Notified(L, r, calls)
    PROVE  \E g : Moves(u, c, g) /\ Thinner(waiters', g) /\ Told(g, L, r)
<1>1. CASE waiters # <<>> /\ RoomFor(L, r)
  <2> DEFINE h == Head(waiters)
  <2>1. Thinner(Tail(waiters), {h}) /\ h \in ToSet(waiters) /\ h \in Users
    <3>1. ToSet(waiters) \subseteq Users
      BY CallTypes DEF ToSet
    <3> QED  BY <1>1, <3>1, TailThins
  <2>2. waiters' = Tail(waiters) /\ reserved' = r + 1 /\ user' = [calls EXCEPT ![h].step = "granted"]
    BY <1>1 DEF Notified
  <2> HIDE DEF h
  <2>3. user' = [v \in Users |-> IF v = u THEN c
                                 ELSE IF v \in {h} THEN [user[v] EXCEPT !.step = "granted"] ELSE user[v]]
    BY <2>1, <2>2
  <2>4. Moves(u, c, {h})
    BY <2>1, <2>3 DEF Moves
  <2> QED  BY <1>1, <2>1, <2>2, <2>4 DEF h, Told
<1>2. CASE ~(waiters # <<>> /\ RoomFor(L, r))
  <2>1. waiters' = waiters /\ reserved' = r /\ user' = calls
    BY <1>2 DEF Notified
  <2>2. Moves(u, c, {})
    BY <2>1 DEF Moves
  <2> QED  BY <1>2, <2>1, <2>2, SameThins DEF Told
<1> QED  BY <1>1, <1>2

-----------------------------------------------------------------------------
(* What a step leaves alone.                                               *)

\* Slots that are granted, counted.
LEMMA GrantedCount ==
    ASSUME SingleTypeOK, QueueHoldsWaiters, NEW u, NEW c, NEW g, Moves(u, c, g), c.step # "granted",
           NEW h, g = {} \/ g = {h}
    PROVE  /\ Cardinality(Granteds') = Cardinality(Granteds) - (IF user[u].step = "granted" THEN 1 ELSE 0)
                                       + (IF g = {} THEN 0 ELSE 1)
           /\ Cardinality(Granteds) \in Nat /\ Cardinality(Granteds') \in Nat
           /\ user[u].step = "granted" => Cardinality(Granteds) > 0
<1> DEFINE G == Granteds \ {u}
<1>1. Granteds' = G \cup g /\ u \in Users
  BY MovesSets, MovesCalls
<1>2. Granteds \subseteq Users /\ G \subseteq Users /\ (u \in Granteds <=> user[u].step = "granted")
  BY <1>1 DEF Granteds
<1>3. \A v \in g : v \notin Granteds /\ v \in Users
  BY MovesCalls DEF Granteds
<1>4. /\ Cardinality(G) = Cardinality(Granteds) - (IF user[u].step = "granted" THEN 1 ELSE 0)
      /\ Cardinality(Granteds) \in Nat /\ Cardinality(G) \in Nat
  <2>1. u \in Granteds => Cardinality(G) = Cardinality(Granteds) - 1
    BY <1>2, SetsOfUsers
  <2>2. u \notin Granteds => G = Granteds
    BY <1>2
  <2>3. Cardinality(Granteds) \in Nat /\ Cardinality(G) \in Nat
    BY <1>2, SetsOfUsers
  <2> HIDE DEF G
  <2>4. CASE u \in Granteds
    BY <1>2, <2>1, <2>3, <2>4
  <2>5. CASE u \notin Granteds
    BY <1>2, <2>2, <2>3, <2>5
  <2> QED  BY <2>4, <2>5
<1> HIDE DEF G
<1>5. Cardinality(G \cup g) = Cardinality(G) + (IF g = {} THEN 0 ELSE 1)
  <2>1. CASE g = {}
    <3>1. G \cup g = G
      BY <2>1
    <3> QED  BY <2>1, <3>1, <1>4
  <2>2. CASE g # {}
    <3>1. g = {h} /\ h \notin G
      BY <2>2, <1>3 DEF G
    <3> QED  BY <2>2, <3>1, <1>2, SetsOfUsers
  <2> QED  BY <2>1, <2>2
<1> QED  BY <1>1, <1>4, <1>5

\* The waiters, when u is none of them before or after.
LEMMA QueueMoves ==
    ASSUME SingleTypeOK, QueueHoldsWaiters, NEW u, NEW c, NEW g, Moves(u, c, g), Thinner(waiters', g),
           c.step # "waits", user[u].step # "waits"
    PROVE  /\ QueueHoldsWaiters'
           /\ waiters' \in Seq(Users) /\ IsInjective(waiters')
           /\ Unbroken' /\ singleFaults + closeAlls = 0 => Unbroken
<1>1. g \subseteq ToSet(waiters) /\ u \in Users
  BY DEF Moves
<1>2. \A v \in Users : user'[v].step = "waits" <=> user[v].step = "waits" /\ v \notin g
  <2> SUFFICES ASSUME NEW v \in Users
               PROVE  user'[v].step = "waits" <=> user[v].step = "waits" /\ v \notin g
    OBVIOUS
  <2>1. CASE v = u
    BY <2>1, <1>1, MovesCalls
  <2>2. CASE v \in g
    BY <2>2, MovesCalls
  <2>3. CASE v # u /\ v \notin g
    BY <2>3, MovesCalls
  <2> QED  BY <2>1, <2>2, <2>3
<1>3. \A v \in ToSet(waiters) \ g : user'[v].freed = user[v].freed
  <2>1. \A v \in ToSet(waiters) : v \in Users /\ v # u
    BY <1>1, CallTypes DEF QueueHoldsWaiters, ToSet
  <2> QED  BY <2>1, MovesCalls
<1> QED  BY <1>1, <1>2, <1>3, QueueAfter

\* Entries stay as they are, or leave connectionEntries while at most late users
\* have them.
PoolSettles ==
    /\ pool' \in [Entries -> PoolEntries]
    /\ \A e \in Entries :
          \/ pool'[e] = pool[e]
          \/ /\ pool[e].life \in {"listed", "closing", "closed"} /\ pool'[e].life \in {"closing", "closed"}
             /\ pool[e].life = "listed" => \A v \in InUse(e) : user[v].late

\* An entry never goes back to being opened, nor to being open once it is closing.
LivesGoOn ==
    \A e \in Entries :
        /\ pool[e].life # "unborn" => pool'[e].life # "unborn"
        /\ pool[e].life \notin {"unborn", "spawning", "outdated"} =>
               pool'[e].life \notin {"unborn", "spawning", "outdated"}
        /\ pool[e].life \in {"closing", "closed"} => pool'[e].life \in {"closing", "closed"}

LEMMA SettledSets ==
    ASSUME SingleTypeOK, PoolSettles
    PROVE  /\ Spawning' = Spawning /\ In("outdated")' = In("outdated") /\ In("stray")' = In("stray")
           /\ In("listed")' \subseteq In("listed") /\ Idle' \subseteq Idle
           /\ In("listed") \subseteq Entries /\ Spawning \subseteq Entries
           /\ \A e \in In("listed")' \cup Spawning \cup In("stray") : pool'[e] = pool[e]
           /\ \A e \in In("listed") \ In("listed")' : \A v \in InUse(e) : user[v].late
           /\ LivesGoOn
<1> USE CallTypes DEF PoolSettles, In
<1>1. \A e \in Entries :
          \/ pool'[e].life = pool[e].life
          \/ pool[e].life \in {"listed", "closing", "closed"} /\ pool'[e].life \in {"closing", "closed"}
  OBVIOUS
<1>2. Spawning' = Spawning /\ In("outdated")' = In("outdated") /\ In("stray")' = In("stray")
  BY <1>1 DEF Spawning
<1>3. In("listed")' \subseteq In("listed") /\ Idle' \subseteq Idle
  BY <1>1 DEF Idle
<1>4. \A e \in In("listed")' \cup Spawning \cup In("stray") : pool'[e] = pool[e]
  BY <1>1 DEF Spawning
<1>5. \A e \in In("listed") \ In("listed")' : \A v \in InUse(e) : user[v].late
  OBVIOUS
<1>6. LivesGoOn
  BY <1>1 DEF LivesGoOn
<1> QED  BY <1>2, <1>3, <1>4, <1>5, <1>6 DEF Spawning

LEMMA OrderMoves ==
    ASSUME SingleTypeOK, QueueHoldsWaiters, CallsInOrder, NEW u, NEW c, NEW g, Moves(u, c, g), CallOK(c)',
           LivesGoOn
    PROVE  CallsInOrder'
<1> SUFFICES ASSUME NEW v \in Users PROVE CallOK(user[v])'
  BY DEF CallsInOrder
<1>1. CallOK(user[v])
  BY DEF CallsInOrder
<1>2. CASE v = u
  BY <1>2, MovesCalls DEF CallOK
<1>3. CASE v # u /\ v \notin g
  BY <1>1, <1>3, MovesCalls DEF CallOK, LivesGoOn
<1>4. CASE v \in g
  <2>1. user'[v].step = "granted" /\ user[v].step = "waits" /\ user'[v].base = user[v].base
    BY <1>4, MovesCalls
  <2> QED  BY <1>1, <2>1 DEF CallOK
<1> QED  BY <1>2, <1>3, <1>4

\* A call goes from one step at which it uses nothing to another, while nothing
\* is being joined.
LEMMA SettlesKeep ==
    ASSUME SingleInductive, \A v \in Users : ~Joinable(v), NEW u, NEW c, NEW g, Moves(u, c, g), PoolSettles, CallOK(c)',
           user[u].step \notin {"using", "joins"}, c.step \notin {"using", "cleans"},
           c.step = "joins" => c.held \in Spawning \cup In("listed")',
           UNCHANGED <<spawnOf, closer, closeAlls>>
    PROVE  /\ OpenForItsUsers' /\ SharedByAll' /\ CallsInOrder' /\ SpawnsAwaited' /\ JoinTogether'
           /\ UsesCounted' /\ CleanedOnlyByLate' /\ UntilCloseAll'
<1>0. SingleTypeOK /\ QueueHoldsWaiters
  BY DEF SingleInductive
<1> USE SettledSets, MovesSets, <1>0
<1>1. /\ u \in Users /\ user'[u] = c
      /\ \A v \in Users : v # u /\ v \notin g => user'[v] = user[v]
      /\ \A v \in g : user'[v].step = "granted" /\ user[v].step = "waits"
  BY MovesCalls
<1>2. CallsInOrder'
  BY OrderMoves DEF SingleInductive
<1>3. \A v \in Users : user'[v].step = "using" => user'[v] = user[v]
  BY <1>1
<1>4. \A v \in Users : user'[v].step = "cleans" => user'[v] = user[v]
  BY <1>1
<1>5. OpenForItsUsers'
  <2> SUFFICES ASSUME NEW v \in Users, user'[v].step = "using", ~user'[v].late, closeAlls' = 0
               PROVE  user'[v].held \in In("listed")'
    BY DEF OpenForItsUsers
  <2>1. user'[v] = user[v] /\ user[v].held \in In("listed") /\ v \in InUse(user[v].held)
    BY <1>3 DEF SingleInductive, OpenForItsUsers, InUse
  <2> QED  BY <2>1
<1>6. SharedByAll'
  BY DEF SingleInductive, SharedByAll
<1>7. UntilCloseAll'
  BY DEF SingleInductive, UntilCloseAll
<1>8. \A v \in Users : user[v].step = "joins" => user'[v] = user[v]
  BY <1>1
<1>9. SpawnsAwaited'
  <2>1. \A e \in Spawning : pool[e].base \in Databases /\ pool[e].uses = 0 /\ \E v \in Users : Joining(v, e)
    BY DEF SingleInductive, SpawnsAwaited
  <2>2. \A b \in Databases : spawnOf[b] # None => \E v \in Users : Joining(v, spawnOf[b])
    BY DEF SingleInductive, SpawnsAwaited
  <2>3. \A v \in Users : \A e : Joining(v, e) => Joining(v, e)'
    BY <1>8 DEF Joining
  <2>4. \A e \in Spawning' : /\ pool'[e].base \in Databases /\ pool'[e].uses = 0
                            /\ \E v \in Users : Joining(v, e)'
    BY <2>1, <2>3
  <2>5. \A b \in Databases : spawnOf'[b] # None => \E v \in Users : Joining(v, spawnOf[b])'
    BY <2>2, <2>3 DEF Joining
  <2> QED  BY <2>4, <2>5 DEF SpawnsAwaited
<1>10. JoinTogether'
  <2>1. \A v \in Users : Joinable(v)' => v = u
    BY <1>1 DEF Joinable
  <2>2. Joinable(u)' => pool'[user'[u].held].life = "listed"
    BY <1>1 DEF Joinable, In
  <2> QED  BY <2>1, <2>2 DEF JoinTogether
<1>11. UsesCounted'
  <2> SUFFICES ASSUME NEW e \in In("listed")' PROVE pool'[e].uses = Cardinality(InUse(e)')
    BY DEF UsesCounted
  <2>1. InUse(e)' = InUse(e)
    <3>1. u \notin InUse(e)
      BY DEF InUse
    <3>2. InUse(e)' = InUse(e) \ {u}
      OBVIOUS
    <3> QED  BY <3>1, <3>2
  <2>2. pool'[e] = pool[e] /\ pool[e].uses = Cardinality(InUse(e))
    BY DEF SingleInductive, UsesCounted
  <2> QED  BY <2>1, <2>2
<1>12. CleanedOnlyByLate'
  BY <1>3, <1>4 DEF SingleInductive, CleanedOnlyByLate
<1> QED  BY <1>2, <1>5, <1>6, <1>7, <1>9, <1>10, <1>11, <1>12

\* An entry nobody has counted is in nobody's use.
LEMMA UnusedEntry ==
    ASSUME SingleTypeOK, UsesCounted, NEW e \in In("listed"), pool[e].uses = 0
    PROVE  InUse(e) = {}
<1>1. Cardinality(InUse(e)) = 0
  BY DEF UsesCounted
<1>2. InUse(e) \subseteq Users
  BY DEF InUse
<1> QED  BY <1>1, <1>2, SetsOfUsers

\* The same call and the waiters.
LEMMA SettlesQueue ==
    ASSUME SingleInductive, NEW u, NEW c, NEW g, Moves(u, c, g), Idle' \subseteq Idle,
           Thinner(waiters', g), c.step # "waits", user[u].step # "waits",
           singleFaults' + closeAlls' = 0 => singleFaults + closeAlls = 0,
           Unbroken' /\ user[u].step \in {"joins", "switches", "cleans"} => user[u].held \notin Idle'
    PROVE  /\ QueueHoldsWaiters' /\ IdleIsTended'
           /\ waiters' \in Seq(Users) /\ IsInjective(waiters')
           /\ Unbroken' => Unbroken
<1>0. SingleTypeOK /\ QueueHoldsWaiters
  BY DEF SingleInductive
<1>1. /\ QueueHoldsWaiters'
      /\ waiters' \in Seq(Users) /\ IsInjective(waiters')
      /\ Unbroken' /\ singleFaults + closeAlls = 0 => Unbroken
  BY <1>0, QueueMoves
<1>2. Unbroken' => Unbroken
  BY <1>1 DEF Unbroken
<1>3. /\ u \in Users
      /\ \A v \in Users : v # u /\ v \notin g => user'[v] = user[v]
      /\ \A v \in g : user[v].step = "waits"
  BY <1>0, MovesCalls
<1>4. ASSUME Unbroken', NEW e \in Idle'
      PROVE  \E v \in Users : user'[v].held = e /\ user'[v].step \in {"joins", "switches", "cleans"}
  <2>1. PICK v \in Users : user[v].held = e /\ user[v].step \in {"joins", "switches", "cleans"}
    BY <1>2, <1>4 DEF SingleInductive, IdleIsTended
  <2>2. v # u /\ v \notin g
    BY <1>3, <1>4, <2>1
  <2> QED  BY <1>3, <2>1, <2>2
<1>5. IdleIsTended'
  BY <1>4 DEF IdleIsTended
<1> QED  BY <1>1, <1>2, <1>5

LEMMA TypesHold ==
    ASSUME SingleTypeOK,
           cap' = cap, pool' \in [Entries -> PoolEntries], current' \in Entries \cup {None},
           spawnOf' \in [Databases -> Entries \cup {None}], reserved' \in Nat, reserved' <= cap,
           waiters' \in Seq(Users), IsInjective(waiters'), user' \in [Users -> UserCalls],
           closer' \in {"off", "settling", "closing"},
           singleFaults' \in 0..UpsetMax, closeAlls' \in 0..UpsetMax
    PROVE  SingleTypeOK'
<1>1. reserved' \in 0..cap
  BY CallTypes
<1> QED  BY <1>1 DEF SingleTypeOK, PoolEntries, UserCalls

\* One entry changes.
LEMMA EntryMoves ==
    ASSUME SingleTypeOK, NEW e \in Entries, NEW x \in PoolEntries, pool' = [pool EXCEPT ![e] = x]
    PROVE  /\ pool' \in [Entries -> PoolEntries] /\ pool'[e] = x
           /\ \A d \in Entries : d # e => pool'[d] = pool[d]
           /\ \A s : In(s)' = IF x.life = s THEN In(s) \cup {e} ELSE In(s) \ {e}
<1>1. /\ pool' \in [Entries -> PoolEntries] /\ pool'[e] = x
      /\ \A d \in Entries : d # e => pool'[d] = pool[d]
  BY CallTypes
<1>2. ASSUME NEW s
      PROVE  In(s)' = IF x.life = s THEN In(s) \cup {e} ELSE In(s) \ {e}
  <2>1. \A d : d \in In(s)' <=> d \in Entries /\ pool'[d].life = s
    BY DEF In
  <2>2. \A d : d \in In(s) <=> d \in Entries /\ pool[d].life = s
    BY DEF In
  <2> QED  BY <1>1, <2>1, <2>2
<1> QED  BY <1>1, <1>2

LEMMA NewEntryTypes ==
    ASSUME SingleTypeOK, NEW s \in EntryStates, NEW b \in Databases \cup {NoBase}
    PROVE  /\ NewEntry(s, b) \in PoolEntries /\ NewEntry(s, b).life = s /\ NewEntry(s, b).uses = 0
           /\ NewEntry(s, b).base = b /\ ~NewEntry(s, b).resident
<1>1. Cardinality(Users) \in Nat
  BY SetsOfUsers
<1> QED  BY <1>1 DEF NewEntry, PoolEntries

\* An entry leaves connectionEntries or is closed at last.
LEMMA SettlesOne ==
    ASSUME SingleTypeOK, NEW e \in Entries, NEW x,
           \/ x = NewEntry("closing", pool[e].base)
           \/ x = NewEntry("closed", NoBase),
           pool[e].life \in {"listed", "closing", "closed"},
           pool[e].life = "listed" => \A v \in InUse(e) : user[v].late,
           pool' = [pool EXCEPT ![e] = x]
    PROVE  /\ PoolSettles /\ pool'[e] = x /\ x \in PoolEntries
           /\ x.life \in {"closing", "closed"} /\ In("listed")' = In("listed") \ {e}
<1>1. x \in PoolEntries /\ x.life \in {"closing", "closed"}
  <2>1. pool[e].base \in Databases \cup {NoBase}
    BY CallTypes DEF PoolEntries
  <2> QED  BY <2>1, NewEntryTypes DEF EntryStates
<1>2. /\ pool' \in [Entries -> PoolEntries] /\ pool'[e] = x
      /\ \A d \in Entries : d # e => pool'[d] = pool[d]
      /\ In("listed")' = IF x.life = "listed" THEN In("listed") \cup {e} ELSE In("listed") \ {e}
  BY <1>1, EntryMoves
<1> QED  BY <1>1, <1>2 DEF PoolSettles

LEMMA PoolStays ==
    ASSUME SingleTypeOK, pool' = pool
    PROVE  PoolSettles /\ In("listed")' = In("listed")
  BY CallTypes DEF PoolSettles, In

\* Changing the call of u, and nobody else's.
LEMMA MovesAlone ==
    ASSUME SingleTypeOK, NEW u \in Users, NEW c \in UserCalls, user' = [user EXCEPT ![u] = c]
    PROVE  Moves(u, c, {})
<1>1. user' = [v \in Users |-> IF v = u THEN c ELSE user[v]]
  BY CallTypes
<1> QED  BY <1>1 DEF Moves

LEMMA NoCallTypes == NoCall \in UserCalls /\ NoCall.step = "off" /\ CallOK(NoCall)'
  BY DEF NoCall, UserCalls, CallOK, Steps, Kinds, None

\* Closers, counted.
LEMMA CloserCount ==
    ASSUME SingleTypeOK, QueueHoldsWaiters, NEW u, NEW c, NEW g, Moves(u, c, g)
    PROVE  LET was == user[u].step \in {"evicts", "switches", "closes"}
               is == c.step \in {"evicts", "switches", "closes"}
           IN  /\ Cardinality(Closers) \in Nat /\ Cardinality(Closers') \in Nat
               /\ was = is => Cardinality(Closers') = Cardinality(Closers)
               /\ was /\ ~is => Cardinality(Closers') = Cardinality(Closers) - 1
               /\ ~was /\ is => Cardinality(Closers') = Cardinality(Closers) + 1
<1> DEFINE was == user[u].step \in {"evicts", "switches", "closes"}
           is == c.step \in {"evicts", "switches", "closes"}
<1>1. Closers' = IF is THEN Closers \cup {u} ELSE Closers \ {u}
  BY MovesSets
<1>2. Closers \subseteq Users /\ (u \in Closers <=> was) /\ Closers' \subseteq Users
  BY MovesCalls DEF Closers
<1> HIDE DEF was, is
<1>3. Cardinality(Closers) \in Nat /\ Cardinality(Closers') \in Nat
  BY <1>2, SetsOfUsers
<1>4. was /\ ~is => Cardinality(Closers') = Cardinality(Closers) - 1
  BY <1>1, <1>2, SetsOfUsers
<1>5. ~was /\ is => Cardinality(Closers') = Cardinality(Closers) + 1
  BY <1>1, <1>2, SetsOfUsers
<1>6. was = is => Closers' = Closers
  BY <1>1, <1>2
<1> QED  BY <1>3, <1>4, <1>5, <1>6 DEF was, is

-----------------------------------------------------------------------------
(* Closing an entry.                                                       *)

\* An entry leaves connectionEntries, a call awaits its close.
LEMMA RemovingPreserves ==
    ASSUME SingleInductive, Prompt, NEW u \in Users, NEW e \in In("listed"), NEW c \in UserCalls,
           user[u].step \in {"off", "cleans"},
           user[u].step = "off" \/ user[u].held = e,
           \A v \in InUse(e) : user[v].late,
           pool' = Removed(e), current' \in Entries \cup {None},
           user' = [user EXCEPT ![u] = c], c.step \in {"evicts", "closes"}, c.shuts = e,
           c.step = "evicts" => c.freed /\ c.base \in Databases,
           UNCHANGED <<cap, spawnOf, reserved, waiters, closer, closeAlls>>,
           singleFaults' \in 0..UpsetMax, singleFaults' >= singleFaults
    PROVE  SingleInductive'
<1>0. SingleTypeOK /\ QueueHoldsWaiters
  BY DEF SingleInductive
<1>1. e \in Entries /\ pool[e].life = "listed" /\ In("listed") \subseteq Entries
  BY DEF In
<1>2. Moves(u, c, {})
  BY <1>0, MovesAlone
<1>3. /\ PoolSettles /\ pool'[e].life \in {"closing", "closed"} /\ In("listed")' = In("listed") \ {e}
  <2>1. pool' = [pool EXCEPT ![e] = NewEntry("closing", pool[e].base)]
    BY DEF Removed
  <2> QED  BY <1>0, <1>1, <2>1, SettlesOne
<1>4. CallOK(c)'
  BY <1>1, <1>3 DEF CallOK
<1>5. /\ OpenForItsUsers' /\ SharedByAll' /\ CallsInOrder' /\ SpawnsAwaited' /\ JoinTogether'
      /\ UsesCounted' /\ CleanedOnlyByLate' /\ UntilCloseAll'
  BY <1>2, <1>3, <1>4, SettlesKeep DEF Prompt
<1>6. Spawning' = Spawning /\ Idle' \subseteq Idle
  BY <1>0, <1>3, SettledSets
<1>7. /\ QueueHoldsWaiters' /\ IdleIsTended' /\ waiters' \in Seq(Users) /\ IsInjective(waiters')
      /\ Unbroken' => Unbroken
  <2>1. Thinner(waiters', {})
    BY <1>0, SameThins
  <2>2. singleFaults' + closeAlls' = 0 => singleFaults + closeAlls = 0
    BY <1>0, CallTypes
  <2>3. e \notin Idle'
    BY <1>3 DEF Idle
  <2> QED  BY <1>2, <1>6, <2>1, <2>2, <2>3, SettlesQueue
<1>8. SlotsExact'
  <2>1. Granteds' = Granteds
    <3>1. u \notin Granteds /\ Granteds' = (Granteds \ {u}) \cup {}
      BY <1>0, <1>2, MovesSets DEF Granteds
    <3> QED  BY <3>1
  <2> QED  BY <1>6, <2>1 DEF SingleInductive, SlotsExact, Granteds
<1>9. ClosersCover'
  <2>1. Cardinality(Closers') = Cardinality(Closers) + 1 /\ Cardinality(Closers) \in Nat
    BY <1>0, <1>2, CloserCount
  <2>2. Cardinality(In("listed")') = Cardinality(In("listed")) - 1 /\ Cardinality(In("listed")) \in Nat
    BY <1>1, <1>3, SetsOfEntries
  <2>3. reserved \in Nat /\ cap \in Nat
    BY <1>0, CallTypes
  <2> QED  BY <1>7, <2>1, <2>2, <2>3 DEF SingleInductive, ClosersCover
<1>10. SingleTypeOK'
  <2>1. user' \in [Users -> UserCalls]
    BY <1>0, <1>2, MovesCalls
  <2> QED  BY <1>0, <1>3, <1>7, <2>1, CallTypes, TypesHold DEF PoolSettles, SingleTypeOK
<1> QED  BY <1>5, <1>7, <1>8, <1>9, <1>10 DEF SingleInductive

LEMMA CloseSharedPreserves ==
    ASSUME SingleInductive, NEW u \in Users, NEW b \in Databases, CloseShared(u, b), cap' = cap
    PROVE  SingleInductive'
<1>0. SingleTypeOK /\ UsesCounted
  BY DEF SingleInductive
<1>1. Prompt /\ user[u].step = "off"
  BY DEF CloseShared
<1>2. PICK e \in EntryOf(b) : /\ pool[e].uses = 0 /\ Removes(e)
                              /\ user' = [user EXCEPT ![u].step = "closes", ![u].shuts = e]
  BY DEF CloseShared
<1> DEFINE c == [user[u] EXCEPT !.step = "closes", !.shuts = e]
<1>3. e \in In("listed") /\ e \in Entries
  BY DEF EntryOf, In
<1>4. user' = [user EXCEPT ![u] = c]
  BY <1>0, <1>2, CallTypes
<1>5. c \in UserCalls /\ c.step = "closes" /\ c.shuts = e
  BY <1>0, <1>3, CallTypes DEF UserCalls, Steps
<1>6. \A v \in InUse(e) : user[v].late
  BY <1>0, <1>2, <1>3, UnusedEntry
<1>7. current' \in Entries \cup {None} /\ pool' = Removed(e)
  BY <1>0, <1>2, CallTypes DEF Removes
<1>8. UNCHANGED <<spawnOf, reserved, waiters, closer, singleFaults, closeAlls>>
  BY DEF CloseShared, upsets
<1>9. singleFaults' \in 0..UpsetMax /\ singleFaults' >= singleFaults
  BY <1>0, <1>8 DEF SingleTypeOK
<1> HIDE DEF c
<1> QED  BY <1>1, <1>3, <1>4, <1>5, <1>6, <1>7, <1>8, <1>9, RemovingPreserves

\* The cleanup of a check-in.
LEMMA CleanUpPreserves ==
    ASSUME SingleInductive, NEW u \in Users, NEW keeps, CleanUp(u, keeps), cap' = cap,
           keeps /\ waiters # <<>> => pool[user[u].held].resident, closeAlls' = closeAlls,
           singleFaults' \in 0..UpsetMax, singleFaults' >= singleFaults
    PROVE  SingleInductive'
<1> DEFINE e == user[u].held
<1>0. SingleTypeOK /\ QueueHoldsWaiters /\ CallsInOrder
  BY DEF SingleInductive
<1>1. Prompt /\ user[u].step = "cleans" /\ UNCHANGED <<spawnOf, reserved, waiters, closer>>
  BY DEF CleanUp
<1>2. e \in Entries
  BY <1>0, <1>1 DEF CallsInOrder, CallOK
<1>3. CASE keeps \/ e \notin In("listed")
  <2>1. user' = [user EXCEPT ![u] = NoCall] /\ UNCHANGED <<pool, current>>
    BY <1>3 DEF CleanUp, Over
  <2>2. Moves(u, NoCall, {}) /\ NoCall.step = "off" /\ CallOK(NoCall)'
    BY <1>0, <2>1, NoCallTypes, MovesAlone
  <2>3. PoolSettles /\ In("listed")' = In("listed")
    BY <1>0, <2>1, PoolStays
  <2>4. /\ OpenForItsUsers' /\ SharedByAll' /\ CallsInOrder' /\ SpawnsAwaited' /\ JoinTogether'
        /\ UsesCounted' /\ CleanedOnlyByLate' /\ UntilCloseAll'
    BY <1>1, <2>2, <2>3, SettlesKeep DEF Prompt
  <2>5. Spawning' = Spawning /\ Idle' = Idle
    BY <2>1 DEF Spawning, Idle, In
  <2>6. /\ QueueHoldsWaiters' /\ IdleIsTended' /\ waiters' \in Seq(Users) /\ IsInjective(waiters')
        /\ Unbroken' => Unbroken
    <3>1. Thinner(waiters', {})
      BY <1>0, <1>1, SameThins
    <3>2. singleFaults' + closeAlls' = 0 => singleFaults + closeAlls = 0
      BY <1>0, CallTypes
    <3>3. Unbroken' => e \notin Idle'
      <4>1. Unbroken' => waiters # <<>>
        BY <1>1 DEF Unbroken
      <4> QED  BY <1>3, <2>5, <4>1 DEF Idle
    <3> QED  BY <1>1, <2>2, <2>5, <3>1, <3>2, <3>3, SettlesQueue
  <2>7. SlotsExact'
    <3>1. Granteds' = Granteds
      <4>1. u \notin Granteds /\ Granteds' = (Granteds \ {u}) \cup {}
        BY <1>0, <1>1, <2>2, MovesSets DEF Granteds
      <4> QED  BY <4>1
    <3> QED  BY <1>1, <2>5, <3>1 DEF SingleInductive, SlotsExact, Granteds
  <2>8. ClosersCover'
    <3>1. Cardinality(Closers') = Cardinality(Closers)
      BY <1>0, <1>1, <2>2, CloserCount
    <3> QED  BY <1>1, <2>3, <2>6, <3>1 DEF SingleInductive, ClosersCover
  <2>9. SingleTypeOK'
    <3>1. user' \in [Users -> UserCalls]
      BY <1>0, <2>2, MovesCalls
    <3> QED  BY <1>0, <1>1, <2>1, <2>6, <3>1, CallTypes, TypesHold DEF SingleTypeOK
  <2> QED  BY <2>4, <2>6, <2>7, <2>8, <2>9 DEF SingleInductive
<1>4. CASE ~(keeps \/ e \notin In("listed"))
  <2> DEFINE c == [user[u] EXCEPT !.step = "closes", !.shuts = e]
  <2>1. Removes(e) /\ user' = [user EXCEPT ![u].step = "closes", ![u].shuts = e]
    BY <1>4 DEF CleanUp
  <2>2. user' = [user EXCEPT ![u] = c]
    BY <1>0, <2>1, CallTypes
  <2>3. c \in UserCalls /\ c.step = "closes" /\ c.shuts = e
    BY <1>0, <1>2, CallTypes DEF UserCalls, Steps
  <2>4. \A v \in InUse(e) : user[v].late
    BY <1>1, <1>4 DEF SingleInductive, CleanedOnlyByLate, InUse
  <2>5. current' \in Entries \cup {None} /\ pool' = Removed(e) /\ e \in In("listed")
    BY <1>0, <1>4, <2>1, CallTypes DEF Removes
  <2> HIDE DEF c, e
  <2>6. user[u].held = e
    BY DEF e
  <2> QED  BY <1>1, <2>2, <2>3, <2>4, <2>5, <2>6, RemovingPreserves
<1> QED  BY <1>3, <1>4

LEMMA CleanDonePreserves ==
    ASSUME SingleInductive, NEW u \in Users, CleanDone(u) \/ CleanFails(u), cap' = cap
    PROVE  SingleInductive'
<1>1. SingleTypeOK
  BY DEF SingleInductive
<1>2. CASE CleanDone(u)
  <2>1. singleFaults' = singleFaults /\ closeAlls' = closeAlls /\ singleFaults' \in 0..UpsetMax
    BY <1>1, <1>2 DEF CleanDone, SingleTypeOK
  <2>2. CleanUp(u, Keeps(user[u].held))
    BY <1>2 DEF CleanDone
  <2>3. Keeps(user[u].held) /\ waiters # <<>> => pool[user[u].held].resident
    BY DEF Keeps
  <2>4. singleFaults' >= singleFaults
    BY <2>1
  <2> QED  BY <2>1, <2>2, <2>3, <2>4, CleanUpPreserves
<1>3. CASE CleanFails(u)
  <2>1. singleFaults' = singleFaults + 1 /\ closeAlls' = closeAlls /\ singleFaults + closeAlls < UpsetMax
    BY <1>3 DEF CleanFails, SingleFault, Calm
  <2>2. singleFaults' \in 0..UpsetMax /\ singleFaults' >= singleFaults
    BY <1>1, <2>1, SinglePoolAssumption DEF SingleTypeOK
  <2>3. CleanUp(u, FALSE)
    BY <1>3 DEF CleanFails
  <2> QED  BY <2>1, <2>2, <2>3, CleanUpPreserves
<1> QED  BY <1>2, <1>3

LEMMA CloseThrowsPreserves ==
    ASSUME SingleInductive, NEW u \in Users, CloseThrows(u), cap' = cap
    PROVE  SingleInductive'
<1> DEFINE e == user[u].shuts
<1>0. SingleTypeOK /\ QueueHoldsWaiters /\ CallsInOrder
  BY DEF SingleInductive
<1>1. /\ Prompt /\ user[u].step \in {"evicts", "switches", "closes"} /\ SingleFault
      /\ pool' = Closed(e) /\ user' = [user EXCEPT ![u] = NoCall]
      /\ UNCHANGED <<current, spawnOf, reserved, waiters, closer>>
  BY DEF CloseThrows, Over
<1>2. e \in Entries /\ pool[e].life \in {"closing", "closed"}
  BY <1>0, <1>1 DEF CallsInOrder, CallOK
<1>3. Moves(u, NoCall, {}) /\ NoCall.step = "off" /\ CallOK(NoCall)'
  BY <1>0, <1>1, NoCallTypes, MovesAlone
<1>4. PoolSettles /\ In("listed")' = In("listed") \ {e}
  <2>1. pool' = [pool EXCEPT ![e] = NewEntry("closed", NoBase)]
    BY <1>1 DEF Closed
  <2> QED  BY <1>0, <1>2, <2>1, SettlesOne
<1>5. closeAlls' = closeAlls /\ singleFaults' = singleFaults + 1 /\ singleFaults' \in 0..UpsetMax
  BY <1>0, <1>1, SinglePoolAssumption DEF SingleFault, Calm, SingleTypeOK
<1>6. ~Unbroken'
  BY <1>0, <1>5, CallTypes DEF Unbroken
<1>7. /\ OpenForItsUsers' /\ SharedByAll' /\ CallsInOrder' /\ SpawnsAwaited' /\ JoinTogether'
      /\ UsesCounted' /\ CleanedOnlyByLate' /\ UntilCloseAll'
  BY <1>1, <1>3, <1>4, <1>5, SettlesKeep DEF Prompt
<1>8. Spawning' = Spawning
  BY <1>0, <1>4, SettledSets
<1>9. QueueHoldsWaiters' /\ waiters' \in Seq(Users) /\ IsInjective(waiters')
  <2>1. Thinner(waiters', {})
    BY <1>0, <1>1, SameThins
  <2> QED  BY <1>0, <1>1, <1>3, <2>1, QueueMoves
<1>10. SlotsExact'
  <2>1. Granteds' = Granteds
    <3>1. u \notin Granteds /\ Granteds' = (Granteds \ {u}) \cup {}
      BY <1>0, <1>1, <1>3, MovesSets DEF Granteds
    <3> QED  BY <3>1
  <2> QED  BY <1>1, <1>8, <2>1 DEF SingleInductive, SlotsExact, Granteds
<1>11. ClosersCover' /\ IdleIsTended'
  BY <1>6 DEF ClosersCover, IdleIsTended
<1>12. SingleTypeOK'
  <2>1. user' \in [Users -> UserCalls]
    BY <1>0, <1>3, MovesCalls
  <2> QED  BY <1>0, <1>1, <1>4, <1>5, <1>9, <2>1, CallTypes, TypesHold DEF SingleTypeOK, PoolSettles
<1> QED  BY <1>7, <1>9, <1>10, <1>11, <1>12 DEF SingleInductive

LEMMA ToldCounts ==
    ASSUME SingleTypeOK, QueueHoldsWaiters, NEW u, NEW c, NEW g, Moves(u, c, g), c.step # "granted",
           NEW L \in SUBSET Entries, NEW r \in Nat, r <= cap, Told(g, L, r)
    PROVE  /\ reserved' \in Nat /\ reserved' <= cap /\ reserved' >= r
           /\ Cardinality(L) \in Nat /\ Cardinality(Granteds) \in Nat /\ Cardinality(Granteds') \in Nat
           /\ user[u].step # "granted" => Cardinality(Granteds') + r = Cardinality(Granteds) + reserved'
           /\ user[u].step = "granted" => Cardinality(Granteds') + r + 1 = Cardinality(Granteds) + reserved'
           /\ waiters # <<>> => reserved' = r + 1 \/ cap <= Cardinality(L) + reserved'
<1>1. cap \in Nat
  BY CallTypes
<1>2. Cardinality(L) \in Nat
  BY SetsOfEntries
<1>3. g = {} \/ g = {Head(waiters)}
  BY DEF Told
<1>4. /\ Cardinality(Granteds') = Cardinality(Granteds) - (IF user[u].step = "granted" THEN 1 ELSE 0)
                                       + (IF g = {} THEN 0 ELSE 1)
      /\ Cardinality(Granteds) \in Nat /\ Cardinality(Granteds') \in Nat
  BY <1>3, GrantedCount
<1>5. CASE g = {}
  <2>1. reserved' = r /\ (waiters = <<>> \/ ~RoomFor(L, r))
    BY <1>5 DEF Told
  <2>2. Cardinality(Granteds') = Cardinality(Granteds) - (IF user[u].step = "granted" THEN 1 ELSE 0)
    BY <1>4, <1>5
  <2> QED  BY <1>1, <1>2, <1>4, <2>1, <2>2 DEF RoomFor
<1>6. CASE g # {}
  <2>1. reserved' = r + 1 /\ RoomFor(L, r)
    BY <1>6 DEF Told
  <2>2. Cardinality(Granteds') = Cardinality(Granteds) - (IF user[u].step = "granted" THEN 1 ELSE 0) + 1
    BY <1>4, <1>6
  <2> QED  BY <1>1, <1>2, <1>4, <2>1, <2>2 DEF RoomFor
<1> QED  BY <1>5, <1>6

\* An awaited close is done: the first waiter takes the slot if there is one.
LEMMA CloseDonePreserves ==
    ASSUME SingleInductive, NEW u \in Users, CloseDone(u), cap' = cap
    PROVE  SingleInductive'
<1> DEFINE e == user[u].shuts
<1>0. SingleTypeOK /\ QueueHoldsWaiters /\ CallsInOrder
  BY DEF SingleInductive
<1>1. /\ Prompt /\ user[u].step = "closes" /\ pool' = Closed(e)
      /\ Notified(In("listed"), reserved, Over(u))
      /\ UNCHANGED <<current, spawnOf, closer, singleFaults, closeAlls>>
  BY DEF CloseDone, upsets
<1>2. e \in Entries /\ pool[e].life \in {"closing", "closed"}
  BY <1>0, <1>1 DEF CallsInOrder, CallOK
<1>3. u \notin ToSet(waiters) /\ reserved \in Int
  BY <1>0, <1>1, CallTypes DEF QueueHoldsWaiters
<1>4. PICK g : Moves(u, NoCall, g) /\ Thinner(waiters', g) /\ Told(g, In("listed"), reserved)
  <2>1. Over(u) = [v \in Users |-> IF v = u THEN NoCall ELSE user[v]]
    BY <1>0, CallTypes DEF Over
  <2> HIDE DEF e
  <2> QED  BY <1>0, <1>1, <1>3, <2>1, NoCallTypes, NotifiedMoves
<1>5. NoCall.step = "off" /\ CallOK(NoCall)'
  BY NoCallTypes
<1>6. PoolSettles /\ In("listed")' = In("listed")
  <2>1. pool' = [pool EXCEPT ![e] = NewEntry("closed", NoBase)]
    BY <1>1 DEF Closed
  <2>2. PoolSettles /\ In("listed")' = In("listed") \ {e}
    BY <1>0, <1>2, <2>1, SettlesOne
  <2> QED  BY <1>2, <2>2 DEF In
<1> HIDE DEF e
<1>7. /\ OpenForItsUsers' /\ SharedByAll' /\ CallsInOrder' /\ SpawnsAwaited' /\ JoinTogether'
      /\ UsesCounted' /\ CleanedOnlyByLate' /\ UntilCloseAll'
  BY <1>1, <1>4, <1>5, <1>6, SettlesKeep DEF Prompt
<1>8. Spawning' = Spawning /\ Idle' \subseteq Idle
  BY <1>0, <1>6, SettledSets
<1>9. /\ QueueHoldsWaiters' /\ IdleIsTended' /\ waiters' \in Seq(Users) /\ IsInjective(waiters')
      /\ Unbroken' => Unbroken
  BY <1>1, <1>4, <1>5, <1>8, SettlesQueue
<1>10. /\ In("listed") \subseteq Entries /\ Spawning \subseteq Entries
       /\ reserved \in Nat /\ reserved <= cap /\ cap \in Nat
  BY <1>0, CallTypes DEF In, Spawning
<1>11. Cardinality(Closers') = Cardinality(Closers) - 1 /\ Cardinality(Closers) \in Nat /\ Cardinality(Closers') \in Nat
  BY <1>0, <1>1, <1>4, <1>5, CloserCount
<1>12. /\ reserved' \in Nat /\ reserved' <= cap /\ reserved' >= reserved
       /\ Cardinality(In("listed")) \in Nat /\ Cardinality(Granteds) \in Nat /\ Cardinality(Granteds') \in Nat
       /\ Cardinality(Granteds') + reserved = Cardinality(Granteds) + reserved'
       /\ waiters # <<>> => reserved' = reserved + 1 \/ cap <= Cardinality(In("listed")) + reserved'
  BY <1>0, <1>1, <1>4, <1>5, <1>10, ToldCounts
<1>13. Cardinality(Spawning) \in Nat
  BY <1>10, SetsOfEntries
<1>14. SlotsExact'
  <2>1. reserved = Cardinality(Spawning) + Cardinality(Granteds)
    BY DEF SingleInductive, SlotsExact, Granteds
  <2>2. reserved' = Cardinality(Spawning') + Cardinality(Granteds')
    BY <1>8, <1>10, <1>12, <1>13, <2>1
  <2> QED  BY <2>2 DEF SlotsExact, Granteds
<1>15. ClosersCover'
  <2> SUFFICES ASSUME Unbroken' PROVE cap <= Cardinality(In("listed")) + reserved' + Cardinality(Closers')
    BY <1>1, <1>6 DEF ClosersCover
  <2>1. cap <= Cardinality(In("listed")) + reserved + Cardinality(Closers) /\ waiters # <<>>
    BY <1>9 DEF SingleInductive, ClosersCover, Unbroken
  <2>2. CASE reserved' = reserved + 1
    BY <1>10, <1>11, <1>12, <2>1, <2>2
  <2>3. CASE cap <= Cardinality(In("listed")) + reserved'
    BY <1>10, <1>11, <1>12, <2>3
  <2> QED  BY <1>12, <2>1, <2>2, <2>3
<1>16. SingleTypeOK'
  <2>1. user' \in [Users -> UserCalls]
    BY <1>0, <1>4, MovesCalls
  <2> QED  BY <1>0, <1>1, <1>6, <1>9, <1>12, <2>1, CallTypes, TypesHold DEF SingleTypeOK, PoolSettles
<1> QED  BY <1>7, <1>9, <1>14, <1>15, <1>16 DEF SingleInductive

\* The slots after notifyCapacityWaiters: r is what the step before it left.
LEMMA ToldKeeps ==
    ASSUME SingleInductive, cap' = cap, NEW u, NEW c, NEW g, Moves(u, c, g), c.step # "granted",
           NEW r \in Nat, r <= cap, Told(g, In("listed")', r),
           r + (IF user[u].step = "granted" THEN 1 ELSE 0) = Cardinality(Spawning') + Cardinality(Granteds),
           Unbroken' => /\ Unbroken
                        /\ Cardinality(In("listed")) + reserved + Cardinality(Closers)
                               <= Cardinality(In("listed")') + r + 1 + Cardinality(Closers')
    PROVE  SlotsExact' /\ ClosersCover' /\ reserved' \in Nat /\ reserved' <= cap
<1>0. SingleTypeOK /\ QueueHoldsWaiters
  BY DEF SingleInductive
<1>1. In("listed")' \in SUBSET Entries /\ Spawning' \in SUBSET Entries /\ In("listed") \in SUBSET Entries
  BY DEF In, Spawning
<1>2. /\ reserved' \in Nat /\ reserved' <= cap /\ reserved' >= r
      /\ Cardinality(In("listed")') \in Nat /\ Cardinality(Granteds) \in Nat /\ Cardinality(Granteds') \in Nat
      /\ user[u].step # "granted" => Cardinality(Granteds') + r = Cardinality(Granteds) + reserved'
      /\ user[u].step = "granted" => Cardinality(Granteds') + r + 1 = Cardinality(Granteds) + reserved'
      /\ waiters # <<>> => reserved' = r + 1 \/ cap <= Cardinality(In("listed")') + reserved'
  <2> HIDE DEF Told, Moves
  <2> QED  BY <1>0, <1>1, ToldCounts
<1>3. /\ Cardinality(Spawning') \in Nat /\ Cardinality(In("listed")) \in Nat
      /\ Cardinality(Closers) \in Nat /\ Cardinality(Closers') \in Nat
      /\ cap \in Nat /\ reserved \in Nat
  <2>1. Cardinality(Closers) \in Nat /\ Cardinality(Closers') \in Nat
    BY <1>0, CloserCount
  <2>2. Cardinality(Spawning') \in Nat /\ Cardinality(In("listed")) \in Nat
    BY <1>1, SetsOfEntries
  <2> QED  BY <1>0, <2>1, <2>2, CallTypes
<1>4. SlotsExact'
  <2>1. reserved' = Cardinality(Spawning') + Cardinality(Granteds')
    <3>1. CASE user[u].step = "granted"
      BY <1>2, <1>3, <3>1
    <3>2. CASE user[u].step # "granted"
      BY <1>2, <1>3, <3>2
    <3> QED  BY <3>1, <3>2
  <2> QED  BY <2>1 DEF SlotsExact, Granteds
<1>5. ClosersCover'
  <2> SUFFICES ASSUME Unbroken' PROVE cap <= Cardinality(In("listed")') + reserved' + Cardinality(Closers')
    BY DEF ClosersCover
  <2>1. cap <= Cardinality(In("listed")) + reserved + Cardinality(Closers) /\ waiters # <<>>
    BY DEF SingleInductive, ClosersCover, Unbroken
  <2>2. Cardinality(In("listed")) + reserved + Cardinality(Closers)
            <= Cardinality(In("listed")') + r + 1 + Cardinality(Closers')
    OBVIOUS
  <2>3. CASE reserved' = r + 1
    BY <1>2, <1>3, <2>1, <2>2, <2>3
  <2>4. CASE cap <= Cardinality(In("listed")') + reserved'
    <3>1. \A k, a, n, b \in Nat : k <= a + n => k <= a + n + b
      OBVIOUS
    <3> QED  BY <1>2, <1>3, <2>4, <3>1
  <2> QED  BY <1>2, <2>1, <2>3, <2>4
<1> QED  BY <1>2, <1>4, <1>5

\* The waiter's timer.
LEMMA WaitTimesOutPreserves ==
    ASSUME SingleInductive, NEW u \in Users, WaitTimesOut(u), cap' = cap
    PROVE  SingleInductive'
<1>0. SingleTypeOK /\ QueueHoldsWaiters
  BY DEF SingleInductive
<1>1. /\ Prompt /\ user[u].step = "waits" /\ user' = [user EXCEPT ![u] = NoCall]
      /\ UNCHANGED <<pool, current, spawnOf, reserved, closer, singleFaults, closeAlls>>
  BY DEF WaitTimesOut, Over, upsets
<1>2. PICK i \in DOMAIN waiters : waiters[i] = u /\ waiters' = RemoveAt(waiters, i)
  BY DEF WaitTimesOut
<1>3. Thinner(waiters', {u})
  BY <1>0, <1>2, RemovalThins
<1>4. Moves(u, NoCall, {}) /\ NoCall.step = "off" /\ CallOK(NoCall)'
  BY <1>0, <1>1, NoCallTypes, MovesAlone
<1>5. PoolSettles /\ In("listed")' = In("listed") /\ Spawning' = Spawning /\ Idle' = Idle
  BY <1>0, <1>1, PoolStays DEF Spawning, Idle, In
<1>6. /\ OpenForItsUsers' /\ SharedByAll' /\ CallsInOrder' /\ SpawnsAwaited' /\ JoinTogether'
      /\ UsesCounted' /\ CleanedOnlyByLate' /\ UntilCloseAll'
  BY <1>1, <1>4, <1>5, SettlesKeep DEF Prompt
<1>7. \A v \in Users : v # u => user'[v] = user[v]
  BY <1>0, <1>4, MovesCalls
<1>8. user'[u].step = "off" /\ user' \in [Users -> UserCalls]
  BY <1>0, <1>4, MovesCalls
<1>9. /\ QueueHoldsWaiters' /\ waiters' \in Seq(Users) /\ IsInjective(waiters')
      /\ Unbroken' => Unbroken
  <2>1. {u} \subseteq ToSet(waiters)
    BY <1>2 DEF ToSet
  <2>2. ToSet(waiters) \subseteq Users
    BY <1>0, CallTypes DEF ToSet
  <2>3. /\ QueueHoldsWaiters' /\ waiters' \in Seq(Users) /\ IsInjective(waiters')
        /\ Unbroken' /\ singleFaults + closeAlls = 0 => Unbroken
    BY <1>0, <1>1, <1>3, <1>7, <1>8, <2>1, <2>2, QueueAfter
  <2> QED  BY <1>1, <2>3 DEF Unbroken
<1>10. SlotsExact'
  <2>1. Granteds' = Granteds
    <3>1. u \notin Granteds /\ Granteds' = (Granteds \ {u}) \cup {}
      BY <1>0, <1>1, <1>4, MovesSets DEF Granteds
    <3> QED  BY <3>1
  <2> QED  BY <1>1, <1>5, <2>1 DEF SingleInductive, SlotsExact, Granteds
<1>11. ClosersCover'
  <2>1. Cardinality(Closers') = Cardinality(Closers)
    BY <1>0, <1>1, <1>4, CloserCount
  <2> QED  BY <1>1, <1>5, <1>9, <2>1 DEF SingleInductive, ClosersCover
<1>12. IdleIsTended'
  <2> SUFFICES ASSUME Unbroken', NEW e \in Idle'
               PROVE  \E v \in Users : user'[v].held = e /\ user'[v].step \in {"joins", "switches", "cleans"}
    BY DEF IdleIsTended
  <2>1. PICK v \in Users : user[v].held = e /\ user[v].step \in {"joins", "switches", "cleans"}
    BY <1>5, <1>9 DEF SingleInductive, IdleIsTended
  <2> QED  BY <1>1, <1>7, <2>1
<1>13. SingleTypeOK'
  BY <1>0, <1>1, <1>8, <1>9, CallTypes, TypesHold DEF SingleTypeOK
<1> QED  BY <1>6, <1>9, <1>10, <1>11, <1>12, <1>13 DEF SingleInductive

\* A granted waiter finds its database open, or opening, and gives the slot back.
LEMMA GivesBackPreserves ==
    ASSUME SingleInductive, NEW u \in Users, user[u].step = "granted", \A v \in Users : ~Joinable(v),
           NEW e \in In("listed") \cup Spawning,
           Notified(In("listed"), reserved - 1, [user EXCEPT ![u].step = "joins", ![u].held = e]),
           UNCHANGED <<cap, pool, spawnOf, current, upsets>>
    PROVE  SingleInductive'
<1>0. SingleTypeOK /\ QueueHoldsWaiters
  BY DEF SingleInductive
<1>1. e \in Entries /\ pool[e].life # "unborn"
  BY DEF In, Spawning
<1>2. PICK c \in UserCalls : c.step = "joins" /\ c.held = e /\ c = [user[u] EXCEPT !.step = "joins", !.held = e]
  <2>1. [user[u] EXCEPT !.step = "joins", !.held = e] \in UserCalls
    BY <1>0, <1>1, CallTypes DEF UserCalls, Steps
  <2>2. user[u] \in UserCalls
    BY <1>0, CallTypes
  <2> QED  BY <2>1, <2>2 DEF UserCalls
<1>3. Notified(In("listed"), reserved - 1, [v \in Users |-> IF v = u THEN c ELSE user[v]])
  <2>1. [user EXCEPT ![u].step = "joins", ![u].held = e] = [v \in Users |-> IF v = u THEN c ELSE user[v]]
    BY <1>0, <1>2, CallTypes
  <2> QED  BY <2>1
<1>16. c \in UserCalls /\ c.step = "joins" /\ c.held = e
  BY <1>2
<1>4. /\ In("listed") \in SUBSET Entries /\ Spawning \in SUBSET Entries
      /\ reserved \in Nat /\ reserved <= cap /\ cap \in Nat
  BY <1>0, CallTypes DEF In, Spawning
<1>5. /\ Cardinality(Spawning) \in Nat /\ Cardinality(Granteds) \in Nat /\ Cardinality(Granteds) > 0
      /\ reserved = Cardinality(Spawning) + Cardinality(Granteds)
  <2>1. u \in Granteds /\ Granteds \subseteq Users
    BY DEF Granteds
  <2>2. Cardinality(Granteds) \in Nat /\ Cardinality(Granteds) # 0
    BY <2>1, SetsOfUsers
  <2>3. Cardinality(Spawning) \in Nat
    BY <1>4, SetsOfEntries
  <2> QED  BY <2>2, <2>3 DEF SingleInductive, SlotsExact, Granteds
<1>6. reserved - 1 \in Nat /\ reserved - 1 <= cap /\ reserved - 1 \in Int
  BY <1>4, <1>5
<1>7. u \notin ToSet(waiters)
  BY <1>0 DEF QueueHoldsWaiters
<1>8. PICK g : Moves(u, c, g) /\ Thinner(waiters', g) /\ Told(g, In("listed"), reserved - 1)
  <2> DEFINE r == reserved - 1
  <2>1. r \in Int /\ Notified(In("listed"), r, [v \in Users |-> IF v = u THEN c ELSE user[v]])
    BY <1>3, <1>6
  <2> HIDE DEF r
  <2>2. \E g : Moves(u, c, g) /\ Thinner(waiters', g) /\ Told(g, In("listed"), r)
    BY <1>0, <1>16, <1>7, <2>1, NotifiedMoves
  <2> QED  BY <2>2 DEF r
<1>9. PoolSettles /\ In("listed")' = In("listed") /\ Spawning' = Spawning /\ Idle' = Idle
  BY <1>0, PoolStays DEF Spawning, Idle, In
<1>10. CallOK(c)'
  BY <1>1, <1>2 DEF CallOK
<1>11. UNCHANGED <<closer, singleFaults, closeAlls>>
  BY DEF upsets
<1>12. /\ OpenForItsUsers' /\ SharedByAll' /\ CallsInOrder' /\ SpawnsAwaited' /\ JoinTogether'
       /\ UsesCounted' /\ CleanedOnlyByLate' /\ UntilCloseAll'
  BY <1>2, <1>8, <1>9, <1>10, <1>11, SettlesKeep
<1>13. /\ QueueHoldsWaiters' /\ IdleIsTended' /\ waiters' \in Seq(Users) /\ IsInjective(waiters')
       /\ Unbroken' => Unbroken
  BY <1>2, <1>8, <1>9, <1>11, SettlesQueue
<1>14. SlotsExact' /\ ClosersCover' /\ reserved' \in Nat /\ reserved' <= cap
  <2>1. Cardinality(Closers') = Cardinality(Closers) /\ Cardinality(Closers) \in Nat
    BY <1>0, <1>16, <1>8, CloserCount
  <2>2. Cardinality(In("listed")) \in Nat
    BY <1>4, SetsOfEntries
  <2> DEFINE r == reserved - 1
  <2>3. Told(g, In("listed")', r) /\ r \in Nat /\ r <= cap
    BY <1>6, <1>8, <1>9
  <2>4. r + 1 = Cardinality(Spawning') + Cardinality(Granteds)
    BY <1>4, <1>5, <1>9
  <2>5. Cardinality(In("listed")) + reserved + Cardinality(Closers)
            <= Cardinality(In("listed")') + r + 1 + Cardinality(Closers')
    BY <1>4, <1>9, <2>1, <2>2
  <2> HIDE DEF r
  <2> QED  BY <1>2, <1>8, <1>13, <2>3, <2>4, <2>5, ToldKeeps
<1>15. SingleTypeOK'
  <2>1. user' \in [Users -> UserCalls]
    BY <1>0, <1>8, MovesCalls
  <2> QED  BY <1>0, <1>11, <1>13, <1>14, <2>1, CallTypes, TypesHold DEF SingleTypeOK
<1> QED  BY <1>12, <1>13, <1>14, <1>15 DEF SingleInductive

-----------------------------------------------------------------------------
(* Making room.                                                            *)

\* A call goes to the end of the waiters, W being those still there.
LEMMA QueueGrows ==
    ASSUME SingleTypeOK, QueueHoldsWaiters, NEW W, NEW S, Thinner(W, S), NEW u \in Users,
           u \notin ToSet(waiters), waiters' = Append(W, u),
           \A v \in Users \ {u} : user'[v].step = "waits" <=> user[v].step = "waits" /\ v \notin S,
           user'[u].step = "waits",
           \A v \in ToSet(waiters) \ S : user'[v].freed = user[v].freed,
           (\E v \in ToSet(W) : user[v].freed) => user'[u].freed
    PROVE  /\ QueueHoldsWaiters'
           /\ waiters' \in Seq(Users) /\ IsInjective(waiters')
           /\ Unbroken' /\ singleFaults + closeAlls = 0 =>
                  (W = <<>> /\ ~user'[u].freed) \/ (W # <<>> /\ Unbroken)
<1>1. W \in Seq(Users) /\ IsInjective(W) /\ ToSet(W) = ToSet(waiters) \ S
  BY DEF Thinner
<1> DEFINE n == Len(W) + 1
<1>2. /\ waiters' \in Seq(Users) /\ n \in Nat /\ DOMAIN waiters' = 1..n /\ DOMAIN W = 1..(n - 1)
      /\ waiters'[n] = u /\ \A i \in DOMAIN W : waiters'[i] = W[i]
  <2>1. Len(W) \in Nat /\ waiters' \in Seq(Users) /\ Len(waiters') = n /\ waiters'[n] = u
        /\ \A i \in 1..Len(W) : waiters'[i] = W[i]
    BY <1>1, AppendProperties
  <2> QED  BY <1>1, <2>1
<1> HIDE DEF n
<1>3. \A i \in DOMAIN waiters' : i \in DOMAIN W \/ i = n
  BY <1>2
<1>4. \A i \in DOMAIN W : W[i] \in ToSet(W) /\ W[i] # u
  <2>1. \A i \in DOMAIN W : W[i] \in ToSet(W)
    BY DEF ToSet
  <2> QED  BY <2>1, <1>1
<1>5. IsInjective(waiters')
  <2> SUFFICES ASSUME NEW i \in DOMAIN waiters', NEW j \in DOMAIN waiters', waiters'[i] = waiters'[j]
               PROVE  i = j
    BY DEF IsInjective
  <2>1. CASE i \in DOMAIN W /\ j \in DOMAIN W
    BY <1>1, <1>2, <2>1 DEF IsInjective
  <2> QED  BY <1>2, <1>3, <1>4, <2>1
<1>6. ToSet(waiters') = ToSet(W) \cup {u}
  BY <1>2, <1>3 DEF ToSet
<1>7. \A v \in Users : user'[v].step = "waits" <=> v \in ToSet(waiters')
  BY <1>1, <1>6 DEF QueueHoldsWaiters
<1>8. ASSUME NEW i \in DOMAIN waiters', NEW j \in DOMAIN waiters', i < j, user'[waiters'[i]].freed
      PROVE  user'[waiters'[j]].freed
  <2>1. i \in DOMAIN W /\ waiters'[i] = W[i] /\ W[i] \in ToSet(W)
    BY <1>2, <1>3, <1>4, <1>8
  <2>2. user[W[i]].freed
    BY <1>1, <1>8, <2>1
  <2>3. CASE j = n
    BY <1>2, <2>1, <2>2, <2>3
  <2>4. CASE j \in DOMAIN W
    <3>1. PICK k \in DOMAIN waiters, l \in DOMAIN waiters : k < l /\ waiters[k] = W[i] /\ waiters[l] = W[j]
      BY <1>8, <2>1, <2>4 DEF Thinner
    <3>2. user[W[j]].freed
      BY <2>2, <3>1 DEF QueueHoldsWaiters
    <3> QED  BY <1>1, <1>2, <1>4, <2>4, <3>2
  <2> QED  BY <1>3, <2>3, <2>4
<1>9. ASSUME Unbroken', singleFaults + closeAlls = 0
      PROVE  (W = <<>> /\ ~user'[u].freed) \/ (W # <<>> /\ Unbroken)
  <2>1. waiters' # <<>> /\ Head(waiters') = waiters'[1] /\ 1 \in DOMAIN waiters' /\ ~user'[waiters'[1]].freed
    <3>1. Len(waiters') \in Nat \ {0} /\ waiters' # <<>>
      BY <1>2
    <3> QED  BY <1>2, <1>9, <3>1 DEF Unbroken
  <2>2. CASE W = <<>>
    BY <1>2, <2>1, <2>2
  <2>3. CASE W # <<>>
    <3>1. 1 \in DOMAIN W /\ waiters'[1] = W[1]
      BY <1>1, <1>2, <2>3
    <3>2. PICK l \in DOMAIN waiters : waiters[l] = W[1]
      BY <3>1 DEF Thinner
    <3>3. ~user[waiters[l]].freed
      BY <1>1, <1>4, <2>1, <3>1, <3>2
    <3>4. waiters # <<>> /\ Head(waiters) = waiters[1] /\ 1 \in DOMAIN waiters /\ (l = 1 \/ 1 < l)
      BY CallTypes
    <3>5. ~user[waiters[1]].freed
      BY <3>3, <3>4 DEF QueueHoldsWaiters
    <3> QED  BY <1>9, <2>3, <3>4, <3>5 DEF Unbroken
  <2> QED  BY <2>2, <2>3
<1> QED  BY <1>2, <1>5, <1>7, <1>8, <1>9 DEF QueueHoldsWaiters

\* A closed idle connection gave the first waiter its slot; its own call looks again.
EvictTells(u, W, g) ==
    /\ Thinner(W, g) /\ g \subseteq ToSet(waiters) /\ Told(g, In("listed"), reserved)
    /\ \/ \E e \in Idle :
              /\ pool' = [Closed(user[u].shuts) EXCEPT ![e] = NewEntry("closing", pool[e].base)]
              /\ current' \in {None, current} /\ waiters' = W
              /\ user' = [v \in Users |-> IF v = u THEN [user[u] EXCEPT !.shuts = e]
                                          ELSE IF v \in g THEN [user[v] EXCEPT !.step = "granted"] ELSE user[v]]
       \/ /\ Idle = {} /\ pool' = Closed(user[u].shuts) /\ current' = current /\ waiters' = Append(W, u)
          /\ user' = [v \in Users |-> IF v = u THEN [user[u] EXCEPT !.step = "waits", !.shuts = None]
                                      ELSE IF v \in g THEN [user[v] EXCEPT !.step = "granted"] ELSE user[v]]

LEMMA EvictDoneTells ==
    ASSUME SingleTypeOK, QueueHoldsWaiters, CallsInOrder, NEW u \in Users, EvictDone(u)
    PROVE  \E W, g : EvictTells(u, W, g)
<1> DEFINE full == ~(Room /\ waiters # <<>>)
           woken == IF Room /\ waiters # <<>> THEN <<Head(waiters)>> ELSE <<>>
           rest == IF woken = <<>> THEN waiters ELSE Tail(waiters)
           told == [v \in Users |-> IF v \in ToSet(woken) THEN [user[v] EXCEPT !.step = "granted"] ELSE user[v]]
           shut == Closed(user[u].shuts)
           g == ToSet(woken)
<1>1. /\ user[u].step = "evicts" /\ reserved' = reserved + Len(woken)
      /\ \/ \E e \in Idle :
              /\ pool' = [shut EXCEPT ![e] = NewEntry("closing", @.base)]
              /\ current' = IF current = e THEN None ELSE current
              /\ user' = [told EXCEPT ![u].shuts = e]
              /\ waiters' = rest
         \/ /\ Idle = {}
            /\ pool' = shut
            /\ user' = [told EXCEPT ![u].step = "waits", ![u].shuts = None]
            /\ waiters' = Append(rest, u)
            /\ UNCHANGED current
  BY DEF EvictDone
<1>2. u \notin ToSet(waiters)
  BY <1>1 DEF QueueHoldsWaiters
<1>3. Thinner(rest, g) /\ g \subseteq ToSet(waiters) /\ Told(g, In("listed"), reserved)
  <2>1. CASE full
    <3>1. woken = <<>> /\ g = {} /\ rest = waiters /\ Len(woken) = 0
      BY <2>1 DEF ToSet
    <3>2. reserved \in Nat
      BY CallTypes
    <3> HIDE DEF woken, rest, g
    <3> QED  BY <1>1, <2>1, <3>1, <3>2, SameThins DEF Told, Room
  <2>2. CASE ~full
    <3>1. woken = <<Head(waiters)>> /\ woken # <<>> /\ rest = Tail(waiters) /\ Len(woken) = 1
      BY <2>2
    <3>2. g = {Head(waiters)}
      <4>1. DOMAIN woken = {1} /\ woken[1] = Head(waiters)
        BY <3>1
      <4> HIDE DEF woken
      <4> QED  BY <4>1 DEF ToSet
    <3> HIDE DEF woken, rest, g
    <3>3. Thinner(rest, g) /\ g \subseteq ToSet(waiters)
      BY <2>2, <3>1, <3>2, TailThins
    <3>4. Told(g, In("listed"), reserved)
      BY <1>1, <2>2, <3>1, <3>2 DEF Told, Room
    <3> QED  BY <3>3, <3>4
  <2> QED  BY <2>1, <2>2
<1>4. told = [v \in Users |-> IF v \in g THEN [user[v] EXCEPT !.step = "granted"] ELSE user[v]] /\ u \notin g
  BY <1>2, <1>3
<1>5. user[u].shuts \in Entries /\ pool[user[u].shuts].life \in {"closing", "closed"}
  BY <1>1 DEF CallsInOrder, CallOK
<1> HIDE DEF woken, rest, told, full, g
<1>6. CASE Idle = {} /\ pool' = shut /\ user' = [told EXCEPT ![u].step = "waits", ![u].shuts = None]
           /\ waiters' = Append(rest, u) /\ UNCHANGED current
  <2>1. user' = [v \in Users |-> IF v = u THEN [user[u] EXCEPT !.step = "waits", !.shuts = None]
                                 ELSE IF v \in g THEN [user[v] EXCEPT !.step = "granted"] ELSE user[v]]
    BY <1>4, <1>6
  <2>2. EvictTells(u, rest, g)
    BY <1>3, <1>6, <2>1 DEF EvictTells
  <2> QED  BY <2>2
<1>7. ASSUME NEW e \in Idle, pool' = [shut EXCEPT ![e] = NewEntry("closing", @.base)],
             current' = IF current = e THEN None ELSE current,
             user' = [told EXCEPT ![u].shuts = e], waiters' = rest
      PROVE  \E W, s : EvictTells(u, W, s)
  <2>1. user' = [v \in Users |-> IF v = u THEN [user[u] EXCEPT !.shuts = e]
                                 ELSE IF v \in g THEN [user[v] EXCEPT !.step = "granted"] ELSE user[v]]
    BY <1>4, <1>7
  <2>2. pool' = [shut EXCEPT ![e] = NewEntry("closing", pool[e].base)]
    <3>1. shut[e] = pool[e]
      BY <1>5, CallTypes DEF Closed, Idle, In
    <3> QED  BY <1>7, <3>1
  <2>3. EvictTells(u, rest, g)
    BY <1>3, <1>7, <2>1, <2>2 DEF EvictTells
  <2> QED  BY <2>3
<1> QED  BY <1>1, <1>6, <1>7

LEMMA EvictDonePreserves ==
    ASSUME SingleInductive, NEW u \in Users, EvictDone(u), cap' = cap
    PROVE  SingleInductive'
<1>0. SingleTypeOK /\ QueueHoldsWaiters /\ CallsInOrder
  BY DEF SingleInductive
<1>1. /\ Prompt /\ user[u].step = "evicts"
      /\ UNCHANGED <<spawnOf, closer, singleFaults, closeAlls>>
  BY DEF EvictDone, upsets
<1>2. PICK W, g : EvictTells(u, W, g)
  BY <1>0, EvictDoneTells
<1>3. Thinner(W, g) /\ g \subseteq ToSet(waiters) /\ Told(g, In("listed"), reserved) /\ u \notin g
      /\ u \notin ToSet(waiters)
  BY <1>0, <1>1, <1>2 DEF EvictTells, QueueHoldsWaiters
<1>4. user[u] \in UserCalls /\ user[u].base \in Databases /\ user[u].freed
      /\ user[u].shuts \in Entries /\ pool[user[u].shuts].life \in {"closing", "closed"}
  BY <1>0, <1>1, CallTypes DEF CallsInOrder, CallOK
<1>5. /\ In("listed") \in SUBSET Entries /\ Spawning \in SUBSET Entries
      /\ reserved \in Nat /\ reserved <= cap /\ cap \in Nat
  BY <1>0, CallTypes DEF In, Spawning
<1>6. /\ Cardinality(In("listed")) \in Nat /\ Cardinality(Spawning) \in Nat /\ Cardinality(Granteds) \in Nat
      /\ reserved = Cardinality(Spawning) + Cardinality(Granteds)
  <2>1. Cardinality(In("listed")) \in Nat /\ Cardinality(Spawning) \in Nat
    BY <1>5, SetsOfEntries
  <2>2. Cardinality(Granteds) \in Nat
    BY SetsOfUsers DEF Granteds
  <2> QED  BY <2>1, <2>2 DEF SingleInductive, SlotsExact, Granteds
<1> DEFINE s == user[u].shuts
<1>7. CASE \E e \in Idle :
              /\ pool' = [Closed(s) EXCEPT ![e] = NewEntry("closing", pool[e].base)]
              /\ current' \in {None, current} /\ waiters' = W
              /\ user' = [v \in Users |-> IF v = u THEN [user[u] EXCEPT !.shuts = e]
                                          ELSE IF v \in g THEN [user[v] EXCEPT !.step = "granted"] ELSE user[v]]
  <2>1. PICK e \in Idle :
              /\ pool' = [Closed(s) EXCEPT ![e] = NewEntry("closing", pool[e].base)]
              /\ current' \in {None, current} /\ waiters' = W
              /\ user' = [v \in Users |-> IF v = u THEN [user[u] EXCEPT !.shuts = e]
                                          ELSE IF v \in g THEN [user[v] EXCEPT !.step = "granted"] ELSE user[v]]
    BY <1>7
  <2>2. e \in In("listed") /\ e \in Entries /\ pool[e].life = "listed" /\ pool[e].uses = 0 /\ e # s
    BY <1>4 DEF Idle, In
  <2>3. PICK c \in UserCalls : c = [user[u] EXCEPT !.shuts = e]
    BY <1>4, <2>2 DEF UserCalls
  <2>4. c \in UserCalls /\ c.step = "evicts" /\ c.shuts = e /\ c.freed /\ c.base \in Databases
    BY <1>1, <1>4, <2>3 DEF UserCalls
  <2>5. Moves(u, c, g)
    BY <1>3, <2>1, <2>3 DEF Moves
  <2>6. /\ pool' \in [Entries -> PoolEntries] /\ pool'[e].life = "closing" /\ pool'[s].life = "closed"
        /\ \A d \in Entries : d # e /\ d # s => pool'[d] = pool[d]
    <3>1. pool[e].base \in Databases \cup {NoBase}
      BY <1>0, <2>2, CallTypes DEF PoolEntries
    <3>2. NewEntry("closing", pool[e].base) \in PoolEntries /\ NewEntry("closing", pool[e].base).life = "closing"
      BY <1>0, <3>1, NewEntryTypes DEF EntryStates
    <3>3. NewEntry("closed", NoBase) \in PoolEntries /\ NewEntry("closed", NoBase).life = "closed"
      BY <1>0, NewEntryTypes DEF EntryStates
    <3>4. pool' = [[pool EXCEPT ![s] = NewEntry("closed", NoBase)] EXCEPT ![e] = NewEntry("closing", pool[e].base)]
      BY <2>1 DEF Closed
    <3>5. pool \in [Entries -> PoolEntries] /\ s \in Entries
      BY <1>0, <1>4, CallTypes
    <3> HIDE DEF s
    <3> QED  BY <2>2, <3>2, <3>3, <3>4, <3>5
  <2>7. \A v \in InUse(e) : user[v].late
    BY <1>0, <2>2, UnusedEntry DEF SingleInductive
  <2>8. PoolSettles
    BY <1>4, <2>2, <2>6, <2>7 DEF PoolSettles
  <2>9. In("listed")' = In("listed") \ {e}
    BY <1>4, <2>2, <2>6 DEF In
  <2>10. CallOK(c)'
    BY <2>2, <2>4, <2>6 DEF CallOK
  <2> HIDE DEF s
  <2>11. /\ OpenForItsUsers' /\ SharedByAll' /\ CallsInOrder' /\ SpawnsAwaited' /\ JoinTogether'
         /\ UsesCounted' /\ CleanedOnlyByLate' /\ UntilCloseAll'
    BY <1>1, <2>4, <2>5, <2>8, <2>10, SettlesKeep DEF Prompt
  <2>12. Spawning' = Spawning /\ Idle' \subseteq Idle
    BY <1>0, <2>8, SettledSets
  <2>13. /\ QueueHoldsWaiters' /\ IdleIsTended' /\ waiters' \in Seq(Users) /\ IsInjective(waiters')
         /\ Unbroken' => Unbroken
    BY <1>1, <1>3, <2>1, <2>4, <2>5, <2>12, SettlesQueue
  <2>14. /\ reserved' \in Nat /\ reserved' <= cap /\ reserved' >= reserved
         /\ Cardinality(Granteds') \in Nat
         /\ Cardinality(Granteds') + reserved = Cardinality(Granteds) + reserved'
         /\ waiters # <<>> => reserved' = reserved + 1 \/ cap <= Cardinality(In("listed")) + reserved'
    BY <1>0, <1>1, <1>3, <1>5, <2>4, <2>5, ToldCounts
  <2>15. SlotsExact'
    <3>1. reserved' = Cardinality(Spawning') + Cardinality(Granteds')
      BY <1>5, <1>6, <2>12, <2>14
    <3> QED  BY <3>1 DEF SlotsExact, Granteds
  <2>16. ClosersCover'
    <3> SUFFICES ASSUME Unbroken' PROVE cap <= Cardinality(In("listed")') + reserved' + Cardinality(Closers')
      BY <1>1 DEF ClosersCover
    <3>1. cap <= Cardinality(In("listed")) + reserved + Cardinality(Closers) /\ waiters # <<>>
      BY <2>13 DEF SingleInductive, ClosersCover, Unbroken
    <3>2. Cardinality(Closers') = Cardinality(Closers) /\ Cardinality(Closers') \in Nat /\ Cardinality(Closers') # 0
      <4>1. Cardinality(Closers') = Cardinality(Closers) /\ Cardinality(Closers') \in Nat
        BY <1>0, <1>1, <2>4, <2>5, CloserCount
      <4>2. u \in Closers /\ Closers \subseteq Users
        BY <1>1 DEF Closers
      <4>3. Cardinality(Closers) # 0
        BY <4>2, SetsOfUsers
      <4> QED  BY <4>1, <4>3
    <3>3. Cardinality(In("listed")') = Cardinality(In("listed")) - 1
      BY <1>5, <2>2, <2>9, SetsOfEntries
    <3>4. \A k, a, n, n1, b \in Nat : b # 0 /\ ((k <= a + n + b /\ n1 = n + 1) \/ k <= a + n1) => k <= (a - 1) + n1 + b
      OBVIOUS
    <3> QED  BY <1>5, <1>6, <2>14, <3>1, <3>2, <3>3, <3>4
  <2>17. SingleTypeOK'
    <3>1. user' \in [Users -> UserCalls]
      BY <1>0, <2>5, MovesCalls
    <3>2. current' \in Entries \cup {None}
      BY <1>0, <2>1, CallTypes
    <3> QED  BY <1>0, <1>1, <2>6, <2>13, <2>14, <3>1, <3>2, CallTypes, TypesHold DEF SingleTypeOK
  <2> QED  BY <2>11, <2>13, <2>15, <2>16, <2>17 DEF SingleInductive
<1>8. CASE /\ Idle = {} /\ pool' = Closed(s) /\ current' = current /\ waiters' = Append(W, u)
           /\ user' = [v \in Users |-> IF v = u THEN [user[u] EXCEPT !.step = "waits", !.shuts = None]
                                       ELSE IF v \in g THEN [user[v] EXCEPT !.step = "granted"] ELSE user[v]]
  <2>1. PICK c \in UserCalls : c = [user[u] EXCEPT !.step = "waits", !.shuts = None]
    BY <1>4 DEF UserCalls, Steps
  <2>2. c \in UserCalls /\ c.step = "waits" /\ c.freed /\ c.base \in Databases
    BY <1>4, <2>1 DEF UserCalls
  <2>3. Moves(u, c, g)
    BY <1>3, <1>8, <2>1 DEF Moves
  <2>4. PoolSettles /\ In("listed")' = In("listed")
    <3>1. pool' = [pool EXCEPT ![s] = NewEntry("closed", NoBase)]
      BY <1>8 DEF Closed
    <3>2. PoolSettles /\ In("listed")' = In("listed") \ {s}
      BY <1>0, <1>4, <3>1, SettlesOne
    <3> QED  BY <1>4, <3>2 DEF In
  <2> HIDE DEF s
  <2>5. CallOK(c)'
    BY <2>2 DEF CallOK
  <2>6. /\ OpenForItsUsers' /\ SharedByAll' /\ CallsInOrder' /\ SpawnsAwaited' /\ JoinTogether'
        /\ UsesCounted' /\ CleanedOnlyByLate' /\ UntilCloseAll'
    BY <1>1, <2>2, <2>3, <2>4, <2>5, SettlesKeep DEF Prompt
  <2>7. Spawning' = Spawning /\ Idle' = {}
    BY <1>0, <1>8, <2>4, SettledSets
  <2>8. /\ user'[u] = c /\ user' \in [Users -> UserCalls]
        /\ \A v \in Users : v # u /\ v \notin g => user'[v] = user[v]
        /\ \A v \in g : user[v].step = "waits" /\ user'[v].step = "granted"
    BY <1>0, <2>3, MovesCalls
  <2>9. /\ QueueHoldsWaiters' /\ waiters' \in Seq(Users) /\ IsInjective(waiters')
        /\ Unbroken' => Unbroken
    <3>1. ToSet(waiters) \subseteq Users
      BY <1>0, CallTypes DEF ToSet
    <3>2. \A v \in Users \ {u} : user'[v].step = "waits" <=> user[v].step = "waits" /\ v \notin g
      BY <2>8
    <3>3. \A v \in ToSet(waiters) \ g : user'[v].freed = user[v].freed
      BY <1>3, <2>8, <3>1
    <3>4. user'[u].step = "waits" /\ user'[u].freed
      BY <2>2, <2>8
    <3>5. /\ QueueHoldsWaiters' /\ waiters' \in Seq(Users) /\ IsInjective(waiters')
          /\ Unbroken' /\ singleFaults + closeAlls = 0 =>
                  (W = <<>> /\ ~user'[u].freed) \/ (W # <<>> /\ Unbroken)
      BY <1>0, <1>3, <1>8, <3>2, <3>3, <3>4, QueueGrows
    <3> QED  BY <1>1, <3>4, <3>5 DEF Unbroken
  <2>10. SlotsExact' /\ ClosersCover' /\ reserved' \in Nat /\ reserved' <= cap
    <3>1. Cardinality(Closers') = Cardinality(Closers) - 1 /\ Cardinality(Closers') \in Nat /\ Cardinality(Closers) \in Nat
      BY <1>0, <1>1, <2>2, <2>3, CloserCount
    <3>2. Cardinality(In("listed")) + reserved + Cardinality(Closers)
            <= Cardinality(In("listed")') + reserved + 1 + Cardinality(Closers')
      BY <1>5, <1>6, <2>4, <3>1
    <3>3. Told(g, In("listed")', reserved) /\ user[u].step # "granted" /\ c.step # "granted"
      BY <1>1, <1>3, <2>2, <2>4
    <3>4. reserved + (IF user[u].step = "granted" THEN 1 ELSE 0) = Cardinality(Spawning') + Cardinality(Granteds)
      BY <1>5, <1>6, <2>7, <3>3
    <3> QED  BY <1>5, <2>3, <2>9, <3>2, <3>3, <3>4, ToldKeeps
  <2>11. IdleIsTended'
    BY <2>7 DEF IdleIsTended
  <2>12. SingleTypeOK'
    BY <1>0, <1>1, <1>8, <2>4, <2>8, <2>9, <2>10, CallTypes, TypesHold DEF SingleTypeOK, PoolSettles
  <2> QED  BY <2>6, <2>9, <2>10, <2>11, <2>12 DEF SingleInductive
<1> QED  BY <1>2, <1>7, <1>8 DEF EvictTells

-----------------------------------------------------------------------------
(* Checking out.                                                           *)

\* Another user opens the database: the call awaits that.
LEMMA CheckOutJoins ==
    ASSUME SingleInductive, Prompt, NEW u \in Users, user[u].step = "off", NEW b \in Databases, NEW c \in UserCalls,
           spawnOf[b] # None, c.step = "joins", c.held = spawnOf[b], user' = [user EXCEPT ![u] = c],
           UNCHANGED <<cap, pool, current, spawnOf, reserved, waiters, upsets>>
    PROVE  SingleInductive'
<1>0. SingleTypeOK /\ QueueHoldsWaiters
  BY DEF SingleInductive
<1>1. c.held \in Spawning /\ c.held \in Entries /\ pool[c.held].life # "unborn"
  <2>1. PICK v \in Users : Joining(v, spawnOf[b])
    BY DEF SingleInductive, SpawnsAwaited
  <2>2. c.held \in Spawning
    BY <2>1 DEF Joining, Prompt, Joinable
  <2> QED  BY <2>2 DEF Spawning, In
<1>2. Moves(u, c, {}) /\ CallOK(c)'
  BY <1>0, <1>1, MovesAlone DEF CallOK
<1>3. PoolSettles /\ In("listed")' = In("listed") /\ Spawning' = Spawning /\ Idle' = Idle
  BY <1>0, PoolStays DEF Spawning, Idle, In
<1>4. UNCHANGED <<closer, singleFaults, closeAlls>>
  BY DEF upsets
<1>5. /\ OpenForItsUsers' /\ SharedByAll' /\ CallsInOrder' /\ SpawnsAwaited' /\ JoinTogether'
      /\ UsesCounted' /\ CleanedOnlyByLate' /\ UntilCloseAll'
  BY <1>1, <1>2, <1>3, <1>4, SettlesKeep DEF Prompt
<1>6. /\ QueueHoldsWaiters' /\ IdleIsTended' /\ waiters' \in Seq(Users) /\ IsInjective(waiters')
      /\ Unbroken' => Unbroken
  <2>1. Thinner(waiters', {})
    BY <1>0, SameThins
  <2> QED  BY <1>2, <1>3, <1>4, <2>1, SettlesQueue
<1>7. SlotsExact'
  <2>1. Granteds' = Granteds
    <3>1. u \notin Granteds /\ Granteds' = (Granteds \ {u}) \cup {}
      BY <1>0, <1>2, MovesSets DEF Granteds
    <3> QED  BY <3>1
  <2> QED  BY <1>3, <2>1 DEF SingleInductive, SlotsExact, Granteds
<1>8. ClosersCover'
  <2>1. Cardinality(Closers') = Cardinality(Closers)
    BY <1>0, <1>2, CloserCount
  <2> QED  BY <1>3, <1>6, <2>1 DEF SingleInductive, ClosersCover
<1>9. SingleTypeOK'
  <2>1. user' \in [Users -> UserCalls]
    BY <1>0, <1>2, MovesCalls
  <2> QED  BY <1>0, <1>4, <1>6, <2>1, CallTypes, TypesHold DEF SingleTypeOK
<1> QED  BY <1>5, <1>6, <1>7, <1>8, <1>9 DEF SingleInductive

\* No slot, no idle connection: the call goes to the end of the waiters.
LEMMA CheckOutWaits ==
    ASSUME SingleInductive, Prompt, NEW u \in Users, user[u].step = "off", NEW c \in UserCalls,
           waiters # <<>> \/ ~Room, Idle = {}, waiters' = Append(waiters, u),
           c.step = "waits", c.base \in Databases, c.freed = (\E v \in ToSet(waiters) : user[v].freed),
           user' = [user EXCEPT ![u] = c],
           UNCHANGED <<cap, pool, current, spawnOf, reserved, upsets>>
    PROVE  SingleInductive'
<1>0. SingleTypeOK /\ QueueHoldsWaiters
  BY DEF SingleInductive
<1>1. u \notin ToSet(waiters)
  BY <1>0 DEF QueueHoldsWaiters
<1>2. Moves(u, c, {}) /\ CallOK(c)'
  BY <1>0, MovesAlone DEF CallOK
<1>3. PoolSettles /\ In("listed")' = In("listed") /\ Spawning' = Spawning /\ Idle' = Idle
  BY <1>0, PoolStays DEF Spawning, Idle, In
<1>4. UNCHANGED <<closer, singleFaults, closeAlls>>
  BY DEF upsets
<1>5. /\ OpenForItsUsers' /\ SharedByAll' /\ CallsInOrder' /\ SpawnsAwaited' /\ JoinTogether'
      /\ UsesCounted' /\ CleanedOnlyByLate' /\ UntilCloseAll'
  BY <1>2, <1>3, <1>4, SettlesKeep DEF Prompt
<1>6. /\ user'[u] = c /\ user' \in [Users -> UserCalls]
      /\ \A v \in Users : v # u => user'[v] = user[v]
  BY <1>0, <1>2, MovesCalls
<1>7. /\ QueueHoldsWaiters' /\ waiters' \in Seq(Users) /\ IsInjective(waiters')
      /\ Unbroken' => (waiters = <<>> \/ Unbroken) /\ singleFaults + closeAlls = 0
  <2>1. ToSet(waiters) \subseteq Users
    BY <1>0, CallTypes DEF ToSet
  <2>2. Thinner(waiters, {}) /\ {} \subseteq ToSet(waiters)
    BY <1>0, SameThins
  <2>3. \A v \in Users \ {u} : user'[v].step = "waits" <=> user[v].step = "waits" /\ v \notin {}
    BY <1>6
  <2>4. \A v \in ToSet(waiters) \ {} : user'[v].freed = user[v].freed
    BY <1>1, <1>6, <2>1
  <2>5. user'[u].step = "waits" /\ ((\E v \in ToSet(waiters) : user[v].freed) => user'[u].freed)
    BY <1>6
  <2>6. /\ QueueHoldsWaiters' /\ waiters' \in Seq(Users) /\ IsInjective(waiters')
        /\ Unbroken' /\ singleFaults + closeAlls = 0 =>
                  (waiters = <<>> /\ ~user'[u].freed) \/ (waiters # <<>> /\ Unbroken)
    BY <1>0, <1>1, <2>2, <2>3, <2>4, <2>5, QueueGrows
  <2> QED  BY <1>4, <2>6 DEF Unbroken
<1>8. SlotsExact'
  <2>1. Granteds' = Granteds
    <3>1. u \notin Granteds /\ Granteds' = (Granteds \ {u}) \cup {}
      BY <1>0, <1>2, MovesSets DEF Granteds
    <3> QED  BY <3>1
  <2> QED  BY <1>3, <2>1 DEF SingleInductive, SlotsExact, Granteds
<1>9. ClosersCover'
  <2> SUFFICES ASSUME Unbroken' PROVE cap <= Cardinality(In("listed")) + reserved + Cardinality(Closers')
    BY <1>3 DEF ClosersCover
  <2>1. Cardinality(Closers') = Cardinality(Closers) /\ Cardinality(Closers) \in Nat
    BY <1>0, <1>2, CloserCount
  <2>2. Cardinality(In("listed")) \in Nat /\ reserved \in Nat /\ cap \in Nat
    <3>1. In("listed") \subseteq Entries
      BY DEF In
    <3> QED  BY <1>0, <3>1, SetsOfEntries, CallTypes
  <2>3. CASE waiters = <<>>
    <3>1. ~(Cardinality(In("listed")) + reserved < cap)
      BY <2>3 DEF Room, RoomFor
    <3> QED  BY <2>1, <2>2, <3>1
  <2>4. CASE Unbroken
    BY <2>1, <2>4 DEF SingleInductive, ClosersCover
  <2> QED  BY <1>7, <2>3, <2>4
<1>10. IdleIsTended'
  BY <1>3 DEF IdleIsTended
<1>11. SingleTypeOK'
  BY <1>0, <1>4, <1>6, <1>7, CallTypes, TypesHold DEF SingleTypeOK
<1> QED  BY <1>5, <1>7, <1>8, <1>9, <1>10, <1>11 DEF SingleInductive

\* An idle connection is closed to make room.
LEMMA CheckOutEvicts ==
    ASSUME SingleInductive, Prompt, NEW u \in Users, user[u].step = "off", NEW c \in UserCalls, NEW e \in Idle,
           Removes(e), c.step = "evicts", c.shuts = e, c.freed, c.base \in Databases,
           user' = [user EXCEPT ![u] = c],
           UNCHANGED <<cap, spawnOf, reserved, waiters, upsets>>
    PROVE  SingleInductive'
<1>1. SingleTypeOK /\ UsesCounted
  BY DEF SingleInductive
<1>2. e \in In("listed") /\ pool[e].uses = 0
  BY DEF Idle
<1>3. \A v \in InUse(e) : user[v].late
  BY <1>1, <1>2, UnusedEntry
<1>4. current' \in Entries \cup {None} /\ pool' = Removed(e)
  BY <1>1, CallTypes DEF Removes
<1>5. UNCHANGED <<closer, singleFaults, closeAlls>>
  BY DEF upsets
<1>6. singleFaults' \in 0..UpsetMax /\ singleFaults' >= singleFaults
  BY <1>1, <1>5 DEF SingleTypeOK
<1> QED  BY <1>2, <1>3, <1>4, <1>5, <1>6, RemovingPreserves

\* A connection is opened.
LEMMA SpawnsPreserves ==
    ASSUME SingleInductive, \A v \in Users : ~Joinable(v), NEW u \in Users, NEW call \in UserCalls,
           call.base \in Databases, Spawns(u, call), user[u].step \in {"off", "granted"},
           EntryOf(call.base) = {}, spawnOf[call.base] = None,
           user[u].step = "granted" => reserved' = reserved,
           user[u].step = "off" => reserved' = reserved + 1 /\ Room,
           UNCHANGED <<cap, current, waiters, upsets>>
    PROVE  SingleInductive'
<1>0. SingleTypeOK /\ QueueHoldsWaiters /\ CallsInOrder
  BY DEF SingleInductive
<1>1. PICK b \in Databases : b = call.base
  OBVIOUS
<1>2. PICK e \in In("unborn") :
            /\ pool' = [pool EXCEPT ![e] = NewEntry("spawning", b)]
            /\ spawnOf' = [spawnOf EXCEPT ![b] = e]
            /\ user' = [user EXCEPT ![u] = [call EXCEPT !.step = "joins", !.held = e]]
  BY <1>1 DEF Spawns
<1>3. e \in Entries /\ pool[e].life = "unborn" /\ e # None
  BY <1>0, CallTypes DEF In
<1>4. PICK c \in UserCalls : c = [call EXCEPT !.step = "joins", !.held = e]
  BY <1>3 DEF UserCalls, Steps
<1>5. c \in UserCalls /\ c.step = "joins" /\ c.held = e /\ user' = [user EXCEPT ![u] = c]
  BY <1>2, <1>4 DEF UserCalls
<1>6. Moves(u, c, {})
  BY <1>0, <1>5, MovesAlone
<1>7. /\ user'[u] = c /\ user' \in [Users -> UserCalls]
      /\ \A v \in Users : v # u => user'[v] = user[v]
  BY <1>0, <1>6, MovesCalls
<1>8. UNCHANGED <<closer, singleFaults, closeAlls>>
  BY DEF upsets
<1>9. /\ pool' \in [Entries -> PoolEntries] /\ pool'[e].life = "spawning" /\ pool'[e].uses = 0 /\ pool'[e].base = b
      /\ \A d \in Entries : d # e => pool'[d] = pool[d]
  <2>1. /\ NewEntry("spawning", b) \in PoolEntries /\ NewEntry("spawning", b).life = "spawning"
        /\ NewEntry("spawning", b).uses = 0 /\ NewEntry("spawning", b).base = b
    BY <1>0, NewEntryTypes DEF EntryStates
  <2> QED  BY <1>0, <1>2, <1>3, <2>1, EntryMoves
<1>10. /\ Spawning' = Spawning \cup {e} /\ e \notin Spawning /\ In("outdated")' = In("outdated")
       /\ In("stray")' = In("stray") /\ In("listed")' = In("listed") /\ Idle' = Idle
       /\ e \notin In("stray") /\ e \notin In("listed")
  <2>1. \A s : s # "unborn" /\ s # "spawning" => In(s)' = In(s)
    BY <1>3, <1>9 DEF In
  <2>2. In("spawning")' = In("spawning") \cup {e}
    BY <1>3, <1>9 DEF In
  <2>3. e \notin Spawning /\ e \notin In("stray") /\ e \notin In("listed")
    BY <1>3 DEF Spawning, In
  <2>4. Idle' = Idle
    BY <1>9, <2>1, <2>3 DEF Idle, In
  <2> QED  BY <2>1, <2>2, <2>3, <2>4 DEF Spawning
<1>11. spawnOf' \in [Databases -> Entries \cup {None}] /\ spawnOf'[b] = e
       /\ \A a \in Databases : a # b => spawnOf'[a] = spawnOf[a]
  BY <1>0, <1>2, <1>3, CallTypes
<1>12. CallsInOrder'
  <2>1. LivesGoOn
    BY <1>3, <1>9 DEF LivesGoOn
  <2>2. CallOK(c)'
    BY <1>3, <1>5, <1>9 DEF CallOK
  <2> QED  BY <1>0, <1>6, <2>1, <2>2, OrderMoves
<1>13. \A v \in Users : user'[v].step \in {"using", "cleans"} => user'[v] = user[v]
  BY <1>5, <1>7
<1>14. OpenForItsUsers'
  BY <1>8, <1>10, <1>13 DEF SingleInductive, OpenForItsUsers
<1>15. closeAlls = 0 => \A d \in Spawning \cup In("listed") \cup In("stray") : pool[d].base # b
  <2> SUFFICES ASSUME closeAlls = 0, NEW d \in Spawning \cup In("listed") \cup In("stray"), pool[d].base = b
               PROVE  FALSE
    OBVIOUS
  <2>1. d \notin In("stray")
    BY DEF SingleInductive, UntilCloseAll
  <2>2. d \notin In("listed")
    BY <1>1 DEF EntryOf
  <2>3. d \in Spawning /\ spawnOf[b] = d /\ d \in Entries
    BY <2>1, <2>2 DEF SingleInductive, UntilCloseAll, Spawning, In
  <2> QED  BY <1>0, <1>1, <2>3, CallTypes
<1>16. SharedByAll'
  <2> SUFFICES ASSUME closeAlls = 0, NEW d \in Spawning' \cup In("listed")' \cup In("stray")',
                      NEW f \in Spawning' \cup In("listed")' \cup In("stray")', pool'[d].base = pool'[f].base
               PROVE  d = f
    BY <1>8 DEF SharedByAll
  <2>1. \A x \in Spawning \cup In("listed") \cup In("stray") : x # e /\ pool'[x] = pool[x]
    BY <1>9, <1>10 DEF Spawning, In
  <2>2. d \in Spawning \cup In("listed") \cup In("stray") \/ d = e
    BY <1>10
  <2>3. f \in Spawning \cup In("listed") \cup In("stray") \/ f = e
    BY <1>10
  <2> QED  BY <1>9, <1>15, <2>1, <2>2, <2>3 DEF SingleInductive, SharedByAll
<1>17. \A v \in Users : \A d : Joining(v, d) => Joining(v, d)'
  BY <1>7 DEF Joining
<1>18. SpawnsAwaited'
  <2>1. Joining(u, e)'
    BY <1>5, <1>7 DEF Joining
  <2>2. \A d \in Spawning : pool'[d] = pool[d]
    BY <1>9, <1>10 DEF Spawning, In
  <2>3. ASSUME NEW d \in Spawning'
        PROVE  pool'[d].base \in Databases /\ pool'[d].uses = 0 /\ \E v \in Users : Joining(v, d)'
    <3>1. CASE d = e
      BY <1>9, <2>1, <3>1
    <3>2. CASE d \in Spawning
      <4>1. PICK v \in Users : Joining(v, d)
        BY <3>2 DEF SingleInductive, SpawnsAwaited
      <4>2. Joining(v, d)'
        BY <1>17, <4>1
      <4> QED  BY <2>2, <3>2, <4>2 DEF SingleInductive, SpawnsAwaited
    <3> QED  BY <1>10, <3>1, <3>2
  <2>4. ASSUME NEW a \in Databases, spawnOf'[a] # None
        PROVE  \E v \in Users : Joining(v, spawnOf[a])'
    <3>1. CASE a = b
      BY <1>5, <1>7, <1>11, <3>1 DEF Joining
    <3>2. CASE a # b
      <4>1. spawnOf'[a] = spawnOf[a] /\ spawnOf[a] # None
        BY <1>11, <2>4, <3>2
      <4>2. PICK v \in Users : Joining(v, spawnOf[a])
        BY <4>1 DEF SingleInductive, SpawnsAwaited
      <4> QED  BY <1>7, <4>1, <4>2 DEF Joining
    <3> QED  BY <3>1, <3>2
  <2> QED  BY <2>3, <2>4 DEF SpawnsAwaited
<1>19. JoinTogether'
  <2>1. \A v \in Users : ~Joinable(v)'
    BY <1>5, <1>7, <1>10 DEF Joinable
  <2> QED  BY <2>1 DEF JoinTogether
<1>20. UsesCounted'
  <2> SUFFICES ASSUME NEW d \in In("listed") PROVE pool'[d].uses = Cardinality(InUse(d)')
    BY <1>10 DEF UsesCounted
  <2>1. InUse(d)' = InUse(d)
    <3>1. u \notin InUse(d) /\ InUse(d)' = InUse(d) \ {u}
      BY <1>0, <1>5, <1>6, MovesSets DEF InUse
    <3> QED  BY <3>1
  <2>2. pool'[d] = pool[d]
    BY <1>9, <1>10 DEF In
  <2> QED  BY <2>1, <2>2 DEF SingleInductive, UsesCounted
<1>21. CleanedOnlyByLate'
  BY <1>10, <1>13 DEF SingleInductive, CleanedOnlyByLate
<1>22. UntilCloseAll'
  <2> SUFFICES ASSUME closeAlls = 0
               PROVE  \A d \in Spawning' : spawnOf'[pool'[d].base] = d
    BY <1>8, <1>10 DEF SingleInductive, UntilCloseAll
  <2> SUFFICES ASSUME NEW d \in Spawning' PROVE spawnOf'[pool'[d].base] = d
    OBVIOUS
  <2>1. CASE d = e
    BY <1>9, <1>11, <2>1
  <2>2. CASE d \in Spawning
    <3>1. pool'[d] = pool[d] /\ pool[d].base # b /\ pool[d].base \in Databases /\ spawnOf[pool[d].base] = d
      BY <1>9, <1>10, <1>15, <2>2 DEF SingleInductive, SpawnsAwaited, UntilCloseAll, Spawning, In
    <3> QED  BY <1>11, <3>1
  <2> QED  BY <1>10, <2>1, <2>2
<1>23. /\ QueueHoldsWaiters' /\ IdleIsTended' /\ waiters' \in Seq(Users) /\ IsInjective(waiters')
       /\ Unbroken' => Unbroken
  <2>1. Thinner(waiters', {})
    BY <1>0, SameThins
  <2> QED  BY <1>5, <1>6, <1>8, <1>10, <2>1, SettlesQueue
<1>24. /\ reserved \in Nat /\ reserved <= cap /\ cap \in Nat
       /\ Cardinality(In("listed")) \in Nat /\ Cardinality(Spawning) \in Nat
       /\ Cardinality(Spawning') = Cardinality(Spawning) + 1
  <2>1. In("listed") \subseteq Entries /\ Spawning \subseteq Entries
    BY DEF In, Spawning
  <2> QED  BY <1>0, <1>10, <2>1, CallTypes, SetsOfEntries
<1>25. reserved' \in Nat /\ reserved' <= cap /\ reserved' >= reserved
  <2>1. CASE user[u].step = "granted"
    BY <1>24, <2>1
  <2>2. CASE user[u].step = "off"
    BY <1>24, <2>2 DEF Room, RoomFor
  <2> QED  BY <2>1, <2>2
<1>26. SlotsExact'
  <2>1. reserved = Cardinality(Spawning) + Cardinality(Granteds)
    BY DEF SingleInductive, SlotsExact, Granteds
  <2>2. Granteds \subseteq Users /\ Granteds' = Granteds \ {u} /\ (u \in Granteds <=> user[u].step = "granted")
    <3>1. Granteds' = (Granteds \ {u}) \cup {}
      BY <1>0, <1>5, <1>6, MovesSets
    <3> QED  BY <3>1 DEF Granteds
  <2>3. Cardinality(Granteds) \in Nat
    BY <2>2, SetsOfUsers
  <2>4. reserved' = Cardinality(Spawning') + Cardinality(Granteds')
    <3>1. CASE user[u].step = "granted"
      <4>1. Cardinality(Granteds') = Cardinality(Granteds) - 1
        BY <2>2, <3>1, SetsOfUsers
      <4> QED  BY <1>24, <2>1, <2>3, <3>1, <4>1
    <3>2. CASE user[u].step = "off"
      <4>1. Granteds' = Granteds
        BY <2>2, <3>2
      <4> QED  BY <1>24, <2>1, <2>3, <3>2, <4>1
    <3> QED  BY <3>1, <3>2
  <2> QED  BY <2>4 DEF SlotsExact, Granteds
<1>27. ClosersCover'
  <2>1. Cardinality(Closers') = Cardinality(Closers) /\ Cardinality(Closers) \in Nat
    BY <1>0, <1>5, <1>6, CloserCount
  <2>2. Unbroken' => cap <= Cardinality(In("listed")) + reserved + Cardinality(Closers)
    BY <1>23 DEF SingleInductive, ClosersCover
  <2>3. Unbroken' => cap <= Cardinality(In("listed")) + reserved' + Cardinality(Closers)
    BY <1>24, <1>25, <2>1, <2>2
  <2> QED  BY <1>10, <2>1, <2>3 DEF ClosersCover
<1>28. SingleTypeOK'
  BY <1>0, <1>7, <1>8, <1>9, <1>11, <1>23, <1>25, CallTypes, TypesHold DEF SingleTypeOK
<1> QED  BY <1>12, <1>14, <1>16, <1>18, <1>19, <1>20, <1>21, <1>22, <1>23, <1>26, <1>27, <1>28 DEF SingleInductive

LEMMA GrantedPreserves ==
    ASSUME SingleInductive, NEW u \in Users, Granted(u), cap' = cap
    PROVE  SingleInductive'
<1>0. SingleTypeOK /\ CallsInOrder
  BY DEF SingleInductive
<1> DEFINE b == user[u].base
           there == EntryOf(b) \cup ({spawnOf[b]} \ {None})
<1>1. /\ user[u].step = "granted" /\ \A v \in Users : ~Joinable(v)
      /\ UNCHANGED <<current, upsets>>
      /\ \/ there = {} /\ Spawns(u, user[u]) /\ UNCHANGED <<reserved, waiters>>
         \/ /\ \E e \in IF EntryOf(b) # {} THEN EntryOf(b) ELSE there :
                   Notified(In("listed"), reserved - 1, [user EXCEPT ![u].step = "joins", ![u].held = e])
            /\ UNCHANGED <<pool, spawnOf>>
  BY DEF Granted
<1>2. user[u] \in UserCalls /\ b \in Databases
  BY <1>0, <1>1, CallTypes DEF CallsInOrder, CallOK
<1>3. CASE there = {} /\ Spawns(u, user[u]) /\ UNCHANGED <<reserved, waiters>>
  <2>1. EntryOf(b) = {} /\ spawnOf[b] = None
    BY <1>3
  <2> QED  BY <1>1, <1>2, <1>3, <2>1, SpawnsPreserves
<1>4. ASSUME NEW e \in IF EntryOf(b) # {} THEN EntryOf(b) ELSE there,
             Notified(In("listed"), reserved - 1, [user EXCEPT ![u].step = "joins", ![u].held = e]),
             UNCHANGED <<pool, spawnOf>>
      PROVE  SingleInductive'
  <2>1. e \in In("listed") \cup Spawning
    <3>1. CASE EntryOf(b) # {}
      BY <1>4, <3>1 DEF EntryOf
    <3>2. CASE EntryOf(b) = {}
      <4>1. e = spawnOf[b] /\ spawnOf[b] # None
        BY <1>4, <3>2
      <4>2. PICK v \in Users : Joining(v, spawnOf[b])
        BY <1>2, <4>1 DEF SingleInductive, SpawnsAwaited
      <4> QED  BY <1>1, <4>1, <4>2 DEF Joining, Joinable
    <3> QED  BY <3>1, <3>2
  <2> QED  BY <1>1, <1>4, <2>1, GivesBackPreserves
<1> HIDE DEF there
<1> QED  BY <1>1, <1>3, <1>4

\* What Takes does: at most one idle connection closes, the use is counted unless one does.
TakesAs(u, e, c, shut) ==
    /\ shut \subseteq Idle \ {e} /\ c \in UserCalls /\ c.held = e /\ user' = [user EXCEPT ![u] = c]
    /\ (\E v \in Users : user[v].step = "cleans" /\ user[v].held = e) => c.late
    /\ current' \in {e, current}
    /\ \/ shut = {} /\ c.step = "using"
       \/ c.step = "switches" /\ c.late /\ c.shuts \in Entries /\ shut = {c.shuts}
    /\ pool' \in [Entries -> [life : EntryStates, base : Databases \cup {NoBase}, uses : Nat,
                              resident : BOOLEAN, ambient : BOOLEAN]]
    /\ \A d \in Entries :
          /\ pool'[d].life = (IF d \in shut THEN "closing" ELSE pool[d].life) /\ pool'[d].base = pool[d].base
          /\ d \in shut => pool'[d].uses = 0
          /\ d \notin shut => /\ pool'[d].resident = pool[d].resident
                              /\ pool'[d].uses = IF d = e /\ shut = {} THEN pool[d].uses + 1 ELSE pool[d].uses

LEMMA TakesDoes ==
    ASSUME SingleTypeOK, NEW u \in Users, NEW e \in In("listed"), NEW call \in UserCalls, Takes(u, e, call)
    PROVE  \E c, shut : TakesAs(u, e, c, shut)
<1> DEFINE ambient == call.kind = "ambient"
           last == IF ambient THEN {current} \cap (In("listed") \ {e}) ELSE {}
           shut == last \cap Idle
           cleaned == \E v \in Users : user[v].step = "cleans" /\ user[v].held = e
           taken == [call EXCEPT !.held = e, !.late = cleaned \/ shut # {}]
           c == IF shut = {} THEN [taken EXCEPT !.step = "using"]
                ELSE [taken EXCEPT !.step = "switches", !.shuts = current]
<1>1. /\ current' = IF ambient THEN e ELSE current
      /\ pool' = [d \in Entries |->
                      IF d \in shut THEN NewEntry("closing", pool[d].base)
                      ELSE [pool[d] EXCEPT !.ambient = (@ /\ d \notin last) \/ (d = e /\ ambient),
                                           !.uses = IF d = e /\ shut = {} THEN @ + 1 ELSE @]]
      /\ user' = [user EXCEPT ![u] = c]
  BY DEF Takes
<1>2. e \in Entries /\ shut \subseteq Idle \ {e} /\ shut \subseteq {current}
  BY DEF In
<1>3. shut # {} => current \in Entries /\ shut = {current}
  BY <1>2 DEF Idle, In
<1>4. taken \in UserCalls /\ taken.held = e /\ taken.late = (cleaned \/ shut # {})
  <2> HIDE DEF shut, cleaned
  <2>1. (cleaned \/ shut # {}) \in BOOLEAN
    OBVIOUS
  <2> QED  BY <1>2, <2>1 DEF UserCalls
<1> HIDE DEF taken
<1>5. c \in UserCalls /\ c.held = e /\ (cleaned => c.late)
      /\ (shut = {} => c.step = "using") /\ (shut # {} => c.step = "switches" /\ c.late /\ c.shuts = current)
  <2> HIDE DEF shut, cleaned
  <2>1. CASE shut = {}
    BY <1>4, <2>1 DEF UserCalls, Steps
  <2>2. CASE shut # {}
    BY <1>3, <1>4, <2>2 DEF UserCalls, Steps
  <2> QED  BY <2>1, <2>2
<1>6. ASSUME NEW d \in Entries
      PROVE  /\ pool'[d] \in [life : EntryStates, base : Databases \cup {NoBase}, uses : Nat,
                              resident : BOOLEAN, ambient : BOOLEAN]
             /\ pool'[d].life = (IF d \in shut THEN "closing" ELSE pool[d].life) /\ pool'[d].base = pool[d].base
             /\ d \in shut => pool'[d].uses = 0
             /\ d \notin shut => /\ pool'[d].resident = pool[d].resident
                                 /\ pool'[d].uses = IF d = e /\ shut = {} THEN pool[d].uses + 1 ELSE pool[d].uses
  <2>1. pool[d] \in PoolEntries
    BY CallTypes
  <2>2. Cardinality(Users) \in Nat
    BY SetsOfUsers
  <2>3. CASE d \in shut
    <3>1. pool'[d] = NewEntry("closing", pool[d].base)
      BY <1>1, <2>3
    <3>2. pool[d].base \in Databases \cup {NoBase}
      BY <2>1 DEF PoolEntries
    <3> DEFINE x == NewEntry("closing", pool[d].base)
    <3>3. /\ x \in [life : EntryStates, base : Databases \cup {NoBase}, uses : Nat,
                    resident : BOOLEAN, ambient : BOOLEAN]
          /\ x.life = "closing" /\ x.base = pool[d].base /\ x.uses = 0
      BY <3>2 DEF NewEntry, EntryStates
    <3> HIDE DEF shut, x
    <3>4. pool'[d] = x
      BY <3>1 DEF x
    <3> QED  BY <2>3, <3>3, <3>4
  <2>4. CASE d \notin shut
    <3> DEFINE a == (pool[d].ambient /\ d \notin last) \/ (d = e /\ ambient)
               n == IF d = e /\ shut = {} THEN pool[d].uses + 1 ELSE pool[d].uses
    <3>1. pool'[d] = [pool[d] EXCEPT !.ambient = a, !.uses = n]
      BY <1>1, <2>4
    <3>2. a \in BOOLEAN
      OBVIOUS
    <3>3. n \in Nat
      <4> HIDE DEF shut
      <4> QED  BY <2>1, <2>2 DEF PoolEntries
    <3> HIDE DEF a, n, shut
    <3>4. /\ pool'[d] \in [life : EntryStates, base : Databases \cup {NoBase}, uses : Nat,
                           resident : BOOLEAN, ambient : BOOLEAN]
          /\ pool'[d].life = pool[d].life /\ pool'[d].base = pool[d].base
          /\ pool'[d].resident = pool[d].resident /\ pool'[d].uses = n
      BY <2>1, <3>1, <3>2, <3>3 DEF PoolEntries
    <3> QED  BY <2>4, <3>4 DEF n
  <2> QED  BY <2>3, <2>4
<1>7. pool' \in [Entries -> [life : EntryStates, base : Databases \cup {NoBase}, uses : Nat,
                             resident : BOOLEAN, ambient : BOOLEAN]]
  <2>1. pool' = [d \in Entries |-> pool'[d]]
    BY <1>1
  <2> HIDE DEF shut, last, ambient
  <2> QED  BY <1>6, <2>1
<1>8. (\E v \in Users : user[v].step = "cleans" /\ user[v].held = e) => c.late
  BY <1>5
<1>9. current' \in {e, current}
  BY <1>1
<1>10. user' = [user EXCEPT ![u] = c]
  BY <1>1
<1> HIDE DEF c, shut, cleaned, ambient, last
<1>11. TakesAs(u, e, c, shut)
  BY <1>2, <1>3, <1>5, <1>6, <1>7, <1>8, <1>9, <1>10 DEF TakesAs
<1> QED  BY <1>11

LEMMA TakesPreserves ==
    ASSUME SingleInductive, NEW u \in Users, NEW e \in In("listed"), NEW c, NEW shut, TakesAs(u, e, c, shut),
           user[u].step = "off" \/ (user[u].step = "joins" /\ user[u].held = e),
           \A v \in Users : Joinable(v) => user[v].held = e,
           spawnOf' \in [Databases -> Entries \cup {None}],
           \A b \in Databases : /\ spawnOf[b] = e /\ user[u].step = "joins" => spawnOf'[b] = None
                                /\ spawnOf'[b] \in {spawnOf[b], None}
                                /\ spawnOf[b] # e => spawnOf'[b] = spawnOf[b],
           UNCHANGED <<cap, reserved, waiters, upsets>>
    PROVE  SingleInductive'
<1>0. SingleTypeOK /\ QueueHoldsWaiters /\ CallsInOrder
  BY DEF SingleInductive
<1>1. /\ c \in UserCalls /\ c.held = e /\ user' = [user EXCEPT ![u] = c]
      /\ (\E v \in Users : user[v].step = "cleans" /\ user[v].held = e) => c.late
      /\ \/ shut = {} /\ c.step = "using"
         \/ c.step = "switches" /\ c.late /\ c.shuts \in Entries /\ shut = {c.shuts}
  BY DEF TakesAs
<1>2. /\ e \in Entries /\ pool[e].life = "listed" /\ shut \subseteq Idle /\ e \notin shut
      /\ \A d \in shut : d \in Entries /\ pool[d].life = "listed" /\ pool[d].uses = 0
  BY DEF TakesAs, Idle, In
<1>3. /\ pool' \in [Entries -> [life : EntryStates, base : Databases \cup {NoBase}, uses : Nat,
                                resident : BOOLEAN, ambient : BOOLEAN]]
      /\ \A d \in Entries :
          /\ pool'[d].life = (IF d \in shut THEN "closing" ELSE pool[d].life) /\ pool'[d].base = pool[d].base
          /\ d \in shut => pool'[d].uses = 0
          /\ d \notin shut => /\ pool'[d].resident = pool[d].resident
                              /\ pool'[d].uses = IF d = e /\ shut = {} THEN pool[d].uses + 1 ELSE pool[d].uses
  BY DEF TakesAs
<1>4. UNCHANGED <<closer, singleFaults, closeAlls>>
  BY DEF upsets
<1>5. Moves(u, c, {})
  BY <1>0, <1>1, MovesAlone
<1>6. /\ user'[u] = c /\ user' \in [Users -> UserCalls]
      /\ \A v \in Users : v # u => user'[v] = user[v]
  BY <1>0, <1>5, MovesCalls
<1>7. /\ Spawning' = Spawning /\ In("outdated")' = In("outdated") /\ In("stray")' = In("stray")
      /\ In("listed")' = In("listed") \ shut
  <2>1. \A s : s # "listed" /\ s # "closing" => In(s)' = In(s)
    BY <1>2, <1>3 DEF In
  <2>2. In("listed")' = In("listed") \ shut
    BY <1>2, <1>3 DEF In
  <2> QED  BY <2>1, <2>2 DEF Spawning
<1>8. /\ Idle' \subseteq Idle /\ Idle' \cap shut = {} /\ (shut = {} => e \notin Idle')
  <2>1. ASSUME NEW d \in Idle'
        PROVE  d \in Idle /\ d \notin shut /\ (shut = {} => d # e)
    <3>1. d \in In("listed") /\ d \notin shut /\ d \in Entries /\ pool'[d].uses = 0 /\ ~pool'[d].resident
      BY <1>7 DEF Idle, In
    <3>2. pool'[d].uses = (IF d = e /\ shut = {} THEN pool[d].uses + 1 ELSE pool[d].uses) /\ ~pool[d].resident
      BY <1>3, <3>1
    <3>3. pool[d].uses \in Nat
      <4>1. pool[d].uses \in 0..Cardinality(Users) /\ Cardinality(Users) \in Nat
        <5>1. pool[d] \in PoolEntries
          BY <1>0, <3>1, CallTypes
        <5>2. Cardinality(Users) \in Nat
          BY SetsOfUsers
        <5> QED  BY <5>1, <5>2 DEF PoolEntries
      <4> QED  BY <4>1
    <3>4. ~(d = e /\ shut = {})
      BY <3>1, <3>2, <3>3
    <3>5. pool[d].uses = 0
      BY <3>1, <3>2, <3>4
    <3> QED  BY <3>1, <3>2, <3>4, <3>5 DEF Idle
  <2> QED  BY <2>1
<1>9. CallsInOrder'
  <2>1. LivesGoOn
    BY <1>2, <1>3 DEF LivesGoOn
  <2>2. CallOK(c)'
    <3>1. c.step \in {"using", "switches"}
      BY <1>1
    <3>2. pool'[e].life = "listed"
      BY <1>2, <1>3
    <3>3. c.step = "switches" => c.shuts \in Entries /\ pool'[c.shuts].life = "closing" /\ c.late
      BY <1>1, <1>2, <1>3
    <3> QED  BY <1>1, <1>2, <3>1, <3>2, <3>3 DEF CallOK
  <2> QED  BY <1>0, <1>5, <2>1, <2>2, OrderMoves
<1>10. \A d \in shut : InUse(d) = {}
  BY <1>0, <1>2, UnusedEntry DEF SingleInductive, In
<1>11. OpenForItsUsers'
  <2> SUFFICES ASSUME NEW v \in Users, user'[v].step = "using", ~user'[v].late, closeAlls' = 0
               PROVE  user'[v].held \in In("listed")'
    BY DEF OpenForItsUsers
  <2>1. CASE v = u
    BY <1>1, <1>2, <1>6, <1>7, <2>1
  <2>2. CASE v # u
    <3>1. user'[v] = user[v] /\ user[v].held \in In("listed") /\ v \in InUse(user[v].held)
      BY <1>4, <1>6, <2>2 DEF SingleInductive, OpenForItsUsers, InUse
    <3> QED  BY <1>7, <1>10, <3>1
  <2> QED  BY <2>1, <2>2
<1>12. SharedByAll'
  <2>1. \A d \in Spawning' \cup In("listed")' \cup In("stray")' :
            d \in Spawning \cup In("listed") \cup In("stray") /\ pool'[d].base = pool[d].base
    BY <1>3, <1>7 DEF Spawning, In
  <2> QED  BY <1>4, <2>1 DEF SingleInductive, SharedByAll
<1>13. \A d \in Spawning : d # e /\ d \in Entries /\ d \notin shut /\ pool'[d].base = pool[d].base /\ pool'[d].uses = pool[d].uses
  BY <1>2, <1>3 DEF Spawning, In
<1>14. SpawnsAwaited'
  <2>1. ASSUME NEW d \in Spawning'
        PROVE  pool'[d].base \in Databases /\ pool'[d].uses = 0 /\ \E v \in Users : Joining(v, d)'
    <3>1. d \in Spawning
      BY <1>7
    <3>2. PICK v \in Users : Joining(v, d)
      BY <3>1 DEF SingleInductive, SpawnsAwaited
    <3>3. v # u
      BY <1>13, <3>1, <3>2 DEF Joining
    <3>4. Joining(v, d)'
      BY <1>6, <3>2, <3>3 DEF Joining
    <3> QED  BY <1>13, <3>1, <3>4 DEF SingleInductive, SpawnsAwaited
  <2>2. ASSUME NEW b \in Databases, spawnOf'[b] # None
        PROVE  \E v \in Users : Joining(v, spawnOf[b])'
    <3>1. spawnOf'[b] = spawnOf[b] /\ spawnOf[b] # None
      BY <2>2
    <3>2. PICK v \in Users : Joining(v, spawnOf[b])
      BY <3>1 DEF SingleInductive, SpawnsAwaited
    <3>3. v # u
      BY <2>2, <3>2 DEF Joining
    <3> QED  BY <1>6, <3>1, <3>2, <3>3 DEF Joining
  <2> QED  BY <2>1, <2>2 DEF SpawnsAwaited
<1>15. JoinTogether'
  <2>1. \A v \in Users : Joinable(v)' => Joinable(v) /\ user'[v].held = e
    <3>1. ~Joinable(u)'
      BY <1>1, <1>6 DEF Joinable
    <3>2. \A v \in Users : v # u /\ Joinable(v)' => Joinable(v) /\ user'[v].held = user[v].held
      BY <1>6, <1>7 DEF Joinable
    <3> QED  BY <3>1, <3>2
  <2>2. pool'[e].life = "listed"
    BY <1>2, <1>3
  <2> QED  BY <2>1, <2>2 DEF JoinTogether
<1>16. ASSUME NEW d \in In("listed")'
       PROVE  pool'[d].uses = Cardinality(InUse(d)') /\ Cardinality(InUse(d)') <= Cardinality(Users)
  <2>1. d \in In("listed") /\ d \in Entries /\ d \notin shut
    BY <1>7 DEF In
  <2>2. /\ pool[d].uses = Cardinality(InUse(d))
        /\ pool'[d].uses = IF d = e /\ shut = {} THEN pool[d].uses + 1 ELSE pool[d].uses
    BY <1>3, <2>1 DEF SingleInductive, UsesCounted
  <2>3. InUse(d) \subseteq Users /\ InUse(d)' \subseteq Users /\ u \notin InUse(d)
    BY DEF InUse
  <2>4. Cardinality(InUse(d)') <= Cardinality(Users)
    BY <2>3, SetsOfUsers
  <2>5. InUse(d)' = IF c.step = "using" /\ c.held = d THEN InUse(d) \cup {u} ELSE InUse(d) \ {u}
    BY <1>0, <1>5, MovesSets
  <2>6. CASE d = e /\ shut = {}
    <3>1. InUse(d)' = InUse(d) \cup {u}
      BY <1>1, <2>5, <2>6
    <3> QED  BY <2>2, <2>3, <2>4, <2>6, <3>1, SetsOfUsers
  <2>7. CASE ~(d = e /\ shut = {})
    <3>1. InUse(d)' = InUse(d)
      BY <1>1, <2>3, <2>5, <2>7
    <3> QED  BY <2>2, <2>4, <2>7, <3>1
  <2> QED  BY <2>6, <2>7
<1>17. UsesCounted'
  BY <1>16 DEF UsesCounted
<1>18. CleanedOnlyByLate'
  <2> SUFFICES ASSUME NEW v \in Users, NEW w \in Users, user'[v].step = "using", user'[w].step = "cleans",
                      user'[v].held = user'[w].held, user'[v].held \in In("listed")'
               PROVE  user'[v].late
    BY DEF CleanedOnlyByLate
  <2>1. w # u /\ user'[w] = user[w]
    BY <1>1, <1>6
  <2>2. CASE v = u
    BY <1>1, <1>6, <2>1, <2>2
  <2>3. CASE v # u
    BY <1>6, <1>7, <2>1, <2>3 DEF SingleInductive, CleanedOnlyByLate
  <2> QED  BY <2>2, <2>3
<1>19. UntilCloseAll'
  <2> SUFFICES ASSUME closeAlls = 0, NEW d \in Spawning PROVE spawnOf'[pool'[d].base] = d
    BY <1>4, <1>7 DEF SingleInductive, UntilCloseAll
  <2>1. spawnOf[pool[d].base] = d /\ pool[d].base \in Databases
    BY DEF SingleInductive, UntilCloseAll, SpawnsAwaited
  <2> QED  BY <1>13, <2>1
<1>20. /\ QueueHoldsWaiters' /\ waiters' \in Seq(Users) /\ IsInjective(waiters')
       /\ Unbroken' => Unbroken
  <2>1. Thinner(waiters', {})
    BY <1>0, SameThins
  <2>2. /\ QueueHoldsWaiters' /\ waiters' \in Seq(Users) /\ IsInjective(waiters')
        /\ Unbroken' /\ singleFaults + closeAlls = 0 => Unbroken
    BY <1>0, <1>1, <1>5, <2>1, QueueMoves
  <2> QED  BY <1>4, <2>2 DEF Unbroken
<1>21. IdleIsTended'
  <2> SUFFICES ASSUME Unbroken', NEW d \in Idle'
               PROVE  \E v \in Users : user'[v].held = d /\ user'[v].step \in {"joins", "switches", "cleans"}
    BY DEF IdleIsTended
  <2>1. CASE d = e
    <3>1. c.step = "switches"
      BY <1>1, <1>8, <2>1
    <3> QED  BY <1>1, <1>6, <2>1, <3>1
  <2>2. CASE d # e
    <3>1. PICK v \in Users : user[v].held = d /\ user[v].step \in {"joins", "switches", "cleans"}
      BY <1>8, <1>20 DEF SingleInductive, IdleIsTended
    <3>2. v # u
      BY <2>2, <3>1
    <3> QED  BY <1>6, <3>1, <3>2
  <2> QED  BY <2>1, <2>2
<1>22. SlotsExact'
  <2>1. Granteds' = Granteds
    <3>1. u \notin Granteds /\ Granteds' = (Granteds \ {u}) \cup {}
      BY <1>0, <1>1, <1>5, MovesSets DEF Granteds
    <3> QED  BY <3>1
  <2> QED  BY <1>7, <2>1 DEF SingleInductive, SlotsExact, Granteds
<1>23. ClosersCover'
  <2>1. /\ reserved \in Nat /\ cap \in Nat /\ Cardinality(In("listed")) \in Nat
    <3>1. In("listed") \subseteq Entries
      BY DEF In
    <3> QED  BY <1>0, <3>1, CallTypes, SetsOfEntries
  <2>2. Unbroken' => cap <= Cardinality(In("listed")) + reserved + Cardinality(Closers)
    BY <1>20 DEF SingleInductive, ClosersCover
  <2>3. CASE shut = {}
    <3>1. c.step = "using"
      BY <1>1, <2>3
    <3>2. Cardinality(Closers') = Cardinality(Closers)
      BY <1>0, <1>5, <3>1, CloserCount
    <3>3. In("listed")' = In("listed")
      BY <1>7, <2>3
    <3> QED  BY <2>2, <3>2, <3>3 DEF ClosersCover
  <2>4. CASE shut # {}
    <3>1. c.step = "switches" /\ shut = {c.shuts}
      BY <1>1, <2>4
    <3>2. Cardinality(Closers') = Cardinality(Closers) + 1 /\ Cardinality(Closers) \in Nat
      BY <1>0, <1>5, <3>1, CloserCount
    <3>3. In("listed")' = In("listed") \ {c.shuts} /\ c.shuts \in In("listed") /\ In("listed") \subseteq Entries
      BY <1>2, <1>7, <3>1 DEF In
    <3>4. Cardinality(In("listed")') = Cardinality(In("listed")) - 1
      BY <3>3, SetsOfEntries
    <3>5. Unbroken' => cap <= Cardinality(In("listed")') + reserved + Cardinality(Closers')
      BY <2>1, <2>2, <3>2, <3>4
    <3> QED  BY <3>5 DEF ClosersCover
  <2> QED  BY <2>3, <2>4
<1>24. pool' \in [Entries -> PoolEntries]
  <2> SUFFICES ASSUME NEW d \in Entries PROVE pool'[d] \in PoolEntries
    BY <1>3
  <2>1. Cardinality(Users) \in Nat /\ pool[d] \in PoolEntries
    BY <1>0, CallTypes, SetsOfUsers
  <2>2. pool'[d].uses <= Cardinality(Users)
    <3>1. CASE d \in In("listed")'
      BY <1>16, <3>1
    <3>2. CASE d \notin In("listed")' /\ d \notin shut
      <4>1. d # e
        BY <1>2, <1>7, <3>2 DEF In
      <4>2. pool'[d].uses = pool[d].uses
        BY <1>3, <3>2, <4>1
      <4> QED  BY <2>1, <4>2 DEF PoolEntries
    <3>3. CASE d \in shut
      BY <1>3, <2>1, <3>3
    <3> QED  BY <3>1, <3>2, <3>3
  <2> QED  BY <1>3, <2>1, <2>2 DEF PoolEntries
<1>25. SingleTypeOK'
  <2>1. current' \in Entries \cup {None}
    BY <1>0, <1>2, CallTypes DEF TakesAs
  <2> QED  BY <1>0, <1>4, <1>6, <1>20, <1>24, <2>1, CallTypes, TypesHold DEF SingleTypeOK
<1> QED  BY <1>9, <1>11, <1>12, <1>14, <1>15, <1>17, <1>18, <1>19, <1>20, <1>21, <1>22, <1>23, <1>25 DEF SingleInductive

\* A user that awaited the spawn goes on.
LEMMA JoinsPreserves ==
    ASSUME SingleInductive, NEW u \in Users, Joins(u), cap' = cap
    PROVE  SingleInductive'
<1> DEFINE e == user[u].held
<1>0. SingleTypeOK /\ QueueHoldsWaiters /\ CallsInOrder
  BY DEF SingleInductive
<1>1. /\ Joinable(u) /\ user[u].step = "joins"
      /\ spawnOf' = [b \in Databases |-> IF spawnOf[b] = e THEN None ELSE spawnOf[b]]
      /\ IF e \in In("closed") THEN user' = [user EXCEPT ![u] = NoCall] /\ UNCHANGED <<pool, current>>
         ELSE Takes(u, e, user[u])
      /\ UNCHANGED <<reserved, waiters, closer, singleFaults, closeAlls>>
  BY DEF Joins, Joinable, Over, upsets
<1>2. e \in Entries /\ pool[e].life \in {"listed", "closed"} /\ user[u] \in UserCalls
  <2>1. e \in Entries
    BY <1>0, <1>1 DEF CallsInOrder, CallOK
  <2> QED  BY <1>0, <1>1, <2>1, CallTypes DEF SingleInductive, JoinTogether
<1>3. \A v \in Users : Joinable(v) => user[v].held = e
  BY <1>1 DEF SingleInductive, JoinTogether
<1>4. /\ spawnOf' \in [Databases -> Entries \cup {None}]
      /\ \A b \in Databases : /\ spawnOf[b] = e => spawnOf'[b] = None
                              /\ spawnOf'[b] \in {spawnOf[b], None}
                              /\ spawnOf[b] # e => spawnOf'[b] = spawnOf[b]
  BY <1>0, <1>1, CallTypes
<1>5. CASE e \notin In("closed")
  <2>1. e \in In("listed") /\ Takes(u, e, user[u])
    BY <1>1, <1>2, <1>5 DEF In
  <2>2. PICK c, shut : TakesAs(u, e, c, shut)
    BY <1>0, <1>2, <2>1, TakesDoes
  <2>3. UNCHANGED <<cap, reserved, waiters, upsets>>
    BY <1>1 DEF upsets
  <2>4. PICK f \in In("listed") : f = e
    BY <2>1
  <2> HIDE DEF e
  <2>5. TakesAs(u, f, c, shut) /\ user[u].held = f
    BY <2>2, <2>4 DEF e
  <2>6. /\ spawnOf' \in [Databases -> Entries \cup {None}]
        /\ \A b \in Databases : /\ spawnOf[b] = f => spawnOf'[b] = None
                                /\ spawnOf'[b] \in {spawnOf[b], None}
                                /\ spawnOf[b] # f => spawnOf'[b] = spawnOf[b]
    BY <1>4, <2>4
  <2> QED  BY <1>1, <1>3, <2>3, <2>4, <2>5, <2>6, TakesPreserves
<1>6. CASE e \in In("closed")
  <2>1. user' = [user EXCEPT ![u] = NoCall] /\ UNCHANGED <<pool, current>>
    BY <1>1, <1>6
  <2>2. Moves(u, NoCall, {}) /\ NoCall.step = "off" /\ CallOK(NoCall)'
    BY <1>0, <2>1, NoCallTypes, MovesAlone
  <2>3. /\ user'[u] = NoCall /\ user' \in [Users -> UserCalls]
        /\ \A v \in Users : v # u => user'[v] = user[v]
    BY <1>0, <2>2, MovesCalls
  <2>4. /\ PoolSettles /\ \A s : In(s)' = In(s)
        /\ Spawning' = Spawning /\ Idle' = Idle /\ e \notin Spawning /\ e \notin Idle /\ e \notin In("listed")
    BY <1>0, <1>6, <2>1, PoolStays DEF Spawning, Idle, In
  <2>5. CallsInOrder'
    <3>1. LivesGoOn
      BY <2>1 DEF LivesGoOn
    <3> QED  BY <1>0, <2>2, <3>1, OrderMoves
  <2>6. \A v \in Users : user'[v].step # "off" => user'[v] = user[v] /\ v # u
    BY <2>2, <2>3
  <2>7. OpenForItsUsers' /\ CleanedOnlyByLate' /\ SharedByAll'
    BY <1>1, <2>1, <2>4, <2>6 DEF SingleInductive, OpenForItsUsers, CleanedOnlyByLate, SharedByAll
  <2>8. SpawnsAwaited'
    <3>1. ASSUME NEW d \in Spawning'
          PROVE  pool'[d].base \in Databases /\ pool'[d].uses = 0 /\ \E v \in Users : Joining(v, d)'
      <4>1. d \in Spawning /\ d # e
        BY <2>4
      <4>2. PICK v \in Users : Joining(v, d)
        BY <4>1 DEF SingleInductive, SpawnsAwaited
      <4>3. v # u
        BY <4>1, <4>2 DEF Joining
      <4>4. Joining(v, d)'
        BY <2>3, <4>2, <4>3 DEF Joining
      <4> QED  BY <2>1, <4>1, <4>4 DEF SingleInductive, SpawnsAwaited
    <3>2. ASSUME NEW b \in Databases, spawnOf'[b] # None
          PROVE  \E v \in Users : Joining(v, spawnOf[b])'
      <4>1. spawnOf'[b] = spawnOf[b] /\ spawnOf[b] # None /\ spawnOf[b] # e
        BY <1>4, <3>2
      <4>2. PICK v \in Users : Joining(v, spawnOf[b])
        BY <4>1 DEF SingleInductive, SpawnsAwaited
      <4>3. v # u
        BY <4>1, <4>2 DEF Joining
      <4> QED  BY <2>3, <4>1, <4>2, <4>3 DEF Joining
    <3> QED  BY <3>1, <3>2 DEF SpawnsAwaited
  <2>9. JoinTogether'
    <3>1. \A v \in Users : Joinable(v)' => Joinable(v) /\ user'[v].held = user[v].held
      BY <2>4, <2>6 DEF Joinable
    <3> QED  BY <2>1, <3>1 DEF SingleInductive, JoinTogether
  <2>10. UsesCounted'
    <3> SUFFICES ASSUME NEW d \in In("listed") PROVE pool'[d].uses = Cardinality(InUse(d)')
      BY <2>4 DEF UsesCounted
    <3>1. InUse(d)' = InUse(d)
      <4>1. u \notin InUse(d) /\ InUse(d)' = InUse(d) \ {u}
        BY <1>0, <1>1, <2>2, MovesSets DEF InUse
      <4> QED  BY <4>1
    <3> QED  BY <2>1, <3>1 DEF SingleInductive, UsesCounted
  <2>11. UntilCloseAll'
    <3> SUFFICES ASSUME closeAlls = 0, NEW d \in Spawning PROVE spawnOf'[pool[d].base] = d
      BY <1>1, <2>1, <2>4 DEF SingleInductive, UntilCloseAll
    <3>1. spawnOf[pool[d].base] = d /\ pool[d].base \in Databases /\ d # e
      BY <2>4 DEF SingleInductive, UntilCloseAll, SpawnsAwaited
    <3> QED  BY <1>4, <3>1
  <2>12. /\ QueueHoldsWaiters' /\ IdleIsTended' /\ waiters' \in Seq(Users) /\ IsInjective(waiters')
         /\ Unbroken' => Unbroken
    <3>1. Thinner(waiters', {})
      BY <1>0, <1>1, SameThins
    <3>2. user[u].held \notin Idle'
      BY <2>4
    <3> QED  BY <1>1, <2>2, <2>4, <3>1, <3>2, SettlesQueue
  <2>13. SlotsExact'
    <3>1. Granteds' = Granteds
      <4>1. u \notin Granteds /\ Granteds' = (Granteds \ {u}) \cup {}
        BY <1>0, <1>1, <2>2, MovesSets DEF Granteds
      <4> QED  BY <4>1
    <3> QED  BY <1>1, <2>4, <3>1 DEF SingleInductive, SlotsExact, Granteds
  <2>14. ClosersCover'
    <3>1. Cardinality(Closers') = Cardinality(Closers)
      BY <1>0, <1>1, <2>2, CloserCount
    <3> QED  BY <1>1, <2>4, <2>12, <3>1 DEF SingleInductive, ClosersCover
  <2>15. SingleTypeOK'
    BY <1>0, <1>1, <1>4, <2>1, <2>3, <2>12, CallTypes, TypesHold DEF SingleTypeOK
  <2> QED  BY <2>5, <2>7, <2>8, <2>9, <2>10, <2>11, <2>12, <2>13, <2>14, <2>15 DEF SingleInductive
<1> QED  BY <1>5, <1>6

LEMMA CheckOutPreserves ==
    ASSUME SingleInductive, NEW u \in Users, NEW kind \in Kinds, NEW b \in Databases, CheckOut(u, kind, b), cap' = cap
    PROVE  SingleInductive'
<1>0. SingleTypeOK
  BY DEF SingleInductive
<1> DEFINE call == [NoCall EXCEPT !.kind = kind, !.base = b]
           absent == EntryOf(b) = {} /\ ~SpawningOf(b)
<1>1. /\ Prompt /\ user[u].step = "off" /\ UNCHANGED upsets
      /\ \/ /\ \E e \in EntryOf(b) : Takes(u, e, call)
            /\ UNCHANGED <<spawnOf, reserved, waiters>>
         \/ /\ EntryOf(b) = {} /\ SpawningOf(b)
            /\ user' = [user EXCEPT ![u] = [call EXCEPT !.step = "joins", !.held = spawnOf[b]]]
            /\ UNCHANGED <<pool, current, spawnOf, reserved, waiters>>
         \/ /\ absent /\ waiters = <<>> /\ Room
            /\ Spawns(u, call)
            /\ reserved' = reserved + 1
            /\ UNCHANGED <<current, waiters>>
         \/ /\ absent /\ (waiters # <<>> \/ ~Room)
            /\ Reserves(u, call)
            /\ UNCHANGED <<spawnOf, reserved>>
  BY DEF CheckOut
<1>2. call \in UserCalls /\ call.base = b
  BY DEF NoCall, UserCalls, Steps, None
<1>3. CASE (\E e \in EntryOf(b) : Takes(u, e, call)) /\ UNCHANGED <<spawnOf, reserved, waiters>>
  <2>1. PICK e \in EntryOf(b) : Takes(u, e, call)
    BY <1>3
  <2>2. e \in In("listed")
    BY DEF EntryOf
  <2> HIDE DEF call
  <2>3. PICK c, shut : TakesAs(u, e, c, shut)
    BY <1>0, <1>2, <2>1, <2>2, TakesDoes
  <2>4. \A v \in Users : Joinable(v) => user[v].held = e
    BY <1>1 DEF Prompt
  <2>5. /\ spawnOf' \in [Databases -> Entries \cup {None}]
        /\ \A a \in Databases : /\ spawnOf[a] = e /\ user[u].step = "joins" => spawnOf'[a] = None
                                /\ spawnOf'[a] \in {spawnOf[a], None}
                                /\ spawnOf[a] # e => spawnOf'[a] = spawnOf[a]
    BY <1>0, <1>1, <1>3, CallTypes
  <2> QED  BY <1>1, <1>3, <2>2, <2>3, <2>4, <2>5, TakesPreserves
<1>4. CASE /\ EntryOf(b) = {} /\ SpawningOf(b)
           /\ user' = [user EXCEPT ![u] = [call EXCEPT !.step = "joins", !.held = spawnOf[b]]]
           /\ UNCHANGED <<pool, current, spawnOf, reserved, waiters>>
  <2>1. spawnOf[b] # None /\ spawnOf[b] \in Entries
    BY <1>0, <1>4, CallTypes DEF SpawningOf
  <2>2. PICK c \in UserCalls : c = [call EXCEPT !.step = "joins", !.held = spawnOf[b]]
    BY <1>2, <2>1 DEF UserCalls, Steps
  <2>3. c \in UserCalls /\ c.step = "joins" /\ c.held = spawnOf[b] /\ user' = [user EXCEPT ![u] = c]
    BY <1>2, <1>4, <2>2 DEF UserCalls
  <2> HIDE DEF call
  <2> QED  BY <1>1, <1>4, <2>1, <2>3, CheckOutJoins
<1>5. CASE absent /\ waiters = <<>> /\ Room /\ Spawns(u, call) /\ reserved' = reserved + 1 /\ UNCHANGED <<current, waiters>>
  <2>1. EntryOf(b) = {} /\ spawnOf[b] = None
    BY <1>5 DEF SpawningOf
  <2>2. \A v \in Users : ~Joinable(v)
    BY <1>1 DEF Prompt
  <2> HIDE DEF call
  <2> QED  BY <1>1, <1>2, <1>5, <2>1, <2>2, SpawnsPreserves
<1>6. CASE absent /\ (waiters # <<>> \/ ~Room) /\ Reserves(u, call) /\ UNCHANGED <<spawnOf, reserved>>
  <2>1. ASSUME NEW e \in Idle, Removes(e), UNCHANGED waiters,
               user' = [user EXCEPT ![u] = [call EXCEPT !.step = "evicts", !.shuts = e, !.freed = TRUE]]
        PROVE  SingleInductive'
    <3>1. e \in Entries
      BY DEF Idle, In
    <3>2. PICK c \in UserCalls : c = [call EXCEPT !.step = "evicts", !.shuts = e, !.freed = TRUE]
      BY <1>2, <3>1 DEF UserCalls, Steps
    <3>3. c \in UserCalls /\ c.step = "evicts" /\ c.shuts = e /\ c.freed /\ c.base \in Databases /\ user' = [user EXCEPT ![u] = c]
      BY <1>2, <2>1, <3>2 DEF UserCalls
    <3> HIDE DEF call
    <3> QED  BY <1>1, <1>6, <2>1, <3>3, CheckOutEvicts
  <2>2. ASSUME Idle = {}, waiters' = Append(waiters, u), UNCHANGED <<pool, current>>,
               user' = [user EXCEPT ![u] = [call EXCEPT !.step = "waits",
                                             !.freed = \E v \in ToSet(waiters) : user[v].freed]]
        PROVE  SingleInductive'
    <3> DEFINE m == \E v \in ToSet(waiters) : user[v].freed
    <3>1. m \in BOOLEAN
      OBVIOUS
    <3> HIDE DEF m
    <3>2. PICK c \in UserCalls : c = [call EXCEPT !.step = "waits", !.freed = m]
      BY <1>2, <3>1 DEF UserCalls, Steps
    <3>3. c \in UserCalls /\ c.step = "waits" /\ c.freed = m /\ c.base \in Databases
      BY <1>2, <3>2 DEF UserCalls
    <3>4. user' = [user EXCEPT ![u] = c]
      BY <2>2, <3>2 DEF m
    <3>5. c.freed = (\E v \in ToSet(waiters) : user[v].freed)
      BY <3>3 DEF m
    <3> HIDE DEF call
    <3> QED  BY <1>1, <1>6, <2>2, <3>3, <3>4, <3>5, CheckOutWaits
  <2> QED  BY <1>6, <2>1, <2>2 DEF Reserves
<1> QED  BY <1>1, <1>3, <1>4, <1>5, <1>6

-----------------------------------------------------------------------------
(* Using and checking in.                                                  *)

\* A user of an entry goes on, or begins to use one late.
LEMMA UseKeeps ==
    ASSUME SingleInductive, Prompt, NEW u, NEW c, NEW g, Moves(u, c, g), CallOK(c)',
           pool' \in [Entries -> PoolEntries],
           \A d \in Entries :
              \/ /\ pool'[d].life = pool[d].life /\ pool'[d].base = pool[d].base
                 /\ pool[d].life # "listed" => pool'[d].uses = pool[d].uses
              \/ pool[d].life \in {"closing", "closed"} /\ pool'[d].life = "closed",
           user[u].step \in {"using", "switches"}, c.step \in {"off", "cleans", "using"},
           c.step = "using" => c.late,
           c.step = "cleans" => \A v \in Users : ~(user'[v].step = "using" /\ user'[v].held = c.held),
           UNCHANGED <<spawnOf, closer, closeAlls>>
    PROVE  /\ Spawning' = Spawning /\ In("listed")' = In("listed")
           /\ OpenForItsUsers' /\ SharedByAll' /\ CallsInOrder' /\ SpawnsAwaited' /\ JoinTogether'
           /\ CleanedOnlyByLate' /\ UntilCloseAll'
<1>0. SingleTypeOK /\ QueueHoldsWaiters /\ CallsInOrder
  BY DEF SingleInductive
<1>1. /\ u \in Users /\ user'[u] = c
      /\ \A v \in Users : v # u /\ v \notin g => user'[v] = user[v]
      /\ \A v \in g : user'[v].step = "granted" /\ user[v].step = "waits"
  BY <1>0, MovesCalls
<1>2. /\ Spawning' = Spawning /\ In("outdated")' = In("outdated") /\ In("stray")' = In("stray")
      /\ In("listed")' = In("listed")
  <2>1. \A s : s # "closing" /\ s # "closed" => In(s)' = In(s)
    BY DEF In
  <2> QED  BY <2>1 DEF Spawning
<1>3. CallsInOrder'
  <2>1. LivesGoOn
    BY DEF LivesGoOn
  <2> QED  BY <1>0, <2>1, OrderMoves
<1>4. \A v \in Users : user'[v].step = "using" => user'[v] = user[v] \/ (v = u /\ user'[v].late)
  BY <1>1
<1>5. \A v \in Users : user'[v].step = "cleans" =>
          \/ user'[v] = user[v]
          \/ \A w \in Users : ~(user'[w].step = "using" /\ user'[w].held = user'[v].held)
  BY <1>1
<1>6. OpenForItsUsers'
  BY <1>2, <1>4 DEF SingleInductive, OpenForItsUsers
<1>7. \A d \in Spawning \cup In("listed") \cup In("stray") :
          d \in Entries /\ pool'[d].base = pool[d].base /\ (d \in Spawning => pool'[d].uses = pool[d].uses)
  BY DEF Spawning, In
<1>8. SharedByAll'
  BY <1>2, <1>7 DEF SingleInductive, SharedByAll
<1>9. UntilCloseAll'
  BY <1>2, <1>7 DEF SingleInductive, UntilCloseAll
<1>10. \A v \in Users : user[v].step = "joins" => user'[v] = user[v]
  BY <1>1
<1>11. SpawnsAwaited'
  <2>1. ASSUME NEW d \in Spawning'
        PROVE  pool'[d].base \in Databases /\ pool'[d].uses = 0 /\ \E v \in Users : Joining(v, d)'
    <3>1. PICK v \in Users : Joining(v, d)
      BY <1>2, <2>1 DEF SingleInductive, SpawnsAwaited
    <3>2. Joining(v, d)'
      BY <1>10, <3>1 DEF Joining
    <3> QED  BY <1>2, <1>7, <2>1, <3>2 DEF SingleInductive, SpawnsAwaited
  <2>2. ASSUME NEW b \in Databases, spawnOf'[b] # None
        PROVE  \E v \in Users : Joining(v, spawnOf[b])'
    <3>1. PICK v \in Users : Joining(v, spawnOf[b])
      BY <2>2 DEF SingleInductive, SpawnsAwaited
    <3> QED  BY <1>10, <3>1 DEF Joining
  <2> QED  BY <2>1, <2>2 DEF SpawnsAwaited
<1>12. JoinTogether'
  <2>1. \A v \in Users : ~Joinable(v)'
    BY <1>1, <1>2 DEF Joinable, Prompt
  <2> QED  BY <2>1 DEF JoinTogether
<1>13. CleanedOnlyByLate'
  <2> SUFFICES ASSUME NEW v \in Users, NEW w \in Users, user'[v].step = "using", user'[w].step = "cleans",
                      user'[v].held = user'[w].held, user'[v].held \in In("listed")'
               PROVE  user'[v].late
    BY DEF CleanedOnlyByLate
  <2>1. user'[w] = user[w]
    BY <1>5
  <2> QED  BY <1>2, <1>4, <2>1 DEF SingleInductive, CleanedOnlyByLate
<1> QED  BY <1>2, <1>3, <1>6, <1>8, <1>9, <1>11, <1>12, <1>13

LEMMA SwitchDonePreserves ==
    ASSUME SingleInductive, NEW u \in Users, SwitchDone(u), cap' = cap
    PROVE  SingleInductive'
<1>0. SingleTypeOK /\ QueueHoldsWaiters /\ CallsInOrder
  BY DEF SingleInductive
<1>1. PICK e \in Entries, s \in Entries : e = user[u].held /\ s = user[u].shuts
  BY <1>0 DEF SwitchDone, CallsInOrder, CallOK
<1>2. /\ Prompt /\ user[u].step = "switches"
      /\ pool' = [Closed(s) EXCEPT ![e].uses = IF e \in In("listed") THEN @ + 1 ELSE @]
      /\ Notified(In("listed"), reserved, [user EXCEPT ![u].step = "using", ![u].shuts = None])
      /\ UNCHANGED <<current, spawnOf, closer, singleFaults, closeAlls>>
  BY <1>1 DEF SwitchDone, upsets
<1>3. /\ pool[s].life \in {"closing", "closed"} /\ pool[e].life \notin {"unborn", "spawning", "outdated"}
      /\ user[u].late
  BY <1>0, <1>1, <1>2 DEF CallsInOrder, CallOK
<1>4. PICK c \in UserCalls : c = [user[u] EXCEPT !.step = "using", !.shuts = None]
  BY <1>0, CallTypes DEF UserCalls, Steps
<1>5. c \in UserCalls /\ c.step = "using" /\ c.held = e /\ c.late
  <2>1. user[u] \in UserCalls
    BY <1>0, CallTypes
  <2> QED  BY <1>1, <1>3, <1>4, <2>1 DEF UserCalls
<1>6. PICK g : Moves(u, c, g) /\ Thinner(waiters', g) /\ Told(g, In("listed"), reserved)
  <2>1. [user EXCEPT ![u].step = "using", ![u].shuts = None] = [v \in Users |-> IF v = u THEN c ELSE user[v]]
    BY <1>0, <1>4, CallTypes
  <2>2. Notified(In("listed"), reserved, [v \in Users |-> IF v = u THEN c ELSE user[v]])
    BY <1>2, <2>1
  <2>3. u \notin ToSet(waiters) /\ reserved \in Int
    BY <1>0, <1>2, CallTypes DEF QueueHoldsWaiters
  <2> QED  BY <1>0, <1>5, <2>2, <2>3, NotifiedMoves
<1>7. /\ In("listed") \in SUBSET Entries /\ Spawning \in SUBSET Entries
      /\ reserved \in Nat /\ reserved <= cap /\ cap \in Nat
  BY <1>0, CallTypes DEF In, Spawning
<1>8. /\ u \notin InUse(e) /\ InUse(e) \subseteq Users
      /\ \A d : InUse(d)' = IF d = e THEN InUse(d) \cup {u} ELSE InUse(d)
  <2>1. \A d : u \notin InUse(d)
    BY <1>2 DEF InUse
  <2>2. \A d : InUse(d)' = IF c.step = "using" /\ c.held = d THEN InUse(d) \cup {u} ELSE InUse(d) \ {u}
    BY <1>0, <1>6, MovesSets
  <2> QED  BY <1>5, <2>1, <2>2 DEF InUse
<1>9. e \in In("listed") => pool[e].uses + 1 = Cardinality(InUse(e)') /\ pool[e].uses + 1 <= Cardinality(Users)
  <2>1. e \in In("listed") => pool[e].uses = Cardinality(InUse(e))
    BY DEF SingleInductive, UsesCounted
  <2>2. Cardinality(InUse(e) \cup {u}) = Cardinality(InUse(e)) + 1 /\ Cardinality(InUse(e) \cup {u}) <= Cardinality(Users)
    <3>1. InUse(e) \cup {u} \subseteq Users
      BY <1>8
    <3> QED  BY <1>8, <3>1, SetsOfUsers
  <2> QED  BY <1>8, <2>1, <2>2
<1>10. /\ pool' \in [Entries -> PoolEntries]
       /\ \A d \in Entries :
             IF d = s THEN pool'[d].life = "closed"
             ELSE /\ pool'[d].life = pool[d].life /\ pool'[d].base = pool[d].base /\ pool'[d].resident = pool[d].resident
                  /\ pool'[d].uses = IF d = e /\ e \in In("listed") THEN pool[d].uses + 1 ELSE pool[d].uses
  <2> DEFINE x == NewEntry("closed", NoBase)
  <2>1. x \in PoolEntries /\ x.life = "closed"
    BY <1>0, NewEntryTypes DEF EntryStates
  <2>2. pool \in [Entries -> PoolEntries]
    BY <1>0, CallTypes
  <2>3. pool' = [[pool EXCEPT ![s] = x] EXCEPT ![e].uses = IF e \in In("listed") THEN @ + 1 ELSE @]
    BY <1>2 DEF Closed
  <2> HIDE DEF x
  <2>4. CASE e \in In("listed")
    <3>1. e # s /\ pool[e].uses + 1 \in 0..Cardinality(Users) /\ Cardinality(Users) \in Nat
      <4>1. e # s
        BY <1>3, <2>4 DEF In
      <4>2. Cardinality(Users) \in Nat /\ pool[e].uses \in 0..Cardinality(Users)
        BY <2>2, SetsOfUsers DEF PoolEntries
      <4> QED  BY <1>9, <2>4, <4>1, <4>2
    <3>2. [pool[e] EXCEPT !.uses = pool[e].uses + 1] \in PoolEntries
      BY <2>2, <3>1 DEF PoolEntries
    <3>3. pool' = [d \in Entries |-> IF d = s THEN x
                                     ELSE IF d = e THEN [pool[e] EXCEPT !.uses = pool[e].uses + 1] ELSE pool[d]]
      BY <2>2, <2>3, <2>4, <3>1
    <3>4. pool' \in [Entries -> PoolEntries]
      BY <2>1, <2>2, <3>2, <3>3
    <3>5. pool[e] \in PoolEntries
      BY <2>2
    <3> QED  BY <2>1, <2>4, <3>1, <3>3, <3>4, <3>5 DEF PoolEntries
  <2>5. CASE e \notin In("listed")
    <3>1. pool' = [pool EXCEPT ![s] = x]
      <4>1. [pool EXCEPT ![s] = x] \in [Entries -> PoolEntries]
        BY <2>1, <2>2
      <4>2. pool' = [[pool EXCEPT ![s] = x] EXCEPT ![e].uses = @]
        BY <2>3, <2>5
      <4> QED  BY <4>1, <4>2 DEF PoolEntries
    <3> QED  BY <2>1, <2>2, <2>5, <3>1
  <2> QED  BY <2>4, <2>5
<1>11. CallOK(c)'
  BY <1>3, <1>5, <1>10 DEF CallOK
<1>12. /\ Spawning' = Spawning /\ In("listed")' = In("listed")
       /\ OpenForItsUsers' /\ SharedByAll' /\ CallsInOrder' /\ SpawnsAwaited' /\ JoinTogether'
       /\ CleanedOnlyByLate' /\ UntilCloseAll'
  <2>1. \A d \in Entries :
              \/ /\ pool'[d].life = pool[d].life /\ pool'[d].base = pool[d].base
                 /\ pool[d].life # "listed" => pool'[d].uses = pool[d].uses
              \/ pool[d].life \in {"closing", "closed"} /\ pool'[d].life = "closed"
    BY <1>3, <1>10 DEF In
  <2> QED  BY <1>2, <1>5, <1>6, <1>10, <1>11, <2>1, UseKeeps
<1>13. UsesCounted'
  <2> SUFFICES ASSUME NEW d \in In("listed") PROVE pool'[d].uses = Cardinality(InUse(d)')
    BY <1>12 DEF UsesCounted
  <2>1. d \in Entries /\ d # s
    BY <1>3 DEF In
  <2>2. CASE d = e
    BY <1>9, <1>10, <2>1, <2>2
  <2>3. CASE d # e
    BY <1>8, <1>10, <2>1, <2>3 DEF SingleInductive, UsesCounted
  <2> QED  BY <2>2, <2>3
<1>14. Idle' \subseteq Idle /\ e \notin Idle'
  <2> SUFFICES ASSUME NEW d \in Idle' PROVE d \in Idle /\ d # e
    OBVIOUS
  <2>1. d \in In("listed") /\ d \in Entries /\ pool'[d].uses = 0 /\ ~pool'[d].resident /\ d # s
    BY <1>3, <1>12 DEF Idle, In
  <2>2. pool[d].uses \in Nat
    <3>1. Cardinality(Users) \in Nat /\ pool[d] \in PoolEntries
      BY <1>0, <2>1, CallTypes, SetsOfUsers
    <3> QED  BY <3>1 DEF PoolEntries
  <2>3. d # e /\ pool[d].uses = 0 /\ ~pool[d].resident
    BY <1>10, <2>1, <2>2
  <2> QED  BY <2>1, <2>3 DEF Idle
<1>15. /\ QueueHoldsWaiters' /\ IdleIsTended' /\ waiters' \in Seq(Users) /\ IsInjective(waiters')
       /\ Unbroken' => Unbroken
  BY <1>1, <1>2, <1>5, <1>6, <1>14, SettlesQueue
<1>16. SlotsExact' /\ ClosersCover' /\ reserved' \in Nat /\ reserved' <= cap
  <2>1. Cardinality(Closers') = Cardinality(Closers) - 1 /\ Cardinality(Closers') \in Nat /\ Cardinality(Closers) \in Nat
    BY <1>0, <1>2, <1>5, <1>6, CloserCount
  <2>2. /\ Cardinality(In("listed")) \in Nat /\ Cardinality(Spawning) \in Nat /\ Cardinality(Granteds) \in Nat
        /\ reserved = Cardinality(Spawning) + Cardinality(Granteds)
    <3>1. Cardinality(In("listed")) \in Nat /\ Cardinality(Spawning) \in Nat
      BY <1>7, SetsOfEntries
    <3>2. Cardinality(Granteds) \in Nat
      BY SetsOfUsers DEF Granteds
    <3> QED  BY <3>1, <3>2 DEF SingleInductive, SlotsExact, Granteds
  <2>3. Cardinality(In("listed")) + reserved + Cardinality(Closers)
          <= Cardinality(In("listed")') + reserved + 1 + Cardinality(Closers')
    BY <1>7, <1>12, <2>1, <2>2
  <2>4. Told(g, In("listed")', reserved) /\ user[u].step # "granted" /\ c.step # "granted"
    BY <1>2, <1>5, <1>6, <1>12
  <2>5. reserved + (IF user[u].step = "granted" THEN 1 ELSE 0) = Cardinality(Spawning') + Cardinality(Granteds)
    BY <1>7, <1>12, <2>2, <2>4
  <2> QED  BY <1>6, <1>7, <1>15, <2>3, <2>4, <2>5, ToldKeeps
<1>17. SingleTypeOK'
  <2>1. user' \in [Users -> UserCalls]
    BY <1>0, <1>6, MovesCalls
  <2> QED  BY <1>0, <1>2, <1>10, <1>15, <1>16, <2>1, CallTypes, TypesHold DEF SingleTypeOK
<1> QED  BY <1>12, <1>13, <1>15, <1>16, <1>17 DEF SingleInductive

LEMMA CheckInPreserves ==
    ASSUME SingleInductive, NEW u \in Users, CheckIn(u), cap' = cap
    PROVE  SingleInductive'
<1>0. SingleTypeOK /\ QueueHoldsWaiters /\ CallsInOrder
  BY DEF SingleInductive
<1>1. PICK e \in Entries : e = user[u].held
  BY <1>0 DEF CheckIn, CallsInOrder, CallOK
<1> DEFINE known == e \in In("listed") /\ pool[e].uses > 0
           opens == pool[e].resident \/ user[u].kind = "open"
<1>2. /\ Prompt /\ user[u].step = "using"
      /\ UNCHANGED <<current, spawnOf, reserved, waiters, closer, singleFaults, closeAlls>>
      /\ pool' = IF e \in In("listed")
                 THEN [pool EXCEPT ![e].resident = @ \/ user[u].kind = "open",
                                   ![e].uses = IF known THEN @ - 1 ELSE @]
                 ELSE pool
      /\ user' = IF known /\ pool[e].uses = 1 THEN [user EXCEPT ![u].step = "cleans"] ELSE [user EXCEPT ![u] = NoCall]
  BY <1>1 DEF CheckIn, Over, upsets
<1>3. pool[e].life \notin {"unborn", "spawning", "outdated"} /\ user[u] \in UserCalls /\ pool[e] \in PoolEntries
  BY <1>0, <1>1, <1>2, CallTypes DEF CallsInOrder, CallOK
<1>4. InUse(e) \subseteq Users /\ u \in InUse(e) /\ Cardinality(InUse(e)) \in Nat /\ Cardinality(InUse(e)) > 0
  <2>1. InUse(e) \subseteq Users /\ u \in InUse(e)
    BY <1>1, <1>2 DEF InUse
  <2>2. Cardinality(InUse(e)) \in Nat /\ Cardinality(InUse(e)) # 0
    BY <2>1, SetsOfUsers
  <2> QED  BY <2>1, <2>2
<1>5. e \in In("listed") => known /\ pool[e].uses = Cardinality(InUse(e))
  BY <1>4 DEF SingleInductive, UsesCounted
<1>6. Cardinality(Users) \in Nat
  BY SetsOfUsers
<1>7. /\ pool' \in [Entries -> PoolEntries]
      /\ \A d \in Entries :
            /\ pool'[d].life = pool[d].life /\ pool'[d].base = pool[d].base
            /\ pool[d].resident => pool'[d].resident
            /\ pool'[d].uses = IF d = e /\ e \in In("listed") THEN pool[d].uses - 1 ELSE pool[d].uses
  <2>1. pool \in [Entries -> PoolEntries]
    BY <1>0, CallTypes
  <2>2. CASE e \in In("listed")
    <3>1. pool' = [pool EXCEPT ![e] = [pool[e] EXCEPT !.resident = opens, !.uses = pool[e].uses - 1]]
      BY <1>2, <1>5, <2>1, <2>2
    <3>2. pool[e].uses - 1 \in 0..Cardinality(Users) /\ opens \in BOOLEAN
      <4>1. pool[e].uses \in 0..Cardinality(Users) /\ pool[e].uses > 0
        BY <1>3, <1>5, <2>2 DEF PoolEntries
      <4> QED  BY <1>6, <4>1
    <3> HIDE DEF opens
    <3>3. [pool[e] EXCEPT !.resident = opens, !.uses = pool[e].uses - 1] \in PoolEntries
      BY <1>3, <3>2 DEF PoolEntries
    <3>4. pool[e].resident => opens
      BY DEF opens
    <3> QED  BY <1>3, <2>1, <2>2, <3>1, <3>3, <3>4 DEF PoolEntries
  <2>3. CASE e \notin In("listed")
    BY <1>2, <2>1, <2>3
  <2> QED  BY <2>2, <2>3
<1>8. PICK c \in UserCalls : /\ user' = [user EXCEPT ![u] = c]
                         /\ IF known /\ pool[e].uses = 1 THEN c.step = "cleans" /\ c.held = e ELSE c.step = "off"
  <2>1. CASE known /\ pool[e].uses = 1
    <3> DEFINE c == [user[u] EXCEPT !.step = "cleans"]
    <3>1. c \in UserCalls /\ c.step = "cleans" /\ c.held = e
      BY <1>1, <1>3 DEF UserCalls, Steps
    <3>2. user' = [user EXCEPT ![u] = c]
      BY <1>0, <1>2, <2>1, CallTypes
    <3> HIDE DEF c
    <3> QED  BY <2>1, <3>1, <3>2
  <2>2. CASE ~(known /\ pool[e].uses = 1)
    <3>1. user' = [user EXCEPT ![u] = NoCall]
      BY <1>2, <2>2
    <3> QED  BY <2>2, <3>1, NoCallTypes
  <2> QED  BY <2>1, <2>2
<1>9. Moves(u, c, {})
  BY <1>0, <1>8, MovesAlone
<1>10. /\ user'[u] = c /\ user' \in [Users -> UserCalls] /\ c.step \in {"off", "cleans"}
       /\ \A v \in Users : v # u => user'[v] = user[v]
  BY <1>0, <1>8, <1>9, MovesCalls
<1>11. CallOK(c)'
  BY <1>3, <1>7, <1>8 DEF CallOK
<1>12. \A d : InUse(d)' = InUse(d) \ {u}
  BY <1>0, <1>9, <1>10, MovesSets
<1>13. Cardinality(InUse(e)') = Cardinality(InUse(e)) - 1 /\ InUse(e)' \subseteq Users
  BY <1>4, <1>12, SetsOfUsers
<1>14. c.step = "cleans" => c.held = e /\ InUse(e)' = {}
  <2>1. c.step = "cleans" => c.held = e /\ known /\ pool[e].uses = 1
    BY <1>8
  <2>2. known /\ pool[e].uses = 1 => Cardinality(InUse(e)') = 0
    BY <1>4, <1>5, <1>13
  <2>3. InUse(e)' \subseteq Users
    BY <1>13
  <2>4. Cardinality(InUse(e)') = 0 => InUse(e)' = {}
    BY <2>3, SetsOfUsers
  <2> QED  BY <2>1, <2>2, <2>4
<1>15. /\ Spawning' = Spawning /\ In("listed")' = In("listed")
       /\ OpenForItsUsers' /\ SharedByAll' /\ CallsInOrder' /\ SpawnsAwaited' /\ JoinTogether'
       /\ CleanedOnlyByLate' /\ UntilCloseAll'
  <2>1. \A d \in Entries :
              /\ pool'[d].life = pool[d].life /\ pool'[d].base = pool[d].base
              /\ pool[d].life # "listed" => pool'[d].uses = pool[d].uses
    BY <1>7 DEF In
  <2>2. c.step = "cleans" => \A v \in Users : ~(user'[v].step = "using" /\ user'[v].held = c.held)
    BY <1>14 DEF InUse
  <2> QED  BY <1>2, <1>7, <1>9, <1>10, <1>11, <2>1, <2>2, UseKeeps
<1>16. UsesCounted'
  <2> SUFFICES ASSUME NEW d \in In("listed") PROVE pool'[d].uses = Cardinality(InUse(d)')
    BY <1>15 DEF UsesCounted
  <2>1. d \in Entries /\ pool[d].uses = Cardinality(InUse(d))
    BY DEF SingleInductive, UsesCounted, In
  <2>2. CASE d = e
    BY <1>7, <1>13, <2>1, <2>2
  <2>3. CASE d # e
    <3>1. u \notin InUse(d)
      BY <1>1, <2>3 DEF InUse
    <3>2. InUse(d)' = InUse(d)
      BY <1>12, <3>1
    <3> QED  BY <1>7, <2>1, <2>3, <3>2
  <2> QED  BY <2>2, <2>3
<1>17. /\ QueueHoldsWaiters' /\ waiters' \in Seq(Users) /\ IsInjective(waiters')
       /\ Unbroken' => Unbroken
  <2>1. Thinner(waiters', {})
    BY <1>0, <1>2, SameThins
  <2>2. /\ QueueHoldsWaiters' /\ waiters' \in Seq(Users) /\ IsInjective(waiters')
        /\ Unbroken' /\ singleFaults + closeAlls = 0 => Unbroken
    BY <1>0, <1>2, <1>9, <1>10, <2>1, QueueMoves
  <2> QED  BY <1>2, <2>2 DEF Unbroken
<1>18. IdleIsTended'
  <2> SUFFICES ASSUME Unbroken', NEW d \in Idle'
               PROVE  \E v \in Users : user'[v].held = d /\ user'[v].step \in {"joins", "switches", "cleans"}
    BY DEF IdleIsTended
  <2>1. d \in In("listed") /\ d \in Entries /\ pool'[d].uses = 0 /\ ~pool'[d].resident
    BY <1>15 DEF Idle, In
  <2>2. CASE d = e
    <3>1. known /\ pool[e].uses - 1 = 0 /\ pool[e].uses \in Nat
      BY <1>3, <1>4, <1>5, <1>7, <2>1, <2>2
    <3>2. c.step = "cleans" /\ c.held = e
      BY <1>8, <3>1
    <3> QED  BY <1>10, <2>2, <3>2
  <2>3. CASE d # e
    <3>1. d \in Idle
      BY <1>7, <2>1, <2>3 DEF Idle
    <3>2. PICK v \in Users : user[v].held = d /\ user[v].step \in {"joins", "switches", "cleans"}
      BY <1>17, <3>1 DEF SingleInductive, IdleIsTended
    <3>3. v # u
      BY <1>2, <3>2
    <3> QED  BY <1>10, <3>2, <3>3
  <2> QED  BY <2>2, <2>3
<1>19. SlotsExact'
  <2>1. Granteds' = Granteds
    <3>1. u \notin Granteds /\ Granteds' = (Granteds \ {u}) \cup {}
      BY <1>0, <1>2, <1>9, <1>10, MovesSets DEF Granteds
    <3> QED  BY <3>1
  <2> QED  BY <1>2, <1>15, <2>1 DEF SingleInductive, SlotsExact, Granteds
<1>20. ClosersCover'
  <2>1. Cardinality(Closers') = Cardinality(Closers)
    BY <1>0, <1>2, <1>9, <1>10, CloserCount
  <2> QED  BY <1>2, <1>15, <1>17, <2>1 DEF SingleInductive, ClosersCover
<1>21. SingleTypeOK'
  BY <1>0, <1>2, <1>7, <1>10, <1>17, CallTypes, TypesHold DEF SingleTypeOK
<1> QED  BY <1>15, <1>16, <1>17, <1>18, <1>19, <1>20, <1>21 DEF SingleInductive

-----------------------------------------------------------------------------
(* A spawn settles.                                                        *)

LEMMA SpawnSettles ==
    ASSUME SingleInductive, Prompt, NEW e \in Spawning,
           pool' \in [Entries -> PoolEntries], pool'[e].life \in {"listed", "closed"},
           pool'[e].life = "listed" => pool'[e].base = pool[e].base /\ pool'[e].uses = pool[e].uses,
           \A d \in Entries : \/ d = e
                              \/ pool'[d] = pool[d]
                              \/ closeAlls > 0 /\ pool[d].life = "listed" /\ pool'[d].life = "stray",
           Notified(In("listed")', reserved - 1, user),
           UNCHANGED <<cap, current, spawnOf, closer, closeAlls>>,
           singleFaults' \in 0..UpsetMax, singleFaults' >= singleFaults,
           pool'[e].life = "closed" => singleFaults' + closeAlls' > 0
    PROVE  SingleInductive'
<1>0. SingleTypeOK /\ QueueHoldsWaiters /\ CallsInOrder
  BY DEF SingleInductive
<1>1. PICK u \in Users : Joining(u, e)
  BY DEF SingleInductive, SpawnsAwaited
<1>2. PICK c \in UserCalls : c = user[u]
  BY <1>0, CallTypes
<1>3. c.step = "joins" /\ c.held = e /\ user[u].step = "joins"
  BY <1>1, <1>2 DEF Joining
<1>4. e \in Entries /\ pool[e].life \in {"spawning", "outdated"} /\ pool[e].uses = 0
  BY DEF SingleInductive, SpawnsAwaited, Spawning, In
<1>5. /\ Spawning \in SUBSET Entries /\ In("listed") \in SUBSET Entries
      /\ reserved \in Nat /\ reserved <= cap /\ cap \in Nat /\ closeAlls \in Nat /\ singleFaults \in Nat
  BY <1>0, CallTypes DEF Spawning, In
<1>6. /\ Cardinality(In("listed")) \in Nat /\ Cardinality(Spawning) \in Nat /\ Cardinality(Granteds) \in Nat
      /\ reserved = Cardinality(Spawning) + Cardinality(Granteds) /\ Cardinality(Spawning) # 0
  <2>1. Cardinality(In("listed")) \in Nat /\ Cardinality(Spawning) \in Nat /\ Cardinality(Spawning) # 0
    BY <1>5, SetsOfEntries
  <2>2. Cardinality(Granteds) \in Nat
    BY SetsOfUsers DEF Granteds
  <2> QED  BY <2>1, <2>2 DEF SingleInductive, SlotsExact, Granteds
<1>7. PICK r \in Nat : r = reserved - 1 /\ r <= cap /\ r + 1 = reserved
  <2>1. reserved - 1 \in Nat /\ reserved - 1 <= cap
    BY <1>5, <1>6
  <2> QED  BY <1>5, <2>1
<1>8. PICK g : Moves(u, c, g) /\ Thinner(waiters', g) /\ Told(g, In("listed")', r)
  <2>1. user = [v \in Users |-> IF v = u THEN c ELSE user[v]]
    BY <1>0, <1>2, CallTypes
  <2>2. Notified(In("listed")', r, [v \in Users |-> IF v = u THEN c ELSE user[v]])
    BY <1>7, <2>1
  <2>3. u \notin ToSet(waiters)
    BY <1>0, <1>3 DEF QueueHoldsWaiters
  <2>4. r \in Int
    OBVIOUS
  <2> QED  BY <1>0, <2>2, <2>3, <2>4, NotifiedMoves
<1>9. /\ user' \in [Users -> UserCalls] /\ u \notin g
      /\ \A v \in Users : v \notin g => user'[v] = user[v]
      /\ \A v \in g : user[v].step = "waits" /\ user'[v].step = "granted"
  BY <1>0, <1>2, <1>8, MovesCalls
<1>10. /\ Spawning' = Spawning \ {e} /\ In("outdated")' \subseteq In("outdated")
       /\ In("listed")' \subseteq In("listed") \cup {e}
       /\ \A d \in In("listed")' \cup Spawning' : d # e => pool'[d] = pool[d]
  BY <1>4 DEF Spawning, In
<1>11. closeAlls = 0 => /\ \A d \in Entries : d # e => pool'[d] = pool[d]
                        /\ In("stray")' = In("stray") /\ In("listed") \subseteq In("listed")'
                        /\ pool'[e].life = "listed" => In("listed")' = In("listed") \cup {e}
  BY <1>4, <1>5 DEF In
<1>12. CallsInOrder'
  <2>1. LivesGoOn
    BY <1>4 DEF LivesGoOn
  <2>2. CallOK(c)'
    BY <1>3, <1>4 DEF CallOK
  <2> QED  BY <1>0, <1>8, <2>1, <2>2, OrderMoves
<1>13. \A v \in Users : user'[v].step \in {"joins", "switches", "using", "cleans"} => user'[v] = user[v]
  BY <1>9
<1>14. \A v \in Users : user[v].step \in {"joins", "switches", "using", "cleans"} => user'[v] = user[v]
  BY <1>9
<1>15. OpenForItsUsers'
  BY <1>11, <1>13 DEF SingleInductive, OpenForItsUsers
<1>16. SharedByAll'
  <2> SUFFICES ASSUME closeAlls = 0 PROVE SharedByAll'
    BY DEF SharedByAll
  <2>1. \A d \in Spawning' \cup In("listed")' \cup In("stray")' :
            d \in Spawning \cup In("listed") \cup In("stray") /\ pool'[d].base = pool[d].base
    <3> SUFFICES ASSUME NEW d \in Spawning' \cup In("listed")' \cup In("stray")'
                 PROVE  d \in Spawning \cup In("listed") \cup In("stray") /\ pool'[d].base = pool[d].base
      OBVIOUS
    <3>1. d \in Entries
      BY DEF Spawning, In
    <3>2. CASE d # e
      BY <1>10, <1>11, <3>1, <3>2
    <3>3. CASE d = e
      <4>1. pool'[e].life = "listed"
        BY <3>3 DEF Spawning, In
      <4> QED  BY <3>3, <4>1
    <3> QED  BY <3>2, <3>3
  <2> QED  BY <2>1 DEF SingleInductive, SharedByAll
<1>17. SpawnsAwaited'
  <2>1. ASSUME NEW d \in Spawning'
        PROVE  pool'[d].base \in Databases /\ pool'[d].uses = 0 /\ \E v \in Users : Joining(v, d)'
    <3>1. d \in Spawning /\ pool'[d] = pool[d]
      BY <1>10
    <3>2. PICK v \in Users : Joining(v, d)
      BY <3>1 DEF SingleInductive, SpawnsAwaited
    <3>3. Joining(v, d)'
      BY <1>14, <3>2 DEF Joining
    <3> QED  BY <3>1, <3>3 DEF SingleInductive, SpawnsAwaited
  <2>2. ASSUME NEW b \in Databases, spawnOf'[b] # None
        PROVE  \E v \in Users : Joining(v, spawnOf[b])'
    <3>1. PICK v \in Users : Joining(v, spawnOf[b])
      BY <2>2 DEF SingleInductive, SpawnsAwaited
    <3> QED  BY <1>14, <3>1 DEF Joining
  <2> QED  BY <2>1, <2>2 DEF SpawnsAwaited
<1>18. JoinTogether'
  <2>1. \A v \in Users : Joinable(v)' => user'[v].held = e
    BY <1>10, <1>13 DEF Joinable, Prompt
  <2> QED  BY <2>1 DEF JoinTogether
<1>19. \A d : InUse(d)' = InUse(d)
  BY <1>13, <1>14 DEF InUse
<1>20. \A v \in Users : user[v].step \in {"using", "cleans"} => user[v].held # e
  BY <1>0, <1>4 DEF CallsInOrder, CallOK
<1>21. UsesCounted'
  <2> SUFFICES ASSUME NEW d \in In("listed")' PROVE pool'[d].uses = Cardinality(InUse(d))
    BY <1>19 DEF UsesCounted
  <2>1. CASE d = e
    <3>1. InUse(e) = {} /\ pool'[e].life = "listed"
      BY <1>20, <2>1 DEF InUse, In
    <3> QED  BY <1>4, <2>1, <3>1, FS_EmptySet
  <2>2. CASE d # e
    BY <1>10, <2>2 DEF SingleInductive, UsesCounted
  <2> QED  BY <2>1, <2>2
<1>22. CleanedOnlyByLate'
  BY <1>10, <1>13, <1>20 DEF SingleInductive, CleanedOnlyByLate
<1>23. UntilCloseAll'
  BY <1>10, <1>11 DEF SingleInductive, UntilCloseAll
<1>24. /\ QueueHoldsWaiters' /\ waiters' \in Seq(Users) /\ IsInjective(waiters')
       /\ Unbroken' => Unbroken /\ closeAlls = 0 /\ pool'[e].life = "listed"
  <2>1. /\ QueueHoldsWaiters' /\ waiters' \in Seq(Users) /\ IsInjective(waiters')
        /\ Unbroken' /\ singleFaults + closeAlls = 0 => Unbroken
    BY <1>0, <1>3, <1>8, QueueMoves
  <2>2. Unbroken' => singleFaults + closeAlls = 0 /\ closeAlls = 0 /\ pool'[e].life # "closed"
    <3>1. Unbroken' => singleFaults' + closeAlls' = 0
      BY DEF Unbroken
    <3>2. singleFaults' \in Nat /\ closeAlls' = closeAlls
      BY <1>5, SinglePoolAssumption
    <3>3. \A m, n, k \in Nat : m + n = 0 /\ m >= k => k + n = 0 /\ n = 0 /\ ~(m + n > 0)
      OBVIOUS
    <3>4. Unbroken' => ~(singleFaults' + closeAlls' > 0)
      BY <1>5, <3>1, <3>2, <3>3
    <3>5. pool'[e].life = "closed" => singleFaults' + closeAlls' > 0
      OBVIOUS
    <3>6. Unbroken' => singleFaults + closeAlls = 0 /\ closeAlls = 0
      <4>1. singleFaults' >= singleFaults
        OBVIOUS
      <4>2. Unbroken' => singleFaults' + closeAlls = 0
        BY <3>1, <3>2
      <4> QED  BY <1>5, <3>2, <3>3, <4>1, <4>2
    <3> QED  BY <3>4, <3>5, <3>6
  <2> QED  BY <2>1, <2>2
<1>25. SlotsExact' /\ ClosersCover' /\ reserved' \in Nat /\ reserved' <= cap
  <2>1. Cardinality(Closers') = Cardinality(Closers) /\ Cardinality(Closers) \in Nat
    BY <1>0, <1>3, <1>8, CloserCount
  <2>2. Cardinality(Spawning') = Cardinality(Spawning) - 1
    BY <1>5, <1>10, SetsOfEntries
  <2>3. Unbroken' => Cardinality(In("listed")') = Cardinality(In("listed")) + 1
    <3>1. e \notin In("listed")
      BY <1>4 DEF In
    <3> QED  BY <1>5, <1>11, <1>24, <3>1, SetsOfEntries
  <2>4. Unbroken' => /\ Unbroken
                     /\ Cardinality(In("listed")) + reserved + Cardinality(Closers)
                            <= Cardinality(In("listed")') + r + 1 + Cardinality(Closers')
    <3>1. \A l, n, k \in Nat : l + n + k <= (l + 1) + n + k
      OBVIOUS
    <3>2. Unbroken' => Cardinality(In("listed")) + reserved + Cardinality(Closers)
                            <= (Cardinality(In("listed")) + 1) + reserved + Cardinality(Closers)
      BY <1>5, <1>6, <2>1, <3>1
    <3>3. Cardinality(In("listed")') + r + 1 + Cardinality(Closers') =
              Cardinality(In("listed")') + reserved + Cardinality(Closers)
      <4>1. Cardinality(In("listed")') \in Nat
        <5>1. In("listed")' \subseteq Entries
          BY DEF In
        <5> QED  BY <5>1, SetsOfEntries
      <4> QED  BY <1>5, <1>7, <2>1, <4>1
    <3> QED  BY <1>24, <2>3, <3>2, <3>3
  <2>5. c.step # "granted" /\ user[u].step # "granted"
    BY <1>3
  <2>6. r + (IF user[u].step = "granted" THEN 1 ELSE 0) = Cardinality(Spawning') + Cardinality(Granteds)
    BY <1>5, <1>6, <1>7, <2>2, <2>5
  <2> QED  BY <1>7, <1>8, <2>4, <2>5, <2>6, ToldKeeps
<1>26. IdleIsTended'
  <2> SUFFICES ASSUME Unbroken', NEW d \in Idle'
               PROVE  \E v \in Users : user'[v].held = d /\ user'[v].step \in {"joins", "switches", "cleans"}
    BY DEF IdleIsTended
  <2>1. CASE d = e
    BY <1>1, <1>3, <1>2, <1>14, <2>1
  <2>2. CASE d # e
    <3>1. d \in Idle
      BY <1>10, <2>2 DEF Idle
    <3>2. PICK v \in Users : user[v].held = d /\ user[v].step \in {"joins", "switches", "cleans"}
      BY <1>24, <3>1 DEF SingleInductive, IdleIsTended
    <3> QED  BY <1>14, <3>2
  <2> QED  BY <2>1, <2>2
<1>27. SingleTypeOK'
  BY <1>0, <1>9, <1>24, <1>25, CallTypes, TypesHold DEF SingleTypeOK
<1> QED  BY <1>12, <1>15, <1>16, <1>17, <1>18, <1>21, <1>22, <1>23, <1>24, <1>25, <1>26, <1>27 DEF SingleInductive

LEMMA SpawnDonePreserves ==
    ASSUME SingleInductive, NEW e \in Entries, SpawnDone(e) \/ SpawnFails(e), cap' = cap
    PROVE  SingleInductive'
<1>0. SingleTypeOK
  BY DEF SingleInductive
<1>1. pool \in [Entries -> PoolEntries] /\ singleFaults \in 0..UpsetMax /\ singleFaults \in Nat /\ closeAlls \in Nat
  BY <1>0, CallTypes DEF SingleTypeOK
<1>2. NewEntry("closed", NoBase) \in PoolEntries /\ NewEntry("closed", NoBase).life = "closed"
  BY <1>0, NewEntryTypes DEF EntryStates
<1>3. ASSUME e \in Spawning, pool' = Closed(e)
      PROVE  /\ pool' \in [Entries -> PoolEntries] /\ pool'[e].life = "closed"
             /\ \A d \in Entries : d # e => pool'[d] = pool[d]
             /\ In("listed")' = In("listed")
  <2>1. pool[e].life # "listed"
    BY <1>3 DEF Spawning, In
  <2>2. /\ pool' \in [Entries -> PoolEntries] /\ pool'[e].life = "closed"
        /\ \A d \in Entries : d # e => pool'[d] = pool[d]
    BY <1>1, <1>2, <1>3 DEF Closed
  <2> QED  BY <2>1, <2>2 DEF In
<1>4. CASE SpawnFails(e)
  <2>1. /\ Prompt /\ e \in Spawning /\ SingleFault /\ pool' = Closed(e)
        /\ Notified(In("listed"), reserved - 1, user) /\ UNCHANGED <<current, spawnOf, closer>>
    BY <1>4 DEF SpawnFails
  <2>2. closeAlls' = closeAlls /\ singleFaults' = singleFaults + 1 /\ singleFaults' \in 0..UpsetMax
    BY <1>1, <2>1, SinglePoolAssumption DEF SingleFault, Calm
  <2>3. singleFaults' >= singleFaults /\ singleFaults' + closeAlls' > 0
    BY <1>1, <2>2
  <2>4. Notified(In("listed")', reserved - 1, user)
    BY <1>3, <2>1
  <2> QED  BY <1>3, <2>1, <2>2, <2>3, <2>4, SpawnSettles
<1>5. CASE /\ Prompt /\ e \in In("outdated") /\ pool' = Closed(e) /\ Notified(In("listed"), reserved - 1, user)
           /\ UNCHANGED <<current, spawnOf, upsets>>
  <2>1. e \in Spawning /\ UNCHANGED <<closer, singleFaults, closeAlls>>
    BY <1>5 DEF Spawning, upsets
  <2>2. closeAlls # 0
    BY <1>5 DEF SingleInductive, UntilCloseAll
  <2>3. singleFaults' >= singleFaults /\ singleFaults' + closeAlls' > 0 /\ singleFaults' \in 0..UpsetMax
    BY <1>1, <2>1, <2>2
  <2>4. Notified(In("listed")', reserved - 1, user)
    BY <1>3, <1>5, <2>1
  <2> QED  BY <1>3, <1>5, <2>1, <2>3, <2>4, SpawnSettles
<1>6. CASE /\ Prompt /\ e \in In("spawning")
           /\ LET over == EntryOf(pool[e].base)
              IN  /\ pool' = [d \in Entries |->
                                IF d = e THEN [pool[e] EXCEPT !.life = "listed"]
                                ELSE IF d \in over THEN [pool[d] EXCEPT !.life = "stray"] ELSE pool[d]]
                  /\ Notified((In("listed") \ over) \cup {e}, reserved - 1, user)
           /\ UNCHANGED <<current, spawnOf, upsets>>
  <2> DEFINE over == EntryOf(pool[e].base)
  <2>1. e \in Spawning /\ pool[e].life = "spawning" /\ UNCHANGED <<closer, singleFaults, closeAlls>>
    BY <1>6 DEF Spawning, In, upsets
  <2>2. over \subseteq In("listed")
    BY DEF EntryOf
  <2>3. pool' = [d \in Entries |-> IF d = e THEN [pool[e] EXCEPT !.life = "listed"]
                                   ELSE IF d \in over THEN [pool[d] EXCEPT !.life = "stray"] ELSE pool[d]]
    BY <1>6
  <2>4. closeAlls = 0 => over = {}
    <3> SUFFICES ASSUME closeAlls = 0, NEW d \in over PROVE FALSE
      OBVIOUS
    <3>1. d \in In("listed") /\ pool[d].base = pool[e].base
      BY DEF EntryOf
    <3>2. d = e
      BY <2>1, <3>1 DEF SingleInductive, SharedByAll
    <3> QED  BY <2>1, <3>1, <3>2 DEF In
  <2> HIDE DEF over
  <2>5. /\ pool' \in [Entries -> PoolEntries]
        /\ pool'[e].life = "listed" /\ pool'[e].base = pool[e].base /\ pool'[e].uses = pool[e].uses
        /\ \A d \in Entries : d # e => IF d \in over THEN pool'[d].life = "stray" ELSE pool'[d] = pool[d]
    <3>1. \A d \in Entries, l \in {"listed", "stray"} :
              /\ [pool[d] EXCEPT !.life = l] \in PoolEntries /\ [pool[d] EXCEPT !.life = l].life = l
              /\ [pool[d] EXCEPT !.life = l].base = pool[d].base /\ [pool[d] EXCEPT !.life = l].uses = pool[d].uses
      BY <1>1 DEF PoolEntries, EntryStates
    <3> QED  BY <1>1, <2>3, <3>1
  <2>6. In("listed")' = (In("listed") \ over) \cup {e}
    BY <2>1, <2>2, <2>5 DEF In
  <2>7. \A d \in Entries : \/ d = e
                           \/ pool'[d] = pool[d]
                           \/ closeAlls > 0 /\ pool[d].life = "listed" /\ pool'[d].life = "stray"
    BY <1>1, <2>2, <2>4, <2>5 DEF In
  <2>8. Notified(In("listed")', reserved - 1, user)
    BY <1>6, <2>6 DEF over
  <2>9. singleFaults' >= singleFaults /\ singleFaults' \in 0..UpsetMax
    BY <1>1, <2>1
  <2>10. Prompt /\ UNCHANGED <<current, spawnOf>>
    BY <1>6
  <2>11. UNCHANGED <<cap, current, spawnOf, closer, closeAlls>>
    BY <2>1, <2>10
  <2> QED  BY <2>1, <2>5, <2>7, <2>8, <2>9, <2>10, <2>11, SpawnSettles
<1> QED  BY <1>4, <1>5, <1>6 DEF SpawnDone

-----------------------------------------------------------------------------
(* closeAll.                                                               *)

\* After a closeAll the rest is about the lists, the counts and the types only.
LEMMA AfterCloseAll ==
    ASSUME closeAlls' # 0, closeAlls' \in Nat, singleFaults' \in Nat, SingleTypeOK', SlotsExact', QueueHoldsWaiters',
           CallsInOrder', SpawnsAwaited', JoinTogether', UsesCounted', CleanedOnlyByLate'
    PROVE  SingleInductive'
<1>1. OpenForItsUsers' /\ SharedByAll' /\ UntilCloseAll'
  BY DEF OpenForItsUsers, SharedByAll, UntilCloseAll
<1>2. ~Unbroken'
  <2>1. \A m, n \in Nat : n # 0 => m + n # 0
    OBVIOUS
  <2>2. singleFaults' + closeAlls' # 0
    BY <2>1
  <2> QED  BY <2>2 DEF Unbroken
<1>3. ClosersCover' /\ IdleIsTended'
  BY <1>2 DEF ClosersCover, IdleIsTended
<1> QED  BY <1>1, <1>3 DEF SingleInductive

LEMMA CloseAllBeginsPreserves ==
    ASSUME SingleInductive, CloseAllBegins, cap' = cap
    PROVE  SingleInductive'
<1>0. SingleTypeOK /\ QueueHoldsWaiters /\ CallsInOrder
  BY DEF SingleInductive
<1>1. /\ Prompt /\ closeAlls' = closeAlls + 1 /\ closer' = "settling" /\ waiters' = <<>>
      /\ pool' = [e \in Entries |-> [pool[e] EXCEPT !.life = IF @ = "spawning" THEN "outdated" ELSE @]]
      /\ user' = [u \in Users |-> IF u \in ToSet(waiters) THEN NoCall ELSE user[u]]
      /\ UNCHANGED <<current, spawnOf, reserved, singleFaults>>
      /\ singleFaults + closeAlls < UpsetMax
  BY DEF CloseAllBegins, Calm
<1>2. closeAlls' # 0 /\ closeAlls' \in Nat /\ singleFaults' \in Nat /\ closeAlls' \in 0..UpsetMax /\ singleFaults' \in 0..UpsetMax
  BY <1>0, <1>1, CallTypes, SinglePoolAssumption DEF SingleTypeOK
<1>3. /\ user' \in [Users -> UserCalls]
      /\ \A u \in Users : IF user[u].step = "waits" THEN user'[u] = NoCall ELSE user'[u] = user[u]
  BY <1>0, <1>1, CallTypes, NoCallTypes DEF QueueHoldsWaiters
<1>4. \A u \in Users : user'[u].step # "off" => user'[u] = user[u]
  BY <1>3, NoCallTypes
<1>5. \A u \in Users : user[u].step # "waits" => user'[u] = user[u]
  BY <1>3
<1>6. /\ pool' \in [Entries -> PoolEntries]
      /\ \A e \in Entries : /\ pool'[e].life = (IF pool[e].life = "spawning" THEN "outdated" ELSE pool[e].life)
                            /\ pool'[e].base = pool[e].base /\ pool'[e].uses = pool[e].uses
  <2>1. \A e \in Entries : pool[e] \in PoolEntries
    BY <1>0, CallTypes
  <2>2. \A e \in Entries : pool'[e] = [pool[e] EXCEPT !.life = IF pool[e].life = "spawning" THEN "outdated" ELSE pool[e].life]
    BY <1>1
  <2>3. ASSUME NEW e \in Entries
        PROVE  /\ pool'[e] \in PoolEntries
               /\ pool'[e].life = (IF pool[e].life = "spawning" THEN "outdated" ELSE pool[e].life)
               /\ pool'[e].base = pool[e].base /\ pool'[e].uses = pool[e].uses
    <3>1. PICK l \in EntryStates : l = IF pool[e].life = "spawning" THEN "outdated" ELSE pool[e].life
      BY <2>1 DEF PoolEntries, EntryStates
    <3> QED  BY <2>1, <2>2, <3>1 DEF PoolEntries
  <2>4. pool' = [e \in Entries |-> pool'[e]]
    BY <1>1
  <2> QED  BY <2>3, <2>4
<1>7. Spawning' = Spawning /\ In("listed")' = In("listed")
  BY <1>6 DEF Spawning, In
<1>8. SlotsExact'
  <2>1. Granteds' = Granteds
    BY <1>4, <1>5 DEF Granteds
  <2> QED  BY <1>1, <1>7, <2>1 DEF SingleInductive, SlotsExact, Granteds
<1>9. waiters' \in Seq(Users) /\ IsInjective(waiters') /\ ToSet(waiters') = {} /\ DOMAIN waiters' = {}
  BY <1>1 DEF IsInjective, ToSet
<1>10. QueueHoldsWaiters'
  BY <1>3, <1>9, NoCallTypes DEF QueueHoldsWaiters
<1>11. CallsInOrder'
  <2> SUFFICES ASSUME NEW u \in Users PROVE CallOK(user[u])'
    BY DEF CallsInOrder
  <2>1. CASE user[u].step = "waits"
    <3>1. user'[u].step = "off"
      BY <1>3, <2>1, NoCallTypes
    <3> QED  BY <3>1 DEF CallOK
  <2>2. CASE user[u].step # "waits"
    <3>1. user'[u] = user[u] /\ CallOK(user[u])
      BY <1>0, <1>5, <2>2 DEF CallsInOrder
    <3>2. LivesGoOn
      BY <1>6 DEF LivesGoOn
    <3> QED  BY <3>1, <3>2 DEF CallOK, LivesGoOn
  <2> QED  BY <2>1, <2>2
<1>12. SpawnsAwaited'
  <2>1. \A d \in Spawning : d \in Entries
    BY DEF Spawning, In
  <2>2. \A u \in Users : user[u].step = "joins" => user'[u] = user[u]
    BY <1>5
  <2>3. ASSUME NEW d \in Spawning'
        PROVE  pool'[d].base \in Databases /\ pool'[d].uses = 0 /\ \E v \in Users : Joining(v, d)'
    <3>1. d \in Spawning /\ pool'[d].base = pool[d].base /\ pool'[d].uses = pool[d].uses
      BY <1>6, <1>7, <2>1
    <3>2. PICK v \in Users : Joining(v, d)
      BY <3>1 DEF SingleInductive, SpawnsAwaited
    <3>3. Joining(v, d)'
      BY <2>2, <3>2 DEF Joining
    <3> QED  BY <3>1, <3>3 DEF SingleInductive, SpawnsAwaited
  <2>4. ASSUME NEW b \in Databases, spawnOf'[b] # None
        PROVE  \E v \in Users : Joining(v, spawnOf[b])'
    <3>1. PICK v \in Users : Joining(v, spawnOf[b])
      BY <1>1, <2>4 DEF SingleInductive, SpawnsAwaited
    <3> QED  BY <1>1, <2>2, <3>1 DEF Joining
  <2> QED  BY <2>3, <2>4 DEF SpawnsAwaited
<1>13. JoinTogether'
  <2>1. \A v \in Users : ~Joinable(v)'
    BY <1>1, <1>4, <1>7 DEF Joinable, Prompt
  <2> QED  BY <2>1 DEF JoinTogether
<1>14. UsesCounted'
  <2>1. \A d : InUse(d)' = InUse(d)
    BY <1>4, <1>5 DEF InUse
  <2>2. \A d \in In("listed") : d \in Entries
    BY DEF In
  <2>3. \A d \in In("listed") : pool'[d].uses = Cardinality(InUse(d)')
    BY <1>6, <2>1, <2>2 DEF SingleInductive, UsesCounted
  <2> QED  BY <1>7, <2>3 DEF UsesCounted
<1>15. CleanedOnlyByLate'
  BY <1>4, <1>7 DEF SingleInductive, CleanedOnlyByLate
<1>16. SingleTypeOK'
  BY <1>0, <1>1, <1>2, <1>3, <1>6, <1>9, CallTypes, TypesHold
<1> QED  BY <1>2, <1>8, <1>10, <1>11, <1>12, <1>13, <1>14, <1>15, <1>16, AfterCloseAll

\* Every entry is dropped, or those nobody awaits are closed.
LEMMA CloseAllGoesOn ==
    ASSUME SingleInductive, Prompt, closer # "off", cap' = cap,
           pool' \in [Entries -> PoolEntries],
           \A e \in Entries : \/ pool'[e] = pool[e]
                              \/ pool[e].life \in {"listed", "closing"} /\ pool'[e].life \in {"closing", "closed"},
           spawnOf' \in [Databases -> Entries \cup {None}],
           \A b \in Databases : spawnOf'[b] \in {spawnOf[b], None},
           current' \in {current, None}, closer' \in {"off", "closing"},
           UNCHANGED <<reserved, waiters, user, singleFaults, closeAlls>>
    PROVE  SingleInductive'
<1>0. SingleTypeOK /\ QueueHoldsWaiters /\ CallsInOrder
  BY DEF SingleInductive
<1>1. closeAlls' # 0 /\ closeAlls' \in Nat /\ singleFaults' \in Nat
  BY <1>0, CallTypes DEF SingleInductive, UntilCloseAll
<1>2. /\ Spawning' = Spawning /\ In("listed")' \subseteq In("listed")
      /\ \A d \in Spawning \cup In("listed")' : pool'[d] = pool[d]
  BY DEF Spawning, In
<1>3. SlotsExact'
  BY <1>2 DEF SingleInductive, SlotsExact
<1>4. QueueHoldsWaiters'
  BY <1>0 DEF QueueHoldsWaiters
<1>5. CallsInOrder'
  <2>1. LivesGoOn
    BY DEF LivesGoOn
  <2> QED  BY <1>0, <2>1 DEF CallsInOrder, CallOK, LivesGoOn
<1>6. SpawnsAwaited'
  <2>1. ASSUME NEW d \in Spawning'
        PROVE  pool'[d].base \in Databases /\ pool'[d].uses = 0 /\ \E v \in Users : Joining(v, d)'
    BY <1>2, <2>1 DEF SingleInductive, SpawnsAwaited, Joining
  <2>2. ASSUME NEW b \in Databases, spawnOf'[b] # None
        PROVE  \E v \in Users : Joining(v, spawnOf[b])'
    <3>1. spawnOf'[b] = spawnOf[b]
      BY <2>2
    <3>2. PICK v \in Users : Joining(v, spawnOf[b])
      BY <2>2, <3>1 DEF SingleInductive, SpawnsAwaited
    <3> QED  BY <3>1, <3>2 DEF Joining
  <2> QED  BY <2>1, <2>2 DEF SpawnsAwaited
<1>7. JoinTogether'
  <2>1. \A v \in Users : ~Joinable(v)'
    BY <1>2 DEF Joinable, Prompt
  <2> QED  BY <2>1 DEF JoinTogether
<1>8. UsesCounted'
  <2>1. \A d : InUse(d)' = InUse(d)
    BY DEF InUse
  <2> QED  BY <1>2, <2>1 DEF SingleInductive, UsesCounted
<1>9. CleanedOnlyByLate'
  BY <1>2 DEF SingleInductive, CleanedOnlyByLate
<1>10. SingleTypeOK'
  <2>1. singleFaults' \in 0..UpsetMax /\ closeAlls' \in 0..UpsetMax
    BY <1>0 DEF SingleTypeOK
  <2>2. current' \in Entries \cup {None}
    BY <1>0, CallTypes
  <2> QED  BY <1>0, <2>1, <2>2, CallTypes, TypesHold
<1> QED  BY <1>1, <1>3, <1>4, <1>5, <1>6, <1>7, <1>8, <1>9, <1>10, AfterCloseAll

LEMMA CloseAllPreserves ==
    ASSUME SingleInductive, CloseAllCloses \/ CloseAllEnds, cap' = cap
    PROVE  SingleInductive'
<1>0. SingleTypeOK
  BY DEF SingleInductive
<1>1. pool \in [Entries -> PoolEntries] /\ spawnOf \in [Databases -> Entries \cup {None}]
  BY <1>0, CallTypes
<1>2. \A e \in Entries : /\ NewEntry("closing", pool[e].base) \in PoolEntries
                         /\ NewEntry("closing", pool[e].base).life = "closing"
  <2> SUFFICES ASSUME NEW e \in Entries
               PROVE  /\ NewEntry("closing", pool[e].base) \in PoolEntries
                      /\ NewEntry("closing", pool[e].base).life = "closing"
    OBVIOUS
  <2>1. pool[e].base \in Databases \cup {NoBase}
    BY <1>1 DEF PoolEntries
  <2> QED  BY <1>0, <2>1, NewEntryTypes DEF EntryStates
<1>3. NewEntry("closed", NoBase) \in PoolEntries /\ NewEntry("closed", NoBase).life = "closed"
  BY <1>0, NewEntryTypes DEF EntryStates
<1>4. CASE CloseAllCloses
  <2>1. /\ Prompt /\ closer = "settling" /\ closer' = "closing" /\ current' = None
        /\ pool' = [e \in Entries |-> IF e \in In("listed") THEN NewEntry("closing", pool[e].base) ELSE pool[e]]
        /\ spawnOf' = [b \in Databases |-> None]
        /\ UNCHANGED <<reserved, waiters, user, singleFaults, closeAlls>>
    BY <1>4 DEF CloseAllCloses
  <2>2. /\ pool' \in [Entries -> PoolEntries]
        /\ \A e \in Entries : \/ pool'[e] = pool[e]
                              \/ pool[e].life \in {"listed", "closing"} /\ pool'[e].life \in {"closing", "closed"}
    BY <1>1, <1>2, <2>1 DEF In
  <2>3. spawnOf' \in [Databases -> Entries \cup {None}] /\ \A b \in Databases : spawnOf'[b] \in {spawnOf[b], None}
    BY <2>1
  <2> QED  BY <2>1, <2>2, <2>3, CloseAllGoesOn
<1>5. CASE CloseAllEnds
  <2>1. /\ Prompt /\ closer = "closing" /\ closer' = "off"
        /\ pool' = [e \in Entries |-> IF e \in In("closing") /\ \A u \in Users : user[u].shuts # e
                                      THEN NewEntry("closed", NoBase) ELSE pool[e]]
        /\ UNCHANGED <<current, spawnOf, reserved, waiters, user, singleFaults, closeAlls>>
    BY <1>5 DEF CloseAllEnds
  <2>2. /\ pool' \in [Entries -> PoolEntries]
        /\ \A e \in Entries : \/ pool'[e] = pool[e]
                              \/ pool[e].life \in {"listed", "closing"} /\ pool'[e].life \in {"closing", "closed"}
    BY <1>1, <1>3, <2>1 DEF In
  <2> QED  BY <1>1, <2>1, <2>2, CloseAllGoesOn
<1> QED  BY <1>4, <1>5

-----------------------------------------------------------------------------
(* The promise.                                                            *)

LEMMA SingleStep == SingleInductive /\ [SingleNext]_singleVars => SingleInductive'
<1>1. CASE SingleInductive /\ UNCHANGED singleVars
  <2>1. UNCHANGED <<cap, pool, current, spawnOf, reserved, waiters, user, closer, singleFaults, closeAlls>>
    BY <1>1 DEF singleVars
  <2>2. Spawning' = Spawning /\ Idle' = Idle /\ Closers' = Closers /\ (Unbroken' <=> Unbroken)
    BY <2>1 DEF Spawning, Idle, Closers, Unbroken, In
  <2>3. (\A s : In(s)' = In(s)) /\ (\A e : InUse(e)' = InUse(e)) /\ \A u : Joinable(u)' <=> Joinable(u)
    BY <2>1, <2>2 DEF In, InUse, Joinable
  <2>4. SingleTypeOK' /\ SlotsExact' /\ OpenForItsUsers' /\ SharedByAll'
    BY <1>1, <2>1, <2>2, <2>3 DEF SingleInductive, SingleTypeOK, SlotsExact, OpenForItsUsers, SharedByAll
  <2>5. QueueHoldsWaiters' /\ CallsInOrder' /\ SpawnsAwaited' /\ JoinTogether'
    <3>1. QueueHoldsWaiters' /\ CallsInOrder'
      BY <1>1, <2>1 DEF SingleInductive, QueueHoldsWaiters, CallsInOrder, CallOK
    <3>2. SpawnsAwaited'
      BY <1>1, <2>1, <2>2 DEF SingleInductive, SpawnsAwaited, Joining
    <3>3. JoinTogether'
      BY <1>1, <2>1, <2>3 DEF SingleInductive, JoinTogether
    <3> QED  BY <3>1, <3>2, <3>3
  <2>6. UsesCounted' /\ CleanedOnlyByLate' /\ UntilCloseAll'
    BY <1>1, <2>1, <2>2, <2>3 DEF SingleInductive, UsesCounted, CleanedOnlyByLate, UntilCloseAll
  <2>7. ClosersCover' /\ IdleIsTended'
    BY <1>1, <2>1, <2>2, <2>3 DEF SingleInductive, ClosersCover, IdleIsTended
  <2> QED  BY <2>4, <2>5, <2>6, <2>7 DEF SingleInductive
<1>2. ASSUME SingleInductive, SingleNext
      PROVE  SingleInductive'
  <2>1. cap' = cap
    BY <1>2 DEF SingleNext
  <2>2. ASSUME NEW u \in Users, UserStep(u)
        PROVE  SingleInductive'
    <3>1. CASE \E b \in Databases : \E kind \in Kinds : CheckOut(u, kind, b)
      BY <1>2, <2>1, <3>1, CheckOutPreserves
    <3>2. CASE \E b \in Databases : CloseShared(u, b)
      BY <1>2, <2>1, <3>2, CloseSharedPreserves
    <3>3. CASE EvictDone(u)
      BY <1>2, <2>1, <3>3, EvictDonePreserves
    <3>4. CASE CloseThrows(u)
      BY <1>2, <2>1, <3>4, CloseThrowsPreserves
    <3>5. CASE WaitTimesOut(u)
      BY <1>2, <2>1, <3>5, WaitTimesOutPreserves
    <3>6. CASE Granted(u)
      BY <1>2, <2>1, <3>6, GrantedPreserves
    <3>7. CASE Joins(u)
      BY <1>2, <2>1, <3>7, JoinsPreserves
    <3>8. CASE SwitchDone(u)
      BY <1>2, <2>1, <3>8, SwitchDonePreserves
    <3>9. CASE CheckIn(u)
      BY <1>2, <2>1, <3>9, CheckInPreserves
    <3>10. CASE CleanDone(u) \/ CleanFails(u)
      BY <1>2, <2>1, <3>10, CleanDonePreserves
    <3>11. CASE CloseDone(u)
      BY <1>2, <2>1, <3>11, CloseDonePreserves
    <3> QED  BY <2>2, <3>1, <3>2, <3>3, <3>4, <3>5, <3>6, <3>7, <3>8, <3>9, <3>10, <3>11 DEF UserStep
  <2>3. ASSUME NEW e \in Entries, SpawnDone(e) \/ SpawnFails(e)
        PROVE  SingleInductive'
    BY <1>2, <2>1, <2>3, SpawnDonePreserves
  <2>4. CASE CloseAllBegins
    BY <1>2, <2>1, <2>4, CloseAllBeginsPreserves
  <2>5. CASE CloseAllCloses \/ CloseAllEnds
    BY <1>2, <2>1, <2>5, CloseAllPreserves
  <2> QED  BY <1>2, <2>2, <2>3, <2>4, <2>5 DEF SingleNext
<1> QED  BY <1>1, <1>2

LEMMA SingleStarts == SingleInit => SingleInductive
<1> SUFFICES ASSUME SingleInit PROVE SingleInductive
  OBVIOUS
<1> USE SinglePoolAssumption
<1>1. /\ cap \in Caps /\ pool = [e \in Entries |-> NewEntry("unborn", NoBase)] /\ current = None
      /\ spawnOf = [b \in Databases |-> None] /\ reserved = 0 /\ waiters = <<>>
      /\ user = [u \in Users |-> NoCall] /\ closer = "off" /\ singleFaults = 0 /\ closeAlls = 0
  BY DEF SingleInit
<1>2. \A s : s # "unborn" => In(s) = {}
  BY <1>1 DEF In, NewEntry
<1>3. \A u \in Users : user[u] = NoCall /\ user[u].step = "off"
  BY <1>1 DEF NoCall
<1>4. SingleTypeOK
  <2>1. Cardinality(Users) \in Nat /\ cap \in Nat /\ UpsetMax \in Nat
    BY <1>1, SetsOfUsers
  <2>2. pool \in [Entries -> PoolEntries]
    BY <1>1, <2>1 DEF NewEntry, PoolEntries, EntryStates
  <2>3. user \in [Users -> UserCalls]
    BY <1>1, NoCallTypes
  <2>4. waiters \in Seq(Users) /\ IsInjective(waiters)
    BY <1>1 DEF IsInjective
  <2> QED  BY <1>1, <2>1, <2>2, <2>3, <2>4 DEF SingleTypeOK, PoolEntries, UserCalls
<1>5. Spawning = {} /\ Granteds = {}
  BY <1>2, <1>3 DEF Spawning, Granteds
<1>6. SlotsExact
  <2>1. Cardinality(Spawning) = 0 /\ Cardinality(Granteds) = 0
    BY <1>5, FS_EmptySet
  <2>2. reserved = Cardinality(Spawning) + Cardinality(Granteds)
    BY <1>1, <2>1
  <2> QED  BY <2>2 DEF SlotsExact, Granteds
<1>7. QueueHoldsWaiters
  BY <1>1, <1>3 DEF QueueHoldsWaiters, ToSet
<1>8. OpenForItsUsers /\ JoinTogether /\ CleanedOnlyByLate
  BY <1>3 DEF OpenForItsUsers, JoinTogether, Joinable, CleanedOnlyByLate
<1>9. CallsInOrder
  BY <1>3 DEF CallsInOrder, CallOK
<1>10. SpawnsAwaited /\ UsesCounted /\ UntilCloseAll /\ SharedByAll
  BY <1>1, <1>2, <1>5 DEF SpawnsAwaited, UsesCounted, UntilCloseAll, SharedByAll
<1>11. ClosersCover /\ IdleIsTended
  BY <1>1 DEF ClosersCover, IdleIsTended, Unbroken
<1> QED  BY <1>4, <1>6, <1>7, <1>8, <1>9, <1>10, <1>11 DEF SingleInductive

\* When nobody is busy, nobody closes or tends an entry.
LEMMA NoNeedlessWait == SingleInductive => WaitsOnlyWhenFull
<1> SUFFICES ASSUME SingleInductive, NobodyBusy, Unbroken PROVE ~Room /\ Idle = {}
  BY DEF WaitsOnlyWhenFull, Unbroken
<1>0. SingleTypeOK
  BY DEF SingleInductive
<1>1. Closers = {} /\ Cardinality(Closers) = 0
  <2>1. Closers = {}
    BY DEF Closers, NobodyBusy
  <2> QED  BY <2>1, FS_EmptySet
<1>2. cap <= Cardinality(In("listed")) + reserved + Cardinality(Closers)
  BY DEF SingleInductive, ClosersCover
<1>3. Cardinality(In("listed")) \in Nat /\ reserved \in Nat /\ cap \in Nat
  <2>1. In("listed") \subseteq Entries
    BY DEF In
  <2> QED  BY <1>0, <2>1, CallTypes, SetsOfEntries
<1>4. ~Room
  BY <1>1, <1>2, <1>3 DEF Room, RoomFor
<1>5. Idle = {}
  BY DEF SingleInductive, IdleIsTended, NobodyBusy
<1> QED  BY <1>4, <1>5

\* The shared pool keeps its promise through every checkout, eviction, failure and close:
\* what is reserved is being opened or granted; whoever uses a database uses an open
\* connection and the only one there is, but for the gaps that OpenForItsUsers names and
\* until a closeAll; and nobody waits beside a slot or an idle connection.
THEOREM SharedPoolKeepsPromise == SingleSpec => []SingleInv
<1>1. SingleInductive => SingleInv
  BY NoNeedlessWait DEF SingleInductive, SingleInv
<1> QED  BY SingleStarts, SingleStep, <1>1, PTL DEF SingleSpec

=============================================================================
