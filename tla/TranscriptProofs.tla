-------------------------- MODULE TranscriptProofs --------------------------
(***************************************************************************)
(* Proofs about Transcript, for any spawns and tasks, any number of        *)
(* overlapping ingests, and files of any length.                           *)
(***************************************************************************)
EXTENDS Transcript, SequenceTheorems, TLAPS

\* The rows a spawn may have.
RowsOf(id) == {row \in Rows : /\ row.status # "none" => row.name = ForkNameFromPrompt(id)
                              /\ row.task \in {None, TaskId(id)}}

\* A row only ever moves on: it stays registered under its name and its task id,
\* and its end, once noted, is final.
Advances(old, new) ==
    /\ old.status # "none" =>
          /\ new.status # "none"
          /\ new.name = old.name
          /\ old.task # None => new.task = old.task
    /\ old.status \notin {"none", "spawned"} => new.status = old.status /\ new.at = old.at

-----------------------------------------------------------------------------
\* Notifications and rows.

\* A notification carries its own task's ids and no other's.
LEMMA NoteFacts ==
  ASSUME NEW id \in Ids, NEW n \in NotesOf(id)
  PROVE  n.task = TaskId(id) /\ n.task # None /\ n.use \in {id, None} /\ n.task[2] = id /\ n # None
<1>1. n.task = TaskId(id) /\ n.use \in {id, None}
  BY DEF NotesOf, Notification
<1>2. TaskId(id)[2] = id
  BY DEF TaskId
<1> QED BY <1>1, <1>2, NoneAssumption

\* Task ids tell tasks apart.
LEMMA TaskIdsDiffer ==
  ASSUME NEW id, NEW j, TaskId(id) = TaskId(j)
  PROVE  id = j
BY DEF TaskId

\* INSERT OR IGNORE registers the spawn and leaves a row that is there alone.
LEMMA RecordRow ==
  ASSUME NEW id \in ForkIds, NEW row \in RowsOf(id)
  PROVE  /\ RecordSpawn(row, id) \in RowsOf(id)
         /\ Advances(row, RecordSpawn(row, id))
         /\ RecordSpawn(row, id).status # "none"
<1>1. CASE row.status = "none"
  <2>1. RecordSpawn(row, id) = [status |-> "spawned", name |-> ForkNameFromPrompt(id),
                                task |-> None, at |-> -1]
    BY <1>1 DEF RecordSpawn, NotSeen
  <2> QED BY <1>1, <2>1 DEF RowsOf, Rows, Advances
<1>2. CASE row.status # "none"
  BY <1>2 DEF RecordSpawn, RowsOf, Advances
<1> QED BY <1>1, <1>2

\* A task id is set once, on a registered spawn.
LEMMA TaskRow ==
  ASSUME NEW id \in ForkIds, NEW row \in RowsOf(id)
  PROVE  /\ SetSpawnTaskId(row, id) \in RowsOf(id)
         /\ Advances(row, SetSpawnTaskId(row, id))
         /\ row.status # "none" => SetSpawnTaskId(row, id).task = TaskId(id)
<1>1. CASE row.status # "none" /\ row.task = None
  <2>1. SetSpawnTaskId(row, id) = [row EXCEPT !.task = TaskId(id)]
    BY <1>1 DEF SetSpawnTaskId
  <2> QED BY <1>1, <2>1 DEF RowsOf, Rows, Advances
<1>2. CASE ~(row.status # "none" /\ row.task = None)
  <2>1. SetSpawnTaskId(row, id) = row
    BY <1>2 DEF SetSpawnTaskId
  <2> QED BY <1>2, <2>1 DEF RowsOf, Advances
<1> QED BY <1>1, <1>2

\* The first terminal notification that matches a spawn ends it.
LEMMA MarkRow ==
  ASSUME NEW id \in ForkIds, NEW db, db[id] \in RowsOf(id), NEW n, IsTerminalStatus(n.status),
         NEW t \in Int
  PROVE  /\ MarkSpawnTerminal(db, n, t)[id] \in RowsOf(id)
         /\ Advances(db[id], MarkSpawnTerminal(db, n, t)[id])
         /\ Matches(n, id, db[id])
              => MarkSpawnTerminal(db, n, t)[id].status \notin {"none", "spawned"}
<1> DEFINE new == MarkSpawnTerminal(db, n, t)[id]
<1>1. CASE Matches(n, id, db[id]) /\ db[id].status = "spawned"
  <2>1. new = [db[id] EXCEPT !.status = n.status, !.at = t]
    BY <1>1 DEF MarkSpawnTerminal
  <2>2. n.status \in {"completed", "failed", "stopped"}
    BY DEF IsTerminalStatus
  <2>3. new \in Rows
    BY <2>1, <2>2 DEF RowsOf, Rows
  <2>4. new.status = n.status /\ new.name = db[id].name /\ new.task = db[id].task
    BY <2>1 DEF RowsOf, Rows
  <2> QED BY <1>1, <2>2, <2>3, <2>4 DEF RowsOf, Advances
<1>2. CASE ~(Matches(n, id, db[id]) /\ db[id].status = "spawned")
  <2>1. new = db[id]
    BY <1>2 DEF MarkSpawnTerminal
  <2> QED BY <1>2, <2>1 DEF RowsOf, Advances, Matches
<1> QED BY <1>1, <1>2

\* All the terminal notifications of a delta: each spawn that one of them matches
\* has ended.
LEMMA MarkAllRow ==
  ASSUME NEW id \in ForkIds, NEW db, db[id] \in RowsOf(id), NEW notes, NEW t \in Int
  PROVE  /\ MarkAll(db, notes, t)[id] \in RowsOf(id)
         /\ Advances(db[id], MarkAll(db, notes, t)[id])
         /\ \A n \in notes : IsTerminalStatus(n.status) /\ Matches(n, id, db[id])
              => MarkAll(db, notes, t)[id].status \notin {"none", "spawned"}
<1> DEFINE hits == {n \in notes : IsTerminalStatus(n.status) /\ Matches(n, id, db[id])}
<1>1. MarkAll(db, notes, t)[id] = IF hits = {} THEN db[id]
                                  ELSE MarkSpawnTerminal(db, CHOOSE n \in hits : TRUE, t)[id]
  BY DEF MarkAll
<1>2. CASE hits = {}
  BY <1>1, <1>2 DEF Advances
<1>3. CASE hits # {}
  <2>1. PICK n \in hits : n = CHOOSE m \in hits : TRUE
    BY <1>3
  <2>2. MarkAll(db, notes, t)[id] = MarkSpawnTerminal(db, n, t)[id]
    BY <1>1, <1>3, <2>1
  <2> QED BY <2>1, <2>2, MarkRow
<1> QED BY <1>2, <1>3

\* One advance after another is an advance.
LEMMA AdvancesOn ==
  ASSUME NEW a, NEW b, NEW c, Advances(a, b), Advances(b, c)
  PROVE  Advances(a, c)
BY DEF Advances

\* What a line has done to the registry lasts.
LEMMA AbsorbedStays ==
  ASSUME NEW db, NEW new, \A id \in ForkIds : Advances(db[id], new[id]),
         NEW notes, NEW l, l.spawn \in ForkIds \cup {None}, l.result \in ForkIds \cup {None},
         Absorbed(l, db, notes)
  PROVE  Absorbed(l, new, notes)
<1>1. \A id \in ForkIds : db[id].status # "none" => new[id].status # "none"
  BY DEF Advances
<1>2. \A id \in ForkIds : Complete(id, db) => Complete(id, new)
  BY NoneAssumption DEF Advances, Complete, Ids
<1>3. \A id \in ForkIds : db[id].status \notin {"none", "spawned"}
         => new[id].status \notin {"none", "spawned"}
  BY DEF Advances
<1> QED BY <1>1, <1>2, <1>3 DEF Absorbed

-----------------------------------------------------------------------------
\* What is in the file, and what an invariant owes to the parts of the state.

\* Lines are of the kinds the watcher knows.
LEMMA LineFacts ==
  ASSUME TypeOK
  PROVE  /\ Len(file) \in Nat
         /\ \A i \in 1..Len(file) : /\ file[i] \in Lines
                                    /\ file[i].spawn \in ForkIds \cup {None}
                                    /\ file[i].result \in ForkIds \cup {None}
                                    /\ file[i].notif \in {note[id] : id \in ForkIds} \cup {None}
<1>1. file \in Seq(Lines)
  BY DEF TypeOK
<1>2. Len(file) \in Nat /\ \A i \in 1..Len(file) : file[i] \in Lines
  BY <1>1
<1> QED BY <1>2 DEF Lines

\* The types that mention the notifications, which never change.
LEMMA SameTypes ==
  ASSUME note' = note
  PROVE  Lines' = Lines /\ Ingests' = Ingests
BY DEF Lines, Ingests

\* The counters are natural numbers.
LEMMA CounterFacts ==
  ASSUME TypeOK
  PROVE  now \in Nat /\ dropped \in Nat /\ offset \in Nat /\ offsetOf \in Nat
BY DEF TypeOK

\* An ingest that is over.
LEMMA FreeFacts ==
  /\ Free \in Ingests
  /\ Free.pc = "free" /\ Free.note = None /\ ~ Free.failed
<1>1. <<>> \in Seq(Lines)
  OBVIOUS
<1>2. FALSE \in BOOLEAN
  OBVIOUS
<1> QED BY <1>1, <1>2 DEF Free, Ingests

\* An advance of the registry keeps what an offset covers.
LEMMA CoveredStays ==
  ASSUME TypeOK, \A id \in ForkIds : Advances(spawns[id], spawns'[id]),
         UNCHANGED <<file, torn, dropped, note>>
  PROVE  \A off, of : Covered(off, of) => Covered(off, of)'
<1>1. \A i \in 1..Len(file) : Absorbed(file[i], spawns, note) => Absorbed(file[i], spawns', note)
  BY LineFacts, AbsorbedStays
<1> QED BY <1>1 DEF Covered

\* It keeps calls, results and notifications in order.
LEMMA OrderStays ==
  ASSUME InOrder, \A id \in ForkIds : Advances(spawns[id], spawns'[id]),
         UNCHANGED <<file, task, note>>
  PROVE  InOrder'
<1>1. \A id \in ForkIds : spawns[id].status # "none" => spawns'[id].status # "none"
  BY DEF Advances
<1>2. \A id \in ForkIds : Complete(id, spawns) => Complete(id, spawns')
  BY NoneAssumption DEF Advances, Complete, Ids
<1> QED BY <1>1, <1>2 DEF InOrder

\* A registry that does not change advances.
LEMMA AdvancesNot ==
  ASSUME NEW row
  PROVE  Advances(row, row)
BY DEF Advances

\* An ingest that waits at its step stays sound while the registry advances.
LEMMA SoundStays ==
  ASSUME TypeOK, \A id \in ForkIds : Advances(spawns[id], spawns'[id]),
         UNCHANGED <<file, torn, dropped, task, note>>,
         NEW q \in Readers, reader'[q] = reader[q], Sound(q)
  PROVE  Sound(q)'
<1>1. \A i \in 1..Len(file) : Absorbed(file[i], spawns, note) => Absorbed(file[i], spawns', note)
  BY LineFacts, AbsorbedStays
<1>2. reader[q].pc = "read" => Covered(reader[q].from, reader[q].dropped)'
  <2>1. reader[q].pc = "read" => Covered(reader[q].from, reader[q].dropped)
    BY DEF Sound
  <2> QED BY <1>1, <2>1 DEF Covered
<1>3. reader[q].pc = "apply" => Fetched(q)'
  <2>1. reader[q].pc = "apply" => Fetched(q)
    BY DEF Sound
  <2> QED BY <1>1, <2>1 DEF Fetched
<1>4. \A id \in ForkIds : Complete(id, spawns) => Complete(id, spawns')
  BY NoneAssumption DEF Advances, Complete, Ids
<1> QED BY <1>2, <1>3, <1>4 DEF Sound

-----------------------------------------------------------------------------
\* Every step of an ingest keeps TranscriptInv.

\* An ingest starts from an offset that is covered, on behalf of a task whose call
\* and result were written.
LEMMA BeginKeeps ==
  ASSUME TranscriptInv, NEW r \in Readers, NEW n \in {note[id] : id \in Ids} \cup {None},
         \A id \in ForkIds : n = note[id] => task[id] = "launched",
         Begin(r, n), prompted' \subseteq Ids,
         UNCHANGED <<now, file, torn, dropped, task, note, told, dbVars, verdict>>
  PROVE  TranscriptInv'
<1> USE DEF TranscriptInv, dbVars
<1> DEFINE x == [Free EXCEPT !.pc = "read", !.note = n, !.from = offset, !.dropped = offsetOf]
<1>1. x \in Ingests /\ x.pc = "read" /\ x.note = n /\ x.from = offset /\ x.dropped = offsetOf
  BY FreeFacts, CounterFacts DEF Ingests
<1>2. reader' = [reader EXCEPT ![r] = x]
  BY DEF Begin
<1> HIDE DEF x
<1>3. reader' \in [Readers -> Ingests]
  BY <1>1, <1>2 DEF TypeOK
<1>4. TypeOK'
  BY <1>3, SameTypes DEF TypeOK
<1>5. InOrder'
  BY OrderStays, AdvancesNot
<1>6. Covered(offset, offsetOf)'
  BY DEF Covered
<1>7. reader'[r] = x /\ \A q \in Readers : q # r => reader'[q] = reader[q]
  BY <1>2 DEF TypeOK
<1>8. Sound(r)'
  BY <1>1, <1>7 DEF Sound, Covered
<1>9. IngestsSound'
  BY <1>7, <1>8, SoundStays, AdvancesNot DEF IngestsSound
<1> QED BY <1>4, <1>5, <1>6, <1>9

\* A Stop.
LEMMA StopIngestsKeeps ==
  ASSUME TranscriptInv, NEW r \in Readers, StopIngests(r)
  PROVE  TranscriptInv'
<1>1. \A id \in ForkIds : None # note[id]
  BY NoneAssumption DEF TranscriptInv, TypeOK, Ids
<1> QED BY <1>1, BeginKeeps DEF StopIngests, envVars, TranscriptInv, TypeOK

\* A notification prompt.
LEMMA NotePromptKeeps ==
  ASSUME TranscriptInv, NEW r \in Readers, NEW id \in Ids, NotePrompt(r, id)
  PROVE  TranscriptInv'
<1>1. \A j \in Ids : note[id] = note[j] => id = j
  <2> TAKE j \in Ids
  <2>1. note[id].task[2] = id /\ note[j].task[2] = j
    BY NoteFacts DEF TranscriptInv, TypeOK
  <2> QED BY <2>1
<1>2. \A j \in ForkIds : note[id] = note[j] => task[j] = "launched"
  BY <1>1 DEF NotePrompt, Ids
<1>3. prompted' \subseteq Ids
  BY DEF NotePrompt, TranscriptInv, TypeOK
<1> QED BY <1>2, <1>3, BeginKeeps DEF NotePrompt

\* read_delta returns every complete line that is not absorbed, from an offset into
\* this file or into one since rewritten.
LEMMA DeltaFacts ==
  ASSUME TypeOK, NEW from \in Nat, NEW of \in Nat, Covered(from, of)
  PROVE  LET delta == ReadDelta(from) IN
         /\ delta.next = 2 * Len(file)
         /\ delta.lines \in Seq(Lines)
         /\ \A i \in 1..Len(file) : \/ Absorbed(file[i], spawns, note)
                                    \/ \E j \in 1..Len(delta.lines) : delta.lines[j] = file[i]
         /\ \A j \in 1..Len(delta.lines) : \E i \in 1..Len(file) : file[i] = delta.lines[j]
<1> DEFINE start == IF Size(file, torn) < from THEN 0 ELSE from
           m == (start + 1) \div 2 + 1
           lines == SubSeq(file, m, Len(file))
<1>1. ReadDelta(from).next = 2 * Len(file) /\ ReadDelta(from).lines = lines
  BY DEF ReadDelta
<1>2. start \in Nat /\ start % 2 = 0
  BY DEF Covered
<1>3. m \in Nat /\ m >= 1 /\ 2 * (m - 1) = start
  <2> HIDE DEF start
  <2> QED BY <1>2
<1>4. \A i \in 1..Len(file) : i < m => Absorbed(file[i], spawns, note)
  <2> SUFFICES ASSUME NEW i \in 1..Len(file), i < m PROVE Absorbed(file[i], spawns, note)
    OBVIOUS
  <2>1. 2 * i <= start
    BY <1>2, <1>3
  <2>2. start = from /\ ~(Size(file, torn) < from)
    BY <2>1
  <2>3. of = dropped
    BY <2>2, LineFacts DEF Covered, Size
  <2> QED BY <2>1, <2>2, <2>3 DEF Covered
<1> HIDE DEF m
<1>5. /\ lines \in Seq(Lines)
      /\ Len(lines) = IF m <= Len(file) THEN Len(file) - m + 1 ELSE 0
      /\ \A i \in 1..(Len(file) - m + 1) : lines[i] = file[m + i - 1]
  <2>1. \A i \in m..Len(file) : file[i] \in Lines
    BY <1>3, LineFacts
  <2> QED BY <1>3, <2>1, LineFacts, SubSeqProperties
<1> HIDE DEF lines
<1>6. \A i \in 1..Len(file) : i >= m => \E j \in 1..Len(lines) : lines[j] = file[i]
  <2> SUFFICES ASSUME NEW i \in 1..Len(file), i >= m
               PROVE  \E j \in 1..Len(lines) : lines[j] = file[i]
    OBVIOUS
  <2>1. i - m + 1 \in 1..Len(lines) /\ lines[i - m + 1] = file[i]
    BY <1>3, <1>5, LineFacts
  <2> QED BY <2>1
<1>7. \A j \in 1..Len(lines) : \E i \in 1..Len(file) : file[i] = lines[j]
  <2> SUFFICES ASSUME NEW j \in 1..Len(lines)
               PROVE  \E i \in 1..Len(file) : file[i] = lines[j]
    OBVIOUS
  <2>1. m + j - 1 \in 1..Len(file) /\ file[m + j - 1] = lines[j]
    BY <1>3, <1>5, LineFacts
  <2> QED BY <2>1
<1>8. \A i \in 1..Len(file) : i < m \/ i >= m
  BY <1>3
<1> QED BY <1>1, <1>4, <1>5, <1>6, <1>7, <1>8

\* The read: what was not yet absorbed is now in hand.
LEMMA ReadKeeps ==
  ASSUME TranscriptInv, NEW r \in Readers, Read(r)
  PROVE  TranscriptInv'
<1> USE DEF TranscriptInv, dbVars, envVars
<1> DEFINE delta == ReadDelta(reader[r].from)
           x == [reader[r] EXCEPT !.pc = "apply", !.from = 0, !.next = delta.next,
                                  !.lines = delta.lines, !.dropped = dropped]
<1>1. reader[r] \in Ingests /\ reader[r].from \in Nat /\ reader[r].dropped \in Nat
      /\ reader[r].pc = "read" /\ Covered(reader[r].from, reader[r].dropped)
  BY DEF Read, TypeOK, IngestsSound, Sound, Ingests
<1>2. /\ delta.next = 2 * Len(file)
      /\ delta.lines \in Seq(Lines)
      /\ \A i \in 1..Len(file) : \/ Absorbed(file[i], spawns, note)
                                 \/ \E j \in 1..Len(delta.lines) : delta.lines[j] = file[i]
      /\ \A j \in 1..Len(delta.lines) : \E i \in 1..Len(file) : file[i] = delta.lines[j]
  BY <1>1, DeltaFacts
<1>3. reader' = [reader EXCEPT ![r] = x]
  BY DEF Read
<1> HIDE DEF delta
<1>4. /\ x \in Ingests /\ x.pc = "apply" /\ x.note = reader[r].note /\ x.next = 2 * Len(file)
      /\ x.lines = delta.lines /\ x.dropped = dropped
  <2>1. 2 * Len(file) \in Nat /\ dropped \in Nat
    BY LineFacts, CounterFacts
  <2> QED BY <1>1, <1>2, <2>1 DEF Ingests
<1> HIDE DEF x
<1>5. UNCHANGED <<now, file, torn, dropped, task, note, told, prompted, offset, tokens, spawns,
                  offsetOf, verdict>>
  BY DEF Read
<1>6. TypeOK'
  <2>1. reader' \in [Readers -> Ingests]
    BY <1>3, <1>4 DEF TypeOK
  <2> QED BY <1>5, <2>1, SameTypes DEF TypeOK
<1>7. InOrder'
  BY <1>5, OrderStays, AdvancesNot
<1>8. Covered(offset, offsetOf)'
  BY <1>5 DEF Covered
<1>9. reader'[r] = x /\ \A q \in Readers : q # r => reader'[q] = reader[q]
  BY <1>3 DEF TypeOK
<1>10. Sound(r)'
  <2>1. Len(file) \in Nat /\ (2 * Len(file)) % 2 = 0
    BY LineFacts
  <2>2. \A i \in 1..Len(file) : 2 * i <= 2 * Len(file)
    BY <2>1
  <2>3. Fetched(r)'
    <3>1. x.dropped = dropped /\ x.next % 2 = 0 /\ x.next <= 2 * Len(file)
      BY <1>4, <2>1
    <3>2. \A i \in 1..Len(file) : Absorbed(file[i], spawns, note)
                                  \/ \E j \in 1..Len(x.lines) : x.lines[j] = file[i]
      BY <1>2, <1>4
    <3>3. \A j \in 1..Len(x.lines) :
             \E i \in 1..Len(file) : 2 * i <= x.next /\ file[i] = x.lines[j]
      BY <1>2, <1>4, <2>2
    <3> QED BY <1>5, <1>9, <3>1, <3>2, <3>3 DEF Fetched
  <2>4. \A id \in ForkIds : reader[r].note = note[id] => task[id] = "launched"
    BY DEF IngestsSound, Sound
  <2> QED BY <1>4, <1>5, <1>9, <2>2, <2>3, <2>4 DEF InOrder, Sound
<1>11. IngestsSound'
  BY <1>5, <1>9, <1>10, SoundStays, AdvancesNot DEF IngestsSound
<1> QED BY <1>6, <1>7, <1>8, <1>11

\* What is scanned from a delta is what its lines say.
LEMMA ScanFacts ==
  ASSUME NEW lines \in Seq(Lines), NEW j \in 1..Len(lines)
  PROVE  /\ lines[j].spawn # None => lines[j].spawn \in SpawnsIn(lines)
         /\ lines[j].result # None => lines[j].result \in ResultsIn(lines)
         /\ lines[j].notif # None => lines[j].notif \in NotesIn(lines)
<1>1. lines[j] \in {lines[i] : i \in DOMAIN lines}
  OBVIOUS
<1> QED BY <1>1 DEF SpawnsIn, ResultsIn, NotesIn

\* The end of an ingest: its reader is free, or classifies its prompt.
LEMMA IngestedFacts ==
  ASSUME TypeOK, NEW r \in Readers, NEW b \in BOOLEAN, Ingested(r, b)
  PROVE  /\ reader' \in [Readers -> Ingests]
         /\ \A q \in Readers : q # r => reader'[q] = reader[q]
         /\ reader'[r].pc \in {"free", "classify"}
         /\ reader'[r].note = reader[r].note
         /\ reader'[r].pc = "classify" => reader'[r].failed = b /\ reader'[r].note # None
<1>1. reader \in [Readers -> Ingests] /\ reader[r].note \in {note[id] : id \in Ids} \cup {None}
  BY DEF TypeOK, Ingests
<1>2. CASE reader[r].note = None
  <2>1. reader' = [reader EXCEPT ![r] = Free]
    BY <1>2 DEF Ingested
  <2> QED BY <1>1, <1>2, <2>1, FreeFacts
<1>3. CASE reader[r].note # None
  <2> DEFINE x == [Free EXCEPT !.pc = "classify", !.note = reader[r].note, !.failed = b]
  <2>1. reader' = [reader EXCEPT ![r] = x]
    BY <1>3 DEF Ingested
  <2>2. x \in Ingests /\ x.pc = "classify" /\ x.note = reader[r].note /\ x.failed = b
    BY <1>1, FreeFacts DEF Ingests
  <2> HIDE DEF x
  <2> QED BY <1>1, <1>3, <2>1, <2>2
<1> QED BY <1>2, <1>3

\* A read that fails changes nothing but the ingest.
LEMMA ReadFailsKeeps ==
  ASSUME TranscriptInv, NEW r \in Readers, ReadFails(r)
  PROVE  TranscriptInv'
<1> USE DEF TranscriptInv, dbVars, envVars
<1>1. UNCHANGED <<now, file, torn, dropped, task, note, told, prompted, offset, tokens, spawns,
                  offsetOf, verdict>>
  BY DEF ReadFails
<1>2. /\ reader' \in [Readers -> Ingests]
      /\ \A q \in Readers : q # r => reader'[q] = reader[q]
      /\ reader'[r].pc \in {"free", "classify"}
      /\ reader'[r].note = reader[r].note
      /\ reader'[r].pc = "classify" => reader'[r].failed = TRUE /\ reader'[r].note # None
  BY IngestedFacts DEF ReadFails
<1>3. TypeOK'
  BY <1>1, <1>2, SameTypes DEF TypeOK
<1>4. InOrder'
  BY <1>1, OrderStays, AdvancesNot
<1>5. Covered(offset, offsetOf)'
  BY <1>1 DEF Covered
<1>6. Sound(r)'
  BY <1>1, <1>2 DEF Sound, IngestsSound
<1>7. IngestsSound'
  BY <1>1, <1>2, <1>6, SoundStays, AdvancesNot DEF IngestsSound
<1> QED BY <1>3, <1>4, <1>5, <1>7

\* The apply: every line below the new offset is absorbed.
LEMMA ApplyKeeps ==
  ASSUME TranscriptInv, NEW r \in Readers, Apply(r)
  PROVE  TranscriptInv'
<1> USE DEF TranscriptInv, dbVars, envVars
<1> DEFINE lines == reader[r].lines
           next == reader[r].next
           recorded == [id \in ForkIds |-> IF id \in SpawnsIn(lines) THEN RecordSpawn(spawns[id], id)
                                                                     ELSE spawns[id]]
           launched == [id \in ForkIds |-> IF id \in ResultsIn(lines)
                                           THEN SetSpawnTaskId(recorded[id], id) ELSE recorded[id]]
<1>1. /\ UNCHANGED <<now, file, torn, dropped, task, note, told, prompted, verdict>>
      /\ spawns' = MarkAll(launched, NotesIn(lines), now)
      /\ offset' = next /\ offsetOf' = reader[r].dropped
      /\ Ingested(r, FALSE) /\ reader[r].pc = "apply"
  BY DEF Apply
<1>2. Fetched(r) /\ next \in Nat /\ lines \in Seq(Lines) /\ reader[r].dropped \in Nat
  BY <1>1 DEF IngestsSound, Sound, TypeOK, Ingests
<1>3. \A id \in ForkIds : spawns[id] \in RowsOf(id)
  BY DEF TypeOK, RowsOf
<1>4. \A id \in ForkIds : /\ recorded[id] \in RowsOf(id)
                          /\ Advances(spawns[id], recorded[id])
                          /\ id \in SpawnsIn(lines) => recorded[id].status # "none"
  BY <1>3, RecordRow, AdvancesNot
<1> HIDE DEF recorded
<1>5. \A id \in ForkIds : /\ launched[id] \in RowsOf(id)
                          /\ Advances(recorded[id], launched[id])
                          /\ id \in ResultsIn(lines) /\ recorded[id].status # "none"
                                => launched[id].task = TaskId(id)
  BY <1>4, TaskRow, AdvancesNot
<1> HIDE DEF launched
<1>6. \A id \in ForkIds : /\ spawns'[id] \in RowsOf(id)
                          /\ Advances(launched[id], spawns'[id])
                          /\ \A n \in NotesIn(lines) :
                                IsTerminalStatus(n.status) /\ Matches(n, id, launched[id])
                                  => spawns'[id].status \notin {"none", "spawned"}
  <2>1. now \in Int
    BY CounterFacts
  <2> QED BY <1>1, <1>5, <2>1, MarkAllRow
<1>7. \A id \in ForkIds : Advances(spawns[id], launched[id]) /\ Advances(spawns[id], spawns'[id])
  BY <1>4, <1>5, <1>6, AdvancesOn
<1>8. \A id \in ForkIds : Complete(id, spawns) => Complete(id, launched)
  BY <1>7, NoneAssumption DEF Advances, Complete, Ids
<1>9. \A i \in 1..Len(file) : 2 * i <= next
         => Absorbed(file[i], spawns, note) \/ \E j \in 1..Len(lines) : lines[j] = file[i]
  BY <1>2 DEF Fetched
<1>10. \A id \in ForkIds : \A i \in 1..Len(file) :
          2 * i <= next /\ file[i].spawn = id => recorded[id].status # "none"
  <2> SUFFICES ASSUME NEW id \in ForkIds, NEW i \in 1..Len(file), 2 * i <= next, file[i].spawn = id
               PROVE  recorded[id].status # "none"
    OBVIOUS
  <2>1. id # None
    BY TranscriptAssumption DEF Ids
  <2>2. CASE Absorbed(file[i], spawns, note)
    BY <1>4, <2>1, <2>2 DEF Absorbed, Advances
  <2>3. CASE \E j \in 1..Len(lines) : lines[j] = file[i]
    BY <1>2, <1>4, <2>1, <2>3, ScanFacts
  <2> QED BY <1>9, <2>2, <2>3
<1>11. \A id \in ForkIds : \A i \in 1..Len(file) :
          2 * i <= next /\ file[i].result = id => Complete(id, launched)
  <2> SUFFICES ASSUME NEW id \in ForkIds, NEW i \in 1..Len(file), 2 * i <= next, file[i].result = id
               PROVE  Complete(id, launched)
    OBVIOUS
  <2>1. id # None
    BY TranscriptAssumption DEF Ids
  <2>2. CASE Absorbed(file[i], spawns, note)
    BY <1>8, <2>1, <2>2 DEF Absorbed
  <2>3. CASE \E j \in 1..Len(lines) : lines[j] = file[i]
    <3>1. id \in ResultsIn(lines)
      BY <1>2, <2>1, <2>3, ScanFacts
    <3>2. recorded[id].status # "none"
      <4>1. CASE spawns[id].status # "none"
        BY <1>4, <4>1 DEF Advances
      <4>2. CASE \E j \in 1..(i - 1) : file[j].spawn = id
        <5>1. PICK j \in 1..(i - 1) : file[j].spawn = id
          BY <4>2
        <5>2. j \in 1..Len(file) /\ 2 * j <= next
          BY <1>2, LineFacts
        <5> QED BY <1>10, <5>1, <5>2
      <4> QED BY <4>1, <4>2 DEF InOrder
    <3>3. launched[id].status # "none"
      BY <1>5, <3>2 DEF Advances
    <3> QED BY <1>5, <3>1, <3>2, <3>3 DEF Complete
  <2> QED BY <1>9, <2>2, <2>3
<1>12. \A id \in ForkIds : \A i \in 1..Len(file) :
          2 * i <= next /\ file[i].notif = note[id] /\ IsTerminalStatus(note[id].status)
             => spawns'[id].status \notin {"none", "spawned"}
  <2> SUFFICES ASSUME NEW id \in ForkIds, NEW i \in 1..Len(file), 2 * i <= next,
                      file[i].notif = note[id], IsTerminalStatus(note[id].status)
               PROVE  spawns'[id].status \notin {"none", "spawned"}
    OBVIOUS
  <2>1. note[id] # None /\ note[id].task = TaskId(id) /\ note[id].task # None
    BY NoteFacts DEF TypeOK, Ids
  <2>2. CASE Absorbed(file[i], spawns, note)
    BY <1>7, <2>2 DEF Absorbed, Advances
  <2>3. CASE \E j \in 1..Len(lines) : lines[j] = file[i]
    <3>1. note[id] \in NotesIn(lines)
      BY <1>2, <2>1, <2>3, ScanFacts
    <3>2. Complete(id, launched)
      <4>1. CASE Complete(id, spawns)
        BY <1>8, <4>1
      <4>2. CASE \E j \in 1..(i - 1) : file[j].result = id
        <5>1. PICK j \in 1..(i - 1) : file[j].result = id
          BY <4>2
        <5>2. j \in 1..Len(file) /\ 2 * j <= next
          BY <1>2, LineFacts
        <5> QED BY <1>11, <5>1, <5>2
      <4> QED BY <4>1, <4>2 DEF InOrder
    <3>3. Matches(note[id], id, launched[id])
      BY <2>1, <3>2 DEF Matches, Complete
    <3> QED BY <1>6, <3>1, <3>3
  <2> QED BY <1>9, <2>2, <2>3
<1>13. \A id \in ForkIds : Complete(id, launched) => Complete(id, spawns')
  BY <1>6, NoneAssumption DEF Advances, Complete, Ids
<1>14. \A i \in 1..Len(file) : 2 * i <= next => Absorbed(file[i], spawns', note)
  <2> SUFFICES ASSUME NEW i \in 1..Len(file), 2 * i <= next PROVE Absorbed(file[i], spawns', note)
    OBVIOUS
  <2>1. file[i].spawn # None => spawns'[file[i].spawn].status # "none"
    <3>1. file[i].spawn \in ForkIds \cup {None}
      BY LineFacts
    <3>2. file[i].spawn # None => recorded[file[i].spawn].status # "none"
      BY <1>10, <3>1
    <3> QED BY <1>5, <1>6, <3>1, <3>2 DEF Advances
  <2>2. file[i].result # None => Complete(file[i].result, spawns')
    BY <1>11, <1>13, LineFacts
  <2> QED BY <1>12, <2>1, <2>2 DEF Absorbed
<1>15. /\ reader' \in [Readers -> Ingests]
       /\ \A q \in Readers : q # r => reader'[q] = reader[q]
       /\ reader'[r].pc \in {"free", "classify"}
       /\ reader'[r].note = reader[r].note
       /\ reader'[r].pc = "classify" => reader'[r].note # None
  BY <1>1, IngestedFacts
<1>16. TypeOK'
  <2>1. spawns' \in [ForkIds -> Rows]
    <3>1. spawns' = [id \in ForkIds |-> spawns'[id]]
      BY <1>1 DEF MarkAll
    <3> QED BY <1>6, <3>1 DEF RowsOf
  <2>2. \A id \in ForkIds : /\ spawns'[id].status # "none" => spawns'[id].name = ForkNameFromPrompt(id)
                            /\ spawns'[id].task \in {None, TaskId(id)}
    BY <1>6 DEF RowsOf
  <2>3. offset' \in Nat /\ offsetOf' \in Nat
    BY <1>1, <1>2
  <2> QED BY <1>1, <1>15, <2>1, <2>2, <2>3, SameTypes DEF TypeOK
<1>17. InOrder'
  BY <1>1, <1>7, OrderStays
<1>18. Covered(offset, offsetOf)'
  <2>1. next % 2 = 0 /\ next <= 2 * Len(file) /\ reader[r].dropped = dropped
    BY <1>2 DEF Fetched
  <2> QED BY <1>1, <1>14, <2>1, CounterFacts DEF Covered
<1>19. Sound(r)'
  <2>1. \A id \in ForkIds : reader[r].note = note[id] => task[id] = "launched" /\ Complete(id, spawns')
    BY <1>1, <1>8, <1>11, <1>13 DEF IngestsSound, Sound
  <2> QED BY <1>1, <1>15, <2>1 DEF Sound
<1>20. IngestsSound'
  BY <1>1, <1>7, <1>15, <1>19, SoundStays DEF IngestsSound
<1> QED BY <1>16, <1>17, <1>18, <1>20

\* The classification of a prompt may end a spawn, and frees the reader.
LEMMA ClassifyRows ==
  ASSUME TypeOK, NEW r \in Readers, Classify(r)
  PROVE  /\ spawns' \in [ForkIds -> Rows]
         /\ \A id \in ForkIds : spawns'[id] \in RowsOf(id) /\ Advances(spawns[id], spawns'[id])
<1>1. \A id \in ForkIds : spawns[id] \in RowsOf(id)
  BY DEF TypeOK, RowsOf
<1>2. now \in Int
  BY CounterFacts
<1>3. CASE spawns' = spawns
  BY <1>1, <1>3, AdvancesNot DEF TypeOK
<1>4. CASE /\ IsTerminalStatus(reader[r].note.status)
           /\ spawns' = MarkSpawnTerminal(spawns, reader[r].note, now)
  <2>1. \A id \in ForkIds : spawns'[id] \in RowsOf(id) /\ Advances(spawns[id], spawns'[id])
    BY <1>1, <1>2, <1>4, MarkRow
  <2>2. spawns' = [id \in ForkIds |-> spawns'[id]]
    BY <1>4 DEF MarkSpawnTerminal
  <2> QED BY <2>1, <2>2 DEF RowsOf
<1> QED BY <1>3, <1>4 DEF Classify

LEMMA ClassifyKeeps ==
  ASSUME TranscriptInv, NEW r \in Readers, Classify(r)
  PROVE  TranscriptInv'
<1> USE DEF TranscriptInv, envVars
<1>1. UNCHANGED <<now, file, torn, dropped, task, note, told, prompted, offset, tokens, offsetOf>>
  BY DEF Classify
<1>2. /\ spawns' \in [ForkIds -> Rows]
      /\ \A id \in ForkIds : spawns'[id] \in RowsOf(id) /\ Advances(spawns[id], spawns'[id])
  BY ClassifyRows
<1>3. /\ reader' \in [Readers -> Ingests]
      /\ reader'[r] = Free
      /\ \A q \in Readers : q # r => reader'[q] = reader[q]
  BY FreeFacts DEF Classify, TypeOK
<1>4. verdict' \in [Ids -> {"none", "own", "unread", "foreign"}]
  <2> DEFINE v == IF IsForkSpawn(spawns, reader[r].note) THEN "own"
                  ELSE IF reader[r].failed THEN "unread" ELSE "foreign"
  <2>1. v \in {"own", "unread", "foreign"}
    OBVIOUS
  <2>2. verdict' = [verdict EXCEPT ![reader[r].note.task[2]] = v]
    BY DEF Classify
  <2> HIDE DEF v
  <2> QED BY <2>1, <2>2 DEF TypeOK
<1>5. TypeOK'
  BY <1>1, <1>2, <1>3, <1>4, SameTypes DEF TypeOK, RowsOf
<1>6. InOrder'
  BY <1>1, <1>2, OrderStays
<1>7. Covered(offset, offsetOf)'
  <2>1. \A i \in 1..Len(file) : Absorbed(file[i], spawns, note) => Absorbed(file[i], spawns', note)
    BY <1>2, LineFacts, AbsorbedStays
  <2> QED BY <1>1, <2>1 DEF Covered
<1>8. Sound(r)'
  <2>1. \A id \in ForkIds : note[id] # None
    BY NoteFacts DEF TypeOK, Ids
  <2> QED BY <1>1, <1>3, <2>1, FreeFacts DEF Sound
<1>9. IngestsSound'
  BY <1>1, <1>2, <1>3, <1>8, SoundStays DEF IngestsSound
<1> QED BY <1>5, <1>6, <1>7, <1>9

-----------------------------------------------------------------------------
\* Every step of the session keeps TranscriptInv.

\* A line is begun: a rewritten file stays short of every offset into the old one.
LEMMA BeginLineKeeps ==
  ASSUME TranscriptInv, BeginLine
  PROVE  TranscriptInv'
<1> USE DEF TranscriptInv, dbVars
<1>1. UNCHANGED <<now, file, dropped, task, note, told, prompted, offset, tokens, spawns, offsetOf,
                  reader, verdict>>
      /\ torn' = TRUE
  BY DEF BeginLine
<1>2. Size(file, FALSE) + 2 = 2 * Len(file) + 2
  BY LineFacts DEF Size
<1>3. TypeOK'
  BY <1>1, SameTypes DEF TypeOK
<1>4. InOrder'
  BY <1>1, OrderStays, AdvancesNot
<1>5. Covered(offset, offsetOf)'
  BY <1>1, <1>2 DEF Covered, BeginLine, MayGrowTo
<1>6. ASSUME NEW r \in Readers PROVE Sound(r)'
  <2>1. Sound(r)
    BY DEF IngestsSound
  <2>2. reader[r].pc = "read" => Covered(reader[r].from, reader[r].dropped)'
    BY <1>1, <1>2, <2>1 DEF Sound, Covered, BeginLine, MayGrowTo
  <2>3. reader[r].pc = "apply" => Fetched(r)'
    BY <1>1, <2>1 DEF Sound, Fetched
  <2> QED BY <1>1, <2>1, <2>2, <2>3 DEF Sound
<1>7. IngestsSound'
  BY <1>6 DEF IngestsSound
<1> QED BY <1>3, <1>4, <1>5, <1>7

\* A line is completed.  It is not below any offset, and if it is a result or a
\* notification, what it follows was written before it.
LEMMA WriteKeeps ==
  ASSUME TranscriptInv, NEW l \in Lines, Write(l), told' \subseteq ForkIds,
         task' \in [ForkIds -> {"unused", "called", "launched"}],
         \A id \in ForkIds :
            /\ task[id] = "launched" => task'[id] = "launched"
            /\ task'[id] = "launched" => task[id] = "launched" \/ l.result = id
            /\ task'[id] # "unused" => task[id] # "unused" \/ l.spawn = id
            /\ l.result = id => task[id] # "unused"
            /\ l.notif = note[id] => task[id] = "launched",
         UNCHANGED <<now, dropped, note, prompted, dbVars, reader, verdict>>
  PROVE  TranscriptInv'
<1> USE DEF TranscriptInv, dbVars
<1>1. /\ file' \in Seq(Lines)
      /\ Len(file) \in Nat /\ Len(file') = Len(file) + 1
      /\ \A i \in 1..Len(file) : file'[i] = file[i]
      /\ file'[Len(file) + 1] = l
  BY AppendProperties, LineFacts DEF Write, TypeOK
<1>2. 1..Len(file') = 1..Len(file) \cup {Len(file) + 1}
  BY <1>1
<1>3. torn /\ torn' = FALSE
  BY DEF Write
<1>4. TypeOK'
  BY <1>1, <1>3, SameTypes DEF TypeOK
<1>5. InOrder'
  <2>1. \A id \in ForkIds : task'[id] = "launched"
           => Complete(id, spawns) \/ \E i \in 1..Len(file') : file'[i].result = id
    BY <1>1, <1>2 DEF InOrder
  <2>2. \A id \in ForkIds : task'[id] # "unused"
           => spawns[id].status # "none" \/ \E i \in 1..Len(file') : file'[i].spawn = id
    BY <1>1, <1>2 DEF InOrder
  <2>3. ASSUME NEW id \in ForkIds, NEW i \in 1..Len(file')
        PROVE  /\ file'[i].result = id
                    => spawns[id].status # "none" \/ \E j \in 1..(i - 1) : file'[j].spawn = id
               /\ file'[i].notif = note[id]
                    => Complete(id, spawns) \/ \E j \in 1..(i - 1) : file'[j].result = id
    <3>1. CASE i \in 1..Len(file)
      <4>1. \A j \in 1..(i - 1) : file'[j] = file[j]
        BY <1>1, <3>1
      <4> QED BY <1>1, <3>1, <4>1 DEF InOrder
    <3>2. CASE i = Len(file) + 1
      <4>1. 1..(i - 1) = 1..Len(file)
        BY <1>1, <3>2
      <4> QED BY <1>1, <3>2, <4>1 DEF InOrder
    <3> QED BY <1>2, <3>1, <3>2
  <2> QED BY <2>1, <2>2, <2>3 DEF InOrder
<1>6. Covered(offset, offsetOf)'
  BY <1>1, <1>2, <1>3, CounterFacts DEF Covered
<1>7. ASSUME NEW r \in Readers PROVE Sound(r)'
  <2>1. Sound(r) /\ reader[r].from \in Nat /\ reader[r].next \in Nat
    BY DEF IngestsSound, TypeOK, Ingests
  <2>2. reader[r].pc = "read" => Covered(reader[r].from, reader[r].dropped)'
    BY <1>1, <1>2, <1>3, <2>1 DEF Sound, Covered
  <2>3. reader[r].pc = "apply" => Fetched(r)'
    <3> SUFFICES ASSUME reader[r].pc = "apply" PROVE Fetched(r)'
      OBVIOUS
    <3>1. Fetched(r)
      BY <2>1 DEF Sound
    <3>2. reader[r].dropped = dropped /\ reader[r].next % 2 = 0 /\ reader[r].next <= 2 * Len(file')
      BY <1>1, <2>1, <3>1 DEF Fetched
    <3>3. \A i \in 1..Len(file') : 2 * i <= reader[r].next => i \in 1..Len(file)
      BY <1>1, <2>1, <3>1 DEF Fetched
    <3>4. \A i \in 1..Len(file') : 2 * i <= reader[r].next
             => Absorbed(file'[i], spawns, note)
                \/ \E j \in 1..Len(reader[r].lines) : reader[r].lines[j] = file'[i]
      <4>1. \A i \in 1..Len(file) : 2 * i <= reader[r].next
               => Absorbed(file[i], spawns, note)
                  \/ \E j \in 1..Len(reader[r].lines) : reader[r].lines[j] = file[i]
        BY <3>1 DEF Fetched
      <4>2. \A i \in 1..Len(file) : file'[i] = file[i]
        BY <1>1
      <4> QED BY <3>3, <4>1, <4>2
    <3>5. \A j \in 1..Len(reader[r].lines) :
             \E i \in 1..Len(file') : 2 * i <= reader[r].next /\ file'[i] = reader[r].lines[j]
      <4>1. \A j \in 1..Len(reader[r].lines) :
               \E i \in 1..Len(file) : 2 * i <= reader[r].next /\ file[i] = reader[r].lines[j]
        BY <3>1 DEF Fetched
      <4>2. \A i \in 1..Len(file) : i \in 1..Len(file') /\ file'[i] = file[i]
        BY <1>1, <1>2
      <4> QED BY <4>1, <4>2
    <3> QED BY <3>2, <3>4, <3>5 DEF Fetched
  <2>4. \A id \in ForkIds : reader[r].note = note[id] =>
          /\ task'[id] = "launched"
          /\ reader[r].pc = "apply"
                => Complete(id, spawns) \/ \E i \in 1..Len(file') :
                                              2 * i <= reader[r].next /\ file'[i].result = id
          /\ reader[r].pc = "classify" /\ ~ reader[r].failed => Complete(id, spawns)
    BY <1>1, <1>2, <2>1 DEF Sound
  <2> QED BY <2>1, <2>2, <2>3, <2>4 DEF Sound
<1>8. IngestsSound'
  BY <1>7 DEF IngestsSound
<1> QED BY <1>4, <1>5, <1>6, <1>8

\* What each line says.
LEMMA LineKinds ==
  ASSUME TypeOK
  PROVE  /\ \A n \in Tokens : /\ UsageLine(n) \in Lines /\ UsageLine(n).spawn = None
                              /\ UsageLine(n).result = None /\ UsageLine(n).notif = None
         /\ \A id \in ForkIds : /\ SpawnLine(id) \in Lines /\ SpawnLine(id).spawn = id
                                /\ SpawnLine(id).result = None /\ SpawnLine(id).notif = None
         /\ \A id \in ForkIds : /\ ResultLine(id) \in Lines /\ ResultLine(id).spawn = None
                                /\ ResultLine(id).result = id /\ ResultLine(id).notif = None
         /\ \A id \in ForkIds : /\ NotifLine(note[id]) \in Lines
                                /\ NotifLine(note[id]).spawn = None
                                /\ NotifLine(note[id]).result = None
                                /\ NotifLine(note[id]).notif = note[id]
BY DEF Lines, Junk, UsageLine, SpawnLine, ResultLine, NotifLine

\* No fork is None, nor is its notification; notifications differ.
LEMMA NoneIsNone ==
  ASSUME TypeOK
  PROVE  /\ \A id \in ForkIds : id # None /\ note[id] # None
         /\ \A id, j \in Ids : note[id] = note[j] => id = j
<1>1. \A id \in Ids : note[id] # None /\ note[id].task[2] = id
  BY NoteFacts DEF TypeOK
<1> QED BY <1>1, TranscriptAssumption DEF Ids

\* A line of no interest, a call, a result, a notification.
LEMMA WriteOtherKeeps ==
  ASSUME TranscriptInv, WriteOther
  PROVE  TranscriptInv'
<1>1. PICK n \in Tokens : Write(UsageLine(n))
  BY DEF WriteOther
<1>2. /\ UsageLine(n) \in Lines /\ UsageLine(n).spawn = None
      /\ UsageLine(n).result = None /\ UsageLine(n).notif = None
  BY LineKinds DEF TranscriptInv
<1>3. UNCHANGED <<now, dropped, task, note, told, prompted, dbVars, reader, verdict>>
  BY DEF WriteOther
<1>4. told \subseteq ForkIds /\ task \in [ForkIds -> {"unused", "called", "launched"}]
  BY DEF TranscriptInv, TypeOK
<1>5. \A id \in ForkIds : id # None /\ note[id] # None
  BY NoneIsNone DEF TranscriptInv
<1> QED BY <1>1, <1>2, <1>3, <1>4, <1>5, WriteKeeps

LEMMA WriteCallKeeps ==
  ASSUME TranscriptInv, NEW id \in ForkIds, WriteCall(id)
  PROVE  TranscriptInv'
<1>1. told \subseteq ForkIds /\ task \in [ForkIds -> {"unused", "called", "launched"}]
  BY DEF TranscriptInv, TypeOK
<1>2. /\ SpawnLine(id) \in Lines /\ SpawnLine(id).spawn = id
      /\ SpawnLine(id).result = None /\ SpawnLine(id).notif = None
  BY LineKinds DEF TranscriptInv
<1>3. /\ Write(SpawnLine(id)) /\ task[id] = "unused"
      /\ task' = [task EXCEPT ![id] = "called"]
      /\ UNCHANGED <<now, dropped, note, told, prompted, dbVars, reader, verdict>>
  BY DEF WriteCall
<1>4. \A j \in ForkIds : j # None /\ note[j] # None
  BY NoneIsNone DEF TranscriptInv
<1>5. /\ task' \in [ForkIds -> {"unused", "called", "launched"}]
      /\ \A j \in ForkIds : j # id => task'[j] = task[j]
      /\ task'[id] = "called"
  BY <1>1, <1>3
<1> QED BY <1>1, <1>2, <1>3, <1>4, <1>5, WriteKeeps

LEMMA WriteResultKeeps ==
  ASSUME TranscriptInv, NEW id \in ForkIds, WriteResult(id)
  PROVE  TranscriptInv'
<1>1. told \subseteq ForkIds /\ task \in [ForkIds -> {"unused", "called", "launched"}]
  BY DEF TranscriptInv, TypeOK
<1>2. /\ ResultLine(id) \in Lines /\ ResultLine(id).spawn = None
      /\ ResultLine(id).result = id /\ ResultLine(id).notif = None
  BY LineKinds DEF TranscriptInv
<1>3. /\ Write(ResultLine(id)) /\ task[id] = "called"
      /\ task' = [task EXCEPT ![id] = "launched"]
      /\ UNCHANGED <<now, dropped, note, told, prompted, dbVars, reader, verdict>>
  BY DEF WriteResult
<1>4. \A j \in ForkIds : j # None /\ note[j] # None
  BY NoneIsNone DEF TranscriptInv
<1>5. /\ task' \in [ForkIds -> {"unused", "called", "launched"}]
      /\ \A j \in ForkIds : j # id => task'[j] = task[j]
      /\ task'[id] = "launched"
  BY <1>1, <1>3
<1> QED BY <1>1, <1>2, <1>3, <1>4, <1>5, WriteKeeps

LEMMA WriteNoteKeeps ==
  ASSUME TranscriptInv, NEW id \in ForkIds, WriteNote(id)
  PROVE  TranscriptInv'
<1>1. task \in [ForkIds -> {"unused", "called", "launched"}] /\ told' \subseteq ForkIds
  BY DEF TranscriptInv, TypeOK, WriteNote
<1>2. /\ NotifLine(note[id]) \in Lines /\ NotifLine(note[id]).spawn = None
      /\ NotifLine(note[id]).result = None /\ NotifLine(note[id]).notif = note[id]
  BY LineKinds DEF TranscriptInv
<1>3. /\ Write(NotifLine(note[id])) /\ task[id] = "launched"
      /\ UNCHANGED <<now, dropped, task, note, prompted, dbVars, reader, verdict>>
  BY DEF WriteNote
<1>4. \A j \in ForkIds : j # None /\ (note[id] = note[j] => id = j)
  BY NoneIsNone DEF TranscriptInv, Ids
<1> QED BY <1>1, <1>2, <1>3, <1>4, WriteKeeps

\* The file is rewritten: only absorbed lines are dropped, and every offset into
\* the old file is past the end of the new one.
LEMMA RewriteKeeps ==
  ASSUME TranscriptInv, Rewrite
  PROVE  TranscriptInv'
<1> USE DEF TranscriptInv, dbVars
<1>1. PICK k \in 1..Len(file) :
         /\ 2 * k <= offset
         /\ 2 * (Len(file) - k) < offset
         /\ \A r \in Readers : reader[r].pc = "read" => 2 * (Len(file) - k) < reader[r].from
         /\ file' = SubSeq(file, k + 1, Len(file))
         /\ dropped' = dropped + k
  BY DEF Rewrite
<1>2. /\ UNCHANGED <<now, torn, task, note, told, prompted, offset, tokens, spawns, offsetOf, reader,
                     verdict>>
      /\ ~torn /\ offsetOf = dropped /\ \A r \in Readers : reader[r].pc # "apply"
  BY DEF Rewrite
<1>3. /\ Len(file) \in Nat /\ k \in Nat /\ k >= 1 /\ k <= Len(file)
      /\ dropped \in Nat /\ dropped' \in Nat /\ dropped' > dropped
  BY <1>1, LineFacts, CounterFacts
<1>4. /\ file' \in Seq(Lines)
      /\ Len(file') = Len(file) - k
      /\ \A i \in 1..(Len(file) - k) : file'[i] = file[k + i]
  <2>1. \A i \in (k + 1)..Len(file) : file[i] \in Lines
    BY <1>3, LineFacts
  <2>2. /\ file' \in Seq(Lines)
        /\ Len(file') = IF k + 1 <= Len(file) THEN Len(file) - (k + 1) + 1 ELSE 0
        /\ \A i \in 1..(Len(file) - (k + 1) + 1) : file'[i] = file[(k + 1) + i - 1]
    <3>1. k + 1 \in Int /\ Len(file) \in Int
      BY <1>3
    <3>2. file' = SubSeq(file, k + 1, Len(file))
      BY <1>1
    <3> QED BY <2>1, <3>1, <3>2, SubSeqProperties, SMTT(30)
  <2> QED BY <1>3, <2>2
<1>5. TypeOK'
  BY <1>2, <1>3, <1>4, SameTypes DEF TypeOK
<1>6. \A i \in 1..k : Absorbed(file[i], spawns, note)
  <2>1. \A i \in 1..Len(file) : 2 * i <= offset => Absorbed(file[i], spawns, note)
    BY <1>2 DEF Covered
  <2>2. \A i \in 1..k : i \in 1..Len(file) /\ 2 * i <= offset
    BY <1>1, <1>3, CounterFacts
  <2> QED BY <2>1, <2>2
<1>7. \A i \in 1..Len(file) : i \in 1..k \/ (i - k \in 1..Len(file') /\ file'[i - k] = file[i])
  BY <1>3, <1>4
<1>8. \A id \in ForkIds : \A i \in 1..k :
         /\ file[i].spawn = id => spawns[id].status # "none"
         /\ file[i].result = id => Complete(id, spawns)
  <2>1. \A id \in ForkIds : id # None
    BY NoneIsNone
  <2> QED BY <1>6, <2>1 DEF Absorbed
<1>9. InOrder'
  <2>1. ASSUME NEW id \in ForkIds, task[id] = "launched"
        PROVE  Complete(id, spawns) \/ \E i \in 1..Len(file') : file'[i].result = id
    <3>1. CASE Complete(id, spawns)
      BY <3>1
    <3>2. CASE \E i \in 1..Len(file) : file[i].result = id
      <4>1. PICK i \in 1..Len(file) : file[i].result = id
        BY <3>2
      <4>2. i \in 1..k => Complete(id, spawns)
        BY <1>8, <4>1
      <4>3. i \notin 1..k => i - k \in 1..Len(file') /\ file'[i - k].result = id
        BY <1>7, <4>1
      <4> QED BY <4>2, <4>3
    <3> QED BY <2>1, <3>1, <3>2 DEF InOrder
  <2>2. ASSUME NEW id \in ForkIds, task[id] # "unused"
        PROVE  spawns[id].status # "none" \/ \E i \in 1..Len(file') : file'[i].spawn = id
    <3>1. CASE spawns[id].status # "none"
      BY <3>1
    <3>2. CASE \E i \in 1..Len(file) : file[i].spawn = id
      <4>1. PICK i \in 1..Len(file) : file[i].spawn = id
        BY <3>2
      <4>2. i \in 1..k => spawns[id].status # "none"
        BY <1>8, <4>1
      <4>3. i \notin 1..k => i - k \in 1..Len(file') /\ file'[i - k].spawn = id
        BY <1>7, <4>1
      <4> QED BY <4>2, <4>3
    <3> QED BY <2>2, <3>1, <3>2 DEF InOrder
  <2>3. ASSUME NEW id \in ForkIds, NEW i \in 1..Len(file')
        PROVE  /\ file'[i].result = id
                    => spawns[id].status # "none" \/ \E j \in 1..(i - 1) : file'[j].spawn = id
               /\ file'[i].notif = note[id]
                    => Complete(id, spawns) \/ \E j \in 1..(i - 1) : file'[j].result = id
    <3>1. i \in Nat /\ k + i \in 1..Len(file) /\ file'[i] = file[k + i]
      BY <1>3, <1>4
    <3>2. \A j \in 1..(k + i - 1) :
             j \in 1..k \/ (j - k \in 1..(i - 1) /\ file'[j - k] = file[j])
      BY <1>3, <1>4, <3>1
    <3>3. \A j \in 1..(k + i - 1) : file[j].spawn = id
             => spawns[id].status # "none" \/ \E h \in 1..(i - 1) : file'[h].spawn = id
      BY <1>8, <3>2
    <3>4. \A j \in 1..(k + i - 1) : file[j].result = id
             => Complete(id, spawns) \/ \E h \in 1..(i - 1) : file'[h].result = id
      BY <1>8, <3>2
    <3>5. /\ file[k + i].result = id
                => spawns[id].status # "none" \/ \E j \in 1..(k + i - 1) : file[j].spawn = id
          /\ file[k + i].notif = note[id]
                => Complete(id, spawns) \/ \E j \in 1..(k + i - 1) : file[j].result = id
      BY <3>1 DEF InOrder
    <3> QED BY <3>1, <3>3, <3>4, <3>5
  <2> QED BY <1>2, <2>1, <2>2, <2>3 DEF InOrder
<1>10. Covered(offset, offsetOf)'
  BY <1>1, <1>2, <1>3, <1>4 DEF Covered
<1>11. ASSUME NEW r \in Readers PROVE Sound(r)'
  <2>1. Sound(r) /\ reader[r].from \in Nat /\ reader[r].dropped \in Nat
    BY DEF IngestsSound, TypeOK, Ingests
  <2>2. reader[r].pc = "read" => Covered(reader[r].from, reader[r].dropped)'
    <3> SUFFICES ASSUME reader[r].pc = "read"
                 PROVE  Covered(reader[r].from, reader[r].dropped)'
      OBVIOUS
    <3>1. reader[r].from % 2 = 0 /\ reader[r].dropped <= dropped
      BY <2>1 DEF Sound, Covered
    <3>2. reader[r].dropped <= dropped' /\ reader[r].dropped # dropped'
      BY <1>3, <2>1, <3>1
    <3>3. 2 * Len(file') + (IF torn' THEN 2 ELSE 0) < reader[r].from
      <4>1. 2 * (Len(file) - k) < reader[r].from
        BY <1>1
      <4>2. ~torn' /\ Len(file') = Len(file) - k
        BY <1>2, <1>4
      <4>3. (IF torn' THEN 2 ELSE 0) = 0
        BY <4>2
      <4> QED BY <1>3, <2>1, <4>1, <4>2, <4>3
    <3> QED BY <1>2, <3>1, <3>2, <3>3 DEF Covered
  <2> QED BY <1>2, <2>1, <2>2 DEF Sound
<1>12. IngestsSound'
  BY <1>11 DEF IngestsSound
<1> QED BY <1>5, <1>9, <1>10, <1>12

\* A step that leaves file, database and ingests alone.
LEMMA IdleKeeps ==
  ASSUME TranscriptInv, now' \in Nat,
         UNCHANGED <<file, torn, dropped, task, note, told, prompted, dbVars, reader, verdict>>
  PROVE  TranscriptInv'
<1> USE DEF TranscriptInv, dbVars
<1>1. TypeOK'
  BY SameTypes DEF TypeOK
<1>2. InOrder'
  BY OrderStays, AdvancesNot
<1>3. Covered(offset, offsetOf)'
  BY DEF Covered
<1>4. IngestsSound'
  BY SoundStays, AdvancesNot DEF IngestsSound
<1> QED BY <1>1, <1>2, <1>3, <1>4

\* At first the file is empty and nothing is read.
LEMMA TranscriptInvInit == Init => TranscriptInv
<1> SUFFICES ASSUME Init PROVE TranscriptInv
  OBVIOUS
<1> USE DEF Init
<1>1. \A id \in Ids : note[id] \in NotesOf(id)
  OBVIOUS
<1>2. NotSeen \in Rows /\ NotSeen.status = "none" /\ NotSeen.task = None
  BY DEF NotSeen, Rows
<1>3. file \in Seq(Lines) /\ Len(file) = 0
  OBVIOUS
<1>4. TypeOK
  <2>1. /\ spawns \in [ForkIds -> Rows]
        /\ \A id \in ForkIds : spawns[id].status = "none" /\ spawns[id].task = None
    BY <1>2
  <2>2. reader \in [Readers -> Ingests]
    BY FreeFacts
  <2>3. /\ task \in [ForkIds -> {"unused", "called", "launched"}]
        /\ verdict \in [Ids -> {"none", "own", "unread", "foreign"}]
    OBVIOUS
  <2>4. {now, dropped, offset, offsetOf} \subseteq Nat /\ told \subseteq ForkIds /\ prompted \subseteq Ids
    OBVIOUS
  <2>5. torn \in BOOLEAN
    OBVIOUS
  <2> HIDE DEF Init
  <2> QED BY <1>1, <1>3, <2>1, <2>2, <2>3, <2>4, <2>5 DEF TypeOK
<1>5. InOrder
  BY <1>3 DEF InOrder
<1>6. Covered(offset, offsetOf)
  BY <1>3 DEF Covered
<1>7. IngestsSound
  BY <1>4, FreeFacts, NoneIsNone DEF IngestsSound, Sound
<1> QED BY <1>4, <1>5, <1>6, <1>7 DEF TranscriptInv

\* Every step keeps the invariant.
LEMMA TranscriptInvNext == TranscriptInv /\ [Next]_vars => TranscriptInv'
<1> SUFFICES ASSUME TranscriptInv, [Next]_vars PROVE TranscriptInv'
  OBVIOUS
<1>1. ASSUME NEW r \in Readers, StopIngests(r) \/ (\E id \in Ids : NotePrompt(r, id))
      PROVE  TranscriptInv'
  BY <1>1, StopIngestsKeeps, NotePromptKeeps
<1>2. ASSUME NEW r \in Readers, ReaderStep(r) PROVE TranscriptInv'
  BY <1>2, ReadKeeps, ReadFailsKeeps, ApplyKeeps, ClassifyKeeps DEF ReaderStep
<1>3. CASE SessionStep
  BY <1>3, BeginLineKeeps, WriteOtherKeeps, WriteCallKeeps, WriteResultKeeps, WriteNoteKeeps,
     RewriteKeeps
  DEF SessionStep
<1>4. CASE Tick
  <2>1. now' \in Nat
    BY <1>4, CounterFacts DEF Tick, TranscriptInv
  <2> QED BY <1>4, <2>1, IdleKeeps DEF Tick
<1>5. CASE UNCHANGED vars
  <2>1. now' \in Nat
    BY <1>5, CounterFacts DEF vars, TranscriptInv
  <2> QED BY <1>5, <2>1, IdleKeeps DEF vars, dbVars
<1> QED BY <1>1, <1>2, <1>3, <1>4, <1>5 DEF Next

-----------------------------------------------------------------------------
\* The theorems.

\* The invariant holds whatever ingests overlap, lines are half written and files
\* rewritten.
THEOREM TranscriptInvariant == Spec => []TranscriptInv
<1>1. Init => TranscriptInv
  BY TranscriptInvInit
<1>2. TranscriptInv /\ [Next]_vars => TranscriptInv'
  BY TranscriptInvNext
<1> QED BY <1>1, <1>2, PTL DEF Spec

\* What is absorbed is registered: a notification matches no other task's spawn,
\* and a fork's name is the one its prompt quotes.
LEMMA AbsorbedIsRegistered ==
  ASSUME TypeOK, NEW i \in 1..Len(file), Absorbed(file[i], spawns, note)
  PROVE  Registered(file[i])
<1>1. ASSUME file[i].spawn \in ForkIds
      PROVE  /\ spawns[file[i].spawn].status # "none"
             /\ file[i].spawn \in Fingerprint /\ ForkName[file[i].spawn][2] = ""
                   => spawns[file[i].spawn].name = ForkName[file[i].spawn]
  <2> DEFINE id == file[i].spawn
  <2>1. spawns[id].status # "none"
    BY <1>1, NoneIsNone DEF Absorbed
  <2>2. spawns[id].name = ForkNameFromPrompt(id)
    BY <1>1, <2>1 DEF TypeOK
  <2>3. ForkName[id] = <<ForkName[id][1], ForkName[id][2]>> /\ ForkName[id] # <<"", "">>
    BY <1>1, TranscriptAssumption
  <2>4. id \in Fingerprint /\ ForkName[id][2] = "" => ForkNameFromPrompt(id) = ForkName[id]
    BY <2>3 DEF ForkNameFromPrompt
  <2> QED BY <2>1, <2>2, <2>4
<1>2. file[i].result \in ForkIds => spawns[file[i].result].task # None
  BY NoneIsNone, NoneAssumption DEF Absorbed, Complete, Ids
<1>3. ASSUME file[i].notif # None, NEW id \in ForkIds,
             IsTerminalStatus(file[i].notif.status), Matches(file[i].notif, id, spawns[id])
      PROVE  spawns[id].status # "spawned"
  <2>1. PICK j \in ForkIds : file[i].notif = note[j]
    BY <1>3, LineFacts
  <2>2. note[j].task = TaskId(j) /\ note[j].use \in {j, None} /\ note[j].task # None
    BY NoteFacts DEF TypeOK, Ids
  <2>3. spawns[id].task \in {None, TaskId(id)} /\ id # None
    BY NoneIsNone DEF TypeOK
  <2>4. note[j].use = id \/ note[j].task = spawns[id].task
    BY <1>3, <2>1 DEF Matches
  <2>5. id = j
    BY <2>2, <2>3, <2>4, TaskIdsDiffer
  <2> QED BY <1>3, <2>1, <2>5 DEF Absorbed
<1> QED BY <1>1, <1>2, <1>3 DEF Registered

\* No line below the stored offset is missing from the registry: an offset is
\* stored only with the effects of all it passes, even when a slower ingest sets
\* it back or the file is rewritten (daemon.rs ingest_transcript, transcript.rs
\* read_delta).
THEOREM NothingIsSkipped == Spec => []NothingSkipped
<1>1. TranscriptInv => NothingSkipped
  <2> SUFFICES ASSUME TranscriptInv, offsetOf = dropped, NEW i \in 1..Len(file), 2 * i <= offset
               PROVE  Registered(file[i])
    BY DEF NothingSkipped
  <2>1. Absorbed(file[i], spawns, note)
    BY DEF TranscriptInv, Covered
  <2> QED BY <2>1, AbsorbedIsRegistered DEF TranscriptInv
<1> QED BY <1>1, TranscriptInvariant, PTL

\* An apply only moves rows on.
LEMMA ApplyAdvances ==
  ASSUME TypeOK, NEW r \in Readers, Apply(r)
  PROVE  \A id \in ForkIds : Advances(spawns[id], spawns'[id])
<1> DEFINE lines == reader[r].lines
           recorded == [id \in ForkIds |-> IF id \in SpawnsIn(lines) THEN RecordSpawn(spawns[id], id)
                                                                     ELSE spawns[id]]
           launched == [id \in ForkIds |-> IF id \in ResultsIn(lines)
                                           THEN SetSpawnTaskId(recorded[id], id) ELSE recorded[id]]
<1>1. spawns' = MarkAll(launched, NotesIn(lines), now)
  BY DEF Apply
<1>2. \A id \in ForkIds : spawns[id] \in RowsOf(id)
  BY DEF TypeOK, RowsOf
<1>3. \A id \in ForkIds : recorded[id] \in RowsOf(id) /\ Advances(spawns[id], recorded[id])
  BY <1>2, RecordRow, AdvancesNot
<1> HIDE DEF recorded
<1>4. \A id \in ForkIds : launched[id] \in RowsOf(id) /\ Advances(recorded[id], launched[id])
  BY <1>3, TaskRow, AdvancesNot
<1> HIDE DEF launched
<1>5. now \in Int
  BY CounterFacts
<1>6. \A id \in ForkIds : Advances(launched[id], spawns'[id])
  BY <1>1, <1>4, <1>5, MarkAllRow
<1> QED BY <1>3, <1>4, <1>6, AdvancesOn

\* The first observation of a completion wins: no later read, of the same lines or
\* of others, moves the status, the time or the name of a spawn that has ended
\* (store.rs record_spawn and mark_spawn_terminal).
THEOREM FirstEndIsFinal == Spec => FirstEndWins
<1>1. ASSUME TranscriptInv, [Next]_vars
      PROVE  [\A id \in ForkIds : spawns[id].status \notin {"none", "spawned"}
                => /\ spawns'[id].status = spawns[id].status
                   /\ spawns'[id].at = spawns[id].at
                   /\ spawns'[id].name = spawns[id].name]_vars
  <2>1. CASE \E r \in Readers : Apply(r) \/ Classify(r)
    <3>1. \A id \in ForkIds : Advances(spawns[id], spawns'[id])
      BY <1>1, <2>1, ApplyAdvances, ClassifyRows DEF TranscriptInv
    <3> QED BY <3>1, Zenon DEF Advances
  <2>2. CASE spawns' = spawns
    BY <2>2
  <2>3. spawns' = spawns \/ \E r \in Readers : Apply(r) \/ Classify(r)
    BY <1>1 DEF Next, ReaderStep, SessionStep, vars, dbVars, StopIngests, NotePrompt, Read, ReadFails,
                BeginLine, WriteOther, WriteCall, WriteResult, WriteNote, Rewrite, Tick
  <2> QED BY <2>1, <2>2, <2>3
<1> QED BY <1>1, TranscriptInvariant, PTL DEF Spec, FirstEndWins

\* A notification prompt is recognised for one of the daemon's own forks exactly
\* when it is one, whichever ids it carries, unless the transcript could not be
\* read (daemon.rs handle_event, "Refresh the spawn registry from the transcript
\* BEFORE classifying").
THEOREM OwnForksAreRecognised == Spec => []OwnForksRecognised
<1>1. Init => OwnForksRecognised
  BY Zenon DEF Init, OwnForksRecognised
<1>2. ASSUME TranscriptInv, OwnForksRecognised, [Next]_vars
      PROVE  OwnForksRecognised'
  <2>1. ASSUME NEW r \in Readers, Classify(r) PROVE OwnForksRecognised'
    <3>1. TypeOK /\ Sound(r) /\ reader[r].pc = "classify" /\ reader[r].note # None
      BY <1>2, <2>1 DEF TranscriptInv, IngestsSound, Sound, Classify
    <3>2. PICK id \in Ids : reader[r].note = note[id]
      BY <3>1 DEF TypeOK, Ingests
    <3>3. /\ note[id].task[2] = id /\ note[id].task = TaskId(id) /\ note[id].use \in {id, None}
          /\ note[id].task # None
      BY <3>1, NoteFacts DEF TypeOK
    <3> DEFINE v == IF IsForkSpawn(spawns, note[id]) THEN "own"
                    ELSE IF reader[r].failed THEN "unread" ELSE "foreign"
    <3>4. verdict' = [verdict EXCEPT ![id] = v]
      BY <2>1, <3>2, <3>3 DEF Classify
    <3>5. IsForkSpawn(spawns, note[id]) => id \in ForkIds
      <4> SUFFICES ASSUME NEW j \in ForkIds, Matches(note[id], j, spawns[j]) PROVE id \in ForkIds
        BY DEF IsForkSpawn
      <4>1. spawns[j].task \in {None, TaskId(j)} /\ j # None
        BY <3>1, NoneIsNone DEF TypeOK
      <4>2. note[id].use = j \/ note[id].task = spawns[j].task
        BY DEF Matches
      <4> QED BY <3>3, <4>1, <4>2, TaskIdsDiffer
    <3>6. id \in ForkIds /\ ~ reader[r].failed => IsForkSpawn(spawns, note[id])
      <4>1. id \in ForkIds /\ ~ reader[r].failed => Complete(id, spawns)
        BY <3>1, <3>2 DEF Sound
      <4> QED BY <3>3, <4>1 DEF Complete, IsForkSpawn, Matches
    <3>7. (v = "own" => id \in ForkIds) /\ (v = "foreign" => id \in OtherIds)
      BY <3>5, <3>6 DEF Ids
    <3> HIDE DEF v
    <3>8. \A j \in Ids : verdict'[j] = IF j = id THEN v ELSE verdict[j]
      BY <3>1, <3>4 DEF TypeOK
    <3> QED BY <1>2, <3>7, <3>8 DEF OwnForksRecognised
  <2>2. CASE verdict' = verdict
    BY <1>2, <2>2 DEF OwnForksRecognised
  <2> QED BY <1>2, <2>1, <2>2
        DEF Next, ReaderStep, SessionStep, vars, dbVars, StopIngests, NotePrompt, Read, ReadFails,
            Apply, BeginLine, WriteOther, WriteCall, WriteResult, WriteNote, Rewrite, Tick
<1> QED BY <1>1, <1>2, TranscriptInvariant, PTL DEF Spec
=============================================================================
