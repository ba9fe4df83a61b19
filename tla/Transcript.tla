----------------------------- MODULE Transcript -----------------------------
(***************************************************************************)
(* The transcript watcher of one open session.  Claude Code appends        *)
(* lines to a file; each Stop, and each prompt that is a task notification,*)
(* reads it from the stored offset and updates the spawn registry.  An     *)
(* ingest reads the session row under the store's lock, then the file with *)
(* no lock, then applies what it found under the lock: two of them may     *)
(* overlap.                                                                *)
(*                                                                         *)
(* Offsets count half lines, so that a line can be half written.           *)
(***************************************************************************)
EXTENDS Integers, Sequences, FiniteSets

CONSTANTS
    ForkIds,        \* tool-use ids of Agent calls with subagent_type "fork"
    OtherIds,       \* tool-use ids of other background tasks
    None,
    ForkName,       \* per fork id, the name <<up to its first quote, the rest>>
    Fingerprint,    \* the fork ids whose prompt quotes the spawn context
    Tokens,         \* usage totals an assistant line may carry
    Statuses,       \* statuses a notification may carry
    Readers,        \* bound: ingests in flight at once
    MaxLines,       \* bound: lines ever written
    MaxTime         \* bound: the clock

Ids == ForkIds \cup OtherIds

ASSUME TranscriptAssumption ==
    /\ ForkIds \cap OtherIds = {}
    /\ None \notin Ids
    /\ Readers \subseteq Nat
    /\ Fingerprint \subseteq ForkIds
    /\ \A id \in ForkIds :      \* a pair; discovery.rs takes no empty stem
          ForkName[id] = <<ForkName[id][1], ForkName[id][2]>> /\ ForkName[id] # <<"", "">>
    /\ Tokens \subseteq Nat
    /\ {MaxLines, MaxTime} \subseteq Nat

VARIABLES
    now,
    \* the session's side
    file,           \* the complete lines
    torn,           \* the last line is half written
    dropped,        \* lines dropped by rewriting the file
    task,           \* per fork id: "unused", "called" or "launched"
    note,           \* per id, the notification of its end
    told,           \* the ids whose notification was written to the file
    prompted,       \* the ids whose notification prompt was sent
    \* the database
    offset,         \* transcript_offset
    tokens,         \* prompt_tokens
    spawns,         \* fork_spawns
    \* the daemon
    reader,         \* the ingests in flight
    \* history
    offsetOf,       \* `dropped` of the file that `offset` is about
    verdict         \* what each notification prompt was taken for

vars == <<now, file, torn, dropped, task, note, told, prompted, offset, tokens, spawns,
          reader, offsetOf, verdict>>
envVars == <<now, file, torn, dropped, task, note, told, prompted>>
dbVars == <<offset, tokens, spawns, offsetOf>>

-----------------------------------------------------------------------------
\* Lines and what is read from them (transcript.rs, notification.rs).

\* A line that parses to nothing the watcher knows.
Junk == [tokens |-> 0, spawn |-> None, result |-> None, notif |-> None]

UsageLine(n)    == [Junk EXCEPT !.tokens = n]
SpawnLine(id)   == [Junk EXCEPT !.spawn = id]
ResultLine(id)  == [Junk EXCEPT !.result = id]
NotifLine(n)    == [Junk EXCEPT !.notif = n]

\* The background task id is announced as "agentId" in the call's result; here
\* it is a value that matches no tool-use id.
TaskId(id) == <<"task", id>>

\* parse_task_notification: any of its tags may be missing.
Notification(use, tid, status) == [use |-> use, task |-> tid, status |-> status]

\* What the notification of a task may be: with both ids, or, when a fork's
\* completion record is not found, with the task id alone.
NotesOf(id) ==
    {Notification(id, TaskId(id), status) : status \in Statuses}
        \cup (IF id \in ForkIds THEN {Notification(None, TaskId(id), "stopped")} ELSE {})

\* None stands for the absence of an id or a notification.
ASSUME NoneAssumption == \A id \in Ids : None # TaskId(id) /\ None \notin NotesOf(id)

IsTerminalStatus(status) == status \in {"completed", "failed", "stopped"}

\* fork_name_from_prompt: the name that spawn_prompt wrote, up to its first quote.
ForkNameFromPrompt(id) ==
    IF id \in Fingerprint /\ ForkName[id][1] # "" THEN <<ForkName[id][1], "">> ELSE None

Size(lines, half) == 2 * Len(lines) + (IF half THEN 1 ELSE 0)

\* Mutant of ReadDelta: a half-written line is skipped over.
ReadDeltaTorn(from) ==
    LET start == IF Size(file, torn) < from THEN 0 ELSE from
    IN  [next |-> Size(file, torn), lines |-> SubSeq(file, (start + 1) \div 2 + 1, Len(file))]

\* Mutant of ReadDelta: a file that has shrunk is read from the old offset on.
ReadDeltaShrunk(from) ==
    [next |-> IF 2 * Len(file) < from THEN from ELSE 2 * Len(file),
     lines |-> SubSeq(file, (from + 1) \div 2 + 1, Len(file))]

\* read_delta: from the offset, or from the start of a file that has shrunk, the
\* complete lines and the offset past them.
ReadDelta(from) ==
    LET start == IF Size(file, torn) < from THEN 0 ELSE from
    IN  [next |-> 2 * Len(file), lines |-> SubSeq(file, (start + 1) \div 2 + 1, Len(file))]

\* scan_assistant: the usage of the last line that has any.
PromptTokens(lines) ==
    LET used == {i \in DOMAIN lines : lines[i].tokens > 0}
    IN  IF used = {} THEN None
        ELSE lines[CHOOSE i \in used : \A j \in used : j <= i].tokens

\* scan_assistant and scan_user: fork spawns, task ids, notifications.
SpawnsIn(lines)  == {l.spawn : l \in {lines[i] : i \in DOMAIN lines}} \ {None}
ResultsIn(lines) == {l.result : l \in {lines[i] : i \in DOMAIN lines}} \ {None}
NotesIn(lines)   == {l.notif : l \in {lines[i] : i \in DOMAIN lines}} \ {None}

-----------------------------------------------------------------------------
\* The registry (store.rs).

NotSeen == [status |-> "none", name |-> None, task |-> None, at |-> -1]

\* INSERT OR IGNORE.
RecordSpawn(row, id) ==
    IF row.status = "none" THEN [NotSeen EXCEPT !.status = "spawned", !.name = ForkNameFromPrompt(id)]
                           ELSE row

SetSpawnTaskId(row, id) ==
    IF row.status # "none" /\ row.task = None THEN [row EXCEPT !.task = TaskId(id)] ELSE row

\* Mutant of Matches: a recorded spawn is known by its tool-use id only.
MatchesByUse(n, id, row) == row.status # "none" /\ n.use = id

\* is_fork_spawn, for one row.
Matches(n, id, row) ==
    /\ row.status # "none"
    /\ \/ n.use = id
       \/ n.task # None /\ n.task = row.task

IsForkSpawn(db, n) == \E id \in ForkIds : Matches(n, id, db[id])

\* Mutant of MarkSpawnTerminal: a later observation overwrites the first.
MarkSpawnAgain(db, n, t) ==
    [id \in ForkIds |->
        IF Matches(n, id, db[id])
        THEN [db[id] EXCEPT !.status = n.status, !.at = t] ELSE db[id]]

MarkSpawnTerminal(db, n, t) ==
    [id \in ForkIds |->
        IF Matches(n, id, db[id]) /\ db[id].status = "spawned"
        THEN [db[id] EXCEPT !.status = n.status, !.at = t] ELSE db[id]]

\* Every terminal notification of `notes` is marked; no two are of one task.
MarkAll(db, notes, t) ==
    [id \in ForkIds |->
        LET hits == {n \in notes : IsTerminalStatus(n.status) /\ Matches(n, id, db[id])}
        IN  IF hits = {} THEN db[id] ELSE MarkSpawnTerminal(db, CHOOSE n \in hits : TRUE, t)[id]]

-----------------------------------------------------------------------------
\* ingest_transcript (daemon.rs), for a Stop or for a notification prompt.

Free == [pc |-> "free", note |-> None, from |-> 0, next |-> 0, lines |-> <<>>, dropped |-> 0,
         failed |-> FALSE]

\* The session row is read.
Begin(r, n) ==
    /\ reader[r].pc = "free"
    /\ \A q \in Readers : reader[q].pc = "free" => r <= q
    /\ reader' = [reader EXCEPT ![r] = [Free EXCEPT !.pc = "read", !.note = n,
                                                    !.from = offset, !.dropped = offsetOf]]

StopIngests(r) ==
    /\ Begin(r, None)
    /\ UNCHANGED <<envVars, dbVars, verdict>>

\* A prompt that is a task's notification, of a fork or of another task.
NotePrompt(r, id) ==
    /\ id \in ForkIds => task[id] = "launched"
    /\ id \notin prompted
    /\ prompted' = prompted \cup {id}
    /\ Begin(r, note[id])
    /\ UNCHANGED <<now, file, torn, dropped, task, note, told, dbVars, verdict>>

\* The file is read, without a lock.
Read(r) ==
    LET delta == ReadDelta(reader[r].from) IN
    /\ reader[r].pc = "read"
    /\ reader' = [reader EXCEPT ![r] = [@ EXCEPT !.pc = "apply", !.from = 0, !.next = delta.next,
                                                 !.lines = delta.lines, !.dropped = dropped]]
    /\ UNCHANGED <<envVars, dbVars, verdict>>

\* After the ingest a Stop goes on elsewhere, a prompt is classified.
Ingested(r, failed) ==
    LET n == reader[r].note IN
    reader' = [reader EXCEPT ![r] =
                 IF n = None THEN Free
                 ELSE [Free EXCEPT !.pc = "classify", !.note = n, !.failed = failed]]

\* A half-written character makes the whole read fail: nothing is applied.
ReadFails(r) ==
    /\ reader[r].pc = "read"
    /\ torn
    /\ Ingested(r, TRUE)
    /\ UNCHANGED <<envVars, dbVars, verdict>>

\* What was read is applied: spawns, their task ids, their ends, the gauge.
Apply(r) ==
    LET lines == reader[r].lines
        recorded == [id \in ForkIds |-> IF id \in SpawnsIn(lines) THEN RecordSpawn(spawns[id], id)
                                                                  ELSE spawns[id]]
        launched == [id \in ForkIds |-> IF id \in ResultsIn(lines)
                                        THEN SetSpawnTaskId(recorded[id], id) ELSE recorded[id]]
    IN  /\ reader[r].pc = "apply"
        /\ spawns' = MarkAll(launched, NotesIn(lines), now)
        /\ offset' = reader[r].next
        /\ offsetOf' = reader[r].dropped
        /\ tokens' = IF PromptTokens(lines) = None THEN tokens ELSE PromptTokens(lines)
        /\ Ingested(r, FALSE)
        /\ UNCHANGED <<envVars, verdict>>

\* handle_event, for a task notification: one of the daemon's own forks?
Classify(r) ==
    LET n == reader[r].note
        matched == IsForkSpawn(spawns, n)
    IN  /\ reader[r].pc = "classify"
        /\ spawns' = IF IsTerminalStatus(n.status) /\ matched
                     THEN MarkSpawnTerminal(spawns, n, now) ELSE spawns
        /\ verdict' = [verdict EXCEPT ![n.task[2]] =
                         IF matched THEN "own" ELSE IF reader[r].failed THEN "unread" ELSE "foreign"]
        /\ reader' = [reader EXCEPT ![r] = Free]
        /\ UNCHANGED <<envVars, offset, tokens, offsetOf>>

-----------------------------------------------------------------------------
\* The session.

\* A rewritten file is read before it has grown past an offset into the old one:
\* the watcher knows a rewritten file by its size alone.
MayGrowTo(size) ==
    /\ offsetOf # dropped => size < offset
    /\ \A r \in Readers : reader[r].pc = "read" /\ reader[r].dropped # dropped => size < reader[r].from

BeginLine ==
    /\ ~torn
    /\ dropped + Len(file) < MaxLines
    /\ MayGrowTo(Size(file, FALSE) + 2)
    /\ torn' = TRUE
    /\ UNCHANGED <<now, file, dropped, task, note, told, prompted, dbVars, reader, verdict>>

Write(line) ==
    /\ torn
    /\ torn' = FALSE
    /\ file' = Append(file, line)

\* A usage line.  It stands for the lines of no interest too: another task's call,
\* result and notification, which match no row of the registry.
WriteOther ==
    /\ \E n \in Tokens : Write(UsageLine(n))
    /\ UNCHANGED <<now, dropped, task, note, told, prompted, dbVars, reader, verdict>>

\* An Agent call that spawns a fork.
WriteCall(id) ==
    /\ task[id] = "unused"
    /\ Write(SpawnLine(id))
    /\ task' = [task EXCEPT ![id] = "called"]
    /\ UNCHANGED <<now, dropped, note, told, prompted, dbVars, reader, verdict>>

\* Its result, with the task id.
WriteResult(id) ==
    /\ task[id] = "called"
    /\ Write(ResultLine(id))
    /\ task' = [task EXCEPT ![id] = "launched"]
    /\ UNCHANGED <<now, dropped, note, told, prompted, dbVars, reader, verdict>>

\* The task has ended: its notification, for which a prompt may be sent before
\* or after.
WriteNote(id) ==
    /\ task[id] = "launched"
    /\ id \notin told
    /\ Write(NotifLine(note[id]))
    /\ told' = told \cup {id}
    /\ UNCHANGED <<now, dropped, task, note, prompted, dbVars, reader, verdict>>

\* The file is rewritten without some lines that were read, to less than what was
\* read of it; it was read since the last time, and no ingest is between its read
\* and its apply.
Rewrite ==
    /\ ~torn
    /\ offsetOf = dropped
    /\ \A r \in Readers : reader[r].pc # "apply"
    /\ \E k \in 1..Len(file) :
          /\ 2 * k <= offset
          /\ 2 * (Len(file) - k) < offset
          /\ \A r \in Readers : reader[r].pc = "read" => 2 * (Len(file) - k) < reader[r].from
          /\ file' = SubSeq(file, k + 1, Len(file))
          /\ dropped' = dropped + k
    /\ UNCHANGED <<now, torn, task, note, told, prompted, dbVars, reader, verdict>>

Tick ==
    /\ now < MaxTime
    /\ now' = now + 1
    /\ UNCHANGED <<file, torn, dropped, task, note, told, prompted, dbVars, reader, verdict>>

-----------------------------------------------------------------------------
Init ==
    /\ now = 0
    /\ file = <<>>
    /\ torn = FALSE
    /\ dropped = 0
    /\ task = [id \in ForkIds |-> "unused"]
    /\ note \in {n \in [Ids -> UNION {NotesOf(id) : id \in Ids}] : \A id \in Ids : n[id] \in NotesOf(id)}
    /\ told = {}
    /\ prompted = {}
    /\ offset = 0
    /\ tokens = None
    /\ spawns = [id \in ForkIds |-> NotSeen]
    /\ reader = [r \in Readers |-> Free]
    /\ offsetOf = 0
    /\ verdict = [id \in Ids |-> "none"]

ReaderStep(r) == Read(r) \/ ReadFails(r) \/ Apply(r) \/ Classify(r)

SessionStep ==
    \/ BeginLine \/ WriteOther
    \/ \E id \in ForkIds : WriteCall(id) \/ WriteResult(id) \/ WriteNote(id)
    \/ Rewrite

Next ==
    \/ \E r \in Readers :
          \/ StopIngests(r)
          \/ \E id \in Ids : NotePrompt(r, id)
          \/ ReaderStep(r)
    \/ SessionStep
    \/ Tick

Spec == Init /\ [][Next]_vars

\* Fairness: an ingest that was begun goes on, the session goes on to end turns
\* (each with a Stop), and a line that was begun is completed.
Fairness ==
    /\ \A r \in Readers : WF_vars(Read(r) \/ Apply(r) \/ Classify(r)) 
    /\ WF_vars(\E r \in Readers : StopIngests(r))
    /\ WF_vars(WriteOther)

FairSpec == Spec /\ Fairness

-----------------------------------------------------------------------------
\* Properties.

Lines == [tokens : Tokens \cup {0}, spawn : ForkIds \cup {None}, result : ForkIds \cup {None},
          notif : {note[id] : id \in ForkIds} \cup {None}]

Rows == [status : {"none", "spawned", "completed", "failed", "stopped"},
         name : {ForkNameFromPrompt(id) : id \in ForkIds} \cup {None},
         task : {TaskId(id) : id \in ForkIds} \cup {None}, at : Int]

Ingests == [pc : {"free", "read", "apply", "classify"}, note : {note[id] : id \in Ids} \cup {None},
            from : Nat, next : Nat, lines : Seq(Lines), dropped : Nat, failed : BOOLEAN]

\* Every piece of state has its type; a notification is one of its task's, and a
\* row has the name and the task id of its own spawn.
TypeOK ==
    /\ {now, dropped, offset, offsetOf} \subseteq Nat
    /\ file \in Seq(Lines)
    /\ torn \in BOOLEAN
    /\ task \in [ForkIds -> {"unused", "called", "launched"}]
    /\ \A id \in Ids : note[id] \in NotesOf(id)
    /\ told \subseteq ForkIds /\ prompted \subseteq Ids
    /\ spawns \in [ForkIds -> Rows]
    /\ \A id \in ForkIds : /\ spawns[id].status # "none" => spawns[id].name = ForkNameFromPrompt(id)
                           /\ spawns[id].task \in {None, TaskId(id)}
    /\ reader \in [Readers -> Ingests]
    /\ verdict \in [Ids -> {"none", "own", "unread", "foreign"}]

\* The spawn is registered in db with its task id.
Complete(id, db) == db[id].status # "none" /\ db[id].task = TaskId(id)

\* The line has had its effect on db, once and for all, given who is notified how.
Absorbed(l, db, notes) ==
    /\ l.spawn # None => db[l.spawn].status # "none"
    /\ l.result # None => Complete(l.result, db)
    /\ \A id \in ForkIds : l.notif = notes[id] /\ IsTerminalStatus(notes[id].status)
                              => db[id].status \notin {"none", "spawned"}

\* A call precedes its result and a result its notification, in the file or,
\* when they were dropped from it, in the registry.
InOrder ==
    /\ \A id \in ForkIds : task[id] = "launched"
          => Complete(id, spawns) \/ \E i \in 1..Len(file) : file[i].result = id
    /\ \A id \in ForkIds : task[id] # "unused"
          => spawns[id].status # "none" \/ \E i \in 1..Len(file) : file[i].spawn = id
    /\ \A id \in ForkIds : \A i \in 1..Len(file) :
          /\ file[i].result = id
                => spawns[id].status # "none" \/ \E j \in 1..(i - 1) : file[j].spawn = id
          /\ file[i].notif = note[id]
                => Complete(id, spawns) \/ \E j \in 1..(i - 1) : file[j].result = id

\* An offset into this file is at a line's end and all below it is absorbed; one
\* into a file since rewritten is past the end of this one.
Covered(off, of) ==
    /\ off % 2 = 0
    /\ of <= dropped
    /\ of = dropped =>
          /\ off <= 2 * Len(file)
          /\ \A i \in 1..Len(file) : 2 * i <= off => Absorbed(file[i], spawns, note)
    /\ of # dropped => 2 * Len(file) + (IF torn THEN 2 ELSE 0) < off

\* An ingest between its read and its apply has in hand every line below its new
\* offset that is not absorbed, and only such lines.
Fetched(r) ==
    LET x == reader[r] IN
    /\ x.dropped = dropped
    /\ x.next % 2 = 0 /\ x.next <= 2 * Len(file)
    /\ \A i \in 1..Len(file) : 2 * i <= x.next
          => Absorbed(file[i], spawns, note) \/ \E j \in 1..Len(x.lines) : x.lines[j] = file[i]
    /\ \A j \in 1..Len(x.lines) :
          \E i \in 1..Len(file) : 2 * i <= x.next /\ file[i] = x.lines[j]

\* What an ingest relies on at its step.
Sound(r) ==
    /\ reader[r].pc = "read" => Covered(reader[r].from, reader[r].dropped)
    /\ reader[r].pc = "apply" => Fetched(r)
    /\ reader[r].pc = "classify" => reader[r].note # None
    /\ \A id \in ForkIds : reader[r].note = note[id] =>
          /\ task[id] = "launched"
          /\ reader[r].pc = "apply"
                => Complete(id, spawns) \/ \E i \in 1..Len(file) :
                                              2 * i <= reader[r].next /\ file[i].result = id
          /\ reader[r].pc = "classify" /\ ~ reader[r].failed => Complete(id, spawns)

IngestsSound == \A r \in Readers : Sound(r)

\* The inductive invariant: overlapping ingests, half-written lines and rewritten
\* files never leave the stored offset past a line that the registry lacks
\* (daemon.rs ingest_transcript, transcript.rs read_delta).
TranscriptInv == TypeOK /\ InOrder /\ Covered(offset, offsetOf) /\ IngestsSound

\* What the registry owes to a line that was read: the spawn is there under its
\* name, its task id is known, its end is noted.
Registered(l) ==
    /\ l.spawn \in ForkIds =>
          /\ spawns[l.spawn].status # "none"
          /\ l.spawn \in Fingerprint /\ ForkName[l.spawn][2] = ""
                => spawns[l.spawn].name = ForkName[l.spawn]
    /\ l.result \in ForkIds /\ spawns[l.result].status # "none" => spawns[l.result].task # None
    /\ l.notif # None => \A id \in ForkIds :
          IsTerminalStatus(l.notif.status) /\ Matches(l.notif, id, spawns[id])
              => spawns[id].status # "spawned"

\* Nothing is skipped: every line below the stored offset has reached the
\* registry, however the ingests overlap.
NothingSkipped ==
    offsetOf = dropped =>
        \A i \in 1..Len(file) : 2 * i <= offset => Registered(file[i])

\* The first observation of a completion wins: though lines are read again and
\* again, neither the status nor the time that releases dependents moves.
FirstEndWins ==
    [][ \A id \in ForkIds :
            spawns[id].status \notin {"none", "spawned"}
                => /\ spawns'[id].status = spawns[id].status
                   /\ spawns'[id].at = spawns[id].at
                   /\ spawns'[id].name = spawns[id].name ]_vars

\* The completion of one of the daemon's own forks is known for one as soon as
\* its call and its result are in the file, whichever ids it carries (daemon.rs,
\* "Refresh the spawn registry from the transcript BEFORE classifying").
OwnForksRecognised ==
    \A id \in Ids :
        /\ verdict[id] = "own" => id \in ForkIds
        /\ verdict[id] = "foreign" => id \in OtherIds

\* Every line reaches the registry in the end: again and again everything written
\* has been read, though a slow ingest may set the offset back.
LinesAreRead == []<>(offsetOf = dropped /\ offset = 2 * Len(file))
=============================================================================
