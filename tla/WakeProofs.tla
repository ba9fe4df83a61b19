----------------------------- MODULE WakeProofs -----------------------------
(***************************************************************************)
(* What the daemon guarantees about wakes, for every set of sessions,      *)
(* forks and polls: once per pause, throttles and tag budgets, the order   *)
(* of `after`, and whose activity begins a pause.  Where a guarantee has a *)
(* condition on what else happens, the theorem states it.                  *)
(***************************************************************************)
EXTENDS DaemonProofs

\* No session has been closed: close_session forgets latches, throttle stamps and
\* spawns.
NoneClosed == \A s \in Sessions : db.sess[s].status # "closed"

\* No two polls of one session are between their selection and their stamps.
IssuesApart ==
    \A p, q \in Polls :
        poll[p].pc = "issue" /\ poll[q].pc = "issue" /\ poll[p].s = poll[q].s => p = q

-----------------------------------------------------------------------------
\* How a step changes the database.

\* Epochs stay; no session is closed; the issued runs stay and holds only end;
\* the latches stay and a roster entry changes only from unqueued to queued.
KeepsEpochs(d, e) == \A s \in Sessions : e.sess[s].epoch = d.sess[s].epoch
KeepsOpen(d, e) ==
    \A s \in Sessions : e.sess[s].status = "closed" => d.sess[s].status = "closed"
KeepsRuns(d, e) ==
    /\ e.runs = d.runs
    /\ \A s \in Sessions, f \in Forks :
          e.pending[s][f] = d.pending[s][f] \/ e.pending[s][f].preds = {}
KeepsLatches(d, e) ==
    /\ e.fires = d.fires
    /\ \A s \in Sessions, f \in Forks :
          \/ e.roster[s][f] = d.roster[s][f]
          \/ d.roster[s][f] = NotQueued /\ e.roster[s][f] = Never

\* The step changes nothing a wake is judged by.
Quiet(d, e) == KeepsRuns(d, e) /\ KeepsLatches(d, e) /\ KeepsOpen(d, e)
Calm(d, e) == Quiet(d, e) /\ KeepsEpochs(d, e) /\ e.spawns = d.spawns

LEMMA SameIsCalm == ASSUME NEW d PROVE Calm(d, d)
  BY DEF Calm, Quiet, KeepsOpen, KeepsRuns, KeepsLatches, KeepsEpochs

LEMMA UpsertCalm ==
  ASSUME NEW d, DbType(d), NEW s \in Sessions, NEW t
  PROVE  Calm(d, UpsertSession(d, s, t))
  BY DEF DbType, UpsertSession, Calm, Quiet, KeepsOpen, KeepsRuns, KeepsLatches, KeepsEpochs

LEMMA BaselineCalm ==
  ASSUME NEW d, DbType(d), NEW s \in Sessions, NEW t
  PROVE  Calm(d, SetPauseStartedAtIfUnset(d, s, t))
  BY DEF DbType, SetPauseStartedAtIfUnset, Calm, Quiet, KeepsOpen, KeepsRuns, KeepsLatches, KeepsEpochs

LEMMA RefreshCalm ==
  ASSUME NEW d, DbType(d), NEW s \in Sessions
  PROVE  Calm(d, RefreshRoster(d, s))
  BY DEF DbType, RefreshRoster, Calm, Quiet, KeepsOpen, KeepsRuns, KeepsLatches, KeepsEpochs

LEMMA DeleteCalm ==
  ASSUME NEW d, DbType(d), NEW s \in Sessions, NEW fs
  PROVE  Calm(d, DeletePendingDeps(d, s, fs))
  BY DEF DbType, DeletePendingDeps, NotHeld, Calm, Quiet, KeepsOpen, KeepsRuns, KeepsLatches, KeepsEpochs

LEMMA ClearCalm ==
  ASSUME NEW d, DbType(d), NEW s \in Sessions
  PROVE  Calm(d, ClearPendingDeps(d, s))
  BY DEF DbType, ClearPendingDeps, NoDeps, NotHeld, Calm, Quiet, KeepsOpen, KeepsRuns, KeepsLatches, KeepsEpochs

\* A new pause changes epochs only.
LEMMA BumpQuiet ==
  ASSUME NEW d, DbType(d), NEW s \in Sessions
  PROVE  /\ Quiet(d, BumpPauseEpoch(d, s))
         /\ BumpPauseEpoch(d, s).spawns = d.spawns
         /\ \A r \in Sessions : r # s => BumpPauseEpoch(d, s).sess[r].epoch = d.sess[r].epoch
  BY DEF DbType, BumpPauseEpoch, Quiet, KeepsOpen, KeepsRuns, KeepsLatches

\* What the transcript says changes spawns only.
LEMMA RecordQuiet ==
  ASSUME NEW d, DbType(d), NEW s \in Sessions, NEW ids
  PROVE  Quiet(d, RecordSpawns(d, s, ids)) /\ KeepsEpochs(d, RecordSpawns(d, s, ids))
  BY DEF DbType, RecordSpawns, Quiet, KeepsOpen, KeepsRuns, KeepsLatches, KeepsEpochs

LEMMA TerminalQuiet ==
  ASSUME NEW d, DbType(d), NEW s \in Sessions, NEW ids, NEW t
  PROVE  Quiet(d, MarkSpawnsTerminal(d, s, ids, t)) /\ KeepsEpochs(d, MarkSpawnsTerminal(d, s, ids, t))
  BY DEF DbType, MarkSpawnsTerminal, Quiet, KeepsOpen, KeepsRuns, KeepsLatches, KeepsEpochs

LEMMA GaugeCalm ==
  ASSUME NEW d, DbType(d), NEW s \in Sessions, NEW n
  PROVE  Calm(d, SetTranscriptGauge(d, s, n))
  BY DEF DbType, SetTranscriptGauge, Calm, Quiet, KeepsOpen, KeepsRuns, KeepsLatches, KeepsEpochs

\* A close keeps the issued runs and the epochs.
LEMMA CloseEffect ==
  ASSUME NEW d, DbType(d), NEW ss
  PROVE  KeepsRuns(d, CloseSessions(d, ss)) /\ KeepsEpochs(d, CloseSessions(d, ss))
  BY DEF DbType, CloseSessions, NoDeps, NotHeld, KeepsRuns, KeepsEpochs

\* A close of no session changes nothing.
LEMMA CloseNone ==
  ASSUME NEW d, DbType(d), NEW ss, \A s \in Sessions : CloseSessions(d, ss).sess[s].status # "closed"
  PROVE  Calm(d, CloseSessions(d, ss))
<1>1. \A s \in Sessions : s \notin ss
  BY DEF DbType, CloseSessions
<1> QED BY <1>1 DEF DbType, CloseSessions, Calm, Quiet, KeepsOpen, KeepsRuns, KeepsLatches, KeepsEpochs

\* Two such changes in a row.
LEMMA QuietTransitive ==
  ASSUME NEW d, NEW e, NEW f, Quiet(d, e), Quiet(e, f)
  PROVE  Quiet(d, f)
  BY DEF Quiet, KeepsOpen, KeepsRuns, KeepsLatches, NotQueued, Never

LEMMA CalmTransitive ==
  ASSUME NEW d, NEW e, NEW f, Calm(d, e), Calm(e, f)
  PROVE  Calm(d, f)
<1>1. Quiet(d, f)
  BY QuietTransitive DEF Calm
<1> QED BY <1>1 DEF Calm, KeepsEpochs

\* Reading the transcript changes spawns only.
LEMMA IngestEffect ==
  ASSUME Typed, WaitInv, NEW s \in Sessions
  PROVE  /\ Quiet(db, Ingest(db, s))
         /\ KeepsEpochs(db, Ingest(db, s))
         /\ \A r \in Sessions : r # s => Ingest(db, s).spawns[r] = db.spawns[r]
         /\ Ingest(db, s).spawns[s] =
              [id \in SpawnIds |->
                 LET seen == IF id \in unread[s].spawned /\ db.spawns[s][id] = NotSeen
                             THEN Running ELSE db.spawns[s][id]
                 IN  IF id \in unread[s].finished /\ seen = Running THEN now ELSE seen]
<1> DEFINE d1 == RecordSpawns(db, s, unread[s].spawned)
           d2 == MarkSpawnsTerminal(d1, s, unread[s].finished, now)
           d3 == SetTranscriptGauge(d2, s, unread[s].tokens)
<1>1. Quiet(db, d1) /\ KeepsEpochs(db, d1) /\ DbType(d1)
  BY RecordQuiet, RecordSpawnsTyped DEF Typed
<1>2. /\ \A r \in Sessions : r # s => d1.spawns[r] = db.spawns[r]
      /\ d1.spawns[s] = [id \in SpawnIds |-> IF id \in unread[s].spawned /\ db.spawns[s][id] = NotSeen
                                             THEN Running ELSE db.spawns[s][id]]
  BY DEF Typed, DbType, RecordSpawns
<1> HIDE DEF d1
<1>3. Quiet(d1, d2) /\ KeepsEpochs(d1, d2) /\ DbType(d2)
  BY <1>1, TerminalQuiet, TerminalTyped DEF Typed
<1>4. /\ \A r \in Sessions : r # s => d2.spawns[r] = d1.spawns[r]
      /\ d2.spawns[s] = [id \in SpawnIds |-> IF id \in unread[s].finished /\ d1.spawns[s][id] = Running
                                             THEN now ELSE d1.spawns[s][id]]
  BY <1>1 DEF DbType, MarkSpawnsTerminal
<1> HIDE DEF d2
<1>5. Calm(d2, d3)
  BY <1>3, GaugeCalm
<1>6. Ingest(db, s) = d3
  BY DEF Ingest, d1, d2
<1> HIDE DEF d3
<1>7. Quiet(db, d3)
  BY <1>1, <1>3, <1>5, QuietTransitive DEF Calm
<1>8. KeepsEpochs(db, d3) /\ d3.spawns = d2.spawns
  BY <1>1, <1>3, <1>5 DEF Calm, KeepsEpochs
<1> QED BY <1>2, <1>4, <1>6, <1>7, <1>8

\* The steps that close sessions.
Closes ==
    \/ \E c \in closers : GraceCloses(c)
    \/ \E s \in Sessions : EndCloses(s) \/ ReaperCloses(s)
    \/ Prune

\* The steps by what they do to the database.
LEMMA DbSteps ==
  ASSUME Typed, WaitInv, [Next]_vars
  PROVE  \/ Calm(db, db')
         \/ \E p \in Polls : BuildWake(p) \/ StopIngests(p)
         \/ \E s \in Sessions : ClassifyPrompt(s) \/ ApplyPrompt(s)
         \/ Closes /\ \E ss : db' = CloseSessions(db, ss)
<1>0. DbType(db) /\ (db' = db => Calm(db, db'))
  BY SameIsCalm DEF Typed
<1>1. ASSUME NEW p \in Polls, PollStep(p), ~BuildWake(p), ~StopIngests(p)
      PROVE  Calm(db, db')
  <2>0. poll[p].pc # "free" => poll[p].s \in Sessions
    BY DEF WaitInv, Shape
  <2>1. CASE StopRecorded(p)
    <3> DEFINE s == poll[p].s
               d == UpsertSession(db, s, poll[p].t)
    <3>1. s \in Sessions /\ poll[p].t \in Time
      BY <2>1, PollFacts DEF StopRecorded
    <3>2. Calm(db, d) /\ DbType(d)
      BY <1>0, <3>1, UpsertCalm, UpsertTyped
    <3>3. db' = SetPauseStartedAtIfUnset(d, s, poll[p].t)
      BY <2>1 DEF StopRecorded
    <3> HIDE DEF d, s
    <3>4. Calm(d, db')
      BY <3>1, <3>2, <3>3, BaselineCalm
    <3> QED BY <3>2, <3>4, CalmTransitive
  <2>2. CASE DeleteReleased(p)
    BY <1>0, <2>0, <2>2, DeleteCalm DEF DeleteReleased
  <2>3. CASE Evaluate(p) \/ DeadlinePasses(p)
    BY <1>0, <2>0, <2>3, RefreshCalm DEF Evaluate, DeadlinePasses, AfterDueNow
  <2>4. CASE Reselect(p)
    BY <1>0, <2>0, <2>4, RefreshCalm DEF Reselect
  <2>5. CASE \/ StopArrives(p) \/ Register(p) \/ TakeSnapshot(p) \/ ListReleasable(p)
             \/ DebounceEnds(p) \/ SeesCancel(p) \/ Deliver(p)
    BY <1>0, <2>5 DEF StopArrives, Register, TakeSnapshot, ListReleasable, DebounceEnds,
                      SeesCancel, Deliver
  <2> QED BY <1>1, <2>1, <2>2, <2>3, <2>4, <2>5 DEF PollStep
<1>2. ASSUME NEW p \in Polls, ConnStep(p) PROVE db' = db
  BY <1>2 DEF ConnStep, HookDies, NeverSent, LosePoll
<1>3. ASSUME NEW s \in Sessions, PromptStep(s), ~ClassifyPrompt(s), ~ApplyPrompt(s)
      PROVE  db' = db \/ (Closes /\ \E ss : db' = CloseSessions(db, ss))
  BY <1>3 DEF PromptStep, CancelPrompt, PromptLost, EndCancels, EndCloses, CloseSession, Closes
<1>4. ASSUME NEW s \in Sessions, SessionStep(s) PROVE Calm(db, db')
  <2>1. CASE SessionStart(s)
    BY <1>0, <2>1, UpsertCalm DEF SessionStart
  <2>2. CASE ~SessionStart(s)
    BY <1>0, <1>4, <2>2 DEF SessionStep, SessionEnd, SessionDies, UserPrompt, WakeTurn, EndTurn, ForkEnds
  <2> QED BY <2>1, <2>2
<1>5. CASE CloserStep
  <2>1. PICK c \in closers : GraceEnds(c) \/ GraceCloses(c)
    BY <1>5 DEF CloserStep
  <2> QED BY <1>0, <2>1 DEF GraceEnds, GraceCloses, CloseSession, Closes
<1>6. CASE ReaperStep \/ Prune
  BY <1>0, <1>6 DEF ReaperStep, ReaperScans, ReaperCloses, Prune, CloseSession, Closes
<1>7. CASE DaemonStops \/ DaemonStarts \/ Tick \/ EndOfTime \/ UNCHANGED vars
  BY <1>0, <1>7 DEF DaemonStops, DaemonStarts, Tick, EndOfTime, vars
<1> QED BY <1>0, <1>1, <1>2, <1>3, <1>4, <1>5, <1>6, <1>7 DEF Next

\* Unless a wake is stamped or a session closed, nothing changes that a wake is
\* judged by; the issued runs survive even a close.
LEMMA WakeFrame ==
  ASSUME Typed, WaitInv, [Next]_vars, \A p \in Polls : ~BuildWake(p)
  PROVE  /\ KeepsRuns(db, db')
         /\ NoneClosed' => Quiet(db, db')
         /\ ~Closes => Quiet(db, db')
         /\ Quiet(db, db') \/ \E ss : db' = CloseSessions(db, ss)
<1>0. DbType(db)
  BY DEF Typed
<1>1. CASE Calm(db, db')
  BY <1>1 DEF Calm, Quiet
<1>2. ASSUME NEW p \in Polls, StopIngests(p) PROVE Quiet(db, db')
  <2>1. poll[p].s \in Sessions
    BY <1>2, PollFacts DEF StopIngests
  <2> QED BY <1>2, <2>1, IngestEffect, SameIsCalm DEF StopIngests, Calm
<1>3. ASSUME NEW s \in Sessions, ClassifyPrompt(s) PROVE Quiet(db, db')
  <2> DEFINE d == IF prompt[s].kind \in {"notif", "foreign"} THEN Ingest(db, s) ELSE db
  <2>1. Quiet(db, d) /\ DbType(d)
    BY <1>0, IngestEffect, IngestTyped, TypedIsTypeOK, SameIsCalm DEF Calm
  <2>2. db' = MarkSpawnsTerminal(d, s, {prompt[s].id}, now) \/ db' = d
    BY <1>3 DEF ClassifyPrompt
  <2> HIDE DEF d
  <2>3. Quiet(d, MarkSpawnsTerminal(d, s, {prompt[s].id}, now))
    BY <2>1, TerminalQuiet
  <2> QED BY <2>1, <2>2, <2>3, QuietTransitive
<1>4. ASSUME NEW s \in Sessions, ApplyPrompt(s) PROVE Quiet(db, db')
  <2> DEFINE d == UpsertSession(db, s, prompt[s].t)
             e == BumpPauseEpoch(d, s)
  <2>1. prompt[s].t \in Time
    BY DEF Typed, PromptsTyped, PromptType
  <2>2. Calm(db, d) /\ DbType(d)
    BY <1>0, <2>1, UpsertCalm, UpsertTyped
  <2>3. db' = ClearPendingDeps(e, s) \/ db' = d
    BY <1>4 DEF ApplyPrompt
  <2> HIDE DEF d
  <2>4. Quiet(d, e) /\ DbType(e)
    BY <2>2, BumpQuiet, BumpTyped
  <2> HIDE DEF e
  <2>5. Calm(e, ClearPendingDeps(e, s))
    BY <2>4, ClearCalm
  <2> QED BY <2>2, <2>3, <2>4, <2>5, QuietTransitive DEF Calm
<1>5. ASSUME NEW ss, db' = CloseSessions(db, ss)
      PROVE  KeepsRuns(db, db') /\ (NoneClosed' => Quiet(db, db'))
  <2>1. KeepsRuns(db, db')
    BY <1>0, <1>5, CloseEffect
  <2>2. ASSUME NoneClosed' PROVE Quiet(db, db')
    <3>1. \A s \in Sessions : CloseSessions(db, ss).sess[s].status # "closed"
      BY <1>5, <2>2 DEF NoneClosed
    <3> QED BY <1>0, <1>5, <3>1, CloseNone DEF Calm
  <2> QED BY <2>1, <2>2
<1> QED BY <1>1, <1>2, <1>3, <1>4, <1>5, DbSteps DEF Quiet

-----------------------------------------------------------------------------
\* How a step changes a poll that is about to stamp or to release.

\* Such a poll keeps what it has read and picked; it comes from a selection or
\* from a list of releasable dependents.
SamePoll(q) ==
    /\ poll'[q].pc = poll[q].pc
    /\ poll'[q].s = poll[q].s
    /\ poll'[q].epoch = poll[q].epoch
    /\ poll'[q].picks = poll[q].picks

\* One poll is replaced; the others stay.
LEMMA OthersStay ==
  ASSUME PollsTyped, NEW p \in Polls, NEW x, poll' = [poll EXCEPT ![p] = x]
  PROVE  /\ poll'[p] = x
         /\ \A q \in Polls : q # p => SamePoll(q)
  BY DEF PollsTyped, SamePoll

\* A poll that returns, or goes on to an await, is not about to stamp.
LEMMA ForgetLeaves ==
  ASSUME PollsTyped, NEW p \in Polls, Forget(p)
  PROVE  /\ poll'[p].pc = "free"
         /\ \A q \in Polls : q # p => SamePoll(q)
<1>1. poll' = [poll EXCEPT ![p] = FreePoll]
  BY DEF Forget
<1>2. FreePoll.pc = "free"
  BY DEF FreePoll
<1> QED BY <1>1, <1>2, OthersStay

LEMMA AwaitLeaves ==
  ASSUME PollsTyped, NEW p \in Polls, NEW x, x.pc \in {"park", "sleep", "debounce"}, Await(p, x)
  PROVE  /\ poll'[p].pc \notin {"issue", "delete"}
         /\ \A q \in Polls : q # p => SamePoll(q)
<1>1. CASE p \in cancelled
  BY <1>1, ForgetLeaves DEF Await
<1>2. CASE p \notin cancelled
  BY <1>2, OthersStay DEF Await
<1> QED BY <1>1, <1>2

LEMMA AfterDueNowLeaves ==
  ASSUME PollsTyped, NEW p \in Polls, NEW slept, AfterDueNow(p, slept)
  PROVE  /\ poll'[p].pc \notin {"issue", "delete"}
         /\ \A q \in Polls : q # p => SamePoll(q)
<1>0. poll[p] \in PollType
  BY DEF PollsTyped
<1>1. CASE OpenWindow(p)
  <2> DEFINE waiting == [poll[p] EXCEPT !.pc = "debounce", !.timer = now + Debounce]
             chosen == [poll[p] EXCEPT !.pc = "select"]
  <2>1. waiting.pc = "debounce" /\ chosen.pc = "select"
    BY <1>0 DEF PollType
  <2>2. Await(p, waiting) \/ poll' = [poll EXCEPT ![p] = chosen]
    BY <1>1 DEF OpenWindow, Step
  <2> HIDE DEF waiting, chosen
  <2> QED BY <2>1, <2>2, AwaitLeaves, OthersStay
<1>2. CASE SleepUntilNext(p, slept)
  <2> DEFINE ahead == {d \in Deadlines : d > slept}
             next == CHOOSE d \in ahead : \A e \in ahead : d <= e
             asleep == [poll[p] EXCEPT !.pc = "sleep", !.slept = next]
             parked == [poll[p] EXCEPT !.pc = "park"]
  <2>1. asleep.pc = "sleep" /\ parked.pc = "park"
    BY <1>0 DEF PollType
  <2>2. Await(p, parked) \/ Await(p, asleep) \/ poll' = [poll EXCEPT ![p] = asleep]
    BY <1>2 DEF SleepUntilNext
  <2> HIDE DEF asleep, parked
  <2> QED BY <2>1, <2>2, AwaitLeaves, OthersStay
<1> QED BY <1>1, <1>2 DEF AfterDueNow

\* The picks of a new selection, and of a new list of releasable dependents.
Selected(q) ==
    /\ Reselect(q)
    /\ poll'[q].s = poll[q].s
    /\ poll'[q].epoch = poll[q].epoch
    /\ poll'[q].pc = "issue"
    /\ poll'[q].picks = SelectForks(RefreshRoster(db, poll[q].s), poll[q].s, poll[q].epoch,
                                    PollMoments(poll[q]), now)
Listed(q) ==
    /\ ListReleasable(q)
    /\ poll'[q].s = poll[q].s
    /\ poll'[q].pc = "delete"
    /\ poll'[q].picks = {<<f, NoTrigger>> : f \in Releasable(db, poll[q].s)}

LEMMA PollFrame ==
  ASSUME Typed, WaitInv, [Next]_vars, NEW q \in Polls, poll'[q].pc \in {"issue", "delete"}
  PROVE  SamePoll(q) \/ Selected(q) \/ Listed(q)
<1>0. PollsTyped
  BY DEF Typed
<1>1. ASSUME NEW p \in Polls, PollStep(p)
      PROVE  SamePoll(q) \/ Selected(q) \/ Listed(q)
  <2>0. poll[p] \in PollType
    BY <1>0 DEF PollsTyped
  <2>1. CASE Evaluate(p) \/ DeadlinePasses(p)
    BY <1>0, <2>1, AfterDueNowLeaves DEF Evaluate, DeadlinePasses
  <2>2. CASE SeesCancel(p) \/ Deliver(p)
    BY <1>0, <2>2, ForgetLeaves DEF SeesCancel, Deliver
  <2>3. CASE DeleteReleased(p) \/ BuildWake(p)
    <3>1. PICK picks : AnswerWake(p, picks)
      BY <2>3 DEF DeleteReleased, BuildWake
    <3>2. poll'[p].pc = "wake" /\ \A r \in Polls : r # p => poll'[r] = poll[r]
      BY <1>0, <3>1 DEF AnswerWake, PollsTyped, PollType
    <3> QED BY <3>2 DEF SamePoll
  <2>4. CASE \/ StopArrives(p) \/ StopRecorded(p) \/ StopIngests(p) \/ Register(p)
             \/ TakeSnapshot(p) \/ DebounceEnds(p)
    <3>1. poll'[p].pc \notin {"issue", "delete"} /\ \A r \in Polls : r # p => poll'[r] = poll[r]
      BY <1>0, <2>4 DEF StopArrives, StopRecorded, StopIngests, Register, TakeSnapshot, DebounceEnds,
                        Step, PollsTyped, PollType
    <3> QED BY <3>1 DEF SamePoll
  <2>5. CASE ListReleasable(p)
    <3>1. CASE Releasable(db, poll[p].s) = {}
      <4>1. poll'[p].pc = "eval" /\ \A r \in Polls : r # p => poll'[r] = poll[r]
        BY <1>0, <2>5, <3>1 DEF ListReleasable, Step, PollsTyped, PollType
      <4> QED BY <4>1 DEF SamePoll
    <3>2. CASE Releasable(db, poll[p].s) # {}
      <4> DEFINE due == {<<f, NoTrigger>> : f \in Releasable(db, poll[p].s)}
      <4>1. poll' = [poll EXCEPT ![p].pc = "delete", ![p].picks = due]
        BY <2>5, <3>2 DEF ListReleasable
      <4> HIDE DEF due
      <4>2. /\ poll'[p].pc = "delete" /\ poll'[p].s = poll[p].s /\ poll'[p].picks = due
            /\ \A r \in Polls : r # p => poll'[r] = poll[r]
        BY <1>0, <4>1 DEF PollsTyped, PollType
      <4> QED BY <2>5, <4>2 DEF SamePoll, Listed, due
    <3> QED BY <3>1, <3>2
  <2>6. CASE Reselect(p)
    <3> DEFINE picks == SelectForks(RefreshRoster(db, poll[p].s), poll[p].s, poll[p].epoch,
                                    PollMoments(poll[p]), now)
               parked == [poll[p] EXCEPT !.pc = "park"]
    <3>1. \/ Await(p, parked)
          \/ poll' = [poll EXCEPT ![p].pc = "issue", ![p].picks = picks]
      BY <2>6 DEF Reselect
    <3>2. parked.pc = "park"
      BY <2>0 DEF PollType
    <3> HIDE DEF picks, parked
    <3>3. CASE Await(p, parked)
      BY <1>0, <3>2, <3>3, AwaitLeaves
    <3>4. CASE poll' = [poll EXCEPT ![p].pc = "issue", ![p].picks = picks]
      <4>1. /\ poll'[p].pc = "issue" /\ poll'[p].s = poll[p].s /\ poll'[p].picks = picks
            /\ poll'[p].epoch = poll[p].epoch
            /\ \A r \in Polls : r # p => poll'[r] = poll[r]
        BY <1>0, <3>4 DEF PollsTyped, PollType
      <4> QED BY <2>6, <4>1 DEF SamePoll, Selected, picks
    <3> QED BY <3>1, <3>3, <3>4
  <2> QED BY <1>1, <2>1, <2>2, <2>3, <2>4, <2>5, <2>6 DEF PollStep
<1>2. ASSUME NEW p \in Polls, ConnStep(p) PROVE SamePoll(q)
  <2>1. CASE HookDies(p)
    <3>1. poll' = [poll EXCEPT ![p].conn = FALSE]
      BY <2>1 DEF HookDies
    <3> QED BY <1>0, <3>1 DEF PollsTyped, PollType, SamePoll
  <2>2. CASE NeverSent(p) \/ LosePoll(p)
    BY <1>0, <2>2, ForgetLeaves DEF NeverSent, LosePoll
  <2> QED BY <1>2, <2>1, <2>2 DEF ConnStep
<1>3. ASSUME poll' = poll PROVE SamePoll(q)
  BY <1>3 DEF SamePoll
<1>4. ASSUME NEW s \in Sessions, PromptStep(s) PROVE poll' = poll
  BY <1>4 DEF PromptStep, ClassifyPrompt, ApplyPrompt, CancelPrompt, PromptLost, EndCancels, EndCloses
<1>5. ASSUME NEW s \in Sessions, SessionStep(s) PROVE SamePoll(q)
  <2>1. CASE EndTurn(s)
    <3>1. PICK p \in Polls :
             poll' = [poll EXCEPT ![p] = [FreePoll EXCEPT !.pc = "sent", !.s = s, !.conn = TRUE]]
      BY <2>1 DEF EndTurn
    <3> DEFINE x == [FreePoll EXCEPT !.pc = "sent", !.s = s, !.conn = TRUE]
    <3>2. x.pc = "sent"
      BY DEF FreePoll
    <3> HIDE DEF x
    <3>3. poll' = [poll EXCEPT ![p] = x]
      BY <3>1 DEF x
    <3> QED BY <1>0, <3>2, <3>3, OthersStay
  <2>2. CASE ~EndTurn(s)
    <3>1. poll' = poll
      BY <1>5, <2>2 DEF SessionStep, SessionStart, SessionEnd, SessionDies, UserPrompt, WakeTurn, ForkEnds
    <3> QED BY <1>3, <3>1
  <2> QED BY <2>1, <2>2
<1>6. CASE DaemonStops
  <2>1. poll' = [p \in Polls |-> IF poll[p].pc = "sent" THEN poll[p] ELSE FreePoll]
    BY <1>6 DEF DaemonStops
  <2> QED BY <2>1 DEF FreePoll, SamePoll
<1>7. CASE \/ CloserStep \/ ReaperStep \/ Prune \/ DaemonStarts \/ Tick \/ EndOfTime
           \/ UNCHANGED vars
  <2>1. poll' = poll
    BY <1>7 DEF CloserStep, GraceEnds, GraceCloses, ReaperStep, ReaperScans, ReaperCloses, Prune,
                DaemonStarts, Tick, EndOfTime, vars
  <2> QED BY <1>3, <2>1
<1> QED BY <1>1, <1>2, <1>3, <1>4, <1>5, <1>6, <1>7 DEF Next

-----------------------------------------------------------------------------
\* What a wake stamps.

LEMMA StampEffect ==
  ASSUME NEW d, DbType(d), NEW s \in Sessions, NEW epoch \in Nat, NEW picks \in Picks,
         NEW t \in Time
  PROVE  LET e == StampWake(d, s, epoch, picks, t) IN
         /\ \A r \in Sessions : r # s => e.fires[r] = d.fires[r] /\ e.roster[r] = d.roster[r]
         /\ e.fires[s] = d.fires[s] \cup { <<x[1], LatchKey(x[2], epoch)>> : x \in picks }
         /\ \A f \in Forks : e.roster[s][f] = IF f \in ForksOf(picks) /\ d.roster[s][f] # NotQueued
                                              THEN t ELSE d.roster[s][f]
         /\ e.runs = d.runs \cup
              { [sess |-> s, fork |-> x[1], trigger |-> x[2], at |-> t] : x \in picks }
         /\ e.sess = d.sess /\ e.spawns = d.spawns
         /\ \A r \in Sessions : r # s => e.pending[r] = d.pending[r]
<1> DEFINE D == ForksOf(picks)
           deps == ResolveDeps([f \in D |-> After[f]])
           latches == { <<x[1], LatchKey(x[2], epoch)>> : x \in picks }
           runs == { [sess |-> s, fork |-> x[1], trigger |-> x[2], at |-> t] : x \in picks }
           d1 == TouchForksRan(d, s, D, t)
           d2 == [d1 EXCEPT !.runs = @ \cup runs]
           d3 == LatchFires(d2, s, latches)
           d4 == InsertPendingDeps(d3, s, deps, t)
<1>1. StampWake(d, s, epoch, picks, t) = d4
  BY DEF StampWake, RecordIssuedRuns
<1> HIDE DEF deps, latches, runs, D
<1>2. DbType(d1)
  <2>1. D \in SUBSET Forks
    BY DepsTyped DEF D
  <2> QED BY <2>1, TouchTyped
<1>3. /\ \A r \in Sessions : r # s => d1.roster[r] = d.roster[r]
      /\ \A f \in Forks : d1.roster[s][f] = IF f \in D /\ d.roster[s][f] # NotQueued
                                            THEN t ELSE d.roster[s][f]
      /\ d1.fires = d.fires /\ d1.runs = d.runs
      /\ d1.sess = d.sess /\ d1.spawns = d.spawns /\ d1.pending = d.pending
  BY DEF DbType, TouchForksRan
<1> HIDE DEF d1
<1>4. /\ d2.roster = d1.roster /\ d2.fires = d1.fires /\ d2.runs = d1.runs \cup runs
      /\ d2.sess = d1.sess /\ d2.spawns = d1.spawns /\ d2.pending = d1.pending
      /\ DOMAIN d2 = {"sess", "roster", "fires", "runs", "spawns", "pending"}
  BY <1>2 DEF DbType
<1>5. d2.fires \in [Sessions -> SUBSET (Forks \X Keys)]
  BY <1>2, <1>4 DEF DbType
<1> HIDE DEF d2
<1>6. /\ d3.roster = d2.roster /\ d3.runs = d2.runs
      /\ d3.sess = d2.sess /\ d3.spawns = d2.spawns /\ d3.pending = d2.pending
      /\ \A r \in Sessions : r # s => d3.fires[r] = d2.fires[r]
      /\ d3.fires[s] = d2.fires[s] \cup latches
      /\ DOMAIN d3 = {"sess", "roster", "fires", "runs", "spawns", "pending"}
  BY <1>4, <1>5 DEF LatchFires
<1> HIDE DEF d3
<1>7. d3.pending \in [Sessions -> [Forks -> [preds : SUBSET Forks, at : Time]]]
  BY <1>3, <1>4, <1>6 DEF DbType
<1>8. /\ d4.roster = d3.roster /\ d4.runs = d3.runs /\ d4.fires = d3.fires
      /\ d4.sess = d3.sess /\ d4.spawns = d3.spawns
      /\ \A r \in Sessions : r # s => d4.pending[r] = d3.pending[r]
  BY <1>6, <1>7 DEF InsertPendingDeps
<1> HIDE DEF d4
<1> QED BY <1>1, <1>3, <1>4, <1>6, <1>8 DEF D, latches, runs

\* Only a stamped wake is issued, and only the clock's tick moves the clock.
LEMMA HistoryFrame ==
  ASSUME [Next]_vars
  PROVE  /\ (\A p \in Polls : ~BuildWake(p)) => issued' = issued
         /\ now' = now \/ now' = now + 1
<1>1. ASSUME NEW p \in Polls, PollStep(p), ~BuildWake(p) PROVE issued' = issued /\ now' = now
  BY <1>1 DEF PollStep, StopArrives, StopRecorded, StopIngests, Register, TakeSnapshot,
              ListReleasable, DeleteReleased, Evaluate, DeadlinePasses, DebounceEnds, Reselect,
              SeesCancel, Deliver
<1>2. ASSUME NEW p \in Polls, BuildWake(p) PROVE now' = now
  BY <1>2 DEF BuildWake
<1>3. ASSUME NEW p \in Polls, ConnStep(p) PROVE issued' = issued /\ now' = now
  BY <1>3 DEF ConnStep, HookDies, NeverSent, LosePoll
<1>4. ASSUME NEW s \in Sessions, PromptStep(s) PROVE issued' = issued /\ now' = now
  BY <1>4 DEF PromptStep, ClassifyPrompt, ApplyPrompt, CancelPrompt, PromptLost, EndCancels, EndCloses
<1>5. ASSUME NEW s \in Sessions, SessionStep(s) PROVE issued' = issued /\ now' = now
  BY <1>5 DEF SessionStep, SessionStart, SessionEnd, SessionDies, UserPrompt, WakeTurn, EndTurn, ForkEnds
<1>6. CASE CloserStep \/ ReaperStep \/ Prune \/ DaemonStops \/ DaemonStarts \/ Tick \/ EndOfTime
           \/ UNCHANGED vars
  BY <1>6 DEF CloserStep, GraceEnds, GraceCloses, ReaperStep, ReaperScans, ReaperCloses, Prune,
              DaemonStops, DaemonStarts, Tick, EndOfTime, vars
<1> QED BY <1>1, <1>2, <1>3, <1>4, <1>5, <1>6 DEF Next

\* A stamped wake's step, and the polls it leaves alone.
LEMMA StampStep ==
  ASSUME Typed, WaitInv, NEW p \in Polls, BuildWake(p)
  PROVE  /\ poll[p].pc = "issue"
         /\ poll[p].s \in Sessions /\ poll[p].epoch \in Nat /\ poll[p].picks \in Picks
         /\ db' = StampWake(db, poll[p].s, poll[p].epoch, poll[p].picks, now)
         /\ issued' = issued \cup { <<poll[p].s, x[1], LatchKey(x[2], poll[p].epoch)>>
                                       : x \in poll[p].picks }
         /\ now' = now
         /\ poll'[p].pc = "wake"
         /\ \A q \in Polls : q # p => poll'[q] = poll[q]
<1>1. poll[p].pc = "issue" /\ AnswerWake(p, WakeRoots(poll[p].picks))
  BY DEF BuildWake
<1>2. poll[p] \in PollType /\ poll[p].s \in Sessions /\ poll[p].epoch \in Nat /\ poll[p].picks \in Picks
  BY <1>1, PollFacts
<1>3. poll'[p].pc = "wake" /\ \A q \in Polls : q # p => poll'[q] = poll[q]
  BY <1>1 DEF AnswerWake, Typed, PollsTyped, PollType
<1>4. /\ db' = StampWake(db, poll[p].s, poll[p].epoch, poll[p].picks, now)
      /\ issued' = issued \cup { <<poll[p].s, x[1], LatchKey(x[2], poll[p].epoch)>>
                                       : x \in poll[p].picks }
      /\ now' = now
  BY DEF BuildWake
<1> QED BY <1>1, <1>2, <1>3, <1>4

\* What a new selection is known to be.
LEMMA SelectedForks ==
  ASSUME NEW d, NEW s, NEW epoch, NEW moments, NEW t,
         NEW x \in SelectForks(d, s, epoch, moments, t)
  PROVE  /\ x[1] \in Forks
         /\ ~Throttled(d, s, x[1], t)
         /\ ~TagThrottled(d, s, x[1], t)
         /\ ~IsLatched(d, s, x[1], LatchKey(x[2], epoch))
<1> DEFINE trigger(f) == MatchMoments(RunOn[f], moments, DefaultIdle)
<1>1. PICK f \in Forks : /\ x = <<f, trigger(f)>>
                         /\ ~Throttled(d, s, f, t)
                         /\ ~TagThrottled(d, s, f, t)
                         /\ ~IsLatched(d, s, f, LatchKey(trigger(f), epoch))
  BY DEF SelectForks
<1> HIDE DEF trigger
<1> QED BY <1>1

LEMMA SelectionStep ==
  ASSUME Typed, WaitInv, NEW q \in Polls, Selected(q)
  PROVE  /\ poll[q].s \in Sessions
         /\ poll'[q].s = poll[q].s /\ poll'[q].epoch = poll[q].epoch
         /\ db' = RefreshRoster(db, poll[q].s)
         /\ now' = now
         /\ \A x \in poll'[q].picks :
               /\ x[1] \in Forks
               /\ ~Throttled(db', poll[q].s, x[1], now)
               /\ ~TagThrottled(db', poll[q].s, x[1], now)
               /\ ~IsLatched(db', poll[q].s, x[1], LatchKey(x[2], poll[q].epoch))
<1>1. poll[q].s \in Sessions
  BY PollFacts DEF Selected, Reselect
<1>2. db' = RefreshRoster(db, poll[q].s) /\ now' = now
  BY DEF Selected, Reselect
<1>3. /\ poll'[q].s = poll[q].s /\ poll'[q].epoch = poll[q].epoch
      /\ poll'[q].picks = SelectForks(db', poll[q].s, poll[q].epoch, PollMoments(poll[q]), now)
  BY <1>2 DEF Selected
<1> QED BY <1>1, <1>2, <1>3, SelectedForks

-----------------------------------------------------------------------------
\* Once per pause.

\* Every issued wake is latched; what a poll is about to stamp is not.
IssuedLatched == \A k \in issued : <<k[2], k[3]>> \in db.fires[k[1]]
PicksUnlatched ==
    \A q \in Polls : poll[q].pc = "issue" =>
        \A x \in poll[q].picks :
            ~IsLatched(db, poll[q].s, x[1], LatchKey(x[2], poll[q].epoch))
LatchInv == IssuedLatched /\ PicksUnlatched

LEMMA NextLatches ==
  ASSUME LatchInv, Typed, WaitInv, IssuesApart, NoneClosed', [Next]_vars
  PROVE  LatchInv'
<1>1. ASSUME NEW p \in Polls, BuildWake(p) PROVE LatchInv'
  <2> DEFINE s == poll[p].s
             keys == { <<x[1], LatchKey(x[2], poll[p].epoch)>> : x \in poll[p].picks }
  <2>1. /\ poll[p].pc = "issue" /\ s \in Sessions /\ poll'[p].pc = "wake"
        /\ \A q \in Polls : q # p => poll'[q] = poll[q]
        /\ issued' = issued \cup { <<s, x[1], LatchKey(x[2], poll[p].epoch)>> : x \in poll[p].picks }
    BY <1>1, StampStep
  <2>2. /\ \A r \in Sessions : r # s => db'.fires[r] = db.fires[r]
        /\ db'.fires[s] = db.fires[s] \cup keys
    BY <1>1, StampStep, StampEffect DEF Typed
  <2>3. IssuedLatched'
    <3> SUFFICES ASSUME NEW k \in issued' PROVE <<k[2], k[3]>> \in db'.fires[k[1]]
      BY DEF IssuedLatched
    <3>1. CASE k \in issued
      BY <2>2, <3>1 DEF LatchInv, IssuedLatched, Typed, IssuedTyped
    <3>2. CASE k \notin issued
      <4>1. PICK x \in poll[p].picks : k = <<s, x[1], LatchKey(x[2], poll[p].epoch)>>
        BY <2>1, <3>2
      <4> QED BY <2>2, <4>1
    <3> QED BY <3>1, <3>2
  <2>4. PicksUnlatched'
    <3> SUFFICES ASSUME NEW q \in Polls, poll'[q].pc = "issue", NEW x \in poll'[q].picks
                 PROVE  ~IsLatched(db', poll'[q].s, x[1], LatchKey(x[2], poll'[q].epoch))
      BY DEF PicksUnlatched
    <3>1. q # p /\ poll'[q] = poll[q]
      BY <2>1
    <3>2. poll[q].s # s /\ poll[q].s \in Sessions
      BY <2>1, <3>1, PollFacts DEF IssuesApart
    <3> QED BY <2>2, <3>1, <3>2 DEF LatchInv, PicksUnlatched, IsLatched
  <2> QED BY <2>3, <2>4 DEF LatchInv
<1>2. CASE \A p \in Polls : ~BuildWake(p)
  <2>1. db'.fires = db.fires /\ issued' = issued
    BY <1>2, WakeFrame, HistoryFrame DEF Quiet, KeepsLatches
  <2>2. IssuedLatched'
    BY <2>1 DEF LatchInv, IssuedLatched
  <2>3. PicksUnlatched'
    <3> SUFFICES ASSUME NEW q \in Polls, poll'[q].pc = "issue", NEW x \in poll'[q].picks
                 PROVE  ~IsLatched(db', poll'[q].s, x[1], LatchKey(x[2], poll'[q].epoch))
      BY DEF PicksUnlatched
    <3>1. CASE SamePoll(q)
      BY <2>1, <3>1 DEF SamePoll, LatchInv, PicksUnlatched, IsLatched
    <3>2. CASE Selected(q)
      BY <3>2, SelectionStep
    <3> QED BY <3>1, <3>2, PollFrame DEF Listed
  <2> QED BY <2>2, <2>3 DEF LatchInv
<1> QED BY <1>1, <1>2

\* Once per pause, once per session for a context threshold: what a poll puts in a
\* wake was never issued under the same latch key, for any forks, triggers and
\* number of polls, through daemon deaths, lost polls and late cancellations
\* (planner.rs select, build_wake).  Two conditions: no close_session forgets the
\* latches, and no two polls of one session are between selection and stamp at
\* once; the overlap run shows what happens without the second.
THEOREM OncePerPause == Spec /\ []NoneClosed /\ []IssuesApart => NoRefire
<1>1. Init => LatchInv
  BY DEF Init, LatchInv, IssuedLatched, PicksUnlatched, FreePoll
<1>2. LatchInv /\ TypeOK /\ WaitInv /\ IssuesApart /\ NoneClosed' /\ [Next]_vars => LatchInv'
  BY NextLatches, TypedIsTypeOK
<1>3. LatchInv =>
        \A p \in Polls : IsIssue(p) => \A x \in poll[p].picks : KeyOf(p, x) \notin issued
  BY DEF LatchInv, IssuedLatched, PicksUnlatched, IsIssue, KeyOf, IsLatched
<1> QED BY <1>1, <1>2, <1>3, DaemonTyped, WaitInvariant, PTL DEF Spec, NoRefire

-----------------------------------------------------------------------------
\* Throttles.

\* Stamps are not of the future; every issued run is covered by the stamp of its
\* fork; what a poll is about to stamp is queued and not throttled.
StampsPast == \A s \in Sessions, f \in Forks : db.roster[s][f] <= now
RunsStamped == \A r \in db.runs : r.at <= db.roster[r.sess][r.fork]
PicksReady ==
    \A q \in Polls : poll[q].pc = "issue" =>
        \A x \in poll[q].picks :
            /\ x[1] \in Forks
            /\ db.roster[poll[q].s][x[1]] # NotQueued
            /\ ~Throttled(db, poll[q].s, x[1], now)
ThrottleInv == StampsPast /\ RunsStamped /\ PicksReady

\* A fork that is not throttled stays so as time passes.
LEMMA ThrottleWearsOff ==
  ASSUME NEW d, NEW e, NEW s, NEW f \in Forks, NEW t \in Time, NEW u \in Time, t <= u,
         d.roster[s][f] \in Int, e.roster[s][f] = d.roster[s][f], ~Throttled(d, s, f, t)
  PROVE  ~Throttled(e, s, f, u)
<1>1. Throttle[f] \in Nat
  BY ForksAssumption
<1> QED BY <1>1 DEF Throttled, Age, Time

LEMMA NextThrottles ==
  ASSUME ThrottleInv, Typed, WaitInv, IssuesApart, NoneClosed', [Next]_vars
  PROVE  ThrottleInv'
<1>0. /\ now \in Nat /\ now' \in Nat /\ now <= now'
      /\ db.roster \in [Sessions -> [Forks -> Int]]
      /\ db.runs \subseteq [sess : Sessions, fork : Forks, trigger : Triggers, at : Time]
  BY HistoryFrame DEF Typed, Time, DbType
<1>1. ASSUME NEW p \in Polls, BuildWake(p) PROVE ThrottleInv'
  <2> DEFINE s == poll[p].s
             D == ForksOf(poll[p].picks)
             new == { [sess |-> s, fork |-> x[1], trigger |-> x[2], at |-> now] : x \in poll[p].picks }
  <2>1. /\ poll[p].pc = "issue" /\ s \in Sessions /\ poll'[p].pc = "wake" /\ now' = now
        /\ \A q \in Polls : q # p => poll'[q] = poll[q]
    BY <1>1, StampStep
  <2>2. /\ \A r \in Sessions : r # s => db'.roster[r] = db.roster[r]
        /\ \A f \in Forks : db'.roster[s][f] = IF f \in D /\ db.roster[s][f] # NotQueued
                                               THEN now ELSE db.roster[s][f]
        /\ db'.runs = db.runs \cup new
    <3>1. /\ poll[p].epoch \in Nat /\ poll[p].picks \in Picks /\ s \in Sessions
          /\ db' = StampWake(db, s, poll[p].epoch, poll[p].picks, now)
      BY <1>1, StampStep
    <3>2. DbType(db) /\ now \in Time
      BY DEF Typed
    <3> HIDE DEF s
    <3> QED BY <3>1, <3>2, StampEffect
  <2>3. StampsPast'
    BY <1>0, <2>1, <2>2 DEF ThrottleInv, StampsPast
  <2>4. RunsStamped'
    <3> SUFFICES ASSUME NEW r \in db'.runs PROVE r.at <= db'.roster[r.sess][r.fork]
      BY DEF RunsStamped
    <3>1. CASE r \in db.runs
      <4>1. /\ r.sess \in Sessions /\ r.fork \in Forks /\ r.at \in Nat
            /\ r.at <= db.roster[r.sess][r.fork] /\ db.roster[r.sess][r.fork] <= now
            /\ db.roster[r.sess][r.fork] \in Int
        BY <1>0, <3>1 DEF ThrottleInv, RunsStamped, StampsPast, Time
      <4> QED BY <1>0, <2>1, <2>2, <4>1
    <3>2. CASE r \notin db.runs
      <4>1. r \in new
        BY <2>2, <3>2
      <4>2. PICK x \in poll[p].picks : r = [sess |-> s, fork |-> x[1], trigger |-> x[2], at |-> now]
        BY <4>1
      <4>3. x[1] \in Forks /\ x[1] \in D /\ db.roster[s][x[1]] # NotQueued
        BY <2>1 DEF ThrottleInv, PicksReady, ForksOf
      <4>4. r.sess = s /\ r.fork = x[1] /\ r.at = now
        BY <4>2
      <4> HIDE DEF D, s
      <4> QED BY <1>0, <2>2, <4>3, <4>4
    <3> QED BY <3>1, <3>2
  <2>5. PicksReady'
    <3> SUFFICES ASSUME NEW q \in Polls, poll'[q].pc = "issue", NEW x \in poll'[q].picks
                 PROVE  /\ x[1] \in Forks
                        /\ db'.roster[poll'[q].s][x[1]] # NotQueued
                        /\ ~Throttled(db', poll'[q].s, x[1], now')
      BY DEF PicksReady
    <3>1. q # p /\ poll'[q] = poll[q]
      BY <2>1
    <3>2. poll[q].s # s /\ poll[q].s \in Sessions
      BY <2>1, <3>1, PollFacts DEF IssuesApart
    <3>3. db'.roster[poll[q].s] = db.roster[poll[q].s]
      BY <2>2, <3>2
    <3> QED BY <2>1, <3>1, <3>3 DEF ThrottleInv, PicksReady, Throttled
  <2> QED BY <2>3, <2>4, <2>5 DEF ThrottleInv
<1>2. CASE \A p \in Polls : ~BuildWake(p)
  <2>1. /\ db'.runs = db.runs
        /\ \A s \in Sessions, f \in Forks :
              \/ db'.roster[s][f] = db.roster[s][f]
              \/ db.roster[s][f] = NotQueued /\ db'.roster[s][f] = Never
    BY <1>2, WakeFrame DEF Quiet, KeepsLatches, KeepsRuns
  <2>2. StampsPast'
    BY <1>0, <2>1 DEF ThrottleInv, StampsPast, NotQueued, Never
  <2>3. RunsStamped'
    BY <1>0, <2>1 DEF ThrottleInv, RunsStamped, NotQueued, Never, Time
  <2>4. PicksReady'
    <3> SUFFICES ASSUME NEW q \in Polls, poll'[q].pc = "issue", NEW x \in poll'[q].picks
                 PROVE  /\ x[1] \in Forks
                        /\ db'.roster[poll'[q].s][x[1]] # NotQueued
                        /\ ~Throttled(db', poll'[q].s, x[1], now')
      BY DEF PicksReady
    <3>1. CASE SamePoll(q)
      <4>1. /\ poll[q].s \in Sessions /\ x[1] \in Forks /\ poll'[q].s = poll[q].s
            /\ db.roster[poll[q].s][x[1]] # NotQueued
            /\ ~Throttled(db, poll[q].s, x[1], now)
        BY <3>1, PollFacts DEF SamePoll, ThrottleInv, PicksReady
      <4>2. /\ db'.roster[poll[q].s][x[1]] = db.roster[poll[q].s][x[1]]
            /\ db.roster[poll[q].s][x[1]] \in Int /\ db.roster[poll[q].s][x[1]] <= now
        BY <1>0, <2>1, <4>1 DEF ThrottleInv, StampsPast
      <4> QED BY <1>0, <4>1, <4>2, ThrottleWearsOff DEF Time
    <3>2. CASE Selected(q)
      <4>1. /\ poll[q].s \in Sessions /\ poll'[q].s = poll[q].s /\ now' = now
            /\ db' = RefreshRoster(db, poll[q].s)
            /\ x[1] \in Forks /\ ~Throttled(db', poll[q].s, x[1], now)
        BY <3>2, SelectionStep
      <4>2. db'.roster[poll[q].s][x[1]] # NotQueued
        BY <1>0, <4>1 DEF RefreshRoster, NotQueued, Never, Typed, DbType
      <4> QED BY <4>1, <4>2
    <3> QED BY <3>1, <3>2, PollFrame DEF Listed
  <2> QED BY <2>2, <2>3, <2>4 DEF ThrottleInv
<1> QED BY <1>1, <1>2

\* A fork's throttle holds between any two of its wakes in a session, for every
\* throttle, whatever polls and restarts lie in between: the run it is measured
\* from is the last one, because every stamp of a run also stamps the roster
\* (planner.rs select, build_wake; store.rs touch_forks_ran).  The conditions are
\* those of OncePerPause.
THEOREM ThrottlesHold == Spec /\ []NoneClosed /\ []IssuesApart => ThrottleRespected
<1>1. Init => ThrottleInv
  BY DEF Init, EmptyDb, NoRoster, NotQueued, ThrottleInv, StampsPast, RunsStamped, PicksReady, FreePoll
<1>2. ThrottleInv /\ TypeOK /\ WaitInv /\ IssuesApart /\ NoneClosed' /\ [Next]_vars => ThrottleInv'
  BY NextThrottles, TypedIsTypeOK
<1>3. ThrottleInv /\ TypeOK =>
        \A p \in Polls : IsIssue(p) =>
            \A x \in poll[p].picks, r \in db.runs :
                r.sess = poll[p].s /\ r.fork = x[1] => Age(now, r.at) >= Throttle[x[1]]
  <2> SUFFICES ASSUME ThrottleInv, TypeOK, NEW p \in Polls, poll[p].pc = "issue",
                      NEW x \in poll[p].picks, NEW r \in db.runs,
                      r.sess = poll[p].s, r.fork = x[1]
               PROVE  Age(now, r.at) >= Throttle[x[1]]
    BY DEF IsIssue
  <2>1. /\ now \in Nat /\ r.at \in Nat /\ db.roster[r.sess][r.fork] \in Int
        /\ r.at <= db.roster[r.sess][r.fork] /\ db.roster[r.sess][r.fork] <= now
    BY DEF TypeOK, DbType, Time, ThrottleInv, RunsStamped, StampsPast
  <2>2. x[1] \in Forks /\ ~Throttled(db, poll[p].s, x[1], now)
    BY DEF ThrottleInv, PicksReady
  <2>3. Throttle[x[1]] \in Nat
    BY <2>2, ForksAssumption
  <2> QED BY <2>1, <2>2, <2>3 DEF Throttled, Age
<1> QED BY <1>1, <1>2, <1>3, DaemonTyped, WaitInvariant, PTL DEF Spec, ThrottleRespected

-----------------------------------------------------------------------------
\* Tag budgets.

\* No two polls of one project are between their selection and their stamps.
ProjectIssuesApart ==
    \A p, q \in Polls :
        /\ poll[p].pc = "issue" /\ poll[q].pc = "issue"
        /\ Project[poll[p].s] = Project[poll[q].s]
        => p = q

\* No issued run is of the future; what a poll is about to stamp is within the
\* budget of its project.
RunsPast == \A r \in db.runs : r.at <= now
PicksInBudget ==
    \A q \in Polls : poll[q].pc = "issue" =>
        \A x \in poll[q].picks : ~TagThrottled(db, poll[q].s, x[1], now)
BudgetInv == RunsPast /\ PicksInBudget

\* A budget that is open stays open as time passes without a run that it counts.
LEMMA BudgetStaysOpen ==
  ASSUME NEW d, NEW e, NEW s, NEW f, NEW t \in Time, NEW u \in Time, t <= u,
         \A r \in d.runs : r.at \in Time,
         \A r \in e.runs : r \in d.runs \/ Project[r.sess] # Project[s],
         ~TagThrottled(d, s, f, t)
  PROVE  ~TagThrottled(e, s, f, u)
<1> SUFFICES ASSUME NEW g \in Tags[f] \cap DOMAIN TagThrottle, NEW r \in e.runs,
                    Project[r.sess] = Project[s], g \in Tags[r.fork]
             PROVE  ~(Age(u, r.at) < TagThrottle[g])
  BY DEF TagThrottled, RanWithin
<1>1. r \in d.runs /\ r.at \in Nat /\ TagThrottle[g] \in Nat
  BY ForksAssumption DEF Time
<1>2. ~(Age(t, r.at) < TagThrottle[g])
  BY <1>1 DEF TagThrottled, RanWithin
<1> QED BY <1>1, <1>2 DEF Age, Time

LEMMA NextBudgets ==
  ASSUME BudgetInv, Typed, WaitInv, ProjectIssuesApart, [Next]_vars
  PROVE  BudgetInv'
<1>0. /\ now \in Time /\ now' \in Time /\ now <= now'
      /\ \A r \in db.runs : r.at \in Time /\ r.at <= now
  BY HistoryFrame DEF Typed, Time, DbType, BudgetInv, RunsPast
<1>1. ASSUME NEW p \in Polls, BuildWake(p) PROVE BudgetInv'
  <2> DEFINE s == poll[p].s
             new == { [sess |-> s, fork |-> x[1], trigger |-> x[2], at |-> now] : x \in poll[p].picks }
  <2>1. /\ poll[p].pc = "issue" /\ poll'[p].pc = "wake" /\ now' = now
        /\ \A q \in Polls : q # p => poll'[q] = poll[q]
    BY <1>1, StampStep
  <2>2. db'.runs = db.runs \cup new
    BY <1>1, StampStep, StampEffect DEF Typed
  <2>3. \A r \in db'.runs : r \in db.runs \/ (r.sess = s /\ r.at = now)
    BY <2>2
  <2>4. RunsPast'
    BY <1>0, <2>1, <2>3 DEF RunsPast, Time
  <2>5. PicksInBudget'
    <3> SUFFICES ASSUME NEW q \in Polls, poll'[q].pc = "issue", NEW x \in poll'[q].picks
                 PROVE  ~TagThrottled(db', poll'[q].s, x[1], now')
      BY DEF PicksInBudget
    <3>1. q # p /\ poll'[q] = poll[q]
      BY <2>1
    <3>2. Project[poll[q].s] # Project[s]
      BY <2>1, <3>1 DEF ProjectIssuesApart
    <3>3. \A r \in db'.runs : r \in db.runs \/ Project[r.sess] # Project[poll[q].s]
      BY <2>3, <3>2
    <3>4. ~TagThrottled(db, poll[q].s, x[1], now)
      BY <3>1 DEF BudgetInv, PicksInBudget
    <3> QED BY <1>0, <3>1, <3>3, <3>4, BudgetStaysOpen
  <2> QED BY <2>4, <2>5 DEF BudgetInv
<1>2. CASE \A p \in Polls : ~BuildWake(p)
  <2>1. db'.runs = db.runs
    BY <1>2, WakeFrame DEF KeepsRuns
  <2>2. RunsPast'
    BY <1>0, <2>1 DEF RunsPast, Time
  <2>3. PicksInBudget'
    <3> SUFFICES ASSUME NEW q \in Polls, poll'[q].pc = "issue", NEW x \in poll'[q].picks
                 PROVE  ~TagThrottled(db', poll'[q].s, x[1], now')
      BY DEF PicksInBudget
    <3>1. CASE SamePoll(q)
      <4>1. poll'[q].s = poll[q].s /\ ~TagThrottled(db, poll[q].s, x[1], now)
        BY <3>1 DEF SamePoll, BudgetInv, PicksInBudget
      <4> QED BY <1>0, <2>1, <4>1, BudgetStaysOpen
    <3>2. CASE Selected(q)
      BY <3>2, SelectionStep
    <3> QED BY <3>1, <3>2, PollFrame DEF Listed
  <2> QED BY <2>2, <2>3 DEF BudgetInv
<1> QED BY <1>1, <1>2

\* A tag's budget is shared by the whole project: any two wakes of forks that carry
\* the tag are its window apart, in whichever sessions, also across closes and
\* daemon restarts, which the issued runs survive (planner.rs select, store.rs
\* last_run_for_tags).  The condition: no two polls of one project are between
\* selection and stamp at once.
THEOREM BudgetsHold == Spec /\ []ProjectIssuesApart => TagBudgetShared
<1>1. Init => BudgetInv
  BY DEF Init, EmptyDb, BudgetInv, RunsPast, PicksInBudget, FreePoll
<1>2. BudgetInv /\ TypeOK /\ WaitInv /\ ProjectIssuesApart /\ [Next]_vars => BudgetInv'
  BY NextBudgets, TypedIsTypeOK
<1>3. BudgetInv /\ TypeOK =>
        \A p \in Polls : IsIssue(p) =>
            \A x \in poll[p].picks, r \in db.runs :
                \A g \in Tags[x[1]] \cap Tags[r.fork] \cap DOMAIN TagThrottle :
                    Project[r.sess] = Project[poll[p].s] => Age(now, r.at) >= TagThrottle[g]
  <2> SUFFICES ASSUME BudgetInv, TypeOK, NEW p \in Polls, poll[p].pc = "issue",
                      NEW x \in poll[p].picks, NEW r \in db.runs,
                      NEW g \in Tags[x[1]] \cap Tags[r.fork] \cap DOMAIN TagThrottle,
                      Project[r.sess] = Project[poll[p].s]
               PROVE  Age(now, r.at) >= TagThrottle[g]
    BY DEF IsIssue
  <2>1. now \in Nat /\ r.at \in Nat /\ TagThrottle[g] \in Nat
    BY ForksAssumption DEF TypeOK, DbType, Time
  <2>2. ~TagThrottled(db, poll[p].s, x[1], now)
    BY DEF BudgetInv, PicksInBudget
  <2>3. ~(Age(now, r.at) < TagThrottle[g])
    BY <2>2 DEF TagThrottled, RanWithin
  <2> QED BY <2>1, <2>3 DEF Age
<1> QED BY <1>1, <1>2, <1>3, DaemonTyped, WaitInvariant, PTL DEF Spec, TagBudgetShared

-----------------------------------------------------------------------------
\* The spawn registry.

\* What the transcript and a notification say of a run is true of it.
UnreadTruthful ==
    \A s \in Sessions :
        /\ \A id \in unread[s].spawned : task[s][id] # "unused"
        /\ \A id \in unread[s].finished : task[s][id] = "done"
NotifiedTruthful ==
    \A s \in Sessions : prompt[s].id # NoId =>
        prompt[s].id \in SpawnIds /\ task[s][prompt[s].id] = "done"
RegistryInv == RegistryTruthful /\ UnreadTruthful /\ NotifiedTruthful

\* A run is spawned and then ends, for good.
TasksAdvance ==
    \A s \in Sessions, id \in SpawnIds :
        \/ task'[s][id] = task[s][id]
        \/ task[s][id] = "unused" /\ task'[s][id] = "running"
        \/ task[s][id] = "running" /\ task'[s][id] = "done"

\* A prompt is another one, of a user or of a hook, or goes on as it is.
SamePrompt(s) ==
    /\ prompt'[s].kind = prompt[s].kind
    /\ prompt'[s].id = prompt[s].id
    /\ prompt'[s].waking = prompt[s].waking
    /\ prompt'[s].pc = "apply" => prompt[s].pc = "apply"
ForeignPrompt(s) == prompt'[s].id = NoId /\ prompt'[s].kind \in {"user", "bare", "foreign"}

\* The steps that leave runs, transcripts and notifications alone.
Elsewhere ==
    /\ task' = task
    /\ \A s \in Sessions :
          /\ unread'[s].spawned = unread[s].spawned
          /\ unread'[s].finished = unread[s].finished
          /\ SamePrompt(s) \/ ForeignPrompt(s)
          /\ \/ db'.spawns[s] = db.spawns[s]
             \/ db'.spawns[s] = NoSpawns /\ db'.sess[s].status = "closed"

LEMMA ForeignPrompts ==
  /\ NoPrompt.id = NoId /\ NoPrompt.kind = "user"
  /\ [NoPrompt EXCEPT !.pc = "end"].id = NoId /\ [NoPrompt EXCEPT !.pc = "end"].kind = "user"
  BY DEF NoPrompt

\* One prompt is replaced; the others stay.
LEMMA OtherPromptsStay ==
  ASSUME PromptsTyped, NEW s \in Sessions, NEW x, prompt' = [prompt EXCEPT ![s] = x]
  PROVE  /\ prompt'[s] = x
         /\ \A r \in Sessions : r # s => SamePrompt(r)
  BY DEF PromptsTyped, SamePrompt

\* Prompts that are neither classified nor a fork's.
LEMMA PromptFrame ==
  ASSUME Typed, WaitInv, [Next]_vars, \A s \in Sessions : ~ClassifyPrompt(s) /\ ~WakeTurn(s),
         \A s \in Sessions, id \in SpawnIds : ~ForkEnds(s, id), NEW r \in Sessions
  PROVE  SamePrompt(r) \/ ForeignPrompt(r)
<1>0. PromptsTyped /\ (prompt' = prompt => SamePrompt(r))
  BY DEF Typed, SamePrompt
<1>1. ASSUME NEW p \in Polls, PollStep(p) \/ ConnStep(p) PROVE prompt' = prompt
  BY <1>1 DEF PollStep, StopArrives, StopRecorded, StopIngests, Register, TakeSnapshot,
              ListReleasable, DeleteReleased, Evaluate, DeadlinePasses, DebounceEnds, Reselect,
              BuildWake, SeesCancel, Deliver, ConnStep, HookDies, NeverSent, LosePoll
<1>2. ASSUME NEW s \in Sessions, PromptStep(s) PROVE SamePrompt(r) \/ ForeignPrompt(r)
  <2>1. CASE CancelPrompt(s) \/ PromptLost(s) \/ EndCloses(s)
    <3>1. prompt' = [prompt EXCEPT ![s] = NoPrompt]
      BY <2>1 DEF CancelPrompt, PromptLost, EndCloses
    <3> QED BY <1>0, <3>1, OtherPromptsStay, ForeignPrompts DEF ForeignPrompt
  <2>2. CASE ApplyPrompt(s) \/ EndCancels(s)
    <3>1. \/ prompt' = [prompt EXCEPT ![s].pc = "cancel"]
          \/ prompt' = [prompt EXCEPT ![s].pc = "close"]
      BY <2>2 DEF ApplyPrompt, EndCancels
    <3> QED BY <1>0, <3>1 DEF PromptsTyped, PromptType, SamePrompt
  <2> QED BY <1>2, <2>1, <2>2 DEF PromptStep
<1>3. ASSUME NEW s \in Sessions, SessionStep(s) PROVE SamePrompt(r) \/ ForeignPrompt(r)
  <2>1. CASE SessionEnd(s)
    <3> DEFINE x == [NoPrompt EXCEPT !.pc = "end"]
    <3>1. prompt' = [prompt EXCEPT ![s] = x]
      BY <2>1 DEF SessionEnd
    <3>2. x.id = NoId /\ x.kind = "user"
      BY ForeignPrompts
    <3> HIDE DEF x
    <3> QED BY <1>0, <3>1, <3>2, OtherPromptsStay DEF ForeignPrompt
  <2>2. CASE UserPrompt(s)
    <3>1. PICK kind \in PromptKinds : BeginTurn(s, kind, NoId)
      BY <2>2 DEF UserPrompt
    <3> DEFINE x == [pc |-> "classify", kind |-> kind, id |-> NoId, waking |-> FALSE, t |-> 0]
    <3>2. prompt' = [prompt EXCEPT ![s] = x]
      BY <3>1 DEF BeginTurn
    <3>3. x.id = NoId /\ x.kind \in {"user", "bare", "foreign"}
      BY DaemonAssumption
    <3> HIDE DEF x
    <3> QED BY <1>0, <3>2, <3>3, OtherPromptsStay DEF ForeignPrompt
  <2>3. CASE SessionStart(s) \/ SessionDies(s) \/ EndTurn(s)
    BY <1>0, <2>3 DEF SessionStart, SessionDies, EndTurn
  <2> QED BY <1>3, <2>1, <2>2, <2>3 DEF SessionStep
<1>4. CASE DaemonStops
  <2>1. prompt' = [s \in Sessions |-> IF prompt[s].pc \in {"classify", "end"} THEN prompt[s] ELSE NoPrompt]
    BY <1>4 DEF DaemonStops
  <2> QED BY <2>1, ForeignPrompts DEF SamePrompt, ForeignPrompt
<1>5. CASE CloserStep \/ ReaperStep \/ Prune \/ DaemonStarts \/ Tick \/ EndOfTime \/ UNCHANGED vars
  BY <1>0, <1>5 DEF CloserStep, GraceEnds, GraceCloses, ReaperStep, ReaperScans, ReaperCloses, Prune,
                    DaemonStarts, Tick, EndOfTime, vars
<1> QED BY <1>0, <1>1, <1>2, <1>3, <1>4, <1>5 DEF Next

\* The transcript's unread part and the runs.
LEMMA TaskFrame ==
  ASSUME Typed, [Next]_vars, \A s \in Sessions : ~ClassifyPrompt(s) /\ ~WakeTurn(s),
         \A s \in Sessions, id \in SpawnIds : ~ForkEnds(s, id), \A p \in Polls : ~StopIngests(p)
  PROVE  /\ task' = task
         /\ \A s \in Sessions : /\ unread'[s].spawned = unread[s].spawned
                                /\ unread'[s].finished = unread[s].finished
<1>1. ASSUME NEW p \in Polls, PollStep(p) \/ ConnStep(p) PROVE task' = task /\ unread' = unread
  BY <1>1 DEF PollStep, StopArrives, StopRecorded, Register, TakeSnapshot,
              ListReleasable, DeleteReleased, Evaluate, DeadlinePasses, DebounceEnds, Reselect,
              BuildWake, SeesCancel, Deliver, ConnStep, HookDies, NeverSent, LosePoll, envVars
<1>2. ASSUME NEW s \in Sessions, PromptStep(s) PROVE task' = task /\ unread' = unread
  BY <1>2 DEF PromptStep, ApplyPrompt, CancelPrompt, PromptLost, EndCancels, EndCloses, envVars
<1>3. ASSUME NEW s \in Sessions, EndTurn(s)
      PROVE  /\ task' = task
             /\ \A r \in Sessions : /\ unread'[r].spawned = unread[r].spawned
                                    /\ unread'[r].finished = unread[r].finished
  <2>1. PICK n : unread' = [unread EXCEPT ![s].tokens = IF n = NoTokens THEN @ ELSE n]
    BY <1>3 DEF EndTurn
  <2>2. task' = task
    BY <1>3 DEF EndTurn
  <2> QED BY <2>1, <2>2 DEF Typed, EnvTyped
<1>4. ASSUME NEW s \in Sessions, SessionStep(s), ~EndTurn(s) PROVE task' = task /\ unread' = unread
  BY <1>4 DEF SessionStep, SessionStart, SessionEnd, SessionDies, UserPrompt
<1>5. CASE CloserStep \/ ReaperStep \/ Prune \/ DaemonStops \/ DaemonStarts \/ Tick \/ EndOfTime
           \/ UNCHANGED vars
  BY <1>5 DEF CloserStep, GraceEnds, GraceCloses, ReaperStep, ReaperScans, ReaperCloses, Prune,
              DaemonStops, DaemonStarts, Tick, EndOfTime, vars, envVars
<1> QED BY <1>1, <1>2, <1>3, <1>4, <1>5 DEF Next

\* Applying a prompt.
LEMMA ApplyEffect ==
  ASSUME Typed, NEW s \in Sessions, ApplyPrompt(s)
  PROVE  /\ db'.spawns = db.spawns
         /\ \A r \in Sessions : db'.sess[r].epoch = db.sess[r].epoch \/ (r = s /\ prompt[s].waking)
<1> DEFINE d == UpsertSession(db, s, prompt[s].t)
           e == BumpPauseEpoch(d, s)
<1>1. prompt[s].t \in Time /\ DbType(db)
  BY DEF Typed, PromptsTyped, PromptType
<1>2. Calm(db, d) /\ DbType(d)
  BY <1>1, UpsertCalm, UpsertTyped
<1>3. db' = IF prompt[s].waking THEN ClearPendingDeps(e, s) ELSE d
  BY DEF ApplyPrompt
<1> HIDE DEF d
<1>4. /\ DbType(e) /\ e.spawns = d.spawns
      /\ \A r \in Sessions : r # s => e.sess[r].epoch = d.sess[r].epoch
  BY <1>2, BumpQuiet, BumpTyped
<1> HIDE DEF e
<1>5. Calm(e, ClearPendingDeps(e, s))
  BY <1>4, ClearCalm
<1> QED BY <1>2, <1>3, <1>4, <1>5 DEF Calm, KeepsEpochs

\* A close forgets the spawns of the sessions it closes.
LEMMA CloseSpawns ==
  ASSUME NEW d, DbType(d), NEW ss, NEW s \in Sessions
  PROVE  \/ CloseSessions(d, ss).spawns[s] = d.spawns[s]
         \/ CloseSessions(d, ss).spawns[s] = NoSpawns /\ CloseSessions(d, ss).sess[s].status = "closed"
  BY DEF DbType, CloseSessions

LEMMA ElsewhereFrame ==
  ASSUME Typed, WaitInv, [Next]_vars, \A s \in Sessions : ~ClassifyPrompt(s) /\ ~WakeTurn(s),
         \A s \in Sessions, id \in SpawnIds : ~ForkEnds(s, id), \A p \in Polls : ~StopIngests(p)
  PROVE  Elsewhere
<1>0. DbType(db)
  BY DEF Typed
<1>1. ASSUME NEW s \in Sessions
      PROVE  \/ db'.spawns[s] = db.spawns[s]
             \/ db'.spawns[s] = NoSpawns /\ db'.sess[s].status = "closed"
  <2>1. CASE Calm(db, db')
    BY <2>1 DEF Calm
  <2>2. ASSUME NEW p \in Polls, BuildWake(p) PROVE db'.spawns = db.spawns
    BY <1>0, <2>2, StampStep, StampEffect DEF Typed
  <2>3. ASSUME NEW ss, db' = CloseSessions(db, ss)
        PROVE  \/ db'.spawns[s] = db.spawns[s]
               \/ db'.spawns[s] = NoSpawns /\ db'.sess[s].status = "closed"
    BY <1>0, <2>3, CloseSpawns
  <2> QED BY <2>1, <2>2, <2>3, ApplyEffect, DbSteps
<1> QED BY <1>1, PromptFrame, TaskFrame DEF Elsewhere

\* What a classified prompt does to the registry.
LEMMA ClassifyEffect ==
  ASSUME Typed, WaitInv, NEW s \in Sessions, ClassifyPrompt(s)
  PROVE  LET notif == prompt[s].kind \in {"notif", "foreign"}
             d == IF notif THEN Ingest(db, s) ELSE db
             matched == prompt[s].id # NoId /\ IsForkSpawn(d, s, prompt[s].id)
         IN
         /\ task' = task
         /\ \A r \in Sessions : r # s => /\ db'.spawns[r] = db.spawns[r]
                                         /\ unread'[r] = unread[r]
                                         /\ SamePrompt(r)
         /\ \A id \in SpawnIds : \/ db'.spawns[s][id] = d.spawns[s][id]
                                 \/ d.spawns[s][id] = Running /\ id = prompt[s].id
                                       /\ db'.spawns[s][id] = now
         /\ unread'[s] = IF notif THEN NothingUnread ELSE unread[s]
         /\ prompt'[s].id = prompt[s].id /\ prompt'[s].kind = prompt[s].kind
         /\ prompt[s].kind = "wake" => ~prompt'[s].waking
         /\ prompt[s].kind = "notif" /\ matched => ~prompt'[s].waking
         /\ KeepsEpochs(db, db')
<1> DEFINE q == prompt[s]
           notif == q.kind \in {"notif", "foreign"}
           d == IF notif THEN Ingest(db, s) ELSE db
           matched == q.id # NoId /\ IsForkSpawn(d, s, q.id)
           waking == CASE q.kind = "user" -> TRUE
                       [] q.kind = "wake" -> FALSE
                       [] OTHER -> ~matched /\ ~RecentlyWoke(s, now)
           r == [q EXCEPT !.pc = "apply", !.t = now, !.waking = waking]
<1>0. DbType(db) /\ PromptsTyped /\ EnvTyped
  BY DEF Typed
<1>1. DbType(d)
  BY <1>0, IngestTyped, TypedIsTypeOK
<1>2. KeepsEpochs(db, d) /\ \A x \in Sessions : x # s => d.spawns[x] = db.spawns[x]
  BY <1>0, IngestEffect, SameIsCalm DEF Calm
<1>3. prompt' = [prompt EXCEPT ![s] = r]
  BY <1>0 DEF ClassifyPrompt, PromptsTyped, PromptType
<1>4. db' = IF matched THEN MarkSpawnsTerminal(d, s, {q.id}, now) ELSE d
  BY DEF ClassifyPrompt
<1>5. task' = task /\ unread' = IF notif THEN [unread EXCEPT ![s] = NothingUnread] ELSE unread
  BY DEF ClassifyPrompt
<1>6. waking \in BOOLEAN /\ (q.kind = "wake" => ~waking) /\ (q.kind = "notif" /\ matched => ~waking)
  OBVIOUS
<1> HIDE DEF waking
<1>7. r.id = q.id /\ r.kind = q.kind /\ (q.kind = "wake" => ~r.waking)
      /\ (q.kind = "notif" /\ matched => ~r.waking)
  BY <1>0, <1>6 DEF PromptsTyped, PromptType
<1> HIDE DEF r
<1>8. prompt'[s] = r /\ \A x \in Sessions : x # s => SamePrompt(x)
  BY <1>0, <1>3, OtherPromptsStay
<1> HIDE DEF d
<1>9. /\ KeepsEpochs(d, MarkSpawnsTerminal(d, s, {q.id}, now))
      /\ \A x \in Sessions : x # s => MarkSpawnsTerminal(d, s, {q.id}, now).spawns[x] = d.spawns[x]
      /\ \A id \in SpawnIds :
            MarkSpawnsTerminal(d, s, {q.id}, now).spawns[s][id] =
              IF id = q.id /\ d.spawns[s][id] = Running THEN now ELSE d.spawns[s][id]
  <2>1. KeepsEpochs(d, MarkSpawnsTerminal(d, s, {q.id}, now))
    BY <1>1, TerminalQuiet
  <2>2. /\ \A x \in Sessions : x # s => MarkSpawnsTerminal(d, s, {q.id}, now).spawns[x] = d.spawns[x]
        /\ \A id \in SpawnIds :
              MarkSpawnsTerminal(d, s, {q.id}, now).spawns[s][id] =
                IF id = q.id /\ d.spawns[s][id] = Running THEN now ELSE d.spawns[s][id]
    <3> DEFINE one == q.id
               t == now
    <3> HIDE DEF one, t
    <3>1. /\ \A x \in Sessions : x # s => MarkSpawnsTerminal(d, s, {one}, t).spawns[x] = d.spawns[x]
          /\ \A id \in SpawnIds :
                MarkSpawnsTerminal(d, s, {one}, t).spawns[s][id] =
                  IF id = one /\ d.spawns[s][id] = Running THEN t ELSE d.spawns[s][id]
      BY <1>1 DEF MarkSpawnsTerminal, DbType
    <3> QED BY <3>1 DEF one, t
  <2> QED BY <2>1, <2>2
<1>10. /\ KeepsEpochs(db, db')
       /\ \A x \in Sessions : x # s => db'.spawns[x] = db.spawns[x]
       /\ \A id \in SpawnIds : \/ db'.spawns[s][id] = d.spawns[s][id]
                               \/ d.spawns[s][id] = Running /\ id = q.id /\ db'.spawns[s][id] = now
  BY <1>2, <1>4, <1>9 DEF KeepsEpochs
<1>11. /\ unread'[s] = IF notif THEN NothingUnread ELSE unread[s]
       /\ \A x \in Sessions : x # s => unread'[x] = unread[x]
  BY <1>0, <1>5 DEF EnvTyped
<1> QED BY <1>5, <1>7, <1>8, <1>10, <1>11 DEF d

\* A wake turn spawns forks, a fork's end notifies its session.
LEMMA WakeTurnEffect ==
  ASSUME Typed, NEW s \in Sessions, WakeTurn(s)
  PROVE  /\ db' = db /\ TasksAdvance
         /\ \A r \in Sessions, id \in SpawnIds :
               task'[r][id] # task[r][id] => r = s /\ id \in unread'[s].spawned
         /\ \A r \in Sessions : unread'[r].finished = unread[r].finished
         /\ \A r \in Sessions : unread[r].spawned \subseteq unread'[r].spawned
         /\ \A r \in Sessions : \A id \in unread'[r].spawned :
               id \in unread[r].spawned \/ (id \in SpawnIds /\ task'[r][id] # "unused")
         /\ \A r \in Sessions : r # s => SamePrompt(r)
         /\ prompt'[s].id = NoId /\ prompt'[s].pc = "classify" /\ prompt'[s].kind = "wake"
<1> DEFINE x == [pc |-> "classify", kind |-> "wake", id |-> NoId, waking |-> FALSE, t |-> 0]
<1>0. PromptsTyped /\ EnvTyped
  BY DEF Typed
<1>1. db' = db /\ prompt' = [prompt EXCEPT ![s] = x]
  BY DEF WakeTurn, BeginTurn
<1>2. x.id = NoId /\ x.pc = "classify" /\ x.kind = "wake"
  OBVIOUS
<1> HIDE DEF x
<1>3. prompt'[s] = x /\ \A r \in Sessions : r # s => SamePrompt(r)
  BY <1>0, <1>1, OtherPromptsStay
<1>4. /\ task' = [task EXCEPT ![s] = [id \in SpawnIds |-> IF id \in NewRuns(s) THEN "running" ELSE @[id]]]
      /\ unread' = [unread EXCEPT ![s].spawned = @ \cup NewRuns(s)]
  BY DEF WakeTurn
<1>5. NewRuns(s) \subseteq SpawnIds /\ \A id \in NewRuns(s) : task[s][id] = "unused"
  BY DEF NewRuns
<1>6. /\ \A r \in Sessions : r # s => task'[r] = task[r] /\ unread'[r] = unread[r]
      /\ \A id \in SpawnIds : task'[s][id] = IF id \in NewRuns(s) THEN "running" ELSE task[s][id]
      /\ unread'[s].spawned = unread[s].spawned \cup NewRuns(s)
      /\ unread'[s].finished = unread[s].finished
  BY <1>0, <1>4 DEF EnvTyped
<1> QED BY <1>1, <1>2, <1>3, <1>5, <1>6 DEF TasksAdvance

LEMMA ForkEndsEffect ==
  ASSUME Typed, NEW s \in Sessions, NEW id \in SpawnIds, ForkEnds(s, id)
  PROVE  /\ db' = db /\ TasksAdvance
         /\ task[s][id] = "running" /\ task'[s][id] = "done"
         /\ \A r \in Sessions, j \in SpawnIds : task'[r][j] # task[r][j] => r = s /\ j = id
         /\ \A r \in Sessions : unread'[r].spawned = unread[r].spawned
         /\ \A r \in Sessions : r # s => unread'[r].finished = unread[r].finished
         /\ unread'[s].finished = unread[s].finished \cup {id}
         /\ \A r \in Sessions : r # s => SamePrompt(r)
         /\ \/ SamePrompt(s)
            \/ prompt'[s].id = id /\ prompt'[s].pc = "classify" /\ prompt'[s].kind = "notif"
<1> DEFINE x == [pc |-> "classify", kind |-> "notif", id |-> id, waking |-> FALSE, t |-> 0]
<1>0. PromptsTyped /\ EnvTyped
  BY DEF Typed
<1>1. db' = db /\ (prompt' = prompt \/ prompt' = [prompt EXCEPT ![s] = x])
  BY DEF ForkEnds, BeginTurn
<1>2. x.id = id /\ x.pc = "classify" /\ x.kind = "notif"
  OBVIOUS
<1> HIDE DEF x
<1>3. \/ \A r \in Sessions : SamePrompt(r)
      \/ prompt'[s] = x /\ \A r \in Sessions : r # s => SamePrompt(r)
  BY <1>0, <1>1, OtherPromptsStay DEF SamePrompt
<1>4. /\ task[s][id] = "running"
      /\ task' = [task EXCEPT ![s][id] = "done"]
      /\ unread' = [unread EXCEPT ![s].finished = @ \cup {id}]
  BY DEF ForkEnds
<1>5. /\ \A r \in Sessions : r # s => task'[r] = task[r] /\ unread'[r] = unread[r]
      /\ \A j \in SpawnIds : task'[s][j] = IF j = id THEN "done" ELSE task[s][j]
      /\ unread'[s].spawned = unread[s].spawned
      /\ unread'[s].finished = unread[s].finished \cup {id}
  BY <1>0, <1>4 DEF EnvTyped
<1> QED BY <1>1, <1>2, <1>3, <1>4, <1>5 DEF TasksAdvance

\* A Stop reads the transcript.
LEMMA StopIngestsEffect ==
  ASSUME Typed, WaitInv, NEW p \in Polls, StopIngests(p)
  PROVE  /\ task' = task
         /\ poll[p].s \in Sessions
         /\ \A r \in Sessions : SamePrompt(r)
         /\ \/ db' = db /\ unread' = unread
            \/ /\ db' = Ingest(db, poll[p].s)
               /\ unread'[poll[p].s] = NothingUnread
               /\ \A r \in Sessions : r # poll[p].s => unread'[r] = unread[r]
<1>1. poll[p].s \in Sessions
  BY PollFacts DEF StopIngests
<1>2. /\ task' = task /\ prompt' = prompt
      /\ \/ db' = db /\ unread' = unread
         \/ db' = Ingest(db, poll[p].s) /\ unread' = [unread EXCEPT ![poll[p].s] = NothingUnread]
  BY DEF StopIngests
<1> QED BY <1>1, <1>2 DEF SamePrompt, Typed, EnvTyped

\* Runs only advance, and none is spawned or ends unnoticed.
LEMMA RunsAdvance ==
  ASSUME Typed, WaitInv, [Next]_vars
  PROVE  TasksAdvance
<1>1. (task' = task) => TasksAdvance
  BY DEF TasksAdvance
<1> QED BY <1>1, ClassifyEffect, WakeTurnEffect, ForkEndsEffect, StopIngestsEffect, ElsewhereFrame
        DEF Elsewhere

\* The registry after the transcript was read.
LEMMA IngestTruthful ==
  ASSUME Typed, WaitInv, RegistryInv, NEW s \in Sessions
  PROVE  /\ \A r \in Sessions : r # s => Ingest(db, s).spawns[r] = db.spawns[r]
         /\ \A id \in SpawnIds :
               /\ Ingest(db, s).spawns[s][id] # NotSeen => task[s][id] # "unused"
               /\ Ingest(db, s).spawns[s][id] >= 0 => task[s][id] = "done"
               /\ id \in unread[s].spawned => Ingest(db, s).spawns[s][id] # NotSeen
               /\ db.spawns[s][id] # NotSeen => Ingest(db, s).spawns[s][id] # NotSeen
<1>1. /\ \A r \in Sessions : r # s => Ingest(db, s).spawns[r] = db.spawns[r]
      /\ \A id \in SpawnIds :
            Ingest(db, s).spawns[s][id] =
              LET seen == IF id \in unread[s].spawned /\ db.spawns[s][id] = NotSeen
                          THEN Running ELSE db.spawns[s][id]
              IN  IF id \in unread[s].finished /\ seen = Running THEN now ELSE seen
  <2>1. /\ \A r \in Sessions : r # s => Ingest(db, s).spawns[r] = db.spawns[r]
        /\ Ingest(db, s).spawns[s] =
             [id \in SpawnIds |->
                LET seen == IF id \in unread[s].spawned /\ db.spawns[s][id] = NotSeen
                            THEN Running ELSE db.spawns[s][id]
                IN  IF id \in unread[s].finished /\ seen = Running THEN now ELSE seen]
    BY IngestEffect, Zenon
  <2> QED BY <2>1
<1>2. now \in Nat /\ \A id \in SpawnIds : db.spawns[s][id] \in Int
  BY DEF Typed, Time, DbType
<1> QED BY <1>1, <1>2 DEF RegistryInv, RegistryTruthful, UnreadTruthful, NotSeen, Running

LEMMA NextRegistry ==
  ASSUME Typed, WaitInv, RegistryInv, [Next]_vars
  PROVE  RegistryInv'
<1>0. TasksAdvance
  BY RunsAdvance
<1>1. ASSUME NEW p \in Polls, StopIngests(p) PROVE RegistryInv'
  <2>1. UnreadTruthful' /\ NotifiedTruthful'
    BY <1>1, StopIngestsEffect DEF RegistryInv, UnreadTruthful, NotifiedTruthful, SamePrompt,
       NothingUnread
  <2>2. RegistryTruthful'
    BY <1>1, StopIngestsEffect, IngestTruthful DEF RegistryInv, RegistryTruthful
  <2> QED BY <2>1, <2>2 DEF RegistryInv
<1>2. ASSUME NEW s \in Sessions, ClassifyPrompt(s) PROVE RegistryInv'
  <2> DEFINE notif == prompt[s].kind \in {"notif", "foreign"}
             d == IF notif THEN Ingest(db, s) ELSE db
  <2>1. /\ task' = task
        /\ \A r \in Sessions : r # s => /\ db'.spawns[r] = db.spawns[r]
                                        /\ unread'[r] = unread[r]
                                        /\ SamePrompt(r)
        /\ unread'[s] = IF notif THEN NothingUnread ELSE unread[s]
        /\ prompt'[s].id = prompt[s].id
        /\ \A id \in SpawnIds : \/ db'.spawns[s][id] = d.spawns[s][id]
                                \/ d.spawns[s][id] = Running /\ id = prompt[s].id
                                      /\ db'.spawns[s][id] = now
    BY <1>2, ClassifyEffect
  <2>2. \A id \in SpawnIds : /\ d.spawns[s][id] # NotSeen => task[s][id] # "unused"
                             /\ d.spawns[s][id] >= 0 => task[s][id] = "done"
    BY IngestTruthful DEF RegistryInv, RegistryTruthful
  <2>3. UnreadTruthful'
    BY <2>1 DEF RegistryInv, UnreadTruthful, NothingUnread
  <2>4. NotifiedTruthful'
    BY <2>1 DEF RegistryInv, NotifiedTruthful, SamePrompt
  <2>5. NoId \notin SpawnIds
    BY DEF NoId, SpawnIds
  <2> HIDE DEF d, notif
  <2>6. RegistryTruthful'
    BY <2>1, <2>2, <2>5 DEF RegistryInv, RegistryTruthful, NotifiedTruthful, Running, NotSeen
  <2> QED BY <2>3, <2>4, <2>6 DEF RegistryInv
<1>3. ASSUME NEW s \in Sessions, WakeTurn(s) PROVE RegistryInv'
  <2>1. RegistryTruthful'
    BY <1>0, <1>3, WakeTurnEffect DEF RegistryInv, RegistryTruthful, TasksAdvance
  <2>2. UnreadTruthful'
    <3>1. \A r \in Sessions : unread[r].spawned \subseteq SpawnIds /\ unread[r].finished \subseteq SpawnIds
      BY DEF Typed, EnvTyped
    <3> QED BY <1>0, <1>3, <3>1, WakeTurnEffect DEF RegistryInv, UnreadTruthful, TasksAdvance
  <2>3. NotifiedTruthful'
    BY <1>0, <1>3, WakeTurnEffect DEF RegistryInv, NotifiedTruthful, TasksAdvance, SamePrompt
  <2> QED BY <2>1, <2>2, <2>3 DEF RegistryInv
<1>4. ASSUME NEW s \in Sessions, NEW id \in SpawnIds, ForkEnds(s, id) PROVE RegistryInv'
  <2>1. RegistryTruthful'
    BY <1>0, <1>4, ForkEndsEffect DEF RegistryInv, RegistryTruthful, TasksAdvance
  <2>2. UnreadTruthful'
    <3>1. \A r \in Sessions : unread[r].spawned \subseteq SpawnIds /\ unread[r].finished \subseteq SpawnIds
      BY DEF Typed, EnvTyped
    <3> QED BY <1>0, <1>4, <3>1, ForkEndsEffect DEF RegistryInv, UnreadTruthful, TasksAdvance
  <2>3. NotifiedTruthful'
    BY <1>0, <1>4, ForkEndsEffect DEF RegistryInv, NotifiedTruthful, TasksAdvance, SamePrompt
  <2> QED BY <2>1, <2>2, <2>3 DEF RegistryInv
<1>5. CASE Elsewhere
  <2>1. RegistryTruthful'
    <3>1. \A id \in SpawnIds : NoSpawns[id] = NotSeen /\ ~(NotSeen >= 0)
      BY DEF NoSpawns, NotSeen
    <3> QED BY <1>5, <3>1 DEF Elsewhere, RegistryInv, RegistryTruthful
  <2>2. UnreadTruthful' /\ NotifiedTruthful'
    BY <1>5 DEF Elsewhere, RegistryInv, UnreadTruthful, NotifiedTruthful, SamePrompt, ForeignPrompt
  <2> QED BY <2>1, <2>2 DEF RegistryInv
<1> QED BY <1>1, <1>2, <1>3, <1>4, <1>5, ElsewhereFrame

LEMMA RegistryInvariant == Spec => []RegistryInv
<1>1. Init => RegistryInv
  BY DEF Init, EmptyDb, NoSpawns, NotSeen, NothingUnread, NoPrompt, RegistryInv, RegistryTruthful,
         UnreadTruthful, NotifiedTruthful
<1>2. RegistryInv /\ TypeOK /\ WaitInv /\ [Next]_vars => RegistryInv'
  BY NextRegistry, TypedIsTypeOK
<1> QED BY <1>1, <1>2, DaemonTyped, WaitInvariant, PTL DEF Spec

\* The spawn registry is true of every session at all times: it never has a run as
\* terminal that is still going, nor a run nobody spawned, whichever of Stops,
\* notifications, closes, reopenings and restarts reads the transcript first
\* (daemon.rs ingest_transcript, store.rs record_spawns, mark_spawns_terminal).
THEOREM RegistryIsTruthful == Spec => []RegistryTruthful
<1>1. RegistryInv => RegistryTruthful
  BY DEF RegistryInv
<1> QED BY <1>1, RegistryInvariant, PTL

-----------------------------------------------------------------------------
\* Whose activity begins a pause.

\* Every spawned run is recorded or still to be read; a notification names a run;
\* a wake turn or a fork's notification is not taken for genuine activity.
SpawnsKnown ==
    \A s \in Sessions, id \in SpawnIds : task[s][id] # "unused" =>
        id \in unread[s].spawned \/ db.spawns[s][id] # NotSeen
NotifsNamed == \A s \in Sessions : prompt[s].kind = "notif" => prompt[s].id # NoId
OwnNotWaking ==
    \A s \in Sessions : prompt[s].pc = "apply" /\ prompt[s].kind \in {"wake", "notif"}
        => ~prompt[s].waking
PauseInv == SpawnsKnown /\ NotifsNamed /\ OwnNotWaking

LEMMA NextPause ==
  ASSUME Typed, WaitInv, RegistryInv, PauseInv, NoneClosed', [Next]_vars
  PROVE  PauseInv'
<1>1. ASSUME NEW p \in Polls, StopIngests(p) PROVE PauseInv'
  <2>1. NotifsNamed' /\ OwnNotWaking'
    BY <1>1, StopIngestsEffect DEF PauseInv, NotifsNamed, OwnNotWaking, SamePrompt
  <2>2. SpawnsKnown'
    BY <1>1, StopIngestsEffect, IngestTruthful DEF PauseInv, SpawnsKnown
  <2> QED BY <2>1, <2>2 DEF PauseInv
<1>2. ASSUME NEW s \in Sessions, ClassifyPrompt(s) PROVE PauseInv'
  <2> DEFINE notif == prompt[s].kind \in {"notif", "foreign"}
             d == IF notif THEN Ingest(db, s) ELSE db
  <2>0. /\ task' = task
        /\ \A r \in Sessions : r # s => /\ db'.spawns[r] = db.spawns[r]
                                        /\ unread'[r] = unread[r]
                                        /\ SamePrompt(r)
        /\ unread'[s] = IF notif THEN NothingUnread ELSE unread[s]
        /\ prompt'[s].id = prompt[s].id /\ prompt'[s].kind = prompt[s].kind
        /\ \A id \in SpawnIds : \/ db'.spawns[s][id] = d.spawns[s][id]
                                \/ d.spawns[s][id] = Running /\ id = prompt[s].id
                                      /\ db'.spawns[s][id] = now
        /\ prompt[s].kind = "wake" => ~prompt'[s].waking
        /\ prompt[s].kind = "notif" /\ prompt[s].id # NoId /\ d.spawns[s][prompt[s].id] # NotSeen
              => ~prompt'[s].waking
    BY <1>2, ClassifyEffect DEF IsForkSpawn
  <2>1. now \in Nat
    BY DEF Typed, Time
  <2>2. \A id \in SpawnIds : task[s][id] # "unused" =>
           d.spawns[s][id] # NotSeen \/ (~notif /\ id \in unread[s].spawned)
    BY IngestTruthful DEF PauseInv, SpawnsKnown
  <2>3. NotifsNamed'
    BY <2>0 DEF PauseInv, NotifsNamed, SamePrompt
  <2>4. OwnNotWaking'
    <3>1. ASSUME prompt[s].kind = "notif" PROVE ~prompt'[s].waking
      <4>1. prompt[s].id # NoId /\ prompt[s].id \in SpawnIds /\ task[s][prompt[s].id] = "done"
        BY <3>1 DEF PauseInv, NotifsNamed, RegistryInv, NotifiedTruthful
      <4>2. d.spawns[s][prompt[s].id] # NotSeen
        BY <2>2, <3>1, <4>1
      <4> QED BY <2>0, <3>1, <4>1, <4>2
    <3> HIDE DEF d, notif
    <3> QED BY <2>0, <3>1 DEF PauseInv, OwnNotWaking, SamePrompt
  <2> HIDE DEF d, notif
  <2>5. SpawnsKnown'
    BY <2>0, <2>1, <2>2 DEF PauseInv, SpawnsKnown, NotSeen
  <2> QED BY <2>3, <2>4, <2>5 DEF PauseInv
<1>3. ASSUME NEW s \in Sessions, WakeTurn(s) PROVE PauseInv'
  <2>1. SpawnsKnown'
    BY <1>3, WakeTurnEffect DEF PauseInv, SpawnsKnown
  <2>2. NotifsNamed' /\ OwnNotWaking'
    BY <1>3, WakeTurnEffect DEF PauseInv, NotifsNamed, OwnNotWaking, SamePrompt
  <2> QED BY <2>1, <2>2 DEF PauseInv
<1>4. ASSUME NEW s \in Sessions, NEW id \in SpawnIds, ForkEnds(s, id) PROVE PauseInv'
  <2>1. SpawnsKnown'
    BY <1>4, ForkEndsEffect DEF PauseInv, SpawnsKnown
  <2>2. NoId \notin SpawnIds
    BY DEF NoId, SpawnIds
  <2>3. NotifsNamed' /\ OwnNotWaking'
    BY <1>4, <2>2, ForkEndsEffect DEF PauseInv, NotifsNamed, OwnNotWaking, SamePrompt
  <2> QED BY <2>1, <2>3 DEF PauseInv
<1>5. CASE Elsewhere
  <2>1. SpawnsKnown'
    BY <1>5 DEF Elsewhere, NoneClosed, PauseInv, SpawnsKnown
  <2>2. NotifsNamed' /\ OwnNotWaking'
    BY <1>5 DEF Elsewhere, PauseInv, NotifsNamed, OwnNotWaking, SamePrompt, ForeignPrompt
  <2> QED BY <2>1, <2>2 DEF PauseInv
<1> QED BY <1>1, <1>2, <1>3, <1>4, <1>5, ElsewhereFrame

\* Only a prompt that is applied as genuine activity begins a pause.
LEMMA EpochFrame ==
  ASSUME Typed, WaitInv, [Next]_vars, NEW s \in Sessions, db'.sess[s].epoch # db.sess[s].epoch
  PROVE  prompt[s].pc = "apply" /\ prompt[s].waking
<1>0. DbType(db)
  BY DEF Typed
<1>1. ~Calm(db, db') /\ ~KeepsEpochs(db, db')
  BY DEF Calm, KeepsEpochs
<1>2. ASSUME NEW p \in Polls, BuildWake(p) PROVE FALSE
  BY <1>0, <1>2, StampStep, StampEffect DEF Typed
<1>3. ASSUME NEW p \in Polls, StopIngests(p) PROVE FALSE
  <2>1. poll[p].s \in Sessions /\ (db' = db \/ db' = Ingest(db, poll[p].s))
    BY <1>3, StopIngestsEffect
  <2>2. KeepsEpochs(db, db) /\ KeepsEpochs(db, Ingest(db, poll[p].s))
    BY <2>1, IngestEffect DEF KeepsEpochs
  <2> QED BY <1>1, <2>1, <2>2
<1>4. ASSUME NEW r \in Sessions, ClassifyPrompt(r) PROVE FALSE
  BY <1>1, <1>4, ClassifyEffect
<1>5. ASSUME NEW ss, db' = CloseSessions(db, ss) PROVE FALSE
  BY <1>0, <1>1, <1>5, CloseEffect
<1>6. PICK r \in Sessions : ApplyPrompt(r)
  BY <1>1, <1>2, <1>3, <1>4, <1>5, DbSteps
<1>7. r = s /\ prompt[s].waking
  BY <1>6, ApplyEffect
<1> QED BY <1>6, <1>7 DEF ApplyPrompt

\* The daemon's own work never ends the pause it was started in: a wake turn and
\* the notification of a finished fork leave the epoch alone, however late the
\* transcript is flushed and whatever the wake grace is, because the transcript is
\* read before the notification is classified (daemon.rs handle_event,
\* is_genuine_activity).  The condition: no close_session forgets the spawns.
THEOREM OwnForksContinuePause == Spec /\ []NoneClosed => OwnForksKeepPause
<1>1. Init => PauseInv
  BY DEF Init, NoPrompt, PauseInv, SpawnsKnown, NotifsNamed, OwnNotWaking
<1>2. PauseInv /\ RegistryInv /\ TypeOK /\ WaitInv /\ NoneClosed' /\ [Next]_vars => PauseInv'
  BY NextPause, TypedIsTypeOK
<1>3. PauseInv /\ TypeOK /\ WaitInv /\ [Next]_vars =>
        \A s \in Sessions : db'.sess[s].epoch # db.sess[s].epoch
            => prompt[s].kind \notin {"wake", "notif"}
  BY EpochFrame, TypedIsTypeOK DEF PauseInv, OwnNotWaking
<1> QED BY <1>1, <1>2, <1>3, RegistryInvariant, DaemonTyped, WaitInvariant, PTL
        DEF Spec, OwnForksKeepPause

-----------------------------------------------------------------------------
\* The order of `after`.

\* No poll releases dependents of a session another poll of which is about to
\* stamp, and so to hold dependents anew.
ReleasesApart ==
    \A p, q \in Polls :
        ~(poll[p].pc = "delete" /\ poll[q].pc = "issue" /\ poll[p].s = poll[q].s)

\* Whatever a dependent about to be released still waits for has finished a run.
ReleasesFollow ==
    \A q \in Polls : poll[q].pc = "delete" =>
        \A f \in ForksOf(poll[q].picks) :
            f \in Forks /\ \A g \in db.pending[poll[q].s][f].preds :
                               \E k \in 1..MaxRuns : task[poll[q].s][<<g, k>>] = "done"

\* What a new list of releasable dependents is known to be.
LEMMA ReleasableDone ==
  ASSUME Typed, RegistryInv, NEW s \in Sessions, NEW f \in Releasable(db, s),
         NEW g \in db.pending[s][f].preds
  PROVE  f \in Forks /\ \E k \in 1..MaxRuns : task[s][<<g, k>>] = "done"
<1>1. f \in Forks /\ ForkCompletedSince(db, s, g, db.pending[s][f].at)
  BY DEF Releasable, Held
<1>2. PICK id \in SpawnIds : id[1] = g /\ db.spawns[s][id] >= 0
  BY <1>1 DEF ForkCompletedSince
<1>3. task[s][id] = "done"
  BY <1>2 DEF RegistryInv, RegistryTruthful
<1>4. id = <<g, id[2]>> /\ id[2] \in 1..MaxRuns
  BY <1>2 DEF SpawnIds
<1> QED BY <1>1, <1>3, <1>4

LEMMA NextReleases ==
  ASSUME Typed, WaitInv, RegistryInv, ReleasesFollow, ReleasesApart, [Next]_vars
  PROVE  ReleasesFollow'
<1> SUFFICES ASSUME NEW q \in Polls, poll'[q].pc = "delete", NEW f \in ForksOf(poll'[q].picks)
             PROVE  f \in Forks /\ \A g \in db'.pending[poll'[q].s][f].preds :
                       \E k \in 1..MaxRuns : task'[poll'[q].s][<<g, k>>] = "done"
  BY DEF ReleasesFollow
<1>0. DbType(db) /\ TasksAdvance
  BY RunsAdvance DEF Typed
<1>1. CASE SamePoll(q)
  <2> DEFINE s == poll[q].s
  <2>1. /\ poll[q].pc = "delete" /\ poll'[q].s = s /\ s \in Sessions /\ f \in Forks
        /\ \A g \in db.pending[s][f].preds : \E k \in 1..MaxRuns : task[s][<<g, k>>] = "done"
    BY <1>1, PollFacts DEF SamePoll, ReleasesFollow
  <2>2. db'.pending[s][f] = db.pending[s][f] \/ db'.pending[s][f].preds = {}
    <3>1. ASSUME NEW p \in Polls, BuildWake(p) PROVE db'.pending[s] = db.pending[s]
      <4>1. poll[p].pc = "issue" /\ poll[p].s # s
        BY <2>1, <3>1, StampStep DEF ReleasesApart
      <4> QED BY <1>0, <2>1, <3>1, <4>1, StampStep, StampEffect DEF Typed
    <3>2. CASE \A p \in Polls : ~BuildWake(p)
      BY <2>1, <3>2, WakeFrame DEF KeepsRuns
    <3> QED BY <3>1, <3>2
  <2>3. \A g \in db.pending[s][f].preds : g \in Forks
    BY <1>0, <2>1 DEF DbType
  <2>4. ASSUME NEW g \in db.pending[s][f].preds
        PROVE  \E k \in 1..MaxRuns : task'[s][<<g, k>>] = "done"
    <3>1. PICK k \in 1..MaxRuns : task[s][<<g, k>>] = "done"
      BY <2>1
    <3>2. <<g, k>> \in SpawnIds
      BY <2>3 DEF SpawnIds
    <3> QED BY <1>0, <2>1, <3>1, <3>2 DEF TasksAdvance
  <2> HIDE DEF s
  <2> QED BY <2>1, <2>2, <2>4
<1>2. CASE Listed(q)
  <2>1. /\ poll'[q].s = poll[q].s /\ db' = db /\ task' = task
        /\ poll'[q].picks = {<<h, NoTrigger>> : h \in Releasable(db, poll[q].s)}
    BY <1>2 DEF Listed, ListReleasable, envVars
  <2>2. poll[q].s \in Sessions
    BY <1>2, PollFacts DEF Listed, ListReleasable
  <2>3. f \in Releasable(db, poll[q].s)
    BY <2>1 DEF ForksOf
  <2>4. f \in Forks
    BY <2>3 DEF Releasable, Held
  <2> QED BY <2>1, <2>2, <2>3, <2>4, ReleasableDone
<1> QED BY <1>1, <1>2, PollFrame DEF Selected

\* A dependent on its way into a wake waits only for forks that have finished a
\* run, at both locks of the release and however often forks are spawned
\* (planner.rs release_due; store.rs fork_completed_since).  The condition: no
\* other poll of the session is between selection and stamp meanwhile, which would
\* hold the dependent anew.
THEOREM ReleasedAfterRun == Spec /\ []ReleasesApart => []ReleasesFollow
<1>1. Init => ReleasesFollow
  BY DEF Init, ReleasesFollow, FreePoll
<1>2. ReleasesFollow /\ RegistryInv /\ TypeOK /\ WaitInv /\ ReleasesApart /\ [Next]_vars => ReleasesFollow'
  BY NextReleases, TypedIsTypeOK
<1> QED BY <1>1, <1>2, RegistryInvariant, DaemonTyped, WaitInvariant, PTL DEF Spec

\* If a fork is spawned at most once in its session, then at that moment none of
\* the forks the dependent waits for is still running either.  The condition is
\* the same.
THEOREM DependentsRunAfter ==
  ASSUME MaxRuns <= 1
  PROVE  Spec /\ []ReleasesApart => DependentsFollow
<1>1. ReleasesFollow =>
        \A p \in Polls : poll[p].pc = "delete" /\ poll'[p].pc = "wake" =>
            LET s == poll[p].s IN
            \A f \in ForksOf(poll[p].picks) : \A g \in db.pending[s][f].preds :
                /\ \E k \in 1..MaxRuns : task[s][<<g, k>>] = "done"
                /\ \A k \in 1..MaxRuns : task[s][<<g, k>>] # "running"
  <2>1. MaxRuns \in Nat
    BY ForksAssumption
  <2>2. \A j, k \in 1..MaxRuns : j = k
    BY <2>1
  <2> QED BY <2>2 DEF ReleasesFollow
<1> QED BY <1>1, ReleasedAfterRun, PTL DEF Spec, DependentsFollow

-----------------------------------------------------------------------------
\* Sessions that last.

\* No session is gone or on its way to a close, and no hook has died.
Lasting ==
    /\ NoneClosed
    /\ \A s \in Sessions : claude[s] # "gone" /\ prompt[s].pc \notin {"end", "close"}
    /\ \A p \in Polls : poll[p].pc # "free" => poll[p].conn
    /\ closers = {} /\ doomed = {}

Connected(q) == poll'[q].pc # "free" => poll'[q].conn

LEMMA OneConnected ==
  ASSUME PollsTyped, Lasting, NEW p \in Polls, NEW x, poll' = [poll EXCEPT ![p] = x],
         x.pc # "free" => x.conn, NEW q \in Polls
  PROVE  Connected(q)
  BY DEF PollsTyped, Lasting, Connected

LEMMA AwaitConnected ==
  ASSUME PollsTyped, Lasting, NEW p \in Polls, NEW x, Await(p, x), x.conn, NEW q \in Polls
  PROVE  Connected(q)
<1>1. FreePoll.pc = "free"
  BY DEF FreePoll
<1> QED BY <1>1, OneConnected DEF Await, Forget

LEMMA AfterDueNowConnected ==
  ASSUME PollsTyped, Lasting, NEW p \in Polls, poll[p].pc # "free", NEW slept, AfterDueNow(p, slept),
         NEW q \in Polls
  PROVE  Connected(q)
<1>0. poll[p] \in PollType /\ poll[p].conn
  BY DEF PollsTyped, Lasting
<1>1. CASE OpenWindow(p)
  <2> DEFINE waiting == [poll[p] EXCEPT !.pc = "debounce", !.timer = now + Debounce]
             chosen == [poll[p] EXCEPT !.pc = "select"]
  <2>1. waiting.conn /\ chosen.conn
    BY <1>0 DEF PollType
  <2>2. Await(p, waiting) \/ poll' = [poll EXCEPT ![p] = chosen]
    BY <1>1 DEF OpenWindow, Step
  <2> HIDE DEF waiting, chosen
  <2> QED BY <2>1, <2>2, AwaitConnected, OneConnected
<1>2. CASE SleepUntilNext(p, slept)
  <2> DEFINE ahead == {d \in Deadlines : d > slept}
             next == CHOOSE d \in ahead : \A e \in ahead : d <= e
             asleep == [poll[p] EXCEPT !.pc = "sleep", !.slept = next]
             parked == [poll[p] EXCEPT !.pc = "park"]
  <2>1. asleep.conn /\ parked.conn
    BY <1>0 DEF PollType
  <2>2. Await(p, parked) \/ Await(p, asleep) \/ poll' = [poll EXCEPT ![p] = asleep]
    BY <1>2 DEF SleepUntilNext
  <2> HIDE DEF asleep, parked
  <2> QED BY <2>1, <2>2, AwaitConnected, OneConnected
<1> QED BY <1>1, <1>2 DEF AfterDueNow

\* Polls stay connected while no hook dies.
LEMMA StaysConnected ==
  ASSUME Typed, WaitInv, Lasting, ~HookDeaths, [Next]_vars, NEW q \in Polls
  PROVE  Connected(q)
<1>0. PollsTyped
  BY DEF Typed
<1>1. ASSUME NEW p \in Polls, PollStep(p) PROVE Connected(q)
  <2>0. poll[p] \in PollType /\ (poll[p].pc # "free" => poll[p].conn)
    BY <1>0 DEF PollsTyped, Lasting
  <2>1. CASE Evaluate(p) \/ DeadlinePasses(p)
    BY <1>0, <2>1, AfterDueNowConnected DEF Evaluate, DeadlinePasses
  <2>2. CASE SeesCancel(p) \/ Deliver(p)
    <3>1. FreePoll.pc = "free"
      BY DEF FreePoll
    <3> QED BY <1>0, <2>2, <3>1, OneConnected DEF SeesCancel, Deliver, Forget
  <2>3. CASE DeleteReleased(p) \/ BuildWake(p)
    <3>1. PICK picks : poll' = [poll EXCEPT ![p].pc = "wake", ![p].picks = picks]
      BY <2>3 DEF DeleteReleased, BuildWake, AnswerWake
    <3>2. poll[p].pc # "free"
      BY <2>3 DEF DeleteReleased, BuildWake
    <3> QED BY <1>0, <2>0, <3>1, <3>2 DEF PollsTyped, PollType, Lasting, Connected
  <2>4. CASE \/ StopArrives(p) \/ StopRecorded(p) \/ StopIngests(p) \/ Register(p)
             \/ TakeSnapshot(p) \/ DebounceEnds(p)
    BY <1>0, <2>0, <2>4 DEF StopArrives, StopRecorded, StopIngests, Register, TakeSnapshot, DebounceEnds,
                            Step, PollsTyped, PollType, Lasting, Connected
  <2>5. CASE ListReleasable(p)
    BY <1>0, <2>0, <2>5 DEF ListReleasable, Step, PollsTyped, PollType, Lasting, Connected
  <2>6. CASE Reselect(p)
    <3> DEFINE parked == [poll[p] EXCEPT !.pc = "park"]
    <3>1. /\ poll[p].pc = "select"
          /\ \/ Await(p, parked)
             \/ \E picks : poll' = [poll EXCEPT ![p].pc = "issue", ![p].picks = picks]
      BY <2>6 DEF Reselect
    <3>2. parked.conn
      BY <2>0, <3>1 DEF PollType
    <3> HIDE DEF parked
    <3>3. CASE Await(p, parked)
      BY <1>0, <3>2, <3>3, AwaitConnected
    <3>4. ASSUME NEW picks, poll' = [poll EXCEPT ![p].pc = "issue", ![p].picks = picks]
          PROVE  Connected(q)
      BY <1>0, <2>0, <3>1, <3>4 DEF PollsTyped, PollType, Lasting, Connected
    <3> QED BY <3>1, <3>3, <3>4
  <2> QED BY <1>1, <2>1, <2>2, <2>3, <2>4, <2>5, <2>6 DEF PollStep
<1>2. ASSUME NEW p \in Polls, ConnStep(p) PROVE FALSE
  <2>1. poll[p].pc # "free" => poll[p].conn /\ claude[poll[p].s] # "gone"
    BY DEF Lasting, WaitInv, Shape
  <2> QED BY <1>2, <2>1 DEF ConnStep, HookDies, NeverSent, LosePoll, Awaiting
<1>3. ASSUME poll' = poll PROVE Connected(q)
  BY <1>3 DEF Connected, Lasting
<1>4. ASSUME NEW s \in Sessions, PromptStep(s) PROVE poll' = poll
  BY <1>4 DEF PromptStep, ClassifyPrompt, ApplyPrompt, CancelPrompt, PromptLost, EndCancels, EndCloses
<1>5. ASSUME NEW s \in Sessions, EndTurn(s) PROVE Connected(q)
  <2>1. PICK p \in Polls :
           poll' = [poll EXCEPT ![p] = [FreePoll EXCEPT !.pc = "sent", !.s = s, !.conn = TRUE]]
    BY <1>5 DEF EndTurn
  <2> DEFINE x == [FreePoll EXCEPT !.pc = "sent", !.s = s, !.conn = TRUE]
  <2>2. x.conn
    BY DEF FreePoll
  <2> HIDE DEF x
  <2>3. poll' = [poll EXCEPT ![p] = x]
    BY <2>1 DEF x
  <2> QED BY <1>0, <2>2, <2>3, OneConnected
<1>6. ASSUME NEW s \in Sessions, SessionStep(s), ~EndTurn(s) PROVE poll' = poll
  BY <1>6 DEF SessionStep, SessionStart, SessionEnd, SessionDies, UserPrompt, WakeTurn, ForkEnds
<1>7. CASE DaemonStops
  <2>1. poll' = [p \in Polls |-> IF poll[p].pc = "sent" THEN poll[p] ELSE FreePoll]
    BY <1>7 DEF DaemonStops
  <2> QED BY <2>1 DEF FreePoll, Lasting, Connected
<1>8. CASE \/ CloserStep \/ ReaperStep \/ Prune \/ DaemonStarts \/ Tick \/ EndOfTime
           \/ UNCHANGED vars
  BY <1>3, <1>8 DEF CloserStep, GraceEnds, GraceCloses, ReaperStep, ReaperScans, ReaperCloses, Prune,
              DaemonStarts, Tick, EndOfTime, vars
<1> QED BY <1>1, <1>2, <1>3, <1>4, <1>5, <1>6, <1>7, <1>8 DEF Next

\* The daemon closes no session of its own accord: one that does not end, whose
\* hooks live and that has no timeout stays open, whatever polls are superseded,
\* cancelled or dropped and however often the daemon dies (daemon.rs on_poll_lost,
\* sweep.rs).  This is the setting in which the conditions above that no session
\* is closed are met.
THEOREM SessionsLast ==
  ASSUME ~SessionsEnd, ~HookDeaths, SessionTimeout = 0, ~Pruning
  PROVE  Spec => []NoneClosed
<1>1. Init => Lasting
  BY DEF Init, EmptyDb, NoPrompt, FreePoll, Lasting, NoneClosed
<1>2. ASSUME Lasting, TypeOK, WaitInv, [Next]_vars PROVE Lasting'
  <2>0. Typed
    BY <1>2, TypedIsTypeOK
  <2>1. \A p \in Polls : poll'[p].pc # "free" => poll'[p].conn
    BY <1>2, <2>0, StaysConnected DEF Connected
  <2>2. ~Closes
    BY <1>2 DEF Closes, Lasting, EndCloses, ReaperCloses, Prune
  <2>3. NoneClosed'
    <3>1. ASSUME NEW p \in Polls, BuildWake(p) PROVE db'.sess = db.sess
      BY <2>0, <1>2, <3>1, StampStep, StampEffect DEF Typed
    <3>2. CASE \A p \in Polls : ~BuildWake(p)
      BY <1>2, <2>0, <2>2, <3>2, WakeFrame DEF Quiet, KeepsOpen, Lasting, NoneClosed
    <3> QED BY <1>2, <3>1, <3>2 DEF Lasting, NoneClosed
  <2>4. ASSUME NEW p \in Polls, ConnStep(p) PROVE FALSE
    <3>1. poll[p].pc # "free" => poll[p].conn /\ claude[poll[p].s] # "gone"
      BY <1>2 DEF Lasting, WaitInv, Shape
    <3> QED BY <2>4, <3>1 DEF ConnStep, HookDies, NeverSent, LosePoll, Awaiting
  <2> DEFINE Mem == closers' = {} /\ doomed' = {}
             Env == \A s \in Sessions : claude'[s] # "gone" /\ prompt'[s].pc \notin {"end", "close"}
  <2>5. ASSUME NEW p \in Polls, PollStep(p) PROVE Mem /\ Env
    <3>1. closers' = closers /\ doomed' = doomed /\ claude' = claude /\ prompt' = prompt
      BY <2>5 DEF PollStep, StopArrives, StopRecorded, StopIngests, Register, TakeSnapshot,
              ListReleasable, DeleteReleased, Evaluate, DeadlinePasses, DebounceEnds, Reselect,
              BuildWake, SeesCancel, Deliver, memVars, envVars
    <3> QED BY <1>2, <3>1 DEF Lasting
  <2>6. ASSUME NEW s \in Sessions, PromptStep(s) PROVE Mem /\ Env
    <3>1. closers' = closers /\ doomed' = doomed /\ claude' = claude
      BY <2>6 DEF PromptStep, ClassifyPrompt, ApplyPrompt, CancelPrompt, PromptLost, EndCancels, EndCloses,
                  memVars, envVars
    <3>2. prompt[s].pc \notin {"end", "close"} /\ prompt \in [Sessions -> PromptType]
      BY <1>2 DEF Lasting, TypeOK
    <3>3. \A r \in Sessions : prompt'[r].pc \notin {"end", "close"}
      <4>1. CASE ClassifyPrompt(s)
        <5>1. \A r \in Sessions : prompt'[r].pc = prompt[r].pc \/ prompt'[r].pc = "apply"
          BY <3>2, <4>1 DEF ClassifyPrompt, PromptType
        <5> QED BY <1>2, <5>1 DEF Lasting
      <4>2. CASE ~ClassifyPrompt(s)
        BY <1>2, <2>6, <3>2, <4>2 DEF PromptStep, ApplyPrompt, CancelPrompt, PromptLost, EndCancels,
                                      EndCloses, NoPrompt, Lasting, PromptType
      <4> QED BY <4>1, <4>2
    <3> QED BY <1>2, <3>1, <3>3 DEF Lasting
  <2>7. ASSUME NEW s \in Sessions, SessionStep(s) PROVE Mem /\ Env
    <3>1. ~SessionEnd(s) /\ ~SessionDies(s)
      BY DEF SessionEnd, SessionDies
    <3>2. closers' = closers /\ doomed' = doomed
      BY <2>7, <3>1 DEF SessionStep, SessionStart, UserPrompt, WakeTurn, EndTurn, ForkEnds, memVars
    <3>3. prompt \in [Sessions -> PromptType] /\ claude \in [Sessions -> {"new", "idle", "busy", "gone"}]
      BY <1>2 DEF TypeOK
    <3>4. ASSUME NEW kind, NEW id, BeginTurn(s, kind, id) PROVE Env
      BY <1>2, <3>3, <3>4 DEF BeginTurn, Lasting
    <3>5. ASSUME SessionStart(s) \/ EndTurn(s) PROVE Env
      BY <1>2, <3>3, <3>5 DEF SessionStart, EndTurn, Lasting
    <3>6. ASSUME NEW id \in SpawnIds, ForkEnds(s, id) PROVE Env
      BY <1>2, <3>4, <3>6 DEF ForkEnds, Lasting
    <3>7. ASSUME UserPrompt(s) \/ WakeTurn(s) PROVE Env
      BY <3>4, <3>7 DEF UserPrompt, WakeTurn
    <3>8. Env
      BY <2>7, <3>1, <3>5, <3>6, <3>7 DEF SessionStep
    <3> QED BY <1>2, <3>2, <3>8 DEF Lasting
  <2>8. ASSUME DaemonStops PROVE Mem /\ Env
    BY <1>2, <2>8 DEF DaemonStops, Lasting, NoPrompt
  <2>9. ASSUME \/ CloserStep \/ ReaperStep \/ Prune \/ DaemonStarts \/ Tick \/ EndOfTime
               \/ UNCHANGED vars
        PROVE  Mem /\ Env
    BY <1>2, <2>9 DEF CloserStep, ReaperStep, ReaperScans, ReaperCloses, TimedOut, Prune,
              DaemonStarts, Tick, EndOfTime, vars, memVars, envVars, Lasting
  <2>10. Mem /\ Env
    BY <1>2, <2>4, <2>5, <2>6, <2>7, <2>8, <2>9 DEF Next
  <2> QED BY <2>1, <2>3, <2>10 DEF Lasting
<1>3. Lasting => NoneClosed
  BY DEF Lasting
<1> QED BY <1>1, <1>2, <1>3, DaemonTyped, WaitInvariant, PTL DEF Spec

-----------------------------------------------------------------------------
\* Parked for good.

\* Every fork has triggers of one kind only: an idle one next to a context one is
\* not served once the context is past its threshold.
OneKind ==
    \A f \in Forks : \A i, j \in DOMAIN RunOn[f] :
        RunOn[f][i][1] = "idle" => RunOn[f][j][1] = "idle"

\* From the moment a fork was found due to the selection that is to wake it.
Deciding == {"debounce", "select"}

\* No poll is about to stamp while another of its project is in between.
WindowsApart ==
    \A p, q \in Polls :
        /\ poll[p].pc \in Deciding
        /\ poll[q].pc = "issue"
        => Project[poll[p].s] # Project[poll[q].s]

\* Fork f would be selected.
Ripe(d, f, s, epoch, moments, t) ==
    LET trigger == MatchMoments(RunOn[f], moments, DefaultIdle)
    IN  /\ TagsAllowed(Tags[f], EnableTags[s], DisableTags[s])
        /\ trigger # NoTrigger
        /\ ~Throttled(d, s, f, t)
        /\ ~TagThrottled(d, s, f, t)
        /\ ~IsLatched(d, s, f, LatchKey(trigger, epoch))

LEMMA SelectsRipe ==
  ASSUME NEW d, NEW s, NEW epoch, NEW moments, NEW t
  PROVE  SelectForks(d, s, epoch, moments, t) # {}
            <=> \E f \in Forks : Ripe(d, f, s, epoch, moments, t)
<1> DEFINE trigger(f) == MatchMoments(RunOn[f], moments, DefaultIdle)
           some == { g \in Forks :
                       /\ TagsAllowed(Tags[g], EnableTags[s], DisableTags[s])
                       /\ trigger(g) # NoTrigger
                       /\ ~Throttled(d, s, g, t)
                       /\ ~TagThrottled(d, s, g, t)
                       /\ ~IsLatched(d, s, g, LatchKey(trigger(g), epoch)) }
<1>1. SelectForks(d, s, epoch, moments, t) = {<<f, trigger(f)>> : f \in some}
  BY Zenon DEF SelectForks
<1>2. \A f \in Forks : f \in some <=> Ripe(d, f, s, epoch, moments, t)
  BY Zenon DEF Ripe
<1>3. \A f \in some : f \in Forks
  OBVIOUS
<1> HIDE DEF some, trigger
<1> QED BY <1>1, <1>2, <1>3

\* What is ripe does not depend on which forks have been queued.
LEMMA RefreshedRipe ==
  ASSUME NEW d, DbType(d), NEW s \in Sessions, NEW f \in Forks, NEW epoch, NEW moments, NEW t
  PROVE  Ripe(RefreshRoster(d, s), f, s, epoch, moments, t) <=> Ripe(d, f, s, epoch, moments, t)
<1> DEFINE e == RefreshRoster(d, s)
<1>1. e.fires = d.fires /\ e.runs = d.runs
  BY DEF RefreshRoster
<1>2. \/ e.roster[s][f] = d.roster[s][f]
      \/ d.roster[s][f] = NotQueued /\ e.roster[s][f] = Never
  BY DEF DbType, RefreshRoster
<1> HIDE DEF e
<1>3. Throttled(e, s, f, t) <=> Throttled(d, s, f, t)
  BY <1>2 DEF Throttled, NotQueued, Never
<1>4. TagThrottled(e, s, f, t) <=> TagThrottled(d, s, f, t)
  BY <1>1, Zenon DEF TagThrottled, RanWithin
<1>5. \A key : IsLatched(e, s, f, key) <=> IsLatched(d, s, f, key)
  BY <1>1 DEF IsLatched
<1>6. Ripe(e, f, s, epoch, moments, t) <=> Ripe(d, f, s, epoch, moments, t)
  BY <1>3, <1>4, <1>5, Zenon DEF Ripe
<1> QED BY <1>6 DEF e

\* A later look at the clock adds idle moments only.
Grown(before, after) ==
    /\ before \subseteq after
    /\ \A m \in after \ before : m[1] = "idle"

LEMMA MomentsGrow ==
  ASSUME NEW tokens, NEW w, NEW base \in Int, NEW t \in Int, NEW u \in Int, t <= u
  PROVE  Grown(ElapsedMoments(tokens, w, base, Deadlines, t),
               ElapsedMoments(tokens, w, base, Deadlines, u))
<1> DEFINE gauge == IF tokens = NoTokens THEN {} ELSE {<<"context", tokens, w>>}
           passed(v) == {<<"idle", d, 0>> : d \in {e \in Deadlines : base + e <= v}}
<1>1. \A v : ElapsedMoments(tokens, w, base, Deadlines, v) = gauge \cup passed(v)
  BY DEF ElapsedMoments
<1>2. passed(t) \subseteq passed(u) /\ \A m \in passed(u) : m[1] = "idle"
  BY DeadlinesTyped
<1> HIDE DEF gauge, passed
<1> QED BY <1>1, <1>2 DEF Grown

\* Nothing hits, or the trigger found is hit.
LEMMA MatchFinds ==
  ASSUME NEW f \in Forks, NEW moments, Rankable(moments)
  PROVE  LET found == MatchMoments(RunOn[f], moments, DefaultIdle)
             hit(m, i) == Hits(m, RunOn[f][i], DefaultIdle)
         IN  \/ found = NoTrigger /\ \A m \in moments, i \in DOMAIN RunOn[f] : ~hit(m, i)
             \/ /\ found # NoTrigger
                /\ \E i \in DOMAIN RunOn[f] : found = RunOn[f][i] /\ \E m \in moments : hit(m, i)
<1> DEFINE hits == { h \in moments \X DOMAIN RunOn[f] : Hits(h[1], RunOn[f][h[2]], DefaultIdle) }
           found == MatchMoments(RunOn[f], moments, DefaultIdle)
<1>1. CASE hits = {}
  <2>1. found = NoTrigger
    BY <1>1 DEF MatchMoments
  <2>2. ASSUME NEW m \in moments, NEW i \in DOMAIN RunOn[f], Hits(m, RunOn[f][i], DefaultIdle)
        PROVE  FALSE
    <3>1. <<m, i>> \in hits
      BY <2>2
    <3> QED BY <1>1, <3>1
  <2> QED BY <2>1, <2>2
<1>2. CASE hits # {}
  <2>1. PICK h \in hits : found = RunOn[f][h[2]]
    BY <1>2, MatchPicks
  <2>2. h[2] \in DOMAIN RunOn[f] /\ h[1] \in moments /\ Hits(h[1], RunOn[f][h[2]], DefaultIdle)
    BY <2>1
  <2>3. RunOn[f][h[2]] \in TriggerKinds \X Int
    BY <2>2, ForksAssumption
  <2>4. found # NoTrigger
    BY <2>1, <2>3 DEF NoTrigger, TriggerKinds
  <2> QED BY <2>1, <2>2, <2>4
<1> QED BY <1>1, <1>2

\* A trigger that is found is found again later, or one with the same latch.
LEMMA MatchStays ==
  ASSUME OneKind, NEW f \in Forks, NEW before, NEW after, Rankable(before), Rankable(after),
         Grown(before, after), MatchMoments(RunOn[f], before, DefaultIdle) # NoTrigger, NEW epoch
  PROVE  LET x == MatchMoments(RunOn[f], before, DefaultIdle)
             y == MatchMoments(RunOn[f], after, DefaultIdle)
         IN  y # NoTrigger /\ LatchKey(x, epoch) = LatchKey(y, epoch)
<1> DEFINE x == MatchMoments(RunOn[f], before, DefaultIdle)
           y == MatchMoments(RunOn[f], after, DefaultIdle)
           hits(moments) == { h \in moments \X DOMAIN RunOn[f] : Hits(h[1], RunOn[f][h[2]], DefaultIdle) }
<1>1. PICK i \in DOMAIN RunOn[f] : x = RunOn[f][i] /\ \E m \in before : Hits(m, RunOn[f][i], DefaultIdle)
  BY MatchFinds
<1>2. PICK m \in before : Hits(m, RunOn[f][i], DefaultIdle)
  BY <1>1
<1>3. m \in after
  BY DEF Grown
<1>4. y # NoTrigger /\ \E j \in DOMAIN RunOn[f] : y = RunOn[f][j]
  BY <1>2, <1>3, MatchFinds
<1>5. CASE RunOn[f][i][1] = "idle"
  <2>1. x[1] = "idle" /\ y[1] = "idle"
    BY <1>1, <1>4, <1>5 DEF OneKind
  <2> QED BY <1>4, <2>1 DEF LatchKey
<1>6. CASE RunOn[f][i][1] # "idle"
  <2>1. \A j \in DOMAIN RunOn[f] : RunOn[f][j][1] # "idle"
    BY <1>6 DEF OneKind
  <2>2. \A k \in after \ before, j \in DOMAIN RunOn[f] : ~Hits(k, RunOn[f][j], DefaultIdle)
    BY <2>1 DEF Grown, Hits
  <2>3. hits(after) = hits(before)
    <3>1. ASSUME NEW k \in after, NEW j \in DOMAIN RunOn[f], Hits(k, RunOn[f][j], DefaultIdle)
          PROVE  k \in before
      BY <2>2, <3>1
    <3>2. before \subseteq after
      BY DEF Grown
    <3> QED BY <3>1, <3>2, Zenon
  <2> DEFINE rank(k) == IF k[1] = "context" THEN 0 ELSE k[2]
             first(h, H) == \A g \in H : \/ rank(h[1]) < rank(g[1])
                                         \/ rank(h[1]) = rank(g[1]) /\ h[2] <= g[2]
             Pick(H) == IF H = {} THEN NoTrigger ELSE RunOn[f][(CHOOSE h \in H : first(h, H))[2]]
  <2>4. x = Pick(hits(before)) /\ y = Pick(hits(after))
    BY Zenon DEF MatchMoments
  <2>5. x = y
    <3> HIDE DEF Pick, hits, x, y
    <3> QED BY <2>3, <2>4
  <2> QED BY <1>4, <2>5
<1> QED BY <1>5, <1>6

\* No latch, no run of its project and no stamp comes in session s's way.
Harmless(d, e, s) ==
    /\ e.fires[s] \subseteq d.fires[s]
    /\ \A r \in e.runs : r \in d.runs \/ Project[r.sess] # Project[s]
    /\ \A f \in Forks : e.roster[s][f] = d.roster[s][f] \/ e.roster[s][f] \in {NotQueued, Never}

LEMMA RipeStays ==
  ASSUME OneKind, NEW d, NEW e, DbType(d), NEW s \in Sessions, Harmless(d, e, s),
         NEW f \in Forks, NEW epoch, NEW t \in Time, NEW u \in Time, t <= u,
         NEW before, NEW after, Rankable(before), Rankable(after), Grown(before, after),
         Ripe(d, f, s, epoch, before, t)
  PROVE  Ripe(e, f, s, epoch, after, u)
<1> DEFINE x == MatchMoments(RunOn[f], before, DefaultIdle)
           y == MatchMoments(RunOn[f], after, DefaultIdle)
<1>1. /\ TagsAllowed(Tags[f], EnableTags[s], DisableTags[s])
      /\ x # NoTrigger
      /\ ~Throttled(d, s, f, t)
      /\ ~TagThrottled(d, s, f, t)
      /\ ~IsLatched(d, s, f, LatchKey(x, epoch))
  BY Zenon DEF Ripe
<1>2. y # NoTrigger /\ LatchKey(x, epoch) = LatchKey(y, epoch)
  BY <1>1, MatchStays
<1> HIDE DEF x, y
<1>3. ~Throttled(e, s, f, u)
  <2>1. d.roster[s][f] \in Int
    BY DEF DbType
  <2>2. CASE e.roster[s][f] = d.roster[s][f]
    BY <1>1, <2>1, <2>2, ThrottleWearsOff
  <2>3. CASE e.roster[s][f] \in {NotQueued, Never}
    BY <2>3 DEF Throttled, NotQueued, Never
  <2> QED BY <2>2, <2>3 DEF Harmless
<1>4. ~TagThrottled(e, s, f, u)
  <2>1. \A r \in d.runs : r.at \in Time
    BY DEF DbType
  <2> QED BY <1>1, <2>1, BudgetStaysOpen DEF Harmless
<1>5. ~IsLatched(e, s, f, LatchKey(y, epoch))
  BY <1>1, <1>2 DEF Harmless, IsLatched
<1> QED BY <1>1, <1>2, <1>3, <1>4, <1>5, Zenon DEF Ripe, x, y

\* A stamp of another project, a close, and everything else a step may do.
LEMMA StepsHarmless ==
  ASSUME Typed, WaitInv, WindowsApart, [Next]_vars, NEW q \in Polls, poll[q].pc \in Deciding,
         NEW s \in Sessions, s = poll[q].s
  PROVE  Harmless(db, db', s)
<1>0. DbType(db) /\ db.roster \in [Sessions -> [Forks -> Int]]
  BY DEF Typed, DbType
<1>1. ASSUME NEW p \in Polls, BuildWake(p) PROVE Harmless(db, db', s)
  <2> DEFINE r == poll[p].s
             new == { [sess |-> r, fork |-> x[1], trigger |-> x[2], at |-> now] : x \in poll[p].picks }
  <2>1. poll[p].pc = "issue" /\ r \in Sessions
    BY <1>1, StampStep
  <2>2. Project[s] # Project[r]
    BY <2>1 DEF WindowsApart
  <2>3. /\ \A v \in Sessions : v # r => db'.fires[v] = db.fires[v] /\ db'.roster[v] = db.roster[v]
        /\ db'.runs = db.runs \cup new
    BY <1>1, StampStep, StampEffect DEF Typed
  <2>4. \A v \in new : v.sess = r
    OBVIOUS
  <2> HIDE DEF r, new
  <2> QED BY <2>2, <2>3, <2>4 DEF Harmless
<1>2. ASSUME NEW ss, db' = CloseSessions(db, ss) PROVE Harmless(db, db', s)
  <2>1. /\ db'.runs = db.runs
        /\ db'.fires[s] = {} \/ db'.fires[s] = db.fires[s]
        /\ db'.roster[s] = NoRoster \/ db'.roster[s] = db.roster[s]
    BY <1>0, <1>2 DEF CloseSessions
  <2> QED BY <2>1 DEF Harmless, NoRoster
<1>3. ASSUME Quiet(db, db') PROVE Harmless(db, db', s)
  <2>1. /\ db'.runs = db.runs /\ db'.fires = db.fires
        /\ \A f \in Forks : db'.roster[s][f] = db.roster[s][f] \/ db'.roster[s][f] = Never
    BY <1>3 DEF Quiet, KeepsRuns, KeepsLatches
  <2> QED BY <2>1 DEF Harmless
<1>4. CASE \A p \in Polls : ~BuildWake(p)
  BY <1>2, <1>3, <1>4, WakeFrame
<1> QED BY <1>1, <1>4

\* How a poll comes to be in between, or parked.  It keeps what it has read.
SameView(q) ==
    /\ poll'[q].s = poll[q].s
    /\ poll'[q].epoch = poll[q].epoch
    /\ poll'[q].base = poll[q].base
    /\ poll'[q].tokens = poll[q].tokens

\* It was there before.
Stays(q) ==
    /\ SameView(q)
    /\ \/ poll'[q].pc = poll[q].pc
       \/ poll[q].pc = "debounce" /\ poll'[q].pc = "select"

\* A fork was found due.
Opens(q) ==
    /\ SameView(q)
    /\ poll[q].pc \in {"eval", "sleep"}
    /\ DueNow(q, PollMoments(poll[q]))
    /\ db' = RefreshRoster(db, poll[q].s)
    /\ now' = now
    /\ poll'[q].pc \in Deciding

\* None was, and no deadline is ahead; or none was left to select.
Parks(q) ==
    /\ poll'[q].pc = "park"
    /\ \/ /\ poll[q].pc \in {"eval", "sleep"}
          /\ ~DueNow(q, PollMoments(poll[q]))
          /\ \A d \in Deadlines : d > 0 => poll[q].base + d <= now
       \/ /\ poll[q].pc = "select"
          /\ SelectForks(RefreshRoster(db, poll[q].s), poll[q].s, poll[q].epoch,
                         PollMoments(poll[q]), now) = {}

LEMMA OneView ==
  ASSUME PollsTyped, NEW p \in Polls, NEW x, poll' = [poll EXCEPT ![p] = x]
  PROVE  /\ poll'[p] = x
         /\ \A q \in Polls : q # p => Stays(q)
  BY DEF PollsTyped, Stays, SameView

LEMMA ForgetView ==
  ASSUME PollsTyped, NEW p \in Polls, Forget(p)
  PROVE  /\ poll'[p].pc = "free"
         /\ \A q \in Polls : q # p => Stays(q)
<1>1. poll' = [poll EXCEPT ![p] = FreePoll]
  BY DEF Forget
<1>2. FreePoll.pc = "free"
  BY DEF FreePoll
<1> QED BY <1>1, <1>2, OneView

\* An await is entered as x, or the poll returns.
LEMMA AwaitView ==
  ASSUME PollsTyped, NEW p \in Polls, NEW x, Await(p, x)
  PROVE  /\ poll'[p].pc = "free" \/ poll'[p] = x
         /\ \A q \in Polls : q # p => Stays(q)
<1>1. CASE p \in cancelled
  BY <1>1, ForgetView DEF Await
<1>2. CASE p \notin cancelled
  BY <1>2, OneView DEF Await
<1> QED BY <1>1, <1>2

LEMMA EvaluationView ==
  ASSUME Typed, WaitInv, NEW p \in Polls, NEW slept \in Nat, AfterDueNow(p, slept), now' = now,
         poll[p].pc \in {"eval", "sleep"}, slept > 0 => poll[p].base + slept <= now
  PROVE  /\ poll'[p].pc \in Deciding => Opens(p)
         /\ poll'[p].pc = "park" => Parks(p)
         /\ \A q \in Polls : q # p => Stays(q)
<1>0. poll[p] \in PollType /\ PollsTyped
  BY DEF Typed, PollsTyped
<1> DEFINE moments == PollMoments(poll[p])
<1>1. CASE DueNow(p, moments) /\ OpenWindow(p)
  <2> DEFINE waiting == [poll[p] EXCEPT !.pc = "debounce", !.timer = now + Debounce]
             chosen == [poll[p] EXCEPT !.pc = "select"]
  <2>1. /\ waiting.s = poll[p].s /\ waiting.epoch = poll[p].epoch
        /\ waiting.base = poll[p].base /\ waiting.tokens = poll[p].tokens
        /\ waiting.pc = "debounce"
        /\ chosen.s = poll[p].s /\ chosen.epoch = poll[p].epoch
        /\ chosen.base = poll[p].base /\ chosen.tokens = poll[p].tokens
        /\ chosen.pc = "select"
    BY <1>0 DEF PollType
  <2>2. Await(p, waiting) \/ poll' = [poll EXCEPT ![p] = chosen]
    BY <1>1 DEF OpenWindow, Step
  <2>3. moments # {} /\ db' = RefreshRoster(db, poll[p].s)
    BY <1>1 DEF DueNow, AfterDueNow
  <2> HIDE DEF waiting, chosen, moments
  <2>4. /\ poll'[p].pc = "free" \/ poll'[p] \in {waiting, chosen}
        /\ \A q \in Polls : q # p => Stays(q)
    BY <1>0, <2>2, AwaitView, OneView
  <2>5. ASSUME poll'[p] \in {waiting, chosen} PROVE Opens(p)
    <3>1. SameView(p) /\ poll'[p].pc \in Deciding
      BY <2>1, <2>5 DEF SameView, Deciding
    <3> QED BY <1>1, <2>3, <3>1 DEF Opens, moments
  <2>6. poll'[p].pc # "park"
    BY <2>1, <2>4
  <2>7. poll'[p].pc \in Deciding => poll'[p] \in {waiting, chosen}
    BY <2>4 DEF Deciding
  <2> QED BY <2>4, <2>5, <2>6, <2>7
<1>2. CASE ~DueNow(p, moments) /\ SleepUntilNext(p, slept)
  <2> DEFINE ahead == {d \in Deadlines : d > slept}
             next == CHOOSE d \in ahead : \A e \in ahead : d <= e
             asleep == [poll[p] EXCEPT !.pc = "sleep", !.slept = next]
             parked == [poll[p] EXCEPT !.pc = "park"]
  <2>1. asleep.pc = "sleep" /\ parked.pc = "park"
    BY <1>0 DEF PollType
  <2>2. \/ ahead = {} /\ Await(p, parked)
        \/ Await(p, asleep) \/ poll' = [poll EXCEPT ![p] = asleep]
    BY <1>2 DEF SleepUntilNext
  <2> HIDE DEF asleep, parked, ahead, moments
  <2>3. CASE Await(p, asleep) \/ poll' = [poll EXCEPT ![p] = asleep]
    <3>1. /\ poll'[p].pc = "free" \/ poll'[p] = asleep
          /\ \A q \in Polls : q # p => Stays(q)
      BY <1>0, <2>3, AwaitView, OneView
    <3> QED BY <2>1, <3>1 DEF Deciding
  <2>4. CASE ahead = {} /\ Await(p, parked)
    <3>1. /\ poll'[p].pc = "free" \/ poll'[p] = parked
          /\ \A q \in Polls : q # p => Stays(q)
      BY <1>0, <2>4, AwaitView
    <3>2. ASSUME NEW d \in Deadlines, d > 0 PROVE poll[p].base + d <= now
      <4>1. d \in Nat /\ poll[p].base \in Nat /\ now \in Nat
        BY <1>0, DeadlinesTyped DEF Typed, PollType, Time
      <4>2. d <= slept
        BY <2>4, <4>1 DEF ahead
      <4> QED BY <3>2, <4>1, <4>2
    <3>3. poll'[p].pc = "park" => Parks(p)
      BY <1>2, <3>2 DEF Parks, moments
    <3> QED BY <2>1, <3>1, <3>3 DEF Deciding
  <2> QED BY <2>2, <2>3, <2>4
<1> QED BY <1>1, <1>2 DEF AfterDueNow

LEMMA ViewFrame ==
  ASSUME Typed, WaitInv, [Next]_vars, NEW q \in Polls, poll'[q].pc \in Deciding \cup {"park"}
  PROVE  Stays(q) \/ Opens(q) \/ Parks(q)
<1>0. PollsTyped
  BY DEF Typed
<1>1. ASSUME NEW p \in Polls, PollStep(p)
      PROVE  Stays(q) \/ Opens(q) \/ Parks(q)
  <2>0. poll[p] \in PollType
    BY <1>0 DEF PollsTyped
  <2>1. CASE Evaluate(p)
    <3>1. poll[p].pc = "eval" /\ AfterDueNow(p, 0) /\ now' = now
      BY <2>1 DEF Evaluate
    <3>2. /\ poll'[p].pc \in Deciding => Opens(p)
          /\ poll'[p].pc = "park" => Parks(p)
          /\ \A r \in Polls : r # p => Stays(r)
      BY <3>1, EvaluationView
    <3> QED BY <3>2
  <2>2. CASE DeadlinePasses(p)
    <3> DEFINE slept == poll[p].slept
    <3>1. /\ poll[p].pc = "sleep" /\ AfterDueNow(p, slept) /\ now' = now
          /\ now >= poll[p].base + slept
      BY <2>2 DEF DeadlinePasses
    <3>2. slept \in Nat /\ poll[p].base \in Nat /\ now \in Nat
      BY <2>0 DEF PollType, Time, Typed
    <3> HIDE DEF slept
    <3>3. /\ poll'[p].pc \in Deciding => Opens(p)
          /\ poll'[p].pc = "park" => Parks(p)
          /\ \A r \in Polls : r # p => Stays(r)
      BY <3>1, <3>2, EvaluationView
    <3> QED BY <3>3
  <2>3. CASE SeesCancel(p) \/ Deliver(p)
    <3>1. poll'[p].pc = "free" /\ \A r \in Polls : r # p => Stays(r)
      BY <1>0, <2>3, ForgetView DEF SeesCancel, Deliver
    <3> QED BY <3>1 DEF Deciding
  <2>4. CASE DeleteReleased(p) \/ BuildWake(p)
    <3>1. PICK picks : AnswerWake(p, picks)
      BY <2>4 DEF DeleteReleased, BuildWake
    <3>2. poll'[p].pc = "wake" /\ \A r \in Polls : r # p => poll'[r] = poll[r]
      BY <1>0, <3>1 DEF AnswerWake, PollsTyped, PollType
    <3> QED BY <3>2 DEF Stays, SameView, Deciding
  <2>5. CASE \/ StopArrives(p) \/ StopRecorded(p) \/ StopIngests(p) \/ Register(p) \/ TakeSnapshot(p)
    <3>1. /\ poll'[p].pc \notin {"debounce", "select", "park"}
          /\ \A r \in Polls : r # p => poll'[r] = poll[r]
      BY <1>0, <2>5 DEF StopArrives, StopRecorded, StopIngests, Register, TakeSnapshot,
                        Step, PollsTyped, PollType
    <3> QED BY <3>1 DEF Stays, SameView, Deciding
  <2>6. CASE ListReleasable(p)
    <3> DEFINE due == {<<f, NoTrigger>> : f \in Releasable(db, poll[p].s)}
    <3>1. \/ poll' = [poll EXCEPT ![p].pc = "delete", ![p].picks = due]
          \/ poll' = [poll EXCEPT ![p].pc = "eval"]
      BY <2>6 DEF ListReleasable, Step
    <3> HIDE DEF due
    <3>2. poll'[p].pc \in {"delete", "eval"} /\ \A r \in Polls : r # p => poll'[r] = poll[r]
      BY <1>0, <3>1 DEF PollsTyped, PollType
    <3> QED BY <3>2 DEF Stays, SameView, Deciding
  <2>7. CASE DebounceEnds(p)
    <3>1. /\ poll[p].pc = "debounce" /\ poll'[p].pc = "select"
          /\ poll'[p].s = poll[p].s /\ poll'[p].epoch = poll[p].epoch
          /\ poll'[p].base = poll[p].base /\ poll'[p].tokens = poll[p].tokens
          /\ \A r \in Polls : r # p => poll'[r] = poll[r]
      BY <1>0, <2>7 DEF DebounceEnds, Step, PollsTyped, PollType
    <3> QED BY <3>1 DEF Stays, SameView
  <2>8. CASE Reselect(p)
    <3> DEFINE picks == SelectForks(RefreshRoster(db, poll[p].s), poll[p].s, poll[p].epoch,
                                    PollMoments(poll[p]), now)
               parked == [poll[p] EXCEPT !.pc = "park"]
    <3>1. /\ poll[p].pc = "select"
          /\ \/ picks = {} /\ Await(p, parked)
             \/ poll' = [poll EXCEPT ![p].pc = "issue", ![p].picks = picks]
      BY <2>8 DEF Reselect
    <3>2. parked.pc = "park"
      BY <2>0 DEF PollType
    <3>3. CASE picks = {} /\ Await(p, parked)
      <4>1. poll'[p].pc = "park" => Parks(p)
        BY <3>1, <3>3 DEF Parks
      <4> HIDE DEF picks, parked
      <4>2. /\ poll'[p].pc = "free" \/ poll'[p] = parked
            /\ \A r \in Polls : r # p => Stays(r)
        BY <1>0, <3>3, AwaitView
      <4> QED BY <3>2, <4>1, <4>2 DEF Deciding
    <3>4. CASE poll' = [poll EXCEPT ![p].pc = "issue", ![p].picks = picks]
      <4> HIDE DEF picks
      <4>1. poll'[p].pc = "issue" /\ \A r \in Polls : r # p => poll'[r] = poll[r]
        BY <1>0, <3>4 DEF PollsTyped, PollType
      <4> QED BY <4>1 DEF Stays, SameView, Deciding
    <3> QED BY <3>1, <3>3, <3>4
  <2> QED BY <1>1, <2>1, <2>2, <2>3, <2>4, <2>5, <2>6, <2>7, <2>8 DEF PollStep
<1>2. ASSUME NEW p \in Polls, ConnStep(p) PROVE Stays(q)
  <2>1. CASE HookDies(p)
    <3>1. poll' = [poll EXCEPT ![p].conn = FALSE]
      BY <2>1 DEF HookDies
    <3> QED BY <1>0, <3>1 DEF PollsTyped, PollType, Stays, SameView
  <2>2. CASE NeverSent(p) \/ LosePoll(p)
    <3>1. poll'[p].pc = "free" /\ \A r \in Polls : r # p => Stays(r)
      BY <1>0, <2>2, ForgetView DEF NeverSent, LosePoll
    <3> QED BY <3>1 DEF Deciding
  <2> QED BY <1>2, <2>1, <2>2 DEF ConnStep
<1>3. ASSUME poll' = poll PROVE Stays(q)
  BY <1>3 DEF Stays, SameView
<1>4. ASSUME NEW s \in Sessions, PromptStep(s) PROVE poll' = poll
  BY <1>4 DEF PromptStep, ClassifyPrompt, ApplyPrompt, CancelPrompt, PromptLost, EndCancels, EndCloses
<1>5. ASSUME NEW s \in Sessions, SessionStep(s) PROVE Stays(q)
  <2>1. CASE EndTurn(s)
    <3> DEFINE x == [FreePoll EXCEPT !.pc = "sent", !.s = s, !.conn = TRUE]
    <3>1. PICK p \in Polls : poll' = [poll EXCEPT ![p] = x]
      BY <2>1 DEF EndTurn
    <3>2. x.pc = "sent"
      BY DEF FreePoll
    <3> HIDE DEF x
    <3>3. poll'[p] = x /\ \A r \in Polls : r # p => Stays(r)
      BY <1>0, <3>1, OneView
    <3> QED BY <3>2, <3>3 DEF Deciding
  <2>2. CASE ~EndTurn(s)
    <3>1. poll' = poll
      BY <1>5, <2>2 DEF SessionStep, SessionStart, SessionEnd, SessionDies, UserPrompt, WakeTurn, ForkEnds
    <3> QED BY <1>3, <3>1
  <2> QED BY <2>1, <2>2
<1>6. CASE DaemonStops
  <2>1. poll' = [p \in Polls |-> IF poll[p].pc = "sent" THEN poll[p] ELSE FreePoll]
    BY <1>6 DEF DaemonStops
  <2> QED BY <2>1 DEF FreePoll, Deciding
<1>7. CASE \/ CloserStep \/ ReaperStep \/ Prune \/ DaemonStarts \/ Tick \/ EndOfTime
           \/ UNCHANGED vars
  <2>1. poll' = poll
    BY <1>7 DEF CloserStep, GraceEnds, GraceCloses, ReaperStep, ReaperScans, ReaperCloses, Prune,
                DaemonStarts, Tick, EndOfTime, vars
  <2> QED BY <1>3, <2>1
<1> QED BY <1>1, <1>2, <1>3, <1>4, <1>5, <1>6, <1>7 DEF Next

\* A poll that was found to have a due fork still has one when it selects: time
\* only adds to what is ripe.
StillRipe ==
    \A q \in Polls : poll[q].pc \in Deciding =>
        \E f \in Forks : Ripe(db, f, poll[q].s, poll[q].epoch, PollMoments(poll[q]), now)

LEMMA NextRipe ==
  ASSUME OneKind, StillRipe, Typed, WaitInv, WindowsApart, Typed', [Next]_vars
  PROVE  StillRipe'
<1> SUFFICES ASSUME NEW q \in Polls, poll'[q].pc \in Deciding
             PROVE  \E f \in Forks : Ripe(db', f, poll'[q].s, poll'[q].epoch, PollMoments(poll[q])', now')
  BY DEF StillRipe
<1> DEFINE s == poll[q].s
           w == ResolveContextWindow(s \in Model1M, poll[q].tokens, Window, Window1M)
           after == ElapsedMoments(poll[q].tokens, w, poll[q].base, Deadlines, now')
<1>0. /\ now \in Time /\ now' \in Time /\ now <= now'
      /\ DbType(db)
  BY HistoryFrame DEF Typed, Time
<1>1. CASE Stays(q)
  <2>1. poll[q].pc \in Deciding
    BY <1>1 DEF Stays, Deciding
  <2>2. s \in Sessions /\ poll[q].base \in Nat
    BY <2>1, PollFacts DEF Deciding
  <2>3. PICK f \in Forks : Ripe(db, f, s, poll[q].epoch, PollMoments(poll[q]), now)
    BY <2>1 DEF StillRipe
  <2>4. PollMoments(poll[q]) = ElapsedMoments(poll[q].tokens, w, poll[q].base, Deadlines, now)
    BY DEF PollMoments
  <2>5. /\ poll'[q].s = s /\ poll'[q].epoch = poll[q].epoch
        /\ PollMoments(poll[q])' = after
    BY <1>1 DEF PollMoments, Stays, SameView
  <2>6. Rankable(PollMoments(poll[q])) /\ Rankable(after)
    BY MomentsRanked, ElapsedRanked
  <2> HIDE DEF w, after
  <2>7. Grown(PollMoments(poll[q]), after)
    BY <1>0, <2>2, <2>4, MomentsGrow DEF after, Time
  <2>8. Harmless(db, db', s)
    BY <2>1, <2>2, StepsHarmless
  <2> HIDE DEF s
  <2>9. Ripe(db', f, s, poll[q].epoch, after, now')
    BY <1>0, <2>2, <2>3, <2>6, <2>7, <2>8, RipeStays
  <2> QED BY <2>5, <2>9
<1>2. CASE Opens(q)
  <2>1. s \in Sessions
    BY <1>2, PollFacts DEF Opens
  <2>2. /\ poll'[q].s = s /\ poll'[q].epoch = poll[q].epoch /\ now' = now
        /\ PollMoments(poll[q])' = PollMoments(poll[q])
        /\ db' = RefreshRoster(db, s)
    BY <1>2 DEF Opens, SameView, PollMoments
  <2>3. SelectForks(db', s, poll[q].epoch, PollMoments(poll[q]), now) # {}
    BY <1>2, <2>2 DEF Opens, DueNow
  <2> QED BY <2>2, <2>3, SelectsRipe
<1> QED BY <1>1, <1>2, ViewFrame DEF Parks, Deciding

\* What a poll leaves behind when it parks.
LEMMA ParkedIsServed ==
  ASSUME OneKind, StillRipe, Typed, WaitInv, [Next]_vars, NEW q \in Polls,
         poll[q].pc # "park", poll'[q].pc = "park",
         NEW f \in Forks, NEW j \in DOMAIN RunOn[f], NEW secs,
         secs = EffectiveSecs(RunOn[f][j], DefaultIdle), RunOn[f][j][1] = "idle", secs > 0,
         NEW s, s = poll[q].s, TagsAllowed(Tags[f], EnableTags[s], DisableTags[s])
  PROVE  /\ poll[q].base + secs <= now
         /\ \/ IsLatched(db, s, f, LatchKey(RunOn[f][j], poll[q].epoch))
            \/ Throttled(db, s, f, now)
            \/ TagThrottled(db, s, f, now)
<1> DEFINE moments == PollMoments(poll[q])
           epoch == poll[q].epoch
<1>0. DbType(db) /\ Rankable(moments)
  BY MomentsRanked DEF Typed
<1>1. Parks(q)
  BY ViewFrame DEF Stays, Opens, Deciding
<1>2. s \in Sessions
  BY <1>1, PollFacts DEF Parks
<1>3. poll[q].pc \in {"eval", "sleep"}
  <2> SUFFICES ASSUME poll[q].pc = "select" PROVE FALSE
    BY <1>1 DEF Parks
  <2>1. SelectForks(RefreshRoster(db, s), s, epoch, moments, now) = {}
    BY <1>1 DEF Parks
  <2>2. PICK g \in Forks : Ripe(db, g, s, epoch, moments, now)
    BY DEF StillRipe, Deciding
  <2> HIDE DEF moments, epoch
  <2>3. Ripe(RefreshRoster(db, s), g, s, epoch, moments, now)
    BY <1>0, <1>2, <2>2, RefreshedRipe
  <2> QED BY <2>1, <2>3, SelectsRipe
<1>4. secs \in Deadlines
  BY DEF Deadlines, IdleDeadlines
<1>5. poll[q].base + secs <= now
  BY <1>1, <1>3, <1>4 DEF Parks
<1>6. <<"idle", secs, 0>> \in moments
  BY <1>4, <1>5 DEF PollMoments, ElapsedMoments
<1>7. Hits(<<"idle", secs, 0>>, RunOn[f][j], DefaultIdle)
  BY DEF Hits
<1>8. SelectForks(RefreshRoster(db, s), s, epoch, moments, now) = {}
  BY <1>1, <1>3, <1>6 DEF Parks, DueNow
<1> DEFINE x == MatchMoments(RunOn[f], moments, DefaultIdle)
<1> HIDE DEF moments, epoch
<1>9. ~Ripe(db, f, s, epoch, moments, now)
  BY <1>0, <1>2, <1>8, SelectsRipe, RefreshedRipe
<1>10. x # NoTrigger /\ \E i \in DOMAIN RunOn[f] : x = RunOn[f][i]
  BY <1>0, <1>6, <1>7, MatchFinds
<1>11. x[1] = "idle"
  BY <1>10 DEF OneKind
<1>12. LatchKey(x, epoch) = LatchKey(RunOn[f][j], epoch)
  BY <1>11 DEF LatchKey
<1>13. \/ IsLatched(db, s, f, LatchKey(x, epoch))
       \/ Throttled(db, s, f, now)
       \/ TagThrottled(db, s, f, now)
  BY <1>9, <1>10, Zenon DEF Ripe
<1> QED BY <1>5, <1>12, <1>13 DEF epoch

\* A poll parks for good only when the pause has been served: the deadline of every
\* idle trigger is past, and its fork has fired, is throttled or out of its tags'
\* budget (handle_stop_wait, Phases A and C).  The invariant is StillRipe: what made
\* the poll stop waiting for deadlines is still due when it selects.  The
\* conditions: forks with triggers of one kind, and no stamp of the same project
\* between the two, which would take that fork's turn.
THEOREM ParkedPausesAreServed ==
  ASSUME OneKind
  PROVE  Spec /\ []WindowsApart => ParkMeansServed
<1>1. Init => StillRipe
  BY DEF Init, StillRipe, FreePoll, Deciding
<1>2. StillRipe /\ TypeOK /\ WaitInv /\ WindowsApart /\ TypeOK' /\ WaitInv' /\ [Next]_vars => StillRipe'
  <2> SUFFICES ASSUME StillRipe, TypeOK, WaitInv, WindowsApart, TypeOK', WaitInv', [Next]_vars
               PROVE  StillRipe'
    OBVIOUS
  <2>1. Typed
    BY TypedIsTypeOK
  <2>2. Typed'
    BY TypedIsTypeOK DEF Typed, TypeOK, MemTyped, PollsTyped, PromptsTyped, EnvTyped, IssuedTyped, WaitInv, Shape
  <2> QED BY <2>1, <2>2, NextRipe
<1>3. StillRipe /\ TypeOK /\ WaitInv /\ [Next]_vars =>
        \A p \in Polls :
            LET s == poll[p].s IN
            poll[p].pc # "park" /\ poll'[p].pc = "park" =>
                \A f \in Forks : \A j \in DOMAIN RunOn[f] :
                    LET secs == EffectiveSecs(RunOn[f][j], DefaultIdle) IN
                    /\ RunOn[f][j][1] = "idle" /\ secs > 0
                    /\ TagsAllowed(Tags[f], EnableTags[s], DisableTags[s])
                    => /\ poll[p].base + secs <= now
                       /\ \/ IsLatched(db, s, f, LatchKey(RunOn[f][j], poll[p].epoch))
                          \/ \E r \in db.runs : r.sess = s /\ r.fork = f /\ r.at >= poll[p].base
                          \/ Throttled(db, s, f, now)
                          \/ TagThrottled(db, s, f, now)
  BY ParkedIsServed, TypedIsTypeOK
<1> QED BY <1>1, <1>2, <1>3, DaemonTyped, WaitInvariant, PTL DEF Spec, ParkMeansServed
=============================================================================
