---------------------------- MODULE DaemonProofs ----------------------------
(***************************************************************************)
(* Proofs about Daemon, for every set of sessions, forks and polls: a      *)
(* session has at most one poll that no cancellation was sent to, which is *)
(* the one the waits map names; the idle clock of a pause never restarts;  *)
(* and every piece of the state keeps its type, which rests on what        *)
(* selection and dependency resolution return.                             *)
(***************************************************************************)
EXTENDS Daemon, DepGraphProofs

-----------------------------------------------------------------------------
\* What the statements of the store do to the pause of a session: its epoch never
\* decreases, and its baseline, once set, moves only with the epoch.

\* What the argument needs of the sessions table.
SessShape(d) ==
    /\ "sess" \in DOMAIN d
    /\ DOMAIN d.sess = Sessions
    /\ \A s \in Sessions : /\ {"epoch", "pauseStart"} \subseteq DOMAIN d.sess[s]
                           /\ d.sess[s].epoch \in Nat

\* From d to e no epoch decreases, and no baseline moves within its pause.
KeepsPause(d, e) ==
    /\ SessShape(e)
    /\ \A s \in Sessions :
          /\ d.sess[s].epoch <= e.sess[s].epoch
          /\ /\ d.sess[s].pauseStart # Unset
             /\ e.sess[s].epoch = d.sess[s].epoch
             => e.sess[s].pauseStart = d.sess[s].pauseStart

\* A database with the same sessions table keeps every pause.
LEMMA SameSessKeeps ==
  ASSUME NEW d, NEW e, SessShape(d), "sess" \in DOMAIN e, e.sess = d.sess
  PROVE  KeepsPause(d, e)
  BY DEF SessShape, KeepsPause

\* Two statements, one after the other, keep the pauses that each keeps.
LEMMA KeepsTransitive ==
  ASSUME NEW d, NEW e, NEW f, SessShape(d), KeepsPause(d, e), KeepsPause(e, f)
  PROVE  KeepsPause(d, f)
<1>1. SessShape(e) /\ SessShape(f)
  BY DEF KeepsPause
<1> SUFFICES ASSUME NEW s \in Sessions
             PROVE  /\ d.sess[s].epoch <= f.sess[s].epoch
                    /\ /\ d.sess[s].pauseStart # Unset
                       /\ f.sess[s].epoch = d.sess[s].epoch
                       => f.sess[s].pauseStart = d.sess[s].pauseStart
  BY <1>1 DEF KeepsPause
<1>2. d.sess[s].epoch \in Nat /\ e.sess[s].epoch \in Nat /\ f.sess[s].epoch \in Nat
  BY <1>1 DEF SessShape
<1>3. d.sess[s].epoch <= e.sess[s].epoch /\ e.sess[s].epoch <= f.sess[s].epoch
  BY DEF KeepsPause
<1>4. ASSUME d.sess[s].pauseStart # Unset, f.sess[s].epoch = d.sess[s].epoch
      PROVE  f.sess[s].pauseStart = d.sess[s].pauseStart
  <2>1. e.sess[s].epoch = d.sess[s].epoch /\ f.sess[s].epoch = e.sess[s].epoch
    BY <1>2, <1>3, <1>4
  <2>2. e.sess[s].pauseStart = d.sess[s].pauseStart
    BY <1>4, <2>1 DEF KeepsPause
  <2> QED BY <1>4, <2>1, <2>2 DEF KeepsPause
<1> QED BY <1>2, <1>3, <1>4

-----------------------------------------------------------------------------
\* The statements on the sessions row.

\* upsert_session leaves the epoch and the baseline of an existing row.
LEMMA UpsertKeeps ==
  ASSUME NEW d, SessShape(d), NEW s, NEW t
  PROVE  KeepsPause(d, UpsertSession(d, s, t))
  BY DEF SessShape, KeepsPause, UpsertSession

\* bump_pause_epoch clears the baseline, but begins a new pause.
LEMMA BumpKeeps ==
  ASSUME NEW d, SessShape(d), NEW s
  PROVE  KeepsPause(d, BumpPauseEpoch(d, s))
  BY DEF SessShape, KeepsPause, BumpPauseEpoch

\* set_pause_started_at_if_unset moves no baseline that is set.
LEMMA SetBaselineKeeps ==
  ASSUME NEW d, SessShape(d), NEW s, NEW t
  PROVE  KeepsPause(d, SetPauseStartedAtIfUnset(d, s, t))
  BY DEF SessShape, KeepsPause, SetPauseStartedAtIfUnset

\* set_transcript_gauge touches the gauge only.
LEMMA GaugeKeeps ==
  ASSUME NEW d, SessShape(d), NEW s, NEW tokens
  PROVE  KeepsPause(d, SetTranscriptGauge(d, s, tokens))
  BY DEF SessShape, KeepsPause, SetTranscriptGauge

\* close_session keeps the row, with its epoch and baseline.
LEMMA CloseKeeps ==
  ASSUME NEW d, SessShape(d), NEW ss
  PROVE  KeepsPause(d, CloseSessions(d, ss))
  BY DEF SessShape, KeepsPause, CloseSessions

-----------------------------------------------------------------------------
\* The statements on the other tables.

\* None of them touches the sessions table.
LEMMA OtherTablesKeep ==
  ASSUME NEW d, SessShape(d), NEW s, NEW x, NEW t
  PROVE  /\ KeepsPause(d, RefreshRoster(d, s))
         /\ KeepsPause(d, TouchForksRan(d, s, x, t))
         /\ KeepsPause(d, LatchFires(d, s, x))
         /\ KeepsPause(d, RecordIssuedRuns(d, s, x, t))
         /\ KeepsPause(d, RecordSpawns(d, s, x))
         /\ KeepsPause(d, MarkSpawnsTerminal(d, s, x, t))
         /\ KeepsPause(d, InsertPendingDeps(d, s, x, t))
         /\ KeepsPause(d, DeletePendingDeps(d, s, x))
         /\ KeepsPause(d, ClearPendingDeps(d, s))
<1>1. KeepsPause(d, RefreshRoster(d, s))
  BY SameSessKeeps DEF SessShape, RefreshRoster
<1>2. KeepsPause(d, TouchForksRan(d, s, x, t))
  BY SameSessKeeps DEF SessShape, TouchForksRan
<1>3. KeepsPause(d, LatchFires(d, s, x))
  BY SameSessKeeps DEF SessShape, LatchFires
<1>4. KeepsPause(d, RecordIssuedRuns(d, s, x, t))
  BY SameSessKeeps DEF SessShape, RecordIssuedRuns
<1>5. KeepsPause(d, RecordSpawns(d, s, x))
  BY SameSessKeeps DEF SessShape, RecordSpawns
<1>6. KeepsPause(d, MarkSpawnsTerminal(d, s, x, t))
  BY SameSessKeeps DEF SessShape, MarkSpawnsTerminal
<1>7. KeepsPause(d, InsertPendingDeps(d, s, x, t))
  BY SameSessKeeps DEF SessShape, InsertPendingDeps
<1>8. KeepsPause(d, DeletePendingDeps(d, s, x))
  BY SameSessKeeps DEF SessShape, DeletePendingDeps
<1>9. KeepsPause(d, ClearPendingDeps(d, s))
  BY SameSessKeeps DEF SessShape, ClearPendingDeps
<1> QED BY <1>1, <1>2, <1>3, <1>4, <1>5, <1>6, <1>7, <1>8, <1>9

-----------------------------------------------------------------------------
\* What the argument needs of the polls and of the waits map, and no more.
Shape ==
    /\ DOMAIN poll = Polls
    /\ \A p \in Polls : {"pc", "s"} \subseteq DOMAIN poll[p]
    /\ \A p \in Polls : poll[p].pc # "free" => poll[p].s \in Sessions
    /\ waits \in [Sessions -> Polls \cup {NoPoll, Dropped}]
    /\ cancelled \subseteq Polls

\* A sender in the map that still has a receiver leads to a poll of its session
\* that was sent nothing; only polls that hold a receiver are sent anything.
SendersMatch ==
    /\ \A s \in Sessions : waits[s] \in Polls =>
          /\ poll[waits[s]].pc \in Registered
          /\ poll[waits[s]].s = s
          /\ waits[s] \notin cancelled
    /\ \A p \in cancelled : poll[p].pc \in Registered

\* The inductive invariant: neither half is inductive without the other, since
\* a registration cancels the poll that the map names.
WaitInv == Shape /\ OneLiveWait /\ SendersMatch

\* An entry that leads nowhere is no poll.
LEMMA NotPolls == NoPoll \notin Polls /\ Dropped \notin Polls
  BY DaemonAssumption DEF NoPoll, Dropped

\* The part of the state the invariant reads.
waitVars == <<poll, waits, cancelled>>

-----------------------------------------------------------------------------
\* How the steps move that part.

\* Poll p goes on without returning: it stays a poll of its session, and
\* neither takes nor gives up its receiver.
Moves(p) ==
    /\ DOMAIN poll' = Polls
    /\ \A q \in Polls : q # p => poll'[q] = poll[q]
    /\ {"pc", "s"} \subseteq DOMAIN poll'[p]
    /\ poll'[p].s = poll[p].s
    /\ poll[p].pc # "free"
    /\ poll'[p].pc \in Registered <=> poll[p].pc \in Registered
    /\ waits' = waits
    /\ cancelled' = cancelled

\* A step that leaves waits, cancelled and the polls alone keeps the invariant.
LEMMA StutterKeeps == WaitInv /\ UNCHANGED waitVars => WaitInv'
  BY DEF WaitInv, Shape, OneLiveWait, SendersMatch, waitVars

\* A poll that goes on keeps the invariant.
LEMMA MovesKeeps ==
  ASSUME WaitInv, NEW p \in Polls, Moves(p)
  PROVE  WaitInv'
<1>1. Shape'
  BY DEF WaitInv, Shape, Moves
<1>2. OneLiveWait'
  BY DEF WaitInv, Shape, OneLiveWait, Moves
<1>3. SendersMatch'
  <2>1. \A q \in Polls : /\ poll'[q].pc \in Registered <=> poll[q].pc \in Registered
                         /\ poll'[q].s = poll[q].s
    BY DEF Moves
  <2>2. ASSUME NEW s \in Sessions, waits[s] \in Polls
        PROVE  /\ waits[s] \in Polls /\ waits[s] \notin cancelled
               /\ poll[waits[s]].pc \in Registered /\ poll[waits[s]].s = s
    BY <2>2 DEF WaitInv, Shape, SendersMatch
  <2>3. \A q \in cancelled : q \in Polls /\ poll[q].pc \in Registered
    BY DEF WaitInv, Shape, SendersMatch
  <2>4. waits' = waits /\ cancelled' = cancelled
    BY DEF Moves
  <2> QED BY <2>1, <2>2, <2>3, <2>4 DEF SendersMatch
<1> QED BY <1>1, <1>2, <1>3 DEF WaitInv

\* A poll that returns is forgotten by the map and by the cancelled set.
LEMMA ForgetKeeps ==
  ASSUME WaitInv, NEW p \in Polls, Forget(p)
  PROVE  WaitInv'
<1>1. \A q \in Polls : poll'[q] = IF q = p THEN FreePoll ELSE poll[q]
  BY DEF WaitInv, Shape, Forget, DropReceiver
<1>2. DOMAIN poll' = Polls
  BY DEF WaitInv, Shape, Forget, DropReceiver
<1>3. {"pc", "s"} \subseteq DOMAIN FreePoll /\ FreePoll.pc = "free"
  BY DEF FreePoll
<1>4. "free" \notin Registered
  BY DEF Registered
<1>5. Shape'
  <2>1. \A q \in Polls : {"pc", "s"} \subseteq DOMAIN poll'[q]
    BY <1>1, <1>3 DEF WaitInv, Shape
  <2>2. \A q \in Polls : poll'[q].pc # "free" => poll'[q].s \in Sessions
    BY <1>1, <1>3 DEF WaitInv, Shape
  <2>3. waits' \in [Sessions -> Polls \cup {NoPoll, Dropped}] /\ cancelled' \subseteq Polls
    BY DEF WaitInv, Shape, Forget, DropReceiver
  <2> QED BY <1>2, <2>1, <2>2, <2>3 DEF Shape
<1>6. OneLiveWait'
  <2> SUFFICES ASSUME NEW q \in Polls, poll'[q].pc \in Registered, q \notin cancelled'
               PROVE  waits'[poll'[q].s] = q
    BY DEF OneLiveWait
  <2>1. q # p /\ poll'[q] = poll[q]
    BY <1>1, <1>3, <1>4
  <2>2. q \notin cancelled
    BY <2>1 DEF Forget, DropReceiver
  <2>3. poll[q].s \in Sessions /\ waits[poll[q].s] = q
    BY <2>1, <2>2, <1>4 DEF WaitInv, Shape, OneLiveWait
  <2> QED BY <2>1, <2>3 DEF Forget, DropReceiver
<1>7. SendersMatch'
  <2>1. ASSUME NEW s \in Sessions, waits'[s] \in Polls
        PROVE  waits'[s] = waits[s] /\ waits[s] \in Polls /\ waits[s] # p
    BY <2>1, NotPolls DEF WaitInv, Shape, Forget, DropReceiver
  <2>2. ASSUME NEW s \in Sessions, waits'[s] \in Polls
        PROVE  /\ poll'[waits'[s]].pc \in Registered
               /\ poll'[waits'[s]].s = s
               /\ waits'[s] \notin cancelled'
    BY <2>1, <2>2, <1>1 DEF WaitInv, SendersMatch, Forget, DropReceiver
  <2>3. \A q \in cancelled' : poll'[q].pc \in Registered
    BY <1>1 DEF WaitInv, Shape, SendersMatch, Forget, DropReceiver
  <2> QED BY <2>2, <2>3 DEF SendersMatch
<1> QED BY <1>5, <1>6, <1>7 DEF WaitInv

\* A poll that answers a wake has given up its receiver, like one that returns.
LEMMA AnswerKeeps ==
  ASSUME WaitInv, NEW p \in Polls, NEW picks, poll[p].pc # "free", AnswerWake(p, picks)
  PROVE  WaitInv'
<1>1. DOMAIN poll' = Polls /\ \A q \in Polls : q # p => poll'[q] = poll[q]
  BY DEF WaitInv, Shape, AnswerWake, DropReceiver
<1>2. {"pc", "s"} \subseteq DOMAIN poll'[p] /\ poll'[p].pc = "wake" /\ poll'[p].s = poll[p].s
  BY DEF WaitInv, Shape, AnswerWake, DropReceiver
<1>3. "wake" \notin Registered
  BY DEF Registered
<1>4. Shape'
  <2>1. waits' \in [Sessions -> Polls \cup {NoPoll, Dropped}] /\ cancelled' \subseteq Polls
    BY DEF WaitInv, Shape, AnswerWake, DropReceiver
  <2> QED BY <1>1, <1>2, <2>1 DEF WaitInv, Shape
<1>5. OneLiveWait'
  <2> SUFFICES ASSUME NEW q \in Polls, poll'[q].pc \in Registered, q \notin cancelled'
               PROVE  waits'[poll'[q].s] = q
    BY DEF OneLiveWait
  <2>1. q # p /\ poll'[q] = poll[q]
    BY <1>1, <1>2, <1>3
  <2>2. q \notin cancelled
    BY <2>1 DEF AnswerWake, DropReceiver
  <2>3. poll[q].s \in Sessions /\ waits[poll[q].s] = q
    BY <2>1, <2>2 DEF WaitInv, Shape, OneLiveWait, Registered
  <2> QED BY <2>1, <2>3 DEF AnswerWake, DropReceiver
<1>6. SendersMatch'
  <2>1. ASSUME NEW s \in Sessions, waits'[s] \in Polls
        PROVE  waits'[s] = waits[s] /\ waits[s] \in Polls /\ waits[s] # p
    BY <2>1, NotPolls DEF WaitInv, Shape, AnswerWake, DropReceiver
  <2>2. ASSUME NEW s \in Sessions, waits'[s] \in Polls
        PROVE  /\ poll'[waits'[s]].pc \in Registered
               /\ poll'[waits'[s]].s = s
               /\ waits'[s] \notin cancelled'
    BY <2>1, <2>2, <1>1 DEF WaitInv, SendersMatch, AnswerWake, DropReceiver
  <2>3. \A q \in cancelled' : poll'[q].pc \in Registered
    BY <1>1 DEF WaitInv, Shape, SendersMatch, AnswerWake, DropReceiver
  <2> QED BY <2>2, <2>3 DEF SendersMatch
<1> QED BY <1>4, <1>5, <1>6 DEF WaitInv

\* Cancelling a session's wait takes its sender out of the map.
LEMMA CancelKeeps ==
  ASSUME WaitInv, NEW s \in Sessions, CancelWait(s), poll' = poll
  PROVE  WaitInv'
<1>1. Shape'
  BY DEF WaitInv, Shape, CancelWait, SendCancel
<1>2. OneLiveWait'
  <2> SUFFICES ASSUME NEW q \in Polls, poll[q].pc \in Registered, q \notin cancelled'
               PROVE  waits'[poll[q].s] = q
    BY DEF OneLiveWait
  <2>1. q \notin cancelled /\ poll[q].s \in Sessions /\ waits[poll[q].s] = q
    BY DEF WaitInv, Shape, OneLiveWait, CancelWait, SendCancel, Registered
  <2>2. q # NoPoll
    BY NotPolls
  <2>3. poll[q].s # s
    BY <2>1, <2>2 DEF CancelWait, SendCancel
  <2> QED BY <2>1, <2>3 DEF CancelWait, SendCancel
<1>3. SendersMatch'
  <2>1. ASSUME NEW r \in Sessions, waits'[r] \in Polls
        PROVE  r # s /\ waits'[r] = waits[r] /\ waits[r] \in Polls
    BY <2>1, NotPolls DEF WaitInv, Shape, CancelWait, SendCancel
  <2>2. ASSUME NEW r \in Sessions, waits'[r] \in Polls
        PROVE  waits'[r] \notin cancelled'
    <3>1. waits[r] \notin cancelled /\ poll[waits[r]].s = r
      BY <2>1, <2>2 DEF WaitInv, SendersMatch
    <3>2. waits[s] \in Polls => poll[waits[s]].s = s
      BY DEF WaitInv, SendersMatch
    <3> QED BY <2>1, <2>2, <3>1, <3>2 DEF CancelWait, SendCancel
  <2>3. \A q \in cancelled' : poll[q].pc \in Registered
    BY DEF WaitInv, SendersMatch, CancelWait, SendCancel
  <2> QED BY <2>1, <2>2, <2>3 DEF WaitInv, SendersMatch
<1> QED BY <1>1, <1>2, <1>3 DEF WaitInv

\* Registering puts the new poll in the place of the one it cancels.
LEMMA RegisterKeeps ==
  ASSUME WaitInv, NEW p \in Polls, Register(p)
  PROVE  WaitInv'
<1> DEFINE s == poll[p].s
<1>1. s \in Sessions /\ poll[p].pc = "register"
  BY DEF WaitInv, Shape, Register
<1>2. DOMAIN poll' = Polls /\ \A q \in Polls : q # p => poll'[q] = poll[q]
  BY DEF WaitInv, Shape, Register, Step
<1>3. {"pc", "s"} \subseteq DOMAIN poll'[p] /\ poll'[p].pc = "snapshot" /\ poll'[p].s = s
  BY DEF WaitInv, Shape, Register, Step
<1>4. waits' = [waits EXCEPT ![s] = p]
  BY DEF Register
<1>5. cancelled' = cancelled \cup ({waits[s]} \cap Polls)
  BY DEF Register, SendCancel
<1>6. "register" \notin Registered /\ "snapshot" \in Registered
  BY DEF Registered
<1>7. waits[s] # p /\ p \notin cancelled
  BY <1>1, <1>6, NotPolls DEF WaitInv, SendersMatch
<1> HIDE DEF s
<1>8. Shape'
  <2>1. waits' \in [Sessions -> Polls \cup {NoPoll, Dropped}] /\ cancelled' \subseteq Polls
    BY <1>1, <1>4, <1>5 DEF WaitInv, Shape
  <2> QED BY <1>1, <1>2, <1>3, <2>1 DEF WaitInv, Shape
<1>9. OneLiveWait'
  <2> SUFFICES ASSUME NEW q \in Polls, poll'[q].pc \in Registered, q \notin cancelled'
               PROVE  waits'[poll'[q].s] = q
    BY DEF OneLiveWait
  <2>1. CASE q = p
    BY <2>1, <1>1, <1>3, <1>4 DEF WaitInv, Shape
  <2>2. CASE q # p
    <3>1. poll'[q] = poll[q] /\ q \notin cancelled /\ q # NoPoll
      BY <2>2, <1>2, <1>5, NotPolls
    <3>2. poll[q].s \in Sessions /\ waits[poll[q].s] = q
      BY <3>1 DEF WaitInv, Shape, OneLiveWait, Registered
    <3>3. poll[q].s # s
      BY <3>1, <3>2, <1>5
    <3> QED BY <3>1, <3>2, <3>3, <1>1, <1>4 DEF WaitInv, Shape
  <2> QED BY <2>1, <2>2
<1>10. SendersMatch'
  <2>1. ASSUME NEW r \in Sessions, waits'[r] \in Polls
        PROVE  /\ poll'[waits'[r]].pc \in Registered
               /\ poll'[waits'[r]].s = r
               /\ waits'[r] \notin cancelled'
    <3>1. CASE r = s
      <4>1. waits'[r] = p
        BY <3>1, <1>1, <1>4 DEF WaitInv, Shape
      <4>2. p \notin cancelled'
        BY <1>5, <1>7
      <4> QED BY <4>1, <4>2, <3>1, <1>3, <1>6
    <3>2. CASE r # s
      <4>1. waits'[r] = waits[r] /\ waits[r] \in Polls /\ waits[r] \in Polls
        BY <2>1, <3>2, <1>1, <1>4 DEF WaitInv, Shape
      <4>2. /\ poll[waits[r]].pc \in Registered
            /\ poll[waits[r]].s = r
            /\ waits[r] \notin cancelled
        BY <4>1 DEF WaitInv, SendersMatch
      <4>3. waits[s] \in Polls => poll[waits[s]].s = s
        BY <1>1 DEF WaitInv, SendersMatch
      <4>4. waits[r] # p
        BY <4>2, <1>1, <1>6
      <4> QED BY <4>1, <4>2, <4>3, <4>4, <3>2, <1>2, <1>5
    <3> QED BY <3>1, <3>2
  <2>2. ASSUME NEW q \in cancelled'
        PROVE  poll'[q].pc \in Registered
    <3>1. q \in Polls /\ q # p
      BY <2>2, <1>1, <1>5, <1>7 DEF WaitInv, Shape
    <3>2. poll[q].pc \in Registered
      BY <2>2, <1>1, <1>5 DEF WaitInv, SendersMatch
    <3> QED BY <3>1, <3>2, <1>2
  <2> QED BY <2>1, <2>2 DEF SendersMatch
<1> QED BY <1>8, <1>9, <1>10 DEF WaitInv

\* An await either keeps the receiver or returns.
LEMMA AwaitKeeps ==
  ASSUME WaitInv, NEW p \in Polls, poll[p].pc \in Registered, NEW q,
         q.s = poll[p].s, q.pc \in Registered, {"pc", "s"} \subseteq DOMAIN q,
         Await(p, q)
  PROVE  WaitInv'
<1>1. CASE p \in cancelled
  BY <1>1, ForgetKeeps DEF Await
<1>2. CASE p \notin cancelled
  <2>1. poll' = [poll EXCEPT ![p] = q] /\ waits' = waits /\ cancelled' = cancelled
    BY <1>2 DEF Await
  <2>2. Moves(p)
    BY <2>1 DEF WaitInv, Shape, Moves, Registered
  <2> QED BY <2>2, MovesKeeps
<1> QED BY <1>1, <1>2

\* So does what follows an evaluation of Phase A.
LEMMA AfterDueNowKeeps ==
  ASSUME WaitInv, NEW p \in Polls, poll[p].pc \in Registered, NEW slept,
         AfterDueNow(p, slept)
  PROVE  WaitInv'
<1>1. {"pc", "s"} \subseteq DOMAIN poll[p] /\ DOMAIN poll = Polls /\ poll[p].pc # "free"
  BY DEF WaitInv, Shape, Registered
<1>2. {"park", "sleep", "debounce", "select"} \subseteq Registered
  BY DEF Registered
<1>3. CASE OpenWindow(p)
  <2> DEFINE q == [poll[p] EXCEPT !.pc = "debounce", !.timer = now + Debounce]
  <2>1. CASE Debounce > 0
    <3>1. Await(p, q)
      BY <1>3, <2>1 DEF OpenWindow
    <3>2. q.s = poll[p].s /\ q.pc = "debounce" /\ {"pc", "s"} \subseteq DOMAIN q
      BY <1>1
    <3> QED BY <3>1, <3>2, <1>2, AwaitKeeps
  <2>2. CASE ~(Debounce > 0)
    <3>1. Moves(p)
      BY <1>1, <1>2, <1>3, <2>2 DEF OpenWindow, Step, Moves
    <3> QED BY <3>1, MovesKeeps
  <2> QED BY <2>1, <2>2
<1>4. CASE SleepUntilNext(p, slept)
  <2> DEFINE ahead == {d \in Deadlines : d > slept}
             next == CHOOSE d \in ahead : \A e \in ahead : d <= e
             asleep == [poll[p] EXCEPT !.pc = "sleep", !.slept = next]
             parked == [poll[p] EXCEPT !.pc = "park"]
  <2>1. asleep.s = poll[p].s /\ asleep.pc = "sleep" /\ {"pc", "s"} \subseteq DOMAIN asleep
    BY <1>1
  <2>2. parked.s = poll[p].s /\ parked.pc = "park" /\ {"pc", "s"} \subseteq DOMAIN parked
    BY <1>1
  <2>3. \/ Await(p, parked)
        \/ Await(p, asleep)
        \/ poll' = [poll EXCEPT ![p] = asleep] /\ UNCHANGED <<waits, cancelled>>
    BY <1>4 DEF SleepUntilNext
  <2> HIDE DEF asleep, parked
  <2>4. CASE poll' = [poll EXCEPT ![p] = asleep] /\ UNCHANGED <<waits, cancelled>>
    <3>1. Moves(p)
      BY <1>1, <1>2, <2>1, <2>4 DEF Moves
    <3> QED BY <3>1, MovesKeeps
  <2> QED BY <2>1, <2>2, <2>3, <2>4, <1>2, AwaitKeeps
<1> QED BY <1>3, <1>4 DEF AfterDueNow

\* The steps of a StopWait task.
LEMMA PollStepKeeps ==
  ASSUME WaitInv, NEW p \in Polls, PollStep(p)
  PROVE  WaitInv'
<1>1. {"pc", "s"} \subseteq DOMAIN poll[p] /\ DOMAIN poll = Polls
  BY DEF WaitInv, Shape
<1>2. CASE StopArrives(p)
  BY <1>1, <1>2, MovesKeeps DEF StopArrives, Moves, Registered
<1>3. CASE StopRecorded(p)
  BY <1>1, <1>3, MovesKeeps DEF StopRecorded, Step, Moves, memVars, Registered
<1>4. CASE StopIngests(p)
  BY <1>1, <1>4, MovesKeeps DEF StopIngests, Moves, memVars, Registered
<1>5. CASE Register(p)
  BY <1>5, RegisterKeeps
<1>6. CASE TakeSnapshot(p)
  BY <1>1, <1>6, MovesKeeps DEF TakeSnapshot, Moves, memVars, Registered
<1>7. CASE ListReleasable(p)
  BY <1>1, <1>7, MovesKeeps DEF ListReleasable, Step, Moves, memVars, Registered
<1>8. CASE DeleteReleased(p)
  BY <1>8, AnswerKeeps DEF DeleteReleased
<1>9. CASE Evaluate(p)
  BY <1>9, AfterDueNowKeeps DEF Evaluate, Registered
<1>10. CASE DeadlinePasses(p)
  BY <1>10, AfterDueNowKeeps DEF DeadlinePasses, Registered
<1>11. CASE DebounceEnds(p)
  BY <1>1, <1>11, MovesKeeps DEF DebounceEnds, Step, Moves, memVars, Registered
<1>12. CASE Reselect(p)
  <2> DEFINE parked == [poll[p] EXCEPT !.pc = "park"]
  <2>1. parked.s = poll[p].s /\ parked.pc \in Registered /\ {"pc", "s"} \subseteq DOMAIN parked
    BY <1>1 DEF Registered
  <2>2. poll[p].pc \in Registered
    BY <1>12 DEF Reselect, Registered
  <2>3. Await(p, parked) \/ Moves(p)
    BY <1>1, <1>12 DEF Reselect, Moves, Registered
  <2> HIDE DEF parked
  <2> QED BY <2>1, <2>2, <2>3, AwaitKeeps, MovesKeeps
<1>13. CASE BuildWake(p)
  BY <1>13, AnswerKeeps DEF BuildWake
<1>14. CASE SeesCancel(p)
  BY <1>14, ForgetKeeps DEF SeesCancel
<1>15. CASE Deliver(p)
  BY <1>15, ForgetKeeps DEF Deliver
<1> QED BY <1>2, <1>3, <1>4, <1>5, <1>6, <1>7, <1>8, <1>9, <1>10, <1>11, <1>12, <1>13,
           <1>14, <1>15 DEF PollStep

\* Lost connections.
LEMMA ConnStepKeeps ==
  ASSUME WaitInv, NEW p \in Polls, ConnStep(p)
  PROVE  WaitInv'
<1>1. CASE HookDies(p)
  BY <1>1, MovesKeeps DEF HookDies, Moves, memVars, WaitInv, Shape
<1>2. CASE NeverSent(p)
  BY <1>2, ForgetKeeps DEF NeverSent
<1>3. CASE LosePoll(p)
  BY <1>3, ForgetKeeps DEF LosePoll
<1> QED BY <1>1, <1>2, <1>3 DEF ConnStep

\* PromptSubmit and SessionEnd.
LEMMA PromptStepKeeps ==
  ASSUME WaitInv, NEW s \in Sessions, PromptStep(s)
  PROVE  WaitInv'
<1>1. CASE CancelPrompt(s)
  BY <1>1, CancelKeeps DEF CancelPrompt
<1>2. CASE EndCancels(s)
  BY <1>2, CancelKeeps DEF EndCancels
<1>3. CASE ClassifyPrompt(s) \/ ApplyPrompt(s) \/ PromptLost(s) \/ EndCloses(s)
  <2>1. UNCHANGED waitVars
    BY <1>3 DEF ClassifyPrompt, ApplyPrompt, PromptLost, EndCloses, waitVars, memVars
  <2> QED BY <2>1, StutterKeeps
<1> QED BY <1>1, <1>2, <1>3 DEF PromptStep

\* A session's turn ends: its Stop takes a poll that is free.
LEMMA EndTurnKeeps ==
  ASSUME WaitInv, NEW s \in Sessions, EndTurn(s)
  PROVE  WaitInv'
<1>1. PICK p \in Polls :
         /\ poll[p].pc = "free"
         /\ poll' = [poll EXCEPT ![p] = [FreePoll EXCEPT !.pc = "sent", !.s = s, !.conn = TRUE]]
  BY DEF EndTurn
<1>2. waits' = waits /\ cancelled' = cancelled
  BY DEF EndTurn, memVars
<1> DEFINE q == [FreePoll EXCEPT !.pc = "sent", !.s = s, !.conn = TRUE]
<1>3. q.pc = "sent" /\ q.s = s /\ {"pc", "s"} \subseteq DOMAIN q
  BY DEF FreePoll
<1> HIDE DEF q
<1>4. DOMAIN poll' = Polls /\ poll'[p] = q /\ \A r \in Polls : r # p => poll'[r] = poll[r]
  BY <1>1 DEF WaitInv, Shape, q
<1>5. "free" \notin Registered /\ "sent" \notin Registered
  BY DEF Registered
<1>6. Shape'
  BY <1>2, <1>3, <1>4 DEF WaitInv, Shape
<1>7. OneLiveWait'
  BY <1>2, <1>3, <1>4, <1>5 DEF WaitInv, OneLiveWait
<1>8. SendersMatch'
  <2>1. p \notin cancelled /\ \A r \in Sessions : waits[r] # p
    BY <1>1, <1>5, NotPolls DEF WaitInv, SendersMatch
  <2> QED BY <2>1, <1>2, <1>4 DEF WaitInv, Shape, SendersMatch
<1> QED BY <1>6, <1>7, <1>8 DEF WaitInv

\* The daemon's death empties the map, the cancelled set and every task that
\* holds a receiver.
LEMMA DaemonStopsKeeps ==
  ASSUME WaitInv, DaemonStops
  PROVE  WaitInv'
<1>1. /\ waits' = [s \in Sessions |-> NoPoll]
      /\ cancelled' = {}
      /\ poll' = [p \in Polls |-> IF poll[p].pc = "sent" THEN poll[p] ELSE FreePoll]
  BY DEF DaemonStops
<1>2. FreePoll.pc = "free" /\ {"pc", "s"} \subseteq DOMAIN FreePoll
  BY DEF FreePoll
<1>3. \A p \in Polls : poll'[p].pc \notin Registered
  BY <1>1, <1>2 DEF Registered
<1>4. Shape'
  BY <1>1, <1>2 DEF WaitInv, Shape
<1> QED BY <1>1, <1>3, <1>4, NotPolls DEF WaitInv, OneLiveWait, SendersMatch

\* Every step keeps the invariant.
LEMMA NextKeeps == WaitInv /\ [Next]_vars => WaitInv'
<1> SUFFICES ASSUME WaitInv, [Next]_vars PROVE WaitInv'
  OBVIOUS
<1>1. CASE UNCHANGED vars
  BY <1>1, StutterKeeps DEF vars, memVars, waitVars
<1>2. ASSUME NEW p \in Polls, PollStep(p) \/ ConnStep(p) PROVE WaitInv'
  BY <1>2, PollStepKeeps, ConnStepKeeps
<1>3. ASSUME NEW s \in Sessions, PromptStep(s) \/ SessionStep(s) PROVE WaitInv'
  <2>1. CASE PromptStep(s)
    BY <2>1, PromptStepKeeps
  <2>2. CASE EndTurn(s)
    BY <2>2, EndTurnKeeps
  <2>3. CASE \/ SessionStart(s) \/ SessionEnd(s) \/ SessionDies(s)
             \/ UserPrompt(s) \/ WakeTurn(s)
             \/ \E id \in SpawnIds : ForkEnds(s, id)
    <3>1. UNCHANGED waitVars
      BY <2>3 DEF SessionStart, SessionEnd, SessionDies, UserPrompt, WakeTurn,
                  ForkEnds, waitVars, memVars
    <3> QED BY <3>1, StutterKeeps
  <2> QED BY <1>3, <2>1, <2>2, <2>3 DEF SessionStep
<1>4. CASE CloserStep \/ ReaperStep \/ Prune \/ DaemonStarts \/ Tick \/ EndOfTime
  <2>1. UNCHANGED waitVars
    BY <1>4 DEF CloserStep, GraceEnds, GraceCloses, ReaperStep, ReaperScans, ReaperCloses,
                Prune, DaemonStarts, Tick, EndOfTime, vars, waitVars, memVars
  <2> QED BY <2>1, StutterKeeps
<1>5. CASE DaemonStops
  BY <1>5, DaemonStopsKeeps
<1> QED BY <1>1, <1>2, <1>3, <1>4, <1>5 DEF Next

\* The waits map and the polls agree, in every behaviour of the daemon: the
\* inductive invariant holds throughout.
THEOREM WaitInvariant == Spec => []WaitInv
<1>1. Init => WaitInv
  <2> SUFFICES ASSUME Init PROVE WaitInv
    OBVIOUS
  <2>1. FreePoll.pc = "free" /\ {"pc", "s"} \subseteq DOMAIN FreePoll
    BY DEF FreePoll
  <2>2. Shape
    BY <2>1 DEF Init, Shape
  <2>3. \A p \in Polls : poll[p].pc \notin Registered
    BY <2>1 DEF Init, Registered
  <2> QED BY <2>2, <2>3, NotPolls DEF Init, WaitInv, OneLiveWait, SendersMatch
<1> QED BY <1>1, NextKeeps, PTL DEF Spec

\* A session never has two polls that can both run on to a wake undisturbed
\* (daemon.rs, the insert into waits and cancel_wait).
THEOREM AtMostOneLiveWait == Spec => []OneLiveWait
<1>1. WaitInv => OneLiveWait
  BY DEF WaitInv
<1> QED BY <1>1, WaitInvariant, PTL

-----------------------------------------------------------------------------
\* The pause.

\* Reading the transcript keeps every pause.
LEMMA IngestKeepsPause ==
  ASSUME SessShape(db), NEW s \in Sessions
  PROVE  KeepsPause(db, Ingest(db, s))
<1> DEFINE d1 == RecordSpawns(db, s, unread[s].spawned)
           d2 == MarkSpawnsTerminal(d1, s, unread[s].finished, now)
           d3 == SetTranscriptGauge(d2, s, unread[s].tokens)
<1>1. KeepsPause(db, d1)
  BY OtherTablesKeep
<1> HIDE DEF d1
<1>2. SessShape(d1)
  BY <1>1 DEF KeepsPause
<1>3. KeepsPause(d1, d2)
  BY <1>2, OtherTablesKeep
<1> HIDE DEF d2
<1>4. SessShape(d2) /\ KeepsPause(db, d2)
  BY <1>1, <1>3, KeepsTransitive DEF KeepsPause
<1>5. KeepsPause(d2, d3)
  BY <1>4, GaugeKeeps
<1> HIDE DEF d3
<1>6. KeepsPause(db, d3)
  BY <1>4, <1>5, KeepsTransitive
<1> QED BY <1>6 DEF d1, d2, d3, Ingest

\* The stamps of a wake keep every pause.
LEMMA StampKeepsPause ==
  ASSUME SessShape(db), NEW s, NEW epoch, NEW picks, NEW t
  PROVE  KeepsPause(db, StampWake(db, s, epoch, picks, t))
<1> DEFINE deps == ResolveDeps([f \in ForksOf(picks) |-> After[f]])
           latches == { <<x[1], LatchKey(x[2], epoch)>> : x \in picks }
           d1 == TouchForksRan(db, s, ForksOf(picks), t)
           d2 == RecordIssuedRuns(d1, s, picks, t)
           d3 == LatchFires(d2, s, latches)
           d4 == InsertPendingDeps(d3, s, deps, t)
<1> HIDE DEF deps, latches
<1>1. KeepsPause(db, d1)
  BY OtherTablesKeep
<1> HIDE DEF d1
<1>2. SessShape(d1)
  BY <1>1 DEF KeepsPause
<1>3. KeepsPause(d1, d2)
  BY <1>2, OtherTablesKeep
<1> HIDE DEF d2
<1>4. SessShape(d2) /\ KeepsPause(db, d2)
  BY <1>1, <1>3, KeepsTransitive DEF KeepsPause
<1>5. KeepsPause(d2, d3)
  BY <1>4, OtherTablesKeep
<1> HIDE DEF d3
<1>6. SessShape(d3) /\ KeepsPause(db, d3)
  BY <1>4, <1>5, KeepsTransitive DEF KeepsPause
<1>7. KeepsPause(d3, d4)
  BY <1>6, OtherTablesKeep
<1> HIDE DEF d4
<1>8. KeepsPause(db, d4)
  BY <1>6, <1>7, KeepsTransitive
<1> QED BY <1>8 DEF deps, latches, d1, d2, d3, d4, StampWake

\* Every step keeps every pause.
LEMMA NextKeepsPause == SessShape(db) /\ WaitInv /\ [Next]_vars => KeepsPause(db, db')
<1> SUFFICES ASSUME SessShape(db), WaitInv, [Next]_vars PROVE KeepsPause(db, db')
  OBVIOUS
<1>0. KeepsPause(db, db)
  BY SameSessKeeps DEF SessShape
<1>1. CASE db' = db
  BY <1>0, <1>1
<1>2. ASSUME NEW p \in Polls, PollStep(p) PROVE KeepsPause(db, db')
  <2> DEFINE s == poll[p].s
  <2>1. CASE StopRecorded(p)
    <3> DEFINE d == UpsertSession(db, s, poll[p].t)
    <3>1. KeepsPause(db, d)
      BY UpsertKeeps
    <3> HIDE DEF d
    <3>2. KeepsPause(d, SetPauseStartedAtIfUnset(d, s, poll[p].t))
      BY <3>1, SetBaselineKeeps DEF KeepsPause
    <3>3. db' = SetPauseStartedAtIfUnset(d, s, poll[p].t)
      BY <2>1 DEF StopRecorded, d
    <3> QED BY <3>1, <3>2, <3>3, KeepsTransitive
  <2>2. CASE StopIngests(p)
    <3>1. s \in Sessions
      BY <2>2 DEF StopIngests, WaitInv, Shape
    <3> QED BY <2>2, <3>1, <1>1, IngestKeepsPause DEF StopIngests
  <2>3. CASE DeleteReleased(p)
    BY <2>3, OtherTablesKeep DEF DeleteReleased
  <2>4. CASE Evaluate(p) \/ DeadlinePasses(p)
    BY <2>4, <1>1, OtherTablesKeep DEF Evaluate, DeadlinePasses, AfterDueNow
  <2>5. CASE Reselect(p)
    BY <2>5, OtherTablesKeep DEF Reselect
  <2>6. CASE BuildWake(p)
    BY <2>6, StampKeepsPause DEF BuildWake
  <2>7. CASE \/ StopArrives(p) \/ Register(p) \/ TakeSnapshot(p) \/ ListReleasable(p)
             \/ DebounceEnds(p) \/ SeesCancel(p) \/ Deliver(p)
    BY <2>7, <1>1 DEF StopArrives, Register, TakeSnapshot, ListReleasable, DebounceEnds,
                      SeesCancel, Deliver
  <2> QED BY <1>2, <2>1, <2>2, <2>3, <2>4, <2>5, <2>6, <2>7 DEF PollStep
<1>3. ASSUME NEW p \in Polls, ConnStep(p) PROVE KeepsPause(db, db')
  BY <1>3, <1>1 DEF ConnStep, HookDies, NeverSent, LosePoll
<1>4. ASSUME NEW s \in Sessions, PromptStep(s) PROVE KeepsPause(db, db')
  <2>1. CASE ClassifyPrompt(s)
    <3> DEFINE d == IF prompt[s].kind \in {"notif", "foreign"} THEN Ingest(db, s) ELSE db
    <3>1. KeepsPause(db, d)
      BY <1>0, IngestKeepsPause
    <3>2. db' = MarkSpawnsTerminal(d, s, {prompt[s].id}, now) \/ db' = d
      BY <2>1 DEF ClassifyPrompt
    <3> HIDE DEF d
    <3>3. KeepsPause(d, MarkSpawnsTerminal(d, s, {prompt[s].id}, now))
      BY <3>1, OtherTablesKeep DEF KeepsPause
    <3> QED BY <3>1, <3>2, <3>3, KeepsTransitive
  <2>2. CASE ApplyPrompt(s)
    <3> DEFINE d == UpsertSession(db, s, prompt[s].t)
               e == BumpPauseEpoch(d, s)
    <3>1. KeepsPause(db, d)
      BY UpsertKeeps
    <3>2. db' = ClearPendingDeps(e, s) \/ db' = d
      BY <2>2 DEF ApplyPrompt
    <3> HIDE DEF d
    <3>3. KeepsPause(d, e)
      BY <3>1, BumpKeeps DEF KeepsPause
    <3> HIDE DEF e
    <3>4. SessShape(e)
      BY <3>3 DEF KeepsPause
    <3>5. KeepsPause(e, ClearPendingDeps(e, s))
      BY <3>4, OtherTablesKeep
    <3>6. KeepsPause(db, e)
      BY <3>1, <3>3, KeepsTransitive
    <3> QED BY <3>1, <3>2, <3>5, <3>6, KeepsTransitive
  <2>3. CASE EndCloses(s)
    BY <2>3, CloseKeeps DEF EndCloses, CloseSession
  <2>4. CASE CancelPrompt(s) \/ PromptLost(s) \/ EndCancels(s)
    BY <2>4, <1>1 DEF CancelPrompt, PromptLost, EndCancels
  <2> QED BY <1>4, <2>1, <2>2, <2>3, <2>4 DEF PromptStep
<1>5. ASSUME NEW s \in Sessions, SessionStep(s) PROVE KeepsPause(db, db')
  <2>1. CASE SessionStart(s)
    BY <2>1, UpsertKeeps DEF SessionStart
  <2>2. CASE \/ SessionEnd(s) \/ SessionDies(s) \/ UserPrompt(s) \/ WakeTurn(s) \/ EndTurn(s)
             \/ \E id \in SpawnIds : ForkEnds(s, id)
    BY <2>2, <1>1 DEF SessionEnd, SessionDies, UserPrompt, WakeTurn, EndTurn, ForkEnds
  <2> QED BY <1>5, <2>1, <2>2 DEF SessionStep
<1>6. CASE CloserStep
  BY <1>6, <1>1, CloseKeeps DEF CloserStep, GraceEnds, GraceCloses, CloseSession
<1>7. CASE ReaperStep \/ Prune
  BY <1>7, <1>1, CloseKeeps DEF ReaperStep, ReaperScans, ReaperCloses, Prune, CloseSession
<1>8. CASE DaemonStops \/ DaemonStarts \/ Tick \/ EndOfTime \/ UNCHANGED vars
  BY <1>8, <1>1 DEF DaemonStops, DaemonStarts, Tick, EndOfTime, vars
<1> QED BY <1>2, <1>3, <1>4, <1>5, <1>6, <1>7, <1>8 DEF Next

\* The idle clock of a pause never restarts: whatever Stops, wakes, closes,
\* reopenings and daemon restarts come in between, a baseline that is set moves
\* only with the epoch (store.rs set_pause_started_at_if_unset).
THEOREM BaselineIsStable == Spec => BaselineStable
<1>1. Init => SessShape(db)
  BY DEF Init, EmptyDb, SessShape
<1>2. SessShape(db) /\ WaitInv /\ [Next]_vars => SessShape(db)'
  BY NextKeepsPause DEF KeepsPause, SessShape
<1>3. SessShape(db) /\ WaitInv /\ [Next]_vars
      => [\A s \in Sessions :
            /\ db.sess[s].pauseStart # Unset
            /\ db'.sess[s].epoch = db.sess[s].epoch
            => db'.sess[s].pauseStart = db.sess[s].pauseStart]_vars
  BY NextKeepsPause DEF KeepsPause
<1> QED BY <1>1, <1>2, <1>3, WaitInvariant, PTL DEF Spec, BaselineStable

-----------------------------------------------------------------------------
\* Types.

\* The types of the tables.
Rows == [status : {"none", "open", "closed"}, epoch : Nat,
         pauseStart : Time \cup {Unset}, lastActivity : Time, tokens : Int]
Runs == [sess : Sessions, fork : Forks, trigger : Triggers, at : Time]
Holds == [preds : SUBSET Forks, at : Time]

\* DbType, in terms of these.
LEMMA DbTypeDef ==
  ASSUME NEW d
  PROVE  DbType(d) <=>
            /\ DOMAIN d = {"sess", "roster", "fires", "runs", "spawns", "pending"}
            /\ d.sess \in [Sessions -> Rows]
            /\ d.roster \in [Sessions -> [Forks -> Int]]
            /\ d.fires \in [Sessions -> SUBSET (Forks \X Keys)]
            /\ d.runs \subseteq Runs
            /\ d.spawns \in [Sessions -> [SpawnIds -> Int]]
            /\ d.pending \in [Sessions -> [Forks -> Holds]]
  BY DEF DbType, Rows, Runs, Holds

-----------------------------------------------------------------------------
\* The statements of the store keep the types of its tables.

LEMMA EmptyDbTyped == DbType(EmptyDb)
  BY DEF DbType, EmptyDb, NoRoster, NoSpawns, NoDeps, NotHeld, NotQueued, NotSeen, Unset,
         NoTokens, Time

\* A row of the sessions table, and one whose fields are set to values of their
\* types.
LEMMA RowTyped ==
  ASSUME NEW d, DbType(d), NEW s \in Sessions
  PROVE  d.sess[s] \in Rows
<1>1. d.sess \in [Sessions -> Rows]
  BY DbTypeDef
<1> QED BY <1>1

LEMMA OpenedRow ==
  ASSUME NEW x \in Rows, NEW t \in Time
  PROVE  [x EXCEPT !.status = "open", !.lastActivity = t] \in Rows
  BY DEF Rows

LEMMA ClosedRow ==
  ASSUME NEW x \in Rows
  PROVE  [x EXCEPT !.status = "closed"] \in Rows
  BY DEF Rows

LEMMA BumpedRow ==
  ASSUME NEW x \in Rows
  PROVE  [x EXCEPT !.epoch = @ + 1, !.pauseStart = Unset] \in Rows
<1>1. x.epoch + 1 \in Nat
  BY DEF Rows
<1> DEFINE n == x.epoch + 1
<1> HIDE DEF n
<1>2. [x EXCEPT !.epoch = n, !.pauseStart = Unset] \in Rows
  BY <1>1 DEF Rows, n
<1> QED BY <1>2 DEF n

LEMMA BasedRow ==
  ASSUME NEW x \in Rows, NEW t \in Time
  PROVE  [x EXCEPT !.pauseStart = IF @ = Unset THEN t ELSE @] \in Rows
  BY DEF Rows

LEMMA GaugedRow ==
  ASSUME NEW x \in Rows, NEW n \in Int
  PROVE  [x EXCEPT !.tokens = IF n = NoTokens THEN @ ELSE n] \in Rows
  BY DEF Rows

\* A database whose sessions table alone is replaced.
LEMMA SessTyped ==
  ASSUME NEW d, DbType(d), NEW s \in Sessions, NEW row \in Rows
  PROVE  DbType([d EXCEPT !.sess[s] = row])
<1>1. [d EXCEPT !.sess[s] = row].sess \in [Sessions -> Rows]
  BY DEF DbType, Rows
<1> HIDE DEF Rows
<1> QED BY <1>1, DbTypeDef

LEMMA UpsertTyped ==
  ASSUME NEW d, DbType(d), NEW s \in Sessions, NEW t \in Time
  PROVE  DbType(UpsertSession(d, s, t))
<1> DEFINE row == [d.sess[s] EXCEPT !.status = "open", !.lastActivity = t]
<1>1. row \in Rows
  BY RowTyped, OpenedRow
<1>2. UpsertSession(d, s, t) = [d EXCEPT !.sess[s] = row]
  BY DEF DbType, UpsertSession
<1> QED BY <1>1, <1>2, SessTyped

LEMMA BumpTyped ==
  ASSUME NEW d, DbType(d), NEW s \in Sessions
  PROVE  DbType(BumpPauseEpoch(d, s))
<1> DEFINE row == [d.sess[s] EXCEPT !.epoch = @ + 1, !.pauseStart = Unset]
<1>1. row \in Rows
  BY RowTyped, BumpedRow
<1>2. BumpPauseEpoch(d, s) = [d EXCEPT !.sess[s] = row]
  BY DEF DbType, BumpPauseEpoch
<1> QED BY <1>1, <1>2, SessTyped

LEMMA BaselineTyped ==
  ASSUME NEW d, DbType(d), NEW s \in Sessions, NEW t \in Time
  PROVE  DbType(SetPauseStartedAtIfUnset(d, s, t))
<1> DEFINE row == [d.sess[s] EXCEPT !.pauseStart = IF @ = Unset THEN t ELSE @]
<1>1. row \in Rows
  BY RowTyped, BasedRow
<1>2. SetPauseStartedAtIfUnset(d, s, t) = [d EXCEPT !.sess[s] = row]
  BY DEF DbType, SetPauseStartedAtIfUnset
<1> QED BY <1>1, <1>2, SessTyped

LEMMA GaugeTyped ==
  ASSUME NEW d, DbType(d), NEW s \in Sessions, NEW n \in Int
  PROVE  DbType(SetTranscriptGauge(d, s, n))
<1> DEFINE row == [d.sess[s] EXCEPT !.tokens = IF n = NoTokens THEN @ ELSE n]
<1>1. row \in Rows
  BY RowTyped, GaugedRow
<1>2. SetTranscriptGauge(d, s, n) = [d EXCEPT !.sess[s] = row]
  BY DEF DbType, SetTranscriptGauge
<1> QED BY <1>1, <1>2, SessTyped

LEMMA CloseTyped ==
  ASSUME NEW d, DbType(d), NEW ss
  PROVE  DbType(CloseSessions(d, ss))
<1> DEFINE e == CloseSessions(d, ss)
<1>1. e.sess \in [Sessions -> Rows]
  <2>1. e.sess = [s \in Sessions |-> IF s \in ss THEN [d.sess[s] EXCEPT !.status = "closed"]
                                                  ELSE d.sess[s]]
    BY DEF CloseSessions, DbType
  <2>2. \A s \in Sessions : d.sess[s] \in Rows /\ [d.sess[s] EXCEPT !.status = "closed"] \in Rows
    BY RowTyped, ClosedRow
  <2> QED BY <2>1, <2>2
<1>2. e.roster \in [Sessions -> [Forks -> Int]]
  BY DEF DbType, CloseSessions, NoRoster, NotQueued
<1>3. e.fires \in [Sessions -> SUBSET (Forks \X Keys)]
  BY DEF DbType, CloseSessions
<1>4. e.spawns \in [Sessions -> [SpawnIds -> Int]]
  BY DEF DbType, CloseSessions, NoSpawns, NotSeen
<1>5. e.pending \in [Sessions -> [Forks -> Holds]]
  BY DEF DbType, CloseSessions, NoDeps, NotHeld, Holds, Time
<1>6. DOMAIN e = DOMAIN d /\ e.runs = d.runs
  BY DEF DbType, CloseSessions
<1> HIDE DEF e
<1>7. DbType(e)
  BY <1>1, <1>2, <1>3, <1>4, <1>5, <1>6, DbTypeDef
<1> QED BY <1>7 DEF e

LEMMA RefreshTyped ==
  ASSUME NEW d, DbType(d), NEW s \in Sessions
  PROVE  DbType(RefreshRoster(d, s))
  BY DEF DbType, RefreshRoster, Never

LEMMA TouchTyped ==
  ASSUME NEW d, DbType(d), NEW s \in Sessions, NEW fs, NEW t \in Time
  PROVE  DbType(TouchForksRan(d, s, fs, t))
  BY DEF DbType, TouchForksRan, Time

LEMMA LatchTyped ==
  ASSUME NEW d, DbType(d), NEW s \in Sessions, NEW latches \in SUBSET (Forks \X Keys)
  PROVE  DbType(LatchFires(d, s, latches))
  BY DEF DbType, LatchFires

LEMMA RunsTyped ==
  ASSUME NEW d, DbType(d), NEW s \in Sessions, NEW picks \in SUBSET (Forks \X Triggers),
         NEW t \in Time
  PROVE  DbType(RecordIssuedRuns(d, s, picks, t))
  BY DEF DbType, RecordIssuedRuns

LEMMA RecordSpawnsTyped ==
  ASSUME NEW d, DbType(d), NEW s \in Sessions, NEW ids
  PROVE  DbType(RecordSpawns(d, s, ids))
  BY DEF DbType, RecordSpawns, Running

LEMMA TerminalTyped ==
  ASSUME NEW d, DbType(d), NEW s \in Sessions, NEW ids, NEW t \in Time
  PROVE  DbType(MarkSpawnsTerminal(d, s, ids, t))
  BY DEF DbType, MarkSpawnsTerminal, Time

LEMMA InsertTyped ==
  ASSUME NEW d, DbType(d), NEW s \in Sessions, NEW D \in SUBSET Forks,
         NEW deps \in [D -> SUBSET D], NEW t \in Time
  PROVE  DbType(InsertPendingDeps(d, s, deps, t))
  BY DEF DbType, InsertPendingDeps

LEMMA DeleteTyped ==
  ASSUME NEW d, DbType(d), NEW s \in Sessions, NEW fs
  PROVE  DbType(DeletePendingDeps(d, s, fs))
  BY DEF DbType, DeletePendingDeps, NotHeld, Time

LEMMA ClearTyped ==
  ASSUME NEW d, DbType(d), NEW s \in Sessions
  PROVE  DbType(ClearPendingDeps(d, s))
  BY DEF DbType, ClearPendingDeps, NoDeps, NotHeld, Time

-----------------------------------------------------------------------------
\* What selection returns.

Picks == SUBSET (Forks \X Triggers)

\* Deadlines are positive numbers of seconds.
LEMMA DeadlinesTyped == Deadlines \in SUBSET Nat
<1> SUFFICES ASSUME NEW d \in Deadlines PROVE d \in Nat
  OBVIOUS
<1>0. PICK f \in Forks : \E j \in DOMAIN RunOn[f] : d = EffectiveSecs(RunOn[f][j], DefaultIdle)
  BY DEF Deadlines, IdleDeadlines
<1>1. PICK j \in DOMAIN RunOn[f] : d = EffectiveSecs(RunOn[f][j], DefaultIdle)
  BY <1>0
<1>2. RunOn[f][j] \in TriggerKinds \X Int
  BY <1>1, ForksAssumption
<1>3. d \in Int
  BY <1>1, <1>2, DaemonAssumption DEF EffectiveSecs
<1>4. d > 0
  BY DEF Deadlines, IdleDeadlines
<1> QED BY <1>3, <1>4

\* A moment has a place in the order in which moments are tried.
Rankable(moments) == \A m \in moments : m[1] # "context" => m[2] \in Nat

LEMMA ElapsedRanked ==
  ASSUME NEW tokens, NEW w, NEW base, NEW t
  PROVE  Rankable(ElapsedMoments(tokens, w, base, Deadlines, t))
<1>1. \A m \in ElapsedMoments(tokens, w, base, Deadlines, t) :
         m = <<"context", tokens, w>> \/ \E d \in Deadlines : m = <<"idle", d, 0>>
  BY DEF ElapsedMoments
<1> QED BY <1>1, DeadlinesTyped DEF Rankable

LEMMA MomentsRanked ==
  ASSUME NEW q
  PROVE  Rankable(PollMoments(q))
<1> DEFINE w == ResolveContextWindow(q.s \in Model1M, q.tokens, Window, Window1M)
<1> HIDE DEF w
<1>1. PollMoments(q) = ElapsedMoments(q.tokens, w, q.base, Deadlines, now)
  BY DEF PollMoments, w
<1> QED BY <1>1, ElapsedRanked

\* The first hit exists, and it is the one that counts.
LEMMA MatchPicks ==
  ASSUME NEW f \in Forks, NEW moments, Rankable(moments)
  PROVE  LET hits == { h \in moments \X DOMAIN RunOn[f] : Hits(h[1], RunOn[f][h[2]], DefaultIdle) }
         IN  hits # {} => \E h \in hits : MatchMoments(RunOn[f], moments, DefaultIdle) = RunOn[f][h[2]]
<1> DEFINE runOn == RunOn[f]
           rank(m) == IF m[1] = "context" THEN 0 ELSE m[2]
           hits == { h \in moments \X DOMAIN runOn : Hits(h[1], runOn[h[2]], DefaultIdle) }
           first(h) == \A g \in hits : \/ rank(h[1]) < rank(g[1])
                                       \/ rank(h[1]) = rank(g[1]) /\ h[2] <= g[2]
<1>1. runOn \in Seq(TriggerKinds \X Int)
  BY ForksAssumption
<1>2. ASSUME hits # {} PROVE \E h \in hits : first(h)
  <2>1. \A h \in hits : rank(h[1]) \in Nat /\ h[2] \in Nat
    BY <1>1 DEF Rankable
  <2> HIDE DEF hits, rank
  <2> DEFINE ranks == {rank(h[1]) : h \in hits}
  <2>2. ranks \in SUBSET Nat /\ ranks # {}
    BY <1>2, <2>1
  <2>3. PICK r \in ranks : \A k \in ranks : r <= k
    <3> HIDE DEF ranks
    <3> QED BY <2>2, LeastNat
  <2> DEFINE best == {h \in hits : rank(h[1]) = r}
             places == {h[2] : h \in best}
  <2>4. places \in SUBSET Nat /\ places # {}
    BY <2>1, <2>3
  <2>5. PICK j \in places : \A k \in places : j <= k
    <3> HIDE DEF places
    <3> QED BY <2>4, LeastNat
  <2>6. PICK h \in best : h[2] = j
    BY <2>5
  <2>7. ASSUME NEW g \in hits
        PROVE  rank(h[1]) < rank(g[1]) \/ (rank(h[1]) = rank(g[1]) /\ h[2] <= g[2])
    <3>1. r <= rank(g[1]) /\ r \in Nat /\ rank(g[1]) \in Nat
      BY <2>1, <2>2, <2>3
    <3>2. rank(h[1]) = r
      BY <2>6
    <3>3. CASE rank(g[1]) = r
      <4>1. g[2] \in places
        BY <3>3
      <4>2. h[2] <= g[2]
        <5> HIDE DEF places
        <5> QED BY <4>1, <2>5, <2>6
      <4> QED BY <4>2, <3>2, <3>3
    <3> QED BY <3>1, <3>2, <3>3
  <2> QED BY <2>6, <2>7
<1>3. ASSUME hits # {} PROVE \E h \in hits : MatchMoments(runOn, moments, DefaultIdle) = runOn[h[2]]
  <2> DEFINE h == CHOOSE x \in hits : first(x)
  <2>1. MatchMoments(runOn, moments, DefaultIdle) = runOn[h[2]]
    BY <1>3 DEF MatchMoments
  <2>2. h \in hits
    <3> HIDE DEF hits, first
    <3> QED BY <1>2, <1>3
  <2> HIDE DEF h
  <2> QED BY <2>1, <2>2
<1> QED BY <1>3

\* The trigger found is one of the fork's.
LEMMA MatchTyped ==
  ASSUME NEW f \in Forks, NEW moments, Rankable(moments)
  PROVE  MatchMoments(RunOn[f], moments, DefaultIdle) \in Triggers
<1> DEFINE hits == { h \in moments \X DOMAIN RunOn[f] : Hits(h[1], RunOn[f][h[2]], DefaultIdle) }
<1>1. RunOn[f] \in Seq(TriggerKinds \X Int)
  BY ForksAssumption
<1>2. CASE hits = {}
  BY <1>2 DEF MatchMoments, NoTrigger, Triggers, TriggerKinds
<1>3. CASE hits # {}
  <2>1. PICK h \in hits : MatchMoments(RunOn[f], moments, DefaultIdle) = RunOn[f][h[2]]
    BY <1>3, MatchPicks
  <2>2. h[2] \in DOMAIN RunOn[f]
    BY <2>1
  <2> QED BY <1>1, <2>1, <2>2 DEF Triggers
<1> QED BY <1>2, <1>3

\* Selected forks are forks of the session, each with a trigger.
LEMMA SelectTyped ==
  ASSUME NEW d, NEW s, NEW epoch, NEW moments, Rankable(moments), NEW t
  PROVE  SelectForks(d, s, epoch, moments, t) \in Picks
<1> DEFINE trigger(f) == MatchMoments(RunOn[f], moments, DefaultIdle)
<1>1. \A f \in Forks : trigger(f) \in Triggers
  BY MatchTyped
<1>2. \A x \in SelectForks(d, s, epoch, moments, t) : \E f \in Forks : x = <<f, trigger(f)>>
  BY DEF SelectForks
<1> HIDE DEF trigger
<1> QED BY <1>1, <1>2 DEF Picks

\* A latch key of a typed trigger.
LEMMA KeyTyped ==
  ASSUME NEW x \in Triggers, NEW n \in Nat
  PROVE  LatchKey(x, n) \in Keys
  BY DEF LatchKey, Keys, Triggers, TriggerKinds

\* The dependencies among the selected forks are forks of the session.
LEMMA DepsTyped ==
  ASSUME NEW picks \in Picks
  PROVE  /\ ForksOf(picks) \in SUBSET Forks
         /\ ResolveDeps([f \in ForksOf(picks) |-> After[f]])
               \in [ForksOf(picks) -> SUBSET ForksOf(picks)]
<1> DEFINE D == ForksOf(picks)
<1>1. D \in SUBSET Forks
  BY DEF ForksOf, Picks
<1> HIDE DEF D
<1>2. D \in SUBSET Nat /\ IsFiniteSet(D)
  BY <1>1, ForksAssumption, FS_Subset
<1> DEFINE after == [f \in D |-> After[f]]
<1>3. DOMAIN after = D
  OBVIOUS
<1> HIDE DEF after
<1>4. ResolveDeps(after) \in [D -> SUBSET D]
  BY <1>2, <1>3, ResolveDepsSound
<1> QED BY <1>1, <1>4 DEF D, after

\* A wake's stamps keep the types of the tables.
LEMMA StampTyped ==
  ASSUME NEW d, DbType(d), NEW s \in Sessions, NEW epoch \in Nat, NEW picks \in Picks,
         NEW t \in Time
  PROVE  DbType(StampWake(d, s, epoch, picks, t))
<1> DEFINE D == ForksOf(picks)
           deps == ResolveDeps([f \in D |-> After[f]])
           latches == { <<x[1], LatchKey(x[2], epoch)>> : x \in picks }
           d1 == TouchForksRan(d, s, D, t)
           d2 == RecordIssuedRuns(d1, s, picks, t)
           d3 == LatchFires(d2, s, latches)
           d4 == InsertPendingDeps(d3, s, deps, t)
<1>1. D \in SUBSET Forks /\ deps \in [D -> SUBSET D]
  BY DepsTyped
<1>2. latches \in SUBSET (Forks \X Keys)
  <2>1. \A x \in picks : x[1] \in Forks /\ LatchKey(x[2], epoch) \in Keys
    BY KeyTyped DEF Picks
  <2> QED BY <2>1
<1> HIDE DEF D, deps, latches
<1>3. DbType(d1)
  BY TouchTyped
<1> HIDE DEF d1
<1>4. DbType(d2)
  BY <1>3, RunsTyped DEF Picks
<1> HIDE DEF d2
<1>5. DbType(d3)
  BY <1>2, <1>4, LatchTyped
<1> HIDE DEF d3
<1>6. DbType(d4)
  BY <1>1, <1>5, InsertTyped
<1> QED BY <1>6 DEF D, deps, latches, d1, d2, d3, d4, StampWake

\* Reading the transcript keeps the types of the tables.
LEMMA IngestTyped ==
  ASSUME TypeOK, NEW s \in Sessions
  PROVE  DbType(Ingest(db, s))
<1> DEFINE d1 == RecordSpawns(db, s, unread[s].spawned)
           d2 == MarkSpawnsTerminal(d1, s, unread[s].finished, now)
<1>1. DbType(d1)
  BY RecordSpawnsTyped DEF TypeOK
<1> HIDE DEF d1
<1>2. DbType(d2)
  BY <1>1, TerminalTyped DEF TypeOK
<1>3. unread[s].tokens \in Int
  BY DEF TypeOK
<1> HIDE DEF d2
<1>4. DbType(SetTranscriptGauge(d2, s, unread[s].tokens))
  BY <1>2, <1>3, GaugeTyped
<1> QED BY <1>4 DEF d1, d2, Ingest

-----------------------------------------------------------------------------
\* The types of the tasks' records.

PollsTyped == poll \in [Polls -> PollType]
PromptsTyped == prompt \in [Sessions -> PromptType]

LEMMA FreePollTyped == FreePoll \in PollType
  BY DEF FreePoll, PollType, NoPoll, NoTokens, Time

LEMMA SentPollTyped ==
  ASSUME NEW s \in Sessions
  PROVE  [FreePoll EXCEPT !.pc = "sent", !.s = s, !.conn = TRUE] \in PollType
  BY FreePollTyped DEF PollType

\* The pc of a poll moves.
LEMMA StepTyped ==
  ASSUME NEW q \in PollType, NEW pc \in {"arrive", "ingest", "register", "wake"} \cup Registered
  PROVE  [q EXCEPT !.pc = pc] \in PollType
  BY DEF PollType

\* Fields of a poll are set to values of their types.
LEMMA StampedPoll ==
  ASSUME NEW q \in PollType, NEW t \in Time
  PROVE  [q EXCEPT !.t = t] \in PollType
  BY DEF PollType

LEMMA GaugedPoll ==
  ASSUME NEW q \in PollType, NEW n \in Int
  PROVE  [q EXCEPT !.tokens = n] \in PollType
  BY DEF PollType

LEMMA BasedPoll ==
  ASSUME NEW q \in PollType, NEW k \in Nat, NEW t \in Time
  PROVE  [q EXCEPT !.epoch = k, !.base = t] \in PollType
  BY DEF PollType

LEMMA SleepingPoll ==
  ASSUME NEW q \in PollType, NEW k \in Nat
  PROVE  [q EXCEPT !.slept = k] \in PollType
  BY DEF PollType

LEMMA TimedPoll ==
  ASSUME NEW q \in PollType, NEW k \in Nat
  PROVE  [q EXCEPT !.timer = k] \in PollType
  BY DEF PollType

LEMMA PickingPoll ==
  ASSUME NEW q \in PollType, NEW picks \in Picks
  PROVE  [q EXCEPT !.picks = picks] \in PollType
  BY DEF PollType, Picks

LEMMA LostPoll ==
  ASSUME NEW q \in PollType
  PROVE  [q EXCEPT !.conn = FALSE] \in PollType
  BY DEF PollType

\* One poll is replaced by a typed one.
LEMMA PollReplaced ==
  ASSUME PollsTyped, NEW p \in Polls, NEW q \in PollType, poll' = [poll EXCEPT ![p] = q]
  PROVE  PollsTyped'
  BY DEF PollsTyped

LEMMA PromptReplaced ==
  ASSUME PromptsTyped, NEW s \in Sessions, NEW q \in PromptType, prompt' = [prompt EXCEPT ![s] = q]
  PROVE  PromptsTyped'
  BY DEF PromptsTyped

LEMMA NoPromptTyped ==
  /\ NoPrompt \in PromptType
  /\ [NoPrompt EXCEPT !.pc = "end"] \in PromptType
  BY DEF NoPrompt, PromptType, NoId, Time

LEMMA PromptFieldsTyped ==
  ASSUME NEW q \in PromptType, NEW t \in Time, NEW b \in BOOLEAN
  PROVE  /\ [q EXCEPT !.pc = "apply", !.t = t, !.waking = b] \in PromptType
         /\ [q EXCEPT !.pc = "cancel"] \in PromptType
         /\ [q EXCEPT !.pc = "close"] \in PromptType
  BY DEF PromptType

-----------------------------------------------------------------------------
\* The steps keep the types.

MemTyped ==
    /\ up \in BOOLEAN
    /\ wokeAt \in [Sessions -> Int]
    /\ pendingClose \in [Sessions -> Nat]
    /\ closeGen \in Nat
    /\ \A c \in closers : c \in [s : Sessions, gen : Nat, at : Time, pc : {"grace", "close"}]
    /\ doomed \subseteq Sessions

EnvTyped ==
    /\ claude \in [Sessions -> {"new", "idle", "busy", "gone"}]
    /\ inbox \in [Sessions -> SUBSET Forks]
    /\ task \in [Sessions -> [SpawnIds -> {"unused", "running", "done"}]]
    /\ unread \in [Sessions -> [spawned : SUBSET SpawnIds, finished : SUBSET SpawnIds, tokens : Int]]
    /\ prompts \in Nat
    /\ crashes \in Nat

IssuedTyped == issued \subseteq Sessions \X Forks \X Keys

\* TypeOK in parts.  The waits map and the cancelled polls are typed by WaitInv.
Typed ==
    /\ now \in Time
    /\ DbType(db)
    /\ MemTyped
    /\ PollsTyped
    /\ PromptsTyped
    /\ EnvTyped
    /\ IssuedTyped

LEMMA TypedIsTypeOK == WaitInv => (Typed <=> TypeOK)
  BY DEF WaitInv, Shape, Typed, TypeOK, MemTyped, PollsTyped, PromptsTyped, EnvTyped, IssuedTyped

\* A poll that is not free, and its session.
LEMMA PollFacts ==
  ASSUME Typed, WaitInv, NEW p \in Polls, poll[p].pc # "free"
  PROVE  /\ poll[p] \in PollType
         /\ poll[p].s \in Sessions
         /\ poll[p].t \in Time
         /\ poll[p].epoch \in Nat
         /\ poll[p].base \in Nat
         /\ poll[p].slept \in Nat
         /\ poll[p].picks \in Picks
<1>1. poll[p] \in PollType
  BY DEF Typed, PollsTyped
<1>2. poll[p].s \in Sessions
  BY DEF WaitInv, Shape
<1> QED BY <1>1, <1>2 DEF PollType, Picks, Time

LEMMA ForgetTyped ==
  ASSUME PollsTyped, NEW p \in Polls, Forget(p)
  PROVE  PollsTyped'
  BY PollReplaced, FreePollTyped DEF Forget

LEMMA AwaitTyped ==
  ASSUME PollsTyped, NEW p \in Polls, NEW q \in PollType, Await(p, q)
  PROVE  PollsTyped'
<1>1. CASE p \in cancelled
  BY <1>1, ForgetTyped DEF Await
<1>2. CASE p \notin cancelled
  BY <1>2, PollReplaced DEF Await
<1> QED BY <1>1, <1>2

LEMMA AnswerTyped ==
  ASSUME Typed, WaitInv, NEW p \in Polls, poll[p].pc # "free", NEW picks \in Picks,
         AnswerWake(p, picks)
  PROVE  PollsTyped' /\ wokeAt' \in [Sessions -> Int]
<1> DEFINE q == [[poll[p] EXCEPT !.pc = "wake"] EXCEPT !.picks = picks]
<1>1. q \in PollType
  BY PollFacts, StepTyped, PickingPoll
<1>2. poll' = [poll EXCEPT ![p] = q]
  BY DEF AnswerWake, Typed, PollsTyped, PollType
<1> HIDE DEF q
<1>3. PollsTyped'
  BY <1>1, <1>2, PollReplaced DEF Typed
<1>4. wokeAt' = [wokeAt EXCEPT ![poll[p].s] = now]
  BY DEF AnswerWake
<1>5. now \in Int /\ wokeAt \in [Sessions -> Int]
  BY DEF Typed, MemTyped, Time
<1>6. wokeAt' \in [Sessions -> Int]
  BY <1>4, <1>5
<1> QED BY <1>3, <1>6

\* After a due_now.
LEMMA AfterDueNowTyped ==
  ASSUME Typed, WaitInv, NEW p \in Polls, poll[p].pc # "free", NEW slept \in Nat,
         AfterDueNow(p, slept)
  PROVE  DbType(db)' /\ PollsTyped'
<1>1. /\ poll[p] \in PollType
      /\ poll[p].s \in Sessions
      /\ now \in Nat
      /\ DbType(db)
      /\ PollsTyped
  BY PollFacts DEF Typed, Time
<1>2. DbType(db)'
  BY <1>1, RefreshTyped DEF AfterDueNow
<1> DEFINE parked == [poll[p] EXCEPT !.pc = "park"]
<1>3. parked \in PollType
  BY <1>1, StepTyped DEF Registered
<1>4. CASE OpenWindow(p)
  <2> DEFINE waiting == [[poll[p] EXCEPT !.pc = "debounce"] EXCEPT !.timer = now + Debounce]
             chosen == [poll[p] EXCEPT !.pc = "select"]
  <2>1. waiting \in PollType
    <3>1. now + Debounce \in Nat
      BY <1>1, DaemonAssumption
    <3>2. [poll[p] EXCEPT !.pc = "debounce"] \in PollType
      BY <1>1, StepTyped DEF Registered
    <3> QED BY <3>1, <3>2, TimedPoll
  <2>2. chosen \in PollType
    BY <1>1, StepTyped DEF Registered
  <2>3. [poll[p] EXCEPT !.pc = "debounce", !.timer = now + Debounce] = waiting
    BY <1>1 DEF PollType
  <2>4. [poll EXCEPT ![p].pc = "select"] = [poll EXCEPT ![p] = chosen]
    BY DEF Typed, PollsTyped
  <2>5. Await(p, waiting) \/ poll' = [poll EXCEPT ![p] = chosen]
    BY <1>4, <2>3, <2>4 DEF OpenWindow, Step
  <2> HIDE DEF waiting, chosen
  <2> QED BY <1>1, <2>1, <2>2, <2>5, AwaitTyped, PollReplaced, <1>2
<1>5. CASE SleepUntilNext(p, slept)
  <2> DEFINE ahead == {d \in Deadlines : d > slept}
             next == CHOOSE d \in ahead : \A e \in ahead : d <= e
             asleep == [poll[p] EXCEPT !.pc = "sleep", !.slept = next]
  <2>1. \/ Await(p, parked)
        \/ ahead # {} /\ Await(p, asleep)
        \/ ahead # {} /\ poll' = [poll EXCEPT ![p] = asleep]
    BY <1>5 DEF SleepUntilNext
  <2>2. ASSUME ahead # {} PROVE asleep \in PollType
    <3>1. ahead \in SUBSET Nat
      BY DeadlinesTyped
    <3>2. \E d \in ahead : \A e \in ahead : d <= e
      <4> HIDE DEF ahead
      <4> QED BY <2>2, <3>1, LeastNat
    <3>3. next \in Nat
      <4> HIDE DEF ahead
      <4> QED BY <3>1, <3>2
    <3> HIDE DEF next
    <3>4. [poll[p] EXCEPT !.pc = "sleep"] \in PollType
      BY <1>1, StepTyped DEF Registered
    <3>5. [[poll[p] EXCEPT !.pc = "sleep"] EXCEPT !.slept = next] \in PollType
      BY <3>3, <3>4, SleepingPoll
    <3>6. asleep = [[poll[p] EXCEPT !.pc = "sleep"] EXCEPT !.slept = next]
      BY <1>1 DEF PollType
    <3> HIDE DEF asleep
    <3> QED BY <3>5, <3>6
  <2> HIDE DEF ahead, asleep, parked
  <2> QED BY <1>1, <1>2, <1>3, <2>1, <2>2, AwaitTyped, PollReplaced
<1> QED BY <1>4, <1>5 DEF AfterDueNow

\* The steps of a StopWait task.
LEMMA PollStepTyped ==
  ASSUME Typed, WaitInv, NEW p \in Polls, PollStep(p)
  PROVE  Typed'
<1> DEFINE s == poll[p].s
<1>0. poll[p].pc # "free"
  BY DEF PollStep, StopArrives, StopRecorded, StopIngests, Register, TakeSnapshot,
         ListReleasable, DeleteReleased, Evaluate, DeadlinePasses, DebounceEnds, Reselect,
         BuildWake, SeesCancel, Deliver, Awaiting
<1>1. /\ poll[p] \in PollType
      /\ s \in Sessions
      /\ poll[p].t \in Time
      /\ poll[p].epoch \in Nat
      /\ poll[p].slept \in Nat
      /\ poll[p].picks \in Picks
  BY <1>0, PollFacts
<1>2. now \in Time /\ DbType(db) /\ MemTyped /\ PollsTyped /\ PromptsTyped /\ EnvTyped /\ IssuedTyped
  BY DEF Typed
<1>3. CASE StopArrives(p)
  <2> DEFINE q == [[poll[p] EXCEPT !.pc = "arrive"] EXCEPT !.t = now]
  <2>1. q \in PollType
    BY <1>1, <1>2, StepTyped, StampedPoll
  <2>2. poll' = [poll EXCEPT ![p] = q]
    BY <1>2, <1>3 DEF StopArrives, PollsTyped, PollType
  <2> HIDE DEF q
  <2>3. PollsTyped'
    BY <1>2, <2>1, <2>2, PollReplaced
  <2>4. MemTyped'
    BY <1>1, <1>2, <1>3 DEF MemTyped, StopArrives
  <2>5. now' \in Time /\ DbType(db)' /\ PromptsTyped' /\ EnvTyped' /\ IssuedTyped'
    BY <1>2, <1>3 DEF StopArrives, PromptsTyped, EnvTyped, envVars, IssuedTyped
  <2> QED BY <2>3, <2>4, <2>5 DEF Typed
<1>4. CASE StopRecorded(p)
  <2> DEFINE d == UpsertSession(db, s, poll[p].t)
             q == [poll[p] EXCEPT !.pc = "ingest"]
  <2>1. DbType(d)
    BY <1>1, <1>2, UpsertTyped
  <2> HIDE DEF d
  <2>2. DbType(SetPauseStartedAtIfUnset(d, s, poll[p].t))
    BY <1>1, <2>1, BaselineTyped
  <2>3. db' = SetPauseStartedAtIfUnset(d, s, poll[p].t)
    BY <1>4 DEF StopRecorded, d
  <2>4. q \in PollType
    BY <1>1, StepTyped
  <2>5. poll' = [poll EXCEPT ![p] = q]
    BY <1>4 DEF StopRecorded, Step
  <2> HIDE DEF q
  <2>6. PollsTyped'
    BY <1>2, <2>4, <2>5, PollReplaced
  <2>7. now' \in Time /\ MemTyped' /\ PromptsTyped' /\ EnvTyped' /\ IssuedTyped'
    BY <1>2, <1>4 DEF StopRecorded, MemTyped, memVars, PromptsTyped, EnvTyped, envVars, IssuedTyped
  <2> QED BY <2>2, <2>3, <2>6, <2>7 DEF Typed
<1>5. CASE StopIngests(p)
  <2>1. DbType(Ingest(db, s))
    BY <1>1, IngestTyped, TypedIsTypeOK
  <2>2. DbType(db')
    BY <1>2, <1>5, <2>1 DEF StopIngests
  <2>3. db'.sess[s].tokens \in Int
    <3>1. db'.sess[s] \in Rows
      BY <1>1, <2>2, RowTyped
    <3> QED BY <3>1 DEF Rows
  <2> DEFINE q == [[poll[p] EXCEPT !.pc = "register"] EXCEPT !.tokens = db'.sess[s].tokens]
  <2>4. q \in PollType
    BY <1>1, <2>3, StepTyped, GaugedPoll
  <2>5. poll' = [poll EXCEPT ![p] = q]
    BY <1>2, <1>5 DEF StopIngests, PollsTyped, PollType
  <2> HIDE DEF q
  <2>6. PollsTyped'
    BY <1>2, <2>4, <2>5, PollReplaced
  <2>7. NothingUnread \in [spawned : SUBSET SpawnIds, finished : SUBSET SpawnIds, tokens : Int]
    BY DEF NothingUnread, NoTokens
  <2>8. EnvTyped'
    BY <1>1, <1>2, <1>5, <2>7 DEF StopIngests, EnvTyped
  <2>9. now' \in Time /\ MemTyped' /\ PromptsTyped' /\ IssuedTyped'
    BY <1>2, <1>5 DEF StopIngests, MemTyped, memVars, PromptsTyped, IssuedTyped
  <2> QED BY <2>2, <2>6, <2>8, <2>9 DEF Typed
<1>6. CASE Register(p) \/ DebounceEnds(p)
  <2>1. \E x \in Registered : poll' = [poll EXCEPT ![p].pc = x]
    BY <1>6 DEF Register, DebounceEnds, Step, Registered
  <2>2. PICK x \in Registered : poll' = [poll EXCEPT ![p].pc = x]
    BY <2>1
  <2> DEFINE q == [poll[p] EXCEPT !.pc = x]
  <2>3. q \in PollType
    BY <1>1, StepTyped
  <2>4. poll' = [poll EXCEPT ![p] = q]
    BY <2>2
  <2> HIDE DEF q
  <2>5. PollsTyped'
    BY <1>2, <2>3, <2>4, PollReplaced
  <2>6. now' \in Time /\ DbType(db)' /\ MemTyped' /\ PromptsTyped' /\ EnvTyped' /\ IssuedTyped'
    BY <1>2, <1>6 DEF Register, DebounceEnds, MemTyped, memVars, PromptsTyped, EnvTyped, envVars,
                      IssuedTyped
  <2> QED BY <2>5, <2>6 DEF Typed
<1>7. CASE TakeSnapshot(p)
  <2> DEFINE row == db.sess[s]
             base == IF row.pauseStart = Unset THEN poll[p].t ELSE row.pauseStart
             q == [[poll[p] EXCEPT !.pc = "release"] EXCEPT !.epoch = row.epoch, !.base = base]
  <2>1. row.epoch \in Nat /\ base \in Time
    <3>1. row \in Rows
      BY <1>1, <1>2, RowTyped
    <3> HIDE DEF row
    <3> QED BY <1>1, <3>1 DEF Rows
  <2>2. q \in PollType
    <3> HIDE DEF row, base
    <3>1. [poll[p] EXCEPT !.pc = "release"] \in PollType
      BY <1>1, StepTyped DEF Registered
    <3> QED BY <2>1, <3>1, BasedPoll
  <2>3. poll' = [poll EXCEPT ![p] = q]
    BY <1>2, <1>7 DEF TakeSnapshot, PollsTyped, PollType
  <2> HIDE DEF q
  <2>4. PollsTyped'
    BY <1>2, <2>2, <2>3, PollReplaced
  <2>5. now' \in Time /\ DbType(db)' /\ MemTyped' /\ PromptsTyped' /\ EnvTyped' /\ IssuedTyped'
    BY <1>2, <1>7 DEF TakeSnapshot, MemTyped, memVars, PromptsTyped, EnvTyped, envVars, IssuedTyped
  <2> QED BY <2>4, <2>5 DEF Typed
<1>8. CASE ListReleasable(p)
  <2> DEFINE due == Releasable(db, s)
             held == {<<f, NoTrigger>> : f \in due}
             q == [poll[p] EXCEPT !.pc = "eval"]
             r == [[poll[p] EXCEPT !.pc = "delete"] EXCEPT !.picks = held]
  <2>1. held \in Picks
    <3>1. due \in SUBSET Forks
      BY DEF Releasable, Held
    <3>2. NoTrigger \in Triggers
      BY DEF NoTrigger, Triggers
    <3> HIDE DEF due
    <3> QED BY <3>1, <3>2 DEF Picks
  <2> HIDE DEF held
  <2>2. q \in PollType /\ r \in PollType
    BY <1>1, <2>1, StepTyped, PickingPoll DEF Registered
  <2>3. poll' = [poll EXCEPT ![p] = q] \/ poll' = [poll EXCEPT ![p] = r]
    BY <1>2, <1>8 DEF ListReleasable, Step, PollsTyped, PollType, held
  <2> HIDE DEF q, r
  <2>4. PollsTyped'
    BY <1>2, <2>2, <2>3, PollReplaced
  <2>5. now' \in Time /\ DbType(db)' /\ MemTyped' /\ PromptsTyped' /\ EnvTyped' /\ IssuedTyped'
    BY <1>2, <1>8 DEF ListReleasable, MemTyped, memVars, PromptsTyped, EnvTyped, envVars, IssuedTyped
  <2> QED BY <2>4, <2>5 DEF Typed
<1>9. CASE DeleteReleased(p)
  <2>1. DbType(DeletePendingDeps(db, s, ForksOf(poll[p].picks)))
    BY <1>1, <1>2, DeleteTyped
  <2>2. PollsTyped' /\ wokeAt' \in [Sessions -> Int]
    BY <1>0, <1>1, <1>9, AnswerTyped DEF DeleteReleased
  <2>3. /\ now' \in Time /\ MemTyped' /\ PromptsTyped' /\ EnvTyped' /\ IssuedTyped'
        /\ db' = DeletePendingDeps(db, s, ForksOf(poll[p].picks))
    BY <1>2, <1>9, <2>2 DEF DeleteReleased, MemTyped, PromptsTyped, EnvTyped, envVars, IssuedTyped
  <2> QED BY <2>1, <2>2, <2>3 DEF Typed
<1>10. CASE Evaluate(p) \/ DeadlinePasses(p)
  <2>1. DbType(db)' /\ PollsTyped'
    BY <1>0, <1>1, <1>10, AfterDueNowTyped DEF Evaluate, DeadlinePasses
  <2>2. now' \in Time /\ MemTyped' /\ PromptsTyped' /\ EnvTyped' /\ IssuedTyped'
    BY <1>2, <1>10 DEF Evaluate, DeadlinePasses, MemTyped, PromptsTyped, EnvTyped, envVars, IssuedTyped
  <2> QED BY <2>1, <2>2 DEF Typed
<1>11. CASE Reselect(p)
  <2> DEFINE d == RefreshRoster(db, s)
             picks == SelectForks(d, s, poll[p].epoch, PollMoments(poll[p]), now)
             parked == [poll[p] EXCEPT !.pc = "park"]
             q == [[poll[p] EXCEPT !.pc = "issue"] EXCEPT !.picks = picks]
  <2>1. DbType(d)
    BY <1>1, <1>2, RefreshTyped
  <2>2. picks \in Picks
    BY MomentsRanked, SelectTyped
  <2> HIDE DEF picks
  <2>3. parked \in PollType /\ q \in PollType
    BY <1>1, <2>2, StepTyped, PickingPoll DEF Registered
  <2>4. Await(p, parked) \/ poll' = [poll EXCEPT ![p] = q]
    BY <1>2, <1>11 DEF Reselect, PollsTyped, PollType, picks
  <2> HIDE DEF parked, q
  <2>5. PollsTyped'
    BY <1>2, <2>3, <2>4, PollReplaced, AwaitTyped
  <2>6. /\ now' \in Time /\ MemTyped' /\ PromptsTyped' /\ EnvTyped' /\ IssuedTyped'
        /\ db' = d
    BY <1>2, <1>11 DEF Reselect, MemTyped, PromptsTyped, EnvTyped, envVars, IssuedTyped
  <2> QED BY <2>1, <2>5, <2>6 DEF Typed
<1>12. CASE BuildWake(p)
  <2> DEFINE picks == poll[p].picks
             new == { <<s, x[1], LatchKey(x[2], poll[p].epoch)>> : x \in picks }
  <2>1. DbType(StampWake(db, s, poll[p].epoch, picks, now))
    BY <1>1, <1>2, StampTyped
  <2>2. WakeRoots(picks) \in Picks
    BY <1>1 DEF WakeRoots, Picks
  <2>3. PollsTyped' /\ wokeAt' \in [Sessions -> Int]
    BY <1>0, <1>12, <2>2, AnswerTyped DEF BuildWake
  <2>4. new \subseteq Sessions \X Forks \X Keys
    <3>1. \A x \in picks : x[1] \in Forks /\ LatchKey(x[2], poll[p].epoch) \in Keys
      BY <1>1, KeyTyped DEF Picks
    <3> HIDE DEF s, picks
    <3> QED BY <1>1, <3>1
  <2>5. issued' = issued \cup new
    BY <1>12 DEF BuildWake
  <2> HIDE DEF new
  <2>6. IssuedTyped'
    BY <1>2, <2>4, <2>5 DEF IssuedTyped
  <2>7. /\ now' \in Time /\ MemTyped' /\ PromptsTyped' /\ EnvTyped'
        /\ db' = StampWake(db, s, poll[p].epoch, picks, now)
    BY <1>2, <1>12, <2>3 DEF BuildWake, MemTyped, PromptsTyped, EnvTyped, envVars
  <2> QED BY <2>1, <2>3, <2>6, <2>7 DEF Typed
<1>13. CASE SeesCancel(p)
  <2>1. PollsTyped'
    BY <1>2, <1>13, ForgetTyped DEF SeesCancel
  <2>2. now' \in Time /\ DbType(db)' /\ MemTyped' /\ PromptsTyped' /\ EnvTyped' /\ IssuedTyped'
    BY <1>2, <1>13 DEF SeesCancel, MemTyped, PromptsTyped, EnvTyped, envVars, IssuedTyped
  <2> QED BY <2>1, <2>2 DEF Typed
<1>14. CASE Deliver(p)
  <2>1. PollsTyped'
    BY <1>2, <1>14, ForgetTyped DEF Deliver
  <2>2. ForksOf(poll[p].picks) \in SUBSET Forks
    BY <1>1, DepsTyped
  <2>3. EnvTyped'
    BY <1>1, <1>2, <1>14, <2>2 DEF Deliver, EnvTyped
  <2>4. now' \in Time /\ DbType(db)' /\ MemTyped' /\ PromptsTyped' /\ IssuedTyped'
    BY <1>2, <1>14 DEF Deliver, MemTyped, PromptsTyped, IssuedTyped
  <2> QED BY <2>1, <2>3, <2>4 DEF Typed
<1> QED BY <1>3, <1>4, <1>5, <1>6, <1>7, <1>8, <1>9, <1>10, <1>11, <1>12, <1>13, <1>14
        DEF PollStep

\* Lost connections, and the closes they lead to.
LEMMA ConnStepTyped ==
  ASSUME Typed, WaitInv, NEW p \in Polls, ConnStep(p)
  PROVE  Typed'
<1>1. now \in Time /\ DbType(db) /\ MemTyped /\ PollsTyped /\ PromptsTyped /\ EnvTyped /\ IssuedTyped
  BY DEF Typed
<1>2. CASE HookDies(p)
  <2> DEFINE q == [poll[p] EXCEPT !.conn = FALSE]
  <2>1. q \in PollType
    BY <1>2, PollFacts, LostPoll DEF HookDies
  <2>2. poll' = [poll EXCEPT ![p] = q]
    BY <1>2 DEF HookDies
  <2> HIDE DEF q
  <2>3. PollsTyped'
    BY <1>1, <2>1, <2>2, PollReplaced
  <2>4. now' \in Time /\ DbType(db)' /\ MemTyped' /\ PromptsTyped' /\ EnvTyped' /\ IssuedTyped'
    BY <1>1, <1>2 DEF HookDies, MemTyped, memVars, PromptsTyped, EnvTyped, envVars, IssuedTyped
  <2> QED BY <2>3, <2>4 DEF Typed
<1>3. CASE NeverSent(p)
  <2>1. PollsTyped'
    BY <1>1, <1>3, ForgetTyped DEF NeverSent
  <2>2. now' \in Time /\ DbType(db)' /\ MemTyped' /\ PromptsTyped' /\ EnvTyped' /\ IssuedTyped'
    BY <1>1, <1>3 DEF NeverSent, MemTyped, PromptsTyped, EnvTyped, envVars, IssuedTyped
  <2> QED BY <2>1, <2>2 DEF Typed
<1>4. CASE LosePoll(p)
  <2> DEFINE s == poll[p].s
             c == [s |-> s, gen |-> closeGen + 1, at |-> now + LossGrace, pc |-> "grace"]
  <2>1. s \in Sessions
    BY <1>4, PollFacts DEF LosePoll, Awaiting
  <2>2. closeGen + 1 \in Nat /\ now + LossGrace \in Time
    BY <1>1, DaemonAssumption DEF MemTyped, Time
  <2>3. c \in [s : Sessions, gen : Nat, at : Time, pc : {"grace", "close"}]
    BY <2>1, <2>2
  <2>4. /\ closeGen' = closeGen + 1
        /\ pendingClose' = [pendingClose EXCEPT ![s] = closeGen + 1]
        /\ closers' = closers \cup {c}
        /\ up' = up /\ wokeAt' = wokeAt /\ doomed' = doomed
    BY <1>4 DEF LosePoll
  <2> HIDE DEF c, s
  <2>5. MemTyped'
    BY <1>1, <2>1, <2>2, <2>3, <2>4 DEF MemTyped
  <2>6. PollsTyped'
    BY <1>1, <1>4, ForgetTyped DEF LosePoll
  <2>7. now' \in Time /\ DbType(db)' /\ PromptsTyped' /\ EnvTyped' /\ IssuedTyped'
    BY <1>1, <1>4 DEF LosePoll, PromptsTyped, EnvTyped, envVars, IssuedTyped
  <2> QED BY <2>5, <2>6, <2>7 DEF Typed
<1> QED BY <1>2, <1>3, <1>4 DEF ConnStep

LEMMA CloserStepTyped ==
  ASSUME Typed, CloserStep
  PROVE  Typed'
<1>1. now \in Time /\ DbType(db) /\ MemTyped /\ PollsTyped /\ PromptsTyped /\ EnvTyped /\ IssuedTyped
  BY DEF Typed
<1>2. PICK c \in closers : GraceEnds(c) \/ GraceCloses(c)
  BY DEF CloserStep
<1>3. c \in [s : Sessions, gen : Nat, at : Time, pc : {"grace", "close"}]
  BY <1>1 DEF MemTyped
<1>4. CASE GraceEnds(c)
  <2> DEFINE e == [c EXCEPT !.pc = "close"]
  <2>1. e \in [s : Sessions, gen : Nat, at : Time, pc : {"grace", "close"}]
    BY <1>3
  <2>2. closers' \subseteq closers \cup {e}
    BY <1>4 DEF GraceEnds
  <2>3. pendingClose' \in [Sessions -> Nat]
    BY <1>1, <1>3, <1>4 DEF GraceEnds, MemTyped
  <2> HIDE DEF e
  <2>4. MemTyped'
    BY <1>1, <1>4, <2>1, <2>2, <2>3 DEF GraceEnds, MemTyped
  <2>5. now' \in Time /\ DbType(db)' /\ PollsTyped' /\ PromptsTyped' /\ EnvTyped' /\ IssuedTyped'
    BY <1>1, <1>4 DEF GraceEnds, PollsTyped, PromptsTyped, EnvTyped, envVars, IssuedTyped
  <2> QED BY <2>4, <2>5 DEF Typed
<1>5. CASE GraceCloses(c)
  <2>1. DbType(db)'
    BY <1>1, <1>5, CloseTyped DEF GraceCloses, CloseSession
  <2>2. now' \in Time /\ MemTyped' /\ PollsTyped' /\ PromptsTyped' /\ EnvTyped' /\ IssuedTyped'
    BY <1>1, <1>5 DEF GraceCloses, MemTyped, PollsTyped, PromptsTyped, EnvTyped, envVars, IssuedTyped
  <2> QED BY <2>1, <2>2 DEF Typed
<1> QED BY <1>2, <1>4, <1>5

\* The reaper, prune, the daemon's death and restart, and the clock.
LEMMA HouseStepTyped ==
  ASSUME Typed, ReaperStep \/ Prune \/ DaemonStops \/ DaemonStarts \/ Tick \/ EndOfTime
  PROVE  Typed'
<1>1. now \in Time /\ DbType(db) /\ MemTyped /\ PollsTyped /\ PromptsTyped /\ EnvTyped /\ IssuedTyped
  BY DEF Typed
<1>2. CASE ReaperStep \/ Prune
  <2>1. DbType(db)'
    BY <1>1, <1>2, CloseTyped DEF ReaperStep, ReaperScans, ReaperCloses, CloseSession, Prune
  <2>2. MemTyped'
    BY <1>1, <1>2 DEF ReaperStep, ReaperScans, ReaperCloses, Prune, MemTyped, memVars
  <2>3. now' \in Time /\ PollsTyped' /\ PromptsTyped' /\ EnvTyped' /\ IssuedTyped'
    BY <1>1, <1>2 DEF ReaperStep, ReaperScans, ReaperCloses, Prune, PollsTyped, PromptsTyped, EnvTyped,
                      envVars, IssuedTyped
  <2> QED BY <2>1, <2>2, <2>3 DEF Typed
<1>3. CASE DaemonStops
  <2>0. /\ up' = FALSE /\ closeGen' = 0 /\ closers' = {} /\ doomed' = {}
        /\ wokeAt' = [s \in Sessions |-> Never]
        /\ pendingClose' = [s \in Sessions |-> 0]
    BY <1>3 DEF DaemonStops
  <2>a. up' \in BOOLEAN
    BY <2>0, Zenon
  <2>b. wokeAt' \in [Sessions -> Int] /\ pendingClose' \in [Sessions -> Nat]
    BY <2>0 DEF Never
  <2>1. MemTyped'
    BY <2>0, <2>a, <2>b DEF MemTyped
  <2>2. PollsTyped'
    BY <1>1, <1>3, FreePollTyped DEF DaemonStops, PollsTyped
  <2>3. PromptsTyped'
    BY <1>1, <1>3, NoPromptTyped DEF DaemonStops, PromptsTyped
  <2>4. EnvTyped'
    BY <1>1, <1>3 DEF DaemonStops, EnvTyped
  <2>5. now' \in Time /\ DbType(db)' /\ IssuedTyped'
    BY <1>1, <1>3 DEF DaemonStops, IssuedTyped
  <2> QED BY <2>1, <2>2, <2>3, <2>4, <2>5 DEF Typed
<1>4. CASE DaemonStarts \/ Tick \/ EndOfTime
  <2>1. now' \in Time
    BY <1>1, <1>4 DEF DaemonStarts, Tick, EndOfTime, vars, Time
  <2>2. DbType(db)' /\ MemTyped' /\ PollsTyped' /\ PromptsTyped' /\ EnvTyped' /\ IssuedTyped'
    BY <1>1, <1>4 DEF DaemonStarts, Tick, EndOfTime, vars, MemTyped, memVars, PollsTyped, PromptsTyped,
                      EnvTyped, envVars, IssuedTyped
  <2> QED BY <2>1, <2>2 DEF Typed
<1> QED BY <1>2, <1>3, <1>4

\* PromptSubmit and SessionEnd.
LEMMA PromptStepTyped ==
  ASSUME Typed, WaitInv, NEW s \in Sessions, PromptStep(s)
  PROVE  Typed'
<1>1. now \in Time /\ DbType(db) /\ MemTyped /\ PollsTyped /\ PromptsTyped /\ EnvTyped /\ IssuedTyped
  BY DEF Typed
<1>2. prompt[s] \in PromptType /\ prompt[s].t \in Time
  BY <1>1 DEF PromptsTyped, PromptType
<1>3. CASE ClassifyPrompt(s)
  <2> DEFINE q == prompt[s]
             notif == q.kind \in {"notif", "foreign"}
             d == IF notif THEN Ingest(db, s) ELSE db
             matched == q.id # NoId /\ IsForkSpawn(d, s, q.id)
             waking == CASE q.kind = "user" -> TRUE
                         [] q.kind = "wake" -> FALSE
                         [] OTHER -> ~matched /\ ~RecentlyWoke(s, now)
             r == [q EXCEPT !.pc = "apply", !.t = now, !.waking = waking]
  <2>1. DbType(d)
    BY <1>1, IngestTyped, TypedIsTypeOK
  <2>2. db' = MarkSpawnsTerminal(d, s, {q.id}, now) \/ db' = d
    BY <1>3 DEF ClassifyPrompt
  <2>3. prompt' = [prompt EXCEPT ![s] = r]
    BY <1>1, <1>3 DEF ClassifyPrompt, PromptsTyped, PromptType
  <2> HIDE DEF d
  <2>4. DbType(MarkSpawnsTerminal(d, s, {q.id}, now))
    BY <1>1, <2>1, TerminalTyped
  <2>5. waking \in BOOLEAN
    OBVIOUS
  <2> HIDE DEF waking
  <2>6. r \in PromptType
    BY <1>1, <1>2, <2>5, PromptFieldsTyped
  <2> HIDE DEF r
  <2>7. PromptsTyped'
    BY <1>1, <2>3, <2>6, PromptReplaced
  <2>8. NothingUnread \in [spawned : SUBSET SpawnIds, finished : SUBSET SpawnIds, tokens : Int]
    BY DEF NothingUnread, NoTokens
  <2>9. unread' = [unread EXCEPT ![s] = NothingUnread] \/ unread' = unread
    BY <1>3 DEF ClassifyPrompt
  <2>10. /\ pendingClose' = [pendingClose EXCEPT ![s] = 0]
         /\ UNCHANGED <<now, up, wokeAt, closeGen, closers, doomed, poll, claude, inbox, task,
                        prompts, crashes, issued>>
    BY <1>3 DEF ClassifyPrompt
  <2>11. EnvTyped'
    BY <1>1, <2>8, <2>9, <2>10 DEF EnvTyped
  <2>12. MemTyped'
    BY <1>1, <2>10 DEF MemTyped
  <2>13. now' \in Time /\ PollsTyped' /\ IssuedTyped'
    BY <1>1, <2>10 DEF PollsTyped, IssuedTyped
  <2> QED BY <2>1, <2>2, <2>4, <2>7, <2>11, <2>12, <2>13 DEF Typed
<1>4. CASE ApplyPrompt(s)
  <2> DEFINE d == UpsertSession(db, s, prompt[s].t)
             e == BumpPauseEpoch(d, s)
             q == [prompt[s] EXCEPT !.pc = "cancel"]
  <2>1. DbType(d)
    BY <1>1, <1>2, UpsertTyped
  <2>2. db' = ClearPendingDeps(e, s) \/ db' = d
    BY <1>4 DEF ApplyPrompt
  <2> HIDE DEF d
  <2>3. DbType(e)
    BY <2>1, BumpTyped
  <2> HIDE DEF e
  <2>4. DbType(ClearPendingDeps(e, s))
    BY <2>3, ClearTyped
  <2>5. q \in PromptType
    BY <1>1, <1>2, PromptFieldsTyped
  <2>6. prompt' = [prompt EXCEPT ![s] = q]
    BY <1>4 DEF ApplyPrompt
  <2> HIDE DEF q
  <2>7. PromptsTyped'
    BY <1>1, <2>5, <2>6, PromptReplaced
  <2>8. now' \in Time /\ MemTyped' /\ PollsTyped' /\ EnvTyped' /\ IssuedTyped'
    BY <1>1, <1>4 DEF ApplyPrompt, MemTyped, memVars, PollsTyped, EnvTyped, envVars, IssuedTyped
  <2> QED BY <2>1, <2>2, <2>4, <2>7, <2>8 DEF Typed
<1>5. CASE CancelPrompt(s) \/ PromptLost(s) \/ EndCloses(s)
  <2>1. PromptsTyped'
    BY <1>1, <1>5, PromptReplaced, NoPromptTyped DEF CancelPrompt, PromptLost, EndCloses
  <2>2. DbType(db)'
    BY <1>1, <1>5, CloseTyped DEF CancelPrompt, PromptLost, EndCloses, CloseSession
  <2>3. now' \in Time /\ MemTyped' /\ PollsTyped' /\ EnvTyped' /\ IssuedTyped'
    BY <1>1, <1>5 DEF CancelPrompt, PromptLost, EndCloses, MemTyped, memVars, PollsTyped, EnvTyped, envVars,
                      IssuedTyped
  <2> QED BY <2>1, <2>2, <2>3 DEF Typed
<1>6. CASE EndCancels(s)
  <2> DEFINE q == [prompt[s] EXCEPT !.pc = "close"]
  <2>1. q \in PromptType
    BY <1>1, <1>2, PromptFieldsTyped
  <2>2. prompt' = [prompt EXCEPT ![s] = q]
    BY <1>6 DEF EndCancels
  <2> HIDE DEF q
  <2>3. PromptsTyped'
    BY <1>1, <2>1, <2>2, PromptReplaced
  <2>4. now' \in Time /\ DbType(db)' /\ MemTyped' /\ PollsTyped' /\ EnvTyped' /\ IssuedTyped'
    BY <1>1, <1>6 DEF EndCancels, MemTyped, PollsTyped, EnvTyped, envVars, IssuedTyped
  <2> QED BY <2>3, <2>4 DEF Typed
<1> QED BY <1>3, <1>4, <1>5, <1>6 DEF PromptStep

\* A session's turns.
LEMMA SessionStepTyped ==
  ASSUME Typed, NEW s \in Sessions, SessionStep(s)
  PROVE  Typed'
<1>1. now \in Time /\ DbType(db) /\ MemTyped /\ PollsTyped /\ PromptsTyped /\ EnvTyped /\ IssuedTyped
  BY DEF Typed
<1>2. ASSUME NEW kind \in {"user", "bare", "foreign", "wake", "notif"}, NEW id \in SpawnIds \cup {NoId},
             BeginTurn(s, kind, id)
      PROVE  PromptsTyped' /\ claude' \in [Sessions -> {"new", "idle", "busy", "gone"}]
  <2> DEFINE q == [pc |-> "classify", kind |-> kind, id |-> id, waking |-> FALSE, t |-> 0]
  <2>1. q \in PromptType
    BY <1>2 DEF PromptType, Time
  <2>2. prompt' = [prompt EXCEPT ![s] = q] /\ claude' = [claude EXCEPT ![s] = "busy"]
    BY <1>2 DEF BeginTurn
  <2> HIDE DEF q
  <2> QED BY <1>1, <2>1, <2>2, PromptReplaced DEF EnvTyped
<1>3. CASE SessionStart(s)
  <2>1. DbType(db)'
    BY <1>1, <1>3, UpsertTyped DEF SessionStart
  <2>2. EnvTyped'
    BY <1>1, <1>3 DEF SessionStart, EnvTyped
  <2>3. now' \in Time /\ MemTyped' /\ PollsTyped' /\ PromptsTyped' /\ IssuedTyped'
    BY <1>1, <1>3 DEF SessionStart, MemTyped, PollsTyped, PromptsTyped, IssuedTyped
  <2> QED BY <2>1, <2>2, <2>3 DEF Typed
<1>4. CASE SessionEnd(s) \/ SessionDies(s)
  <2>1. PromptsTyped'
    BY <1>1, <1>4, PromptReplaced, NoPromptTyped DEF SessionEnd, SessionDies, PromptsTyped
  <2>2. EnvTyped'
    BY <1>1, <1>4 DEF SessionEnd, SessionDies, EnvTyped
  <2>3. now' \in Time /\ DbType(db)' /\ MemTyped' /\ PollsTyped' /\ IssuedTyped'
    BY <1>1, <1>4 DEF SessionEnd, SessionDies, MemTyped, memVars, PollsTyped, IssuedTyped
  <2> QED BY <2>1, <2>2, <2>3 DEF Typed
<1>5. CASE UserPrompt(s)
  <2>1. PromptsTyped' /\ claude' \in [Sessions -> {"new", "idle", "busy", "gone"}]
    BY <1>2, <1>5, DaemonAssumption DEF UserPrompt
  <2>2. EnvTyped'
    BY <1>1, <1>5, <2>1 DEF UserPrompt, EnvTyped
  <2>3. now' \in Time /\ DbType(db)' /\ MemTyped' /\ PollsTyped' /\ IssuedTyped'
    BY <1>1, <1>5 DEF UserPrompt, MemTyped, memVars, PollsTyped, IssuedTyped
  <2> QED BY <2>1, <2>2, <2>3 DEF Typed
<1>6. CASE WakeTurn(s)
  <2>1. PromptsTyped' /\ claude' \in [Sessions -> {"new", "idle", "busy", "gone"}]
    BY <1>2, <1>6 DEF WakeTurn
  <2>2. NewRuns(s) \subseteq SpawnIds
    BY DEF NewRuns
  <2>3. EnvTyped'
    BY <1>1, <1>6, <2>1, <2>2 DEF WakeTurn, EnvTyped
  <2>4. now' \in Time /\ DbType(db)' /\ MemTyped' /\ PollsTyped' /\ IssuedTyped'
    BY <1>1, <1>6 DEF WakeTurn, MemTyped, memVars, PollsTyped, IssuedTyped
  <2> QED BY <2>1, <2>3, <2>4 DEF Typed
<1>7. ASSUME NEW id \in SpawnIds, ForkEnds(s, id) PROVE Typed'
  <2>1. PromptsTyped' /\ claude' \in [Sessions -> {"new", "idle", "busy", "gone"}]
    BY <1>1, <1>2, <1>7 DEF ForkEnds, PromptsTyped, EnvTyped
  <2>2. EnvTyped'
    BY <1>1, <1>7, <2>1 DEF ForkEnds, EnvTyped
  <2>3. now' \in Time /\ DbType(db)' /\ MemTyped' /\ PollsTyped' /\ IssuedTyped'
    BY <1>1, <1>7 DEF ForkEnds, MemTyped, memVars, PollsTyped, IssuedTyped
  <2> QED BY <2>1, <2>2, <2>3 DEF Typed
<1>8. CASE EndTurn(s)
  <2>1. PollsTyped'
    BY <1>1, <1>8, PollReplaced, SentPollTyped DEF EndTurn
  <2> DEFINE Unreads == [spawned : SUBSET SpawnIds, finished : SUBSET SpawnIds, tokens : Int]
  <2>a. PICK n \in TokenValues \cup {NoTokens} :
           unread' = [unread EXCEPT ![s].tokens = IF n = NoTokens THEN @ ELSE n]
    BY <1>8 DEF EndTurn
  <2>b. n \in Int /\ unread \in [Sessions -> Unreads]
    BY <1>1, DaemonAssumption DEF EnvTyped, NoTokens
  <2>c. unread' \in [Sessions -> Unreads]
    BY <2>a, <2>b
  <2>2. EnvTyped'
    BY <1>1, <1>8, <2>c DEF EndTurn, EnvTyped
  <2>3. now' \in Time /\ DbType(db)' /\ MemTyped' /\ PromptsTyped' /\ IssuedTyped'
    BY <1>1, <1>8 DEF EndTurn, MemTyped, memVars, PromptsTyped, IssuedTyped
  <2> QED BY <2>1, <2>2, <2>3 DEF Typed
<1> QED BY <1>3, <1>4, <1>5, <1>6, <1>7, <1>8 DEF SessionStep

\* Every step keeps the types.
LEMMA NextTyped == Typed /\ WaitInv /\ [Next]_vars => Typed'
<1> SUFFICES ASSUME Typed, WaitInv, [Next]_vars PROVE Typed'
  OBVIOUS
<1>1. CASE UNCHANGED vars
  BY <1>1 DEF vars, Typed, MemTyped, memVars, PollsTyped, PromptsTyped, EnvTyped, envVars, IssuedTyped
<1>2. CASE Next
  BY <1>2, PollStepTyped, ConnStepTyped, PromptStepTyped, SessionStepTyped, CloserStepTyped,
     HouseStepTyped DEF Next
<1> QED BY <1>1, <1>2

\* Every piece of the daemon's state keeps its type, for any sessions, forks and
\* polls: no task's record mixes the fields of two, every stored hold waits for
\* forks of the batch, every deadline and trigger chosen is one there is
\* (daemon.rs, planner.rs, store.rs).
THEOREM DaemonTyped == Spec => []TypeOK
<1>1. Init => Typed
  <2> SUFFICES ASSUME Init PROVE Typed
    OBVIOUS
  <2>1. now \in Time /\ DbType(db) /\ IssuedTyped
    BY EmptyDbTyped DEF Init, Time, IssuedTyped
  <2>2. MemTyped
    BY DEF Init, MemTyped, Never
  <2>3. PollsTyped
    BY FreePollTyped DEF Init, PollsTyped
  <2>4. PromptsTyped
    BY NoPromptTyped DEF Init, PromptsTyped
  <2>5. EnvTyped
    BY DEF Init, EnvTyped, NothingUnread, NoTokens
  <2> QED BY <2>1, <2>2, <2>3, <2>4, <2>5 DEF Typed
<1>2. Typed /\ WaitInv => TypeOK
  BY TypedIsTypeOK
<1> QED BY <1>1, <1>2, NextTyped, WaitInvariant, PTL DEF Spec
=============================================================================
