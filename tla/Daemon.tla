------------------------------- MODULE Daemon -------------------------------
(***************************************************************************)
(* The autofork daemon and the Claude Code sessions that drive it.         *)
(*                                                                         *)
(* A session's hooks send requests.  PromptSubmit, SessionStart and        *)
(* SessionEnd are short events; Stop is a long poll (StopWait) that the    *)
(* daemon answers with a wake when forks come due.  Every request runs as  *)
(* its own task on a multi-threaded runtime, so each stretch of a handler  *)
(* between two lock acquisitions is an action of its own.                  *)
(*                                                                         *)
(* The database survives a daemon's death; waits, wokeAt, pendingClose,    *)
(* closers and every task do not.                                          *)
(***************************************************************************)
EXTENDS Store, DepGraph

CONSTANTS
    Polls,          \* bound: StopWait requests in flight at once, 1..n
    DefaultIdle,    \* default_idle_deadline, seconds
    Debounce,       \* wake_debounce
    WakeGrace,      \* AUTOFORK_WAKE_GRACE_SECS
    LossGrace,      \* AUTOFORK_POLL_LOSS_GRACE_MS, in seconds
    SessionTimeout, \* session_timeout, 0 for never
    Window,         \* DEFAULT_CONTEXT_WINDOW
    Window1M,       \* CONTEXT_WINDOW_1M
    Model1M,        \* the sessions whose model has the large window
    EnableTags,     \* [Sessions -> set of tags], the effective filters
    DisableTags,
    \* What the sessions may do.
    TokenValues,    \* context gauges a turn may end with
    PromptKinds,    \* subset of {"user", "bare", "foreign"}
    MaxPrompts,     \* bound: user prompts, of all sessions
    MaxTime,        \* bound: the clock
    MaxCrashes,     \* bound: daemon deaths
    LastInput,      \* bound: the sessions do nothing of their own after this time
    HookDeaths,     \* a live session's Stop hook may die (its 14400s timeout)
    LateHooks,      \* a prompt hook may give up waiting for its answer
    SessionsEnd,    \* sessions may quit or die
    Pruning,        \* `autofork prune` may be run
    Urgent          \* ready tasks run before the clock moves (liveness runs)

ASSUME DaemonAssumption ==
    /\ Polls \subseteq Nat \ {0}
    /\ IsFiniteSet(Polls)
    /\ {DefaultIdle, Debounce, WakeGrace, LossGrace, SessionTimeout,
        MaxPrompts, MaxTime, MaxCrashes, LastInput} \subseteq Nat
    /\ TokenValues \subseteq Nat
    /\ PromptKinds \subseteq {"user", "bare", "foreign"}
    /\ Model1M \subseteq Sessions
    /\ {HookDeaths, LateHooks, SessionsEnd, Pruning, Urgent} \subseteq BOOLEAN

NoPoll  == 0
Dropped == -1           \* a sender whose receiver is gone: its poll has returned
NoId    == <<0, 0>>     \* a notification of a task that is no fork

VARIABLES
    now,            \* seconds, as now() truncates them
    db,             \* the store
    \* daemon memory
    up,             \* the daemon is running
    waits,          \* per session, the poll whose sender is in the map
    cancelled,      \* the polls that were sent a cancellation
    wokeAt,         \* wake_issued_at
    pendingClose,   \* per session, the generation of a pending close, 0 if none
    closeGen,
    closers,        \* the tasks spawned by on_poll_lost
    doomed,         \* the reaper's list
    poll,           \* the StopWait tasks
    prompt,         \* the PromptSubmit task of each session
    \* sessions
    claude,         \* "new", "idle", "busy" or "gone"
    inbox,          \* forks a delivered wake told the session to spawn
    task,           \* its background fork runs
    unread,         \* what its transcript holds past the stored offset
    prompts,
    crashes,
    issued          \* history: the <<session, fork, latch key>> issued so far

memVars == <<up, waits, cancelled, wokeAt, pendingClose, closeGen, closers, doomed>>
envVars == <<claude, inbox, task, unread, prompts, crashes>>
vars == <<now, db, memVars, poll, prompt, envVars, issued>>

-----------------------------------------------------------------------------
\* Tasks.

FreePoll == [ pc |-> "free", s |-> NoPoll, t |-> 0, tokens |-> NoTokens,
              epoch |-> 0, base |-> 0, slept |-> 0, timer |-> 0,
              picks |-> {}, conn |-> FALSE ]

NoPrompt == [pc |-> "none", kind |-> "user", id |-> NoId, waking |-> FALSE, t |-> 0]

NothingUnread == [spawned |-> {}, finished |-> {}, tokens |-> NoTokens]

\* A poll that holds a receiver: between its registration and its return.
Registered == {"snapshot", "release", "delete", "eval", "sleep", "debounce",
               "select", "issue", "park"}

\* The await points of a poll, where a cancellation or a lost connection ends it.
Awaiting == {"sleep", "debounce", "park"}

PollsOf(s) == {p \in Polls : poll[p].pc # "free" /\ poll[p].s = s}
IsParked(s) == \E p \in PollsOf(s) : poll[p].pc \in Registered

Deadlines == IdleDeadlines({RunOn[f] : f \in Forks}, DefaultIdle)

-----------------------------------------------------------------------------
\* Selection (planner.rs).

TagThrottled(d, s, f, t) ==
    \E g \in Tags[f] \cap DOMAIN TagThrottle :
        RanWithin(d, Project[s], g, TagThrottle[g], t)

Throttled(d, s, f, t) ==
    d.roster[s][f] >= 0 /\ Age(t, d.roster[s][f]) < Throttle[f]

\* The forks due at `moments`, each with the trigger that is hit, judged by the
\* epoch of the session row the poll read.
SelectForks(d, s, epoch, moments, t) ==
    LET trigger(f) == MatchMoments(RunOn[f], moments, DefaultIdle)
    IN  { <<f, trigger(f)>> : f \in
            { g \in Forks :
                /\ TagsAllowed(Tags[g], EnableTags[s], DisableTags[s])
                /\ trigger(g) # NoTrigger
                /\ ~Throttled(d, s, g, t)
                /\ ~TagThrottled(d, s, g, t)
                /\ ~IsLatched(d, s, g, LatchKey(trigger(g), epoch)) } }

PollMoments(q) ==
    ElapsedMoments(q.tokens,
        ResolveContextWindow(q.s \in Model1M, q.tokens, Window, Window1M),
        q.base, Deadlines, now)

ForksOf(picks) == {x[1] : x \in picks}

\* What a wake stamps: throttles, runs and latches of every selected fork, and
\* the hold of those that are not roots.
StampWake(d, s, epoch, picks, t) ==
    LET deps == ResolveDeps([f \in ForksOf(picks) |-> After[f]])
        latches == { <<x[1], LatchKey(x[2], epoch)>> : x \in picks }
    IN  InsertPendingDeps(
            LatchFires(
                RecordIssuedRuns(
                    TouchForksRan(d, s, ForksOf(picks), t), s, picks, t),
                s, latches),
            s, deps, t)

WakeRoots(picks) ==
    LET roots == Roots(ResolveDeps([f \in ForksOf(picks) |-> After[f]]))
    IN  {x \in picks : x[1] \in roots}

-----------------------------------------------------------------------------
\* Transcript (daemon.rs ingest_transcript): what is unread is applied.

\* Mutant of Ingest: the launch of a background fork is taken for its end.
IngestLaunchIsEnd(d, s) ==
    SetTranscriptGauge(
        MarkSpawnsTerminal(
            RecordSpawns(d, s, unread[s].spawned),
            s, unread[s].spawned \cup unread[s].finished, now),
        s, unread[s].tokens)

Ingest(d, s) ==
    SetTranscriptGauge(
        MarkSpawnsTerminal(
            RecordSpawns(d, s, unread[s].spawned),
            s, unread[s].finished, now),
        s, unread[s].tokens)

-----------------------------------------------------------------------------
\* StopWait (daemon.rs handle_stop_wait).

Step(p, next) == poll' = [poll EXCEPT ![p].pc = next]

\* The receiver of p is dropped when handle_stop_wait returns or is dropped itself.
\* Its sender, if it was not used, stays in the map.
DropReceiver(p) ==
    /\ cancelled' = cancelled \ {p}
    /\ waits' = [s \in Sessions |-> IF waits[s] = p THEN Dropped ELSE waits[s]]

\* A cancellation goes to the sender that is in the map for s, if there is one; a
\* receiver that is gone takes no notice.
SendCancel(s) == cancelled' = cancelled \cup ({waits[s]} \cap Polls)

\* handle_stop_wait returns without a wake: the hook exits, nothing happens.
Forget(p) ==
    /\ poll' = [poll EXCEPT ![p] = FreePoll]
    /\ DropReceiver(p)

\* handle_stop_wait returns a wake for `picks`.
AnswerWake(p, picks) ==
    /\ poll' = [poll EXCEPT ![p].pc = "wake", ![p].picks = picks]
    /\ DropReceiver(p)
    /\ wokeAt' = [wokeAt EXCEPT ![poll[p].s] = now]

\* The request is received: a poll proves the session alive.
StopArrives(p) ==
    /\ up
    /\ poll[p].pc = "sent"
    /\ pendingClose' = [pendingClose EXCEPT ![poll[p].s] = 0]
    /\ poll' = [poll EXCEPT ![p].pc = "arrive", ![p].t = now]
    /\ UNCHANGED <<now, db, up, waits, cancelled, wokeAt, closeGen, closers, doomed,
                   prompt, envVars, issued>>

\* The session row, in one lock: the first Stop of a pause is its baseline.
StopRecorded(p) ==
    LET s == poll[p].s
        t == poll[p].t
    IN  /\ poll[p].pc = "arrive"
        /\ db' = SetPauseStartedAtIfUnset(UpsertSession(db, s, t), s, t)
        /\ Step(p, "ingest")
        /\ UNCHANGED <<now, memVars, prompt, envVars, issued>>

\* The transcript may not have been flushed yet when the Stop reads it.
StopIngests(p) ==
    LET s == poll[p].s IN
    /\ poll[p].pc = "ingest"
    /\ \/ /\ db' = Ingest(db, s)
          /\ unread' = [unread EXCEPT ![s] = NothingUnread]
       \/ /\ unread[s] # NothingUnread
          /\ UNCHANGED <<db, unread>>
    /\ poll' = [poll EXCEPT ![p].pc = "register", ![p].tokens = db'.sess[s].tokens]
    /\ UNCHANGED <<now, memVars, prompt, claude, inbox, task, prompts, crashes, issued>>

\* Mutant of Register: the older wait of the session is not cancelled.
RegisterKeepsOld(p) ==
    LET s == poll[p].s IN
    /\ poll[p].pc = "register"
    /\ waits' = [waits EXCEPT ![s] = p]
    /\ Step(p, "snapshot")
    /\ UNCHANGED <<now, db, up, cancelled, wokeAt, pendingClose, closeGen, closers,
                   doomed, prompt, envVars, issued>>

\* Registering a wait cancels the session's older one.
Register(p) ==
    LET s == poll[p].s IN
    /\ poll[p].pc = "register"
    /\ waits' = [waits EXCEPT ![s] = p]
    /\ SendCancel(s)
    /\ Step(p, "snapshot")
    /\ UNCHANGED <<now, db, up, wokeAt, pendingClose, closeGen, closers, doomed,
                   prompt, envVars, issued>>

\* Mutant of TakeSnapshot: a baseline that is unset again is used as it is.
TakeSnapshotRaw(p) ==
    LET row == db.sess[poll[p].s] IN
    /\ poll[p].pc = "snapshot"
    /\ poll' = [poll EXCEPT ![p].pc = "release",
                            ![p].epoch = row.epoch,
                            ![p].base = row.pauseStart]
    /\ UNCHANGED <<now, db, memVars, prompt, envVars, issued>>

\* The session row all later decisions of this poll are based on.
TakeSnapshot(p) ==
    LET row == db.sess[poll[p].s] IN
    /\ poll[p].pc = "snapshot"
    /\ poll' = [poll EXCEPT ![p].pc = "release",
                            ![p].epoch = row.epoch,
                            ![p].base = IF row.pauseStart = Unset THEN poll[p].t
                                                                  ELSE row.pauseStart]
    /\ UNCHANGED <<now, db, memVars, prompt, envVars, issued>>

\* release_due, first lock: which held dependents are releasable.
ListReleasable(p) ==
    LET due == Releasable(db, poll[p].s) IN
    /\ poll[p].pc = "release"
    /\ IF due = {} THEN Step(p, "eval")
       ELSE poll' = [poll EXCEPT ![p].pc = "delete",
                                 ![p].picks = {<<f, NoTrigger>> : f \in due}]
    /\ UNCHANGED <<now, db, memVars, prompt, envVars, issued>>

\* release_due, second lock: they are no longer held, and go into a wake.
DeleteReleased(p) ==
    LET s == poll[p].s IN
    /\ poll[p].pc = "delete"
    /\ db' = DeletePendingDeps(db, s, ForksOf(poll[p].picks))
    /\ AnswerWake(p, poll[p].picks)
    /\ UNCHANGED <<now, up, pendingClose, closeGen, closers, doomed, prompt,
                   envVars, issued>>

\* due_now: is a fork due?  Evaluation rosters the forks it sees.
DueNow(p, moments) ==
    /\ moments # {}
    /\ SelectForks(RefreshRoster(db, poll[p].s), poll[p].s, poll[p].epoch,
                   moments, now) # {}

\* The poll goes on to an await whose timer, if any, is not up: a cancellation
\* that was already sent is seen at once.
Await(p, q) ==
    IF p \in cancelled THEN Forget(p)
    ELSE poll' = [poll EXCEPT ![p] = q] /\ UNCHANGED <<waits, cancelled>>

\* The first deadline of the Phase A loop past `slept`; an elapsed one does not
\* wait, and its select! may take either branch.
SleepUntilNext(p, slept) ==
    LET ahead == {d \in Deadlines : d > slept}
        next == CHOOSE d \in ahead : \A e \in ahead : d <= e
        asleep == [poll[p] EXCEPT !.pc = "sleep", !.slept = next]
    IN  IF ahead = {} THEN Await(p, [poll[p] EXCEPT !.pc = "park"])
        ELSE IF poll[p].base + next > now THEN Await(p, asleep)
        ELSE poll' = [poll EXCEPT ![p] = asleep] /\ UNCHANGED <<waits, cancelled>>

\* A fork is due: the debounce window opens, if there is one.
OpenWindow(p) ==
    IF Debounce > 0
    THEN Await(p, [poll[p] EXCEPT !.pc = "debounce", !.timer = now + Debounce])
    ELSE Step(p, "select") /\ UNCHANGED <<waits, cancelled>>

\* Mutant of AfterDueNow: the poll parks at the first deadline that yields
\* nothing.
AfterDueNowOnce(p, slept) ==
    LET moments == PollMoments(poll[p])
    IN  /\ db' = IF moments = {} THEN db ELSE RefreshRoster(db, poll[p].s)
        /\ \/ DueNow(p, moments) /\ OpenWindow(p)
           \/ ~DueNow(p, moments) /\ slept = 0 /\ SleepUntilNext(p, 0)
           \/ ~DueNow(p, moments) /\ slept > 0 /\ Await(p, [poll[p] EXCEPT !.pc = "park"])

\* After a due_now: the debounce window, or the next deadline, or parked.
AfterDueNow(p, slept) ==
    LET moments == PollMoments(poll[p])
    IN  /\ db' = IF moments = {} THEN db ELSE RefreshRoster(db, poll[p].s)
        /\ \/ DueNow(p, moments) /\ OpenWindow(p)
           \/ ~DueNow(p, moments) /\ SleepUntilNext(p, slept)

\* Phase A, at once and then at each deadline.
Evaluate(p) ==
    /\ poll[p].pc = "eval"
    /\ AfterDueNow(p, 0)
    /\ UNCHANGED <<now, up, wokeAt, pendingClose, closeGen, closers, doomed, prompt,
                   envVars, issued>>

DeadlinePasses(p) ==
    /\ poll[p].pc = "sleep"
    /\ now >= poll[p].base + poll[p].slept
    /\ AfterDueNow(p, poll[p].slept)
    /\ UNCHANGED <<now, up, wokeAt, pendingClose, closeGen, closers, doomed, prompt,
                   envVars, issued>>

\* Phase B ends.  A select! with two ready branches may take either, so a
\* cancellation that has already been sent does not prevent it.
DebounceEnds(p) ==
    /\ poll[p].pc = "debounce"
    /\ now >= poll[p].timer
    /\ Step(p, "select")
    /\ UNCHANGED <<now, db, memVars, prompt, envVars, issued>>

\* Phase C, the selection.
Reselect(p) ==
    LET s == poll[p].s
        d == RefreshRoster(db, s)
        picks == SelectForks(d, s, poll[p].epoch, PollMoments(poll[p]), now)
    IN  /\ poll[p].pc = "select"
        /\ db' = d
        /\ IF picks = {} THEN Await(p, [poll[p] EXCEPT !.pc = "park"])
           ELSE /\ poll' = [poll EXCEPT ![p].pc = "issue", ![p].picks = picks]
                /\ UNCHANGED <<waits, cancelled>>
        /\ UNCHANGED <<now, up, wokeAt, pendingClose, closeGen, closers, doomed, prompt,
                       envVars, issued>>

\* Mutant of BuildWake: the wake is issued without its stamps.
BuildWakeUnstamped(p) ==
    LET s == poll[p].s
        picks == poll[p].picks
    IN  /\ poll[p].pc = "issue"
        /\ db' = db
        /\ issued' = issued \cup { <<s, x[1], LatchKey(x[2], poll[p].epoch)>> : x \in picks }
        /\ AnswerWake(p, WakeRoots(picks))
        /\ UNCHANGED <<now, up, pendingClose, closeGen, closers, doomed, prompt, envVars>>

\* Phase C, build_wake: the stamps, in one lock, and the answer.
BuildWake(p) ==
    LET s == poll[p].s
        picks == poll[p].picks
    IN  /\ poll[p].pc = "issue"
        /\ db' = StampWake(db, s, poll[p].epoch, picks, now)
        /\ issued' = issued \cup { <<s, x[1], LatchKey(x[2], poll[p].epoch)>> : x \in picks }
        /\ AnswerWake(p, WakeRoots(picks))
        /\ UNCHANGED <<now, up, pendingClose, closeGen, closers, doomed, prompt, envVars>>

\* Mutant of SeesCancel: a poll that is parked for good waits on.
SeesCancelUnlessParked(p) ==
    /\ poll[p].pc \in Awaiting
    /\ p \in cancelled
    /\ IF poll[p].pc = "park" THEN UNCHANGED <<poll, cancelled, waits>> ELSE Forget(p)
    /\ UNCHANGED <<now, db, up, wokeAt, pendingClose, closeGen, closers, doomed,
                   prompt, envVars, issued>>

\* A cancellation is seen at an await point: the poll returns Waited.
SeesCancel(p) ==
    /\ poll[p].pc \in Awaiting
    /\ p \in cancelled
    /\ Forget(p)
    /\ UNCHANGED <<now, db, up, wokeAt, pendingClose, closeGen, closers, doomed,
                   prompt, envVars, issued>>

\* The answer reaches the hook, which exits and hands the session its wake; or
\* the hook is gone and the wake is lost.
Deliver(p) ==
    LET s == poll[p].s IN
    /\ poll[p].pc = "wake"
    /\ inbox' = IF poll[p].conn THEN [inbox EXCEPT ![s] = @ \cup ForksOf(poll[p].picks)]
                                ELSE inbox
    /\ Forget(p)
    /\ UNCHANGED <<now, db, up, wokeAt, pendingClose, closeGen, closers, doomed,
                   prompt, claude, task, unread, prompts, crashes, issued>>

-----------------------------------------------------------------------------
\* Lost polls (server.rs handle_conn, daemon.rs on_poll_lost).

\* The hook process of a poll dies: with its session, or at its own timeout.
HookDies(p) ==
    /\ poll[p].pc # "free" /\ poll[p].conn
    /\ (HookDeaths /\ now <= LastInput) \/ claude[poll[p].s] = "gone"
    /\ poll' = [poll EXCEPT ![p].conn = FALSE]
    /\ UNCHANGED <<now, db, memVars, prompt, envVars, issued>>

\* It died before its request was written, or read.
NeverSent(p) ==
    /\ poll[p].pc = "sent" /\ ~poll[p].conn
    /\ Forget(p)
    /\ UNCHANGED <<now, db, up, wokeAt, pendingClose, closeGen, closers, doomed,
                   prompt, envVars, issued>>

\* The connection task sees the end of file while the poll awaits, or before its
\* handler has run at all (an unbiased select!): the poll is dropped and a close of
\* the session is scheduled.
LosePoll(p) ==
    LET s == poll[p].s IN
    /\ poll[p].pc \in Awaiting \/ (poll[p].pc = "sent" /\ up)
    /\ ~poll[p].conn
    /\ Forget(p)
    /\ closeGen' = closeGen + 1
    /\ pendingClose' = [pendingClose EXCEPT ![s] = closeGen + 1]
    /\ closers' = closers \cup {[s |-> s, gen |-> closeGen + 1,
                                 at |-> now + LossGrace, pc |-> "grace"]}
    /\ UNCHANGED <<now, db, up, wokeAt, doomed, prompt, envVars, issued>>

\* The grace ends: still the same pending close?
GraceEnds(c) ==
    /\ c.pc = "grace" /\ now >= c.at
    /\ IF pendingClose[c.s] = c.gen
       THEN /\ pendingClose' = [pendingClose EXCEPT ![c.s] = 0]
            /\ closers' = (closers \ {c}) \cup {[c EXCEPT !.pc = "close"]}
       ELSE /\ closers' = closers \ {c}
            /\ UNCHANGED pendingClose
    /\ UNCHANGED <<now, db, up, waits, cancelled, wokeAt, closeGen, doomed, poll,
                   prompt, envVars, issued>>

\* Then the session is closed, under the store's lock.
GraceCloses(c) ==
    /\ c.pc = "close"
    /\ db' = IF IsOpen(db, c.s) THEN CloseSession(db, c.s) ELSE db
    /\ closers' = closers \ {c}
    /\ UNCHANGED <<now, up, waits, cancelled, wokeAt, pendingClose, closeGen, doomed,
                   poll, prompt, envVars, issued>>

-----------------------------------------------------------------------------
\* PromptSubmit (daemon.rs handle_event).

RecentlyWoke(s, t) == wokeAt[s] # Never /\ t - wokeAt[s] < WakeGrace

\* Mutant of ClassifyPrompt: the transcript is not read before classifying.
ClassifyPromptUnread(s) ==
    LET q == prompt[s]
        d == db
        matched == q.id # NoId /\ IsForkSpawn(d, s, q.id)
    IN  /\ up
        /\ q.pc = "classify"
        /\ pendingClose' = [pendingClose EXCEPT ![s] = 0]
        /\ db' = IF matched THEN MarkSpawnsTerminal(d, s, {q.id}, now) ELSE d
        /\ prompt' = [prompt EXCEPT ![s].pc = "apply", ![s].t = now,
                        ![s].waking = CASE q.kind = "user" -> TRUE
                                        [] q.kind = "wake" -> FALSE
                                        [] OTHER -> ~matched /\ ~RecentlyWoke(s, now)]
        /\ UNCHANGED <<now, up, waits, cancelled, wokeAt, closeGen, closers, doomed,
                       poll, envVars, issued>>

\* Is it genuine activity?  A task notification is matched against the spawn
\* registry, after the transcript was read.
ClassifyPrompt(s) ==
    LET q == prompt[s]
        notif == q.kind \in {"notif", "foreign"}
        d == IF notif THEN Ingest(db, s) ELSE db
        matched == q.id # NoId /\ IsForkSpawn(d, s, q.id)
    IN  /\ up
        /\ q.pc = "classify"
        /\ pendingClose' = [pendingClose EXCEPT ![s] = 0]
        /\ db' = IF matched THEN MarkSpawnsTerminal(d, s, {q.id}, now) ELSE d
        /\ unread' = IF notif THEN [unread EXCEPT ![s] = NothingUnread] ELSE unread
        /\ prompt' = [prompt EXCEPT ![s].pc = "apply", ![s].t = now,
                        ![s].waking = CASE q.kind = "user" -> TRUE
                                        [] q.kind = "wake" -> FALSE
                                        [] OTHER -> ~matched /\ ~RecentlyWoke(s, now)]
        /\ UNCHANGED <<now, up, waits, cancelled, wokeAt, closeGen, closers, doomed,
                       poll, claude, inbox, task, prompts, crashes, issued>>

\* The session row, in one lock: genuine activity begins a new pause and drops
\* the held dependents.
ApplyPrompt(s) ==
    LET q == prompt[s]
        d == UpsertSession(db, s, q.t)
    IN  /\ q.pc = "apply"
        /\ db' = IF q.waking THEN ClearPendingDeps(BumpPauseEpoch(d, s), s) ELSE d
        /\ prompt' = [prompt EXCEPT ![s].pc = "cancel"]
        /\ UNCHANGED <<now, memVars, poll, envVars, issued>>

\* cancel_wait: the sender is taken out of the map and used.
CancelWait(s) ==
    /\ waits' = [waits EXCEPT ![s] = NoPoll]
    /\ SendCancel(s)

\* A turn is in flight either way: the parked poll is cancelled.
CancelPrompt(s) ==
    /\ prompt[s].pc = "cancel"
    /\ CancelWait(s)
    /\ prompt' = [prompt EXCEPT ![s] = NoPrompt]
    /\ UNCHANGED <<now, db, up, wokeAt, pendingClose, closeGen, closers, doomed,
                   poll, envVars, issued>>

\* No daemon to connect to: the event is lost.
PromptLost(s) ==
    /\ ~up
    /\ prompt[s].pc = "classify"
    /\ prompt' = [prompt EXCEPT ![s] = NoPrompt]
    /\ UNCHANGED <<now, db, memVars, poll, envVars, issued>>

-----------------------------------------------------------------------------
\* SessionStart and SessionEnd.

\* SessionStart is sent when a session starts and again when it compacts.
SessionStart(s) ==
    /\ up
    /\ now <= LastInput
    /\ claude[s] \in {"new", "busy"}
    /\ claude' = [claude EXCEPT ![s] = IF @ = "new" THEN "idle" ELSE @]
    /\ pendingClose' = [pendingClose EXCEPT ![s] = 0]
    /\ db' = UpsertSession(db, s, now)
    /\ UNCHANGED <<now, up, waits, cancelled, wokeAt, closeGen, closers, doomed,
                   poll, prompt, inbox, task, unread, prompts, crashes, issued>>

\* The session quits and sends SessionEnd; the hook starts a daemon if there is
\* none.
SessionEnd(s) ==
    /\ SessionsEnd
    /\ now <= LastInput
    /\ claude[s] \in {"idle", "busy"}
    /\ prompt[s].pc = "none"
    /\ claude' = [claude EXCEPT ![s] = "gone"]
    /\ prompt' = [prompt EXCEPT ![s] = [NoPrompt EXCEPT !.pc = "end"]]
    /\ UNCHANGED <<now, db, memVars, poll, inbox, task, unread, prompts, crashes, issued>>

\* handle_event of SessionEnd: the parked poll is cancelled,
EndCancels(s) ==
    /\ up
    /\ prompt[s].pc = "end"
    /\ pendingClose' = [pendingClose EXCEPT ![s] = 0]
    /\ CancelWait(s)
    /\ prompt' = [prompt EXCEPT ![s].pc = "close"]
    /\ UNCHANGED <<now, db, up, wokeAt, closeGen, closers, doomed, poll, envVars, issued>>

\* and the session closed.
EndCloses(s) ==
    /\ prompt[s].pc = "close"
    /\ db' = CloseSession(db, s)
    /\ prompt' = [prompt EXCEPT ![s] = NoPrompt]
    /\ UNCHANGED <<now, memVars, poll, envVars, issued>>

\* Its process dies without a word.
SessionDies(s) ==
    /\ SessionsEnd
    /\ now <= LastInput
    /\ claude[s] \in {"idle", "busy"}
    /\ claude' = [claude EXCEPT ![s] = "gone"]
    /\ UNCHANGED <<now, db, memVars, poll, prompt, inbox, task, unread, prompts,
                   crashes, issued>>

-----------------------------------------------------------------------------
\* Reaper (sweep.rs) and prune (server.rs).

\* Mutant of TimedOut: a timeout is taken for none.
TimedOutNever(s) ==
    /\ IsOpen(db, s)
    /\ SessionTimeout = 0
    /\ Age(now, db.sess[s].lastActivity) >= SessionTimeout

TimedOut(s) ==
    /\ IsOpen(db, s)
    /\ SessionTimeout > 0
    /\ Age(now, db.sess[s].lastActivity) >= SessionTimeout

\* The reaper lists the timed-out sessions under the lock, releases it,
ReaperScans ==
    /\ up
    /\ doomed = {}
    /\ \E s \in Sessions : TimedOut(s)
    /\ doomed' = {s \in Sessions : TimedOut(s)}
    /\ UNCHANGED <<now, db, up, waits, cancelled, wokeAt, pendingClose, closeGen,
                   closers, poll, prompt, envVars, issued>>

\* and closes them one by one.
ReaperCloses(s) ==
    /\ s \in doomed
    /\ db' = CloseSession(db, s)
    /\ doomed' = doomed \ {s}
    /\ UNCHANGED <<now, up, waits, cancelled, wokeAt, pendingClose, closeGen,
                   closers, poll, prompt, envVars, issued>>

\* The [stale?] heuristic: open, no parked poll, idle far past the deadline.
IsStale(s) ==
    /\ IsOpen(db, s)
    /\ ~IsParked(s)
    /\ DefaultIdle > 0
    /\ now - db.sess[s].lastActivity > 2 * DefaultIdle

\* Prune judges and closes the sessions under one lock.
Prune ==
    /\ Pruning
    /\ up
    /\ \E s \in Sessions : IsStale(s)
    /\ db' = CloseSessions(db, {s \in Sessions : IsStale(s)})
    /\ UNCHANGED <<now, memVars, poll, prompt, envVars, issued>>

-----------------------------------------------------------------------------
\* The daemon's death (crash, shutdown request, quiet exit) and restart: every
\* task ends with it.  A request not yet received is not affected.

DaemonStops ==
    /\ up
    /\ crashes < MaxCrashes
    /\ up' = FALSE
    /\ waits' = [s \in Sessions |-> NoPoll]
    /\ cancelled' = {}
    /\ wokeAt' = [s \in Sessions |-> Never]
    /\ pendingClose' = [s \in Sessions |-> 0]
    /\ closeGen' = 0
    /\ closers' = {}
    /\ doomed' = {}
    /\ poll' = [p \in Polls |-> IF poll[p].pc = "sent" THEN poll[p] ELSE FreePoll]
    /\ prompt' = [s \in Sessions |->
                    IF prompt[s].pc \in {"classify", "end"} THEN prompt[s] ELSE NoPrompt]
    /\ crashes' = crashes + 1
    /\ UNCHANGED <<now, db, claude, inbox, task, unread, prompts, issued>>

DaemonStarts ==
    /\ ~up
    /\ up' = TRUE
    /\ UNCHANGED <<now, db, waits, cancelled, wokeAt, pendingClose, closeGen,
                   closers, doomed, poll, prompt, envVars, issued>>

-----------------------------------------------------------------------------
\* Sessions (Claude Code, and the hook CLI's PromptSubmit and Stop).

BeginTurn(s, kind, id) ==
    /\ claude[s] = "idle"
    /\ prompt[s].pc = "none"
    /\ claude' = [claude EXCEPT ![s] = "busy"]
    /\ prompt' = [prompt EXCEPT ![s] =
                    [pc |-> "classify", kind |-> kind, id |-> id, waking |-> FALSE, t |-> 0]]

\* The user types, or (kind "foreign") a background task that is no fork ends.
UserPrompt(s) ==
    /\ now <= LastInput
    /\ prompts < MaxPrompts
    /\ prompts' = prompts + 1
    /\ \E kind \in PromptKinds : BeginTurn(s, kind, NoId)
    /\ UNCHANGED <<now, db, memVars, poll, inbox, task, unread, crashes, issued>>

\* The runs a wake's spawn blocks start: the next unused id of each fork,
\* unless a run of the fork is still going.
NewRuns(s) ==
    { id \in SpawnIds :
        /\ id[1] \in inbox[s]
        /\ task[s][id] = "unused"
        /\ \A k \in 1..MaxRuns : k < id[2] => task[s][<<id[1], k>>] = "done" }

\* A delivered wake starts a turn, in which the session spawns the forks.
WakeTurn(s) ==
    /\ inbox[s] # {}
    /\ BeginTurn(s, "wake", NoId)
    /\ task' = [task EXCEPT ![s] =
                  [id \in SpawnIds |-> IF id \in NewRuns(s) THEN "running" ELSE @[id]]]
    /\ unread' = [unread EXCEPT ![s].spawned = @ \cup NewRuns(s)]
    /\ inbox' = [inbox EXCEPT ![s] = {}]
    /\ UNCHANGED <<now, db, memVars, poll, prompts, crashes, issued>>

\* A fork ends.  Its notification starts a turn, or joins the one in flight.
ForkEnds(s, id) ==
    /\ task[s][id] = "running"
    /\ task' = [task EXCEPT ![s][id] = "done"]
    /\ unread' = [unread EXCEPT ![s].finished = @ \cup {id}]
    /\ \/ BeginTurn(s, "notif", id)
       \/ claude[s] = "busy" /\ UNCHANGED <<claude, prompt>>
    /\ UNCHANGED <<now, db, memVars, poll, inbox, prompts, crashes, issued>>

\* The turn ends and the asynchronous Stop hook is started.  The prompt hook is
\* waited for, unless it gives up on its answer.
EndTurn(s) ==
    /\ claude[s] = "busy"
    /\ prompt[s].pc = "none" \/ LateHooks
    /\ claude' = [claude EXCEPT ![s] = "idle"]
    /\ \E p \in Polls :
          /\ poll[p].pc = "free"
          /\ \A q \in Polls : poll[q].pc = "free" => p <= q
          /\ poll' = [poll EXCEPT ![p] =
                        [FreePoll EXCEPT !.pc = "sent", !.s = s, !.conn = TRUE]]
    /\ \E n \in TokenValues \cup {NoTokens} :
          unread' = [unread EXCEPT ![s].tokens = IF n = NoTokens THEN @ ELSE n]
    /\ UNCHANGED <<now, db, memVars, prompt, inbox, task, prompts, crashes, issued>>

\* Some task of the daemon, or a turn or a wake of a session, is ready to go on.  A
\* request that finds no daemon is not: nothing says when one is started.
Ready ==
    \/ \E p \in Polls :
          LET q == poll[p] IN
          \/ q.pc \in {"arrive", "ingest", "register", "snapshot", "release",
                      "delete", "eval", "select", "issue", "wake"}
          \/ q.pc = "sent" /\ (up \/ ~q.conn \/ claude[q.s] = "gone")
          \/ q.pc = "sleep" /\ now >= q.base + q.slept
          \/ q.pc = "debounce" /\ now >= q.timer
          \/ q.pc \in Awaiting /\ (p \in cancelled \/ ~q.conn \/ claude[q.s] = "gone")
    \/ \E s \in Sessions :
          \/ prompt[s].pc # "none" /\ (up \/ prompt[s].pc # "end")
          \/ claude[s] = "idle" /\ inbox[s] # {}
          \/ claude[s] = "busy" /\ now >= LastInput
    \/ \E c \in closers : c.pc = "close" \/ now >= c.at
    \/ \E s \in Sessions : s \in doomed \/ (up /\ TimedOut(s))

Tick ==
    /\ now < MaxTime
    /\ Urgent => ~Ready
    /\ now' = now + 1
    /\ UNCHANGED <<db, memVars, poll, prompt, envVars, issued>>

\* The bound on the clock is reached.
EndOfTime == now = MaxTime /\ (Urgent => ~Ready) /\ UNCHANGED vars

-----------------------------------------------------------------------------
Init ==
    /\ now = 0
    /\ db = EmptyDb
    /\ up = TRUE
    /\ waits = [s \in Sessions |-> NoPoll]
    /\ cancelled = {}
    /\ wokeAt = [s \in Sessions |-> Never]
    /\ pendingClose = [s \in Sessions |-> 0]
    /\ closeGen = 0
    /\ closers = {}
    /\ doomed = {}
    /\ poll = [p \in Polls |-> FreePoll]
    /\ prompt = [s \in Sessions |-> NoPrompt]
    /\ claude = [s \in Sessions |-> "new"]
    /\ inbox = [s \in Sessions |-> {}]
    /\ task = [s \in Sessions |-> [id \in SpawnIds |-> "unused"]]
    /\ unread = [s \in Sessions |-> NothingUnread]
    /\ prompts = 0
    /\ crashes = 0
    /\ issued = {}

PollStep(p) ==
    \/ StopArrives(p) \/ StopRecorded(p) \/ StopIngests(p) \/ Register(p) \/ TakeSnapshot(p)
    \/ ListReleasable(p) \/ DeleteReleased(p)
    \/ Evaluate(p) \/ DeadlinePasses(p) \/ DebounceEnds(p)
    \/ Reselect(p) \/ BuildWake(p) \/ SeesCancel(p) \/ Deliver(p)

ConnStep(p) == HookDies(p) \/ NeverSent(p) \/ LosePoll(p)

PromptStep(s) ==
    \/ ClassifyPrompt(s) \/ ApplyPrompt(s) \/ CancelPrompt(s) \/ PromptLost(s)
    \/ EndCancels(s) \/ EndCloses(s)

CloserStep == \E c \in closers : GraceEnds(c) \/ GraceCloses(c)

ReaperStep == ReaperScans \/ \E s \in Sessions : ReaperCloses(s)

SessionStep(s) ==
    \/ SessionStart(s) \/ SessionEnd(s) \/ SessionDies(s)
    \/ UserPrompt(s) \/ WakeTurn(s) \/ EndTurn(s)
    \/ \E id \in SpawnIds : ForkEnds(s, id)

Next ==
    \/ \E p \in Polls : PollStep(p) \/ ConnStep(p)
    \/ \E s \in Sessions : PromptStep(s) \/ SessionStep(s)
    \/ CloserStep
    \/ ReaperStep
    \/ Prune
    \/ DaemonStops \/ DaemonStarts
    \/ Tick \/ EndOfTime

Spec == Init /\ [][Next]_vars

\* Fairness: tokio runs every task that can go on, the clock advances, and the
\* sessions finish their turns and act on the wakes they are given.  Nothing starts a
\* daemon: hooks and commands do, and there may be none.
Fairness ==
    /\ \A p \in Polls : WF_vars(PollStep(p)) /\ WF_vars(NeverSent(p) \/ LosePoll(p))
    /\ \A p \in Polls : WF_vars(HookDies(p) /\ claude[poll[p].s] = "gone")
    /\ \A s \in Sessions : WF_vars(PromptStep(s)) /\ WF_vars(EndTurn(s)) /\ WF_vars(WakeTurn(s))
    /\ WF_vars(CloserStep) /\ WF_vars(ReaperStep) /\ WF_vars(Tick)

FairSpec == Spec /\ Fairness

-----------------------------------------------------------------------------
\* Properties.

Time == Nat
Triggers == (TriggerKinds \cup {"none"}) \X Int
Keys == (TriggerKinds \cup {"none", "idle-pause"}) \X Int

PollType ==
    [ pc : {"free", "sent", "arrive", "ingest", "register", "wake"} \cup Registered,
      s : Sessions \cup {NoPoll}, t : Time, tokens : Int, epoch : Nat, base : Time,
      slept : Nat, timer : Nat, picks : SUBSET (Forks \X Triggers), conn : BOOLEAN ]

PromptType ==
    [ pc : {"none", "classify", "apply", "cancel", "end", "close"},
      kind : {"user", "bare", "foreign", "wake", "notif"},
      id : SpawnIds \cup {NoId}, waking : BOOLEAN, t : Time ]

DbType(d) ==
    /\ DOMAIN d = {"sess", "roster", "fires", "runs", "spawns", "pending"}
    /\ d.sess \in [Sessions -> [status : {"none", "open", "closed"}, epoch : Nat,
                       pauseStart : Time \cup {Unset}, lastActivity : Time, tokens : Int]]
    /\ d.roster \in [Sessions -> [Forks -> Int]]
    /\ d.fires \in [Sessions -> SUBSET (Forks \X Keys)]
    /\ d.runs \subseteq [sess : Sessions, fork : Forks, trigger : Triggers, at : Time]
    /\ d.spawns \in [Sessions -> [SpawnIds -> Int]]
    /\ d.pending \in [Sessions -> [Forks -> [preds : SUBSET Forks, at : Time]]]

\* Every piece of state has its type: a task's record never mixes the fields of
\* two polls, a held dependent waits for forks only.
TypeOK ==
    /\ now \in Time
    /\ DbType(db)
    /\ up \in BOOLEAN
    /\ waits \in [Sessions -> Polls \cup {NoPoll, Dropped}]
    /\ cancelled \subseteq Polls
    /\ wokeAt \in [Sessions -> Int]
    /\ pendingClose \in [Sessions -> Nat]
    /\ closeGen \in Nat
    /\ \A c \in closers : c \in [s : Sessions, gen : Nat, at : Time, pc : {"grace", "close"}]
    /\ doomed \subseteq Sessions
    /\ poll \in [Polls -> PollType]
    /\ prompt \in [Sessions -> PromptType]
    /\ claude \in [Sessions -> {"new", "idle", "busy", "gone"}]
    /\ inbox \in [Sessions -> SUBSET Forks]
    /\ task \in [Sessions -> [SpawnIds -> {"unused", "running", "done"}]]
    /\ unread \in [Sessions -> [spawned : SUBSET SpawnIds, finished : SUBSET SpawnIds, tokens : Int]]
    /\ prompts \in Nat
    /\ crashes \in Nat
    /\ issued \subseteq Sessions \X Forks \X Keys

\* A poll that is waiting and was not cancelled is the registered one, so a
\* session never has two polls that can both run on to a wake undisturbed, and
\* the next PromptSubmit or SessionEnd reaches the one it has (daemon.rs waits).
OneLiveWait ==
    \A p \in Polls :
        poll[p].pc \in Registered /\ p \notin cancelled => waits[poll[p].s] = p

\* The spawn registry is true of the session: what it records was spawned and
\* what it has as terminal has ended, so nothing is released early, in whichever
\* order Stops, notifications, closes and restarts read and forget the transcript
\* (daemon.rs ingest_transcript, store.rs mark_spawns_terminal).
RegistryTruthful ==
    \A s \in Sessions, id \in SpawnIds :
        /\ db.spawns[s][id] # NotSeen => task[s][id] # "unused"
        /\ db.spawns[s][id] >= 0 => task[s][id] = "done"

IsIssue(p) == poll[p].pc = "issue" /\ poll'[p].pc = "wake"
KeyOf(p, x) == <<poll[p].s, x[1], LatchKey(x[2], poll[p].epoch)>>

\* An idle fork wakes the session at most once per pause and a context
\* threshold at most once per session (README, "Once per pause").
NoRefire ==
    [][ \A p \in Polls : IsIssue(p) => \A x \in poll[p].picks : KeyOf(p, x) \notin issued ]_vars

\* A wake turn and the completion of one of the daemon's own forks continue the
\* pause: only genuine activity starts a new one (README, "genuine activity").
OwnForksKeepPause ==
    [][ \A s \in Sessions : db'.sess[s].epoch # db.sess[s].epoch
            => prompt[s].kind \notin {"wake", "notif"} ]_vars

\* Within a pause the idle clock never restarts: once the first Stop has set the
\* baseline, only a new epoch moves it, whatever Stops, closes, reopenings and
\* restarts come in between.
BaselineStable ==
    [][ \A s \in Sessions :
            /\ db.sess[s].pauseStart # Unset
            /\ db'.sess[s].epoch = db.sess[s].epoch
            => db'.sess[s].pauseStart = db.sess[s].pauseStart ]_vars

\* Two wakes of one fork in one session are at least its throttle apart.
ThrottleRespected ==
    [][ \A p \in Polls : IsIssue(p) =>
            \A x \in poll[p].picks, r \in db.runs :
                r.sess = poll[p].s /\ r.fork = x[1] => Age(now, r.at) >= Throttle[x[1]] ]_vars

\* Two wakes in one project of forks that share a throttled tag are at least the
\* tag's window apart, whichever sessions they wake (README, "one shared budget").
TagBudgetShared ==
    [][ \A p \in Polls : IsIssue(p) =>
            \A x \in poll[p].picks, r \in db.runs :
                \A g \in Tags[x[1]] \cap Tags[r.fork] \cap DOMAIN TagThrottle :
                    Project[r.sess] = Project[poll[p].s]
                        => Age(now, r.at) >= TagThrottle[g] ]_vars

\* A held dependent goes into a wake only when every predecessor it was held for
\* has finished a run and has none still going (README, "`after` sequencing is
\* daemon-enforced").
DependentsFollow ==
    [][ \A p \in Polls : poll[p].pc = "delete" /\ poll'[p].pc = "wake" =>
            LET s == poll[p].s IN
            \A f \in ForksOf(poll[p].picks) : \A g \in db.pending[s][f].preds :
                /\ \E k \in 1..MaxRuns : task[s][<<g, k>>] = "done"
                /\ \A k \in 1..MaxRuns : task[s][<<g, k>>] # "running" ]_vars

\* Once a prompt has been handled no poll wakes the session until its turn ends
\* ("cancel any parked stop-wait so no wake fires mid-turn", daemon.rs).
NoWakeMidTurn ==
    [][ \A p \in Polls : IsIssue(p) /\ p \notin cancelled /\ prompt[poll[p].s].pc = "none"
            => claude[poll[p].s] # "busy" ]_vars

\* A poll that parks for good has served every idle trigger of its session's
\* forks: its deadline is past, and the fork has fired in this pause or is
\* throttled.
ParkMeansServed ==
    [][ \A p \in Polls :
            LET s == poll[p].s IN
            poll[p].pc # "park" /\ poll'[p].pc = "park" =>
                \A f \in Forks : \A j \in DOMAIN RunOn[f] :
                    LET secs == EffectiveSecs(RunOn[f][j], DefaultIdle) IN
                    /\ RunOn[f][j][1] = "idle" /\ secs > 0
                    /\ TagsAllowed(Tags[f], EnableTags[s], DisableTags[s])
                    => /\ poll[p].base + secs <= now
                       /\ \/ IsLatched(db, s, f, LatchKey(RunOn[f][j], poll[p].epoch))
                          \/ \E r \in db.runs : r.sess = s /\ r.fork = f /\ r.at >= poll[p].base
                          \/ Throttled(db, s, f, now)
                          \/ TagThrottled(db, s, f, now) ]_vars

\* A cancelled poll is answered: the hook of a superseded Stop never hangs.
CancelledAnswered == \A p \in Polls : p \in cancelled ~> p \notin cancelled

\* A session that is left alone has all its idle forks fire: if its pause goes on
\* for good and no fork is throttled, every idle fork is in the end latched for
\* that pause, the later ones through the Stop of an earlier one's wake turn.
IdleForksFire ==
    \A s \in Sessions, f \in Forks :
        <>[](db.sess[s].pauseStart # Unset)
            => <>[]IsLatched(db, s, f, <<"idle-pause", db.sess[s].epoch>>)

\* A session whose process is gone does not stay open, if the daemon runs or is
\* started again and again: a lost poll, SessionEnd or the reaper closes it for
\* good, although a late Stop may reopen it first and a death of the daemon forget
\* the close that was pending (README, "closed automatically").  While no daemon
\* runs its row stays as it is.
DeadSessionsClosed ==
    []<>up => \A s \in Sessions : claude[s] = "gone" ~> []~IsOpen(db, s)
=============================================================================
