# A TLA+ model of autofork

autofork lets an idle Claude Code session spawn background "forks". The
session's hooks talk to a per-user daemon; the asynchronous Stop hook is a long
poll that the daemon answers with a *wake* once forks are due. This directory
models the daemon, its store, its selection rules and the sessions around it,
how the daemon is started and retired, how it follows a session's transcript, and
how it reads fork files and configuration. TLC checks the models on small
instances; TLAPS proves every safety property of the passing runs, some under named
conditions, for instances of every size.

All source paths are relative to `src/`; `daemon.rs`, `planner.rs`, `server.rs`,
`sweep.rs`, `transcript.rs` and
`main.rs` are in `crates/autofork-daemon/src/`, `hook.rs` and
`client.rs` in `crates/autofork/src/`, the rest in `crates/autofork-core/src/`.

## Inventory

| Component | State | Operations | What makes it correct |
|---|---|---|---|
| `resolve_deps` (schedule.rs) | a worklist of peeled nodes and the dependency lists | sweep, cut, return | it terminates, its result is acyclic, it cuts only what a cycle holds up |
| Selection rules (moments.rs, tags.rs) | none | elapsed moments, match, tag filter, latch key | the first hit in the stated order counts |
| Store (store.rs) | SQLite: sessions, roster, fires, runs, spawns, pending deps | one statement per method, every one under the store mutex | the baseline is set once per pause; a close keeps epoch and baseline |
| Planner (planner.rs) | none of its own | `select_forks`, `build_wake`, `release_due` | latches, throttles, shared tag budgets, `after` order |
| Handlers (daemon.rs) | `waits`, `wake_issued_at`, `parked`, `pending_close`, `close_gen` | `handle_event`, `handle_stop_wait`, `on_poll_lost`, `ingest_transcript` | one live wait per session, nothing fires in mid-turn, cancellations answered, its own forks are not activity |
| Server (server.rs) | the connections | accept, poll against end of file, `prune`, status | a lost poll leads to a close |
| Session reaper (sweep.rs) | none | scan, close | dead sessions do not stay open |
| Daemon process (main.rs) | `daemon.lock`, the socket file | lock, remove the stale socket, bind, serve, quiet exit, shutdown | one daemon at a time, and a serving one can be reached |
| Hook CLI (hook.rs) | none | one request per hook | never blocks the user for long |
| Client (client.rs) | `spawn.lock`, `daemon.lock` for a moment | connect or spawn, retire an old version | racing clients start one daemon, and their search ends |
| Transcript reader (transcript.rs, notification.rs) | the stored offset | read the new lines, apply what they say | no line is missed, the first end of a fork counts |
| Fork files (frontmatter.rs, discovery.rs, duration.rs, project.rs) | files | parse, walk | the nearest fork of a name wins, every definition is sound |
| Configuration (config.rs) | files | load and layer | a bad value costs only itself |
| Wire format, command line | none | encode, print | |

How they interact. Hooks send one request per connection. SessionStart,
PromptSubmit and SessionEnd are short; Stop waits. The handlers of different
connections are tasks of a multi-threaded runtime and share the store mutex and
one mutex per map, each held for a few statements, never across an `await`. A
wake is an exit status of the Stop hook: Claude Code then starts a turn whose
Stop hook is the next long poll. The spawned forks show up in the session's
transcript, which the daemon reads at each Stop and at each task notification.
Hooks and commands are processes of their own: each finds the daemon through the
socket file, or starts one under two file locks.

What is hard. A poll reads the session row once and uses it for the rest of its
life, across sleeps. Selection and stamping are separate lock acquisitions. A
cancellation races the timer of the `select!` it is meant to interrupt. The Stop
hook is asynchronous, so its request may arrive after the next turn's prompt. A
prompt hook gives up after 1.5 s while its event is still being handled. The
daemon may die at any step and only the database survives. Clients and daemons
remove each other's socket file, relying on who holds which lock. A transcript is
read while it is written, between two lock acquisitions. Fork files change while a
poll is parked. `PROJECT.json` lists each of these as a hazard at its line, with the properties aimed at it.

## Modules

| Module | Models |
|---|---|
| `DepGraph` | `resolve_deps` and `roots` as functions of the `after` lists |
| `Schedule` | the loop of `resolve_deps`, step by step |
| `Moments` | moments.rs, tags.rs, `elapsed_moments`, `latch_key_for` |
| `Store` | store.rs: one operator per statement, from a database value to the next |
| `Daemon` | daemon.rs, planner.rs, sweep.rs, the race in server.rs, prune, the hooks and the sessions; EXTENDS `Store` and `DepGraph` |
| `Service` | what the launch protocol promises: an abstract specification |
| `Launch` | client.rs, main.rs, the accept loop and the exits of the daemon; implements `Service` |
| `Transcript` | transcript.rs, notification.rs, `ingest_transcript`, the classification of a notification |
| `ForkFile` | frontmatter.rs, duration.rs: from YAML values to a definition |
| `Config` | config.rs, the tag variables; EXTENDS `ForkFile` |
| `Discovery` | discovery.rs, project.rs; EXTENDS `Config` |
| `Setup` | a poll that reads files while the user edits them; EXTENDS `Discovery` |
| `MCSchedule`, `MCDaemon`, `MCLaunch`, `MCTranscript`, `MCSetup` | the constants of the runs |
| `RecursionProofs` | lemmas about recursive functions, for the modules below |
| `DepGraphProofs`, `ScheduleProofs` | theorems about `DepGraph` and `Schedule` |
| `DaemonProofs`, `WakeProofs` | theorems about `Daemon`: its store operators, waits, baselines and types, then what it promises about wakes |
| `LaunchProofs`, `TranscriptProofs`, `SetupProofs` | theorems about `Launch`, `Transcript` and `Setup` |

### Schedule and DepGraph

`Schedule` has one action per branch of the loops: `Visit` is the body of the
sweep, `EndSweep` its end, `Return` and `Cut` the decision after a sweep without
change. Forks are `1..N` in batch order; `0` stands for any name in an `after`
list that was not selected, so `Init` ranges over every input the code filters.
`DepGraph!ResolveDeps` says the same as a function and is what `Daemon` uses;
`ComputesResolveDeps` ties the two together.

### Store

A database is a record of tables. Sentinels stand for NULL and missing rows
(`Unset`, `Never`, `NotQueued`, `NotSeen`). A spawn's tool-use id is
`<<fork, k>>`; the task id, which Claude Code reports later for the same spawn,
is the same id. `close_session` marks the row closed and deletes everything
keyed to the session but its issued runs: epoch and baseline stay.

### Daemon

One action per stretch of a handler between two lock acquisitions or awaits; the
action's name and its `pc` value say where it stands.

- *StopWait.* `StopArrives` (clear_pending_close, the time is taken),
  `StopRecorded` (session row), `StopIngests`, `Register`, `TakeSnapshot`,
  `ListReleasable` and `DeleteReleased` (release_due's two locks), `Evaluate` and
  `DeadlinePasses` (Phase A), `DebounceEnds` (Phase B), `Reselect` and `BuildWake`
  (Phase C), `SeesCancel`, `Deliver`. `Await` says how an await is entered: a
  cancellation that was already sent is seen at once unless the timer is up too,
  in which case the unbiased `select!` may take either branch.
- *Lost polls.* `HookDies`, `NeverSent`, `LosePoll`, then `GraceEnds` and
  `GraceCloses`, the two locks of `on_poll_lost`.
- *Events.* `ClassifyPrompt`, `ApplyPrompt`, `CancelPrompt`; `SessionStart`;
  `SessionEnd`, `EndCancels`, `EndCloses`; `PromptLost` when there is no daemon to
  connect to.
- *Housekeeping.* `ReaperScans`, `ReaperCloses`, `Prune`, `DaemonStops`,
  `DaemonStarts`.
- *Sessions.* `UserPrompt`, `WakeTurn`, `ForkEnds`, `EndTurn`, `SessionDies`. A
  prompt is a user prompt, a prompt the CLI could not classify ("bare"), a
  notification of a foreign background task, a wake reminder or a notification
  of one of the daemon's forks.

Abstractions, and why they are safe for the properties:

- The fork files, their fields, the tag filters and the configuration are
  constants, and every session sees all forks. Editing files is the subject of
  `Setup`.
- `ingest_transcript` is atomic (`Transcript` takes it apart), and so is
  `select_forks`. The code takes the
  store lock several times inside each; only the ingest of the same session's
  other poll, or another session's stamp, could come in between. The latter race
  exists anyway, between `Reselect` and `BuildWake`.
- A Stop's ingest may find its transcript not flushed yet, and then reads
  nothing; a notification's ingest reads all, as the comment in `handle_event`
  says the file is on disk by then.
- The `parked` counts are derived: a session is parked when one of its polls
  holds a receiver (`IsParked`). When a poll returns its sender stays in the map:
  `waits` then has `Dropped`, whichever poll it was, since a cancellation sent to it
  reaches nobody. Only the next registration and `cancel_wait` replace it.
- `clear_pending_close` at the head of an event handler is merged with the first
  lock the handler takes.
- The reaper's period is any time.
- A session has one prompt handler at a time; with `LateHooks` the turn may end
  before that handler does (the hook's 1.5 s budget).
- `overlap: true`, spawns without a fork name and triggers that never fire are
  left out.
- `issued` is a history variable and no part of the program.

### Launch and Service

The shared state is the socket file (which daemon bound it), `daemon.lock` and
`spawn.lock`; every system call on one of them is a step of a client or a daemon.
A flock and a stream die with their process (`Vanish`, `ClientDies`), a socket file
stays. A client is a session hook (checks the version, then sends its event), a
prompt hook (starts a daemon, does not wait), a command or `stop-daemon`. The
version handshake, the shutdown request and the wait for the old daemon's lock are
steps of their own. A stream is *counted* once the server's task has run; the quiet
reaper sees only those.

`Service` is the promise: the database has one owner, connections lead to the owner
and only while it is open, a daemon takes the database when nothing of its
predecessor is left. `OneService` is `Service` under the mapping that takes the
owner from the lock, and is checked as a property of `Launch`.

`mishaps` bounds what nothing in the program asks for (a crash, a killed hook, a
failed spawn, an unanswered hello, Ctrl-C, a quiet period running out), `disturbed`
is a history variable: the clients in whose search a daemon left or a process
failed. `Daemons` are process ids, reused once nothing refers to them.

### Transcript

One session. Its side writes lines in two halves, so a read may find half a line;
a line is a record of what the scans look for: usage, an Agent call that is a fork,
its result with the task id, a notification. `Begin`, `Read` and `Apply` are the
stretches of `ingest_transcript` between its locks; two ingests may overlap.
`Classify` is the notification branch of `handle_event` after its ingest.
`ReadFails` is `read_line` on a half-written character.

Assumed of Claude Code: a transcript that is rewritten keeps the lines that were
not yet read, is read before it has grown past the old offset, and is not rewritten
between a read and its apply (`Rewrite`, `MayGrowTo`). The code knows a rewritten
file by its size alone, so without this nothing could be promised; the README of
the project says nothing about it. A fork's call and its result are in the file
before its notification is sent, as the comment in `handle_event` says.

### ForkFile, Config, Discovery, Setup

A YAML or TOML value is a record of its kind and what the field's parser tells apart
in it; the text formats themselves (serde_yaml, toml) are external, but *which*
fields are typed, so that a wrong kind fails the whole block, is part of the model
(`Deserializes`, `LoadLayer`; the tag lists of a layer hold strings, and
`tag_throttles` is a table, in every layer of the model). `Discovery` walks paths of components in sorted
order. `Setup` composes them with the poll: it loads configuration and deadlines
when it parks (`Park`), refreshes the roster at each evaluation (`Evaluate`) and
reads the rostered files one by one (`ReadEntry`), with edits in between. One scan
of the directories is atomic. Time, latches and throttles are left to `Daemon`, so
an evaluation may be about any of the deadlines.

## Runs

| Run | Properties | Instance |
|---|---|---|
| `resolve_deps` | `TypeOK`, `IInv`, `ResultAcyclic`, `OnlyLoopedCut`, `ComputesResolveDeps`, `Terminates` | all `after` relations over three forks and an unselected name |
| `pause` | `TypeOK`, `RegistryTruthful`, `NoRefire`, `OwnForksKeepPause`, `ThrottleRespected`, `DependentsFollow` | one session, an idle and a context fork, the first after the second, a throttle, every prompt kind, one crash |
| `live` | `CancelledAnswered`, `IdleForksFire` | two deadlines, two polls, fair |
| `dead` | `OneLiveWait`, `BaselineStable`, `DeadSessionsClosed` | two polls in flight, late prompt hooks, all deaths, a crash, prune, the reaper, fair |
| `tags` | `TagBudgetShared`, `ParkMeansServed` | two sessions of one project taking turns, a tagged and an untagged fork |
| `launch` | `LaunchInv`, `ServingIsReachable`, `OneService`, `SearchEnds` | an old command or stop-daemon, a new session hook, an old prompt hook, three process ids, one mishap, fair |
| `transcript` | `TranscriptInv`, `NothingSkipped`, `OwnForksRecognised`, `FirstEndWins`, `LinesAreRead` | one fork and another task, three lines, two ingests at once, fair |
| `setup` | `NearestForkWins`, `WellFormedForks`, `ConfigLayered`, `NoStaleFork`, `VisibleForksDue` | two working directories, seven places for files, five contents, three layers, two edits |
| `overlap` | `NoRefire`, violated | two polls of one session at once |
| `late_stop` | `NoWakeMidTurn`, violated | a Stop received after the next prompt |
| `retiring` | `RestartsOnNextEvent`, violated | a command, stop-daemon and a later event, one version, no mishap, fair |
| `scalar_run_on` | `InvalidValuesFallBack`, violated | as `setup` |

What the passing runs show, beyond the table.

- `resolve_deps`: `OnlyLoopedCut` says what a cut may take. A fork with no cycle before
  it keeps its whole `after` list, and every fork keeps its edges to such forks.

- `pause` includes the case that once went wrong in the field: a fork's completion
  notified before any Stop has read its spawn. `ClassifyPrompt` reads the transcript
  first, and dropping that read is the mutant that breaks `OwnForksKeepPause`. A
  held fork is released only when each predecessor has a finished run since the
  hold and none still running. `RegistryTruthful` is what both rest on: the spawn
  registry never runs ahead of the session.
- `live`: two idle forks with different deadlines both fire in one pause, the second
  through the Stop of the first one's wake turn.
- `dead`: a wait is registered, superseded, cancelled, lost with its connection and
  answered in every order, and a poll that can be answered is always the one in the
  map; whichever way a session disappears, it ends up closed although its own late
  Stop may reopen it. This is asked of behaviours in which the daemon always runs again
  (`[]<>up`), not assumed of all: see Fairness.
- `launch`: whatever the clients and the daemons do to the socket file, they do it
  under the right lock. `LocksHeld` says which step has which lock,
  `SocketFollowsLock` that the file is the lock holder's from bind to unlink. No
  client removes a live daemon's socket and no leaving daemon its successor's.
- `transcript`: overlapping ingests read lines twice and may set the offset back, but
  never skip one; reading a line again neither moves the end of a fork nor renames
  it. `LinesAreRead` includes files that have shrunk.
- `setup`: discovery equals a definition that says which file wins without walking
  anything; the value of a configuration key equals a definition by cases. A fork is
  woken only with a content that was on disk during the evaluation, and while
  nothing is edited the deadlines of the forks discovered are those that the rostered
  forks need.

What the violation runs show is listed with quotes under "findings" in
`PROJECT.json`:

- `overlap`: two polls of one session that both passed the latch check issue the
  same fork twice in a pause; `try_latch_fire`'s answer is ignored.
- `late_stop`: a Stop that is received after the next prompt was handled
  registers as if the session were idle, and wakes it in mid-turn.
- `retiring`: between the end of its listener and its exit a daemon holds the lock;
  an event that begins in this window, after stop-daemon has had its answer, takes it
  for a booting one, starts none and polls in vain. The client gives up when its budget
  ends; the run shows that no budget would be long enough.
- `scalar_run_on`: `run_on: idle` (or a `description` that is no string) fails in the
  deserializer, and the fork is dropped as invalid YAML.

This is why `pause` and `tags` have one poll in flight at a time (with two,
`NoRefire`, `TagBudgetShared` and `ParkMeansServed` do not hold of the code), and
why `SearchEnds` excludes a search during which a daemon leaves.

### Observations not kept as runs

- `resolve_deps` cuts the first node that is not peeled. In a batch where a fork
  that merely hangs off a cycle comes before the cycle's members, the hanger is
  cut as well and loses its order (schedule.rs:64; the doc comment speaks of
  "one member per cycle"). `OnlyLoopedCut` is what does hold.
- When the last session dies unnoticed and no hook runs any more, the daemon leaves
  after its quiet period (20 minutes, daemon.rs:555) and the session's row stays open
  past `session_timeout` (12 hours) until some hook or command starts a daemon;
  README.md:254-257 of the repository speaks of closing automatically and of reaping.
- Two sessions whose debounce windows overlap both pass the check of a shared tag
  budget before either stamps its run, and both wake within the tag's window
  (planner.rs:128; README.md:229-231 of the repository speaks of one shared budget).
- Above its context threshold a fork with both kinds of trigger no longer fires on
  idle pauses: the context hit is matched first and its latch is taken
  (planner.rs:117).
- When the debounce timer and the cancellation are both ready, the unbiased
  `select!` may take the timer and the wake is stamped (daemon.rs:469; the comment
  there says the cancellation wins).
- The roster keeps the first path of a name while the session is open
  (store.rs:417). If a project fork of the same name appears later, deadlines are
  those of the project's file, while the user's file is read at selection; if the
  latter's deadline is none of them, it does not fire.
- A client that retired a daemon does not check the version of the one it finds
  next (client.rs:129), which an older CLI may have started.
- `n * mult` in duration.rs wraps in a release build. `fork: yes` and `fork: "true"`
  are strings to the YAML library and silently no forks unless other fork keys are
  present; `enable_tags = "ci"`, a string, drops the whole configuration layer;
  `idle: 0` gives no deadline and no warning.
- A name with a quote is cut at the quote when it is read back from the spawn
  prompt (transcript.rs:175), so completions of such a fork release nothing.
- Of two overlapping ingests the slower one writes the older gauge last
  (store.rs:384).
- A poll whose due fork is throttled away during its debounce parks for good
  (daemon.rs:485), although deadlines of other forks may be ahead.
- Two polls of one session, the older one superseded between the two locks of
  `release_due`, may both list a dependent before either deletes it, and both put it
  in a wake (planner.rs:321).
- `prune` judges a session in a turn longer than twice the idle deadline stale
  and deletes its latches (server.rs:250), so a context threshold fires again
  (README.md:139 of the repository: "at most once per session").
- The reaper closes the sessions it listed without looking again (sweep.rs:32), so one
  that became active in between is closed too, and reopened by its next hook.
- `on_poll_lost` gives up `pending_close` before it locks the store
  (daemon.rs:221): a poll that arrives in between is parked when its session is
  closed.

### Bounds

Every bound is a named constant and a guard. `MaxTime` (1 to 10 seconds) exceeds
each deadline, window and grace of its run by at least one. Two prompts give two pauses, so a latch of one pause meets the
next. Two polls are enough for every race
of the waits map, in which a third can only supersede the second. `MaxRuns = 1`
lets a fork complete and be notified; it is 0 where runs play no part.
`LastInput` ends the sessions' own input so that "the pause goes on" is
possible in the fair runs. The debounce is one second where a race with its timer
matters and off in `tags`. `EndOfTime` stutters at the last second, so deadlock is
checked in every run of `Daemon`. No symmetry is used: sessions are one or two.

`launch`: three clients are a searcher, the one it races with and one that retires
or stops the daemon meanwhile; three process ids allow a leaving, a serving and a
booting daemon. One mishap in any place is every single failure. Two versions with
one protocol number: a difference in protocol has the same effect as an older
version. `retiring`: one binary, so nothing is retired but by stop-daemon; the event
takes the path of SessionEnd and of commands, which is `connect_or_spawn` alone.
`transcript`: a call, its result and its notification are three lines;
`MaxLines` counts lines ever written, rewriting included. Two ingests are all that
a Stop and a prompt can have in flight. `setup`: two edits are enough to shadow,
unshadow, break and repair a file or a layer in either place; `MaxNesting` is 1
instead of 8 and a word has 20 bits, so that both limits are in reach of small
values. Deadlock is not checked in `setup`, where a parked poll without deadlines
and without edits left simply waits.

### Fairness

`PollStep`, `PromptStep`, `CloserStep`, `ReaperStep` and the loss of a connection
are weakly fair because tokio runs every task that is ready and the sections
between locks are short. The clock advances. Sessions finish their turns and act
on a wake they were given, which is what Claude Code does with a Stop hook that
exits with 2. A dead session's hook processes die with it. Nothing is assumed of
users, of crashes, of hooks of live sessions or of how long forks take. Nor is
`DaemonStarts` fair: only hooks and commands start a daemon, and after the last session
has died there may be none. `DeadSessionsClosed` therefore says of the behaviours in
which a daemon runs, or is started after each of its deaths, that every dead session
is closed in the end; a request that finds no daemon waits for nothing.

In `launch` every process runs: each client's next step and each daemon's next step
are weakly fair, and a daemon accepts the connections that wait. Clients are not made
to start, to give up or to die, and the timeouts of a search are not assumed to
leave enough time: a client may give up whenever the socket does not answer, and
`SearchEnds` counts that as an end. In `transcript` an ingest that was begun goes on,
the session goes on to end turns (each with a Stop) and a half-written line is
completed.

In the fair runs of `Daemon` `Urgent` lets ready tasks run before the clock moves: a task is
not delayed by a whole second. `IdleForksFire` is asked without crashes, late
hooks and hook deaths, since a wake that is stamped and then lost with its hook
is not repeated in that pause, which the project's README accepts.

## Theorems

Every theorem holds for all values of the constants that satisfy the named
assumptions of its modules. These say no more than what the code fixes: there is a
fork in a batch (`NAssumption`), forks are a finite set with lists of triggers,
natural throttles and `after` lists (`ForksAssumption`), times and bounds are
natural numbers (`DaemonAssumption`), each daemon and client has a name and a
version (`LaunchAssumption`), ids and lines are distinct from the absence of one
(`TranscriptAssumption`, `NoneAssumption`). For `Setup` (`SetupAssumption`): paths are
finite and no file is also a directory, components sort without ties, a chain of
directories repeats none, YAML and TOML values are of their kinds (a list is a list,
a number an integer), and `Word` is positive.

### Dependency resolution

`DepGraphProofs` is about the functions `Daemon` uses, whose definitions are
recursive: peeling repeated until nothing changes, then cutting repeated until all is
peeled. `IterationExists` and `IterationUnique` in `RecursionProofs` show once that
such a recursion over the naturals is well defined, by the least number at which it
would fail (`LeastNat`), since the library's induction theorems cannot be
instantiated; `IterationSettles` shows that a growing subset of a finite set stops after as many
steps as the set has elements. From this peeling yields the least closed set
(`RunnableFixed`, `RunnableLeast`), a cut frees at least one node (`CutOnceFrees`),
and so:

- `ResolveDepsSound`: for every finite batch and every `after` relation the result is
  an acyclic relation on the batch.

`ScheduleProofs` is about the loop of the code, for every `N >= 1`:

- `ScheduleInvariant`: `Spec => []IInv`. Acyclicity of the result is not
  inductive: it needs that the peeled set is closed under dependencies and
  acyclic (`DoneClosed`, `DoneAcyclic`), that a sweep without change has found
  every node behind it blocked (`SweptBlocked`), and where the loop stands.
- `ScheduleTyped`, `ResolvedIsAcyclic`: at return every node is peeled, so
  `DoneAcyclic` is the claim.
- `OnlyHeldUpAreCut`: `OnlyLoopedCut`. What is left when nothing more can be peeled is a
  set in which every node depends on another one of the set, in the `after` lists too
  (`StuckIsLooped`), and a cut takes edges from a node of this set to nodes of it.
- `AcyclicRelationKept`: so nothing is cut from an acyclic relation.
- `LoopComputesResolveDeps`: the loop returns exactly `ResolveDeps` of its input. The
  invariant `OnTheWay` says that the dependencies left so far are what some number of
  cuts makes of the input; at a sweep's end the peeled set is the least closed set, by
  `PeeledIsRunnable`.

### Daemon

`DaemonProofs`:

- `WaitInvariant`: `Spec => []WaitInv`, with `Shape` (the domains of the maps),
  `OneLiveWait` and `SendersMatch` (a sender that still has a receiver leads to a
  waiting poll of that session which was sent nothing). `OneLiveWait` needs the latter:
  registering cancels the old wait only because the map names it, and taking an entry
  out of the map is harmless only because it leads to a poll of that session. The proof has
  one lemma per way a step treats a poll (moves on, returns, answers, is
  cancelled, registers), then one per handler. `AtMostOneLiveWait` follows.
- `BaselineIsStable`: every step relates the databases before and after by
  `KeepsPause` (a set baseline changes only with the epoch). It is shown of each
  store operator, and it composes; the handlers' databases are
  compositions of these.
- `DaemonTyped`: `Spec => []TypeOK`. One lemma per store operator and per kind of
  record update, one per handler. It needs that a matched trigger is one of the
  fork's (`MatchTyped`: the first hit exists, by a least rank and a least position)
  and that holds name forks of the batch (`ResolveDepsSound`).

`WakeProofs`. `DbSteps` sorts all steps by what they do to the database (nothing that
wakes are judged by, stamp a wake, read a transcript, apply a prompt, close), and
`PollFrame` says where a poll that is about to stamp or to release comes from. On
these two rest:

- `OncePerPause`: `NoRefire`. The invariant: whatever was issued is latched, and what
  a poll is about to stamp is not.
- `ThrottlesHold`: `ThrottleRespected`. The invariant: every issued run is covered by
  its fork's roster stamp, stamps are not of the future, and a fork that is about to
  be stamped is queued and not throttled. Without *queued* it is not inductive:
  `touch_forks_ran` updates a row and does nothing where there is none.
- `BudgetsHold`: `TagBudgetShared`, from the same kind of invariant over the issued
  runs, which survive closes.
- `RegistryIsTruthful`: `RegistryTruthful`, without any condition. It needs the same
  of the unread transcript and of the notification that is being handled.
- `OwnForksContinuePause`: `OwnForksKeepPause`. The invariant: every run that was
  spawned is in the registry or in the unread transcript, a fork's notification
  names a run, and at `ApplyPrompt` no wake or fork's notification is `waking`.
- `ReleasedAfterRun`, and `DependentsRunAfter`: `DependentsFollow`. From the list to
  the delete a hold only ends and a run only advances, so what the list established
  (through the registry) is still true.
- `ParkedPausesAreServed`: `ParkMeansServed`, under `OneKind` and `[]WindowsApart`. A
  poll parks in two places (`ViewFrame`). In Phase A no deadline is ahead and nothing was
  due: the first hit exists (`MatchFinds`), so a fork with a passed deadline was latched,
  throttled or out of budget. In Phase C nothing was left to select: this cannot happen,
  because of the inductive invariant `StillRipe`, that a fork found due is still
  due at the selection. Time only adds idle moments, wears throttles off and opens
  budgets, and a trigger matched later has the same latch (`MatchStays`); closes
  only forget (`StepsHarmless`). Both conditions are needed: see the observations on
  forks with both kinds of trigger and on a fork throttled away during the debounce.
- `SessionsLast`: without SessionEnd, deaths, a session timeout and prune no
  session is ever closed, however polls are cancelled and daemons die.

Conditions. Some of these do not hold of the code without one, and the theorem then
names it as a temporal hypothesis that every behaviour of some instance satisfies:

| Hypothesis | Why it is needed |
|---|---|
| `[]NoneClosed`: no session is closed | `close_session` forgets latches, stamps and spawns. `SessionsLast` derives it from the setting of `pause`. |
| `[]IssuesApart`: no two polls of one session between selection and stamp | the `overlap` run shows `NoRefire` violated without it |
| `[]ProjectIssuesApart`: the same for one project | two sessions may both pass the check of a budget (observations) |
| `[]ReleasesApart`: no poll releases while another of its session is about to stamp | the stamp may hold the dependent anew, for a run that has not begun |
| `[]WindowsApart`: no poll is about to stamp while another of its project is between finding a fork due and selecting | the stamp may take the fork's turn, and the second poll parks for good (observations) |
| `OneKind`, for `ParkedPausesAreServed` only: no fork has idle and context triggers | above its threshold the context trigger is matched first (observations) |
| `MaxRuns <= 1`, for `DependentsRunAfter` only | a predecessor with several triggers may be woken again in one pause; whether a second run of it can be going when its dependent is released is not settled (Plan, 1), only that one has finished (`ReleasedAfterRun`) |

With one poll in flight, as in `pause` and `tags`, the four about polls are
true by themselves. The theorems say more: any number of polls may sleep, be
superseded, be cancelled and stamp, as long as the sections between the two locks
do not overlap. The sections are a few statements long (with `WindowsApart` also the
debounce), so this is a statement about exactly which interleavings are at fault.

### Launch, Transcript, Setup

- `LaunchInvariant`, `ServingDaemonReachable`: `LaunchInv` is stated so that it is
  inductive. Who may touch the socket file follows from who has which lock at which
  step (`LocksHeld`); `SocketFollowsLock` then says whose the file is, and
  `StreamsLive` that a stream ends with its daemon. One lemma per step of a client
  or a daemon.
- `LaunchImplementsService`: `Spec => OneService`. Steps that leave the lock and the
  streams alone stutter (`Unseen`); connecting, hanging up, taking the database and
  leaving it are steps of `Service` because of `LaunchInv` (`OwnerFacts`).
- `TranscriptInvariant`: `Spec => []TranscriptInv`. That nothing is skipped is not
  inductive, since a later apply may set the offset back and a rewrite moves lines:
  it needs that lines come in an order (a call before its result before its
  notification), that every line below the stored offset has been absorbed, and
  that an ingest between its read and its apply holds lines that follow on from
  where it began, for each of any number of ingests. `NothingIsSkipped`,
  `OwnForksAreRecognised` follow; `FirstEndIsFinal` is an action property shown from
  what each store operator does to a row.
`Setup`. Its operators are folds, concatenations of lists and a recursive walk, so most
of the work is what these compute for inputs of any size. A fold is shown to be an
iteration (`FoldExists`, `FoldSteps`; the list of intermediate results exists and is
unique), and so is `FlattenSeq` (`FlattenSteps`); the walk is a recursion along the depth
that is left (`RankedRecursion`).

- `DiscoveryKeepsItsRules`: `NearestForkWins`, for any finite paths, however deep, any
  nesting limit and any chain of directories. What the walk finds at one component is
  what the rules say of the files below it (`FoundIsRight`, by cases: fork folder,
  folder, file, nothing); concatenation keeps this and the order, so a scan lists exactly
  the files with a name, in the order of `Before` (`ScanIsRight`, by induction on the
  depth), and so do the scans of all roots (`AllIsRight`). The fold of `insert_entry`
  then keeps of each name the first (`VisibleAreFirst`).
- `ForksAreWellFormed`: `WellFormedForks`, for any content. `DistinctBut` is shown to list
  each value once and to leave out the one to skip (`DistinctButKeeps`).
- `SelectedForksAreLive`: a fork read during an evaluation has a content that its file
  had since the evaluation began (`SetupInv`), for any number of files and edits.
- `ConfigurationIsLayered`: `ConfigLayered` for every content of the three layers.
- `VisibleForksAreServed`: `VisibleForksDue` is about one moment, the end of an
  evaluation; its inductive invariant `DueInv` is about the whole life of a poll: as long
  as nothing was edited, the deadlines are those of discovery, the roster is what discovery
  gives, and what has been read so far was selected exactly if it was due. The rest is
  what a single evaluation computes: at the last deadline each fork with a positive
  idle deadline has a match (`OwnBounded`, `DeadlinesBounded`, `MatchMeans`), and the
  filter from environment and configuration is the one the property names
  (`FilterIsRight`).

### Only model-checked

- Liveness (`Terminates`, `CancelledAnswered`, `IdleForksFire`,
  `DeadSessionsClosed`, `SearchEnds`, `LinesAreRead`): fairness and ENABLED are out of
  the prover's reach.
- The four violated properties.

## Plan

1. Runs with two background runs per fork: completions of an earlier run in the
   same second as a hold (`terminal_at >= created_at`), and double release between
   the two locks of `release_due`.
2. `Pause`, the abstract specification of one session (pauses, what has fired in
   each, what may fire), and `Daemon` under the conditions above shown to implement
   it; most of the step lemmas are in `WakeProofs`.
3. The theorems about `NoRefire` and `OwnForksKeepPause` per session, with the
   condition on closes of that session only.

## Not modelled

The prose of wakes and reminders, argument parsing and printing (`status`, `forks`,
`logs`, `run`, `doctor`), installation of the hooks, schema migrations, the location
of the state directory, and the wire framing: conversions and I/O without state that
the properties read. The text formats YAML, TOML and JSON are external: their values
are modelled, not their syntax. Files that are not UTF-8, symbolic links and errors
of the file system other than a missing file are left out.
