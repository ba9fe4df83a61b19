------------------------------- MODULE Store --------------------------------
(***************************************************************************)
(* The persisted state (crates/autofork-core/src/store.rs): one operator   *)
(* per statement of the SQLite store, each from a database value to the    *)
(* next.  A database is a record of tables:                                *)
(*   sess     the sessions row: status, pause epoch and baseline, last     *)
(*            activity, context gauge                                      *)
(*   roster   fork_roster: NotQueued, Never (queued, never woken) or ran_at*)
(*   fires    fork_fires: the latched (fork, key) pairs                    *)
(*   runs     fork_runs: the issued wakes                                  *)
(*   spawns   fork_spawns: NotSeen, Running or terminal_at                 *)
(*   pending  pending_deps: the held dependents, preds = {} when not held  *)
(* A spawn is named by its tool-use id, here <<fork, k>> for the k-th run  *)
(* of a fork in its session.                                               *)
(***************************************************************************)
EXTENDS Moments

CONSTANTS
    Sessions,   \* session ids
    Forks,      \* the fork files visible to every session, named by integers
                \* in name order
    MaxRuns,    \* bound: background runs of one fork in one session
    RunOn,      \* [Forks -> sequence of triggers]
    Throttle,   \* [Forks -> Nat], 0 for none
    After,      \* [Forks -> SUBSET Forks]
    Tags,       \* [Forks -> set of tags]
    TagThrottle,\* [tags -> Nat], the [tag_throttles] table
    Project     \* [Sessions -> project root]

ASSUME ForksAssumption ==
    /\ Forks \subseteq Nat
    /\ IsFiniteSet(Forks)
    /\ MaxRuns \in Nat
    /\ RunOn \in [Forks -> Seq(TriggerKinds \X Int)]
    /\ Throttle \in [Forks -> Nat]
    /\ After \in [Forks -> SUBSET Forks]
    /\ TagThrottle \in [DOMAIN TagThrottle -> Nat]

NotQueued == -2
NotSeen   == -2
Never     == -1
Running   == -1
Unset     == -1

SpawnIds == Forks \X (1..MaxRuns)
NotHeld  == [preds |-> {}, at |-> 0]
NoRoster == [f \in Forks |-> NotQueued]
NoSpawns == [id \in SpawnIds |-> NotSeen]
NoDeps   == [f \in Forks |-> NotHeld]

EmptyDb ==
    [ sess    |-> [s \in Sessions |-> [status |-> "none", epoch |-> 0,
                      pauseStart |-> Unset, lastActivity |-> 0, tokens |-> NoTokens]],
      roster  |-> [s \in Sessions |-> NoRoster],
      fires   |-> [s \in Sessions |-> {}],
      runs    |-> {},
      spawns  |-> [s \in Sessions |-> NoSpawns],
      pending |-> [s \in Sessions |-> NoDeps] ]

-----------------------------------------------------------------------------
\* sessions

UpsertSession(d, s, t) ==
    [d EXCEPT !.sess[s].status = "open", !.sess[s].lastActivity = t]

\* Genuine activity: a new pause, whose baseline the next Stop sets.
BumpPauseEpoch(d, s) ==
    [d EXCEPT !.sess[s].epoch = @ + 1, !.sess[s].pauseStart = Unset]

\* Mutant of SetPauseStartedAtIfUnset: every Stop restarts the idle clock.
SetPauseStartedAt(d, s, t) == [d EXCEPT !.sess[s].pauseStart = t]

SetPauseStartedAtIfUnset(d, s, t) ==
    [d EXCEPT !.sess[s].pauseStart = IF @ = Unset THEN t ELSE @]

SetTranscriptGauge(d, s, tokens) ==
    [d EXCEPT !.sess[s].tokens = IF tokens = NoTokens THEN @ ELSE tokens]

\* The row stays, with its epoch and baseline; everything keyed to the session
\* but the issued runs goes.
CloseSessions(d, ss) ==
    [d EXCEPT
        !.sess    = [s \in Sessions |-> IF s \in ss THEN [@[s] EXCEPT !.status = "closed"] ELSE @[s]],
        !.roster  = [s \in Sessions |-> IF s \in ss THEN NoRoster ELSE @[s]],
        !.fires   = [s \in Sessions |-> IF s \in ss THEN {} ELSE @[s]],
        !.spawns  = [s \in Sessions |-> IF s \in ss THEN NoSpawns ELSE @[s]],
        !.pending = [s \in Sessions |-> IF s \in ss THEN NoDeps ELSE @[s]]]

CloseSession(d, s) == CloseSessions(d, {s})

IsOpen(d, s) == d.sess[s].status = "open"

-----------------------------------------------------------------------------
\* roster, latches and runs

RefreshRoster(d, s) ==
    [d EXCEPT !.roster[s] = [f \in Forks |-> IF @[f] = NotQueued THEN Never ELSE @[f]]]

\* Mutant of TouchForksRan: the throttle stamp is not written.
TouchForksForgotten(d, s, fs, t) == d

TouchForksRan(d, s, fs, t) ==
    [d EXCEPT !.roster[s] =
        [f \in Forks |-> IF f \in fs /\ @[f] # NotQueued THEN t ELSE @[f]]]

IsLatched(d, s, f, key) == <<f, key>> \in d.fires[s]

LatchFires(d, s, latches) == [d EXCEPT !.fires[s] = @ \cup latches]

RecordIssuedRuns(d, s, picks, t) ==
    [d EXCEPT !.runs = @ \cup
        { [sess |-> s, fork |-> x[1], trigger |-> x[2], at |-> t] : x \in picks }]

\* The age of a stamp, never negative.
Age(t, at) == IF t < at THEN 0 ELSE t - at

\* Mutant of RanWithin: the window is a second short.
RanWithinShort(d, project, tag, window, t) ==
    \E r \in d.runs : /\ Project[r.sess] = project
                      /\ tag \in Tags[r.fork]
                      /\ Age(t, r.at) + 1 < window

\* last_run_for_tags of one tag lies within the window at t.
RanWithin(d, project, tag, window, t) ==
    \E r \in d.runs : /\ Project[r.sess] = project
                      /\ tag \in Tags[r.fork]
                      /\ Age(t, r.at) < window

-----------------------------------------------------------------------------
\* spawns and held dependents

RecordSpawns(d, s, ids) ==
    [d EXCEPT !.spawns[s] =
        [id \in SpawnIds |-> IF id \in ids /\ @[id] = NotSeen THEN Running ELSE @[id]]]

IsForkSpawn(d, s, id) == d.spawns[s][id] # NotSeen

\* The first terminal observation of a recorded spawn wins.
MarkSpawnsTerminal(d, s, ids, t) ==
    [d EXCEPT !.spawns[s] =
        [id \in SpawnIds |-> IF id \in ids /\ @[id] = Running THEN t ELSE @[id]]]

\* Mutant of ForkCompletedSince: the status of the spawn is not looked at.
ForkSpawnedSince(d, s, f, since) ==
    \E id \in SpawnIds : id[1] = f /\ d.spawns[s][id] # NotSeen

ForkCompletedSince(d, s, f, since) ==
    \E id \in SpawnIds : id[1] = f /\ d.spawns[s][id] >= 0 /\ d.spawns[s][id] >= since

InsertPendingDeps(d, s, deps, t) ==
    [d EXCEPT !.pending[s] =
        [f \in Forks |-> IF f \in DOMAIN deps /\ deps[f] # {}
                         THEN [preds |-> deps[f], at |-> t] ELSE @[f]]]

Held(d, s) == {f \in Forks : d.pending[s][f].preds # {}}

\* The held dependents every predecessor of which completed since the hold.
Releasable(d, s) ==
    {f \in Held(d, s) : \A g \in d.pending[s][f].preds :
                            ForkCompletedSince(d, s, g, d.pending[s][f].at)}

DeletePendingDeps(d, s, fs) ==
    [d EXCEPT !.pending[s] = [f \in Forks |-> IF f \in fs THEN NotHeld ELSE @[f]]]

ClearPendingDeps(d, s) == [d EXCEPT !.pending[s] = NoDeps]
=============================================================================
