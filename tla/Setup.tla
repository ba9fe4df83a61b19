------------------------------- MODULE Setup --------------------------------
(***************************************************************************)
(* What a parked session considers: fork files and configuration are       *)
(* edited while the daemon reads them.  A poll loads the configuration and *)
(* the deadlines of the forks it discovers; each evaluation then refreshes *)
(* the session's roster and reads every rostered file again, one by one.   *)
(* Throttles, latches and time are the business of Daemon.                 *)
(***************************************************************************)
EXTENDS Discovery

CONSTANTS
    UserRoot,       \* the directory of the user's own `.autofork/`
    Sessions,       \* [chain, env]: the working directory and its ancestors, nearest
                    \* first; the tag variables' comma-separated pieces, or None
    Contents,       \* what the user may write into a fork file
    Layers,         \* and into a config file
    RawLayer(_),    \* what a config file says
    MaxEdits        \* bound: edits of files

Dirs == {UserRoot} \cup UNION {Range(s.chain) : s \in Sessions}

ASSUME SetupAssumption ==
    /\ DiscoveryAssumption
    /\ \A s \in Sessions : /\ s.chain \in Seq(Range(s.chain))
                           /\ \A i, j \in DOMAIN s.chain : s.chain[i] = s.chain[j] => i = j
    /\ \A s \in Sessions, key \in TagKeys :
          s.env[key] # None => /\ s.env[key] \in Seq(Range(s.env[key]) \ {None})
                               /\ None \notin Seq(Range(s.env[key]))
    /\ Word \in Nat \ {0}
    /\ \A content \in Contents : IsRaw(Raw(content))
    /\ \A layer \in Layers, key \in DurationKeys : IsDuration(RawLayer(layer)[key])
    /\ Absent \notin Contents \cup Layers
    /\ MaxEdits \in Nat

VARIABLES
    chain, env,     \* the session's working directory and environment
    files, layers,  \* the fork files and config files, Absent where there is none
    roster,         \* the forks queued for the session: name -> path
    pc,             \* the poll: "off", "parked", "reading"
    cfg, deadlines, \* what the poll loaded when it was parked
    elapsed,        \* the deadlines the evaluation is about
    todo, selected, \* the rostered forks still to be read, and those that are due
    edits,          \* edits so far
    \* history
    seen,           \* the <<path, content>> on disk since the evaluation began
    touched         \* something was edited since the roster was empty

vars == <<chain, env, files, layers, roster, pc, cfg, deadlines, elapsed, todo, selected,
          edits, seen, touched>>
pollVars == <<roster, pc, cfg, deadlines, elapsed, todo, selected>>

OnDisk(fs) == {<<p, fs[p]>> : p \in {q \in Places : fs[q] # Absent}}

LayerAt(d) == IF d = None \/ layers[d] = Absent THEN BlankLayer ELSE RawLayer(layers[d])

\* cfg_for, for the session's project.
CfgNow ==
    LET root == ProjectRoot(files, layers, chain)
    IN  LoadConfigAt(LayerAt(root), LayerAt(UserRoot), root = UserRoot)

Visible == DiscoverForks(files, chain, UserRoot)

RunOns(entries) == {ParseAt(files, e.name, e.path).def.run_on : e \in entries}

-----------------------------------------------------------------------------
\* The user.

EditFile(p, content) ==
    /\ edits < MaxEdits
    /\ files[p] # content
    /\ files' = [files EXCEPT ![p] = content]
    /\ seen' = seen \cup OnDisk(files')
    /\ UNCHANGED layers

EditConfig(d, layer) ==
    /\ edits < MaxEdits
    /\ layers[d] # layer
    /\ layers' = [layers EXCEPT ![d] = layer]
    /\ UNCHANGED <<files, seen>>

Edit ==
    /\ \/ \E p \in Places, content \in Contents \cup {Absent} : EditFile(p, content)
       \/ \E d \in Dirs, layer \in Layers \cup {Absent} : EditConfig(d, layer)
    /\ edits' = edits + 1
    /\ touched' = (DOMAIN roster # {} \/ pc # "off")
    /\ UNCHANGED <<chain, env, pollVars>>

-----------------------------------------------------------------------------
\* The poll.

\* handle_stop_wait, up to where it parks.
Park ==
    /\ pc = "off"
    /\ pc' = "parked"
    /\ cfg' = CfgNow
    /\ deadlines' = IdleDeadlines(RunOns(Visible), CfgNow.default_idle_deadline)
    /\ UNCHANGED <<chain, env, files, layers, roster, elapsed, todo, selected, edits, seen, touched>>

\* queue_fork: INSERT OR IGNORE, so the first path of a name stays.
QueueForks(entries) ==
    [n \in DOMAIN roster \cup {e.name : e \in entries} |->
        IF n \in DOMAIN roster THEN roster[n] ELSE (CHOOSE e \in entries : e.name = n).path]

\* Mutant of Evaluate: the forks of the last evaluation are kept.
EvaluateKeeps(d) ==
    /\ pc = "parked"
    /\ pc' = "reading"
    /\ elapsed' = {e \in deadlines : e <= d}
    /\ roster' = QueueForks(Visible)
    /\ todo' = DOMAIN roster'
    /\ seen' = OnDisk(files)
    /\ UNCHANGED <<chain, env, files, layers, cfg, deadlines, edits, touched, selected>>

\* select_forks begins, with the deadlines up to d elapsed: refresh_roster, then
\* the roster is read.  The check before the poll sleeps is one of these, taken
\* right after Park; with no deadline elapsed it asks for no fork.
Evaluate(d) ==
    /\ pc = "parked"
    /\ pc' = "reading"
    /\ elapsed' = {e \in deadlines : e <= d}
    /\ roster' = QueueForks(Visible)
    /\ todo' = DOMAIN roster'
    /\ selected' = {}
    /\ seen' = OnDisk(files)
    /\ UNCHANGED <<chain, env, files, layers, cfg, deadlines, edits, touched>>

\* What a rostered fork is due for, if its file is still a fork that may run.
DueAt(n, content) ==
    LET parsed == ParseForkFile(n, Raw(content))
        moments == ElapsedMoments(NoTokens, 0, 0, elapsed, IF elapsed = {} THEN 0 ELSE Max(elapsed))
    IN  /\ content # Absent
        /\ parsed.kind = "fork"
        /\ TagsAllowed(Range(parsed.def.tags), EffectiveTags(env, cfg, "enable_tags"),
                                               EffectiveTags(env, cfg, "disable_tags"))
        /\ MatchMoments(parsed.def.run_on, moments, cfg.default_idle_deadline) # NoTrigger

\* select_forks goes on with one rostered fork.
ReadEntry(n) ==
    LET content == IF IsFile(files, roster[n]) THEN files[roster[n]] ELSE Absent IN
    /\ pc = "reading"
    /\ n \in todo
    /\ todo' = todo \ {n}
    /\ selected' = selected \cup {s \in {[name |-> n, path |-> roster[n], content |-> content]} :
                                    DueAt(n, content)}
    /\ UNCHANGED <<chain, env, files, layers, roster, pc, cfg, deadlines, elapsed, edits, seen, touched>>

\* The evaluation is over, the poll goes on.
Evaluated ==
    /\ pc = "reading"
    /\ todo = {}
    /\ pc' = "parked"
    /\ UNCHANGED <<chain, env, files, layers, roster, cfg, deadlines, elapsed, todo, selected,
                   edits, seen, touched>>

\* The poll is answered, with a wake or without.
Answer ==
    /\ pc = "parked"
    /\ pc' = "off"
    /\ cfg' = DefaultConfig
    /\ deadlines' = {}
    /\ elapsed' = {}
    /\ selected' = {}
    /\ seen' = {}
    /\ UNCHANGED <<chain, env, files, layers, roster, todo, edits, touched>>

\* close_session: the roster is cleared.
Close ==
    /\ pc = "off"
    /\ roster # <<>>
    /\ roster' = <<>>
    /\ touched' = FALSE
    /\ UNCHANGED <<chain, env, files, layers, pc, cfg, deadlines, elapsed, todo, selected, edits, seen>>

-----------------------------------------------------------------------------
Init ==
    /\ \E s \in Sessions : chain = s.chain /\ env = s.env
    /\ files = [p \in Places |-> Absent]
    /\ layers = [d \in Dirs |-> Absent]
    /\ roster = <<>>
    /\ pc = "off"
    /\ cfg = DefaultConfig
    /\ deadlines = {}
    /\ elapsed = {}
    /\ todo = {}
    /\ selected = {}
    /\ edits = 0
    /\ seen = {}
    /\ touched = FALSE

Next ==
    \/ Edit \/ Park
    \/ \E d \in deadlines : Evaluate(d)
    \/ \E n \in todo : ReadEntry(n)
    \/ Evaluated \/ Answer \/ Close

Spec == Init /\ [][Next]_vars

-----------------------------------------------------------------------------
\* Properties.

\* a sorts before b.
Before(a, b) ==
    \E i \in DOMAIN a \cap DOMAIN b :
        /\ SubSeq(a, 1, i - 1) = SubSeq(b, 1, i - 1)
        /\ LET rank(c) == CHOOSE j \in DOMAIN Components : Components[j] = c
           IN  i > 1 /\ rank(a[i]) < rank(b[i])

\* The name a file defines, None when its place is not looked at.
NameAt(p) ==
    LET n == Len(p)
        folder(i) == IsFile(files, Append(SubSeq(p, 1, i), ForkMd))
        inFolder == p[n] = ForkMd /\ n > 2
    IN  IF \/ \E i \in 2..n : p[i] \in Hidden
           \/ \E i \in 2..(n - 1) : folder(i) /\ ~(inFolder /\ i = n - 1)
           \/ n - (IF inFolder THEN 3 ELSE 2) > MaxNesting
        THEN None
        ELSE IF inFolder THEN p[n - 1] ELSE Stem[p[n]]

\* Discovery is what its rules promise: the fork of a name is the one nearest to
\* the working directory, the user's own last, and in one tree the first in
\* order; files without the marker neither are forks nor hide one
\* (discover_forks).
NearestForkWins ==
    LET order == IF UserRoot \in Range(chain) THEN chain ELSE Append(chain, UserRoot)
        dist(p) == CHOOSE i \in DOMAIN order : order[i] = p[1]
        forks == {p \in Places : /\ p[1] \in Range(order)
                                 /\ IsFile(files, p)
                                 /\ NameAt(p) # None
                                 /\ ParseAt(files, NameAt(p), p).kind = "fork"}
    IN  Visible = {[name |-> NameAt(p), path |-> p] :
                     p \in {q \in forks : \A r \in forks \ {q} :
                              NameAt(r) = NameAt(q) =>
                                  \/ dist(q) < dist(r)
                                  \/ dist(q) = dist(r) /\ Before(q, r)}}

\* However a fork file is written, the definition the planner works with is
\* sound: it has a moment, its gap is positive, it waits for no one twice and
\* never for itself (parse_fork_file).
WellFormedForks ==
    \A e \in Visible :
        LET def == ParseAt(files, e.name, e.path).def
            distinct(s) == Cardinality(Range(s)) = Len(s)
        IN  /\ def.run_on # <<>>
            /\ def.throttle # None => def.throttle > 0
            /\ e.name \notin Range(def.after)
            /\ distinct(def.after)
            /\ distinct(def.tags)

\* A key's value is the project's if it is valid and the key is not global, else
\* the user's if that is valid, else the default; what one layer gets wrong
\* takes nothing from the other (load_config_at).
ConfigLayered ==
    LET root == ProjectRoot(files, layers, chain)
        user == LoadLayer(LayerAt(UserRoot))
        project == IF root = UserRoot THEN BlankLayer ELSE LoadLayer(LayerAt(root))
        valid(v) == v.k # "unset" /\ ParseTomlDuration(v) # None
    IN  \A key \in DurationKeys :
            CfgNow[key] = IF valid(project[key]) /\ key \notin GlobalOnly THEN ParseTomlDuration(project[key])
                          ELSE IF valid(user[key]) THEN ParseTomlDuration(user[key])
                          ELSE DefaultConfig[key]

\* No definition from memory: a fork that is due was on disk, as a fork, while the
\* evaluation ran (select_forks, "live re-read each rostered fork").
NoStaleFork ==
    \A s \in selected :
        /\ <<s.path, s.content>> \in seen
        /\ ParseForkFile(s.name, Raw(s.content)).kind = "fork"

\* Every visible fork is served: while nothing has been edited since the session's
\* roster was begun, an evaluation at the last deadline finds every visible fork
\* that its tags admit and that has an idle deadline (handle_stop_wait takes
\* the deadlines from discovery, select_forks the forks from the roster).
VisibleForksDue ==
    LET named(key) == IF env[key] = None THEN {} ELSE Range(env[key]) \ {""}
        filter(key) == CASE named(key) # {} -> named(key)
                         [] named(key) = {} /\ cfg[key] # None -> Range(cfg[key])
                         [] OTHER -> {}
    IN
    (pc = "reading" /\ todo = {} /\ ~touched /\ elapsed = deadlines) =>
        {[name |-> s.name, path |-> s.path] : s \in selected} =
        {e \in Visible :
            LET def == ParseAt(files, e.name, e.path).def IN
            /\ TagsAllowed(Range(def.tags), filter("enable_tags"), filter("disable_tags"))
            /\ \E i \in DOMAIN def.run_on :
                  /\ def.run_on[i][1] = "idle"
                  /\ EffectiveSecs(def.run_on[i], cfg.default_idle_deadline) > 0}

\* "invalid values warn and fall back rather than dropping the fork"
\* (frontmatter.rs): a file with the marker is a fork.
InvalidValuesFallBack ==
    \A p \in Places :
        IsFile(files, p) =>
            LET raw == Raw(files[p]) IN
            HasFrontmatter(raw) /\ raw.yaml /\ IsMarked(raw) => ParseAt(files, "x", p).kind = "fork"
=============================================================================
