------------------------------- MODULE Launch -------------------------------
(***************************************************************************)
(* How the short-lived CLI processes (hooks and commands) find, start and  *)
(* retire the one daemon.                                                  *)
(*                                                                         *)
(* Three files are shared: the socket, daemon.lock, which a daemon holds   *)
(* for its life and a client takes for a moment to see whether one lives,  *)
(* and spawn.lock, which a client holds while it looks and spawns.  Every  *)
(* system call on one of them is a step; a flock dies with its process, a  *)
(* socket file does not.                                                   *)
(***************************************************************************)
EXTENDS Naturals, FiniteSets

CONSTANTS
    Clients,        \* CLI processes
    Daemons,        \* bound: daemon processes at once, 1..n
    NoOne,
    Version,        \* the version each client was built with
    Proto,          \* the PROTO_VERSION of each version
    Modes,          \* what each client may do, of {"session", "prompt", "command", "stop"}
    MaxMishaps      \* bound: unasked exits, crashes, kills, failed spawns, unanswered hellos

Versions == {Version[c] : c \in Clients}

ASSUME LaunchAssumption ==
    /\ Daemons \subseteq Nat \ {0}
    /\ IsFiniteSet(Daemons)
    /\ Clients \cap Daemons = {}
    /\ NoOne \notin Clients \cup Daemons
    /\ Version \in [Clients -> Nat]
    /\ Proto \in [Versions -> Nat]
    /\ Modes \in [Clients -> SUBSET {"session", "prompt", "command", "stop"}]
    /\ MaxMishaps \in Nat

VARIABLES
    socket,         \* the daemon that bound the socket file in place, or NoOne
    daemonLock,     \* who holds daemon.lock
    spawnLock,      \* who holds spawn.lock
    client,         \* per client, its step, its mode and whether it retired a daemon
    conn,           \* per client, the daemon its stream leads to
    counted,        \* the clients whose connection was accepted and counted
    daemon,         \* per daemon, its step and its version
    asked,          \* the daemons whose shutdown notify was sent
    mishaps,
    disturbed       \* history: the clients in whose search a daemon left or a process failed

vars == <<socket, daemonLock, spawnLock, client, conn, counted, daemon, asked,
          mishaps, disturbed>>

\* A daemon between its lock and its exit, and one that runs request tasks.
Holding == {"locked", "bind", "serve", "leaving", "unlinked"}
Running == {"serve", "leaving", "unlinked"}

\* A client that looks for a daemon (connect_or_spawn, after its first try).
Searching == {"spawn_lock", "recheck", "probe", "clean", "unlock", "spawn", "retry"}

\* UnixStream::connect: the file in place leads to a listener.
Listening(d) == d \in Daemons /\ daemon[d].pc = "serve"

Idle == [pc |-> "idle", mode |-> "command", retired |-> FALSE]

Goto(c, pc) ==
    client' = [client EXCEPT ![c] =
                 IF pc \in {"done", "failed"} THEN [Idle EXCEPT !.pc = pc]
                                              ELSE [@ EXCEPT !.pc = pc]]

\* The request task of c's connection runs, so a request on it is answered; or
\* it never will: the connection is broken, or the listener closed with it queued.
Answering(c) == conn[c] # NoOne /\ c \in counted /\ daemon[conn[c]].pc \in Running
Broken(c) == conn[c] # NoOne => c \notin counted /\ daemon[conn[c]].pc # "serve"

\* The stream is dropped.
Hangup(c) ==
    /\ conn' = [conn EXCEPT ![c] = NoOne]
    /\ counted' = counted \ {c}

Disturb == disturbed' = disturbed \cup {c \in Clients : client[c].pc \in Searching}

-----------------------------------------------------------------------------
\* Clients (client.rs, hook.rs, main.rs).

Start(c, mode) ==
    /\ client[c].pc = "idle"
    /\ client' = [client EXCEPT ![c] = [@ EXCEPT !.pc = "connect", !.mode = mode]]
    /\ UNCHANGED <<socket, daemonLock, spawnLock, conn, counted, daemon, asked,
                   mishaps, disturbed>>

\* What each mode does with a connection: a session hook checks the version,
\* once, and then sends its event; stop-daemon asks for the shutdown.
Connected(c) ==
    CASE client[c].mode = "stop" -> "shutdown"
      [] client[c].mode = "session" /\ ~client[c].retired -> "hello"
      [] OTHER -> "request"

\* Client::connect, the first try: a prompt hook that fails starts a daemon but
\* does not wait for it, stop-daemon has nothing to stop.
Connect(c) ==
    /\ client[c].pc = "connect"
    /\ disturbed' = disturbed \ {c}
    /\ IF Listening(socket)
       THEN Goto(c, Connected(c)) /\ conn' = [conn EXCEPT ![c] = socket]
       ELSE Goto(c, IF client[c].mode = "stop" THEN "done" ELSE "spawn_lock")
            /\ UNCHANGED conn
    /\ UNCHANGED <<socket, daemonLock, spawnLock, counted, daemon, asked, mishaps>>

\* The end of spawn_daemon_locked: the caller polls the socket, a prompt hook ends.
Spawned(c) == IF client[c].mode = "prompt" THEN "done" ELSE "retry"

\* flock_until(spawn_lock): taken, or its deadline passes while another has it.
TakeSpawnLock(c) ==
    /\ client[c].pc = "spawn_lock"
    /\ spawnLock = NoOne
    /\ spawnLock' = c
    /\ Goto(c, "recheck")
    /\ UNCHANGED <<socket, daemonLock, conn, counted, daemon, asked, mishaps,
                   disturbed>>

SpawnLockTimesOut(c) ==
    /\ client[c].pc = "spawn_lock"
    /\ spawnLock # NoOne
    /\ Goto(c, Spawned(c))
    /\ UNCHANGED <<socket, daemonLock, spawnLock, conn, counted, daemon, asked,
                   mishaps, disturbed>>

\* Re-check under the lock: the race's winner may have brought the daemon up.
Recheck(c) ==
    /\ client[c].pc = "recheck"
    /\ IF Listening(socket) THEN Goto(c, Spawned(c)) /\ spawnLock' = NoOne
                            ELSE Goto(c, "probe") /\ UNCHANGED spawnLock
    /\ UNCHANGED <<socket, daemonLock, conn, counted, daemon, asked, mishaps,
                   disturbed>>

\* Mutant of Probe: the socket is removed without the daemon lock.
ProbeUnlocked(c) ==
    /\ client[c].pc = "probe"
    /\ Goto(c, "clean")
    /\ UNCHANGED <<socket, daemonLock, spawnLock, conn, counted, daemon, asked,
                   mishaps, disturbed>>

\* try_flock(daemon_lock): if it is held, a daemon is taken to be alive.
Probe(c) ==
    /\ client[c].pc = "probe"
    /\ IF daemonLock = NoOne
       THEN daemonLock' = c /\ Goto(c, "clean") /\ UNCHANGED spawnLock
       ELSE spawnLock' = NoOne /\ Goto(c, Spawned(c)) /\ UNCHANGED daemonLock
    /\ UNCHANGED <<socket, conn, counted, daemon, asked, mishaps, disturbed>>

\* The dead daemon's socket is removed, and then the lock given up.
Clean(c) ==
    /\ client[c].pc = "clean"
    /\ socket' = NoOne
    /\ Goto(c, "unlock")
    /\ UNCHANGED <<daemonLock, spawnLock, conn, counted, daemon, asked, mishaps,
                   disturbed>>

\* Mutant of Unlock: the lock stays in scope while the daemon is spawned.
UnlockForgets(c) ==
    /\ client[c].pc = "unlock"
    /\ Goto(c, "spawn")
    /\ UNCHANGED <<socket, daemonLock, spawnLock, conn, counted, daemon, asked,
                   mishaps, disturbed>>

Unlock(c) ==
    /\ client[c].pc = "unlock"
    /\ daemonLock' = NoOne
    /\ Goto(c, "spawn")
    /\ UNCHANGED <<socket, spawnLock, conn, counted, daemon, asked, mishaps,
                   disturbed>>

\* A process id that no process, file or stream refers to.
Unused(d) == daemon[d].pc = "dead" /\ socket # d /\ \A c \in Clients : conn[c] # d
Fresh == {d \in Daemons : Unused(d) /\ \A e \in Daemons : Unused(e) => d <= e}

\* The daemon binary next to the CLI is started; the spawn lock is given up on
\* return.
Spawn(c) ==
    /\ client[c].pc = "spawn"
    /\ \E d \in Fresh :
          daemon' = [daemon EXCEPT ![d] = [pc |-> "boot", version |-> Version[c]]]
    /\ spawnLock' = NoOne
    /\ Goto(c, Spawned(c))
    /\ UNCHANGED <<socket, daemonLock, conn, counted, asked, mishaps, disturbed>>

\* No binary, no log file, or no process: an error for the caller.
SpawnFails(c) ==
    /\ client[c].pc = "spawn"
    /\ mishaps < MaxMishaps
    /\ mishaps' = mishaps + 1
    /\ spawnLock' = NoOne
    /\ Goto(c, "failed")
    /\ Disturb
    /\ UNCHANGED <<socket, daemonLock, conn, counted, daemon, asked>>

\* The reconnect loop, and the end of its budget.
Reconnect(c) ==
    /\ client[c].pc = "retry"
    /\ Listening(socket)
    /\ conn' = [conn EXCEPT ![c] = socket]
    /\ Goto(c, Connected(c))
    /\ UNCHANGED <<socket, daemonLock, spawnLock, counted, daemon, asked, mishaps,
                   disturbed>>

GiveUp(c) ==
    /\ client[c].pc = "retry"
    /\ ~Listening(socket)
    /\ Goto(c, "failed")
    /\ UNCHANGED <<socket, daemonLock, spawnLock, conn, counted, daemon, asked,
                   mishaps, disturbed>>

\* semver_lt, or an Error answer for a protocol mismatch.
Outdated(c, d) ==
    \/ daemon[d].version < Version[c]
    \/ Proto[daemon[d].version] # Proto[Version[c]]

\* ensure_current_version, the handshake.  No answer counts as outdated.
Hello(c) ==
    /\ client[c].pc = "hello"
    /\ \/ Answering(c) /\ Goto(c, IF Outdated(c, conn[c]) THEN "shutdown" ELSE "request")
       \/ Broken(c) /\ Goto(c, "shutdown")
    /\ UNCHANGED <<socket, daemonLock, spawnLock, conn, counted, daemon, asked,
                   mishaps, disturbed>>

\* The read timeout of a request that waits for its answer.
HelloTimesOut(c) ==
    /\ client[c].pc = "hello"
    /\ mishaps < MaxMishaps
    /\ mishaps' = mishaps + 1
    /\ Goto(c, "shutdown")
    /\ UNCHANGED <<socket, daemonLock, spawnLock, conn, counted, daemon, asked,
                   disturbed>>

\* The Shutdown request, accepted whatever the protocol; the stream is dropped.
\* A retiring session hook waits for the lock, stop-daemon is done.
AskShutdown(c) ==
    /\ client[c].pc = "shutdown"
    /\ \/ Answering(c) /\ asked' = asked \cup {conn[c]}
       \/ Broken(c) /\ UNCHANGED asked
    /\ Hangup(c)
    /\ Goto(c, IF client[c].mode = "stop" THEN "done" ELSE "await")
    /\ UNCHANGED <<socket, daemonLock, spawnLock, daemon, mishaps, disturbed>>

\* The wait for the old daemon's lock, polled by taking it for a moment, at most
\* 120 seconds; then the search starts again, without a second handshake.
AwaitLock(c) ==
    /\ client[c].pc = "await"
    /\ daemonLock = NoOne
    /\ daemonLock' = c
    /\ Goto(c, "awaited")
    /\ UNCHANGED <<socket, spawnLock, conn, counted, daemon, asked, mishaps,
                   disturbed>>

AwaitTimesOut(c) ==
    /\ client[c].pc = "await"
    /\ daemonLock # NoOne
    /\ client' = [client EXCEPT ![c] = [@ EXCEPT !.pc = "connect", !.retired = TRUE]]
    /\ UNCHANGED <<socket, daemonLock, spawnLock, conn, counted, daemon, asked,
                   mishaps, disturbed>>

Awaited(c) ==
    /\ client[c].pc = "awaited"
    /\ daemonLock' = NoOne
    /\ client' = [client EXCEPT ![c] = [@ EXCEPT !.pc = "connect", !.retired = TRUE]]
    /\ UNCHANGED <<socket, spawnLock, conn, counted, daemon, asked, mishaps,
                   disturbed>>

\* The event or the command's request: answered, or lost with its daemon.
Request(c) ==
    /\ client[c].pc = "request"
    /\ \/ Answering(c) /\ Goto(c, "done")
       \/ Broken(c) /\ Goto(c, "failed")
    /\ Hangup(c)
    /\ UNCHANGED <<socket, daemonLock, spawnLock, daemon, asked, mishaps, disturbed>>

\* A hook is killed: its locks and its stream go with it.
ClientDies(c) ==
    /\ client[c].pc \notin {"idle", "done", "failed"}
    /\ mishaps < MaxMishaps
    /\ mishaps' = mishaps + 1
    /\ Goto(c, "failed")
    /\ Hangup(c)
    /\ spawnLock' = IF spawnLock = c THEN NoOne ELSE spawnLock
    /\ daemonLock' = IF daemonLock = c THEN NoOne ELSE daemonLock
    /\ Disturb
    /\ UNCHANGED <<socket, daemon, asked>>

-----------------------------------------------------------------------------
\* Daemons (autofork-daemon main.rs, server.rs, daemon.rs).

NotRunning == [pc |-> "dead", version |-> 0]

DaemonGoto(d, pc) ==
    daemon' = [daemon EXCEPT ![d] = IF pc = "dead" THEN NotRunning ELSE [@ EXCEPT !.pc = pc]]

\* try_lock: a second daemon exits at once.
TryLock(d) ==
    /\ daemon[d].pc = "boot"
    /\ IF daemonLock = NoOne THEN daemonLock' = d /\ DaemonGoto(d, "locked")
                             ELSE DaemonGoto(d, "dead") /\ UNCHANGED daemonLock
    /\ UNCHANGED <<socket, spawnLock, client, conn, counted, asked, mishaps,
                   disturbed>>

\* Mutant of RemoveStale: the stale socket is left in place.
RemoveStaleSkipped(d) ==
    /\ daemon[d].pc = "locked"
    /\ DaemonGoto(d, "bind")
    /\ UNCHANGED <<socket, daemonLock, spawnLock, client, conn, counted, asked,
                   mishaps, disturbed>>

\* The lock is held, so whatever socket is there is stale.
RemoveStale(d) ==
    /\ daemon[d].pc = "locked"
    /\ socket' = NoOne
    /\ DaemonGoto(d, "bind")
    /\ UNCHANGED <<daemonLock, spawnLock, client, conn, counted, asked, mishaps,
                   disturbed>>

\* bind refuses a path that exists.
Bind(d) ==
    /\ daemon[d].pc = "bind"
    /\ IF socket = NoOne
       THEN socket' = d /\ DaemonGoto(d, "serve") /\ UNCHANGED daemonLock
       ELSE daemonLock' = NoOne /\ DaemonGoto(d, "dead") /\ UNCHANGED socket
    /\ UNCHANGED <<spawnLock, client, conn, counted, asked, mishaps, disturbed>>

\* serve: the connection is accepted, and its task counts it.
Accept(c) ==
    /\ c \notin counted
    /\ Listening(conn[c])
    /\ counted' = counted \cup {c}
    /\ UNCHANGED <<socket, daemonLock, spawnLock, client, conn, daemon, asked,
                   mishaps, disturbed>>

\* The shutdown notify ends the select! of async_main, and with it the listener.
ShutdownAsked(d) ==
    /\ daemon[d].pc = "serve"
    /\ d \in asked
    /\ DaemonGoto(d, "leaving")
    /\ UNCHANGED <<socket, daemonLock, spawnLock, client, conn, counted, asked,
                   mishaps, disturbed>>

\* The quiet reaper: no connection is counted.  One that is queued, or accepted
\* and not yet counted, is not seen.
QuietExit(d) ==
    /\ daemon[d].pc = "serve"
    /\ \A c \in counted : conn[c] # d
    /\ mishaps < MaxMishaps
    /\ mishaps' = mishaps + 1
    /\ DaemonGoto(d, "leaving")
    /\ UNCHANGED <<socket, daemonLock, spawnLock, client, conn, counted, asked,
                   disturbed>>

\* ctrl_c ends the select! too, whatever is connected.
Interrupted(d) ==
    /\ daemon[d].pc = "serve"
    /\ mishaps < MaxMishaps
    /\ mishaps' = mishaps + 1
    /\ DaemonGoto(d, "leaving")
    /\ UNCHANGED <<socket, daemonLock, spawnLock, client, conn, counted, asked,
                   disturbed>>

\* Mutant of Unlink: the lock is given up before the socket is removed.
UnlinkUnlocked(d) ==
    /\ daemon[d].pc = "leaving"
    /\ \/ daemonLock = d /\ daemonLock' = NoOne /\ UNCHANGED <<socket, daemon>>
       \/ daemonLock # d /\ socket' = NoOne /\ DaemonGoto(d, "unlinked") /\ UNCHANGED daemonLock
    /\ UNCHANGED <<spawnLock, client, conn, counted, asked, mishaps, disturbed>>

\* The end of async_main removes the socket file.
Unlink(d) ==
    /\ daemon[d].pc = "leaving"
    /\ socket' = NoOne
    /\ DaemonGoto(d, "unlinked")
    /\ UNCHANGED <<daemonLock, spawnLock, client, conn, counted, asked, mishaps,
                   disturbed>>

\* The process is gone: its tasks, its streams, its lock.
Vanish(d) ==
    /\ DaemonGoto(d, "dead")
    /\ daemonLock' = IF daemonLock = d THEN NoOne ELSE daemonLock
    /\ conn' = [c \in Clients |-> IF conn[c] = d THEN NoOne ELSE conn[c]]
    /\ counted' = {c \in counted : conn[c] # d}
    /\ asked' = asked \ {d}
    /\ Disturb

\* main returns: the runtime is dropped, and the lock last.
Exit(d) ==
    /\ daemon[d].pc = "unlinked"
    /\ Vanish(d)
    /\ UNCHANGED <<socket, spawnLock, client, mishaps>>

\* A crash, or exit(1) on a database that does not open: the file stays.
Crash(d) ==
    /\ daemon[d].pc # "dead"
    /\ mishaps < MaxMishaps
    /\ mishaps' = mishaps + 1
    /\ Vanish(d)
    /\ UNCHANGED <<socket, spawnLock, client>>

-----------------------------------------------------------------------------
Init ==
    /\ socket = NoOne
    /\ daemonLock = NoOne
    /\ spawnLock = NoOne
    /\ client = [c \in Clients |-> Idle]
    /\ conn = [c \in Clients |-> NoOne]
    /\ counted = {}
    /\ daemon = [d \in Daemons |-> NotRunning]
    /\ asked = {}
    /\ mishaps = 0
    /\ disturbed = {}

\* What a client does of its own accord, whatever it finds.
ClientStep(c) ==
    \/ Connect(c) \/ TakeSpawnLock(c) \/ SpawnLockTimesOut(c) \/ Recheck(c) \/ Probe(c)
    \/ Clean(c) \/ Unlock(c) \/ Spawn(c) \/ Reconnect(c)
    \/ Hello(c) \/ AskShutdown(c) \/ AwaitLock(c) \/ AwaitTimesOut(c) \/ Awaited(c)
    \/ Request(c)

DaemonStep(d) ==
    \/ TryLock(d) \/ RemoveStale(d) \/ Bind(d) \/ ShutdownAsked(d) \/ Unlink(d) \/ Exit(d)

AllDone ==
    /\ \A c \in Clients : client[c].pc \in {"done", "failed"}
    /\ \A d \in Daemons : daemon[d].pc \in {"dead", "serve"}
    /\ UNCHANGED vars

Next ==
    \/ \E c \in Clients :
          \/ \E mode \in Modes[c] : Start(c, mode)
          \/ ClientStep(c) \/ Accept(c) \/ GiveUp(c)
          \/ SpawnFails(c) \/ HelloTimesOut(c) \/ ClientDies(c)
    \/ \E d \in Daemons : DaemonStep(d) \/ QuietExit(d) \/ Interrupted(d) \/ Crash(d)
    \/ AllDone

Spec == Init /\ [][Next]_vars

\* Fairness: processes run, and a daemon accepts the connections it is given.
\* Nothing makes a client start, give up, or die.
Fairness ==
    /\ \A c \in Clients : WF_vars(ClientStep(c)) /\ WF_vars(Accept(c))
    /\ \A d \in Daemons : WF_vars(DaemonStep(d))

FairSpec == Spec /\ Fairness

-----------------------------------------------------------------------------
\* Properties.

\* Every piece of state has its type.
TypeOK ==
    /\ socket \in Daemons \cup {NoOne}
    /\ daemonLock \in Clients \cup Daemons \cup {NoOne}
    /\ spawnLock \in Clients \cup {NoOne}
    /\ client \in [Clients -> [pc : {"idle", "connect", "hello", "shutdown", "await", "awaited",
                                     "request", "done", "failed"} \cup Searching,
                               mode : {"session", "prompt", "command", "stop"},
                               retired : BOOLEAN]]
    /\ conn \in [Clients -> Daemons \cup {NoOne}]
    /\ counted \subseteq Clients
    /\ daemon \in [Daemons -> [pc : {"dead", "boot"} \cup Holding, version : Nat]]
    /\ asked \subseteq Daemons
    /\ mishaps \in Nat
    /\ disturbed \subseteq Clients

\* A daemon that serves can be reached: no client that takes it for dead and no
\* other daemon, booting or on its way out, ever removes or replaces its socket
\* (main.rs "We hold the daemon lock, so any existing socket file is stale").
ServingIsReachable ==
    \A d \in Daemons : daemon[d].pc = "serve" => socket = d /\ daemonLock = d

\* Each step of a process that relies on a lock has it, and only those do.
LocksHeld ==
    /\ \A d \in Daemons : daemonLock = d <=> daemon[d].pc \in Holding
    /\ \A c \in Clients :
          /\ daemonLock = c <=> client[c].pc \in {"clean", "unlock", "awaited"}
          /\ spawnLock = c <=> client[c].pc \in {"recheck", "probe", "clean", "unlock", "spawn"}

\* The socket file is that of the daemon that holds the lock, from its bind to
\* its unlink, and is absent just before and just after.
SocketFollowsLock ==
    \A d \in Daemons :
        /\ daemon[d].pc \in {"serve", "leaving"} => socket = d
        /\ daemon[d].pc \in {"bind", "unlinked"} => socket = NoOne

\* Streams lead to the daemon that holds the lock and runs its tasks.
StreamsLive ==
    /\ \A c \in Clients : conn[c] # NoOne => daemon[conn[c]].pc \in Running
    /\ \A c \in counted : conn[c] # NoOne
    /\ \A d \in asked : daemon[d].pc \in Running

\* The inductive invariant of the launch protocol: who may touch the socket is
\* decided by the locks, in clients and daemons alike.
LaunchInv == TypeOK /\ LocksHeld /\ SocketFollowsLock /\ StreamsLive

\* The launch protocol implements Service: one daemon at a time has the database
\* and the clients' connections, through crashes, retirements and races.
Server == INSTANCE Service WITH
    owner <- IF daemonLock \in Daemons THEN daemonLock ELSE NoOne,
    open  <- Listening(daemonLock),
    at    <- conn

OneService == Server!Spec

\* A client whose search finds no daemon is not left waiting for one that nobody
\* starts: unless a daemon leaves or a process fails while it searches, or its
\* budget ends, it is connected (client.rs connect_or_spawn).
SearchEnds ==
    \A c \in Clients : client[c].pc = "retry" ~> client[c].pc # "retry" \/ c \in disturbed

\* README.md:182, stop-daemon: "retire the daemon (it restarts on the next event)".
\* An event that begins when every other CLI has had its answer, stop-daemon
\* included, is not left polling for a daemon that nobody starts.
NextEvent(c) == client[c].pc = "idle" /\ \A k \in Clients \ {c} : client[k].pc = "done"

RestartsOnNextEvent ==
    \A c \in Clients :
        <>NextEvent(c) => (client[c].pc = "retry" ~> client[c].pc # "retry")
=============================================================================
