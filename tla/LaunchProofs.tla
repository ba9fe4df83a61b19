---------------------------- MODULE LaunchProofs ----------------------------
(***************************************************************************)
(* Proofs about Launch, for any clients, process ids, versions and mishaps.*)
(***************************************************************************)
EXTENDS Launch, TLAPS

ClientPcs == {"idle", "connect", "hello", "shutdown", "await", "awaited",
              "request", "done", "failed"} \cup Searching

ClientStates == [pc : ClientPcs, mode : {"session", "prompt", "command", "stop"},
                 retired : BOOLEAN]

DaemonPcs == {"dead", "boot"} \cup Holding

\* One process takes a step, the others stay where they are.
ClientMoves(c, pc) ==
    /\ client' \in [Clients -> ClientStates]
    /\ client'[c].pc = pc
    /\ \A b \in Clients : b # c => client'[b] = client[b]

DaemonMoves(d, pc) ==
    /\ daemon' \in [Daemons -> [pc : DaemonPcs, version : Nat]]
    /\ daemon'[d].pc = pc
    /\ \A e \in Daemons : e # d => daemon'[e] = daemon[e]

-----------------------------------------------------------------------------
\* What the two ways of moving on do to the steps of the processes.

\* Goto moves one client, and keeps the clients' type.
LEMMA ClientGoes ==
  ASSUME TypeOK, NEW c \in Clients, NEW pc \in ClientPcs, Goto(c, pc)
  PROVE  ClientMoves(c, pc)
<1>1. client \in [Clients -> ClientStates]
  BY DEF TypeOK, ClientStates, ClientPcs
<1>2. [Idle EXCEPT !.pc = pc] \in ClientStates /\ [Idle EXCEPT !.pc = pc].pc = pc
  BY DEF Idle, ClientStates
<1>3. [client[c] EXCEPT !.pc = pc] \in ClientStates /\ [client[c] EXCEPT !.pc = pc].pc = pc
  BY <1>1 DEF ClientStates
<1> QED BY <1>1, <1>2, <1>3 DEF Goto, ClientMoves

\* DaemonGoto moves one daemon, and keeps the daemons' type.
LEMMA DaemonGoes ==
  ASSUME TypeOK, NEW d \in Daemons, NEW pc \in DaemonPcs, DaemonGoto(d, pc)
  PROVE  DaemonMoves(d, pc)
<1>1. daemon \in [Daemons -> [pc : DaemonPcs, version : Nat]]
  BY DEF TypeOK, DaemonPcs
<1>2. NotRunning \in [pc : DaemonPcs, version : Nat] /\ NotRunning.pc = "dead"
  BY DEF NotRunning, DaemonPcs
<1>3. [daemon[d] EXCEPT !.pc = pc] \in [pc : DaemonPcs, version : Nat]
      /\ [daemon[d] EXCEPT !.pc = pc].pc = pc
  BY <1>1
<1> QED BY <1>1, <1>2, <1>3 DEF DaemonGoto, DaemonMoves

-----------------------------------------------------------------------------
\* Every step of a client keeps LaunchInv.

\* The first try to connect touches no file: a stream leads to the daemon that
\* listens, which runs.
LEMMA ConnectKeeps ==
  ASSUME LaunchInv, NEW c \in Clients, Connect(c)
  PROVE  LaunchInv'
<1> USE LaunchAssumption DEF LaunchInv, ClientMoves
<1>1. \A pc \in ClientPcs : Goto(c, pc) => ClientMoves(c, pc)
  BY ClientGoes
<1>2. client' \in [Clients -> ClientStates]
  BY <1>1 DEF Connect, Connected, ClientPcs, Searching
<1>3. TypeOK'
  <2>1. conn' \in [Clients -> Daemons \cup {NoOne}]
    BY DEF TypeOK, Connect, Listening
  <2>2. disturbed' \subseteq Clients
    BY DEF TypeOK, Connect
  <2>3. UNCHANGED <<socket, daemonLock, spawnLock, counted, daemon, asked, mishaps>>
    BY DEF Connect
  <2> QED BY <1>2, <2>1, <2>2, <2>3 DEF TypeOK, ClientStates, ClientPcs
<1>4. LocksHeld'
  BY <1>1 DEF TypeOK, LocksHeld, Connect, Connected, Listening, ClientPcs,
         Searching
<1>5. SocketFollowsLock'
  BY DEF TypeOK, LocksHeld, SocketFollowsLock, Connect, Holding
<1>6. StreamsLive'
  BY DEF TypeOK, StreamsLive, Connect, Listening, Running
<1> QED BY <1>3, <1>4, <1>5, <1>6

\* spawn.lock passes to the client that moves on to look again.
LEMMA TakeSpawnLockKeeps ==
  ASSUME LaunchInv, NEW c \in Clients, TakeSpawnLock(c)
  PROVE  LaunchInv'
<1> USE LaunchAssumption DEF LaunchInv, ClientMoves
<1>1. \A pc \in ClientPcs : Goto(c, pc) => ClientMoves(c, pc)
  BY ClientGoes
<1>2. client' \in [Clients -> ClientStates]
  BY <1>1 DEF TakeSpawnLock, ClientPcs, Searching
<1>3. TypeOK'
  BY <1>2 DEF TypeOK, TakeSpawnLock, ClientStates, ClientPcs
<1>4. LocksHeld'
  BY <1>1 DEF TypeOK, LocksHeld, TakeSpawnLock, ClientPcs, Searching
<1>5. SocketFollowsLock'
  BY DEF TypeOK, LocksHeld, SocketFollowsLock, TakeSpawnLock, Holding
<1>6. StreamsLive'
  BY DEF TypeOK, StreamsLive, TakeSpawnLock, Running
<1> QED BY <1>3, <1>4, <1>5, <1>6

\* A client that gives up spawn.lock never had it.
LEMMA SpawnLockTimesOutKeeps ==
  ASSUME LaunchInv, NEW c \in Clients, SpawnLockTimesOut(c)
  PROVE  LaunchInv'
<1> USE LaunchAssumption DEF LaunchInv, ClientMoves
<1>1. \A pc \in ClientPcs : Goto(c, pc) => ClientMoves(c, pc)
  BY ClientGoes
<1>2. client' \in [Clients -> ClientStates]
  BY <1>1 DEF SpawnLockTimesOut, Spawned, ClientPcs, Searching
<1>3. TypeOK'
  BY <1>2 DEF TypeOK, SpawnLockTimesOut, ClientStates, ClientPcs
<1>4. LocksHeld'
  BY <1>1 DEF TypeOK, LocksHeld, SpawnLockTimesOut, Spawned, ClientPcs,
         Searching
<1>5. SocketFollowsLock'
  BY DEF TypeOK, LocksHeld, SocketFollowsLock, SpawnLockTimesOut,
         Holding
<1>6. StreamsLive'
  BY DEF TypeOK, StreamsLive, SpawnLockTimesOut, Running
<1> QED BY <1>3, <1>4, <1>5, <1>6

\* A client that finds a daemon under spawn.lock gives the lock up as it leaves.
LEMMA RecheckKeeps ==
  ASSUME LaunchInv, NEW c \in Clients, Recheck(c)
  PROVE  LaunchInv'
<1> USE LaunchAssumption DEF LaunchInv, ClientMoves
<1>1. \A pc \in ClientPcs : Goto(c, pc) => ClientMoves(c, pc)
  BY ClientGoes
<1>2. client' \in [Clients -> ClientStates]
  BY <1>1 DEF Recheck, Spawned, ClientPcs, Searching
<1>3. TypeOK'
  BY <1>2 DEF TypeOK, Recheck, Listening, ClientStates, ClientPcs
<1>4. LocksHeld'
  BY <1>1 DEF TypeOK, LocksHeld, Recheck, Spawned, Listening, ClientPcs,
         Searching
<1>5. SocketFollowsLock'
  BY DEF TypeOK, LocksHeld, SocketFollowsLock, Recheck, Holding
<1>6. StreamsLive'
  BY DEF TypeOK, StreamsLive, Recheck, Listening, Running
<1> QED BY <1>3, <1>4, <1>5, <1>6

\* daemon.lock is taken only when free, and otherwise spawn.lock is given up.
LEMMA ProbeKeeps ==
  ASSUME LaunchInv, NEW c \in Clients, Probe(c)
  PROVE  LaunchInv'
<1> USE LaunchAssumption DEF LaunchInv, ClientMoves
<1>1. \A pc \in ClientPcs : Goto(c, pc) => ClientMoves(c, pc)
  BY ClientGoes
<1>2. client' \in [Clients -> ClientStates]
  BY <1>1 DEF Probe, Spawned, ClientPcs, Searching
<1>3. TypeOK'
  BY <1>2 DEF TypeOK, Probe, ClientStates, ClientPcs
<1>4. LocksHeld'
  BY <1>1 DEF TypeOK, LocksHeld, Probe, Spawned, ClientPcs, Searching
<1>5. SocketFollowsLock'
  BY DEF TypeOK, LocksHeld, SocketFollowsLock, Probe, Holding
<1>6. StreamsLive'
  BY DEF TypeOK, StreamsLive, Probe, Running
<1> QED BY <1>3, <1>4, <1>5, <1>6

\* The client that removes the socket has daemon.lock, so no daemon does and the
\* file is nobody's.
LEMMA CleanKeeps ==
  ASSUME LaunchInv, NEW c \in Clients, Clean(c)
  PROVE  LaunchInv'
<1> USE LaunchAssumption DEF LaunchInv, ClientMoves
<1>1. \A pc \in ClientPcs : Goto(c, pc) => ClientMoves(c, pc)
  BY ClientGoes
<1>2. client' \in [Clients -> ClientStates]
  BY <1>1 DEF Clean, ClientPcs, Searching
<1>3. TypeOK'
  BY <1>2 DEF TypeOK, Clean, ClientStates, ClientPcs
<1>4. LocksHeld'
  BY <1>1 DEF TypeOK, LocksHeld, Clean, ClientPcs, Searching
<1>5. SocketFollowsLock'
  BY DEF TypeOK, LocksHeld, SocketFollowsLock, Clean, Holding
<1>6. StreamsLive'
  BY DEF TypeOK, StreamsLive, Clean, Running
<1> QED BY <1>3, <1>4, <1>5, <1>6

\* The lock taken by Probe is given back.
LEMMA UnlockKeeps ==
  ASSUME LaunchInv, NEW c \in Clients, Unlock(c)
  PROVE  LaunchInv'
<1> USE LaunchAssumption DEF LaunchInv, ClientMoves
<1>1. \A pc \in ClientPcs : Goto(c, pc) => ClientMoves(c, pc)
  BY ClientGoes
<1>2. client' \in [Clients -> ClientStates]
  BY <1>1 DEF Unlock, ClientPcs, Searching
<1>3. TypeOK'
  BY <1>2 DEF TypeOK, Unlock, ClientStates, ClientPcs
<1>4. LocksHeld'
  BY <1>1 DEF TypeOK, LocksHeld, Unlock, ClientPcs, Searching
<1>5. SocketFollowsLock'
  BY DEF TypeOK, LocksHeld, SocketFollowsLock, Unlock, Holding
<1>6. StreamsLive'
  BY DEF TypeOK, StreamsLive, Unlock, Running
<1> QED BY <1>3, <1>4, <1>5, <1>6

\* A failed spawn gives spawn.lock up.
LEMMA SpawnFailsKeeps ==
  ASSUME LaunchInv, NEW c \in Clients, SpawnFails(c)
  PROVE  LaunchInv'
<1> USE LaunchAssumption DEF LaunchInv, ClientMoves
<1>1. \A pc \in ClientPcs : Goto(c, pc) => ClientMoves(c, pc)
  BY ClientGoes
<1>2. client' \in [Clients -> ClientStates]
  BY <1>1 DEF SpawnFails, ClientPcs, Searching
<1>3. TypeOK'
  BY <1>2 DEF TypeOK, SpawnFails, Disturb, ClientStates, ClientPcs
<1>4. LocksHeld'
  BY <1>1 DEF TypeOK, LocksHeld, SpawnFails, ClientPcs, Searching
<1>5. SocketFollowsLock'
  BY DEF TypeOK, LocksHeld, SocketFollowsLock, SpawnFails, Holding
<1>6. StreamsLive'
  BY DEF TypeOK, StreamsLive, SpawnFails, Running
<1> QED BY <1>3, <1>4, <1>5, <1>6

\* A stream found by the reconnect loop leads to a daemon that serves.
LEMMA ReconnectKeeps ==
  ASSUME LaunchInv, NEW c \in Clients, Reconnect(c)
  PROVE  LaunchInv'
<1> USE LaunchAssumption DEF LaunchInv, ClientMoves
<1>1. \A pc \in ClientPcs : Goto(c, pc) => ClientMoves(c, pc)
  BY ClientGoes
<1>2. client' \in [Clients -> ClientStates]
  BY <1>1 DEF Reconnect, Connected, ClientPcs, Searching
<1>3. TypeOK'
  BY <1>2 DEF TypeOK, Reconnect, Listening, ClientStates, ClientPcs
<1>4. LocksHeld'
  BY <1>1 DEF TypeOK, LocksHeld, Reconnect, Connected, Listening,
         ClientPcs, Searching
<1>5. SocketFollowsLock'
  BY DEF TypeOK, LocksHeld, SocketFollowsLock, Reconnect, Holding
<1>6. StreamsLive'
  BY DEF TypeOK, StreamsLive, Reconnect, Listening, Running
<1> QED BY <1>3, <1>4, <1>5, <1>6

\* A client at the end of its budget holds nothing.
LEMMA GiveUpKeeps ==
  ASSUME LaunchInv, NEW c \in Clients, GiveUp(c)
  PROVE  LaunchInv'
<1> USE LaunchAssumption DEF LaunchInv, ClientMoves
<1>1. \A pc \in ClientPcs : Goto(c, pc) => ClientMoves(c, pc)
  BY ClientGoes
<1>2. client' \in [Clients -> ClientStates]
  BY <1>1 DEF GiveUp, ClientPcs, Searching
<1>3. TypeOK'
  BY <1>2 DEF TypeOK, GiveUp, ClientStates, ClientPcs
<1>4. LocksHeld'
  BY <1>1 DEF TypeOK, LocksHeld, GiveUp, ClientPcs, Searching
<1>5. SocketFollowsLock'
  BY DEF TypeOK, LocksHeld, SocketFollowsLock, GiveUp, Holding
<1>6. StreamsLive'
  BY DEF TypeOK, StreamsLive, GiveUp, Running
<1> QED BY <1>3, <1>4, <1>5, <1>6

\* The handshake changes no lock and no file.
LEMMA HelloKeeps ==
  ASSUME LaunchInv, NEW c \in Clients, Hello(c)
  PROVE  LaunchInv'
<1> USE LaunchAssumption DEF LaunchInv, ClientMoves
<1>1. \A pc \in ClientPcs : Goto(c, pc) => ClientMoves(c, pc)
  BY ClientGoes
<1>2. client' \in [Clients -> ClientStates]
  BY <1>1 DEF Hello, ClientPcs, Searching
<1>3. TypeOK'
  BY <1>2 DEF TypeOK, Hello, ClientStates, ClientPcs
<1>4. LocksHeld'
  BY <1>1 DEF TypeOK, LocksHeld, Hello, ClientPcs, Searching
<1>5. SocketFollowsLock'
  BY DEF TypeOK, LocksHeld, SocketFollowsLock, Hello, Holding
<1>6. StreamsLive'
  BY DEF TypeOK, StreamsLive, Hello, Running
<1> QED BY <1>3, <1>4, <1>5, <1>6

\* Nor does a handshake without an answer.
LEMMA HelloTimesOutKeeps ==
  ASSUME LaunchInv, NEW c \in Clients, HelloTimesOut(c)
  PROVE  LaunchInv'
<1> USE LaunchAssumption DEF LaunchInv, ClientMoves
<1>1. \A pc \in ClientPcs : Goto(c, pc) => ClientMoves(c, pc)
  BY ClientGoes
<1>2. client' \in [Clients -> ClientStates]
  BY <1>1 DEF HelloTimesOut, ClientPcs, Searching
<1>3. TypeOK'
  BY <1>2 DEF TypeOK, HelloTimesOut, ClientStates, ClientPcs
<1>4. LocksHeld'
  BY <1>1 DEF TypeOK, LocksHeld, HelloTimesOut, ClientPcs, Searching
<1>5. SocketFollowsLock'
  BY DEF TypeOK, LocksHeld, SocketFollowsLock, HelloTimesOut, Holding
<1>6. StreamsLive'
  BY DEF TypeOK, StreamsLive, HelloTimesOut, Running
<1> QED BY <1>3, <1>4, <1>5, <1>6

\* The wait takes daemon.lock only when no daemon has it.
LEMMA AwaitLockKeeps ==
  ASSUME LaunchInv, NEW c \in Clients, AwaitLock(c)
  PROVE  LaunchInv'
<1> USE LaunchAssumption DEF LaunchInv, ClientMoves
<1>1. \A pc \in ClientPcs : Goto(c, pc) => ClientMoves(c, pc)
  BY ClientGoes
<1>2. client' \in [Clients -> ClientStates]
  BY <1>1 DEF AwaitLock, ClientPcs, Searching
<1>3. TypeOK'
  BY <1>2 DEF TypeOK, AwaitLock, ClientStates, ClientPcs
<1>4. LocksHeld'
  BY <1>1 DEF TypeOK, LocksHeld, AwaitLock, ClientPcs, Searching
<1>5. SocketFollowsLock'
  BY DEF TypeOK, LocksHeld, SocketFollowsLock, AwaitLock, Holding
<1>6. StreamsLive'
  BY DEF TypeOK, StreamsLive, AwaitLock, Running
<1> QED BY <1>3, <1>4, <1>5, <1>6

\* The request's end drops the stream.
LEMMA RequestKeeps ==
  ASSUME LaunchInv, NEW c \in Clients, Request(c)
  PROVE  LaunchInv'
<1> USE LaunchAssumption DEF LaunchInv, ClientMoves
<1>1. \A pc \in ClientPcs : Goto(c, pc) => ClientMoves(c, pc)
  BY ClientGoes
<1>2. client' \in [Clients -> ClientStates]
  BY <1>1 DEF Request, ClientPcs, Searching
<1>3. TypeOK'
  BY <1>2 DEF TypeOK, Request, Hangup, ClientStates, ClientPcs
<1>4. LocksHeld'
  BY <1>1 DEF TypeOK, LocksHeld, Request, Hangup, ClientPcs, Searching
<1>5. SocketFollowsLock'
  BY DEF TypeOK, LocksHeld, SocketFollowsLock, Request, Holding
<1>6. StreamsLive'
  BY DEF TypeOK, StreamsLive, Request, Hangup, Running
<1> QED BY <1>3, <1>4, <1>5, <1>6

\* A shutdown is asked of a daemon that runs.
LEMMA AskShutdownKeeps ==
  ASSUME LaunchInv, NEW c \in Clients, AskShutdown(c)
  PROVE  LaunchInv'
<1> USE LaunchAssumption DEF LaunchInv, ClientMoves
<1>1. \A pc \in ClientPcs : Goto(c, pc) => ClientMoves(c, pc)
  BY ClientGoes
<1>2. client' \in [Clients -> ClientStates]
  BY <1>1 DEF AskShutdown, ClientPcs, Searching
<1>3. asked' \subseteq Daemons
  <2>1. conn[c] \in Daemons \cup {NoOne}
    BY DEF TypeOK
  <2>2. asked' = asked \/ (conn[c] # NoOne /\ asked' = asked \cup {conn[c]})
    BY DEF AskShutdown, Answering
  <2> QED BY <2>1, <2>2 DEF TypeOK
<1>4. TypeOK'
  BY <1>2, <1>3 DEF TypeOK, AskShutdown, Hangup, ClientStates, ClientPcs
<1>5. LocksHeld'
  BY <1>1 DEF TypeOK, LocksHeld, AskShutdown, ClientPcs, Searching
<1>6. SocketFollowsLock'
  BY DEF TypeOK, LocksHeld, SocketFollowsLock, AskShutdown, Holding
<1>7. StreamsLive'
  BY DEF TypeOK, StreamsLive, AskShutdown, Hangup, Answering, Running
<1> QED BY <1>4, <1>5, <1>6, <1>7

\* A killed client loses its locks and its stream at once.
LEMMA ClientDiesKeeps ==
  ASSUME LaunchInv, NEW c \in Clients, ClientDies(c)
  PROVE  LaunchInv'
<1> USE LaunchAssumption DEF LaunchInv, ClientMoves
<1>1. ClientMoves(c, "failed")
  BY ClientGoes DEF ClientDies, ClientPcs
<1>2. mishaps' \in Nat /\ disturbed' \subseteq Clients
  BY DEF TypeOK, ClientDies, Disturb
<1>3. daemonLock' \in Clients \cup Daemons \cup {NoOne} /\ spawnLock' \in Clients \cup {NoOne}
  BY DEF TypeOK, ClientDies
<1>4. conn' \in [Clients -> Daemons \cup {NoOne}] /\ counted' \subseteq Clients
  BY DEF TypeOK, ClientDies, Hangup
<1>5. TypeOK'
  BY <1>1, <1>2, <1>3, <1>4 DEF TypeOK, ClientDies, ClientStates, ClientPcs
<1>6. LocksHeld'
  BY <1>1 DEF TypeOK, LocksHeld, ClientDies
<1>7. SocketFollowsLock'
  BY DEF TypeOK, LocksHeld, SocketFollowsLock, ClientDies, Holding
<1>8. StreamsLive'
  BY DEF TypeOK, StreamsLive, ClientDies, Hangup, Running
<1> QED BY <1>5, <1>6, <1>7, <1>8

\* A client that starts holds nothing.
LEMMA StartKeeps ==
  ASSUME LaunchInv, NEW c \in Clients, NEW mode \in Modes[c], Start(c, mode)
  PROVE  LaunchInv'
<1> USE LaunchAssumption DEF LaunchInv
<1>1. TypeOK'
  <2>1. client \in [Clients -> ClientStates]
    BY DEF TypeOK, ClientStates, ClientPcs
  <2>2. mode \in {"session", "prompt", "command", "stop"}
    OBVIOUS
  <2>3. [client[c] EXCEPT !.pc = "connect", !.mode = mode] \in ClientStates
    BY <2>1, <2>2 DEF ClientStates, ClientPcs
  <2>4. client' \in [Clients -> ClientStates]
    BY <2>1, <2>3 DEF Start
  <2> QED BY <2>4 DEF TypeOK, Start, ClientStates, ClientPcs
<1>2. LocksHeld'
  BY DEF TypeOK, LocksHeld, Start
<1>3. SocketFollowsLock' /\ StreamsLive'
  BY DEF SocketFollowsLock, StreamsLive, Start
<1> QED BY <1>1, <1>2, <1>3

\* Nor does one that waited in vain.
LEMMA AwaitTimesOutKeeps ==
  ASSUME LaunchInv, NEW c \in Clients, AwaitTimesOut(c)
  PROVE  LaunchInv'
<1> USE LaunchAssumption DEF LaunchInv
<1>1. TypeOK'
  <2>1. client \in [Clients -> ClientStates]
    BY DEF TypeOK, ClientStates, ClientPcs
  <2>2. [client[c] EXCEPT !.pc = "connect", !.retired = TRUE] \in ClientStates
    BY <2>1 DEF ClientStates, ClientPcs
  <2>3. client' \in [Clients -> ClientStates]
    BY <2>1, <2>2 DEF AwaitTimesOut
  <2> QED BY <2>3 DEF TypeOK, AwaitTimesOut, ClientStates, ClientPcs
<1>2. LocksHeld'
  BY DEF TypeOK, LocksHeld, AwaitTimesOut
<1>3. SocketFollowsLock' /\ StreamsLive'
  BY DEF SocketFollowsLock, StreamsLive, AwaitTimesOut
<1> QED BY <1>1, <1>2, <1>3

\* The lock taken by AwaitLock is given back.
LEMMA AwaitedKeeps ==
  ASSUME LaunchInv, NEW c \in Clients, Awaited(c)
  PROVE  LaunchInv'
<1> USE LaunchAssumption DEF LaunchInv
<1>1. TypeOK'
  <2>1. client \in [Clients -> ClientStates]
    BY DEF TypeOK, ClientStates, ClientPcs
  <2>2. [client[c] EXCEPT !.pc = "connect", !.retired = TRUE] \in ClientStates
    BY <2>1 DEF ClientStates, ClientPcs
  <2>3. client' \in [Clients -> ClientStates]
    BY <2>1, <2>2 DEF Awaited
  <2> QED BY <2>3 DEF TypeOK, Awaited, ClientStates, ClientPcs
<1>2. LocksHeld'
  BY DEF TypeOK, LocksHeld, Awaited
<1>3. SocketFollowsLock' /\ StreamsLive'
  BY DEF SocketFollowsLock, StreamsLive, Awaited
<1> QED BY <1>1, <1>2, <1>3

\* A new daemon process takes an id no file, stream or process has.
LEMMA SpawnKeeps ==
  ASSUME LaunchInv, NEW c \in Clients, Spawn(c)
  PROVE  LaunchInv'
<1> USE LaunchAssumption DEF LaunchInv, ClientMoves
<1>1. \A pc \in ClientPcs : Goto(c, pc) => ClientMoves(c, pc)
  BY ClientGoes
<1>2. PICK d \in Daemons :
         /\ daemon[d].pc = "dead"
         /\ \A b \in Clients : conn[b] # d
         /\ daemon' = [daemon EXCEPT ![d] = [pc |-> "boot", version |-> Version[c]]]
  BY DEF Spawn, Fresh, Unused
<1>3. /\ daemon' \in [Daemons -> [pc : DaemonPcs, version : Nat]]
      /\ daemon'[d].pc = "boot"
      /\ \A e \in Daemons : e # d => daemon'[e] = daemon[e]
  BY <1>2 DEF TypeOK, DaemonPcs, Holding
<1>4. client' \in [Clients -> ClientStates]
  BY <1>1 DEF Spawn, Spawned, ClientPcs, Searching
<1>5. TypeOK'
  BY <1>3, <1>4 DEF TypeOK, Spawn, ClientStates, ClientPcs, DaemonPcs
<1>6. LocksHeld'
  <2>1. \A e \in Daemons : daemonLock' = e <=> daemon'[e].pc \in Holding
    BY <1>2, <1>3 DEF LocksHeld, Spawn, Holding
  <2>2. \A b \in Clients :
           /\ daemonLock' = b <=> client'[b].pc \in {"clean", "unlock", "awaited"}
           /\ spawnLock' = b <=>
                client'[b].pc \in {"recheck", "probe", "clean", "unlock", "spawn"}
    BY <1>1 DEF TypeOK, LocksHeld, Spawn, Spawned, ClientPcs, Searching
  <2> QED BY <2>1, <2>2 DEF LocksHeld
<1>7. SocketFollowsLock'
  BY <1>2, <1>3 DEF SocketFollowsLock, Spawn
<1>8. StreamsLive'
  BY <1>2, <1>3 DEF TypeOK, StreamsLive, Spawn, Running
<1> QED BY <1>5, <1>6, <1>7, <1>8

-----------------------------------------------------------------------------
\* Every step of a daemon keeps LaunchInv.

\* A connection is counted only while its daemon serves.
LEMMA AcceptKeeps ==
  ASSUME LaunchInv, NEW c \in Clients, Accept(c)
  PROVE  LaunchInv'
<1> USE LaunchAssumption DEF LaunchInv
<1>1. TypeOK'
  BY DEF TypeOK, Accept
<1>2. LocksHeld' /\ SocketFollowsLock'
  BY DEF LocksHeld, SocketFollowsLock, Accept
<1>3. StreamsLive'
  BY DEF TypeOK, StreamsLive, Accept, Listening
<1> QED BY <1>1, <1>2, <1>3

\* The streams of a daemon that goes on running its tasks stay live.
LEMMA StreamsStay ==
  ASSUME TypeOK, StreamsLive, NEW d \in Daemons, NEW pc \in DaemonPcs, DaemonMoves(d, pc),
         daemon[d].pc \in Running => pc \in Running,
         UNCHANGED <<conn, counted, asked>>
  PROVE  StreamsLive'
<1>1. \A e \in Daemons : daemon[e].pc \in Running => daemon'[e].pc \in Running
  BY DEF DaemonMoves
<1>2. \A c \in Clients : conn[c] # NoOne => conn[c] \in Daemons
  BY DEF TypeOK
<1> QED BY <1>1, <1>2 DEF TypeOK, StreamsLive

\* A process that is gone takes its lock, its streams and its tasks with it.
LEMMA VanishKeeps ==
  ASSUME LaunchInv, NEW d \in Daemons, Vanish(d), mishaps' \in Nat,
         UNCHANGED <<socket, spawnLock, client>>
  PROVE  LaunchInv'
<1> USE LaunchAssumption DEF LaunchInv, DaemonMoves
<1>1. DaemonMoves(d, "dead")
  BY DaemonGoes DEF Vanish, DaemonPcs
<1>2. /\ daemonLock' \in Clients \cup Daemons \cup {NoOne}
      /\ conn' \in [Clients -> Daemons \cup {NoOne}]
  BY DEF TypeOK, Vanish
<1>3. counted' \subseteq Clients /\ asked' \subseteq Daemons /\ disturbed' \subseteq Clients
  BY DEF TypeOK, Vanish, Disturb
<1>4. TypeOK'
  BY <1>1, <1>2, <1>3 DEF TypeOK, DaemonPcs
<1>5. /\ \A e \in Daemons : e # d => (daemonLock' = e <=> daemonLock = e)
      /\ \A c \in Clients : daemonLock' = c <=> daemonLock = c
      /\ daemonLock' # d
  BY DEF TypeOK, Vanish
<1>6. LocksHeld'
  BY <1>1, <1>5 DEF LocksHeld, Holding
<1>7. SocketFollowsLock'
  BY <1>1 DEF SocketFollowsLock
<1>8. \A c \in Clients :
         conn'[c] # NoOne => conn'[c] = conn[c] /\ conn[c] # d /\ conn[c] \in Daemons
  BY DEF TypeOK, Vanish
<1>9. \A c \in counted' : c \in counted /\ c \in Clients /\ conn'[c] = conn[c]
  BY DEF TypeOK, Vanish
<1>10. \A e \in asked' : e \in asked /\ e # d /\ e \in Daemons
  BY DEF TypeOK, Vanish
<1>11. StreamsLive'
  BY <1>1, <1>8, <1>9, <1>10 DEF StreamsLive
<1> QED BY <1>4, <1>6, <1>7, <1>11

\* The daemon that removes the stale socket has daemon.lock, so no other serves.
LEMMA RemoveStaleKeeps ==
  ASSUME LaunchInv, NEW d \in Daemons, RemoveStale(d)
  PROVE  LaunchInv'
<1> USE LaunchAssumption DEF LaunchInv, DaemonMoves
<1>1. PICK pc \in DaemonPcs : DaemonGoto(d, pc) /\ (daemon[d].pc \in Running => pc \in Running)
  BY DEF RemoveStale, DaemonPcs, Holding, Running
<1>2. DaemonMoves(d, pc)
  BY <1>1, DaemonGoes
<1>3. TypeOK'
  BY <1>2 DEF TypeOK, RemoveStale, DaemonPcs
<1>4. \A q \in DaemonPcs : DaemonGoto(d, q) => DaemonMoves(d, q)
  BY DaemonGoes
<1>5. LocksHeld'
  BY <1>4 DEF TypeOK, LocksHeld, RemoveStale, DaemonPcs, Holding
<1>6. SocketFollowsLock'
  BY <1>4 DEF TypeOK, LocksHeld, SocketFollowsLock, RemoveStale, DaemonPcs,
         Holding
<1>7. StreamsLive'
  BY <1>1, <1>2, StreamsStay DEF RemoveStale
<1> QED BY <1>3, <1>5, <1>6, <1>7

\* The socket is free for the daemon that holds daemon.lock to bind.
LEMMA BindKeeps ==
  ASSUME LaunchInv, NEW d \in Daemons, Bind(d)
  PROVE  LaunchInv'
<1> USE LaunchAssumption DEF LaunchInv, DaemonMoves
<1>1. PICK pc \in DaemonPcs : DaemonGoto(d, pc) /\ (daemon[d].pc \in Running => pc \in Running)
  BY DEF Bind, DaemonPcs, Holding, Running
<1>2. DaemonMoves(d, pc)
  BY <1>1, DaemonGoes
<1>3. TypeOK'
  BY <1>2 DEF TypeOK, Bind, DaemonPcs
<1>4. \A q \in DaemonPcs : DaemonGoto(d, q) => DaemonMoves(d, q)
  BY DaemonGoes
<1>5. LocksHeld'
  BY <1>4 DEF TypeOK, LocksHeld, Bind, DaemonPcs, Holding
<1>6. SocketFollowsLock'
  BY <1>4 DEF TypeOK, LocksHeld, SocketFollowsLock, Bind, DaemonPcs, Holding
<1>7. StreamsLive'
  BY <1>1, <1>2, StreamsStay DEF Bind
<1> QED BY <1>3, <1>5, <1>6, <1>7

\* daemon.lock is taken only when free; a second daemon dies without touching it.
LEMMA TryLockKeeps ==
  ASSUME LaunchInv, NEW d \in Daemons, TryLock(d)
  PROVE  LaunchInv'
<1> USE LaunchAssumption DEF LaunchInv, DaemonMoves
<1>1. PICK pc \in DaemonPcs : DaemonGoto(d, pc) /\ (daemon[d].pc \in Running => pc \in Running)
  BY DEF TryLock, DaemonPcs, Holding, Running
<1>2. DaemonMoves(d, pc)
  BY <1>1, DaemonGoes
<1>3. TypeOK'
  BY <1>2 DEF TypeOK, TryLock, DaemonPcs
<1>4. \A q \in DaemonPcs : DaemonGoto(d, q) => DaemonMoves(d, q)
  BY DaemonGoes
<1>5. LocksHeld'
  BY <1>4 DEF TypeOK, LocksHeld, TryLock, DaemonPcs, Holding
<1>6. SocketFollowsLock'
  BY <1>4 DEF TypeOK, LocksHeld, SocketFollowsLock, TryLock, DaemonPcs,
         Holding
<1>7. StreamsLive'
  BY <1>1, <1>2, StreamsStay DEF TryLock
<1> QED BY <1>3, <1>5, <1>6, <1>7

\* A daemon asked to leave keeps lock, socket and tasks for now.
LEMMA ShutdownAskedKeeps ==
  ASSUME LaunchInv, NEW d \in Daemons, ShutdownAsked(d)
  PROVE  LaunchInv'
<1> USE LaunchAssumption DEF LaunchInv, DaemonMoves
<1>1. PICK pc \in DaemonPcs : DaemonGoto(d, pc) /\ (daemon[d].pc \in Running => pc \in Running)
  BY DEF ShutdownAsked, DaemonPcs, Holding, Running
<1>2. DaemonMoves(d, pc)
  BY <1>1, DaemonGoes
<1>3. TypeOK'
  BY <1>2 DEF TypeOK, ShutdownAsked, DaemonPcs
<1>4. \A q \in DaemonPcs : DaemonGoto(d, q) => DaemonMoves(d, q)
  BY DaemonGoes
<1>5. LocksHeld'
  BY <1>4 DEF TypeOK, LocksHeld, ShutdownAsked, DaemonPcs, Holding
<1>6. SocketFollowsLock'
  BY <1>4 DEF TypeOK, LocksHeld, SocketFollowsLock, ShutdownAsked,
         DaemonPcs, Holding
<1>7. StreamsLive'
  BY <1>1, <1>2, StreamsStay DEF ShutdownAsked
<1> QED BY <1>3, <1>5, <1>6, <1>7

\* So does a quiet one,
LEMMA QuietExitKeeps ==
  ASSUME LaunchInv, NEW d \in Daemons, QuietExit(d)
  PROVE  LaunchInv'
<1> USE LaunchAssumption DEF LaunchInv, DaemonMoves
<1>1. PICK pc \in DaemonPcs : DaemonGoto(d, pc) /\ (daemon[d].pc \in Running => pc \in Running)
  BY DEF QuietExit, DaemonPcs, Holding, Running
<1>2. DaemonMoves(d, pc)
  BY <1>1, DaemonGoes
<1>3. TypeOK'
  BY <1>2 DEF TypeOK, QuietExit, DaemonPcs
<1>4. \A q \in DaemonPcs : DaemonGoto(d, q) => DaemonMoves(d, q)
  BY DaemonGoes
<1>5. LocksHeld'
  BY <1>4 DEF TypeOK, LocksHeld, QuietExit, DaemonPcs, Holding
<1>6. SocketFollowsLock'
  BY <1>4 DEF TypeOK, LocksHeld, SocketFollowsLock, QuietExit, DaemonPcs,
         Holding
<1>7. StreamsLive'
  BY <1>1, <1>2, StreamsStay DEF QuietExit
<1> QED BY <1>3, <1>5, <1>6, <1>7

\* and an interrupted one.
LEMMA InterruptedKeeps ==
  ASSUME LaunchInv, NEW d \in Daemons, Interrupted(d)
  PROVE  LaunchInv'
<1> USE LaunchAssumption DEF LaunchInv, DaemonMoves
<1>1. PICK pc \in DaemonPcs : DaemonGoto(d, pc) /\ (daemon[d].pc \in Running => pc \in Running)
  BY DEF Interrupted, DaemonPcs, Holding, Running
<1>2. DaemonMoves(d, pc)
  BY <1>1, DaemonGoes
<1>3. TypeOK'
  BY <1>2 DEF TypeOK, Interrupted, DaemonPcs
<1>4. \A q \in DaemonPcs : DaemonGoto(d, q) => DaemonMoves(d, q)
  BY DaemonGoes
<1>5. LocksHeld'
  BY <1>4 DEF TypeOK, LocksHeld, Interrupted, DaemonPcs, Holding
<1>6. SocketFollowsLock'
  BY <1>4 DEF TypeOK, LocksHeld, SocketFollowsLock, Interrupted, DaemonPcs,
         Holding
<1>7. StreamsLive'
  BY <1>1, <1>2, StreamsStay DEF Interrupted
<1> QED BY <1>3, <1>5, <1>6, <1>7

\* A leaving daemon removes its own socket, before it gives up the lock.
LEMMA UnlinkKeeps ==
  ASSUME LaunchInv, NEW d \in Daemons, Unlink(d)
  PROVE  LaunchInv'
<1> USE LaunchAssumption DEF LaunchInv, DaemonMoves
<1>1. PICK pc \in DaemonPcs : DaemonGoto(d, pc) /\ (daemon[d].pc \in Running => pc \in Running)
  BY DEF Unlink, DaemonPcs, Holding, Running
<1>2. DaemonMoves(d, pc)
  BY <1>1, DaemonGoes
<1>3. TypeOK'
  BY <1>2 DEF TypeOK, Unlink, DaemonPcs
<1>4. \A q \in DaemonPcs : DaemonGoto(d, q) => DaemonMoves(d, q)
  BY DaemonGoes
<1>5. LocksHeld'
  BY <1>4 DEF TypeOK, LocksHeld, Unlink, DaemonPcs, Holding
<1>6. SocketFollowsLock'
  BY <1>4 DEF TypeOK, LocksHeld, SocketFollowsLock, Unlink, DaemonPcs,
         Holding
<1>7. StreamsLive'
  BY <1>1, <1>2, StreamsStay DEF Unlink
<1> QED BY <1>3, <1>5, <1>6, <1>7

\* The end of main is such an end.
LEMMA ExitKeeps ==
  ASSUME LaunchInv, NEW d \in Daemons, Exit(d)
  PROVE  LaunchInv'
BY VanishKeeps DEF Exit, LaunchInv, TypeOK

\* So is a crash; the file stays, without an owner.
LEMMA CrashKeeps ==
  ASSUME LaunchInv, NEW d \in Daemons, Crash(d)
  PROVE  LaunchInv'
<1>1. mishaps' \in Nat
  BY DEF Crash, LaunchInv, TypeOK
<1> QED BY <1>1, VanishKeeps DEF Crash

-----------------------------------------------------------------------------
\* Nothing runs and nothing is locked at first.
LEMMA LaunchInvInit == Init => LaunchInv
<1> SUFFICES ASSUME Init PROVE LaunchInv
  OBVIOUS
<1> USE LaunchAssumption DEF Init
<1>1. TypeOK
  BY DEF TypeOK, Idle, NotRunning
<1>2. LocksHeld
  BY DEF LocksHeld, Idle, NotRunning, Holding
<1>3. SocketFollowsLock /\ StreamsLive
  BY DEF SocketFollowsLock, StreamsLive, NotRunning
<1> QED BY <1>1, <1>2, <1>3 DEF LaunchInv

\* Every step keeps the invariant.
LEMMA LaunchInvNext == LaunchInv /\ [Next]_vars => LaunchInv'
<1> SUFFICES ASSUME LaunchInv, [Next]_vars PROVE LaunchInv'
  OBVIOUS
<1>1. ASSUME NEW c \in Clients, NEW mode \in Modes[c], Start(c, mode) PROVE LaunchInv'
  BY <1>1, StartKeeps
<1>2. ASSUME NEW c \in Clients, ClientStep(c) PROVE LaunchInv'
  BY <1>2, ConnectKeeps, TakeSpawnLockKeeps, SpawnLockTimesOutKeeps, RecheckKeeps, ProbeKeeps,
     CleanKeeps, UnlockKeeps, SpawnKeeps, ReconnectKeeps, HelloKeeps, AskShutdownKeeps,
     AwaitLockKeeps, AwaitTimesOutKeeps, AwaitedKeeps, RequestKeeps
  DEF ClientStep
<1>3. ASSUME NEW c \in Clients,
             Accept(c) \/ GiveUp(c) \/ SpawnFails(c) \/ HelloTimesOut(c) \/ ClientDies(c)
      PROVE  LaunchInv'
  BY <1>3, AcceptKeeps, GiveUpKeeps, SpawnFailsKeeps, HelloTimesOutKeeps, ClientDiesKeeps
<1>4. ASSUME NEW d \in Daemons, DaemonStep(d) PROVE LaunchInv'
  BY <1>4, TryLockKeeps, RemoveStaleKeeps, BindKeeps, ShutdownAskedKeeps, UnlinkKeeps, ExitKeeps
  DEF DaemonStep
<1>5. ASSUME NEW d \in Daemons, QuietExit(d) \/ Interrupted(d) \/ Crash(d) PROVE LaunchInv'
  BY <1>5, QuietExitKeeps, InterruptedKeeps, CrashKeeps
<1>6. CASE AllDone \/ UNCHANGED vars
  BY <1>6 DEF AllDone, vars, LaunchInv, TypeOK, LocksHeld, SocketFollowsLock, StreamsLive,
              Searching, Holding, Running
<1> QED BY <1>1, <1>2, <1>3, <1>4, <1>5, <1>6 DEF Next

\* In every reachable state each process that touches the socket file or takes
\* the database holds the lock that entitles it to, the file in place is that of
\* the daemon with daemon.lock, and streams lead to a daemon that runs.
THEOREM LaunchInvariant == Spec => []LaunchInv
<1>1. Init => LaunchInv
  BY LaunchInvInit
<1>2. LaunchInv /\ [Next]_vars => LaunchInv'
  BY LaunchInvNext
<1> QED BY <1>1, <1>2, PTL DEF Spec

\* A daemon that serves always has its socket file in place and daemon.lock in
\* its hands, whatever clients and other daemons do (client.rs
\* spawn_daemon_locked, autofork-daemon main.rs async_main).
THEOREM ServingDaemonReachable == Spec => []ServingIsReachable
<1>1. LaunchInv => ServingIsReachable
  BY DEF LaunchInv, LocksHeld, SocketFollowsLock, ServingIsReachable, Holding
<1> QED BY <1>1, LaunchInvariant, PTL

-----------------------------------------------------------------------------
\* The refinement: what each step of the protocol is to the Service.

Owner == IF daemonLock \in Daemons THEN daemonLock ELSE NoOne

\* The facts about locks and streams that the refinement rests on.
LEMMA OwnerFacts ==
  ASSUME LaunchInv
  PROVE  /\ Owner \in Daemons \cup {NoOne}
         /\ \A d \in Daemons : daemon[d].pc \in Holding => daemonLock = d /\ Owner = d
         /\ \A c \in Clients : conn[c] \in Daemons \cup {NoOne}
         /\ \A c \in Clients : conn[c] # NoOne => Owner = conn[c] /\ daemonLock = conn[c]
<1> USE LaunchAssumption DEF LaunchInv, Owner
<1>1. \A d \in Daemons : daemon[d].pc \in Holding => daemonLock = d /\ Owner = d
  BY DEF LocksHeld
<1>2. \A c \in Clients : conn[c] \in Daemons \cup {NoOne}
  BY DEF TypeOK
<1>3. \A c \in Clients : conn[c] # NoOne => daemon[conn[c]].pc \in Holding
  BY DEF StreamsLive, Running, Holding
<1>4. Owner \in Daemons \cup {NoOne}
  OBVIOUS
<1> QED BY <1>1, <1>2, <1>3, <1>4

\* A step that keeps the streams and, if a daemon has daemon.lock before or after
\* it, the lock and the daemons, is none of the Service's.
LEMMA Unseen ==
  ASSUME UNCHANGED <<daemon, conn>>,
         daemonLock' = daemonLock \/ (daemonLock \notin Daemons /\ daemonLock' \notin Daemons)
  PROVE  UNCHANGED Server!vars
<1>1. Owner' = Owner
  BY DEF Owner
<1>2. Listening(daemonLock)' = Listening(daemonLock)
  BY DEF Listening
<1> QED BY <1>1, <1>2 DEF Server!vars, Owner

\* A client's connection, at the first try or after a search.
LEMMA ConnectRefines ==
  ASSUME LaunchInv, NEW c \in Clients, Listening(socket),
         conn' = [conn EXCEPT ![c] = socket], UNCHANGED <<daemonLock, daemon>>
  PROVE  Server!Next
<1>1. socket \in Daemons /\ socket = daemonLock
  BY DEF LaunchInv, LocksHeld, Listening, Holding
<1>2. /\ Listening(daemonLock)
      /\ conn' = [conn EXCEPT ![c] = IF daemonLock \in Daemons THEN daemonLock ELSE NoOne]
  BY <1>1
<1>3. Listening(daemonLock)' = Listening(daemonLock)
  BY DEF Listening
<1> QED BY <1>2, <1>3 DEF Server!Next, Server!Connect

\* The end of a client's connection.
LEMMA HangupRefines ==
  ASSUME NEW c \in Clients, Hangup(c), UNCHANGED daemon,
         daemonLock' = daemonLock \/ (daemonLock \notin Daemons /\ daemonLock' \notin Daemons)
  PROVE  Server!Next
<1>1. Owner' = Owner
  BY DEF Owner
<1>2. Listening(daemonLock)' = Listening(daemonLock)
  BY DEF Listening
<1> QED BY <1>1, <1>2 DEF Owner, Hangup, Server!Next, Server!Disconnect

\* A step of a client connects, disconnects or is unseen.
LEMMA ClientRefines ==
  ASSUME LaunchInv, NEW c \in Clients,
         ClientStep(c) \/ GiveUp(c) \/ SpawnFails(c) \/ HelloTimesOut(c) \/ ClientDies(c)
  PROVE  Server!Next \/ UNCHANGED Server!vars
<1> USE LaunchAssumption
<1>1. CASE Connect(c) \/ Reconnect(c)
  BY <1>1, ConnectRefines, Unseen DEF Connect, Reconnect
<1>2. CASE AskShutdown(c) \/ Request(c)
  BY <1>2, HangupRefines DEF AskShutdown, Request
<1>3. CASE ClientDies(c)
  BY <1>3, HangupRefines DEF ClientDies
<1>4. CASE Spawn(c)
  <2>1. PICK d \in Daemons :
           /\ daemon[d].pc = "dead"
           /\ daemon' = [daemon EXCEPT ![d] = [pc |-> "boot", version |-> Version[c]]]
    BY <1>4 DEF Spawn, Fresh, Unused
  <2>2. daemonLock' = daemonLock /\ conn' = conn
    BY <1>4 DEF Spawn
  <2>3. daemonLock # d
    BY <2>1 DEF LaunchInv, LocksHeld, Holding
  <2>4. Listening(daemonLock)' = Listening(daemonLock)
    BY <2>1, <2>2, <2>3 DEF Listening
  <2> QED BY <2>2, <2>4 DEF Server!vars
<1>5. CASE Probe(c) \/ Unlock(c) \/ AwaitLock(c) \/ Awaited(c)
  <2>1. UNCHANGED <<daemon, conn>>
    BY <1>5 DEF Probe, Unlock, AwaitLock, Awaited
  <2>2. client[c].pc \in {"unlock", "awaited"} => daemonLock = c
    BY DEF LaunchInv, LocksHeld
  <2>3. daemonLock' = daemonLock \/ (daemonLock \notin Daemons /\ daemonLock' \notin Daemons)
    BY <1>5, <2>2 DEF Probe, Unlock, AwaitLock, Awaited
  <2> QED BY <2>1, <2>3, Unseen
<1>6. CASE \/ TakeSpawnLock(c) \/ SpawnLockTimesOut(c) \/ Recheck(c) \/ Clean(c) \/ Hello(c)
           \/ AwaitTimesOut(c) \/ GiveUp(c) \/ SpawnFails(c) \/ HelloTimesOut(c)
  <2>1. UNCHANGED <<daemon, conn, daemonLock>>
    BY <1>6 DEF TakeSpawnLock, SpawnLockTimesOut, Recheck, Clean, Hello, AwaitTimesOut, GiveUp,
                SpawnFails, HelloTimesOut
  <2> QED BY <2>1, Unseen
<1> QED BY <1>1, <1>2, <1>3, <1>4, <1>5, <1>6 DEF ClientStep

\* A daemon takes the lock, opens and closes, or leaves.
LEMMA DaemonRefines ==
  ASSUME LaunchInv, NEW d \in Daemons,
         DaemonStep(d) \/ QuietExit(d) \/ Interrupted(d) \/ Crash(d)
  PROVE  Server!Next \/ UNCHANGED Server!vars
<1> USE LaunchAssumption
<1>1. \A pc \in DaemonPcs : DaemonGoto(d, pc) => DaemonMoves(d, pc)
  BY DaemonGoes DEF LaunchInv
<1>2. CASE TryLock(d)
  <2>1. CASE daemonLock = NoOne
    <3>1. daemonLock' = d /\ conn' = conn /\ daemon'[d].pc = "locked"
      BY <1>1, <1>2, <2>1 DEF TryLock, DaemonMoves, DaemonPcs, Holding
    <3>2. \A c \in Clients : conn[c] = NoOne
      BY <2>1, OwnerFacts
    <3>3. ~ Listening(daemonLock) /\ ~ Listening(daemonLock)'
      BY <2>1, <3>1 DEF Listening
    <3>4. Listening(daemonLock)' = Listening(daemonLock)
      BY <3>3 DEF Listening
    <3>5. Server!Take(d)
      BY <2>1, <3>1, <3>2, <3>4 DEF Server!Take
    <3> QED BY <3>5 DEF Server!Next
  <2>2. CASE daemonLock # NoOne
    <3>1. /\ daemonLock' = daemonLock /\ conn' = conn
          /\ DaemonMoves(d, "dead") /\ daemon[d].pc = "boot"
      BY <1>1, <1>2, <2>2 DEF TryLock, DaemonPcs
    <3>2. daemonLock # d
      BY <3>1 DEF LaunchInv, LocksHeld, Holding
    <3>3. Listening(daemonLock)' = Listening(daemonLock)
      BY <3>1, <3>2 DEF Listening, DaemonMoves
    <3> QED BY <3>1, <3>3 DEF Server!vars
  <2> QED BY <2>1, <2>2
<1>3. CASE Bind(d)
  <2>1. daemonLock = d /\ socket = NoOne
    BY <1>3 DEF Bind, LaunchInv, LocksHeld, SocketFollowsLock, Holding
  <2>2. daemonLock' = d /\ conn' = conn /\ daemon'[d].pc = "serve"
    BY <1>1, <1>3, <2>1 DEF Bind, DaemonMoves, DaemonPcs, Holding
  <2>3. Listening(daemonLock)' = TRUE
    BY <2>2 DEF Listening
  <2>4. Server!Open
    BY <2>1, <2>2, <2>3 DEF Server!Open
  <2> QED BY <2>4 DEF Server!Next
<1>4. CASE ShutdownAsked(d) \/ QuietExit(d) \/ Interrupted(d)
  <2>1. daemonLock = d
    BY <1>4 DEF ShutdownAsked, QuietExit, Interrupted, LaunchInv, LocksHeld, Holding
  <2>2. daemonLock' = d /\ conn' = conn /\ daemon'[d].pc = "leaving"
    BY <1>1, <1>4, <2>1 DEF ShutdownAsked, QuietExit, Interrupted, DaemonMoves, DaemonPcs, Holding
  <2>3. Listening(daemonLock)' = FALSE
    BY <2>2 DEF Listening
  <2>4. Server!Close
    BY <2>1, <2>2, <2>3 DEF Server!Close
  <2> QED BY <2>4 DEF Server!Next
<1>5. CASE RemoveStale(d) \/ Unlink(d)
  <2>1. daemonLock = d /\ daemon[d].pc # "serve"
    BY <1>5 DEF RemoveStale, Unlink, LaunchInv, LocksHeld, Holding
  <2>2. daemonLock' = d /\ conn' = conn /\ daemon'[d].pc # "serve"
    BY <1>1, <1>5, <2>1 DEF RemoveStale, Unlink, DaemonMoves, DaemonPcs, Holding
  <2>3. Listening(daemonLock)' = Listening(daemonLock)
    BY <2>1, <2>2 DEF Listening
  <2> QED BY <2>1, <2>2, <2>3 DEF Server!vars
<1>6. CASE Exit(d) \/ Crash(d)
  <2>1. Vanish(d) /\ DaemonMoves(d, "dead")
    BY <1>1, <1>6 DEF Exit, Crash, Vanish, DaemonPcs
  <2>2. CASE daemonLock = d
    <3>1. daemonLock' = NoOne
      BY <2>1, <2>2 DEF Vanish
    <3>2. Listening(daemonLock)' = FALSE
      BY <3>1 DEF Listening
    <3>3. \A c \in Clients : conn[c] \in {d, NoOne}
      BY <2>2, OwnerFacts
    <3>4. conn' = [c \in Clients |-> NoOne]
      BY <2>1, <3>3 DEF Vanish
    <3>5. Server!Release
      BY <3>1, <3>2, <3>4 DEF Server!Release
    <3> QED BY <3>5 DEF Server!Next
  <2>3. CASE daemonLock # d
    <3>1. daemonLock' = daemonLock
      BY <2>1, <2>3 DEF Vanish
    <3>2. \A c \in Clients : conn[c] # d
      BY <2>3, OwnerFacts
    <3>3. conn' = conn
      BY <2>1, <3>2 DEF Vanish, LaunchInv, TypeOK
    <3>4. Listening(daemonLock)' = Listening(daemonLock)
      BY <2>1, <2>3, <3>1 DEF Listening, DaemonMoves
    <3> QED BY <3>1, <3>3, <3>4 DEF Server!vars
  <2> QED BY <2>2, <2>3
<1> QED BY <1>2, <1>3, <1>4, <1>5, <1>6 DEF DaemonStep

\* The launch protocol implements Service: the database and the clients'
\* connections pass from one daemon to the next, never to two at once, and a
\* daemon starts only when no stream of an earlier one is left (flock on
\* daemon.lock in autofork-daemon main.rs, connect_or_spawn in client.rs).
THEOREM LaunchImplementsService == Spec => OneService
<1>1. Init => Server!Init
  <2> SUFFICES ASSUME Init PROVE Server!Init
    OBVIOUS
  <2>1. daemonLock = NoOne /\ conn = [c \in Clients |-> NoOne] /\ NoOne \notin Daemons
    BY LaunchAssumption DEF Init
  <2>2. Listening(daemonLock) = FALSE
    BY <2>1 DEF Listening
  <2> QED BY <2>1, <2>2 DEF Server!Init
<1>2. LaunchInv /\ [Next]_vars => [Server!Next]_(Server!vars)
  <2> SUFFICES ASSUME LaunchInv, [Next]_vars PROVE Server!Next \/ UNCHANGED Server!vars
    OBVIOUS
  <2>1. ASSUME NEW c \in Clients, NEW mode \in Modes[c], Start(c, mode)
        PROVE  UNCHANGED Server!vars
    BY <2>1, Unseen DEF Start
  <2>2. ASSUME NEW c \in Clients, Accept(c) PROVE UNCHANGED Server!vars
    BY <2>2, Unseen DEF Accept
  <2>3. CASE AllDone \/ UNCHANGED vars
    BY <2>3, Unseen DEF AllDone, vars
  <2> QED BY <2>1, <2>2, <2>3, ClientRefines, DaemonRefines DEF Next
<1> QED BY <1>1, <1>2, LaunchInvariant, PTL DEF Spec, OneService, Server!Spec
=============================================================================
