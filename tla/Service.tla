------------------------------ MODULE Service ------------------------------
(***************************************************************************)
(* What the launch protocol promises: the database has one daemon at a     *)
(* time, requests go only to the daemon that has it, and a daemon takes it *)
(* only when no request of an earlier one is left.                         *)
(***************************************************************************)
CONSTANTS Clients, Daemons, NoOne

VARIABLES
    owner,      \* the daemon that has the database
    open,       \* it accepts connections
    at          \* per client, the daemon it is connected to

vars == <<owner, open, at>>

Init ==
    /\ owner = NoOne
    /\ open = FALSE
    /\ at = [c \in Clients |-> NoOne]

Take(d) ==
    /\ owner = NoOne
    /\ \A c \in Clients : at[c] = NoOne
    /\ owner' = d
    /\ UNCHANGED <<open, at>>

Open ==
    /\ owner # NoOne
    /\ open' = TRUE
    /\ UNCHANGED <<owner, at>>

Connect(c) ==
    /\ open
    /\ at' = [at EXCEPT ![c] = owner]
    /\ UNCHANGED <<owner, open>>

Disconnect(c) ==
    /\ at' = [at EXCEPT ![c] = NoOne]
    /\ UNCHANGED <<owner, open>>

Close ==
    /\ open' = FALSE
    /\ UNCHANGED <<owner, at>>

\* The daemon is gone, and every connection with it.
Release ==
    /\ owner' = NoOne
    /\ open' = FALSE
    /\ at' = [c \in Clients |-> NoOne]

Next ==
    \/ \E d \in Daemons : Take(d)
    \/ \E c \in Clients : Connect(c) \/ Disconnect(c)
    \/ Open \/ Close \/ Release

Spec == Init /\ [][Next]_vars
=============================================================================
