------------------------------ MODULE MCLaunch ------------------------------
(***************************************************************************)
(* CLI processes of one and of two versions for model checking Launch.     *)
(***************************************************************************)
EXTENDS Launch, TLC

CONSTANTS cli1, cli2, cli3

Three    == {cli1, cli2, cli3}
OneProto == [v \in Versions |-> 1]

\* Two binaries of an old version and one of a new, with the same protocol.
MixedVersions == (cli1 :> 1) @@ (cli2 :> 2) @@ (cli3 :> 1)
MixedModes    == (cli1 :> {"command", "stop"}) @@ (cli2 :> {"session"}) @@ (cli3 :> {"prompt"})

\* One binary: a command, a stop-daemon and the event of a hook.
OneVersion == [c \in Three |-> 1]
StopModes  == (cli1 :> {"command"}) @@ (cli2 :> {"stop"}) @@ (cli3 :> {"command"})
=============================================================================
