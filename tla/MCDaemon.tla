------------------------------ MODULE MCDaemon ------------------------------
(***************************************************************************)
(* Fork sets and session environments for model checking Daemon.           *)
(***************************************************************************)
EXTENDS Daemon, TLC

CONSTANTS s1, s2

OneSession  == {s1}
TwoSessions == {s1, s2}
OneProject  == [s \in Sessions |-> "root"]
NoFilter    == [s \in Sessions |-> {}]
None        == {}
NoTagThrottle == [g \in {} |-> 0]
NoAfter     == [f \in Forks |-> {}]
Untagged    == [f \in Forks |-> {}]
Unthrottled == [f \in Forks |-> 0]

\* Fork 1 on the default idle deadline, fork 2 at a context threshold.
IdleAndContext == <<  <<<<"idle", Bare>>>>, <<<<"context_tokens", 2>>>>  >>
ThrottleFirst  == <<2, 0>>
FirstAfterSecond == << {2}, {} >>

\* Two idle forks, one later than the other.
TwoDeadlines == <<  <<<<"idle", Bare>>>>, <<<<"idle", 3>>>>  >>

\* One idle fork.
OneIdle == << <<<<"idle", Bare>>>> >>

\* A tag on the first fork, with a shared budget.
FirstTagged == [f \in Forks |-> IF f = 1 THEN {"ci"} ELSE {}]
CiBudget    == [g \in {"ci"} |-> 2]
=============================================================================
