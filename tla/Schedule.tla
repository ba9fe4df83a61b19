------------------------------ MODULE Schedule ------------------------------
(***************************************************************************)
(* resolve_deps (crates/autofork-core/src/schedule.rs) step by step: the   *)
(* peeling sweeps, the restart of a sweep that changed something, and the  *)
(* cut of the first node that cannot be peeled.                            *)
(***************************************************************************)
EXTENDS DepGraph

CONSTANT N      \* number of forks selected at this moment

ASSUME NAssumption == N \in Nat \ {0}

\* 0 stands for any fork that is named in an `after` list and not selected.
NotSelected == 0

VARIABLES
    after,      \* the `after` lists of the selected forks
    deps,       \* the dependency lists, cut as cycles are found
    done,       \* the peeled nodes
    i,          \* the index of the sweep, N+1 at its end
    changed,    \* whether this sweep peeled a node
    pc          \* "sweep", "decide" or "return"

vars == <<after, deps, done, i, changed, pc>>

Nodes == 1..N

TypeOK ==
    /\ after \in [Nodes -> SUBSET (Nodes \cup {NotSelected})]
    /\ deps \in [Nodes -> SUBSET Nodes]
    /\ done \in SUBSET Nodes
    /\ i \in 1..(N+1)
    /\ changed \in BOOLEAN
    /\ pc \in {"sweep", "decide", "return"}

Init ==
    /\ after \in [Nodes -> SUBSET (Nodes \cup {NotSelected})]
    /\ deps = SelectedDeps(after)
    /\ done = {}
    /\ i = 1
    /\ changed = FALSE
    /\ pc = "sweep"

\* The body of the sweep: node i is peeled when all its dependencies are.
Visit ==
    /\ pc = "sweep"
    /\ i <= N
    /\ LET peel == i \notin done /\ deps[i] \subseteq done
       IN  /\ done' = IF peel THEN done \cup {i} ELSE done
           /\ changed' = (changed \/ peel)
    /\ i' = i + 1
    /\ UNCHANGED <<after, deps, pc>>

\* The end of a sweep: another one, unless this one changed nothing.
EndSweep ==
    /\ pc = "sweep"
    /\ i = N + 1
    /\ IF changed THEN i' = 1 /\ changed' = FALSE /\ pc' = pc
                  ELSE pc' = "decide" /\ UNCHANGED <<i, changed>>
    /\ UNCHANGED <<after, deps, done>>

\* Mutant of Return: the check that every node is peeled is missing.
ReturnEarly ==
    /\ pc = "decide"
    /\ pc' = "return"
    /\ UNCHANGED <<after, deps, done, i, changed>>

\* Every node peeled: the graph is returned.
Return ==
    /\ pc = "decide"
    /\ done = Nodes
    /\ pc' = "return"
    /\ UNCHANGED <<after, deps, done, i, changed>>

\* Mutant of Cut: the cut node loses its met edges too.
CutAll ==
    /\ pc = "decide"
    /\ done # Nodes
    /\ \E cut \in Nodes \ done :
          /\ \A j \in Nodes \ done : cut <= j
          /\ deps' = [deps EXCEPT ![cut] = {}]
    /\ done' = {}
    /\ i' = 1
    /\ changed' = FALSE
    /\ pc' = "sweep"
    /\ UNCHANGED after

\* Mutant of Cut: the cut node keeps its unmet edges.
CutMet ==
    /\ pc = "decide"
    /\ done # Nodes
    /\ \E cut \in Nodes \ done :
          /\ \A j \in Nodes \ done : cut <= j
          /\ deps' = [deps EXCEPT ![cut] = @ \ done]
    /\ done' = {}
    /\ i' = 1
    /\ changed' = FALSE
    /\ pc' = "sweep"
    /\ UNCHANGED after

\* Mutant of Cut: the cut node is made to follow every peeled node.
CutAfterDone ==
    /\ pc = "decide"
    /\ done # Nodes
    /\ \E cut \in Nodes \ done :
          /\ \A j \in Nodes \ done : cut <= j
          /\ deps' = [deps EXCEPT ![cut] = done]
    /\ done' = {}
    /\ i' = 1
    /\ changed' = FALSE
    /\ pc' = "sweep"
    /\ UNCHANGED after

\* Otherwise the first node that is not peeled loses its unmet edges, and
\* peeling starts again from nothing.
Cut ==
    /\ pc = "decide"
    /\ done # Nodes
    /\ \E cut \in Nodes \ done :
          /\ \A j \in Nodes \ done : cut <= j
          /\ deps' = [deps EXCEPT ![cut] = @ \cap done]
    /\ done' = {}
    /\ i' = 1
    /\ changed' = FALSE
    /\ pc' = "sweep"
    /\ UNCHANGED after

\* The caller uses the returned graph.
Returned == pc = "return" /\ UNCHANGED vars

Next == Visit \/ EndSweep \/ Return \/ Cut \/ Returned

\* A function call runs to its return: every step that can be taken is.
Spec == Init /\ [][Next]_vars /\ WF_vars(Next)

-----------------------------------------------------------------------------
\* The graph resolve_deps returns has no cycle, so readiness counting over it
\* (release of held dependents) can reach every fork.
ResultAcyclic == pc = "return" => Acyclic(deps)

\* The forks from which the edges of g can be followed for ever: the members of
\* its cycles and the forks behind one, which cannot be peeled before a cut.
Looped(g) == UNION {S \in SUBSET DOMAIN g : \A m \in S : g[m] \cap S # {}}

\* An edge is lost only between forks that a cycle holds up: a fork with no
\* cycle before it keeps its whole `after` list, and every fork keeps its edges
\* to forks with no cycle before them (the cut retains the met edges).
OnlyLoopedCut ==
    LET g == SelectedDeps(after)
    IN  \A j \in Nodes :
            /\ deps[j] # g[j] => j \in Looped(g)
            /\ g[j] \ deps[j] \subseteq Looped(g)

\* Cuts never invent an edge, so a fork only ever waits for a fork it names
\* and that was selected with it.
NoNewEdge == \A j \in Nodes : deps[j] \subseteq SelectedDeps(after)[j]

\* The sweeps compute what the functional definition DepGraph!ResolveDeps says
\* (which the daemon's model uses for resolve_deps).
ComputesResolveDeps == pc = "return" => deps = ResolveDeps(after)

\* resolve_deps returns: each cut makes progress.
Terminates == <>(pc = "return")
-----------------------------------------------------------------------------
\* Inductive invariant: the peeled set is closed under dependencies and
\* acyclic, and a sweep that has changed nothing has found every node behind
\* it blocked.
DoneClosed == \A j \in done : deps[j] \subseteq done

DoneAcyclic ==
    \A S \in (SUBSET done) \ {{}} : \E m \in S : deps[m] \cap S = {}

SweptBlocked ==
    ~changed => \A j \in Nodes : j < i /\ j \notin done => ~(deps[j] \subseteq done)

AtDecision ==
    /\ pc = "decide" => i = N + 1 /\ ~changed
    /\ pc = "return" => done = Nodes

IInv ==
    /\ TypeOK
    /\ DoneClosed
    /\ DoneAcyclic
    /\ SweptBlocked
    /\ AtDecision
    /\ NoNewEdge
    /\ OnlyLoopedCut
=============================================================================
