------------------------------ MODULE DepGraph ------------------------------
(***************************************************************************)
(* `after` graphs, as functions deps: node -> set of the nodes that must   *)
(* finish before it (crates/autofork-core/src/schedule.rs).  Nodes are the *)
(* indices 1..n of the forks selected at one moment, in selection order.   *)
(* Duplicate entries are dropped by the parser, so a dependency list is a  *)
(* set.                                                                    *)
(***************************************************************************)
EXTENDS Integers, FiniteSets

\* A graph is acyclic iff every non-empty set of nodes has a member none of
\* whose dependencies is in the set.
Acyclic(deps) ==
    \A S \in (SUBSET DOMAIN deps) \ {{}} : \E m \in S : deps[m] \cap S = {}

\* Mutant of SelectedDeps: names that were not selected are kept.
SelectedDepsUnfiltered(after) == [i \in DOMAIN after |-> after[i] \ {i}]

\* The dependencies among the selected nodes: an `after` name that was not
\* selected is dropped, and so is a self-edge.
SelectedDeps(after) ==
    [i \in DOMAIN after |-> (after[i] \cap DOMAIN after) \ {i}]

\* What the inner loop computes: the nodes reached by peeling, repeatedly, the
\* nodes whose dependencies are all peeled.
Runnable(deps) ==
    LET n == Cardinality(DOMAIN deps)
        peeled[k \in 0..n] ==
            IF k = 0 THEN {}
                     ELSE {i \in DOMAIN deps : deps[i] \subseteq peeled[k-1]}
    IN  peeled[n]

\* One pass of the outer loop: free the first node that is not runnable by
\* dropping its unmet edges.
CutOnce(deps) ==
    LET done  == Runnable(deps)
        stuck == DOMAIN deps \ done
    IN  IF stuck = {} THEN deps
        ELSE LET cut == CHOOSE i \in stuck : \A j \in stuck : i <= j
             IN  [deps EXCEPT ![cut] = @ \cap done]

\* resolve_deps as a function of the `after` lists.  A cut node has no unmet
\* edge left, so there are at most n cuts.
ResolveDeps(after) ==
    LET n == Cardinality(DOMAIN after)
        pass[k \in 0..n] == IF k = 0 THEN SelectedDeps(after)
                                     ELSE CutOnce(pass[k-1])
    IN  pass[n]

\* The nodes that are spawned at once.
Roots(deps) == {i \in DOMAIN deps : deps[i] = {}}
=============================================================================
