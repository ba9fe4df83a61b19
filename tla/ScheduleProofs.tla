--------------------------- MODULE ScheduleProofs ---------------------------
(***************************************************************************)
(* For every number of selected forks and every `after` relation: what     *)
(* resolve_deps returns is acyclic, it cuts no edge but between forks that *)
(* a cycle holds up, and the loop computes DepGraph!ResolveDeps.           *)
(***************************************************************************)
EXTENDS Schedule, DepGraphProofs

\* SelectedDeps keeps the node set and only relates nodes.
LEMMA SelectedDepsType ==
    ASSUME NEW a \in [Nodes -> SUBSET (Nodes \cup {NotSelected})]
    PROVE  SelectedDeps(a) \in [Nodes -> SUBSET Nodes]
BY DEF SelectedDeps

\* The inductive invariant holds when resolve_deps starts peeling.
LEMMA InitIInv == Init => IInv
<1> SUFFICES ASSUME Init PROVE IInv
    OBVIOUS
<1>1. TypeOK
  <2>1. i \in 1..(N+1)
    BY NAssumption DEF Init
  <2>2. deps \in [Nodes -> SUBSET Nodes]
    BY SelectedDepsType DEF Init
  <2> QED
    BY <2>1, <2>2, Zenon DEF Init, TypeOK
<1>2. DoneClosed /\ DoneAcyclic /\ AtDecision /\ NoNewEdge /\ OnlyLoopedCut
    BY DEF Init, DoneClosed, DoneAcyclic, AtDecision, NoNewEdge, OnlyLoopedCut
<1>3. SweptBlocked
    BY NAssumption DEF Init, SweptBlocked, Nodes
<1> QED
    BY <1>1, <1>2, <1>3 DEF IInv

\* Visiting a node keeps it: a node is peeled only on top of its dependencies.
LEMMA VisitIInv == IInv /\ Visit => IInv'
<1> SUFFICES ASSUME IInv, Visit PROVE IInv'
    OBVIOUS
<1> USE NAssumption
<1> DEFINE peel == i \notin done /\ deps[i] \subseteq done
<1>1. i \in Nodes /\ i' = i + 1 /\ deps' = deps /\ after' = after /\ pc' = pc
    BY DEF IInv, TypeOK, Visit, Nodes
<1>2. /\ done' = IF peel THEN done \cup {i} ELSE done
      /\ changed' = (changed \/ peel)
    BY DEF Visit
<1> HIDE DEF peel
<1>3. TypeOK'
  <2>1. done' \in SUBSET Nodes
    BY <1>1, <1>2 DEF IInv, TypeOK
  <2>2. i' \in 1..(N+1)
    BY <1>1 DEF Nodes
  <2>3. changed' \in BOOLEAN
    BY <1>2, Zenon DEF IInv, TypeOK
  <2> QED
    BY <1>1, <2>1, <2>2, <2>3 DEF IInv, TypeOK, Nodes
<1>4. DoneClosed'
    BY <1>1, <1>2 DEF IInv, DoneClosed, peel
<1>5. DoneAcyclic'
  <2> SUFFICES ASSUME NEW S \in SUBSET done', S # {}
               PROVE  \E m \in S : deps[m] \cap S = {}
    BY <1>1 DEF DoneAcyclic
  <2>1. CASE ~peel \/ S \subseteq done
    BY <1>2, <2>1 DEF IInv, DoneAcyclic
  <2>2. CASE peel /\ S \cap done = {}
    <3>1. S = {i}
      BY <1>2, <2>2
    <3> QED
      BY <2>2, <3>1 DEF peel
  <2>3. CASE peel /\ S \cap done # {}
    <3>1. PICK m \in S \cap done : deps[m] \cap (S \cap done) = {}
      BY <2>3 DEF IInv, DoneAcyclic
    <3>2. deps[m] \subseteq done
      BY DEF IInv, DoneClosed
    <3> QED
      BY <3>1, <3>2
  <2> QED
    BY <2>1, <2>2, <2>3
<1>6. SweptBlocked'
  <2>1. CASE changed'
    BY <2>1 DEF SweptBlocked
  <2>2. CASE ~changed'
    <3>1. ~changed /\ ~peel /\ done' = done
      BY <1>2, <2>2, Zenon
    <3>2. ASSUME NEW j \in Nodes, j < i + 1, j \notin done, deps[j] \subseteq done
          PROVE  FALSE
      <4>1. j < i \/ j = i
        BY <1>1, <3>2 DEF Nodes
      <4> QED
        BY <3>1, <3>2, <4>1 DEF IInv, SweptBlocked, peel
    <3> QED
      BY <1>1, <3>1, <3>2 DEF SweptBlocked, Nodes
  <2> QED
    BY <2>1, <2>2
<1>7. AtDecision' /\ NoNewEdge' /\ OnlyLoopedCut'
    BY <1>1 DEF IInv, Visit, AtDecision, NoNewEdge, OnlyLoopedCut, Nodes
<1> QED
    BY <1>3, <1>4, <1>5, <1>6, <1>7 DEF IInv

\* When nothing more can be peeled, every node that is left depends on another
\* one that is left, in the `after` lists too: a cycle holds it up.
LEMMA StuckIsLooped ==
    ASSUME IInv, pc = "decide"
    PROVE  Nodes \ done \subseteq Looped(SelectedDeps(after))
<1> USE NAssumption
<1> DEFINE U == Nodes \ done
           g == SelectedDeps(after)
<1>1. U \in SUBSET DOMAIN g
    BY SelectedDepsType DEF IInv, TypeOK
<1>2. i = N + 1 /\ ~changed
    BY DEF IInv, AtDecision
<1>3. ASSUME NEW m \in U PROVE g[m] \cap U # {}
  <2>1. m < N + 1 /\ m \in Nodes /\ m \notin done
    BY DEF Nodes
  <2>2. ~(deps[m] \subseteq done)
    BY <1>2, <2>1 DEF IInv, SweptBlocked
  <2>3. deps[m] \subseteq g[m]
    BY <2>1 DEF IInv, NoNewEdge
  <2> QED
    BY <2>1, <2>2, <2>3 DEF IInv, TypeOK
<1> QED
    BY <1>1, <1>3 DEF Looped

\* A cut keeps it: peeling starts again from nothing, and the dropped edges
\* lead from a held-up node to held-up nodes.
LEMMA CutIInv == IInv /\ Cut => IInv'
<1> SUFFICES ASSUME IInv, Cut PROVE IInv'
    OBVIOUS
<1> USE NAssumption
<1>1. PICK c \in Nodes \ done : deps' = [deps EXCEPT ![c] = deps[c] \cap done]
    BY DEF Cut
<1>2. /\ done' = {} /\ i' = 1 /\ changed' = FALSE /\ pc' = "sweep"
      /\ after' = after /\ pc = "decide" /\ done # Nodes
    BY DEF Cut
<1>3. TypeOK'
  <2>1. deps' \in [Nodes -> SUBSET Nodes]
    BY <1>1 DEF IInv, TypeOK
  <2>2. i' \in 1..(N+1)
    BY <1>2
  <2>3. done' \in SUBSET Nodes /\ changed' \in BOOLEAN
    BY <1>2, Zenon
  <2> QED
    BY <1>2, <2>1, <2>2, <2>3 DEF IInv, TypeOK
<1>4. DoneClosed' /\ DoneAcyclic' /\ AtDecision'
    BY <1>2 DEF DoneClosed, DoneAcyclic, AtDecision
<1>5. SweptBlocked'
    BY <1>2 DEF SweptBlocked, Nodes
<1>6. NoNewEdge'
    BY <1>1, <1>2 DEF IInv, TypeOK, NoNewEdge
<1>7. OnlyLoopedCut'
  <2> DEFINE g == SelectedDeps(after)
  <2>1. Nodes \ done \subseteq Looped(g)
    BY <1>2, StuckIsLooped
  <2>2. /\ \A j \in Nodes : deps[j] # g[j] => j \in Looped(g)
        /\ \A j \in Nodes : g[j] \ deps[j] \subseteq Looped(g)
        /\ deps \in [Nodes -> SUBSET Nodes]
    BY DEF IInv, OnlyLoopedCut, TypeOK
  <2>3. deps'[c] = deps[c] \cap done /\ \A j \in Nodes \ {c} : deps'[j] = deps[j]
    BY <1>1, <2>2
  <2>4. SelectedDeps(after)' = g
    BY <1>2
  <2> HIDE DEF g
  <2>5. ASSUME NEW j \in Nodes
        PROVE  /\ deps'[j] # g[j] => j \in Looped(g)
               /\ g[j] \ deps'[j] \subseteq Looped(g)
    <3>1. CASE j = c
      BY <2>1, <2>2, <2>3, <3>1
    <3>2. CASE j # c
      BY <2>2, <2>3, <3>2
    <3> QED
      BY <3>1, <3>2
  <2> QED
    BY <2>4, <2>5 DEF OnlyLoopedCut
<1> QED
    BY <1>3, <1>4, <1>5, <1>6, <1>7 DEF IInv

\* Every step of resolve_deps keeps the inductive invariant.
LEMMA NextIInv == IInv /\ [Next]_vars => IInv'
<1> SUFFICES ASSUME IInv, [Next]_vars PROVE IInv'
    OBVIOUS
<1> USE NAssumption
<1>1. CASE Visit
    BY <1>1, VisitIInv
<1>2. CASE EndSweep
  <2>1. /\ UNCHANGED <<after, deps, done>> /\ i = N + 1
        /\ \/ i' = 1 /\ changed' = FALSE /\ pc' = pc /\ pc = "sweep"
           \/ pc' = "decide" /\ UNCHANGED <<i, changed>> /\ ~changed
    BY <1>2, Zenon DEF EndSweep
  <2>2. TypeOK'
    <3>1. i' \in 1..(N+1)
      BY <2>1
    <3>2. changed' \in BOOLEAN
      BY <2>1, Zenon DEF IInv, TypeOK
    <3> QED
      BY <2>1, <3>1, <3>2 DEF IInv, TypeOK
  <2>3. DoneClosed' /\ DoneAcyclic' /\ NoNewEdge' /\ OnlyLoopedCut' /\ AtDecision'
    BY <2>1 DEF IInv, DoneClosed, DoneAcyclic, NoNewEdge, OnlyLoopedCut, AtDecision
  <2>4. SweptBlocked'
    BY <2>1 DEF IInv, SweptBlocked, Nodes
  <2> QED
    BY <2>2, <2>3, <2>4 DEF IInv
<1>3. CASE Return
    BY <1>3 DEF Return, IInv, TypeOK, DoneClosed, DoneAcyclic, SweptBlocked,
                AtDecision, NoNewEdge, OnlyLoopedCut
<1>4. CASE Cut
    BY <1>4, CutIInv
<1>5. CASE Returned \/ UNCHANGED vars
    BY <1>5 DEF Returned, vars, IInv, TypeOK, DoneClosed, DoneAcyclic,
                SweptBlocked, AtDecision, NoNewEdge, OnlyLoopedCut
<1> QED
    BY <1>1, <1>2, <1>3, <1>4, <1>5 DEF Next

\* The inductive invariant of the peeling loop holds throughout resolve_deps.
THEOREM ScheduleInvariant == Spec => []IInv
<1> QED
    BY InitIInv, NextIInv, PTL DEF Spec

\* The sweep's indices stay in range and the lists over the selected forks, for
\* every number of them.
THEOREM ScheduleTyped == Spec => []TypeOK
<1>1. IInv => TypeOK
    BY DEF IInv
<1> QED
    BY <1>1, ScheduleInvariant, PTL

\* resolve_deps returns an acyclic graph, for every number of selected forks
\* and every `after` relation among them.
THEOREM ResolvedIsAcyclic == Spec => []ResultAcyclic
<1>1. IInv => ResultAcyclic
    BY DEF IInv, TypeOK, DoneAcyclic, AtDecision, ResultAcyclic, Acyclic
<1> QED
    BY <1>1, ScheduleInvariant, PTL

\* resolve_deps drops no edge of a fork that no cycle holds up, and no edge to
\* one, for every number of selected forks and every `after` relation.
THEOREM OnlyHeldUpAreCut == Spec => []OnlyLoopedCut
<1>1. IInv => OnlyLoopedCut
    BY DEF IInv
<1> QED
    BY <1>1, ScheduleInvariant, PTL

\* Selected forks whose `after` lists are acyclic keep every one of them.
THEOREM AcyclicRelationKept ==
    Spec => [](Acyclic(SelectedDeps(after)) => deps = SelectedDeps(after))
<1>1. IInv /\ Acyclic(SelectedDeps(after)) => deps = SelectedDeps(after)
  <2> SUFFICES ASSUME IInv, Acyclic(SelectedDeps(after))
               PROVE  deps = SelectedDeps(after)
    OBVIOUS
  <2> DEFINE g == SelectedDeps(after)
  <2>1. g \in [Nodes -> SUBSET Nodes] /\ deps \in [Nodes -> SUBSET Nodes]
    BY SelectedDepsType DEF IInv, TypeOK
  <2>2. Looped(g) = {}
    BY DEF Looped, Acyclic
  <2>3. \A j \in Nodes : deps[j] = g[j]
    BY <2>2 DEF IInv, OnlyLoopedCut
  <2> QED
    BY <2>1, <2>3
<1> QED
    BY <1>1, ScheduleInvariant, PTL

-----------------------------------------------------------------------------
\* The loop and the functional definition.

\* f lists the graphs that cutting makes of the `after` lists.
Cuts(f) == Iterates(f, N, GraphsOver(Nodes), Cutting(Nodes), SelectedDeps(after))

\* The dependency lists of the loop are one of them.
OnTheWay == \E f : Cuts(f) /\ \E k \in 0..N : deps = f[k]

\* There are N nodes, and the dependency lists are a graph over them.
LEMMA NodesAreFinite ==
    /\ Nodes \in SUBSET Nat
    /\ IsFiniteSet(Nodes)
    /\ Cardinality(Nodes) = N
    /\ TypeOK => IsGraph(deps, Nodes)
<1>1. Nodes \in SUBSET Nat
    BY NAssumption DEF Nodes
<1>2. IsFiniteSet(Nodes) /\ Cardinality(Nodes) = N
    BY NAssumption, FS_Interval DEF Nodes
<1> QED
    BY <1>1, <1>2 DEF TypeOK, IsGraph

\* Where the sweeps end, the peeled nodes are the runnable ones.
LEMMA PeeledIsRunnable ==
    ASSUME IInv, pc \in {"decide", "return"}
    PROVE  Runnable(deps) = done
<1>1. IsGraph(deps, Nodes) /\ done \in SUBSET Nodes
    BY NodesAreFinite DEF IInv, TypeOK
<1>2. ASSUME NEW j \in Nodes PROVE j \in done <=> deps[j] \subseteq done
  <2>1. CASE pc = "return"
    BY <2>1 DEF IInv, TypeOK, AtDecision
  <2>2. CASE pc = "decide"
    <3>1. j < i /\ ~changed
      BY <2>2, NAssumption DEF IInv, AtDecision, Nodes
    <3> QED
      BY <3>1 DEF IInv, SweptBlocked, DoneClosed
  <2> QED
    BY <2>1, <2>2
<1>3. \A S \in (SUBSET done) \ {{}} : \E m \in S : deps[m] \cap S = {}
    BY DEF IInv, DoneAcyclic
<1>4. FullyPeeled(deps, Nodes, done)
    BY <1>1, <1>2, <1>3 DEF FullyPeeled
<1> QED
    BY <1>1, <1>4, RunnableUnique

\* The loop starts with the `after` lists of the selected forks.
LEMMA InitOnTheWay == Init => OnTheWay
<1> SUFFICES ASSUME Init PROVE OnTheWay
    OBVIOUS
<1>1. DOMAIN after = Nodes
    BY DEF Init
<1>2. PICK f : Cuts(f)
    BY <1>1, NodesAreFinite, CuttingIsIterated DEF Cuts
<1>3. deps = f[0]
    BY <1>2 DEF Init, Cuts, Iterates
<1>4. 0 \in 0..N
    BY NAssumption
<1> QED
    BY <1>2, <1>3, <1>4 DEF OnTheWay

\* A cut of the loop is the next cut of the function, and there are at most N.
LEMMA CutOnTheWay == ASSUME IInv, OnTheWay, Cut PROVE OnTheWay'
<1>1. PICK f, k : Cuts(f) /\ k \in 0..N /\ deps = f[k]
    BY DEF OnTheWay
<1>2. pc = "decide" /\ done # Nodes /\ after' = after
    BY DEF Cut
<1>3. PICK c \in Nodes \ done : /\ \A j \in Nodes \ done : c <= j
                               /\ deps' = [deps EXCEPT ![c] = @ \cap done]
    BY DEF Cut
<1>4. Runnable(deps) = done
    BY <1>2, PeeledIsRunnable
<1>5. deps' = CutOnce(deps)
    BY <1>3, <1>4, NodesAreFinite, CutOnceUnique DEF IInv
<1>6. /\ f \in [0..N -> GraphsOver(Nodes)]
      /\ Runnable(f[N]) = Nodes
    BY <1>1, NodesAreFinite, CuttingSettles DEF Cuts
<1>7. k < N /\ k + 1 \in 1..N /\ (k + 1) - 1 = k
  <2>1. k # N
    BY <1>1, <1>2, <1>4, <1>6
  <2> QED
    BY <1>1, <2>1, NAssumption
<1>8. f[k+1] = Cutting(Nodes)[f[k]]
    BY <1>1, <1>7 DEF Cuts, Iterates
<1>9. deps \in GraphsOver(Nodes)
    BY DEF IInv, TypeOK, GraphsOver
<1>10. deps' = f[k+1]
    BY <1>1, <1>5, <1>8, <1>9 DEF Cutting
<1>11. k + 1 \in 0..N /\ Cuts(f)'
    BY <1>1, <1>2, <1>7 DEF Cuts
<1> QED
    BY <1>10, <1>11 DEF OnTheWay

\* The sweeps of resolve_deps compute the function DepGraph!ResolveDeps, which
\* the daemon's model uses for it, for every number of forks.
THEOREM LoopComputesResolveDeps == Spec => []ComputesResolveDeps
<1>1. OnTheWay /\ IInv /\ [Next]_vars => OnTheWay'
  <2> SUFFICES ASSUME OnTheWay, IInv, [Next]_vars PROVE OnTheWay'
    OBVIOUS
  <2>1. CASE Cut
    BY <2>1, CutOnTheWay
  <2>2. CASE UNCHANGED <<after, deps>>
    BY <2>2 DEF OnTheWay, Cuts
  <2> QED
    BY <2>1, <2>2 DEF Next, Visit, EndSweep, Return, Returned, vars
<1>2. OnTheWay /\ IInv => ComputesResolveDeps
  <2> SUFFICES ASSUME OnTheWay, IInv, pc = "return" PROVE deps = ResolveDeps(after)
    BY DEF ComputesResolveDeps
  <2>1. DOMAIN after = Nodes
    BY DEF IInv, TypeOK
  <2>2. PICK g : Cuts(g) /\ ResolveDeps(after) = g[N]
    BY <2>1, NodesAreFinite, CuttingIsIterated DEF Cuts
  <2>3. PICK f, k : Cuts(f) /\ k \in 0..N /\ deps = f[k]
    BY DEF OnTheWay
  <2>4. Runnable(deps) = Nodes
    BY PeeledIsRunnable DEF IInv, AtDecision
  <2>5. f[N] = deps
    BY <2>3, <2>4, NodesAreFinite, CuttingSettles DEF Cuts
  <2>6. f = g
    BY <2>2, <2>3, NAssumption, IterationUnique DEF Cuts
  <2> QED
    BY <2>2, <2>5, <2>6
<1> QED
    BY <1>1, <1>2, InitOnTheWay, ScheduleInvariant, PTL DEF Spec
=============================================================================
