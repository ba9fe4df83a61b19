--------------------------- MODULE DepGraphProofs ---------------------------
(***************************************************************************)
(* What the recursive definitions of DepGraph compute, for graphs of any   *)
(* size.                                                                   *)
(***************************************************************************)
EXTENDS DepGraph, RecursionProofs, FiniteSetTheorems

\* A graph over the nodes D, which are finitely many.
IsGraph(deps, D) == IsFiniteSet(D) /\ deps \in [D -> SUBSET D]

\* The sets of nodes that hold the dependencies of their members, and the nodes
\* that can be peeled once those of such a set are.
ClosedSets(deps, D) == {X \in SUBSET D : \A i \in X : deps[i] \subseteq X}

Peel(deps, D) == [X \in ClosedSets(deps, D) |-> {i \in D : deps[i] \subseteq X}]

\* Peeling adds to a closed set and keeps it closed.
LEMMA PeelGrows ==
    ASSUME NEW D, NEW deps, IsGraph(deps, D)
    PROVE  /\ {} \in ClosedSets(deps, D)
           /\ Peel(deps, D) \in [ClosedSets(deps, D) -> ClosedSets(deps, D)]
           /\ \A X \in ClosedSets(deps, D) : X \subseteq Peel(deps, D)[X]
<1>1. ASSUME NEW X \in ClosedSets(deps, D)
      PROVE  /\ X \subseteq {i \in D : deps[i] \subseteq X}
             /\ {i \in D : deps[i] \subseteq X} \in ClosedSets(deps, D)
    BY DEF ClosedSets
<1>2. {} \in ClosedSets(deps, D)
    BY DEF ClosedSets
<1> QED
    BY <1>1, <1>2 DEF Peel

\* Runnable is the n-th set of the peeling.
LEMMA PeelingIsIterated ==
    ASSUME NEW D, NEW deps, IsGraph(deps, D)
    PROVE  LET n == Cardinality(D) IN
           \E f : /\ Iterates(f, n, ClosedSets(deps, D), Peel(deps, D), {})
                  /\ Runnable(deps) = f[n]
<1> DEFINE n == Cardinality(D)
           body(f) == [k \in 0..n |-> IF k = 0 THEN {} ELSE {i \in D : deps[i] \subseteq f[k-1]}]
           peeled == CHOOSE f : f = body(f)
           C == ClosedSets(deps, D)
<1>0. \A X \in C : Peel(deps, D)[X] = {i \in D : deps[i] \subseteq X}
    BY DEF Peel
<1>1. n \in Nat
    BY FS_CardinalityType DEF IsGraph
<1> HIDE DEF n, C
<1>2. PICK g : Iterates(g, n, C, Peel(deps, D), {})
    BY <1>1, PeelGrows, IterationExists, Zenon DEF C
<1>3. g \in [0..n -> C] /\ g[0] = {} /\ \A k \in 1..n : g[k] = Peel(deps, D)[g[k-1]]
    BY <1>2 DEF Iterates
<1>4. g = body(g)
  <2>1. ASSUME NEW k \in 1..n PROVE g[k] = {i \in D : deps[i] \subseteq g[k-1]}
    <3>1. k - 1 \in 0..n
      BY <1>1
    <3> QED
      BY <1>0, <1>3, <3>1, Zenon
  <2>2. \A k \in 0..n : k = 0 \/ k \in 1..n
    BY <1>1
  <2>3. \A k \in 0..n : g[k] = body(g)[k]
    BY <1>3, <2>1, <2>2
  <2> QED
    BY <1>3, <2>3
<1>5. peeled = body(peeled)
    BY <1>4, Zenon
<1>6. DOMAIN deps = D
    BY DEF IsGraph
<1>7. Runnable(deps) = peeled[n]
    BY <1>6, Zenon DEF Runnable, n
<1> HIDE DEF peeled
<1>8. peeled[0] = {} /\ DOMAIN peeled = 0..n
    BY <1>1, <1>5
<1>9. ASSUME NEW k \in 1..n PROVE peeled[k] = {i \in D : deps[i] \subseteq peeled[k-1]}
  <2>1. k \in 0..n /\ k # 0
    BY <1>1
  <2> QED
    BY <1>5, <2>1, Zenon
<1>10. 0..n \subseteq {k \in 0..n : peeled[k] = g[k]}
  <2> DEFINE G == {k \in 0..n : peeled[k] = g[k]}
  <2>1. 0 \in 0..n /\ peeled[0] = g[0]
    BY <1>1, <1>3, <1>8
  <2>2. 0 \in G
    BY <2>1, Zenon
  <2>3. ASSUME NEW k \in 0..n, k \in G, k < n PROVE k + 1 \in G
    <3>1. k + 1 \in 1..n /\ (k + 1) - 1 = k /\ k + 1 \in 0..n
      BY <1>1, <2>3
    <3>2. peeled[k+1] = {i \in D : deps[i] \subseteq peeled[k]}
      BY <1>9, <3>1
    <3>3. g[k+1] = Peel(deps, D)[g[k]] /\ g[k] \in C
      BY <1>3, <3>1
    <3> QED
      BY <1>0, <2>3, <3>1, <3>2, <3>3
  <2> HIDE DEF G
  <2>4. 0..n \subseteq G
    BY <1>1, <2>2, <2>3, Induction
  <2> QED
    BY <2>4 DEF G
<1>11. peeled[n] = g[n]
    BY <1>1, <1>10
<1> QED
    BY <1>2, <1>7, <1>11, Zenon DEF n, C

\* Peeling comes to rest: the runnable nodes are those whose dependencies are all
\* runnable.
LEMMA RunnableFixed ==
    ASSUME NEW D, NEW deps, IsGraph(deps, D)
    PROVE  /\ Runnable(deps) \in SUBSET D
           /\ \A i \in D : i \in Runnable(deps) <=> deps[i] \subseteq Runnable(deps)
<1> DEFINE n == Cardinality(D)
           C == ClosedSets(deps, D)
           F == Peel(deps, D)
           h == [X \in C |-> Cardinality(X)]
<1>1. n \in Nat /\ IsFiniteSet(D)
    BY FS_CardinalityType DEF IsGraph
<1>2. F \in [C -> C] /\ \A X \in C : X \subseteq F[X]
    BY PeelGrows
<1>3. \A X \in C : IsFiniteSet(X) /\ Cardinality(X) \in 0..n
  <2> SUFFICES ASSUME NEW X \in C PROVE IsFiniteSet(X) /\ Cardinality(X) \in 0..n
    OBVIOUS
  <2>1. X \in SUBSET D
    BY DEF ClosedSets
  <2>2. IsFiniteSet(X) /\ Cardinality(X) <= n
    BY <1>1, <2>1, FS_Subset
  <2> QED
    BY <1>1, <2>2, FS_CardinalityType
<1>4. h \in [C -> 0..n]
    BY <1>3
<1>5. ASSUME NEW X \in C PROVE F[X] = X \/ h[F[X]] > h[X]
  <2>1. F[X] \in C /\ X \in SUBSET F[X]
    BY <1>2
  <2>2. /\ Cardinality(X) <= Cardinality(F[X])
        /\ Cardinality(F[X]) = Cardinality(X) => F[X] = X
    BY <1>3, <2>1, FS_Subset
  <2>3. Cardinality(X) \in 0..n /\ Cardinality(F[X]) \in 0..n
    BY <1>3, <2>1
  <2>4. h[X] = Cardinality(X) /\ h[F[X]] = Cardinality(F[X])
    BY <2>1
  <2> HIDE DEF h, F, C, n
  <2> QED
    BY <2>2, <2>3, <2>4
<1>6. PICK f : Iterates(f, n, C, F, {}) /\ Runnable(deps) = f[n]
    BY PeelingIsIterated
<1>7. f[n] \in C
    BY <1>1, <1>6 DEF Iterates
<1>8. F[f[n]] = f[n]
  <2> HIDE DEF h, F, C, n
  <2> QED
    BY <1>1, <1>2, <1>4, <1>5, <1>6, IterationSettles
<1> QED
    BY <1>6, <1>7, <1>8 DEF Peel, ClosedSets

\* The runnable nodes are in every set that peeling cannot leave.
LEMMA RunnableLeast ==
    ASSUME NEW D, NEW deps, IsGraph(deps, D), NEW X,
           \A i \in D : deps[i] \subseteq X => i \in X
    PROVE  Runnable(deps) \subseteq X
<1> DEFINE n == Cardinality(D)
           C == ClosedSets(deps, D)
<1>1. n \in Nat
    BY FS_CardinalityType DEF IsGraph
<1>2. PICK f : Iterates(f, n, C, Peel(deps, D), {}) /\ Runnable(deps) = f[n]
    BY PeelingIsIterated
<1>3. f \in [0..n -> C] /\ f[0] = {} /\ \A k \in 1..n : f[k] = Peel(deps, D)[f[k-1]]
    BY <1>2 DEF Iterates
<1> DEFINE G == {k \in 0..n : f[k] \subseteq X}
<1> HIDE DEF n, C
<1>4. 0 \in G
    BY <1>1, <1>3
<1>5. ASSUME NEW k \in 0..n, k \in G, k < n PROVE k + 1 \in G
  <2>1. k + 1 \in 1..n /\ (k + 1) - 1 = k /\ k + 1 \in 0..n
    BY <1>1, <1>5
  <2>2. f[k+1] = Peel(deps, D)[f[k]] /\ f[k] \in C
    BY <1>3, <2>1
  <2>3. f[k+1] = {i \in D : deps[i] \subseteq f[k]}
    BY <2>2 DEF Peel, C
  <2>4. f[k] \subseteq X
    BY <1>5
  <2>5. f[k+1] \subseteq X
    BY <2>3, <2>4
  <2> QED
    BY <2>1, <2>5
<1> HIDE DEF G
<1>6. n \in G
  <2>1. 0..n \subseteq G
    BY <1>1, <1>4, <1>5, Induction
  <2> QED
    BY <1>1, <2>1
<1> QED
    BY <1>2, <1>6 DEF G

\* What the inner loop has peeled when a sweep changes nothing: a closed set that
\* contains the nodes it unblocks, and whose members were peeled one after the other.
FullyPeeled(deps, D, done) ==
    /\ done \in SUBSET D
    /\ \A j \in D : j \in done <=> deps[j] \subseteq done
    /\ \A S \in (SUBSET done) \ {{}} : \E m \in S : deps[m] \cap S = {}

\* Whatever the order of the sweeps, what they peel is the set of runnable nodes.
LEMMA RunnableUnique ==
    ASSUME NEW D, NEW deps, IsGraph(deps, D), NEW done, FullyPeeled(deps, D, done)
    PROVE  Runnable(deps) = done
<1>0. /\ done \in SUBSET D
      /\ \A j \in D : j \in done <=> deps[j] \subseteq done
      /\ \A S \in (SUBSET done) \ {{}} : \E m \in S : deps[m] \cap S = {}
    BY DEF FullyPeeled
<1> DEFINE R == Runnable(deps)
<1>1. R \subseteq done
    BY <1>0, RunnableLeast
<1>2. \A j \in D : j \in R <=> deps[j] \subseteq R
    BY RunnableFixed
<1> HIDE DEF R
<1>3. ASSUME done \ R # {} PROVE FALSE
  <2>1. PICK m \in done \ R : deps[m] \cap (done \ R) = {}
    BY <1>0, <1>3
  <2>2. deps[m] \subseteq done /\ m \in D
    BY <1>0
  <2>3. deps[m] \subseteq R
    BY <2>1, <2>2
  <2> QED
    BY <1>2, <2>2, <2>3
<1> QED
    BY <1>1, <1>3 DEF R

\* A graph of which every node is runnable is acyclic.
LEMMA RunnableIsAcyclic ==
    ASSUME NEW D, NEW deps, IsGraph(deps, D), Runnable(deps) = D
    PROVE  Acyclic(deps)
<1>1. DOMAIN deps = D
    BY DEF IsGraph
<1> SUFFICES ASSUME NEW S \in SUBSET D, S # {}, \A m \in S : deps[m] \cap S # {}
             PROVE  FALSE
    BY <1>1 DEF Acyclic
<1>2. \A i \in D : deps[i] \subseteq D \ S => i \in D \ S
    OBVIOUS
<1>3. Runnable(deps) \subseteq D \ S
  <2> DEFINE X == D \ S
  <2> HIDE DEF X
  <2>1. \A i \in D : deps[i] \subseteq X => i \in X
    BY <1>2 DEF X
  <2>2. Runnable(deps) \subseteq X
    BY <2>1, RunnableLeast
  <2> QED
    BY <2>2 DEF X
<1> QED
    BY <1>3

-----------------------------------------------------------------------------
\* CutOnce: the first node that is not runnable keeps its runnable dependencies.
LEMMA CutOnceDef ==
    ASSUME NEW D \in SUBSET Nat, NEW deps, IsGraph(deps, D)
    PROVE  LET R == Runnable(deps) IN
           /\ R = D => CutOnce(deps) = deps
           /\ R # D => \E c \in D \ R : /\ \A j \in D \ R : c <= j
                                        /\ CutOnce(deps) = [deps EXCEPT ![c] = @ \cap R]
<1> DEFINE R == Runnable(deps)
           cut == CHOOSE i \in D \ R : \A j \in D \ R : i <= j
<1>1. DOMAIN deps = D
    BY DEF IsGraph
<1>2. R \in SUBSET D
    BY RunnableFixed
<1>3. CutOnce(deps) = IF D \ R = {} THEN deps ELSE [deps EXCEPT ![cut] = @ \cap R]
    BY <1>1 DEF CutOnce
<1>4. CASE R = D
    BY <1>3, <1>4
<1>5. CASE R # D
  <2>1. D \ R # {} /\ D \ R \in SUBSET Nat
    BY <1>2, <1>5
  <2>2. \E i \in D \ R : \A j \in D \ R : i <= j
    <3> DEFINE T == D \ R
    <3>1. T \in SUBSET Nat /\ T # {}
      BY <2>1
    <3> HIDE DEF T
    <3>2. \E m \in T : \A k \in T : m <= k
      BY <3>1, LeastNat
    <3> QED
      BY <3>2 DEF T
  <2>3. cut \in D \ R /\ \A j \in D \ R : cut <= j
    BY <2>2, Zenon
  <2> HIDE DEF cut, R
  <2>4. CutOnce(deps) = [deps EXCEPT ![cut] = @ \cap R]
    BY <1>3, <2>1
  <2> QED
    BY <1>5, <2>3, <2>4 DEF R
<1> QED
    BY <1>4, <1>5

\* There is only one way to cut.
LEMMA CutOnceUnique ==
    ASSUME NEW D \in SUBSET Nat, NEW deps, IsGraph(deps, D), NEW c \in D \ Runnable(deps),
           \A j \in D \ Runnable(deps) : c <= j
    PROVE  CutOnce(deps) = [deps EXCEPT ![c] = @ \cap Runnable(deps)]
<1>1. PICK d \in D \ Runnable(deps) :
            /\ \A j \in D \ Runnable(deps) : d <= j
            /\ CutOnce(deps) = [deps EXCEPT ![d] = @ \cap Runnable(deps)]
    BY CutOnceDef
<1>2. c <= d /\ d <= c /\ c \in Nat /\ d \in Nat
    BY <1>1
<1>3. c = d
    BY <1>2
<1> QED
    BY <1>1, <1>3, Zenon

\* A cut leaves a graph with fewer dependencies and more runnable nodes.
LEMMA CutOnceFrees ==
    ASSUME NEW D \in SUBSET Nat, NEW deps, IsGraph(deps, D)
    PROVE  /\ IsGraph(CutOnce(deps), D)
           /\ \A i \in D : CutOnce(deps)[i] \subseteq deps[i]
           /\ Runnable(deps) # D =>
                 /\ Runnable(deps) \subseteq Runnable(CutOnce(deps))
                 /\ Runnable(deps) # Runnable(CutOnce(deps))
<1> DEFINE R == Runnable(deps)
           less == CutOnce(deps)
<1>1. R \in SUBSET D /\ \A i \in D : i \in R <=> deps[i] \subseteq R
    BY RunnableFixed
<1>2. CASE R = D
    BY <1>2, CutOnceDef
<1>3. CASE R # D
  <2>1. PICK c \in D \ R : less = [deps EXCEPT ![c] = @ \cap R]
    BY <1>3, CutOnceDef
  <2> HIDE DEF R, less
  <2>2. deps \in [D -> SUBSET D] /\ IsFiniteSet(D)
    BY DEF IsGraph
  <2>3. less[c] = deps[c] \cap R /\ \A i \in D : less[i] \subseteq deps[i]
    BY <2>1, <2>2
  <2>4. IsGraph(less, D)
    BY <2>1, <2>2 DEF IsGraph
  <2> DEFINE Q == Runnable(less)
  <2>5. \A i \in D : i \in Q <=> less[i] \subseteq Q
    BY <2>4, RunnableFixed
  <2> HIDE DEF Q
  <2>6. \A i \in D : deps[i] \subseteq Q => i \in Q
    BY <2>3, <2>5
  <2>7. R \subseteq Q
    BY <2>6, RunnableLeast DEF R
  <2>8. c \in Q /\ c \notin R
    BY <2>3, <2>5, <2>7
  <2> QED
    BY <2>3, <2>4, <2>7, <2>8 DEF Q, R, less
<1> QED
    BY <1>2, <1>3

-----------------------------------------------------------------------------
\* The graphs over D, and the cut as a function on them.
GraphsOver(D) == [D -> SUBSET D]

Cutting(D) == [deps \in GraphsOver(D) |-> CutOnce(deps)]

\* ResolveDeps is the n-th graph of the cutting.
LEMMA CuttingIsIterated ==
    ASSUME NEW D \in SUBSET Nat, IsFiniteSet(D), NEW after, DOMAIN after = D
    PROVE  LET n == Cardinality(D) IN
           \E f : /\ Iterates(f, n, GraphsOver(D), Cutting(D), SelectedDeps(after))
                  /\ ResolveDeps(after) = f[n]
<1> DEFINE n == Cardinality(D)
           C == GraphsOver(D)
           a == SelectedDeps(after)
           body(f) == [k \in 0..n |-> IF k = 0 THEN a ELSE CutOnce(f[k-1])]
           pass == CHOOSE f : f = body(f)
<1>0. \A d \in C : Cutting(D)[d] = CutOnce(d)
    BY DEF Cutting
<1>1. n \in Nat
    BY FS_CardinalityType
<1>2. a \in C
    BY DEF SelectedDeps, GraphsOver
<1>3. Cutting(D) \in [C -> C]
  <2>1. ASSUME NEW d \in C PROVE CutOnce(d) \in C
    <3>1. IsGraph(d, D)
      BY DEF IsGraph, GraphsOver
    <3>2. IsGraph(CutOnce(d), D)
      BY <3>1, CutOnceFrees
    <3> QED
      BY <3>2 DEF IsGraph, GraphsOver
  <2> QED
    BY <2>1 DEF Cutting
<1>4. ResolveDeps(after) = pass[n]
    BY Zenon DEF ResolveDeps
<1> HIDE DEF n, C, a
<1>5. PICK g : Iterates(g, n, C, Cutting(D), a)
    BY <1>1, <1>2, <1>3, IterationExists, Zenon
<1>6. g \in [0..n -> C] /\ g[0] = a /\ \A k \in 1..n : g[k] = Cutting(D)[g[k-1]]
    BY <1>5 DEF Iterates
<1>7. g = body(g)
  <2>1. ASSUME NEW k \in 1..n PROVE g[k] = CutOnce(g[k-1])
    <3>1. k - 1 \in 0..n
      BY <1>1
    <3> QED
      BY <1>0, <1>6, <3>1, Zenon
  <2>2. \A k \in 0..n : k = 0 \/ k \in 1..n
    BY <1>1
  <2>3. \A k \in 0..n : g[k] = body(g)[k]
    BY <1>6, <2>1, <2>2
  <2> QED
    BY <1>6, <2>3
<1>8. pass = body(pass)
    BY <1>7, Zenon
<1> HIDE DEF pass
<1>9. pass[0] = a
    BY <1>1, <1>8
<1>10. ASSUME NEW k \in 1..n PROVE pass[k] = CutOnce(pass[k-1])
  <2>1. k \in 0..n /\ k # 0
    BY <1>1
  <2> QED
    BY <1>8, <2>1, Zenon
<1>11. pass[n] = g[n]
  <2> DEFINE G == {k \in 0..n : pass[k] = g[k]}
  <2>1. 0 \in 0..n /\ pass[0] = g[0]
    BY <1>1, <1>6, <1>9
  <2>2. 0 \in G
    BY <2>1, Zenon
  <2>3. ASSUME NEW k \in 0..n, k \in G, k < n PROVE k + 1 \in G
    <3>1. k + 1 \in 1..n /\ (k + 1) - 1 = k /\ k + 1 \in 0..n
      BY <1>1, <2>3
    <3>2. pass[k+1] = CutOnce(pass[k])
      BY <1>10, <3>1
    <3>3. g[k+1] = Cutting(D)[g[k]] /\ g[k] \in C
      BY <1>6, <3>1
    <3> QED
      BY <1>0, <2>3, <3>1, <3>2, <3>3
  <2> HIDE DEF G
  <2>4. 0..n \subseteq G
    BY <1>1, <2>2, <2>3, Induction
  <2> QED
    BY <1>1, <2>4 DEF G
<1> QED
    BY <1>4, <1>5, <1>11, Zenon DEF n, C, a

\* After n cuts nothing is left to cut, and a graph that needs no cut is returned
\* as it is.
LEMMA CuttingSettles ==
    ASSUME NEW D \in SUBSET Nat, IsFiniteSet(D), NEW a, NEW f,
           Iterates(f, Cardinality(D), GraphsOver(D), Cutting(D), a)
    PROVE  LET n == Cardinality(D) IN
           /\ n \in Nat
           /\ f \in [0..n -> GraphsOver(D)]
           /\ Runnable(f[n]) = D
           /\ \A k \in 0..n : Runnable(f[k]) = D => f[n] = f[k]
<1> DEFINE n == Cardinality(D)
           C == GraphsOver(D)
           F == Cutting(D)
           h == [d \in C |-> Cardinality(Runnable(d))]
<1>1. n \in Nat
    BY FS_CardinalityType
<1>2. f \in [0..n -> C]
    BY DEF Iterates
<1>3. \A d \in C : IsGraph(d, D) /\ F[d] = CutOnce(d)
    BY DEF IsGraph, GraphsOver, Cutting
<1>4. F \in [C -> C]
  <2>1. \A d \in C : CutOnce(d) \in C
    BY <1>3, CutOnceFrees DEF IsGraph, GraphsOver
  <2> QED
    BY <2>1 DEF Cutting
<1> HIDE DEF C, F, n
<1>5. ASSUME NEW d \in C
      PROVE  /\ Runnable(d) \in SUBSET D
             /\ IsFiniteSet(Runnable(d))
             /\ Cardinality(Runnable(d)) \in 0..n
  <2>1. Runnable(d) \in SUBSET D
    BY <1>3, RunnableFixed
  <2>2. IsFiniteSet(Runnable(d)) /\ Cardinality(Runnable(d)) <= n
    BY <2>1, FS_Subset DEF n
  <2> QED
    BY <1>1, <2>1, <2>2, FS_CardinalityType
<1>6. h \in [C -> 0..n]
    BY <1>5
<1>7. ASSUME NEW d \in C PROVE F[d] = d <=> Runnable(d) = D
  <2>1. IsGraph(d, D)
    BY <1>3
  <2>2. CASE Runnable(d) = D
    BY <1>3, <2>1, <2>2, CutOnceDef
  <2>3. CASE Runnable(d) # D
    BY <1>3, <2>1, <2>3, CutOnceFrees
  <2> QED
    BY <2>2, <2>3
<1>8. ASSUME NEW d \in C PROVE F[d] = d \/ h[F[d]] > h[d]
  <2> SUFFICES ASSUME F[d] # d PROVE h[F[d]] > h[d]
    OBVIOUS
  <2>1. F[d] \in C
    BY <1>4
  <2>2. Runnable(d) \in SUBSET Runnable(F[d]) /\ Runnable(d) # Runnable(F[d])
    BY <1>3, <1>7, CutOnceFrees
  <2>3. Cardinality(Runnable(d)) <= Cardinality(Runnable(F[d]))
        /\ Cardinality(Runnable(d)) # Cardinality(Runnable(F[d]))
    BY <1>5, <2>1, <2>2, FS_Subset
  <2>4. h[d] = Cardinality(Runnable(d)) /\ h[F[d]] = Cardinality(Runnable(F[d]))
    BY <2>1
  <2>5. h[d] \in 0..n /\ h[F[d]] \in 0..n
    BY <1>6, <2>1
  <2> HIDE DEF h
  <2> QED
    BY <2>3, <2>4, <2>5
<1>9. F[f[n]] = f[n] /\ \A k \in 0..n : F[f[k]] = f[k] => f[n] = f[k]
  <2>1. Iterates(f, n, C, F, a)
    BY DEF n, C, F
  <2> HIDE DEF h
  <2> QED
    BY <1>1, <1>4, <1>6, <1>8, <2>1, IterationSettles
<1>10. \A k \in 0..n : f[k] \in C
    BY <1>2
<1>11. n \in 0..n
    BY <1>1
<1>12. Runnable(f[n]) = D /\ \A k \in 0..n : Runnable(f[k]) = D => f[n] = f[k]
    BY <1>7, <1>9, <1>10, <1>11
<1> QED
    BY <1>1, <1>2, <1>12 DEF n, C

\* resolve_deps as the daemon's model uses it: for `after` lists of any number of
\* forks the result is a graph over them without a cycle.
THEOREM ResolveDepsSound ==
    ASSUME NEW D \in SUBSET Nat, IsFiniteSet(D), NEW after, DOMAIN after = D
    PROVE  /\ ResolveDeps(after) \in [D -> SUBSET D]
           /\ Acyclic(ResolveDeps(after))
<1>1. PICK f : /\ Iterates(f, Cardinality(D), GraphsOver(D), Cutting(D), SelectedDeps(after))
               /\ ResolveDeps(after) = f[Cardinality(D)]
    BY CuttingIsIterated
<1>2. /\ Cardinality(D) \in Nat
      /\ f \in [0..Cardinality(D) -> GraphsOver(D)]
      /\ Runnable(f[Cardinality(D)]) = D
    BY <1>1, CuttingSettles
<1>3. ResolveDeps(after) \in GraphsOver(D) /\ Runnable(ResolveDeps(after)) = D
    BY <1>1, <1>2
<1>4. IsGraph(ResolveDeps(after), D)
    BY <1>3 DEF IsGraph, GraphsOver
<1> QED
    BY <1>3, <1>4, RunnableIsAcyclic DEF GraphsOver
=============================================================================
