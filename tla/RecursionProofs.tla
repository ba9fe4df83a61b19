--------------------------- MODULE RecursionProofs ---------------------------
(***************************************************************************)
(* Recursive functions exist, and what they have in common: iterations and *)
(* recursion along a rank.  Induction is over sets: the smallest element   *)
(* of a set of counterexamples is refuted.                                 *)
(***************************************************************************)
EXTENDS Integers, WellFoundedInduction, TLAPS

\* A non-empty set of naturals has a least element.
LEMMA LeastNat ==
    ASSUME NEW T \in SUBSET Nat, T # {}
    PROVE  \E m \in T : \A k \in T : m <= k
<1> DEFINE R == OpToRel(<, Nat)
<1>1. IsWellFoundedOn(R, Nat)
    BY NatLessThanWellFounded
<1>2. R = {ss \in Nat \X Nat : ss[1] < ss[2]}
    BY Zenon DEF OpToRel
<1> HIDE DEF R
<1>3. PICK m \in T : \A y \in T : ~(<<y, m>> \in R)
    BY <1>1, WFMin
<1>4. \A k \in T : ~(k < m)
    BY <1>2, <1>3
<1> QED
    BY <1>4

\* Induction up to n, as a property of a set.
LEMMA Induction ==
    ASSUME NEW n \in Nat, NEW G, 0 \in G,
           \A k \in 0..n : k \in G /\ k < n => k + 1 \in G
    PROVE  0..n \subseteq G
<1> DEFINE T == (0..n) \ G
<1> SUFFICES ASSUME T # {} PROVE FALSE
    OBVIOUS
<1>1. T \in SUBSET Nat
    OBVIOUS
<1> HIDE DEF T
<1>2. PICK m \in T : \A k \in T : m <= k
    BY <1>1, LeastNat
<1>3. m \in 0..n /\ m \notin G /\ m # 0
    BY <1>2 DEF T
<1>4. m - 1 \in 0..n /\ m - 1 < n /\ m - 1 \notin T
    BY <1>2, <1>3
<1>5. m - 1 \in G
    BY <1>4 DEF T
<1>6. (m - 1) + 1 \in G
    BY <1>4, <1>5
<1> QED
    BY <1>3, <1>6

\* f lists what n applications of F make of a.
Iterates(f, n, S, F, a) ==
    /\ f \in [0..n -> S]
    /\ f[0] = a
    /\ \A k \in 1..n : f[k] = F[f[k-1]]

\* Iterating a function that stays in a set is well defined.
LEMMA IterationExists ==
    ASSUME NEW n \in Nat, NEW S, NEW F, F \in [S -> S], NEW a \in S
    PROVE  \E f : Iterates(f, n, S, F, a)
<1> DEFINE G == {m \in 0..n : \E f \in [0..m -> S] : f[0] = a /\ \A k \in 1..m : f[k] = F[f[k-1]]}
<1>1. 0 \in G
  <2> DEFINE f == [k \in 0..0 |-> a]
  <2>1. f \in [0..0 -> S] /\ f[0] = a /\ (\A k \in 1..0 : f[k] = F[f[k-1]])
    OBVIOUS
  <2>2. 0 \in 0..n
    OBVIOUS
  <2> HIDE DEF f
  <2> QED
    BY <2>1, <2>2, Zenon
<1>2. ASSUME NEW k \in 0..n, k \in G, k < n PROVE k + 1 \in G
  <2>1. PICK f \in [0..k -> S] : f[0] = a /\ \A j \in 1..k : f[j] = F[f[j-1]]
    BY <1>2
  <2> DEFINE g == [j \in 0..(k+1) |-> IF j = k + 1 THEN F[f[k]] ELSE f[j]]
  <2>2. f[k] \in S /\ F[f[k]] \in S
    OBVIOUS
  <2>3. g \in [0..(k+1) -> S]
    <3> SUFFICES ASSUME NEW j \in 0..(k+1) PROVE g[j] \in S
      OBVIOUS
    <3> QED
      BY <2>2
  <2>4. g[0] = a
    BY <2>1
  <2>5. ASSUME NEW j \in 1..(k+1) PROVE g[j] = F[g[j-1]]
    <3>1. CASE j = k + 1
      BY <3>1
    <3>2. CASE j # k + 1
      BY <2>1, <3>2
    <3> QED
      BY <3>1, <3>2
  <2>6. k + 1 \in 0..n
    BY <1>2
  <2> HIDE DEF g
  <2> QED
    BY <2>3, <2>4, <2>5, <2>6, Zenon
<1> HIDE DEF G
<1>3. 0..n \subseteq G
    BY <1>1, <1>2, Induction
<1> QED
    BY <1>3 DEF G, Iterates

\* An iteration has one outcome.
LEMMA IterationUnique ==
    ASSUME NEW n \in Nat, NEW S, NEW F, NEW a, NEW f, NEW g,
           Iterates(f, n, S, F, a), Iterates(g, n, S, F, a)
    PROVE  f = g
<1> DEFINE G == {k \in 0..n : f[k] = g[k]}
<1>1. 0 \in G
    BY DEF Iterates
<1>2. ASSUME NEW k \in 0..n, k \in G, k < n PROVE k + 1 \in G
  <2>1. k + 1 \in 1..n /\ (k + 1) - 1 = k /\ k + 1 \in 0..n
    BY <1>2
  <2>2. f[k+1] = F[f[k]] /\ g[k+1] = F[g[k]]
    BY <2>1 DEF Iterates
  <2> QED
    BY <1>2, <2>1, <2>2
<1> HIDE DEF G
<1>3. 0..n \subseteq G
    BY <1>1, <1>2, Induction
<1> QED
    BY <1>3 DEF G, Iterates

\* An iteration whose steps are idle or increase a measure that is at most n has
\* come to rest after n steps, and does not leave where it rests.
LEMMA IterationSettles ==
    ASSUME NEW n \in Nat, NEW S, NEW F, F \in [S -> S], NEW a, NEW f, Iterates(f, n, S, F, a),
           NEW h, h \in [S -> 0..n], \A x \in S : F[x] = x \/ h[F[x]] > h[x]
    PROVE  /\ F[f[n]] = f[n]
           /\ \A k \in 0..n : F[f[k]] = f[k] => f[n] = f[k]
<1>1. f \in [0..n -> S] /\ \A k \in 1..n : f[k] = F[f[k-1]]
    BY DEF Iterates
<1>2. ASSUME NEW k \in 0..n, k < n PROVE f[k+1] = F[f[k]] /\ f[k] \in S
    BY <1>1, <1>2
<1>3. F[f[n]] = f[n]
  <2> DEFINE G == {k \in 0..n : F[f[k]] = f[k] \/ h[f[k]] >= k}
  <2>1. 0 \in G
    BY <1>1
  <2>2. ASSUME NEW k \in 0..n, k \in G, k < n PROVE k + 1 \in G
    <3>1. f[k+1] = F[f[k]] /\ f[k] \in S /\ k + 1 \in 0..n
      BY <1>2, <2>2
    <3>2. CASE F[f[k]] = f[k]
      BY <3>1, <3>2
    <3>3. CASE F[f[k]] # f[k]
      <4>1. h[f[k]] >= k /\ h[F[f[k]]] > h[f[k]] /\ h[f[k]] \in 0..n /\ h[F[f[k]]] \in 0..n
        BY <2>2, <3>1, <3>3
      <4> QED
        BY <3>1, <4>1
    <3> QED
      BY <3>2, <3>3
  <2> HIDE DEF G
  <2>3. n \in G
    <3>1. 0..n \subseteq G
      BY <2>1, <2>2, Induction
    <3> QED
      BY <3>1
  <2>4. f[n] \in S /\ h[f[n]] \in 0..n /\ F[f[n]] \in S /\ h[F[f[n]]] \in 0..n
    BY <1>1
  <2> QED
    BY <2>3, <2>4 DEF G
<1>4. ASSUME NEW k \in 0..n, F[f[k]] = f[k] PROVE f[n] = f[k]
  <2> DEFINE G == {j \in 0..n : j >= k => f[j] = f[k]}
  <2>1. 0 \in G
    OBVIOUS
  <2>2. ASSUME NEW j \in 0..n, j \in G, j < n PROVE j + 1 \in G
    <3>1. f[j+1] = F[f[j]] /\ j + 1 \in 0..n
      BY <1>2, <2>2
    <3>2. j + 1 >= k => j >= k \/ j + 1 = k
      OBVIOUS
    <3> QED
      BY <1>4, <2>2, <3>1, <3>2
  <2> HIDE DEF G
  <2>3. 0..n \subseteq G
    BY <2>1, <2>2, Induction
  <2> QED
    BY <2>3 DEF G
<1> QED
    BY <1>3, <1>4

\* What F makes of a function from D to A, at d, depends only on the function's
\* values at lower ranks, and ranks are at most n.
Ranked(F, D, A, rank, n) ==
    /\ F \in [[D -> A] -> [D -> A]]
    /\ rank \in [D -> 0..n]
    /\ \A g \in [D -> A], h \in [D -> A] : \A d \in D :
          (\A e \in D : rank[e] < rank[d] => g[e] = h[e]) => F[g][d] = F[h][d]

IsFixed(g, F, D, A) == g \in [D -> A] /\ F[g] = g

\* A function that is defined by recursion along a rank exists.
LEMMA RankedRecursion ==
    ASSUME NEW D, NEW A, NEW a \in A, NEW F, NEW n \in Nat, NEW rank, Ranked(F, D, A, rank, n)
    PROVE  \E g : IsFixed(g, F, D, A)
<1>0. F \in [[D -> A] -> [D -> A]] /\ rank \in [D -> 0..n]
    BY DEF Ranked
<1> DEFINE start == [d \in D |-> a]
           G == [D -> A]
<1>1. start \in G
    OBVIOUS
<1>2. n + 1 \in Nat
    OBVIOUS
<1> HIDE DEF start, G
<1>3. PICK f : Iterates(f, n + 1, G, F, start)
    BY <1>0, <1>1, <1>2, IterationExists, Zenon DEF G
<1>4. /\ f \in [0..(n + 1) -> G]
      /\ \A k \in 1..(n + 1) : f[k] = F[f[k - 1]]
    BY <1>3 DEF Iterates
<1> DEFINE settled(k) == \A d \in D : rank[d] < k => F[f[k]][d] = f[k][d]
           K == {k \in 0..(n + 1) : settled(k)}
<1>5. 0 \in K
    <2>1. \A d \in D : rank[d] \in 0..n
      BY <1>0
    <2> QED BY <2>1
<1>6. ASSUME NEW k \in 0..(n + 1), k \in K, k < n + 1 PROVE k + 1 \in K
  <2>1. k + 1 \in 0..(n + 1) /\ f[k + 1] = F[f[k]] /\ f[k] \in G /\ f[k + 1] \in G
    <3>1. k + 1 \in 1..(n + 1) /\ k + 1 \in 0..(n + 1) /\ (k + 1) - 1 = k
      BY <1>6
    <3> QED BY <1>4, <3>1
  <2>2. ASSUME NEW d \in D, rank[d] < k + 1 PROVE F[f[k + 1]][d] = f[k + 1][d]
    <3>1. \A e \in D : rank[e] < rank[d] => rank[e] < k
      <4>1. \A e \in D : rank[e] \in 0..n
        BY <1>0
      <4> QED BY <2>2, <4>1
    <3>2. \A e \in D : rank[e] < rank[d] => f[k + 1][e] = f[k][e]
      BY <1>6, <2>1, <3>1
    <3>3. F[f[k + 1]][d] = F[f[k]][d]
      BY <2>1, <3>2 DEF Ranked, G
    <3> QED BY <2>1, <3>3
  <2> QED BY <2>1, <2>2
<1> HIDE DEF K
<1>7. n + 1 \in K
  <2>1. 0..(n + 1) \subseteq K
    BY <1>2, <1>5, <1>6, Induction
  <2> QED BY <2>1
<1>8. f[n + 1] \in G /\ F[f[n + 1]] \in G
  <2>1. f[n + 1] \in G
    BY <1>4
  <2> QED BY <1>0, <2>1 DEF G
<1>9. \A d \in D : F[f[n + 1]][d] = f[n + 1][d]
  <2>1. \A d \in D : rank[d] < n + 1
    <3>1. \A d \in D : rank[d] \in 0..n
      BY <1>0
    <3> QED BY <3>1
  <2> QED BY <1>7, <2>1 DEF K
<1>10. F[f[n + 1]] = f[n + 1]
    BY <1>8, <1>9 DEF G
<1> QED
    BY <1>8, <1>10 DEF G, IsFixed

\* Induction along a rank.
LEMMA RankInduction ==
    ASSUME NEW D, NEW n \in Nat, NEW rank, rank \in [D -> 0..n], NEW G,
           \A d \in D : (\A e \in D : rank[e] < rank[d] => e \in G) => d \in G
    PROVE  D \subseteq G
<1> DEFINE K == {k \in 0..(n + 1) : \A d \in D : rank[d] < k => d \in G}
<1>0. \A d \in D : rank[d] \in 0..n
    OBVIOUS
<1>1. 0 \in K
    BY <1>0
<1>2. ASSUME NEW k \in 0..(n + 1), k \in K, k < n + 1 PROVE k + 1 \in K
  <2>1. k + 1 \in 0..(n + 1)
    BY <1>2
  <2>2. ASSUME NEW d \in D, rank[d] < k + 1 PROVE d \in G
    <3>1. \A e \in D : rank[e] < rank[d] => rank[e] < k
      BY <1>0, <2>2
    <3> QED BY <1>2, <3>1
  <2> QED BY <2>1, <2>2
<1> HIDE DEF K
<1>3. 0..(n + 1) \subseteq K
  <2>1. n + 1 \in Nat
    OBVIOUS
  <2> QED BY <1>1, <1>2, <2>1, Induction
<1>4. n + 1 \in K
    BY <1>3
<1>5. \A d \in D : rank[d] < n + 1
    BY <1>0
<1> QED BY <1>4, <1>5 DEF K
=============================================================================
