----------------------------- MODULE SetupProofs -----------------------------
(***************************************************************************)
(* What a poll considers, for any fork files, contents, configuration      *)
(* layers, working directories and edits.                                  *)
(***************************************************************************)
EXTENDS Setup, RecursionProofs, FiniteSetTheorems, SequenceTheorems

-----------------------------------------------------------------------------
\* Folds and concatenations, for lists of any length.

\* The last index in a set of indices.
LEMMA MaxOfIndices ==
    ASSUME NEW n \in Nat, NEW t \in SUBSET (1..n), t # {}
    PROVE  Max(t) \in t /\ \A i \in t : i <= Max(t)
<1> DEFINE T == {n - i : i \in t}
<1>1. T \in SUBSET Nat /\ T # {}
    OBVIOUS
<1> HIDE DEF T
<1>2. PICK m \in T : \A k \in T : m <= k
    BY <1>1, LeastNat
<1>3. PICK x \in t : m = n - x
    BY <1>2 DEF T
<1>4. \A y \in t : x >= y
  <2> SUFFICES ASSUME NEW y \in t PROVE x >= y
    OBVIOUS
  <2>1. m <= n - y
    BY <1>2 DEF T
  <2> QED BY <1>3, <2>1
<1>5. \E z \in t : \A y \in t : z >= y
    BY <1>4
<1>6. Max(t) \in t /\ \A y \in t : Max(t) >= y
    BY <1>5 DEF Max
<1> QED BY <1>6

\* A fold over n values steps from one value to the next: f lists what it has
\* after each.
Folded(f, n, A, base, step) ==
    /\ f \in [0..n -> A]
    /\ f[0] = base
    /\ \A k \in 1..n : f[k] = step[k][f[k - 1]]

\* A solution of the fold's recursion, and a function that solves it as far as its
\* values are in A.
SolvesFold(g, n, A, base, step) ==
    /\ g \in [SUBSET (1..n) -> A]
    /\ \A t \in SUBSET (1..n) : g[t] = IF t = {} THEN base ELSE step[Max(t)][g[t \ {Max(t)}]]

FollowsFold(it, n, A, base, step) ==
    /\ it[{}] = base
    /\ \A t \in SUBSET (1..n) : t # {} /\ it[t \ {Max(t)}] \in A
          => it[t] = step[Max(t)][it[t \ {Max(t)}]]

\* The recursion of MapThenFoldSet, over sets of indices, has a solution.
LEMMA FoldExists ==
    ASSUME NEW n \in Nat, NEW A, NEW base \in A, NEW step, step \in [1..n -> [A -> A]]
    PROVE  \E g : SolvesFold(g, n, A, base, step)
<1> DEFINE D == SUBSET (1..n)
           body(g, t) == IF t = {} THEN base ELSE step[Max(t)][g[t \ {Max(t)}]]
           F == [g \in [D -> A] |-> [t \in D |-> body(g, t)]]
           rank == [t \in D |-> IF t = {} THEN 0 ELSE Max(t)]
<1>1. \A t \in D : t # {} => Max(t) \in t /\ Max(t) \in 1..n /\ t \ {Max(t)} \in D
    BY MaxOfIndices
<1>2. F \in [[D -> A] -> [D -> A]]
  <2> SUFFICES ASSUME NEW g \in [D -> A], NEW t \in D PROVE body(g, t) \in A
    OBVIOUS
  <2>1. CASE t = {}
    BY <2>1
  <2>2. CASE t # {}
    <3>1. g[t \ {Max(t)}] \in A /\ Max(t) \in 1..n
      BY <1>1, <2>2
    <3> QED BY <2>2, <3>1
  <2> QED BY <2>1, <2>2
<1>3. rank \in [D -> 0..n]
    BY <1>1
<1>4. \A t \in D : t # {} => rank[t \ {Max(t)}] < rank[t]
  <2> SUFFICES ASSUME NEW t \in D, t # {} PROVE rank[t \ {Max(t)}] < rank[t]
    OBVIOUS
  <2> DEFINE m == Max(t)
             u == t \ {m}
  <2>1. m \in 1..n /\ u \in D /\ m \in t /\ rank[t] = m
    BY <1>1
  <2>2. CASE u = {}
    BY <2>1, <2>2
  <2>3. CASE u # {}
    <3>1. Max(u) \in u /\ rank[u] = Max(u) /\ Max(u) \in 1..n
      BY <1>1, <2>1, <2>3
    <3>2. Max(u) \in t /\ Max(u) # m
      BY <3>1
    <3>3. Max(u) <= m
      BY <3>2, MaxOfIndices
    <3>4. rank[u] < rank[t]
      <4> HIDE DEF m, u, rank
      <4> QED BY <2>1, <3>1, <3>2, <3>3
    <3> QED BY <3>4
  <2> QED BY <2>2, <2>3
<1>5. \A g \in [D -> A], h \in [D -> A] : \A t \in D :
         (\A e \in D : rank[e] < rank[t] => g[e] = h[e]) => F[g][t] = F[h][t]
  <2>1. \A g \in [D -> A], t \in D : F[g][t] = body(g, t)
    OBVIOUS
  <2> HIDE DEF D, F, rank
  <2> SUFFICES ASSUME NEW g \in [D -> A], NEW h \in [D -> A], NEW t \in D,
                      \A e \in D : rank[e] < rank[t] => g[e] = h[e]
               PROVE  F[g][t] = F[h][t]
    OBVIOUS
  <2>2. t # {} => g[t \ {Max(t)}] = h[t \ {Max(t)}]
    BY <1>1, <1>4
  <2>3. body(g, t) = body(h, t)
    BY <2>2
  <2>4. F[g][t] = body(g, t) /\ F[h][t] = body(h, t)
    BY <2>1
  <2> HIDE DEF body
  <2> QED BY <2>3, <2>4
<1> HIDE DEF D, F, rank
<1>6. Ranked(F, D, A, rank, n)
    BY <1>2, <1>3, <1>5 DEF Ranked
<1>7. PICK g : IsFixed(g, F, D, A)
    BY <1>6, RankedRecursion
<1>8. g \in [D -> A] /\ F[g] = g
    BY <1>7 DEF IsFixed
<1>9. \A t \in D : g[t] = body(g, t)
    BY <1>8 DEF F
<1> QED BY <1>8, <1>9 DEF D, SolvesFold

\* And any solution lists the steps of the fold.
LEMMA FoldSteps ==
    ASSUME NEW n \in Nat, NEW A, NEW base \in A, NEW step, step \in [1..n -> [A -> A]],
           NEW it, FollowsFold(it, n, A, base, step)
    PROVE  \E f : Folded(f, n, A, base, step) /\ f[n] = it[1..n]
<1> DEFINE f == [k \in 0..n |-> it[1..k]]
           G == {k \in 0..n : it[1..k] \in A /\ (k > 0 => it[1..k] = step[k][it[1..(k - 1)]])}
<1>1. 0 \in G
  <2>1. 1..0 = {}
    OBVIOUS
  <2> QED BY <2>1 DEF FollowsFold
<1>2. ASSUME NEW k \in 0..n, k \in G, k < n PROVE k + 1 \in G
  <2> DEFINE t == 1..(k + 1)
  <2>0. k \in Nat /\ k + 1 <= n
    BY <1>2
  <2>1. t \in SUBSET (1..n) /\ t # {} /\ k + 1 \in t /\ k + 1 \in 1..n
    <3>1. k + 1 \in 1..(k + 1) /\ k + 1 \in 1..n
      BY <2>0
    <3>2. \A i \in 1..(k + 1) : i \in 1..n
      BY <2>0
    <3> QED BY <3>1, <3>2
  <2>2. Max(t) \in t /\ \A i \in t : i <= Max(t)
    BY <2>1, MaxOfIndices
  <2>3. Max(t) = k + 1
    BY <2>1, <2>2
  <2>4. t \ {Max(t)} = 1..k
    BY <2>3
  <2>5. it[t] = step[k + 1][it[1..k]]
    BY <1>2, <2>1, <2>3, <2>4 DEF FollowsFold
  <2>6. step[k + 1][it[1..k]] \in A
    BY <1>2, <2>1
  <2>7. (k + 1) - 1 = k /\ k + 1 \in 0..n
    BY <1>2
  <2> QED BY <2>5, <2>6, <2>7
<1> HIDE DEF G
<1>3. 0..n \subseteq G
    BY <1>1, <1>2, Induction
<1>4. \A k \in 0..n : it[1..k] \in A /\ (k > 0 => it[1..k] = step[k][it[1..(k - 1)]])
    BY <1>3 DEF G
<1>5. f \in [0..n -> A] /\ f[n] = it[1..n]
    BY <1>4
<1>6. f[0] = base
  <2>1. 1..0 = {}
    OBVIOUS
  <2> QED BY <2>1 DEF FollowsFold
<1>7. \A k \in 1..n : f[k] = step[k][f[k - 1]]
  <2>1. \A k \in 1..n : k \in 0..n /\ k > 0 /\ k - 1 \in 0..n
    OBVIOUS
  <2> QED BY <1>4, <2>1
<1> HIDE DEF f
<1> QED BY <1>5, <1>6, <1>7 DEF Folded

\* A list without repetitions.
Distinct(s) == \A i, j \in DOMAIN s : s[i] = s[j] => i = j

\* Appending a value that is new to a list.
LEMMA AppendAddsOne ==
    ASSUME NEW S, NEW out \in Seq(S), NEW x \in S
    PROVE  /\ Append(out, x) \in Seq(S)
           /\ Range(Append(out, x)) = Range(out) \cup {x}
           /\ Distinct(out) /\ x \notin Range(out) => Distinct(Append(out, x))
<1> DEFINE n == Len(out)
           app == Append(out, x)
<1>1. /\ n \in Nat /\ DOMAIN out = 1..n /\ DOMAIN app = 1..(n + 1)
      /\ app \in Seq(S) /\ app[n + 1] = x /\ \A i \in 1..n : app[i] = out[i]
    BY AppendProperties
<1>2. 1..(n + 1) = 1..n \cup {n + 1} /\ n + 1 \notin 1..n
    BY <1>1
<1> HIDE DEF n, app
<1>3. Range(app) = Range(out) \cup {x}
    BY <1>1, <1>2 DEF Range
<1>4. ASSUME Distinct(out), x \notin Range(out) PROVE Distinct(app)
    BY <1>1, <1>2, <1>4 DEF Distinct, Range
<1> QED BY <1>1, <1>3, <1>4 DEF app

\* Adding a value that is not there.
AddNew(skip, out, x) == IF x \in {None, skip} \cup Range(out) THEN out ELSE Append(out, x)

LEMMA DistinctButFolds ==
    ASSUME NEW S, NEW values \in Seq(S), NEW skip
    PROVE  LET n == Len(values) IN
           \E f : /\ Folded(f, n, Seq(S), <<>>,
                            [k \in 1..n |-> [out \in Seq(S) |-> AddNew(skip, out, values[k])]])
                  /\ f[n] = DistinctBut(skip, values)
<1> DEFINE n == Len(values)
           A == Seq(S)
           step == [k \in 1..n |-> [out \in A |-> AddNew(skip, out, values[k])]]
           D == SUBSET (1..n)
           body(g) == [t \in D |-> IF t = {} THEN <<>> ELSE AddNew(skip, g[t \ {Max(t)}], values[Max(t)])]
           it == CHOOSE g : g = body(g)
<1>1. n \in Nat /\ DOMAIN values = 1..n /\ <<>> \in A
    OBVIOUS
<1>2. step \in [1..n -> [A -> A]]
  <2> SUFFICES ASSUME NEW k \in 1..n, NEW out \in A PROVE AddNew(skip, out, values[k]) \in A
    OBVIOUS
  <2> QED BY DEF AddNew
<1>3. \A t \in D : t # {} => Max(t) \in 1..n /\ t \ {Max(t)} \in D
    BY <1>1, MaxOfIndices
<1>4. \A out \in A : \A k \in 1..n : step[k][out] = AddNew(skip, out, values[k])
    OBVIOUS
<1> HIDE DEF n, A, step
<1>5a. PICK g : SolvesFold(g, n, A, <<>>, step)
    BY <1>1, <1>2, FoldExists, Zenon
<1>5. g \in [D -> A] /\ \A t \in D : g[t] = IF t = {} THEN <<>> ELSE step[Max(t)][g[t \ {Max(t)}]]
    BY <1>5a DEF SolvesFold
<1>6. g = body(g)
  <2>1. ASSUME NEW t \in D PROVE g[t] = body(g)[t]
    <3>1. CASE t = {}
      BY <1>5, <3>1
    <3>2. CASE t # {}
      <4>1. Max(t) \in 1..n /\ g[t \ {Max(t)}] \in A
        BY <1>3, <1>5, <3>2
      <4> QED BY <1>4, <1>5, <3>2, <4>1
    <3> QED BY <3>1, <3>2
  <2> HIDE DEF D
  <2> QED BY <1>5, <2>1
<1>7. it = body(it)
    BY <1>6, Zenon
<1>8. DistinctBut(skip, values) = it[1..n]
    BY <1>1, Zenon DEF DistinctBut, FoldLeft, MapThenFoldSet, AddNew
<1> HIDE DEF it
<1>9. it[{}] = <<>> /\ \A t \in D : t # {} => it[t] = AddNew(skip, it[t \ {Max(t)}], values[Max(t)])
    BY <1>7
<1>10. \A t \in D : t # {} /\ it[t \ {Max(t)}] \in A => it[t] = step[Max(t)][it[t \ {Max(t)}]]
    BY <1>3, <1>4, <1>9
<1>10a. FollowsFold(it, n, A, <<>>, step)
    BY <1>9, <1>10 DEF FollowsFold
<1>11. \E f : Folded(f, n, A, <<>>, step) /\ f[n] = it[1..n]
    BY <1>1, <1>2, <1>10a, FoldSteps
<1> QED BY <1>8, <1>11 DEF n, A, step

\* What is left of a list: each of its values but None and `skip`, once.
LEMMA DistinctButKeeps ==
    ASSUME NEW S, NEW values \in Seq(S), NEW skip
    PROVE  /\ DistinctBut(skip, values) \in Seq(S)
           /\ Distinct(DistinctBut(skip, values))
           /\ Range(DistinctBut(skip, values)) = Range(values) \ {None, skip}
<1> DEFINE n == Len(values)
           A == Seq(S)
           step == [k \in 1..n |-> [out \in A |-> AddNew(skip, out, values[k])]]
<1>1. PICK f : Folded(f, n, A, <<>>, step) /\ f[n] = DistinctBut(skip, values)
    BY DistinctButFolds, Zenon
<1>2. n \in Nat /\ DOMAIN values = 1..n /\ \A i \in 1..n : values[i] \in S
    OBVIOUS
<1>3. f \in [0..n -> A] /\ f[0] = <<>> /\ \A k \in 1..n : f[k] = step[k][f[k - 1]]
    BY <1>1 DEF Folded
<1> DEFINE good(k) == /\ Distinct(f[k])
                      /\ Range(f[k]) = {values[i] : i \in 1..k} \ {None, skip}
           G == {k \in 0..n : good(k)}
<1>4. 0 \in G
    BY <1>2, <1>3 DEF Distinct, Range
<1>5. ASSUME NEW k \in 0..n, k \in G, k < n PROVE k + 1 \in G
  <2>1. k + 1 \in 1..n /\ (k + 1) - 1 = k /\ f[k] \in A
    BY <1>2, <1>3, <1>5
  <2> DEFINE x == values[k + 1]
             out == f[k]
  <2>2. f[k + 1] = AddNew(skip, out, x)
    BY <1>3, <2>1
  <2>3. {values[i] : i \in 1..(k + 1)} = {values[i] : i \in 1..k} \cup {x}
    <3>1. \A i \in 1..(k + 1) : i \in 1..k \/ i = k + 1
      BY <2>1
    <3>2. \A i \in 1..k : i \in 1..(k + 1)
      BY <2>1
    <3>3. k + 1 \in 1..(k + 1)
      BY <2>1
    <3> QED BY <3>1, <3>2, <3>3
  <2>4. CASE x \in {None, skip} \cup Range(out)
    <3>1. f[k + 1] = out
      BY <2>2, <2>4 DEF AddNew
    <3> QED BY <1>5, <2>1, <2>3, <2>4, <3>1
  <2>5. CASE x \notin {None, skip} \cup Range(out)
    <3>1. f[k + 1] = Append(out, x) /\ x \in S
      BY <1>2, <2>1, <2>2, <2>5 DEF AddNew
    <3>2. Range(Append(out, x)) = Range(out) \cup {x} /\ Distinct(Append(out, x))
      <4>1. out \in Seq(S) /\ Distinct(out) /\ x \notin Range(out)
        BY <1>5, <2>1, <2>5
      <4> HIDE DEF x, out
      <4> QED BY <3>1, <4>1, AppendAddsOne
    <3>3. Range(f[k + 1]) = {values[i] : i \in 1..(k + 1)} \ {None, skip}
      <4>1. Range(out) = {values[i] : i \in 1..k} \ {None, skip}
        BY <1>5
      <4> HIDE DEF x, out
      <4> QED BY <2>3, <2>5, <3>1, <3>2, <4>1
    <3>4. k + 1 \in 0..n /\ Distinct(f[k + 1])
      BY <2>1, <3>1, <3>2
    <3> QED BY <3>3, <3>4, Zenon
  <2> QED BY <2>4, <2>5
<1> HIDE DEF G
<1>6. n \in G
  <2>1. 0..n \subseteq G
    BY <1>2, <1>4, <1>5, Induction
  <2> QED BY <1>2, <2>1
<1>7. Range(values) = {values[i] : i \in 1..n}
    BY <1>2 DEF Range
<1> QED BY <1>1, <1>2, <1>3, <1>6, <1>7 DEF G

\* Every value of s is related by R to every later one.
SortedBy(s, R) == \A i, j \in DOMAIN s : i < j => <<s[i], s[j]>> \in R

LEMMA ConcatKeeps ==
    ASSUME NEW E, NEW s \in Seq(E), NEW t \in Seq(E), NEW R
    PROVE  /\ s \o t \in Seq(E)
           /\ Range(s \o t) = Range(s) \cup Range(t)
           /\ /\ SortedBy(s, R) /\ SortedBy(t, R)
              /\ \A x \in Range(s), y \in Range(t) : <<x, y>> \in R
              => SortedBy(s \o t, R)
<1> DEFINE n == Len(s)
           m == Len(t)
           c == s \o t
<1>1. /\ n \in Nat /\ m \in Nat /\ DOMAIN s = 1..n /\ DOMAIN t = 1..m /\ DOMAIN c = 1..(n + m)
      /\ c \in Seq(E)
      /\ \A i \in 1..(n + m) : c[i] = IF i <= n THEN s[i] ELSE t[i - n]
    BY ConcatProperties
<1> HIDE DEF n, m, c
<1>2. \A i \in 1..n : i \in 1..(n + m) /\ c[i] = s[i]
    BY <1>1
<1>3. \A i \in 1..m : n + i \in 1..(n + m) /\ c[n + i] = t[i]
  <2> SUFFICES ASSUME NEW i \in 1..m PROVE n + i \in 1..(n + m) /\ c[n + i] = t[i]
    OBVIOUS
  <2>1. n + i \in 1..(n + m) /\ ~(n + i <= n) /\ (n + i) - n = i
    BY <1>1
  <2> QED BY <1>1, <2>1
<1>4. \A i \in 1..(n + m) : \/ i \in 1..n /\ c[i] = s[i]
                            \/ i > n /\ i - n \in 1..m /\ c[i] = t[i - n]
    BY <1>1
<1>5. Range(c) = Range(s) \cup Range(t)
  <2>1. \A x \in Range(c) : x \in Range(s) \cup Range(t)
    BY <1>1, <1>4 DEF Range
  <2>2. \A x \in Range(s) : x \in Range(c)
    BY <1>1, <1>2 DEF Range
  <2>3. ASSUME NEW x \in Range(t) PROVE x \in Range(c)
    <3>1. PICK i \in 1..m : x = t[i]
      BY <1>1, <2>3 DEF Range
    <3>2. n + i \in DOMAIN c /\ x = c[n + i]
      BY <1>1, <1>3, <3>1
    <3> QED BY <3>2 DEF Range
  <2> QED BY <2>1, <2>2, <2>3
<1>6. ASSUME SortedBy(s, R), SortedBy(t, R), \A x \in Range(s), y \in Range(t) : <<x, y>> \in R
      PROVE  SortedBy(c, R)
  <2>0. DOMAIN c = 1..(n + m)
    BY <1>1
  <2> SUFFICES ASSUME NEW i \in DOMAIN c, NEW j \in DOMAIN c, i < j
               PROVE  <<c[i], c[j]>> \in R
    BY DEF SortedBy
  <2>1. CASE i \in 1..n /\ j \in 1..n
    BY <1>1, <1>2, <1>6, <2>1 DEF SortedBy
  <2>2. CASE i \in 1..n /\ j > n
    <3>1. c[i] = s[i] /\ i \in DOMAIN s
      BY <1>1, <1>2, <2>2
    <3>2. j - n \in DOMAIN t /\ c[j] = t[j - n]
      BY <1>1, <1>4, <2>2
    <3>3. c[i] \in Range(s) /\ c[j] \in Range(t)
      BY <3>1, <3>2 DEF Range
    <3> QED BY <1>6, <3>3
  <2>3. CASE i > n /\ j > n
    <3>1. i - n \in 1..m /\ j - n \in 1..m /\ i - n < j - n /\ c[i] = t[i - n] /\ c[j] = t[j - n]
      BY <1>1, <1>4, <2>3
    <3> QED BY <1>1, <1>6, <3>1 DEF SortedBy
  <2> QED BY <1>1, <2>1, <2>2, <2>3
<1> QED BY <1>1, <1>5, <1>6 DEF c

\* FlattenSeq concatenates one list after the other.
LEMMA FlattenSteps ==
    ASSUME NEW E, NEW seqs \in Seq(Seq(E)), Len(seqs) # 0
    PROVE  \E f : /\ FlattenSeq(seqs) = f[Len(seqs)]
                  /\ f[1] = seqs[1]
                  /\ \A i \in 2..Len(seqs) : f[i] = f[i - 1] \o seqs[i]
<1> DEFINE n == Len(seqs)
           A == Seq(E)
           D == 1..n
           at(g, i) == IF i = 1 THEN seqs[i] ELSE g[i - 1] \o seqs[i]
           body(g) == [i \in D |-> at(g, i)]
           F == [g \in [D -> A] |-> body(g)]
           rank == [i \in D |-> i]
           fl == CHOOSE g : g = body(g)
<1>1. n \in Nat /\ n >= 1 /\ \A i \in D : seqs[i] \in A
    OBVIOUS
<1>2. F \in [[D -> A] -> [D -> A]]
  <2> SUFFICES ASSUME NEW g \in [D -> A], NEW i \in D PROVE at(g, i) \in A
    OBVIOUS
  <2>1. i # 1 => i - 1 \in D
    BY <1>1
  <2>2. i # 1 => g[i - 1] \in A
    BY <2>1
  <2> HIDE DEF n
  <2> QED BY <1>1, <2>2, ConcatProperties
<1>3. rank \in [D -> 0..n] /\ <<>> \in A
    BY <1>1
<1>4. \A g \in [D -> A], h \in [D -> A] : \A d \in D :
         (\A e \in D : rank[e] < rank[d] => g[e] = h[e]) => F[g][d] = F[h][d]
  <2>1. \A i \in D : i # 1 => i - 1 \in D /\ rank[i - 1] < rank[i]
    BY <1>1
  <2>2. \A g \in [D -> A] : \A i \in D : F[g][i] = at(g, i)
    OBVIOUS
  <2> HIDE DEF n, D, A, F, rank
  <2> SUFFICES ASSUME NEW g \in [D -> A], NEW h \in [D -> A], NEW i \in D,
                      \A e \in D : rank[e] < rank[i] => g[e] = h[e]
               PROVE  F[g][i] = F[h][i]
    BY Zenon
  <2>3. i # 1 => g[i - 1] = h[i - 1]
    BY <2>1
  <2> QED BY <2>2, <2>3
<1>5. Ranked(F, D, A, rank, n)
  <2> HIDE DEF n, D, A, F, rank
  <2> QED BY <1>2, <1>3, <1>4 DEF Ranked
<1>6. PICK g : IsFixed(g, F, D, A)
  <2> HIDE DEF n, D, A, F, rank
  <2> QED BY <1>1, <1>3, <1>5, RankedRecursion
<1>7. g = body(g)
  <2> HIDE DEF D, A, body
  <2> QED BY <1>6 DEF IsFixed
<1>8. fl = body(fl)
  <2> HIDE DEF body
  <2> QED BY <1>7, Zenon
<1>9. FlattenSeq(seqs) = fl[n]
    BY Zenon DEF FlattenSeq
<1> HIDE DEF fl
<1>10. \A i \in D : fl[i] = at(fl, i)
    BY <1>8
<1>11. fl[1] = seqs[1] /\ \A i \in 2..n : fl[i] = fl[i - 1] \o seqs[i]
  <2>1. 1 \in D /\ \A i \in 2..n : i \in D /\ i # 1
    BY <1>1
  <2> HIDE DEF n, D
  <2> QED BY <1>10, <2>1
<1> QED BY <1>9, <1>11

\* The concatenation has the values of all the lists, and it is sorted when each
\* list is and every list comes before the next.
LEMMA FlattenKeeps ==
    ASSUME NEW E, NEW seqs \in Seq(Seq(E)), NEW R
    PROVE  /\ FlattenSeq(seqs) \in Seq(E)
           /\ Range(FlattenSeq(seqs)) = UNION {Range(seqs[k]) : k \in 1..Len(seqs)}
           /\ /\ \A k \in 1..Len(seqs) : SortedBy(seqs[k], R)
              /\ \A k, m \in 1..Len(seqs) : k < m =>
                    \A x \in Range(seqs[k]), y \in Range(seqs[m]) : <<x, y>> \in R
              => SortedBy(FlattenSeq(seqs), R)
<1>1. CASE Len(seqs) = 0
  <2>1. FlattenSeq(seqs) = <<>>
    BY <1>1 DEF FlattenSeq
  <2>2. 1..Len(seqs) = {}
    BY <1>1
  <2> QED BY <2>1, <2>2 DEF Range, SortedBy
<1>2. CASE Len(seqs) # 0
  <2>1. PICK f : /\ FlattenSeq(seqs) = f[Len(seqs)]
                 /\ f[1] = seqs[1]
                 /\ \A i \in 2..Len(seqs) : f[i] = f[i - 1] \o seqs[i]
    BY <1>2, FlattenSteps, Zenon
  <2> DEFINE n == Len(seqs)
             ok == /\ \A k \in 1..n : SortedBy(seqs[k], R)
                   /\ \A k, m \in 1..n : k < m =>
                         \A x \in Range(seqs[k]), y \in Range(seqs[m]) : <<x, y>> \in R
             good(i) == /\ f[i] \in Seq(E)
                        /\ Range(f[i]) = UNION {Range(seqs[k]) : k \in 1..i}
                        /\ ok => SortedBy(f[i], R)
             G == {i \in 0..n : i >= 1 => good(i)}
  <2>2. n \in Nat /\ n >= 1 /\ \A i \in 1..n : seqs[i] \in Seq(E)
    BY <1>2
  <2> HIDE DEF n
  <2>3. 0 \in G
    BY <2>2
  <2>4. ASSUME NEW i \in 0..n, i \in G, i < n PROVE i + 1 \in G
    <3>1. i + 1 \in 1..n /\ i + 1 \in 0..n /\ i \in Nat /\ seqs[i + 1] \in Seq(E)
      BY <2>2, <2>4
    <3>2. CASE i = 0
      <4>1. f[i + 1] = seqs[1] /\ i + 1 = 1 /\ 1..1 = {1}
        BY <2>1, <3>2
      <4>2. good(1)
        BY <2>1, <2>2, <3>1, <4>1
      <4> QED BY <3>1, <4>1, <4>2
    <3>3. CASE i # 0
      <4>1. i + 1 \in 2..n /\ (i + 1) - 1 = i /\ i \in 1..n /\ i >= 1
        BY <3>1, <3>3
      <4>2. f[i + 1] = f[i] \o seqs[i + 1]
        BY <2>1, <4>1 DEF n
      <4>3. good(i)
        BY <2>4, <4>1
      <4>4. ok => \A x \in Range(f[i]), y \in Range(seqs[i + 1]) : <<x, y>> \in R
        <5>0. i \in Nat /\ i + 1 <= n
          BY <2>2, <2>4
        <5>1. \A k \in 1..i : k \in 1..n /\ k < i + 1
          BY <2>2, <5>0
        <5>2. \A x \in Range(f[i]) : \E k \in 1..i : x \in Range(seqs[k])
          BY <4>3
        <5> QED BY <3>1, <5>1, <5>2
      <4>5. ok => SortedBy(f[i], R) /\ SortedBy(seqs[i + 1], R)
        BY <3>1, <4>3
      <4>6. /\ f[i + 1] \in Seq(E)
            /\ Range(f[i + 1]) = Range(f[i]) \cup Range(seqs[i + 1])
            /\ ok => SortedBy(f[i + 1], R)
        <5> DEFINE s == f[i]
                   t == seqs[i + 1]
        <5>1. s \in Seq(E) /\ t \in Seq(E) /\ f[i + 1] = s \o t
          BY <3>1, <4>2, <4>3
        <5>2. ok => SortedBy(s, R) /\ SortedBy(t, R) /\ \A x \in Range(s), y \in Range(t) : <<x, y>> \in R
          BY <4>4, <4>5
        <5> HIDE DEF ok, s, t
        <5>3. /\ s \o t \in Seq(E)
              /\ Range(s \o t) = Range(s) \cup Range(t)
              /\ ok => SortedBy(s \o t, R)
          BY <5>1, <5>2, ConcatKeeps
        <5> QED BY <5>1, <5>3 DEF s, t
      <4>7. Range(f[i + 1]) = UNION {Range(seqs[k]) : k \in 1..(i + 1)}
        <5>1. 1..(i + 1) = 1..i \cup {i + 1}
          BY <3>1
        <5> QED BY <4>3, <4>6, <5>1
      <4> QED BY <3>1, <4>6, <4>7
    <3> QED BY <3>2, <3>3
  <2> HIDE DEF G
  <2>5. n \in G
    <3>1. 0..n \subseteq G
      BY <2>2, <2>3, <2>4, Induction
    <3> QED BY <2>2, <3>1
  <2>6. good(n)
    BY <2>2, <2>5 DEF G
  <2> QED BY <2>1, <2>6 DEF n
<1> QED BY <1>1, <1>2

-----------------------------------------------------------------------------
\* Paths.

\* What a path is made of.
Parts == Range(Components) \cup {ForkMd} \cup UNION {Range(p) : p \in Places}
Paths(root) == Seq(Parts \cup {root})

LEMMA ComponentFacts ==
    /\ Len(Components) \in Nat /\ DOMAIN Components = 1..Len(Components)
    /\ \A i \in 1..Len(Components) : Components[i] \in Range(Components)
    /\ None \notin Range(Components)
    /\ \A i, j \in 1..Len(Components) : Components[i] = Components[j] => i = j
    /\ MaxNesting \in Nat /\ ForkMd \notin Hidden
<1>1. /\ Components \in Seq(Range(Components) \ {None})
      /\ \A i, j \in DOMAIN Components : Components[i] = Components[j] => i = j
      /\ MaxNesting \in Nat /\ ForkMd \notin Hidden
    BY SetupAssumption DEF DiscoveryAssumption
<1>2. Len(Components) \in Nat /\ DOMAIN Components = 1..Len(Components)
    BY <1>1
<1>3. \A i \in 1..Len(Components) : Components[i] \in Range(Components) \ {None}
    BY <1>1
<1>4. None \notin Range(Components)
    BY <1>2, <1>3 DEF Range
<1> QED BY <1>1, <1>2, <1>3, <1>4

LEMMA PlaceFacts ==
    ASSUME NEW p \in Places
    PROVE  /\ \A root : p \in Paths(root)
           /\ Len(p) \in Nat /\ Len(p) >= 2 /\ DOMAIN p = 1..Len(p)
           /\ \A i \in 2..Len(p) : p[i] \in Range(Components)
<1>1. /\ p \in Seq(Range(p)) /\ Len(p) >= 2
      /\ \A i \in 2..Len(p) : p[i] \in Range(Components)
    BY SetupAssumption DEF DiscoveryAssumption
<1>2. \A root : Range(p) \subseteq Parts \cup {root}
    BY DEF Parts
<1>3. \A root : p \in Paths(root)
    BY <1>1, <1>2, SeqMonotonic DEF Paths
<1> QED BY <1>1, <1>3

\* A prefix agrees position by position.
LEMMA PrefixMeans ==
    ASSUME NEW X, NEW s \in Seq(X), NEW t \in Seq(X)
    PROVE  /\ IsPrefix(s, t) <=> Len(s) <= Len(t) /\ \A i \in 1..Len(s) : s[i] = t[i]
           /\ IsStrictPrefix(s, t) <=> Len(s) < Len(t) /\ \A i \in 1..Len(s) : s[i] = t[i]
<1>1. Len(s) \in Nat /\ Len(t) \in Nat /\ DOMAIN s = 1..Len(s) /\ DOMAIN t = 1..Len(t)
    OBVIOUS
<1>2. SubSeq(s, 1, Len(s)) = s
    BY SubSeqFull
<1>3. ASSUME Len(s) <= Len(t)
      PROVE  /\ SubSeq(t, 1, Len(s)) \in Seq(X) /\ Len(SubSeq(t, 1, Len(s))) = Len(s)
             /\ \A i \in 1..Len(s) : SubSeq(t, 1, Len(s))[i] = t[i]
  <2>1. \A i \in 1..Len(s) : t[i] \in X
    BY <1>1, <1>3
  <2>2. 1 \in Int /\ Len(s) \in Int /\ Len(s) - 1 + 1 = Len(s)
    BY <1>1
  <2>3. /\ SubSeq(t, 1, Len(s)) \in Seq(X)
        /\ Len(SubSeq(t, 1, Len(s))) = IF 1 <= Len(s) THEN Len(s) - 1 + 1 ELSE 0
        /\ \A i \in 1..(Len(s) - 1 + 1) : SubSeq(t, 1, Len(s))[i] = t[1 + i - 1]
    BY <2>1, <2>2, SubSeqProperties
  <2> QED BY <1>1, <2>2, <2>3
<1>4. Len(s) <= Len(t) =>
         (SubSeq(t, 1, Len(s)) = s <=> \A i \in 1..Len(s) : s[i] = t[i])
  <2> SUFFICES ASSUME Len(s) <= Len(t)
               PROVE  SubSeq(t, 1, Len(s)) = s <=> \A i \in 1..Len(s) : s[i] = t[i]
    OBVIOUS
  <2> DEFINE u == SubSeq(t, 1, Len(s))
  <2>1. u \in Seq(X) /\ Len(u) = Len(s) /\ \A i \in 1..Len(s) : u[i] = t[i]
    BY <1>3
  <2> HIDE DEF u
  <2>2. (\A i \in 1..Len(s) : s[i] = u[i]) => s = u
    BY <2>1, SeqEqual
  <2>3. u = s <=> \A i \in 1..Len(s) : s[i] = t[i]
    BY <2>1, <2>2
  <2> QED BY <2>3 DEF u
<1>5. IsPrefix(s, t) <=> Len(s) <= Len(t) /\ \A i \in 1..Len(s) : s[i] = t[i]
    BY <1>2, <1>4 DEF IsPrefix
<1>6. Len(s) = Len(t) /\ (\A i \in 1..Len(s) : s[i] = t[i]) => s = t
    BY SeqEqual
<1>7. IsStrictPrefix(s, t) <=> Len(s) < Len(t) /\ \A i \in 1..Len(s) : s[i] = t[i]
  <2>1. IsStrictPrefix(s, t) <=> IsPrefix(s, t) /\ s # t
    BY DEF IsStrictPrefix
  <2>2. s = t => Len(s) = Len(t)
    BY Zenon
  <2> DEFINE a == Len(s)
             b == Len(t)
             agree == \A i \in 1..Len(s) : s[i] = t[i]
  <2>3. a \in Nat /\ b \in Nat /\ (IsPrefix(s, t) <=> a <= b /\ agree) /\ (a = b /\ agree => s = t)
    BY <1>1, <1>5, <1>6, Zenon
  <2>4. s = t => a = b
    BY <2>2
  <2> HIDE DEF a, b, agree
  <2>5. IsStrictPrefix(s, t) <=> a < b /\ agree
    BY <2>1, <2>3, <2>4
  <2> QED BY <2>5 DEF a, b, agree
<1> QED BY <1>5, <1>7

\* No file lies below another.
LEMMA NoFileBelow ==
    ASSUME NEW p \in Places, NEW q \in Places, Len(p) <= Len(q), \A i \in 1..Len(p) : p[i] = q[i]
    PROVE  p = q
<1>1. p \in Paths(ForkMd) /\ q \in Paths(ForkMd)
    BY PlaceFacts
<1>2. IsPrefix(p, q)
    BY <1>1, PrefixMeans DEF Paths
<1> QED BY <1>2, SetupAssumption DEF DiscoveryAssumption

LEMMA IsDirMeans ==
    ASSUME NEW fs, NEW root, NEW dir \in Paths(root)
    PROVE  IsDir(fs, dir) <=> \E q \in Places : /\ IsFile(fs, q) /\ Len(dir) < Len(q)
                                                /\ \A i \in 1..Len(dir) : dir[i] = q[i]
<1>1. \A q \in Places : q \in Paths(root)
    BY PlaceFacts
<1>2. \A q \in Places : IsStrictPrefix(dir, q) <=> /\ Len(dir) < Len(q)
                                                   /\ \A i \in 1..Len(dir) : dir[i] = q[i]
    BY <1>1, PrefixMeans DEF Paths
<1> QED BY <1>2 DEF IsDir

\* Going down one component.
LEMMA AppendPath ==
    ASSUME NEW root, NEW dir \in Paths(root), NEW c \in Range(Components) \cup {ForkMd}
    PROVE  /\ Append(dir, c) \in Paths(root)
           /\ Len(dir) \in Nat /\ Len(Append(dir, c)) = Len(dir) + 1
           /\ Append(dir, c)[Len(dir) + 1] = c
           /\ \A i \in 1..Len(dir) : Append(dir, c)[i] = dir[i]
<1>1. c \in Parts \cup {root}
    BY DEF Parts
<1> QED BY <1>1, AppendProperties DEF Paths

\* Two paths are the same when their components are.
LEMMA SamePath ==
    ASSUME NEW root, NEW p \in Paths(root), NEW q \in Paths(root), Len(p) = Len(q),
           \A i \in 1..Len(p) : p[i] = q[i]
    PROVE  p = q
    BY SeqEqual DEF Paths

\* The directories a scan comes to.
LEMMA FolderFacts ==
    ASSUME NEW root, NEW dir \in Folders(root)
    PROVE  dir \in Paths(root) /\ Len(dir) \in Nat /\ Len(dir) >= 1
<1>1. CASE dir = <<root>>
    BY <1>1 DEF Paths
<1>2. CASE dir # <<root>>
  <2>0. PICK p \in Places : \E n \in 2..(Len(p) - 1) : dir = SubSeq(p, 1, n)
    BY <1>2 DEF Folders
  <2>1. PICK n \in 2..(Len(p) - 1) : dir = SubSeq(p, 1, n)
    BY <2>0
  <2>2. p \in Paths(root) /\ Len(p) \in Nat
    BY PlaceFacts
  <2>3. n \in Int /\ 1 \in Int /\ n >= 2 /\ n <= Len(p)
    BY <2>1, <2>2
  <2>4. \A i \in 1..n : p[i] \in Parts \cup {root}
    BY <2>2, <2>3 DEF Paths
  <2>5. dir \in Seq(Parts \cup {root}) /\ Len(dir) = IF 1 <= n THEN n - 1 + 1 ELSE 0
    BY <2>1, <2>3, <2>4, SubSeqProperties
  <2> QED BY <2>3, <2>5 DEF Paths
<1> QED BY <1>1, <1>2

LEMMA FoldersClosed ==
    ASSUME NEW fs, NEW root, NEW dir \in Folders(root), NEW c \in Range(Components),
           IsDir(fs, Append(dir, c))
    PROVE  Append(dir, c) \in Folders(root)
<1> DEFINE path == Append(dir, c)
           m == Len(path)
<1>1. dir \in Paths(root) /\ Len(dir) \in Nat /\ Len(dir) >= 1
    BY FolderFacts
<1>2. path \in Paths(root) /\ m = Len(dir) + 1
    BY <1>1, AppendPath
<1>3. PICK q \in Places : m < Len(q) /\ \A i \in 1..m : path[i] = q[i]
    BY <1>2, IsDirMeans
<1>4. q \in Paths(root) /\ Len(q) \in Nat
    BY PlaceFacts
<1>5. m \in 2..(Len(q) - 1) /\ m \in Int /\ 1 \in Int
    BY <1>1, <1>2, <1>3, <1>4
<1> HIDE DEF path, m
<1>6. \A i \in 1..m : q[i] \in Parts \cup {root}
    BY <1>4, <1>5 DEF Paths
<1>7. /\ SubSeq(q, 1, m) \in Paths(root)
      /\ Len(SubSeq(q, 1, m)) = IF 1 <= m THEN m - 1 + 1 ELSE 0
      /\ \A i \in 1..(m - 1 + 1) : SubSeq(q, 1, m)[i] = q[1 + i - 1]
    BY <1>5, <1>6, SubSeqProperties DEF Paths
<1>8. Len(SubSeq(q, 1, m)) = m /\ \A i \in 1..m : SubSeq(q, 1, m)[i] = path[i]
    BY <1>3, <1>5, <1>7
<1>9. path = SubSeq(q, 1, m)
    BY <1>2, <1>7, <1>8, SamePath DEF m
<1>10. path \in Folders(root)
    BY <1>5, <1>9 DEF Folders
<1> QED BY <1>10 DEF path

\* The first n components of a path.
LEMMA SubSeqFacts ==
    ASSUME NEW X, NEW s \in Seq(X), NEW n \in Nat, n <= Len(s)
    PROVE  /\ SubSeq(s, 1, n) \in Seq(X) /\ Len(SubSeq(s, 1, n)) = n
           /\ \A i \in 1..n : SubSeq(s, 1, n)[i] = s[i]
<1>1. Len(s) \in Nat /\ \A i \in 1..n : s[i] \in X
    OBVIOUS
<1>2. 1 \in Int /\ n \in Int /\ n - 1 + 1 = n
    OBVIOUS
<1>3. /\ SubSeq(s, 1, n) \in Seq(X)
      /\ Len(SubSeq(s, 1, n)) = IF 1 <= n THEN n - 1 + 1 ELSE 0
      /\ \A i \in 1..(n - 1 + 1) : SubSeq(s, 1, n)[i] = s[1 + i - 1]
    BY <1>1, <1>2, SubSeqProperties
<1> QED BY <1>2, <1>3

LEMMA SubSeqSame ==
    ASSUME NEW X, NEW s \in Seq(X), NEW t \in Seq(X), NEW n \in Nat, n <= Len(s), n <= Len(t)
    PROVE  SubSeq(s, 1, n) = SubSeq(t, 1, n) <=> \A i \in 1..n : s[i] = t[i]
<1> DEFINE a == SubSeq(s, 1, n)
           b == SubSeq(t, 1, n)
<1>1. a \in Seq(X) /\ Len(a) = n /\ \A i \in 1..n : a[i] = s[i]
    BY SubSeqFacts
<1>2. b \in Seq(X) /\ Len(b) = n /\ \A i \in 1..n : b[i] = t[i]
    BY SubSeqFacts
<1> HIDE DEF a, b
<1>3. (\A i \in 1..n : a[i] = b[i]) => a = b
    BY <1>1, <1>2, SeqEqual
<1>4. a = b <=> \A i \in 1..n : s[i] = t[i]
    BY <1>1, <1>2, <1>3
<1> QED BY <1>4 DEF a, b

\* p lies below dir.
Agrees(dir, p) == Len(dir) < Len(p) /\ \A i \in 1..Len(dir) : dir[i] = p[i]

\* A file below dir is at, or below, one of its components.
LEMMA BelowComponent ==
    ASSUME NEW root, NEW dir \in Paths(root), NEW c \in Range(Components), NEW p \in Places
    PROVE  /\ Agrees(dir, p) /\ p[Len(dir) + 1] = c =>
                 p = Append(dir, c) \/ Agrees(Append(dir, c), p)
           /\ p = Append(dir, c) \/ Agrees(Append(dir, c), p) =>
                 Agrees(dir, p) /\ p[Len(dir) + 1] = c
<1> DEFINE d == Len(dir)
           path == Append(dir, c)
<1>1. /\ path \in Paths(root) /\ d \in Nat /\ Len(path) = d + 1 /\ path[d + 1] = c
      /\ \A i \in 1..d : path[i] = dir[i]
    BY AppendPath
<1>2. p \in Paths(root) /\ Len(p) \in Nat
    BY PlaceFacts
<1>3. 1..(d + 1) = 1..d \cup {d + 1}
    BY <1>1
<1> HIDE DEF d, path
<1>4. ASSUME Agrees(dir, p), p[d + 1] = c PROVE p = path \/ Agrees(path, p)
  <2>1. d < Len(p) /\ \A i \in 1..d : dir[i] = p[i]
    BY <1>4 DEF Agrees, d
  <2>2. \A i \in 1..(d + 1) : path[i] = p[i]
    BY <1>1, <1>3, <1>4, <2>1
  <2>3. Len(path) = Len(p) \/ Len(path) < Len(p)
    BY <1>1, <1>2, <2>1
  <2>4. Len(path) = Len(p) => path = p
    BY <1>1, <1>2, <2>2, SamePath
  <2> QED BY <1>1, <2>2, <2>3, <2>4 DEF Agrees
<1>5. ASSUME p = path \/ Agrees(path, p) PROVE Agrees(dir, p) /\ p[d + 1] = c
  <2>1. Len(p) >= d + 1 /\ \A i \in 1..(d + 1) : path[i] = p[i]
    BY <1>1, <1>2, <1>5 DEF Agrees
  <2>2. Len(dir) < Len(p)
    BY <1>1, <1>2, <2>1 DEF d
  <2>3. \A i \in 1..d : dir[i] = p[i]
    BY <1>1, <1>3, <2>1
  <2>4. p[d + 1] = c
    BY <1>1, <1>3, <2>1
  <2> QED BY <2>2, <2>3, <2>4 DEF Agrees, d
<1> QED BY <1>4, <1>5 DEF d, path

\* What NameAt looks at.
FolderAt(p, i) == IsFile(files, Append(SubSeq(p, 1, i), ForkMd))
InFolder(p)    == p[Len(p)] = ForkMd /\ Len(p) > 2
NameOf(p)      == IF InFolder(p) THEN p[Len(p) - 1] ELSE Stem[p[Len(p)]]

LEMMA FolderBelow ==
    ASSUME NEW root, NEW path \in Paths(root), NEW p \in Places, Agrees(path, p)
    PROVE  FolderAt(p, Len(path)) <=> IsFile(files, Append(path, ForkMd))
<1>0. p \in Paths(root) /\ Len(p) \in Nat
    BY PlaceFacts
<1>1. p \in Paths(root) /\ Len(p) \in Nat /\ Len(path) \in Nat
    BY <1>0 DEF Paths
<1>2. Len(path) <= Len(p) /\ \A i \in 1..Len(path) : path[i] = p[i]
    BY <1>1 DEF Agrees
<1>3. /\ SubSeq(p, 1, Len(path)) \in Paths(root) /\ Len(SubSeq(p, 1, Len(path))) = Len(path)
      /\ \A i \in 1..Len(path) : SubSeq(p, 1, Len(path))[i] = p[i]
    BY <1>1, <1>2, SubSeqFacts DEF Paths
<1>4. SubSeq(p, 1, Len(path)) = path
    BY <1>2, <1>3, SamePath
<1> QED BY <1>4 DEF FolderAt

\* The files a scan of dir is to find, if it comes to dir.
Reach(dir, p) ==
    /\ IsFile(files, p)
    /\ Agrees(dir, p)
    /\ \A i \in (Len(dir) + 1)..Len(p) : p[i] \notin Hidden
    /\ \A i \in (Len(dir) + 1)..(Len(p) - 1) : FolderAt(p, i) => InFolder(p) /\ i = Len(p) - 1
    /\ Len(p) - (IF InFolder(p) THEN 3 ELSE 2) <= MaxNesting
    /\ NameOf(p) # None

\* It does not come into the folder of a fork.
Walked(dir) == Len(dir) = 1 \/ ~IsFile(files, Append(dir, ForkMd))

Entry(p) == [name |-> NameOf(p), path |-> p]

\* What a scan finds at a component is what it is to find there.
FindsAt(found, dir, c) ==
    Range(found) = {Entry(p) : p \in {q \in Places : Reach(dir, q) /\ q[Len(dir) + 1] = c}}

\* What lies below a component of dir.
LEMMA ComponentCases ==
    ASSUME NEW root, NEW dir \in Folders(root), NEW c \in Range(Components)
    PROVE  /\ Append(dir, c) \in Paths(root) /\ Append(Append(dir, c), ForkMd) \in Paths(root)
           /\ Len(dir) \in Nat /\ Len(dir) >= 1 /\ dir \in Paths(root)
           /\ Len(Append(dir, c)) = Len(dir) + 1 /\ Len(Append(Append(dir, c), ForkMd)) = Len(dir) + 2
           /\ Append(dir, c)[Len(dir) + 1] = c
           /\ Append(Append(dir, c), ForkMd)[Len(dir) + 1] = c
           /\ Append(Append(dir, c), ForkMd)[Len(dir) + 2] = ForkMd
           /\ Agrees(Append(dir, c), Append(Append(dir, c), ForkMd))
<1> DEFINE d == Len(dir)
           path == Append(dir, c)
           main == Append(path, ForkMd)
<1>1. dir \in Paths(root) /\ d \in Nat /\ d >= 1
    BY FolderFacts
<1>2. /\ path \in Paths(root) /\ Len(path) = d + 1 /\ path[d + 1] = c
    BY <1>1, AppendPath
<1> HIDE DEF path
<1>3. /\ main \in Paths(root) /\ Len(main) = Len(path) + 1 /\ main[Len(path) + 1] = ForkMd
      /\ \A i \in 1..Len(path) : main[i] = path[i]
    BY <1>2, AppendPath
<1> HIDE DEF d, main
<1>4. main[d + 1] = c
  <2>1. d + 1 \in 1..Len(path)
    BY <1>1, <1>2
  <2> QED BY <1>2, <1>3, <2>1
<1>5. Len(main) = d + 2 /\ main[d + 2] = ForkMd
  <2>1. Len(path) + 1 = d + 2
    BY <1>1, <1>2
  <2> QED BY <1>3, <2>1
<1>6. Agrees(path, main)
    BY <1>1, <1>2, <1>3 DEF Agrees
<1> QED BY <1>1, <1>2, <1>3, <1>4, <1>5, <1>6 DEF d, path, main

\* A file cannot be a directory as well.
LEMMA FileOrDir ==
    ASSUME NEW p \in Places, IsDir(files, p)
    PROVE  FALSE
<1>1. p \in Paths(ForkMd) /\ Len(p) \in Nat
    BY PlaceFacts
<1>2. PICK q \in Places : Len(p) < Len(q) /\ \A i \in 1..Len(p) : p[i] = q[i]
    BY <1>1, IsDirMeans
<1>3. Len(q) \in Nat
    BY PlaceFacts
<1>4. Len(p) <= Len(q)
    BY <1>1, <1>2, <1>3
<1>5. p = q
    BY <1>2, <1>4, NoFileBelow
<1> QED BY <1>1, <1>2, <1>5

\* Where a component is a directory, the files to be found there are below it.
LEMMA ReachIntoDir ==
    ASSUME NEW root, NEW dir \in Folders(root), NEW c \in Range(Components), NEW p \in Places,
           Reach(dir, p), p[Len(dir) + 1] = c
    PROVE  \/ p = Append(dir, c) /\ ~IsDir(files, Append(dir, c))
           \/ Agrees(Append(dir, c), p) /\ IsDir(files, Append(dir, c))
<1> DEFINE path == Append(dir, c)
<1>1. path \in Paths(root) /\ dir \in Paths(root)
    BY ComponentCases
<1>2. p = path \/ Agrees(path, p)
    BY <1>1, BelowComponent DEF Reach
<1>3. p = path => ~IsDir(files, path)
    BY FileOrDir
<1>4. Agrees(path, p) => IsDir(files, path)
    BY <1>1, IsDirMeans DEF Reach, Agrees
<1> QED BY <1>2, <1>3, <1>4

\* A file that is found at c itself has c's stem for a name.
LEMMA OwnFile ==
    ASSUME NEW root, NEW dir \in Folders(root), Walked(dir), NEW c \in Range(Components),
           Append(dir, c) \in Places, IsFile(files, Append(dir, c))
    PROVE  ~InFolder(Append(dir, c)) /\ NameOf(Append(dir, c)) = Stem[c]
<1> DEFINE path == Append(dir, c)
<1>1. Len(dir) \in Nat /\ Len(dir) >= 1 /\ Len(path) = Len(dir) + 1 /\ path[Len(path)] = c
    BY ComponentCases
<1>2. ASSUME InFolder(path) PROVE c = ForkMd /\ Len(dir) # 1
  <2> HIDE DEF path
  <2>1. c = ForkMd /\ Len(path) > 2
    BY <1>1, <1>2, Zenon DEF InFolder
  <2> DEFINE d == Len(dir)
             n == Len(path)
  <2>2. d \in Nat /\ n = d + 1 /\ n > 2
    BY <1>1, <2>1
  <2> HIDE DEF d, n
  <2>3. d # 1
    BY <2>2
  <2> QED BY <2>1, <2>3 DEF d
<1>3. ~InFolder(path)
    BY <1>2 DEF Walked
<1> QED BY <1>1, <1>3 DEF NameOf

\* A folder of a fork: its main file is all that is found.
LEMMA FindsFolder ==
    ASSUME NEW root, NEW dir \in Folders(root), NEW c \in Range(Components),
           c \notin Hidden, Len(dir) - 1 <= MaxNesting,
           IsDir(files, Append(dir, c)), IsFile(files, Append(Append(dir, c), ForkMd))
    PROVE  /\ FindsAt(<<[name |-> c, path |-> Append(Append(dir, c), ForkMd)]>>, dir, c)
           /\ Append(Append(dir, c), ForkMd) \in Places
<1> DEFINE d == Len(dir)
           path == Append(dir, c)
           main == Append(path, ForkMd)
           S == {q \in Places : Reach(dir, q) /\ q[d + 1] = c}
<1>1. /\ path \in Paths(root) /\ main \in Paths(root) /\ dir \in Paths(root)
      /\ d \in Nat /\ d >= 1 /\ Len(path) = d + 1 /\ Len(main) = d + 2
      /\ main[d + 1] = c /\ main[d + 2] = ForkMd
      /\ Agrees(path, main)
    BY ComponentCases
<1>2. main \in Places
    BY DEF IsFile
<1>3. Agrees(dir, main)
    BY <1>1, <1>2, BelowComponent
<1>4. MaxNesting \in Nat /\ ForkMd \notin Hidden /\ c # None
    BY ComponentFacts
<1>5. IsFile(files, main) /\ IsDir(files, path)
    OBVIOUS
<1> HIDE DEF d, path, main
<1>6. InFolder(main) /\ NameOf(main) = c
  <2>1. InFolder(main)
    BY <1>1 DEF InFolder
  <2>2. Len(main) - 1 = d + 1
    BY <1>1
  <2> QED BY <1>1, <2>1, <2>2 DEF NameOf
<1>7. Reach(dir, main)
  <2>1. \A i \in (d + 1)..Len(main) : i = d + 1 \/ i = d + 2
    BY <1>1
  <2>2. \A i \in (d + 1)..Len(main) : main[i] \notin Hidden
    BY <1>1, <1>4, <2>1
  <2>3. \A i \in (d + 1)..(Len(main) - 1) : i = Len(main) - 1
    BY <1>1
  <2>4. Len(main) - 3 <= MaxNesting
    BY <1>1, <1>4 DEF d
  <2> QED BY <1>3, <1>4, <1>5, <1>6, <2>2, <2>3, <2>4 DEF Reach, d
<1>8. ASSUME NEW q \in S PROVE q = main
  <2>1. q \in Places /\ Reach(dir, q) /\ q[d + 1] = c
    OBVIOUS
  <2>2. Agrees(path, q)
    BY <1>5, <2>1, ReachIntoDir DEF d, path
  <2>3. FolderAt(q, d + 1)
    BY <1>1, <1>5, <2>1, <2>2, FolderBelow DEF main
  <2>4. q \in Paths(root) /\ Len(q) \in Nat
    BY <2>1, PlaceFacts
  <2>5. Len(q) > d + 1
    BY <1>1, <2>2 DEF Agrees
  <2>6. d + 1 \in (Len(dir) + 1)..(Len(q) - 1)
    BY <1>1, <2>4, <2>5 DEF d
  <2>7. InFolder(q) /\ d + 1 = Len(q) - 1
    BY <2>1, <2>3, <2>6 DEF Reach
  <2>8. Len(q) = d + 2 /\ q[d + 2] = ForkMd
    <3>1. Len(q) = d + 2
      BY <1>1, <2>4, <2>7
    <3> QED BY <2>7, <3>1 DEF InFolder
  <2>9. \A i \in 1..(d + 2) : q[i] = main[i]
    <3>1. \A i \in 1..(d + 2) : i \in 1..(d + 1) \/ i = d + 2
      BY <1>1
    <3>2. \A i \in 1..(d + 1) : path[i] = q[i] /\ path[i] = main[i]
      BY <1>1, <2>2 DEF Agrees
    <3> QED BY <1>1, <2>8, <3>1, <3>2
  <2> QED BY <1>1, <2>4, <2>8, <2>9, SamePath
<1>9. S = {main}
  <2>1. main \in S
    BY <1>1, <1>2, <1>7
  <2> HIDE DEF S
  <2> QED BY <1>8, <2>1
<1>10. Range(<<[name |-> c, path |-> main]>>) = {Entry(main)}
    BY <1>6 DEF Range, Entry
<1> HIDE DEF S
<1>11. FindsAt(<<[name |-> c, path |-> main]>>, dir, c)
    BY <1>9, <1>10 DEF FindsAt, S, d
<1> QED BY <1>2, <1>11 DEF path, main

\* A plain directory: what is found in it.
LEMMA FindsBelow ==
    ASSUME NEW root, NEW dir \in Folders(root), NEW c \in Range(Components),
           c \notin Hidden,
           IsDir(files, Append(dir, c)), ~IsFile(files, Append(Append(dir, c), ForkMd)),
           NEW found, Range(found) = {Entry(p) : p \in {q \in Places : Reach(Append(dir, c), q)}}
    PROVE  FindsAt(found, dir, c)
<1> DEFINE d == Len(dir)
           path == Append(dir, c)
           main == Append(path, ForkMd)
<1>1. /\ path \in Paths(root) /\ dir \in Paths(root)
      /\ d \in Nat /\ d >= 1 /\ Len(path) = d + 1
    BY ComponentCases
<1>2. ~IsFile(files, main) /\ IsDir(files, path)
    OBVIOUS
<1> HIDE DEF d, path, main
<1>3. ASSUME NEW q \in Places PROVE Reach(path, q) <=> Reach(dir, q) /\ q[d + 1] = c
  <2>0. Len(q) \in Nat
    BY PlaceFacts
  <2>1. Reach(dir, q) /\ q[d + 1] = c => Agrees(path, q)
    BY <1>2, ReachIntoDir DEF d, path
  <2>2. Agrees(path, q) => Agrees(dir, q) /\ q[d + 1] = c
    BY <1>1, BelowComponent DEF d, path
  <2>3. Agrees(path, q) => ~FolderAt(q, d + 1)
    BY <1>1, <1>2, FolderBelow DEF main
  <2>4. SUFFICES ASSUME Agrees(path, q), q[d + 1] = c
                 PROVE  Reach(path, q) <=> Reach(dir, q)
    BY <2>1, <2>2 DEF Reach
  <2>5. d + 1 < Len(q)
    BY <1>1, <2>4 DEF Agrees
  <2>6. (d + 1)..Len(q) = {d + 1} \cup ((d + 1) + 1)..Len(q)
    BY <1>1, <2>0, <2>5
  <2>7. (d + 1)..(Len(q) - 1) = {d + 1} \cup ((d + 1) + 1)..(Len(q) - 1)
    BY <1>1, <2>0, <2>5
  <2> QED BY <1>1, <2>2, <2>3, <2>4, <2>6, <2>7, Zenon DEF Reach, d
<1> QED BY <1>3 DEF FindsAt, d, path

\* A plain file, if it is a markdown file.
LEMMA FindsFile ==
    ASSUME NEW root, NEW dir \in Folders(root), Walked(dir), NEW c \in Range(Components),
           c \notin Hidden, Len(dir) - 1 <= MaxNesting,
           ~IsDir(files, Append(dir, c)), IsFile(files, Append(dir, c)), Stem[c] # None
    PROVE  /\ FindsAt(<<[name |-> Stem[c], path |-> Append(dir, c)]>>, dir, c)
           /\ Append(dir, c) \in Places
<1> DEFINE d == Len(dir)
           path == Append(dir, c)
           S == {q \in Places : Reach(dir, q) /\ q[d + 1] = c}
<1>1. /\ path \in Paths(root) /\ dir \in Paths(root)
      /\ d \in Nat /\ d >= 1 /\ Len(path) = d + 1 /\ path[d + 1] = c
    BY ComponentCases
<1>2. path \in Places
    BY DEF IsFile
<1>3. ~InFolder(path) /\ NameOf(path) = Stem[c]
    BY <1>2, OwnFile
<1>4. Agrees(dir, path)
    BY <1>1, <1>2, BelowComponent
<1>5. IsFile(files, path) /\ ~IsDir(files, path)
    OBVIOUS
<1>6. MaxNesting \in Nat
    BY ComponentFacts
<1> HIDE DEF d, path
<1>7. Reach(dir, path)
  <2>1. \A i \in (d + 1)..Len(path) : path[i] \notin Hidden
    <3>1. \A i \in (d + 1)..Len(path) : i = d + 1
      BY <1>1
    <3> QED BY <1>1, <3>1
  <2>2. (d + 1)..(Len(path) - 1) = {}
    BY <1>1
  <2>3. Len(path) - 2 <= MaxNesting
    BY <1>1, <1>6 DEF d
  <2> QED BY <1>3, <1>4, <1>5, <2>1, <2>2, <2>3 DEF Reach, d
<1>8. ASSUME NEW q \in S PROVE q = path
    BY <1>5, ReachIntoDir DEF d, path
<1>9. S = {path}
  <2>1. path \in S
    BY <1>1, <1>2, <1>7
  <2> HIDE DEF S
  <2> QED BY <1>8, <2>1
<1>10. Range(<<[name |-> Stem[c], path |-> path]>>) = {Entry(path)}
    BY <1>3 DEF Range, Entry
<1> HIDE DEF S
<1>11. FindsAt(<<[name |-> Stem[c], path |-> path]>>, dir, c)
    BY <1>9, <1>10 DEF FindsAt, S, d
<1> QED BY <1>2, <1>11 DEF path

\* And nothing else.
LEMMA FindsNothing ==
    ASSUME NEW root, NEW dir \in Folders(root), Walked(dir), NEW c \in Range(Components),
           \/ c \in Hidden
           \/ ~IsDir(files, Append(dir, c)) /\ ~(IsFile(files, Append(dir, c)) /\ Stem[c] # None)
    PROVE  FindsAt(<<>>, dir, c)
<1>1. ASSUME NEW q \in Places, Reach(dir, q), q[Len(dir) + 1] = c PROVE FALSE
  <2>1. CASE c \in Hidden
    <3>1. Len(dir) \in Nat /\ Len(q) \in Nat
      BY PlaceFacts, ComponentCases
    <3>2. Len(dir) < Len(q)
      BY <1>1 DEF Reach, Agrees
    <3>3. Len(dir) + 1 \in (Len(dir) + 1)..Len(q)
      BY <3>1, <3>2
    <3> QED BY <1>1, <2>1, <3>3 DEF Reach
  <2>2. CASE ~IsDir(files, Append(dir, c)) /\ ~(IsFile(files, Append(dir, c)) /\ Stem[c] # None)
    <3>1. q = Append(dir, c)
      BY <1>1, <2>2, ReachIntoDir
    <3>2. IsFile(files, q) /\ NameOf(q) # None
      BY <1>1 DEF Reach
    <3>3. NameOf(q) = Stem[c]
      BY <3>1, <3>2, OwnFile
    <3> QED BY <2>2, <3>1, <3>2, <3>3
  <2> QED BY <2>1, <2>2
<1>2. {q \in Places : Reach(dir, q) /\ q[Len(dir) + 1] = c} = {}
    BY <1>1
<1> QED BY <1>2 DEF FindsAt, Range

\* The entries a scan lists.
Entries == [name : Range(Components) \cup {Stem[c] : c \in Range(Components)}, path : Places]

\* What is found at a component, if what the directory below lists is right.
LEMMA FoundIsRight ==
    ASSUME NEW root, NEW dir \in Folders(root), Walked(dir), Len(dir) - 1 <= MaxNesting,
           NEW scan, NEW c \in Range(Components), NEW R,
           /\ Append(dir, c) \in Folders(root) /\ Walked(Append(dir, c)) =>
                /\ Range(scan[Append(dir, c)]) =
                      {Entry(p) : p \in {q \in Places : Reach(Append(dir, c), q)}}
                /\ SortedBy(scan[Append(dir, c)], R)
    PROVE  /\ FindsAt(Found(files, scan, dir, c), dir, c)
           /\ SortedBy(Found(files, scan, dir, c), R)
<1> DEFINE path == Append(dir, c)
           main == Append(path, ForkMd)
           found == Found(files, scan, dir, c)
<1>0. \A x : SortedBy(<<x>>, R) /\ SortedBy(<<>>, R)
    BY DEF SortedBy
<1>1. CASE c \in Hidden
  <2>1. found = <<>>
    BY <1>1 DEF Found
  <2> QED BY <1>0, <1>1, <2>1, FindsNothing
<1>2. CASE c \notin Hidden /\ IsDir(files, path) /\ IsFile(files, main)
  <2>1. found = <<[name |-> c, path |-> main]>>
    BY <1>2 DEF Found
  <2>2. FindsAt(<<[name |-> c, path |-> main]>>, dir, c)
    BY <1>2, FindsFolder
  <2> QED BY <1>0, <2>1, <2>2
<1>3. CASE c \notin Hidden /\ IsDir(files, path) /\ ~IsFile(files, main)
  <2>1. found = scan[path]
    BY <1>3 DEF Found
  <2>2. path \in Folders(root) /\ Walked(path)
    BY <1>3, FoldersClosed DEF Walked
  <2>3. Range(found) = {Entry(p) : p \in {q \in Places : Reach(path, q)}} /\ SortedBy(found, R)
    BY <2>1, <2>2
  <2> QED BY <1>3, <2>3, FindsBelow
<1>4. CASE c \notin Hidden /\ ~IsDir(files, path) /\ IsFile(files, path) /\ Stem[c] # None
  <2>1. found = <<[name |-> Stem[c], path |-> path]>>
    BY <1>4 DEF Found
  <2>2. FindsAt(<<[name |-> Stem[c], path |-> path]>>, dir, c)
    BY <1>4, FindsFile
  <2> QED BY <1>0, <2>1, <2>2
<1>5. CASE c \notin Hidden /\ ~IsDir(files, path) /\ ~(IsFile(files, path) /\ Stem[c] # None)
  <2>1. found = <<>>
    BY <1>5 DEF Found
  <2> QED BY <1>0, <1>5, <2>1, FindsNothing
<1> QED BY <1>1, <1>2, <1>3, <1>4, <1>5

\* A scan goes down: it lists files, and depends only on the directories below.
LEMMA FoundTyped ==
    ASSUME NEW root, NEW dir \in Folders(root), NEW c \in Range(Components), NEW g,
           Append(dir, c) \in Folders(root) => g[Append(dir, c)] \in Seq(Entries)
    PROVE  Found(files, g, dir, c) \in Seq(Entries)
<1> DEFINE path == Append(dir, c)
           main == Append(path, ForkMd)
           found == Found(files, g, dir, c)
<1>0. <<>> \in Seq(Entries) /\ \A x \in Entries : <<x>> \in Seq(Entries)
    OBVIOUS
<1>1. CASE c \notin Hidden /\ IsDir(files, path) /\ IsFile(files, main)
  <2>1. found = <<[name |-> c, path |-> main]>> /\ main \in Places
    BY <1>1 DEF Found, IsFile
  <2>2. [name |-> c, path |-> main] \in Entries
    BY <2>1 DEF Entries
  <2> QED BY <1>0, <2>1, <2>2
<1>2. CASE c \notin Hidden /\ IsDir(files, path) /\ ~IsFile(files, main)
  <2>1. found = g[path] /\ path \in Folders(root)
    BY <1>2, FoldersClosed DEF Found
  <2> QED BY <2>1
<1>3. CASE c \notin Hidden /\ ~IsDir(files, path) /\ IsFile(files, path) /\ Stem[c] # None
  <2>1. found = <<[name |-> Stem[c], path |-> path]>> /\ path \in Places
    BY <1>3 DEF Found, IsFile
  <2>2. [name |-> Stem[c], path |-> path] \in Entries
    BY <2>1 DEF Entries
  <2> QED BY <1>0, <2>1, <2>2
<1>4. CASE \/ c \in Hidden
           \/ ~IsDir(files, path) /\ ~(IsFile(files, path) /\ Stem[c] # None)
  <2>1. found = <<>>
    BY <1>4 DEF Found
  <2> QED BY <1>0, <2>1
<1> QED BY <1>1, <1>2, <1>3, <1>4

LEMMA FoundDepends ==
    ASSUME NEW root, NEW dir \in Folders(root), NEW c \in Range(Components), NEW g, NEW h,
           Append(dir, c) \in Folders(root) => g[Append(dir, c)] = h[Append(dir, c)]
    PROVE  Found(files, g, dir, c) = Found(files, h, dir, c)
<1> DEFINE path == Append(dir, c)
<1>1. CASE c \notin Hidden /\ IsDir(files, path)
  <2>1. path \in Folders(root)
    BY <1>1, FoldersClosed
  <2> QED BY <1>1, <2>1 DEF Found
<1>2. CASE ~(c \notin Hidden /\ IsDir(files, path))
    BY <1>2 DEF Found
<1> QED BY <1>1, <1>2

\* One step of the scan's recursion, and the rank it descends.
ScanAt(g, dir) ==
    IF Len(dir) - 1 > MaxNesting THEN <<>>
    ELSE FlattenSeq([i \in DOMAIN Components |-> Found(files, g, dir, Components[i])])

ScanRank(root) ==
    [dir \in Folders(root) |-> IF Len(dir) - 1 > MaxNesting THEN 0 ELSE MaxNesting + 2 - Len(dir)]

LEMMA ScanDescends ==
    ASSUME NEW root
    PROVE  /\ ScanRank(root) \in [Folders(root) -> 0..(MaxNesting + 1)]
           /\ \A dir \in Folders(root), c \in Range(Components) :
                 /\ ~(Len(dir) - 1 > MaxNesting)
                 /\ Append(dir, c) \in Folders(root)
                 => ScanRank(root)[Append(dir, c)] < ScanRank(root)[dir]
<1>0. MaxNesting \in Nat
    BY ComponentFacts
<1>1. ASSUME NEW dir \in Folders(root)
      PROVE  (IF Len(dir) - 1 > MaxNesting THEN 0 ELSE MaxNesting + 2 - Len(dir)) \in 0..(MaxNesting + 1)
  <2>1. Len(dir) \in Nat /\ Len(dir) >= 1
    BY FolderFacts
  <2> QED BY <1>0, <2>1
<1>2. ASSUME NEW dir \in Folders(root), NEW c \in Range(Components),
             ~(Len(dir) - 1 > MaxNesting), Append(dir, c) \in Folders(root)
      PROVE  ScanRank(root)[Append(dir, c)] < ScanRank(root)[dir]
  <2>1. Len(dir) \in Nat /\ Len(Append(dir, c)) = Len(dir) + 1
    BY ComponentCases
  <2> QED BY <1>0, <1>2, <2>1 DEF ScanRank
<1> QED BY <1>1, <1>2 DEF ScanRank

\* What is listed at each component makes up a list of lists.
LEMMA ScanAtTyped ==
    ASSUME NEW root, NEW dir \in Folders(root), NEW g,
           \A c \in Range(Components) : ~(Len(dir) - 1 > MaxNesting) /\ Append(dir, c) \in Folders(root)
              => g[Append(dir, c)] \in Seq(Entries)
    PROVE  /\ ~(Len(dir) - 1 > MaxNesting) =>
                 [i \in DOMAIN Components |-> Found(files, g, dir, Components[i])] \in Seq(Seq(Entries))
           /\ ScanAt(g, dir) \in Seq(Entries)
<1> DEFINE lists == [i \in DOMAIN Components |-> Found(files, g, dir, Components[i])]
<1>0. <<>> \in Seq(Entries)
    OBVIOUS
<1>1. CASE Len(dir) - 1 > MaxNesting
    BY <1>0, <1>1 DEF ScanAt
<1>2. CASE ~(Len(dir) - 1 > MaxNesting)
  <2>1. \A c \in Range(Components) : Found(files, g, dir, c) \in Seq(Entries)
    BY <1>2, FoundTyped
  <2>2. /\ Len(Components) \in Nat /\ DOMAIN Components = 1..Len(Components)
        /\ \A i \in 1..Len(Components) : Components[i] \in Range(Components)
    BY ComponentFacts
  <2>3. lists \in [1..Len(Components) -> Seq(Entries)]
    BY <2>1, <2>2
  <2>4. lists \in Seq(Seq(Entries))
    BY <2>2, <2>3
  <2> HIDE DEF lists
  <2>5. FlattenSeq(lists) \in Seq(Entries)
    BY <2>4, FlattenKeeps
  <2> QED BY <1>2, <2>4, <2>5 DEF ScanAt, lists
<1> QED BY <1>1, <1>2

\* The recursion has a solution.
LEMMA ScanExists ==
    ASSUME NEW root
    PROVE  \E g : g = [dir \in Folders(root) |-> ScanAt(g, dir)]
<1> DEFINE D == Folders(root)
           A == Seq(Entries)
           n == MaxNesting + 1
           rank == ScanRank(root)
           F == [g \in [D -> A] |-> [dir \in D |-> ScanAt(g, dir)]]
<1>1. n \in Nat /\ <<>> \in A
    BY ComponentFacts
<1>2. rank \in [D -> 0..n]
    BY ScanDescends
<1>3. F \in [[D -> A] -> [D -> A]]
  <2> SUFFICES ASSUME NEW g \in [D -> A], NEW dir \in D PROVE ScanAt(g, dir) \in A
    OBVIOUS
  <2> QED BY ScanAtTyped
<1>4. ASSUME NEW g \in [D -> A], NEW h \in [D -> A], NEW dir \in D,
             \A e \in D : rank[e] < rank[dir] => g[e] = h[e]
      PROVE  ScanAt(g, dir) = ScanAt(h, dir)
  <2>1. CASE Len(dir) - 1 > MaxNesting
    BY <2>1 DEF ScanAt
  <2>2. CASE ~(Len(dir) - 1 > MaxNesting)
    <3>1. \A c \in Range(Components) : Append(dir, c) \in D => g[Append(dir, c)] = h[Append(dir, c)]
      BY <1>4, <2>2, ScanDescends
    <3>2. \A c \in Range(Components) : Found(files, g, dir, c) = Found(files, h, dir, c)
      BY <3>1, FoundDepends
    <3>3. \A i \in DOMAIN Components : Components[i] \in Range(Components)
      BY DEF Range
    <3>4. [i \in DOMAIN Components |-> Found(files, g, dir, Components[i])]
            = [i \in DOMAIN Components |-> Found(files, h, dir, Components[i])]
      BY <3>2, <3>3
    <3> QED BY <2>2, <3>4 DEF ScanAt
  <2> QED BY <2>1, <2>2
<1>5. \A g \in [D -> A], h \in [D -> A] : \A dir \in D :
         (\A e \in D : rank[e] < rank[dir] => g[e] = h[e]) => F[g][dir] = F[h][dir]
  <2> SUFFICES ASSUME NEW g \in [D -> A], NEW h \in [D -> A], NEW dir \in D,
                      \A e \in D : rank[e] < rank[dir] => g[e] = h[e]
               PROVE  F[g][dir] = F[h][dir]
    BY Zenon
  <2>1. ScanAt(g, dir) = ScanAt(h, dir)
    BY <1>4, Zenon
  <2>2. F[g][dir] = ScanAt(g, dir) /\ F[h][dir] = ScanAt(h, dir)
    OBVIOUS
  <2> QED BY <2>1, <2>2
<1> HIDE DEF D, A, n, rank, F
<1>6. Ranked(F, D, A, rank, n)
    BY <1>2, <1>3, <1>5 DEF Ranked
<1>7. PICK g : IsFixed(g, F, D, A)
    BY <1>1, <1>6, RankedRecursion
<1>8. g \in [D -> A] /\ F[g] = g
    BY <1>7 DEF IsFixed
<1>9. g = [dir \in D |-> ScanAt(g, dir)]
    BY <1>8 DEF F
<1> QED BY <1>9 DEF D

\* scan_forks_dir is such a recursion, and it lists files.
LEMMA ScanUnfolds ==
    ASSUME NEW root
    PROVE  \E scan : /\ ScanForksDir(files, root) = scan[<<root>>]
                     /\ scan \in [Folders(root) -> Seq(Entries)]
                     /\ \A dir \in Folders(root) : scan[dir] = ScanAt(scan, dir)
<1> DEFINE D == Folders(root)
           scan == CHOOSE g : g = [dir \in D |-> ScanAt(g, dir)]
<1>1. scan = [dir \in D |-> ScanAt(scan, dir)]
    BY ScanExists, Zenon
<1>2. ScanForksDir(files, root) = scan[<<root>>]
    BY Zenon DEF ScanForksDir, ScanAt
<1> HIDE DEF scan
<1>3. DOMAIN scan = D /\ \A dir \in D : scan[dir] = ScanAt(scan, dir)
    BY <1>1
<1> DEFINE G == {dir \in D : scan[dir] \in Seq(Entries)}
           rank == ScanRank(root)
           n == MaxNesting + 1
<1>4. n \in Nat /\ rank \in [D -> 0..n]
    BY ComponentFacts, ScanDescends
<1>5. ASSUME NEW dir \in D, \A e \in D : rank[e] < rank[dir] => e \in G PROVE dir \in G
  <2>1. \A c \in Range(Components) : ~(Len(dir) - 1 > MaxNesting) /\ Append(dir, c) \in Folders(root)
           => scan[Append(dir, c)] \in Seq(Entries)
    BY <1>5, ScanDescends
  <2>2. ScanAt(scan, dir) \in Seq(Entries)
    BY <2>1, ScanAtTyped
  <2> QED BY <1>3, <2>2
<1> HIDE DEF G, rank, n, D
<1>6. D \subseteq G
    BY <1>4, <1>5, RankInduction
<1>7. scan \in [D -> Seq(Entries)]
  <2>1. scan = [dir \in D |-> scan[dir]]
    BY <1>1
  <2>2. \A dir \in D : scan[dir] \in Seq(Entries)
    BY <1>6 DEF G
  <2> QED BY <2>1, <2>2
<1> QED BY <1>2, <1>3, <1>7 DEF D

\* The place of a component in the order of names.
Rank(c) == CHOOSE j \in DOMAIN Components : Components[j] = c

LEMMA RankIsPlace ==
    /\ \A k \in 1..Len(Components) : Rank(Components[k]) = k
    /\ \A c \in Range(Components) : Rank(c) \in Int
<1>1. /\ DOMAIN Components = 1..Len(Components)
      /\ \A i, j \in 1..Len(Components) : Components[i] = Components[j] => i = j
    BY ComponentFacts
<1>2. ASSUME NEW k \in 1..Len(Components) PROVE Rank(Components[k]) = k
  <2>1. \E j \in DOMAIN Components : Components[j] = Components[k]
    BY <1>1
  <2>2. Rank(Components[k]) \in DOMAIN Components /\ Components[Rank(Components[k])] = Components[k]
    BY <2>1 DEF Rank
  <2> QED BY <1>1, <2>2
<1>3. ASSUME NEW c \in Range(Components) PROVE Rank(c) \in Int
  <2>1. \E k \in 1..Len(Components) : c = Components[k]
    BY <1>1 DEF Range
  <2> QED BY <1>2, <2>1
<1> QED BY <1>2, <1>3

LEMMA BeforeMeans ==
    ASSUME NEW p \in Places, NEW q \in Places
    PROVE  Before(p, q) <=> \E i \in 2..Len(p) : /\ i \in 2..Len(q)
                                                 /\ \A j \in 1..(i - 1) : p[j] = q[j]
                                                 /\ Rank(p[i]) < Rank(q[i])
<1>1. /\ p \in Paths(ForkMd) /\ Len(p) \in Nat /\ DOMAIN p = 1..Len(p)
      /\ q \in Paths(ForkMd) /\ Len(q) \in Nat /\ DOMAIN q = 1..Len(q)
    BY PlaceFacts
<1>2. Before(p, q) <=> \E i \in 1..Len(p) : /\ i \in 1..Len(q)
                                            /\ SubSeq(p, 1, i - 1) = SubSeq(q, 1, i - 1)
                                            /\ i > 1 /\ Rank(p[i]) < Rank(q[i])
    BY <1>1, Zenon DEF Before, Rank
<1>3. ASSUME NEW i \in 1..Len(p), i \in 1..Len(q)
      PROVE  SubSeq(p, 1, i - 1) = SubSeq(q, 1, i - 1) <=> \A j \in 1..(i - 1) : p[j] = q[j]
  <2>1. i - 1 \in Nat /\ i - 1 <= Len(p) /\ i - 1 <= Len(q)
    BY <1>1, <1>3
  <2> QED BY <1>1, <2>1, SubSeqSame DEF Paths
<1>4. \A i : i \in 2..Len(p) /\ i \in 2..Len(q) <=> i \in 1..Len(p) /\ i \in 1..Len(q) /\ i > 1
    BY <1>1
<1> QED BY <1>2, <1>3, <1>4

\* The order of two files is decided where they part.
LEMMA BeforeWhereTheyPart ==
    ASSUME NEW root, NEW dir \in Folders(root), NEW p \in Places, NEW q \in Places,
           Agrees(dir, p), Agrees(dir, q),
           NEW k \in 1..Len(Components), NEW m \in 1..Len(Components), k < m,
           p[Len(dir) + 1] = Components[k], q[Len(dir) + 1] = Components[m]
    PROVE  Before(p, q)
<1> DEFINE i == Len(dir) + 1
<1>1. Len(dir) \in Nat /\ Len(dir) >= 1 /\ Len(p) \in Nat /\ Len(q) \in Nat
    BY FolderFacts, PlaceFacts
<1>2. Len(dir) < Len(p) /\ Len(dir) < Len(q) /\ \A j \in 1..Len(dir) : p[j] = q[j]
    BY DEF Agrees
<1>3. i \in 2..Len(p) /\ i \in 2..Len(q) /\ i - 1 = Len(dir)
    BY <1>1, <1>2
<1>4. Rank(p[i]) < Rank(q[i])
    BY RankIsPlace
<1> HIDE DEF i
<1> QED BY <1>2, <1>3, <1>4, BeforeMeans

\* It is an order: no two files are each before the other.
LEMMA BeforeIsStrict ==
    ASSUME NEW p \in Places, NEW q \in Places, Before(p, q), Before(q, p)
    PROVE  FALSE
<1>1. PICK i \in 2..Len(p) : /\ i \in 2..Len(q) /\ \A j \in 1..(i - 1) : p[j] = q[j]
                             /\ Rank(p[i]) < Rank(q[i])
    BY BeforeMeans
<1>2. PICK k \in 2..Len(q) : /\ k \in 2..Len(p) /\ \A j \in 1..(k - 1) : q[j] = p[j]
                             /\ Rank(q[k]) < Rank(p[k])
    BY BeforeMeans
<1>3. /\ Len(p) \in Nat /\ Len(q) \in Nat
      /\ \A j \in 2..Len(p) : p[j] \in Range(Components)
      /\ \A j \in 2..Len(q) : q[j] \in Range(Components)
    BY PlaceFacts
<1>4. Rank(p[i]) \in Int /\ Rank(q[i]) \in Int /\ Rank(q[k]) \in Int /\ Rank(p[k]) \in Int
    BY <1>1, <1>2, <1>3, RankIsPlace
<1>5. CASE i < k
  <2>1. i \in 1..(k - 1)
    BY <1>1, <1>2, <1>3, <1>5
  <2>2. p[i] = q[i]
    BY <1>2, <2>1
  <2> QED BY <1>1, <1>4, <2>2
<1>6. CASE k < i
  <2>1. k \in 1..(i - 1)
    BY <1>1, <1>2, <1>3, <1>6
  <2>2. p[k] = q[k]
    BY <1>1, <2>1
  <2> QED BY <1>2, <1>4, <2>2
<1>7. CASE i = k
    BY <1>1, <1>2, <1>4, <1>7
<1> QED BY <1>1, <1>2, <1>3, <1>5, <1>6, <1>7

InOrder == {r \in Entries \X Entries : Before(r[1].path, r[2].path)}

\* What a scan lists for dir.
Lists(list, dir) ==
    /\ Range(list) = {Entry(p) : p \in {q \in Places : Reach(dir, q)}}
    /\ SortedBy(list, InOrder)

\* Nothing is to be found beyond the nesting depth.
LEMMA NothingTooDeep ==
    ASSUME NEW root, NEW dir \in Folders(root), Walked(dir), Len(dir) - 1 > MaxNesting,
           NEW p \in Places, Reach(dir, p)
    PROVE  FALSE
<1>1. Len(dir) \in Nat /\ Len(dir) >= 1 /\ dir \in Paths(root) /\ MaxNesting \in Nat
    BY FolderFacts, ComponentFacts
<1>2. Len(p) \in Nat /\ Len(dir) < Len(p)
    BY PlaceFacts DEF Reach, Agrees
<1>3. CASE InFolder(p)
  <2>1. Len(p) - 3 <= MaxNesting /\ p[Len(p)] = ForkMd /\ Len(p) > 2
    BY <1>3 DEF Reach, InFolder
  <2>2. Len(p) = Len(dir) + 1 /\ Len(dir) # 1
    <3> DEFINE n == Len(p)
               d == Len(dir)
    <3>1. /\ n \in Nat /\ d \in Nat /\ MaxNesting \in Nat /\ d < n /\ n > 2
          /\ d - 1 > MaxNesting /\ n - 3 <= MaxNesting
      BY <1>1, <1>2, <2>1
    <3> HIDE DEF n, d
    <3>2. n = d + 1 /\ d # 1
      BY <3>1
    <3> QED BY <3>2 DEF n, d
  <2>3. p = Append(dir, ForkMd)
    <3>1. \A i \in 1..Len(dir) : dir[i] = p[i]
      BY DEF Reach, Agrees
    <3>2. /\ Append(dir, ForkMd) \in Paths(root) /\ Len(Append(dir, ForkMd)) = Len(dir) + 1
          /\ Append(dir, ForkMd)[Len(dir) + 1] = ForkMd
          /\ \A i \in 1..Len(dir) : Append(dir, ForkMd)[i] = dir[i]
      BY <1>1, AppendPath
    <3>3. p \in Paths(root)
      BY PlaceFacts
    <3>4. 1..(Len(dir) + 1) = 1..Len(dir) \cup {Len(dir) + 1}
      BY <1>1
    <3>5. \A i \in 1..Len(p) : p[i] = Append(dir, ForkMd)[i]
      BY <2>1, <2>2, <3>1, <3>2, <3>4
    <3> QED BY <2>2, <3>2, <3>3, <3>5, SamePath
  <2>4. ~IsFile(files, Append(dir, ForkMd))
    BY <2>2 DEF Walked
  <2> QED BY <2>3, <2>4 DEF Reach
<1>4. CASE ~InFolder(p)
  <2>1. Len(p) - 2 <= MaxNesting
    BY <1>4 DEF Reach
  <2> QED BY <1>1, <1>2, <2>1
<1> QED BY <1>3, <1>4

\* scan_forks_dir, at one directory.
LEMMA ScanAtIsRight ==
    ASSUME NEW root, NEW dir \in Folders(root), Walked(dir), NEW scan,
           \A c \in Range(Components) : ~(Len(dir) - 1 > MaxNesting) /\ Append(dir, c) \in Folders(root)
              => /\ scan[Append(dir, c)] \in Seq(Entries)
                 /\ Walked(Append(dir, c)) => Lists(scan[Append(dir, c)], Append(dir, c))
    PROVE  Lists(ScanAt(scan, dir), dir)
<1> DEFINE d == Len(dir)
           n == Len(Components)
           lists == [i \in DOMAIN Components |-> Found(files, scan, dir, Components[i])]
<1>1. CASE d - 1 > MaxNesting
  <2>1. ScanAt(scan, dir) = <<>>
    BY <1>1 DEF ScanAt
  <2>2. {q \in Places : Reach(dir, q)} = {}
    BY <1>1, NothingTooDeep
  <2>3. Range(<<>>) = {} /\ SortedBy(<<>>, InOrder)
    BY DEF Range, SortedBy
  <2> QED BY <2>1, <2>2, <2>3 DEF Lists
<1>2. CASE ~(d - 1 > MaxNesting)
  <2>0. /\ n \in Nat /\ DOMAIN Components = 1..n /\ MaxNesting \in Nat
        /\ \A i \in 1..n : Components[i] \in Range(Components)
        /\ d \in Nat /\ d >= 1
    BY ComponentFacts, FolderFacts
  <2>1. d - 1 <= MaxNesting
    BY <1>2, <2>0
  <2>2. lists \in Seq(Seq(Entries))
    BY <1>2, ScanAtTyped
  <2>3. ASSUME NEW c \in Range(Components)
        PROVE  /\ FindsAt(Found(files, scan, dir, c), dir, c)
               /\ SortedBy(Found(files, scan, dir, c), InOrder)
    <3>1. Append(dir, c) \in Folders(root) /\ Walked(Append(dir, c)) =>
             /\ Range(scan[Append(dir, c)]) = {Entry(p) : p \in {q \in Places : Reach(Append(dir, c), q)}}
             /\ SortedBy(scan[Append(dir, c)], InOrder)
      BY <1>2 DEF Lists
    <3> HIDE DEF d
    <3> QED BY <2>1, <3>1, FoundIsRight DEF d
  <2>4. \A k \in 1..n : FindsAt(lists[k], dir, Components[k]) /\ SortedBy(lists[k], InOrder)
    BY <2>0, <2>3
  <2>5. Len(lists) = n
    BY <2>0, <2>2
  <2> HIDE DEF lists
  <2>6. ASSUME NEW k \in 1..n, NEW x \in Range(lists[k])
        PROVE  \E p \in Places : x = Entry(p) /\ Reach(dir, p) /\ p[d + 1] = Components[k]
    BY <2>4 DEF FindsAt
  <2>7. ASSUME NEW k \in 1..n, NEW m \in 1..n, k < m,
               NEW x \in Range(lists[k]), NEW y \in Range(lists[m])
        PROVE  <<x, y>> \in InOrder
    <3>1. PICK p \in Places : x = Entry(p) /\ Reach(dir, p) /\ p[d + 1] = Components[k]
      BY <2>6
    <3>2. PICK q \in Places : y = Entry(q) /\ Reach(dir, q) /\ q[d + 1] = Components[m]
      BY <2>6
    <3>3. Before(p, q)
      BY <2>7, <3>1, <3>2, BeforeWhereTheyPart DEF Reach
    <3>4. x.path = p /\ y.path = q
      BY <3>1, <3>2 DEF Entry
    <3>5. x \in Entries /\ y \in Entries
      <4>1. lists[k] \in Seq(Entries) /\ lists[m] \in Seq(Entries)
        BY <2>0, <2>2, <2>5
      <4>2. \A s \in Seq(Entries) : \A z \in Range(s) : z \in Entries
        BY DEF Range
      <4> QED BY <4>1, <4>2
    <3> QED BY <3>3, <3>4, <3>5 DEF InOrder
  <2>8. SortedBy(FlattenSeq(lists), InOrder)
    BY <2>2, <2>4, <2>5, <2>7, FlattenKeeps
  <2>9. Range(FlattenSeq(lists)) = UNION {Range(lists[k]) : k \in 1..n}
    BY <2>2, <2>5, FlattenKeeps
  <2>10. Range(FlattenSeq(lists)) = {Entry(p) : p \in {q \in Places : Reach(dir, q)}}
    <3>1. ASSUME NEW x \in Range(FlattenSeq(lists))
          PROVE  \E p \in Places : x = Entry(p) /\ Reach(dir, p)
      BY <2>6, <2>9
    <3>2. ASSUME NEW p \in Places, Reach(dir, p) PROVE Entry(p) \in Range(FlattenSeq(lists))
      <4>1. Len(p) \in Nat /\ d < Len(p)
        BY <3>2, PlaceFacts DEF Reach, Agrees
      <4>2. d + 1 \in 2..Len(p)
        BY <2>0, <4>1
      <4>3. p[d + 1] \in Range(Components)
        BY <4>2, PlaceFacts
      <4>4. PICK k \in 1..n : p[d + 1] = Components[k]
        BY <2>0, <4>3 DEF Range
      <4>5. Entry(p) \in Range(lists[k])
        BY <2>4, <3>2, <4>4 DEF FindsAt
      <4> QED BY <2>9, <4>5
    <3> QED BY <3>1, <3>2
  <2>11. ScanAt(scan, dir) = FlattenSeq(lists)
    BY <1>2 DEF ScanAt, lists
  <2> QED BY <2>8, <2>10, <2>11 DEF Lists
<1> QED BY <1>1, <1>2

\* scan_forks_dir lists the files that its rules name, in order.
LEMMA ScanIsRight ==
    ASSUME NEW root
    PROVE  ScanForksDir(files, root) \in Seq(Entries) /\ Lists(ScanForksDir(files, root), <<root>>)
<1> DEFINE D == Folders(root)
           rank == ScanRank(root)
           n == MaxNesting + 1
<1>1. PICK scan : /\ ScanForksDir(files, root) = scan[<<root>>]
                  /\ scan \in [D -> Seq(Entries)]
                  /\ \A dir \in D : scan[dir] = ScanAt(scan, dir)
    BY ScanUnfolds, Zenon
<1> DEFINE G == {dir \in D : Walked(dir) => Lists(scan[dir], dir)}
<1>2. n \in Nat /\ rank \in [D -> 0..n]
    BY ComponentFacts, ScanDescends
<1>3. ASSUME NEW dir \in D, \A e \in D : rank[e] < rank[dir] => e \in G PROVE dir \in G
  <2>1. ASSUME NEW c \in Range(Components), ~(Len(dir) - 1 > MaxNesting), Append(dir, c) \in D
        PROVE  /\ scan[Append(dir, c)] \in Seq(Entries)
               /\ Walked(Append(dir, c)) => Lists(scan[Append(dir, c)], Append(dir, c))
    <3>1. rank[Append(dir, c)] < rank[dir]
      BY <2>1, ScanDescends
    <3> HIDE DEF rank
    <3>2. Append(dir, c) \in G
      BY <1>3, <2>1, <3>1
    <3> QED BY <1>1, <2>1, <3>2
  <2>2. Walked(dir) => Lists(ScanAt(scan, dir), dir)
    BY <2>1, ScanAtIsRight
  <2> QED BY <1>1, <2>2
<1> HIDE DEF G, rank, n, D
<1>4. D \subseteq G
    BY <1>2, <1>3, RankInduction
<1>5. <<root>> \in D /\ Walked(<<root>>)
    BY DEF D, Folders, Walked
<1> QED BY <1>1, <1>4, <1>5 DEF G

-----------------------------------------------------------------------------
\* The forks roots, nearest first.

\* Appending a value that comes after the others.
LEMMA AppendSorted ==
    ASSUME NEW S, NEW out \in Seq(S), NEW x \in S, NEW R, SortedBy(out, R),
           \A y \in Range(out) : <<y, x>> \in R
    PROVE  SortedBy(Append(out, x), R)
<1> DEFINE n == Len(out)
           app == Append(out, x)
<1>1. /\ n \in Nat /\ DOMAIN out = 1..n /\ DOMAIN app = 1..(n + 1)
      /\ app[n + 1] = x /\ \A i \in 1..n : app[i] = out[i]
    BY AppendProperties
<1> HIDE DEF n, app
<1>2. ASSUME NEW i \in 1..(n + 1), NEW j \in 1..(n + 1), i < j PROVE <<app[i], app[j]>> \in R
  <2>1. i \in 1..n
    BY <1>1, <1>2
  <2>2. CASE j = n + 1
    <3>1. app[i] \in Range(out)
      BY <1>1, <2>1 DEF Range
    <3> QED BY <1>1, <2>2, <3>1
  <2>3. CASE j # n + 1
    <3>1. j \in 1..n
      BY <1>1, <2>3
    <3> QED BY <1>1, <1>2, <2>1, <3>1 DEF SortedBy
  <2> QED BY <2>2, <2>3
<1> QED BY <1>1, <1>2 DEF SortedBy, app

Order   == IF UserRoot \in Range(chain) THEN chain ELSE Append(chain, UserRoot)
Dist(d) == CHOOSE i \in DOMAIN Order : Order[i] = d
Earlier == {r \in Range(Order) \X Range(Order) : Dist(r[1]) < Dist(r[2])}

ChainOk == chain \in Seq(Range(chain)) /\ Distinct(chain)

LEMMA OrderFacts ==
    ASSUME ChainOk
    PROVE  /\ Order \in Seq(Range(Order)) /\ Range(Order) = Range(chain) \cup {UserRoot}
           /\ \A i \in DOMAIN Order : Dist(Order[i]) = i /\ i \in Int
           /\ \A d \in Range(Order) : Dist(d) \in Int
           /\ \A i \in DOMAIN chain : Dist(chain[i]) = i
           /\ UserRoot \notin Range(chain) => \A i \in DOMAIN chain : i < Dist(UserRoot)
<1>1. /\ chain \in Seq(Range(chain)) /\ Distinct(chain)
      /\ Len(chain) \in Nat /\ DOMAIN chain = 1..Len(chain)
    BY DEF ChainOk
<1>2. /\ Order \in Seq(Range(chain) \cup {UserRoot})
      /\ Range(Order) = Range(chain) \cup {UserRoot} /\ Distinct(Order)
      /\ \A i \in DOMAIN chain : i \in DOMAIN Order /\ Order[i] = chain[i]
      /\ UserRoot \notin Range(chain) => /\ Len(chain) + 1 \in DOMAIN Order
                                         /\ Order[Len(chain) + 1] = UserRoot
  <2>1. CASE UserRoot \in Range(chain)
    BY <1>1, <2>1 DEF Order
  <2>2. CASE UserRoot \notin Range(chain)
    <3> DEFINE S == Range(chain) \cup {UserRoot}
    <3>1. Order = Append(chain, UserRoot)
      BY <2>2 DEF Order
    <3>2. chain \in Seq(S) /\ UserRoot \in S
      BY <1>1, SeqMonotonic
    <3>3. /\ Append(chain, UserRoot) \in Seq(S)
          /\ Range(Append(chain, UserRoot)) = S
          /\ Distinct(Append(chain, UserRoot))
      BY <1>1, <2>2, <3>2, AppendAddsOne
    <3>4. /\ DOMAIN Append(chain, UserRoot) = 1..(Len(chain) + 1)
          /\ Append(chain, UserRoot)[Len(chain) + 1] = UserRoot
          /\ \A i \in 1..Len(chain) : Append(chain, UserRoot)[i] = chain[i]
      <4> HIDE DEF S
      <4> QED BY <3>2, AppendProperties
    <3>5. \A i \in 1..Len(chain) : i \in 1..(Len(chain) + 1)
      BY <1>1
    <3>6. Len(chain) + 1 \in 1..(Len(chain) + 1)
      BY <1>1
    <3> QED BY <1>1, <3>1, <3>3, <3>4, <3>5, <3>6
  <2> QED BY <2>1, <2>2
<1>3. Order \in Seq(Range(Order)) /\ DOMAIN Order = 1..Len(Order) /\ Len(Order) \in Nat
    BY <1>2
<1>4. ASSUME NEW i \in DOMAIN Order PROVE Dist(Order[i]) = i /\ i \in Int
  <2>1. Dist(Order[i]) \in DOMAIN Order /\ Order[Dist(Order[i])] = Order[i]
    BY DEF Dist
  <2>2. Dist(Order[i]) = i
    BY <1>2, <2>1 DEF Distinct
  <2> QED BY <1>3, <2>2
<1>5. \A d \in Range(Order) : Dist(d) \in Int
  <2>1. \A d \in Range(Order) : \E i \in DOMAIN Order : d = Order[i]
    BY DEF Range
  <2> QED BY <1>4, <2>1
<1>6. \A i \in DOMAIN chain : Dist(chain[i]) = i
    BY <1>2, <1>4
<1>7. UserRoot \notin Range(chain) => \A i \in DOMAIN chain : i < Dist(UserRoot)
  <2>1. UserRoot \notin Range(chain) => Dist(UserRoot) = Len(chain) + 1
    BY <1>2, <1>4
  <2>2. \A i \in DOMAIN chain : i < Len(chain) + 1
    BY <1>1
  <2> QED BY <2>1, <2>2
<1> QED BY <1>2, <1>3, <1>4, <1>5, <1>6, <1>7

\* A directory is a root if there is something in it.
KeepDir(out, d) == IF IsDir(files, <<d>>) THEN Append(out, d) ELSE out

LEMMA RootsFold ==
    ASSUME ChainOk
    PROVE  LET n == Len(chain)
               S == Range(chain) IN
           \E f, roots :
              /\ Folded(f, n, Seq(S), <<>>, [k \in 1..n |-> [out \in Seq(S) |-> KeepDir(out, chain[k])]])
              /\ f[n] = roots
              /\ ForkRoots(files, chain, UserRoot) =
                    IF UserRoot \in Range(roots) THEN roots ELSE KeepDir(roots, UserRoot)
<1> DEFINE n == Len(chain)
           A == Seq(Range(chain))
           step == [k \in 1..n |-> [out \in A |-> KeepDir(out, chain[k])]]
           D == SUBSET (1..n)
           body(g) == [t \in D |-> IF t = {} THEN <<>> ELSE KeepDir(g[t \ {Max(t)}], chain[Max(t)])]
           it == CHOOSE g : g = body(g)
<1>1. n \in Nat /\ DOMAIN chain = 1..n /\ <<>> \in A /\ \A k \in 1..n : chain[k] \in Range(chain)
    BY DEF ChainOk
<1>2. step \in [1..n -> [A -> A]]
  <2> SUFFICES ASSUME NEW k \in 1..n, NEW out \in A PROVE KeepDir(out, chain[k]) \in A
    OBVIOUS
  <2> QED BY <1>1 DEF KeepDir
<1>3. \A t \in D : t # {} => Max(t) \in 1..n /\ t \ {Max(t)} \in D
    BY <1>1, MaxOfIndices
<1>4. \A out \in A : \A k \in 1..n : step[k][out] = KeepDir(out, chain[k])
    OBVIOUS
<1> HIDE DEF n, A, step
<1>5a. PICK g : SolvesFold(g, n, A, <<>>, step)
    BY <1>1, <1>2, FoldExists, Zenon
<1>5. g \in [D -> A] /\ \A t \in D : g[t] = IF t = {} THEN <<>> ELSE step[Max(t)][g[t \ {Max(t)}]]
    BY <1>5a DEF SolvesFold
<1>6. g = body(g)
  <2>1. ASSUME NEW t \in D PROVE g[t] = body(g)[t]
    <3>1. CASE t = {}
      BY <1>5, <3>1
    <3>2. CASE t # {}
      <4>1. Max(t) \in 1..n /\ g[t \ {Max(t)}] \in A
        BY <1>3, <1>5, <3>2
      <4> QED BY <1>4, <1>5, <3>2, <4>1
    <3> QED BY <3>1, <3>2
  <2> HIDE DEF D
  <2> QED BY <1>5, <2>1
<1>7. it = body(it)
    BY <1>6, Zenon
<1>8. ForkRoots(files, chain, UserRoot) =
         IF UserRoot \in Range(it[1..n]) THEN it[1..n] ELSE KeepDir(it[1..n], UserRoot)
  <2> DEFINE add(out, d) == IF IsDir(files, <<d>>) THEN Append(out, d) ELSE out
             fold == FoldLeft(add, <<>>, chain)
  <2>1. fold = it[1..n]
    BY <1>1, Zenon DEF FoldLeft, MapThenFoldSet, KeepDir
  <2>2. ForkRoots(files, chain, UserRoot) =
           IF UserRoot \in Range(fold) THEN fold ELSE KeepDir(fold, UserRoot)
    BY Zenon DEF ForkRoots, KeepDir
  <2> HIDE DEF fold, it
  <2> QED BY <2>1, <2>2, Zenon
<1> HIDE DEF it
<1>9. it[{}] = <<>> /\ \A t \in D : t # {} => it[t] = KeepDir(it[t \ {Max(t)}], chain[Max(t)])
    BY <1>7
<1>10. \A t \in D : t # {} /\ it[t \ {Max(t)}] \in A => it[t] = step[Max(t)][it[t \ {Max(t)}]]
    BY <1>3, <1>4, <1>9
<1>10a. FollowsFold(it, n, A, <<>>, step)
    BY <1>9, <1>10 DEF FollowsFold
<1>11. PICK f : Folded(f, n, A, <<>>, step) /\ f[n] = it[1..n]
    BY <1>1, <1>2, <1>10a, FoldSteps
<1> QED BY <1>8, <1>11 DEF n, A, step

\* fork_roots: the directories of the order that are there, in order.
LEMMA RootsAreRight ==
    ASSUME ChainOk
    PROVE  LET roots == ForkRoots(files, chain, UserRoot) IN
           /\ roots \in Seq(Range(Order))
           /\ Range(roots) = {d \in Range(Order) : IsDir(files, <<d>>)}
           /\ SortedBy(roots, Earlier)
<1> DEFINE n == Len(chain)
           S == Range(chain)
           step == [k \in 1..n |-> [out \in Seq(S) |-> KeepDir(out, chain[k])]]
<1>1. PICK f, roots :
              /\ Folded(f, n, Seq(S), <<>>, step)
              /\ f[n] = roots
              /\ ForkRoots(files, chain, UserRoot) =
                    IF UserRoot \in Range(roots) THEN roots ELSE KeepDir(roots, UserRoot)
    BY RootsFold, Zenon
<1>2. n \in Nat /\ DOMAIN chain = 1..n /\ \A i \in 1..n : chain[i] \in S
    BY DEF ChainOk
<1>3. f \in [0..n -> Seq(S)] /\ f[0] = <<>> /\ \A k \in 1..n : f[k] = step[k][f[k - 1]]
    BY <1>1 DEF Folded
<1>4. /\ Range(Order) = S \cup {UserRoot} /\ \A d \in Range(Order) : Dist(d) \in Int
      /\ \A i \in 1..n : Dist(chain[i]) = i
      /\ UserRoot \notin S => \A i \in 1..n : i < Dist(UserRoot)
    BY <1>2, OrderFacts
<1> DEFINE good(k) == /\ Range(f[k]) = {chain[i] : i \in {j \in 1..k : IsDir(files, <<chain[j]>>)}}
                      /\ SortedBy(f[k], Earlier)
           G == {k \in 0..n : good(k)}
<1>5. 0 \in G
  <2>1. Range(<<>>) = {} /\ SortedBy(<<>>, Earlier)
    BY DEF Range, SortedBy
  <2>2. {j \in 1..0 : IsDir(files, <<chain[j]>>)} = {}
    OBVIOUS
  <2>3. good(0)
    BY <1>3, <2>1, <2>2
  <2>4. 0 \in 0..n
    BY <1>2
  <2> QED BY <2>3, <2>4, Zenon
<1>6. ASSUME NEW k \in 0..n, k \in G, k < n PROVE k + 1 \in G
  <2>1. k + 1 \in 1..n /\ k + 1 \in 0..n /\ (k + 1) - 1 = k /\ f[k] \in Seq(S) /\ k \in Nat
    BY <1>2, <1>3, <1>6
  <2> DEFINE x == chain[k + 1]
             out == f[k]
  <2>2. f[k + 1] = KeepDir(out, x) /\ x \in S
    BY <1>2, <1>3, <2>1
  <2>3. \A i \in 1..(k + 1) : i \in 1..k \/ i = k + 1
    BY <2>1
  <2>4. k + 1 \in 1..(k + 1) /\ \A i \in 1..k : i \in 1..(k + 1) /\ i \in 1..n /\ i < k + 1
    BY <2>1
  <2>5. good(k)
    BY <1>6
  <2>6. CASE ~IsDir(files, <<x>>)
    <3>1. f[k + 1] = out
      BY <2>2, <2>6 DEF KeepDir
    <3>2. {j \in 1..(k + 1) : IsDir(files, <<chain[j]>>)} = {j \in 1..k : IsDir(files, <<chain[j]>>)}
      BY <2>3, <2>4, <2>6
    <3> QED BY <2>1, <2>5, <3>1, <3>2
  <2>7. CASE IsDir(files, <<x>>)
    <3>1. f[k + 1] = Append(out, x)
      BY <2>2, <2>7 DEF KeepDir
    <3>2. Range(Append(out, x)) = Range(out) \cup {x}
      <4> HIDE DEF x, out
      <4> QED BY <2>1, <2>2, AppendAddsOne DEF out
    <3>3. {j \in 1..(k + 1) : IsDir(files, <<chain[j]>>)}
             = {j \in 1..k : IsDir(files, <<chain[j]>>)} \cup {k + 1}
      BY <2>3, <2>4, <2>7
    <3>4. Range(f[k + 1]) = {chain[i] : i \in {j \in 1..(k + 1) : IsDir(files, <<chain[j]>>)}}
      BY <2>5, <3>1, <3>2, <3>3
    <3>5. \A y \in Range(out) : <<y, x>> \in Earlier
      <4> SUFFICES ASSUME NEW y \in Range(out) PROVE <<y, x>> \in Earlier
        OBVIOUS
      <4>1. PICK i \in 1..k : y = chain[i]
        BY <2>5
      <4>2. Dist(y) = i /\ Dist(x) = k + 1 /\ i < k + 1 /\ y \in S /\ x \in S
        BY <1>2, <1>4, <2>1, <2>4, <4>1
      <4> QED BY <1>4, <4>2 DEF Earlier
    <3>6. SortedBy(Append(out, x), Earlier)
      <4>1. out \in Seq(S) /\ SortedBy(out, Earlier) /\ x \in S
        BY <2>1, <2>2, <2>5
      <4> HIDE DEF x, out
      <4> QED BY <3>5, <4>1, AppendSorted
    <3> QED BY <2>1, <3>1, <3>4, <3>6
  <2> QED BY <2>6, <2>7
<1> HIDE DEF G
<1>7. n \in G
  <2>1. 0..n \subseteq G
    BY <1>2, <1>5, <1>6, Induction
  <2> QED BY <1>2, <2>1
<1>8. /\ roots \in Seq(S) /\ SortedBy(roots, Earlier)
      /\ Range(roots) = {d \in S : IsDir(files, <<d>>)}
  <2>1. good(n) /\ roots = f[n] /\ f[n] \in Seq(S)
    BY <1>1, <1>2, <1>3, <1>7 DEF G
  <2>2. S = {chain[i] : i \in 1..n}
    BY <1>2 DEF Range
  <2>3. Range(roots) = {d \in S : IsDir(files, <<d>>)}
    BY <2>1, <2>2
  <2> QED BY <2>1, <2>3
<1> HIDE DEF S
<1>9. roots \in Seq(Range(Order))
    BY <1>4, <1>8, SeqMonotonic
<1>10. CASE UserRoot \in Range(roots)
    BY <1>1, <1>4, <1>8, <1>9, <1>10
<1>11. CASE UserRoot \notin Range(roots) /\ ~IsDir(files, <<UserRoot>>)
    BY <1>1, <1>4, <1>8, <1>9, <1>11 DEF KeepDir
<1>12. CASE UserRoot \notin Range(roots) /\ IsDir(files, <<UserRoot>>)
  <2>1. ForkRoots(files, chain, UserRoot) = Append(roots, UserRoot) /\ UserRoot \notin S
    BY <1>1, <1>8, <1>12 DEF KeepDir
  <2>2. Append(roots, UserRoot) \in Seq(Range(Order)) /\ Range(Append(roots, UserRoot)) = Range(roots) \cup {UserRoot}
    BY <1>4, <1>9, AppendAddsOne
  <2>3. \A y \in Range(roots) : <<y, UserRoot>> \in Earlier
    <3> SUFFICES ASSUME NEW y \in Range(roots) PROVE <<y, UserRoot>> \in Earlier
      OBVIOUS
    <3>1. y \in S
      BY <1>8
    <3>2. PICK i \in 1..n : y = chain[i]
      BY <1>2, <3>1 DEF S, Range
    <3>3. Dist(y) < Dist(UserRoot)
      BY <1>4, <2>1, <3>2
    <3> QED BY <1>4, <3>1, <3>3 DEF Earlier
  <2>4. SortedBy(Append(roots, UserRoot), Earlier)
    BY <1>4, <1>8, <1>9, <2>3, AppendSorted
  <2>5. Range(Append(roots, UserRoot)) = {d \in Range(Order) : IsDir(files, <<d>>)}
    BY <1>4, <1>8, <1>12, <2>2
  <2> QED BY <2>1, <2>2, <2>4, <2>5
<1> QED BY <1>10, <1>11, <1>12

-----------------------------------------------------------------------------
\* Discovery.

All ==
    FlattenSeq([i \in DOMAIN ForkRoots(files, chain, UserRoot) |->
                  ScanForksDir(files, ForkRoots(files, chain, UserRoot)[i])])

\* The files that discovery looks at, and which of two it looks at first.
Candidates == {p \in Places : p[1] \in Range(Order) /\ IsFile(files, p) /\ NameAt(p) # None}

Nearer ==
    {r \in Entries \X Entries :
        \/ Dist(r[1].path[1]) < Dist(r[2].path[1])
        \/ Dist(r[1].path[1]) = Dist(r[2].path[1]) /\ Before(r[1].path, r[2].path)}

LEMMA NameAtMeans ==
    ASSUME NEW p \in Places
    PROVE  /\ NameAt(p) # None => NameAt(p) = NameOf(p)
           /\ \A root : Reach(<<root>>, p) <=> p[1] = root /\ IsFile(files, p) /\ NameAt(p) # None
<1> DEFINE n == Len(p)
           bad == \/ \E i \in 2..n : p[i] \in Hidden
                  \/ \E i \in 2..(n - 1) : FolderAt(p, i) /\ ~(InFolder(p) /\ i = n - 1)
                  \/ n - (IF InFolder(p) THEN 3 ELSE 2) > MaxNesting
<1>1. n \in Nat /\ n >= 2 /\ MaxNesting \in Nat
    BY PlaceFacts, ComponentFacts
<1>2. NameAt(p) = IF bad THEN None ELSE NameOf(p)
    BY Zenon DEF NameAt, FolderAt, InFolder, NameOf
<1>3. NameAt(p) # None => NameAt(p) = NameOf(p)
    BY <1>2
<1>4. ASSUME NEW root PROVE Reach(<<root>>, p) <=> p[1] = root /\ IsFile(files, p) /\ NameAt(p) # None
  <2>1. Len(<<root>>) = 1 /\ <<root>>[1] = root /\ 1..1 = {1} /\ 1 + 1 = 2
    OBVIOUS
  <2>2. Agrees(<<root>>, p) <=> p[1] = root
    <3>1. 1 < n
      BY <1>1
    <3> QED BY <2>1, <3>1 DEF Agrees
  <2>3. Reach(<<root>>, p) <=>
          /\ IsFile(files, p) /\ Agrees(<<root>>, p)
          /\ \A i \in 2..n : p[i] \notin Hidden
          /\ \A i \in 2..(n - 1) : FolderAt(p, i) => InFolder(p) /\ i = n - 1
          /\ n - (IF InFolder(p) THEN 3 ELSE 2) <= MaxNesting
          /\ NameOf(p) # None
    BY <2>1, Zenon DEF Reach
  <2>4. n - (IF InFolder(p) THEN 3 ELSE 2) <= MaxNesting
           <=> ~(n - (IF InFolder(p) THEN 3 ELSE 2) > MaxNesting)
    <3> HIDE DEF n
    <3> QED BY <1>1
  <2>5. Reach(<<root>>, p) <=> IsFile(files, p) /\ Agrees(<<root>>, p) /\ ~bad /\ NameOf(p) # None
    BY <2>3, <2>4, Zenon
  <2>6. NameAt(p) # None <=> ~bad /\ NameOf(p) # None
    BY <1>2, Zenon
  <2> QED BY <2>2, <2>5, <2>6, Zenon
<1> QED BY <1>3, <1>4

\* The files discovery looks at, in the order in which it does.
LEMMA AllIsRight ==
    ASSUME ChainOk
    PROVE  /\ All \in Seq(Entries)
           /\ Range(All) = {Entry(p) : p \in Candidates}
           /\ SortedBy(All, Nearer)
<1> DEFINE roots == ForkRoots(files, chain, UserRoot)
           lists == [i \in DOMAIN roots |-> ScanForksDir(files, roots[i])]
           n == Len(roots)
<1>1. /\ roots \in Seq(Range(Order)) /\ SortedBy(roots, Earlier)
      /\ Range(roots) = {d \in Range(Order) : IsDir(files, <<d>>)}
    BY RootsAreRight
<1>2. All = FlattenSeq(lists)
    BY DEF All
<1> HIDE DEF roots
<1>3. n \in Nat /\ DOMAIN roots = 1..n /\ \A i \in 1..n : roots[i] \in Range(Order)
    BY <1>1
<1>4. \A i \in 1..n : /\ lists[i] \in Seq(Entries) /\ Lists(lists[i], <<roots[i]>>)
    BY <1>3, ScanIsRight
<1>5. lists \in Seq(Seq(Entries)) /\ Len(lists) = n
  <2>1. lists \in [1..n -> Seq(Entries)]
    BY <1>3, <1>4
  <2> HIDE DEF lists, n
  <2>2. lists \in Seq(Seq(Entries)) /\ DOMAIN lists = 1..n
    BY <1>3, <2>1
  <2> QED BY <1>3, <2>2
<1> HIDE DEF lists, n
<1>6. ASSUME NEW i \in 1..n, NEW x \in Range(lists[i])
      PROVE  /\ x \in Entries
             /\ \E p \in Places : x = Entry(p) /\ p[1] = roots[i] /\ IsFile(files, p) /\ NameAt(p) # None
             /\ x.path[1] = roots[i]
  <2>1. PICK p \in Places : x = Entry(p) /\ Reach(<<roots[i]>>, p)
    BY <1>4 DEF Lists
  <2>2. p[1] = roots[i] /\ IsFile(files, p) /\ NameAt(p) # None
    BY <2>1, NameAtMeans
  <2>3. x \in Entries
    <3>1. \A s \in Seq(Entries) : \A z \in Range(s) : z \in Entries
      BY DEF Range
    <3> QED BY <1>4, <3>1
  <2>4. x.path = p
    BY <2>1 DEF Entry
  <2> QED BY <2>1, <2>2, <2>3, <2>4
<1>7. ASSUME NEW i \in 1..n PROVE SortedBy(lists[i], Nearer)
  <2> SUFFICES ASSUME NEW k \in DOMAIN lists[i], NEW m \in DOMAIN lists[i], k < m
               PROVE  <<lists[i][k], lists[i][m]>> \in Nearer
    BY DEF SortedBy
  <2> DEFINE x == lists[i][k]
             y == lists[i][m]
  <2>1. <<x, y>> \in InOrder
    BY <1>4 DEF Lists, SortedBy
  <2>2. x \in Range(lists[i]) /\ y \in Range(lists[i])
    BY DEF Range
  <2>3. x \in Entries /\ y \in Entries /\ x.path[1] = roots[i] /\ y.path[1] = roots[i]
    BY <1>6, <2>2
  <2> HIDE DEF x, y
  <2>4. <<x, y>> \in Nearer
    BY <2>1, <2>3 DEF InOrder, Nearer
  <2> QED BY <2>4 DEF x, y
<1>8. ASSUME NEW i \in 1..n, NEW j \in 1..n, i < j, NEW x \in Range(lists[i]), NEW y \in Range(lists[j])
      PROVE  <<x, y>> \in Nearer
  <2>1. x \in Entries /\ y \in Entries /\ x.path[1] = roots[i] /\ y.path[1] = roots[j]
    BY <1>6
  <2>2. <<roots[i], roots[j]>> \in Earlier
    BY <1>1, <1>3, <1>8 DEF SortedBy
  <2>3. Dist(roots[i]) < Dist(roots[j])
    BY <2>2 DEF Earlier
  <2> QED BY <2>1, <2>3 DEF Nearer
<1>9. FlattenSeq(lists) \in Seq(Entries) /\ SortedBy(FlattenSeq(lists), Nearer)
    BY <1>5, <1>7, <1>8, FlattenKeeps
<1>10. Range(FlattenSeq(lists)) = UNION {Range(lists[k]) : k \in 1..n}
    BY <1>5, FlattenKeeps
<1>11. ASSUME NEW x \in Range(FlattenSeq(lists)) PROVE \E p \in Candidates : x = Entry(p)
  <2>1. PICK i \in 1..n : x \in Range(lists[i])
    BY <1>10
  <2>2. PICK p \in Places : x = Entry(p) /\ p[1] = roots[i] /\ IsFile(files, p) /\ NameAt(p) # None
    BY <1>6, <2>1
  <2> QED BY <1>3, <2>2 DEF Candidates
<1>12. ASSUME NEW p \in Candidates PROVE Entry(p) \in Range(FlattenSeq(lists))
  <2>1. p \in Places /\ p[1] \in Range(Order) /\ IsFile(files, p) /\ NameAt(p) # None
    BY DEF Candidates
  <2>2. Reach(<<p[1]>>, p)
    BY <2>1, NameAtMeans
  <2>3. IsDir(files, <<p[1]>>)
    <3>1. <<p[1]>> \in Paths(p[1])
      BY DEF Paths
    <3> QED BY <2>1, <2>2, <3>1, IsDirMeans DEF Reach, Agrees
  <2>4. PICK i \in 1..n : roots[i] = p[1]
    BY <1>1, <1>3, <2>1, <2>3 DEF Range
  <2>5. Entry(p) \in Range(lists[i])
    BY <1>4, <2>1, <2>2, <2>4 DEF Lists
  <2> QED BY <1>10, <2>5
<1>13. Range(FlattenSeq(lists)) = {Entry(p) : p \in Candidates}
    BY <1>11, <1>12
<1> QED BY <1>2, <1>9, <1>13

IsFork(e) == ParseAt(files, e.name, e.path).kind = "fork"

\* insert_entry is folded over the files.
LEMMA VisibleFolds ==
    ASSUME ChainOk
    PROVE  LET n == Len(All)
               A == Seq(Entries) IN
           \E f : /\ Folded(f, n, A, <<>>, [k \in 1..n |-> [out \in A |-> InsertEntry(files, out, All[k])]])
                  /\ Visible = Range(f[n])
<1> DEFINE n == Len(All)
           A == Seq(Entries)
           step == [k \in 1..n |-> [out \in A |-> InsertEntry(files, out, All[k])]]
           D == SUBSET (1..n)
           body(g) == [t \in D |-> IF t = {} THEN <<>> ELSE InsertEntry(files, g[t \ {Max(t)}], All[Max(t)])]
           it == CHOOSE g : g = body(g)
<1>0. All \in Seq(Entries)
    BY AllIsRight
<1>1. n \in Nat /\ DOMAIN All = 1..n /\ <<>> \in A /\ \A k \in 1..n : All[k] \in Entries
    BY <1>0
<1>2. step \in [1..n -> [A -> A]]
  <2> SUFFICES ASSUME NEW k \in 1..n, NEW out \in A PROVE InsertEntry(files, out, All[k]) \in A
    OBVIOUS
  <2> QED BY <1>1 DEF InsertEntry
<1>3. \A t \in D : t # {} => Max(t) \in 1..n /\ t \ {Max(t)} \in D
    BY <1>1, MaxOfIndices
<1>4. \A out \in A : \A k \in 1..n : step[k][out] = InsertEntry(files, out, All[k])
    OBVIOUS
<1> HIDE DEF n, A, step
<1>5a. PICK g : SolvesFold(g, n, A, <<>>, step)
    BY <1>1, <1>2, FoldExists, Zenon
<1>5. g \in [D -> A] /\ \A t \in D : g[t] = IF t = {} THEN <<>> ELSE step[Max(t)][g[t \ {Max(t)}]]
    BY <1>5a DEF SolvesFold
<1>6. g = body(g)
  <2>1. ASSUME NEW t \in D PROVE g[t] = body(g)[t]
    <3>1. CASE t = {}
      BY <1>5, <3>1
    <3>2. CASE t # {}
      <4>1. Max(t) \in 1..n /\ g[t \ {Max(t)}] \in A
        BY <1>3, <1>5, <3>2
      <4> QED BY <1>4, <1>5, <3>2, <4>1
    <3> QED BY <3>1, <3>2
  <2> HIDE DEF D
  <2> QED BY <1>5, <2>1
<1>7. it = body(it)
    BY <1>6, Zenon
<1>8. Visible = Range(it[1..n])
  <2> DEFINE fold == FoldLeft(LAMBDA entries, file : InsertEntry(files, entries, file), <<>>, All)
  <2>1. fold = it[1..n]
    BY <1>1, Zenon DEF FoldLeft, MapThenFoldSet
  <2>2. Visible = Range(fold)
    BY Zenon DEF Visible, DiscoverForks, All, Range
  <2> HIDE DEF fold, it
  <2> QED BY <2>1, <2>2, Zenon
<1> HIDE DEF it
<1>9. it[{}] = <<>> /\ \A t \in D : t # {} => it[t] = InsertEntry(files, it[t \ {Max(t)}], All[Max(t)])
    BY <1>7
<1>10. \A t \in D : t # {} /\ it[t \ {Max(t)}] \in A => it[t] = step[Max(t)][it[t \ {Max(t)}]]
    BY <1>3, <1>4, <1>9
<1>10a. FollowsFold(it, n, A, <<>>, step)
    BY <1>9, <1>10 DEF FollowsFold
<1>11. PICK f : Folded(f, n, A, <<>>, step) /\ f[n] = it[1..n]
    BY <1>1, <1>2, <1>10a, FoldSteps
<1> QED BY <1>8, <1>11 DEF n, A, step

\* The first fork of its name among the files.
First(i) ==
    /\ IsFork(All[i])
    /\ \A j \in 1..(i - 1) : IsFork(All[j]) => All[j].name # All[i].name

LEMMA VisibleAreFirst ==
    ASSUME ChainOk
    PROVE  Visible = {All[i] : i \in {j \in 1..Len(All) : First(j)}}
<1> DEFINE n == Len(All)
           A == Seq(Entries)
           step == [k \in 1..n |-> [out \in A |-> InsertEntry(files, out, All[k])]]
<1>1. PICK f : Folded(f, n, A, <<>>, step) /\ Visible = Range(f[n])
    BY VisibleFolds, Zenon
<1>2. n \in Nat /\ DOMAIN All = 1..n /\ \A i \in 1..n : All[i] \in Entries
    BY AllIsRight
<1>3. f \in [0..n -> A] /\ f[0] = <<>> /\ \A k \in 1..n : f[k] = step[k][f[k - 1]]
    BY <1>1 DEF Folded
<1> DEFINE good(k) == /\ Range(f[k]) = {All[i] : i \in {j \in 1..k : First(j)}}
                      /\ \A j \in 1..k : IsFork(All[j]) => \E y \in Range(f[k]) : y.name = All[j].name
           G == {k \in 0..n : good(k)}
<1>4. 0 \in G
  <2>1. Range(<<>>) = {}
    BY DEF Range
  <2>2. {j \in 1..0 : First(j)} = {} /\ 1..0 = {}
    OBVIOUS
  <2>3. good(0)
    BY <1>3, <2>1, <2>2
  <2>4. 0 \in 0..n
    BY <1>2
  <2> QED BY <2>3, <2>4, Zenon
<1>5. ASSUME NEW k \in 0..n, k \in G, k < n PROVE k + 1 \in G
  <2>1. k + 1 \in 1..n /\ k + 1 \in 0..n /\ (k + 1) - 1 = k /\ f[k] \in A /\ k \in Nat
    BY <1>2, <1>3, <1>5
  <2> DEFINE x == All[k + 1]
             out == f[k]
  <2>2. f[k + 1] = InsertEntry(files, out, x) /\ x \in Entries
    BY <1>2, <1>3, <2>1
  <2>3. \A i \in 1..(k + 1) : i \in 1..k \/ i = k + 1
    BY <2>1
  <2>4. k + 1 \in 1..(k + 1) /\ \A i \in 1..k : i \in 1..(k + 1)
    BY <2>1
  <2>5. good(k)
    BY <1>5
  <2>6. (\E i \in DOMAIN out : out[i].name = x.name) <=> (\E y \in Range(out) : y.name = x.name)
    BY DEF Range
  <2>7. First(k + 1) <=> IsFork(x) /\ ~\E j \in 1..k : IsFork(All[j]) /\ All[j].name = x.name
    BY <2>1 DEF First
  <2>8. \A y \in Range(out) : \E j \in 1..k : y = All[j] /\ IsFork(All[j])
    BY <2>5 DEF First
  <2>9. First(k + 1) <=> IsFork(x) /\ ~\E y \in Range(out) : y.name = x.name
    BY <2>5, <2>7, <2>8
  <2>10. CASE ~First(k + 1)
    <3>1. f[k + 1] = out
      BY <2>2, <2>6, <2>9, <2>10 DEF InsertEntry, IsFork
    <3>2. {j \in 1..(k + 1) : First(j)} = {j \in 1..k : First(j)}
      BY <2>3, <2>4, <2>10
    <3>3. Range(f[k + 1]) = {All[i] : i \in {j \in 1..(k + 1) : First(j)}}
      BY <2>5, <3>1, <3>2
    <3>4. ASSUME NEW j \in 1..(k + 1), IsFork(All[j])
          PROVE  \E y \in Range(f[k + 1]) : y.name = All[j].name
      BY <2>3, <2>5, <2>9, <2>10, <3>1, <3>4
    <3> QED BY <2>1, <3>3, <3>4, Zenon
  <2>11. CASE First(k + 1)
    <3>1. f[k + 1] = Append(out, x)
      BY <2>2, <2>6, <2>9, <2>11 DEF InsertEntry, IsFork
    <3>2. Range(f[k + 1]) = Range(out) \cup {x}
      <4>1. out \in Seq(Entries)
        BY <2>1
      <4> HIDE DEF x, out
      <4> QED BY <2>2, <3>1, <4>1, AppendAddsOne
    <3>3. {j \in 1..(k + 1) : First(j)} = {j \in 1..k : First(j)} \cup {k + 1}
      BY <2>3, <2>4, <2>11
    <3>4. Range(f[k + 1]) = {All[i] : i \in {j \in 1..(k + 1) : First(j)}}
      BY <2>5, <3>2, <3>3
    <3>5. ASSUME NEW j \in 1..(k + 1), IsFork(All[j])
          PROVE  \E y \in Range(f[k + 1]) : y.name = All[j].name
      BY <2>3, <2>5, <3>2, <3>5
    <3> QED BY <2>1, <3>4, <3>5, Zenon
  <2> QED BY <2>10, <2>11
<1> HIDE DEF G
<1>6. n \in G
  <2>1. 0..n \subseteq G
    BY <1>2, <1>4, <1>5, Induction
  <2> QED BY <1>2, <2>1
<1>7. good(n)
    BY <1>6 DEF G
<1> QED BY <1>1, <1>7

Forks == {p \in Candidates : IsFork(Entry(p))}
Closer(q, r) ==
    \/ Dist(q[1]) < Dist(r[1])
    \/ Dist(q[1]) = Dist(r[1]) /\ Before(q, r)

LEMMA CloserIsStrict ==
    ASSUME ChainOk, NEW q \in Candidates, NEW r \in Candidates, Closer(q, r), Closer(r, q)
    PROVE  FALSE
<1>1. q \in Places /\ r \in Places /\ Dist(q[1]) \in Int /\ Dist(r[1]) \in Int
    BY OrderFacts DEF Candidates
<1>2. Before(q, r) /\ Before(r, q)
    BY <1>1 DEF Closer
<1> QED BY <1>1, <1>2, BeforeIsStrict

\* discover_forks keeps the promise, in whatever state the files are.
LEMMA DiscoveryIsRight ==
    ASSUME ChainOk
    PROVE  NearestForkWins
<1> DEFINE wins(q) == \A r \in Forks \ {q} : NameAt(r) = NameAt(q) => Closer(q, r)
           n == Len(All)
<1>1. /\ n \in Nat /\ DOMAIN All = 1..n /\ SortedBy(All, Nearer)
      /\ Range(All) = {Entry(p) : p \in Candidates}
    BY AllIsRight
<1>2. ASSUME NEW p \in Candidates
      PROVE  NameAt(p) = NameOf(p) /\ Entry(p) = [name |-> NameAt(p), path |-> p]
    BY NameAtMeans DEF Candidates, Entry
<1>3. \A p \in Candidates : Entry(p).name = NameAt(p) /\ Entry(p).path = p
    BY <1>2
<1>4. \A p \in Candidates : \E i \in 1..n : All[i] = Entry(p)
    BY <1>1 DEF Range
<1>5. \A i \in 1..n : \E p \in Candidates : All[i] = Entry(p)
    BY <1>1 DEF Range
<1>6. ASSUME NEW i \in 1..n, NEW j \in 1..n, i < j, NEW p \in Candidates, NEW q \in Candidates,
             All[i] = Entry(p), All[j] = Entry(q)
      PROVE  Closer(p, q)
  <2>1. <<Entry(p), Entry(q)>> \in Nearer
    BY <1>1, <1>6 DEF SortedBy
  <2>2. \/ Dist(Entry(p).path[1]) < Dist(Entry(q).path[1])
        \/ /\ Dist(Entry(p).path[1]) = Dist(Entry(q).path[1])
           /\ Before(Entry(p).path, Entry(q).path)
    BY <2>1 DEF Nearer
  <2>3. Entry(p).path = p /\ Entry(q).path = q
    BY <1>3
  <2> QED BY <2>2, <2>3, Zenon DEF Closer
<1>7. ASSUME NEW i \in 1..n, First(i) PROVE \E p \in Forks : wins(p) /\ All[i] = Entry(p)
  <2>1. PICK p \in Candidates : All[i] = Entry(p)
    BY <1>5
  <2>2. p \in Forks
    BY <1>7, <2>1 DEF First, Forks
  <2>3. ASSUME NEW r \in Forks \ {p}, NameAt(r) = NameAt(p) PROVE Closer(p, r)
    <3>1. r \in Candidates /\ IsFork(Entry(r))
      BY DEF Forks
    <3>2. PICK j \in 1..n : All[j] = Entry(r)
      BY <1>4, <3>1
    <3>3. i # j
      <4>1. Entry(r) # Entry(p)
        BY <1>3, <3>1
      <4> QED BY <2>1, <3>2, <4>1
    <3>4. ~(j < i)
      <4> SUFFICES ASSUME j < i PROVE FALSE
        OBVIOUS
      <4>1. j \in 1..(i - 1)
        BY <1>1
      <4>2. All[j].name = All[i].name
        BY <1>3, <2>1, <2>3, <3>1, <3>2
      <4> QED BY <1>7, <3>1, <3>2, <4>1, <4>2 DEF First
    <3>5. i < j
      BY <1>1, <3>3, <3>4
    <3> QED BY <1>6, <2>1, <3>1, <3>2, <3>5
  <2> QED BY <2>1, <2>2, <2>3
<1>8. ASSUME NEW q \in Forks, wins(q) PROVE \E i \in 1..n : First(i) /\ All[i] = Entry(q)
  <2>1. q \in Candidates /\ IsFork(Entry(q))
    BY DEF Forks
  <2>2. PICK i \in 1..n : All[i] = Entry(q)
    BY <1>4, <2>1
  <2>3. ASSUME NEW j \in 1..(i - 1), IsFork(All[j]), All[j].name = All[i].name PROVE FALSE
    <3>1. j \in 1..n /\ j < i
      BY <1>1
    <3>2. PICK r \in Candidates : All[j] = Entry(r)
      BY <1>5, <3>1
    <3>3. Closer(r, q)
      BY <1>6, <2>1, <2>2, <3>1, <3>2
    <3>4. r # q => Closer(q, r)
      <4>1. r \in Forks /\ NameAt(r) = NameAt(q)
        BY <1>3, <2>1, <2>2, <2>3, <3>2 DEF Forks
      <4> QED BY <1>8, <4>1
    <3> QED BY <2>1, <3>2, <3>3, <3>4, CloserIsStrict
  <2>4. First(i)
    BY <2>1, <2>2, <2>3 DEF First
  <2> QED BY <2>2, <2>4
<1>9. Visible = {All[i] : i \in {j \in 1..n : First(j)}}
    BY VisibleAreFirst
<1> HIDE DEF n
<1>10. Visible = {Entry(p) : p \in {q \in Forks : wins(q)}}
  <2>1. \A x \in Visible : \E p \in Forks : wins(p) /\ x = Entry(p)
    BY <1>7, <1>9
  <2>2. \A q \in Forks : wins(q) => Entry(q) \in Visible
    BY <1>8, <1>9
  <2> HIDE DEF wins
  <2> QED BY <2>1, <2>2
<1>11. Visible = {[name |-> NameAt(p), path |-> p] : p \in {q \in Forks : wins(q)}}
  <2>1. \A p \in Forks : Entry(p) = [name |-> NameAt(p), path |-> p]
    BY <1>2 DEF Forks
  <2> HIDE DEF wins
  <2> QED BY <1>10, <2>1
<1> DEFINE forks == {p \in Places : /\ p[1] \in Range(Order)
                                    /\ IsFile(files, p)
                                    /\ NameAt(p) # None
                                    /\ ParseAt(files, NameAt(p), p).kind = "fork"}
<1>12. forks = Forks
    BY <1>3 DEF Forks, Candidates, IsFork
<1>13. NearestForkWins <=>
          Visible = {[name |-> NameAt(p), path |-> p] :
                       p \in {q \in forks : \A r \in forks \ {q} : NameAt(r) = NameAt(q) => Closer(q, r)}}
    BY Zenon DEF NearestForkWins, Order, Dist, Closer
<1> HIDE DEF forks
<1> QED BY <1>11, <1>12, <1>13, Zenon

-----------------------------------------------------------------------------
\* The session stays the one it is.
SessionInv == \E s \in Sessions : chain = s.chain /\ env = s.env

LEMMA SessionKept == Spec => []SessionInv
<1>1. Init => SessionInv
    BY DEF Init, SessionInv
<1>2. SessionInv /\ [Next]_vars => SessionInv'
  <2> SUFFICES ASSUME SessionInv, [Next]_vars PROVE SessionInv'
    OBVIOUS
  <2>1. chain' = chain /\ env' = env
    BY DEF Next, vars, Edit, Park, Evaluate, ReadEntry, Evaluated, Answer, Close
  <2> QED BY <2>1 DEF SessionInv
<1> QED BY <1>1, <1>2, PTL DEF Spec

LEMMA SessionChain == SessionInv => ChainOk
    BY SetupAssumption DEF SessionInv, ChainOk, Distinct

\* Discovery is what its rules promise, for any tree of files, however deep, and
\* any chain of directories (discover_forks).
THEOREM DiscoveryKeepsItsRules == Spec => []NearestForkWins
<1>1. SessionInv => NearestForkWins
    BY SessionChain, DiscoveryIsRight
<1> QED BY <1>1, SessionKept, PTL

-----------------------------------------------------------------------------
\* What discovery finds are forks, well formed.

FilesInv ==
    /\ files \in [Places -> Contents \cup {Absent}]
    /\ layers \in [Dirs -> Layers \cup {Absent}]

LEMMA FilesKept == Spec => []FilesInv
<1>1. Init => FilesInv
    BY DEF Init, FilesInv
<1>2. FilesInv /\ [Next]_vars => FilesInv'
  <2> SUFFICES ASSUME FilesInv, [Next]_vars PROVE FilesInv'
    OBVIOUS
  <2>1. CASE Edit
    <3>1. CASE \E p \in Places, content \in Contents \cup {Absent} : EditFile(p, content)
      BY <3>1 DEF FilesInv, EditFile
    <3>2. CASE \E d \in Dirs, layer \in Layers \cup {Absent} : EditConfig(d, layer)
      BY <3>2 DEF FilesInv, EditConfig
    <3> QED BY <2>1, <3>1, <3>2 DEF Edit
  <2>2. CASE ~Edit
    <3>1. UNCHANGED <<files, layers>>
      BY <2>2 DEF Next, vars, Park, Evaluate, ReadEntry, Evaluated, Answer, Close
    <3> QED BY <3>1 DEF FilesInv
  <2> QED BY <2>1, <2>2
<1> QED BY <1>1, <1>2, PTL DEF Spec

\* A visible fork is a file on disk, a fork, and the only one of its name.
LEMMA VisibleFacts ==
    ASSUME ChainOk, FilesInv, NEW e \in Visible
    PROVE  /\ e \in Entries /\ e = [name |-> e.name, path |-> e.path]
           /\ IsFile(files, e.path) /\ files[e.path] # Absent /\ e.path \in Places
           /\ IsFork(e) /\ IsRaw(Raw(files[e.path]))
           /\ \A d \in Visible : d.name = e.name => d = e
<1> DEFINE n == Len(All)
<1>1. /\ n \in Nat /\ DOMAIN All = 1..n /\ All \in Seq(Entries)
      /\ Range(All) = {Entry(p) : p \in Candidates}
    BY AllIsRight
<1>2. Visible = {All[i] : i \in {j \in 1..n : First(j)}}
    BY VisibleAreFirst
<1> HIDE DEF n
<1>3. PICK i \in 1..n : First(i) /\ e = All[i]
    BY <1>2
<1>4. e \in Entries
    BY <1>1, <1>3 DEF n
<1>5. PICK p \in Candidates : e = Entry(p)
    BY <1>1, <1>3 DEF Range
<1>6. e.path = p /\ p \in Places /\ IsFile(files, p)
    BY <1>5 DEF Entry, Candidates
<1>7. files[p] \in Contents
    BY <1>6 DEF FilesInv, IsFile
<1>8. IsRaw(Raw(files[p]))
    BY <1>7, SetupAssumption
<1>9. ASSUME NEW d \in Visible, d.name = e.name PROVE d = e
  <2>1. PICK j \in 1..n : First(j) /\ d = All[j]
    BY <1>2
  <2>2. ~(i < j)
    <3> SUFFICES ASSUME i < j PROVE FALSE
      OBVIOUS
    <3>1. i \in 1..(j - 1)
      BY <1>1
    <3> QED BY <1>3, <1>9, <2>1, <3>1 DEF First
  <2>3. ~(j < i)
    <3> SUFFICES ASSUME j < i PROVE FALSE
      OBVIOUS
    <3>1. j \in 1..(i - 1)
      BY <1>1
    <3> QED BY <1>3, <1>9, <2>1, <3>1 DEF First
  <2>4. i = j
    BY <1>1, <2>2, <2>3
  <2> QED BY <1>3, <2>1, <2>4
<1>10. e = [name |-> e.name, path |-> e.path]
    BY <1>4 DEF Entries
<1>11. IsFork(e)
    BY <1>3 DEF First
<1> QED BY <1>4, <1>6, <1>7, <1>8, <1>9, <1>10, <1>11 DEF IsFile

\* What parse_fork_file makes of a fork.
LEMMA ForkDef ==
    ASSUME NEW name, NEW raw, ParseForkFile(name, raw).kind = "fork"
    PROVE  /\ Deserializes(raw)
           /\ ParseForkFile(name, raw).def =
                 [run_on |-> ParseRunOn(raw.run_on),
                  throttle |-> Throttle(raw),
                  after |-> ParseAfter(raw.after, name),
                  overlap |-> raw.overlap = Bool(TRUE),
                  tags |-> ParseTags(raw.tags)]
<1>1. HasFrontmatter(raw)
  <2> SUFFICES ASSUME ~HasFrontmatter(raw) PROVE FALSE
    OBVIOUS
  <2>1. ParseForkFile(name, raw) = [kind |-> "not_fork", fork_like |-> FALSE]
    BY DEF ParseForkFile
  <2> QED BY <2>1
<1>2. Deserializes(raw)
  <2> SUFFICES ASSUME ~Deserializes(raw) PROVE FALSE
    OBVIOUS
  <2>1. ParseForkFile(name, raw) = [kind |-> "invalid"]
    BY <1>1 DEF ParseForkFile
  <2> QED BY <2>1
<1>3. IsMarked(raw)
  <2> SUFFICES ASSUME ~IsMarked(raw) PROVE FALSE
    OBVIOUS
  <2>1. ParseForkFile(name, raw) =
           [kind |-> "not_fork", fork_like |-> raw.fork # Bool(FALSE) /\ HasForkLikeKeys(raw)]
    BY <1>1, <1>2 DEF ParseForkFile
  <2> QED BY <2>1
<1> DEFINE def == [run_on |-> ParseRunOn(raw.run_on),
                   throttle |-> Throttle(raw),
                   after |-> ParseAfter(raw.after, name),
                   overlap |-> raw.overlap = Bool(TRUE),
                   tags |-> ParseTags(raw.tags)]
<1>4. ParseForkFile(name, raw) = [kind |-> "fork", def |-> def, warnings |-> Warnings(raw, name)]
    BY <1>1, <1>2, <1>3 DEF ParseForkFile
<1> HIDE DEF def
<1>5. ParseForkFile(name, raw).def = def
    BY <1>4
<1> QED BY <1>2, <1>5 DEF def

LEMMA ListIsSeq ==
    ASSUME NEW s, IsList(s)
    PROVE  s \in Seq(Range(s))
<1>1. Len(s) \in Nat /\ s = [i \in 1..Len(s) |-> s[i]]
    BY DEF IsList
<1> DEFINE n == Len(s)
<1>2. n \in Nat /\ s = [i \in 1..n |-> s[i]]
    BY <1>1
<1> HIDE DEF n
<1>3. DOMAIN s = 1..n
    BY <1>2
<1>4. s \in [1..n -> Range(s)]
    BY <1>2, <1>3 DEF Range
<1> QED BY <1>2, <1>4

\* A list without repetitions has as many values as entries.
LEMMA DistinctCardinality ==
    ASSUME NEW S, NEW s \in Seq(S), Distinct(s)
    PROVE  Cardinality(Range(s)) = Len(s)
<1> DEFINE n == Len(s)
           T == Range(s)
<1>1. n \in Nat /\ DOMAIN s = 1..n /\ s \in [1..n -> T]
    BY DEF Range
<1>2. s \in Bijection(1..n, T)
  <2>1. \A i, j \in 1..n : s[i] = s[j] => i = j
    BY <1>1 DEF Distinct
  <2>2. \A t \in T : \E i \in 1..n : s[i] = t
    BY <1>1 DEF Range
  <2> HIDE DEF n, T
  <2> QED BY <1>1, <2>1, <2>2 DEF Bijection, Injection, IsInjective, Surjection
<1>3. ExistsBijection(1..n, T)
    BY <1>2 DEF ExistsBijection
<1>4. IsFiniteSet(1..n) /\ Cardinality(1..n) = n
  <2>1. 1 \in Int /\ n \in Int
    BY <1>1
  <2>2. IsFiniteSet(1..n) /\ Cardinality(1..n) = IF 1 > n THEN 0 ELSE n - 1 + 1
    BY <2>1, FS_Interval
  <2> HIDE DEF n
  <2> QED BY <1>1, <2>2
<1> HIDE DEF n, T
<1>5. Cardinality(T) = n
    BY <1>3, <1>4, FS_Bijection
<1> QED BY <1>5 DEF n, T

\* parse_after and parse_tags: no value twice, and no fork after itself.
LEMMA AfterIsSound ==
    ASSUME NEW raw, IsRaw(raw), NEW name
    PROVE  /\ name \notin Range(ParseAfter(raw.after, name))
           /\ Cardinality(Range(ParseAfter(raw.after, name))) = Len(ParseAfter(raw.after, name))
<1> DEFINE v == raw.after
<1>0. raw["after"].k = "list" => IsList(raw["after"].v)
    BY Zenon DEF IsRaw
<1>1. AfterEntries(v) \in Seq(Range(AfterEntries(v)))
  <2>1. CASE v.k = "list"
    <3>1. AfterEntries(v) = v.v /\ IsList(v.v)
      BY <1>0, <2>1 DEF AfterEntries
    <3> QED BY <3>1, ListIsSeq
  <2>2. CASE v.k # "list"
    BY <2>2 DEF AfterEntries, Range
  <2> QED BY <2>1, <2>2
<1> HIDE DEF v
<1>2. ParsedAfter(v) \in Seq(Range(ParsedAfter(v)))
  <2> DEFINE s == AfterEntries(v)
             n == Len(s)
  <2>1. n \in Nat /\ DOMAIN s = 1..n
    BY <1>1
  <2>2. ParsedAfter(v) = [i \in DOMAIN s |-> ParseAfterEntry(s[i])]
    BY DEF ParsedAfter
  <2> HIDE DEF s, n
  <2>3. DOMAIN ParsedAfter(v) = 1..n
    BY <2>1, <2>2
  <2>4. ParsedAfter(v) \in [1..n -> Range(ParsedAfter(v))]
    BY <2>1, <2>2, <2>3 DEF Range
  <2> QED BY <2>1, <2>4
<1>3. CASE v.k = "unset"
  <2>1. ParseAfter(v, name) = <<>>
    BY <1>3 DEF ParseAfter
  <2>2. Range(<<>>) = {}
    BY DEF Range
  <2> QED BY <2>1, <2>2, FS_EmptySet DEF v
<1>4. CASE v.k # "unset"
  <2> DEFINE s == DistinctBut(name, ParsedAfter(v))
  <2>1. ParseAfter(v, name) = s
    BY <1>4 DEF ParseAfter
  <2>2. /\ s \in Seq(Range(ParsedAfter(v))) /\ Distinct(s)
        /\ Range(s) = Range(ParsedAfter(v)) \ {None, name}
    BY <1>2, DistinctButKeeps
  <2> HIDE DEF s
  <2>3. Cardinality(Range(s)) = Len(s)
    BY <2>2, DistinctCardinality
  <2> QED BY <2>1, <2>2, <2>3 DEF v
<1> QED BY <1>3, <1>4

LEMMA PiecesAreList ==
    ASSUME NEW raw, IsRaw(raw)
    PROVE  \E S : Pieces(raw.tags) \in Seq(S)
<1> DEFINE v == raw.tags
<1>0. /\ raw["tags"].k = "list" => IsList(raw["tags"].v)
      /\ v.k = "str" => IsList(v.v)
      /\ v.k = "list" => \A i \in {j \in DOMAIN v.v : v.v[j].k = "str"} : IsList(v.v[i].v)
    BY Zenon DEF IsRaw
<1>1. CASE v.k = "str"
  <2>1. Pieces(v) = v.v /\ v.v \in Seq(Range(v.v))
    BY <1>0, <1>1, ListIsSeq DEF Pieces
  <2> QED BY <2>1
<1>2. CASE v.k = "list"
  <2> DEFINE list == v.v
             n == Len(list)
             piece(i) == IF list[i].k = "str" THEN list[i].v ELSE <<>>
             pieces == [i \in DOMAIN list |-> piece(i)]
             S == UNION {Range(piece(i)) : i \in DOMAIN list}
  <2>1. list \in Seq(Range(list))
    BY <1>0, <1>2, ListIsSeq
  <2>2. n \in Nat /\ DOMAIN list = 1..n
    BY <2>1
  <2>3. Pieces(v) = FlattenSeq(pieces)
    BY <1>2 DEF Pieces
  <2>4. ASSUME NEW i \in DOMAIN list PROVE piece(i) \in Seq(S)
    <3>1. CASE list[i].k = "str"
      <4>1. piece(i) \in Seq(Range(piece(i)))
        BY <1>0, <1>2, <3>1, ListIsSeq
      <4>2. Range(piece(i)) \subseteq S
        OBVIOUS
      <4> HIDE DEF piece, S
      <4> QED BY <4>1, <4>2, SeqMonotonic
    <3>2. CASE list[i].k # "str"
      BY <3>2
    <3> QED BY <3>1, <3>2
  <2> HIDE DEF list, n, S
  <2>5. pieces \in Seq(Seq(S))
    <3>1. pieces \in [1..n -> Seq(S)]
      BY <2>2, <2>4
    <3> HIDE DEF pieces
    <3> QED BY <2>2, <3>1
  <2> HIDE DEF pieces
  <2>6. FlattenSeq(pieces) \in Seq(S)
    BY <2>5, FlattenKeeps
  <2> QED BY <2>3, <2>6
<1>3. CASE v.k \notin {"str", "list"}
  <2>1. Pieces(v) = <<>> /\ <<>> \in Seq({})
    BY <1>3 DEF Pieces
  <2> QED BY <2>1
<1> QED BY <1>1, <1>2, <1>3

LEMMA TagsAreDistinct ==
    ASSUME NEW raw, IsRaw(raw)
    PROVE  Cardinality(Range(ParseTags(raw.tags))) = Len(ParseTags(raw.tags))
<1>1. PICK S : Pieces(raw.tags) \in Seq(S)
    BY PiecesAreList
<1>2. ParseTags(raw.tags) \in Seq(S) /\ Distinct(ParseTags(raw.tags))
    BY <1>1, DistinctButKeeps DEF ParseTags
<1> QED BY <1>2, DistinctCardinality

\* The definitions that the planner works with are sound, however the fork files
\* are written (parse_fork_file).
THEOREM ForksAreWellFormed == Spec => []WellFormedForks
<1>1. ASSUME SessionInv, FilesInv PROVE WellFormedForks
  <2>0. ChainOk
    BY <1>1, SessionChain
  <2> SUFFICES ASSUME NEW e \in Visible
               PROVE  LET def == ParseAt(files, e.name, e.path).def
                          distinct(s) == Cardinality(Range(s)) = Len(s)
                      IN  /\ def.run_on # <<>>
                          /\ def.throttle # None => def.throttle > 0
                          /\ e.name \notin Range(def.after)
                          /\ distinct(def.after)
                          /\ distinct(def.tags)
    BY DEF WellFormedForks
  <2> DEFINE raw == Raw(files[e.path])
             def == ParseAt(files, e.name, e.path).def
  <2>1. IsRaw(raw) /\ ParseForkFile(e.name, raw).kind = "fork"
    BY <1>1, <2>0, VisibleFacts DEF IsFork, ParseAt
  <2>2. def = [run_on |-> ParseRunOn(raw.run_on), throttle |-> Throttle(raw),
               after |-> ParseAfter(raw.after, e.name),
               overlap |-> raw.overlap = Bool(TRUE), tags |-> ParseTags(raw.tags)]
    BY <2>1, ForkDef DEF ParseAt
  <2> HIDE DEF raw, def
  <2>3. def.run_on = ParseRunOn(raw.run_on) /\ def.throttle = Throttle(raw)
    BY <2>2
  <2>4. def.after = ParseAfter(raw.after, e.name) /\ def.tags = ParseTags(raw.tags)
    BY <2>2
  <2>5. def.run_on # <<>>
    BY <2>3 DEF ParseRunOn, DefaultRunOn
  <2>6. def.throttle # None => def.throttle > 0
    BY <2>3 DEF Throttle
  <2>7. /\ e.name \notin Range(def.after)
        /\ Cardinality(Range(def.after)) = Len(def.after)
    BY <2>1, <2>4, AfterIsSound
  <2>8. Cardinality(Range(def.tags)) = Len(def.tags)
    BY <2>1, <2>4, TagsAreDistinct
  <2> QED BY <2>5, <2>6, <2>7, <2>8 DEF def
<1> QED BY <1>1, SessionKept, FilesKept, PTL

-----------------------------------------------------------------------------
\* While select_forks reads the roster, the history of the evaluation includes
\* what is on disk now.
FilesSeen == pc = "reading" => OnDisk(files) \subseteq seen

SetupInv == FilesSeen /\ NoStaleFork

\* A step that leaves the files, what was seen and what is selected alone, and
\* starts no evaluation, keeps the invariant.
LEMMA UntouchedKeeps ==
    ASSUME SetupInv, UNCHANGED <<files, seen, selected>>, pc' = "reading" => pc = "reading"
    PROVE  SetupInv'
<1>1. FilesSeen'
    BY DEF SetupInv, FilesSeen, OnDisk
<1>2. NoStaleFork'
    BY DEF SetupInv, NoStaleFork
<1> QED
    BY <1>1, <1>2 DEF SetupInv

\* An edit of a fork file is seen by an evaluation that is under way; what was
\* selected before stays seen.
LEMMA EditKeeps == ASSUME SetupInv, Edit PROVE SetupInv'
<1>1. pc' = pc /\ selected' = selected
    BY DEF Edit, pollVars
<1>2. CASE \E d \in Dirs, layer \in Layers \cup {Absent} : EditConfig(d, layer)
    BY <1>1, <1>2, UntouchedKeeps DEF EditConfig
<1>3. CASE \E p \in Places, content \in Contents \cup {Absent} : EditFile(p, content)
  <2>1. seen' = seen \cup OnDisk(files')
    BY <1>3 DEF EditFile
  <2>2. OnDisk(files)' = OnDisk(files')
    BY DEF OnDisk
  <2>3. FilesSeen'
    BY <2>1, <2>2 DEF FilesSeen
  <2>4. NoStaleFork'
    BY <1>1, <2>1 DEF SetupInv, NoStaleFork
  <2> QED
    BY <2>3, <2>4 DEF SetupInv
<1> QED
    BY <1>2, <1>3 DEF Edit

\* A fork that is selected was on disk when its file was read.
LEMMA ReadEntryKeeps == ASSUME SetupInv, NEW n \in todo, ReadEntry(n) PROVE SetupInv'
<1> DEFINE content == IF IsFile(files, roster[n]) THEN files[roster[n]] ELSE Absent
           entry   == [name |-> n, path |-> roster[n], content |-> content]
<1>1. /\ pc = "reading"
      /\ selected' = selected \cup {s \in {entry} : DueAt(n, content)}
      /\ UNCHANGED <<files, seen, pc>>
    BY DEF ReadEntry
<1>2. FilesSeen'
    BY <1>1 DEF SetupInv, FilesSeen, OnDisk
<1>3. ASSUME DueAt(n, content)
      PROVE  /\ <<entry.path, entry.content>> \in seen
             /\ ParseForkFile(entry.name, Raw(entry.content)).kind = "fork"
  <2>1. content # Absent /\ ParseForkFile(n, Raw(content)).kind = "fork"
    BY <1>3 DEF DueAt
  <2>2. roster[n] \in Places /\ files[roster[n]] # Absent /\ content = files[roster[n]]
    BY <2>1 DEF IsFile
  <2>3. <<roster[n], content>> \in OnDisk(files)
    BY <2>2 DEF OnDisk
  <2>4. OnDisk(files) \subseteq seen
    BY <1>1 DEF SetupInv, FilesSeen
  <2> QED
    BY <2>1, <2>3, <2>4
<1>4. NoStaleFork'
  <2> SUFFICES ASSUME NEW s \in selected'
               PROVE  /\ <<s.path, s.content>> \in seen'
                      /\ ParseForkFile(s.name, Raw(s.content)).kind = "fork"
    BY DEF NoStaleFork
  <2>1. CASE s \in selected
    BY <1>1, <2>1 DEF SetupInv, NoStaleFork
  <2>2. CASE s = entry /\ DueAt(n, content)
    BY <1>1, <1>3, <2>2
  <2> QED
    BY <1>1, <2>1, <2>2
<1> QED
    BY <1>2, <1>4 DEF SetupInv

\* A new evaluation starts from nothing, and a poll that is answered drops what
\* it had selected.
LEMMA ResetKeeps ==
    ASSUME (\E d \in deadlines : Evaluate(d)) \/ Answer
    PROVE  SetupInv'
<1>1. selected' = {}
    BY DEF Evaluate, Answer
<1>2. pc' = "reading" => seen' = OnDisk(files) /\ files' = files
    BY DEF Evaluate, Answer
<1>3. FilesSeen'
    BY <1>2 DEF FilesSeen, OnDisk
<1>4. NoStaleFork'
    BY <1>1 DEF NoStaleFork
<1> QED
    BY <1>3, <1>4 DEF SetupInv

\* Every fork a poll selects was on disk, as a fork, while the evaluation that
\* selected it was running, whatever the user edits meanwhile.
THEOREM SelectedForksAreLive == Spec => []NoStaleFork
<1>1. Init => SetupInv
    BY DEF Init, SetupInv, FilesSeen, NoStaleFork
<1>2. SetupInv /\ [Next]_vars => SetupInv'
  <2> SUFFICES ASSUME SetupInv, [Next]_vars PROVE SetupInv'
    OBVIOUS
  <2>1. CASE Edit
    BY <2>1, EditKeeps
  <2>2. CASE Park \/ Evaluated \/ Close \/ UNCHANGED vars
    BY <2>2, UntouchedKeeps DEF Park, Evaluated, Close, vars
  <2>3. CASE (\E d \in deadlines : Evaluate(d)) \/ Answer
    BY <2>3, ResetKeeps
  <2>4. CASE \E n \in todo : ReadEntry(n)
    BY <2>4, ReadEntryKeeps
  <2> QED
    BY <2>1, <2>2, <2>3, <2>4 DEF Next
<1>3. SetupInv => NoStaleFork
    BY DEF SetupInv
<1> QED
    BY <1>1, <1>2, <1>3, PTL DEF Spec

-----------------------------------------------------------------------------
\* The duration keys are keys of the configuration, and none is a table of tags.
LEMMA DurationKeysOfConfig ==
    /\ DurationKeys \subseteq DOMAIN DefaultConfig
    /\ \A key \in DurationKeys : key # "tag_throttles"
    BY DEF DefaultConfig, DurationKeys

\* apply_layer, for one duration key of the user's layer: a value that is
\* understood replaces the one below.
LEMMA UserOverrides ==
    ASSUME NEW config, NEW raw, NEW key \in DurationKeys, DurationKeys \subseteq DOMAIN config
    PROVE  /\ DOMAIN ApplyLayer(config, raw, FALSE) = DOMAIN config
           /\ ApplyLayer(config, raw, FALSE)[key] =
                 IF ParseTomlDuration(raw[key]) = None
                 THEN config[key] ELSE ParseTomlDuration(raw[key])
<1>1. key # "tag_throttles" /\ key \in DOMAIN config
    BY DurationKeysOfConfig
<1> QED
    BY <1>1 DEF ApplyLayer

\* The project's layer does the same, unless the key is global.
LEMMA ProjectOverrides ==
    ASSUME NEW config, NEW raw, NEW key \in DurationKeys, DurationKeys \subseteq DOMAIN config
    PROVE  ApplyLayer(config, raw, TRUE)[key] =
                 IF key \in GlobalOnly \/ ParseTomlDuration(raw[key]) = None
                 THEN config[key] ELSE ParseTomlDuration(raw[key])
<1>1. key # "tag_throttles" /\ key \in DOMAIN config
    BY DurationKeysOfConfig
<1> QED
    BY <1>1 DEF ApplyLayer

\* An unset value is no duration.
LEMMA UnsetIsNoDuration ==
    ASSUME NEW v, v.k = "unset"
    PROVE  ParseTomlDuration(v) = None
    BY DEF ParseTomlDuration, ParseDurationYaml

\* A layer that sets nothing sets no duration.
LEMMA BlankSetsNothing ==
    \A key \in DurationKeys : BlankLayer[key].k = "unset"
    BY DEF BlankLayer, Unset, DurationKeys

\* The value of every duration key is the project's, else the user's, else the
\* default, for any two layers, however wrong (load_config_at).
THEOREM ConfigurationIsLayered == Spec => []ConfigLayered
<1>1. ConfigLayered
  <2> DEFINE root == ProjectRoot(files, layers, chain)
             user == LoadLayer(LayerAt(UserRoot))
             own  == LoadLayer(LayerAt(root))
             project == IF root = UserRoot THEN BlankLayer ELSE own
             below == ApplyLayer(DefaultConfig, user, FALSE)
             valid(v) == v.k # "unset" /\ ParseTomlDuration(v) # None
  <2> SUFFICES ASSUME NEW key \in DurationKeys
               PROVE  CfgNow[key] =
                        IF valid(project[key]) /\ key \notin GlobalOnly
                        THEN ParseTomlDuration(project[key])
                        ELSE IF valid(user[key]) THEN ParseTomlDuration(user[key])
                        ELSE DefaultConfig[key]
    BY DEF ConfigLayered
  <2>1. \A v : valid(v) <=> ParseTomlDuration(v) # None
    BY UnsetIsNoDuration
  <2>2. /\ DOMAIN below = DOMAIN DefaultConfig
        /\ below[key] = IF valid(user[key]) THEN ParseTomlDuration(user[key])
                        ELSE DefaultConfig[key]
    BY <2>1, UserOverrides, DurationKeysOfConfig
  <2>3. CfgNow = IF root = UserRoot THEN below ELSE ApplyLayer(below, own, TRUE)
    BY DEF CfgNow, LoadConfigAt
  <2> HIDE DEF below, own, user, root
  <2>4. CASE root = UserRoot
    BY <2>2, <2>3, <2>4, BlankSetsNothing
  <2>5. CASE root # UserRoot
    <3>1. ApplyLayer(below, own, TRUE)[key] =
            IF key \in GlobalOnly \/ ParseTomlDuration(own[key]) = None
            THEN below[key] ELSE ParseTomlDuration(own[key])
      <4>1. DurationKeys \subseteq DOMAIN below
        BY <2>2, DurationKeysOfConfig
      <4> QED BY <4>1, ProjectOverrides
    <3> QED
      BY <2>1, <2>2, <2>3, <2>5, <3>1
  <2> QED
    BY <2>4, <2>5
<1> QED
    BY <1>1, PTL

-----------------------------------------------------------------------------
\* Durations are integers.

LEMMA UnitSecs ==
    ASSUME NEW S, NEW a \in S, NEW b \in S, NEW c \in S, NEW e \in S
    PROVE  LET mult == [s |-> a, m |-> b, h |-> c, d |-> e]
           IN  \A u \in DOMAIN mult : mult[u] \in S
    OBVIOUS

LEMMA DurationTyped ==
    ASSUME NEW v, IsDuration(v)
    PROVE  ParseDurationYaml(v) \in Int \cup {None}
<1>1. CASE v.k = "num"
  <2>1. v.v \in Int
    BY <1>1 DEF IsDuration
  <2> QED BY <1>1, <2>1 DEF ParseDurationYaml, Unsigned
<1>2. CASE v.k = "str"
  <2> DEFINE s == v.v
             mult == [s |-> 1, m |-> 60, h |-> 3600, d |-> 86400]
             num == s.num
             unit == s.unit
             secs == num * (IF unit = "" THEN 1 ELSE mult[unit])
  <2>1. ParseDurationYaml(v) = ParseDurationStr(s)
    BY <1>2, SMT DEF ParseDurationYaml
  <2>2. ParseDurationStr(s) = IF unit \in {""} \cup DOMAIN mult /\ num \in 0..(Word-1) THEN secs % Word ELSE None
    BY SMT DEF ParseDurationStr
  <2>3. \A u \in DOMAIN mult : mult[u] \in Int
    <3>1. 1 \in Int /\ 60 \in Int /\ 3600 \in Int /\ 86400 \in Int
      BY SMT
    <3> QED BY <3>1, UnitSecs, SMT
  <2> HIDE DEF mult, num, unit
  <2>4. CASE unit \in {""} \cup DOMAIN mult /\ num \in 0..(Word-1)
    <3> DEFINE n == IF unit = "" THEN 1 ELSE mult[unit]
    <3>1. n \in Int
      <4>1. CASE unit = ""
        <5>1. n = 1
          BY <4>1, Zenon
        <5> HIDE DEF n
        <5> QED BY <5>1
      <4>2. CASE unit # ""
        BY <2>3, <2>4, <4>2
      <4> QED BY <4>1, <4>2
    <3> HIDE DEF n
    <3> DEFINE p == num * n
    <3>2. p \in Int
      <4>1. Word \in Nat
        BY SetupAssumption
      <4>2. num \in 0..(Word-1)
        BY <2>4, Zenon
      <4>3. num \in Int
        BY <4>1, <4>2, SMT
      <4> QED BY <3>1, <4>3
    <3> HIDE DEF p
    <3>3. p % Word \in Int
      BY <3>2, SetupAssumption
    <3>4. ParseDurationStr(s) = p % Word
      BY <2>2, <2>4 DEF p, n
    <3> QED BY <2>1, <3>3, <3>4
  <2>5. CASE ~(unit \in {""} \cup DOMAIN mult /\ num \in 0..(Word-1))
    <3>1. ParseDurationStr(s) = None
      BY <2>2, <2>5, Zenon
    <3> QED BY <2>1, <3>1
  <2> QED BY <2>4, <2>5
<1>3. CASE v.k \notin {"num", "str"}
    BY <1>3 DEF ParseDurationYaml
<1> QED BY <1>1, <1>2, <1>3

\* The project's root is a directory of the session, if there is one.
LEMMA RootTyped ==
    ASSUME SessionInv
    PROVE  ProjectRoot(files, layers, chain) \in Dirs \cup {None}
<1> DEFINE marked == {i \in DOMAIN chain : IsDir(files, <<chain[i]>>) \/ layers[chain[i]] # Absent}
           least == Min(marked)
<1>1. ProjectRoot(files, layers, chain) = IF marked = {} THEN None ELSE chain[least]
    BY DEF ProjectRoot
<1>2. chain \in Seq(Range(chain)) /\ Range(chain) \subseteq Dirs
    BY SetupAssumption DEF SessionInv, Dirs
<1>3. marked \in SUBSET Nat /\ marked \subseteq DOMAIN chain
    BY <1>2
<1>4. ASSUME marked # {} PROVE least \in marked
  <2> HIDE DEF marked
  <2>1. \E m \in marked : \A k \in marked : m =< k
    BY <1>3, <1>4, LeastNat
  <2> QED BY <2>1 DEF Min
<1> HIDE DEF marked, least
<1> QED BY <1>1, <1>2, <1>3, <1>4 DEF Range

\* What a layer says of a duration is one.
LEMMA LayerTyped ==
    ASSUME FilesInv, NEW d \in Dirs \cup {None}, NEW key \in DurationKeys
    PROVE  ParseTomlDuration(LoadLayer(LayerAt(d))[key]) \in Int \cup {None}
<1>1. IsDuration(BlankLayer[key])
  <2>1. BlankLayer[key].k = "unset"
    BY BlankSetsNothing
  <2> QED BY <2>1 DEF IsDuration
<1>2. IsDuration(LayerAt(d)[key])
  <2>1. CASE d = None \/ layers[d] = Absent
    BY <1>1, <2>1 DEF LayerAt
  <2>2. CASE d # None /\ layers[d] # Absent
    <3>1. layers[d] \in Layers
      BY <2>2 DEF FilesInv
    <3>2. IsDuration(RawLayer(layers[d])[key])
      BY <3>1, SetupAssumption
    <3> QED BY <2>2, <3>2 DEF LayerAt
  <2> QED BY <2>1, <2>2
<1>3. IsDuration(LoadLayer(LayerAt(d))[key])
    BY <1>1, <1>2 DEF LoadLayer
<1> QED BY <1>3, DurationTyped DEF ParseTomlDuration

LEMMA DefaultIdleTyped ==
    ASSUME SessionInv, FilesInv, ConfigLayered
    PROVE  CfgNow.default_idle_deadline \in Int
<1> DEFINE key == "default_idle_deadline"
           root == ProjectRoot(files, layers, chain)
           user == LoadLayer(LayerAt(UserRoot))
           own == LoadLayer(LayerAt(root))
           project == IF root = UserRoot THEN BlankLayer ELSE own
           valid(v) == v.k # "unset" /\ ParseTomlDuration(v) # None
<1>1. key \in DurationKeys /\ DefaultConfig[key] = 600
    BY DEF DurationKeys, DefaultConfig
<1>2. CfgNow[key] = IF valid(project[key]) /\ key \notin GlobalOnly THEN ParseTomlDuration(project[key])
                    ELSE IF valid(user[key]) THEN ParseTomlDuration(user[key])
                    ELSE DefaultConfig[key]
    BY <1>1 DEF ConfigLayered
<1>3. ParseTomlDuration(user[key]) \in Int \cup {None} /\ ParseTomlDuration(own[key]) \in Int \cup {None}
    BY <1>1, RootTyped, LayerTyped DEF Dirs
<1>4. ParseTomlDuration(BlankLayer[key]) = None
    BY <1>1, BlankSetsNothing, UnsetIsNoDuration
<1>5. CfgNow.default_idle_deadline = CfgNow[key]
    OBVIOUS
<1> HIDE DEF root, user, own, key
<1> QED BY <1>1, <1>2, <1>3, <1>4, <1>5

-----------------------------------------------------------------------------
\* What the poll and the roster have of the forks on disk, while nothing has been
\* edited since the session's roster was begun: the deadlines and the roster are
\* those of the visible forks, and the forks that are selected are the ones that
\* are due among those that have been read.

RosterNow ==
    [n \in {e.name : e \in Visible} |-> (CHOOSE e \in Visible : e.name = n).path]

Due(n) == DueAt(n, files[roster[n]])

Picked(names) ==
    {[name |-> n, path |-> roster[n], content |-> files[roster[n]]] : n \in {m \in names : Due(m)}}

DeadlinesKnown ==
    ~touched /\ pc # "off" => deadlines = IdleDeadlines(RunOns(Visible), cfg.default_idle_deadline)

RosterKnown == ~touched /\ (DOMAIN roster # {} \/ pc = "reading") => roster = RosterNow

SelectedKnown ==
    ~touched /\ pc = "reading" =>
        todo \subseteq DOMAIN roster /\ selected = Picked(DOMAIN roster \ todo)

DueInv == DeadlinesKnown /\ RosterKnown /\ SelectedKnown /\ cfg.default_idle_deadline \in Int

\* The roster's entries are the visible forks.
LEMMA RosterEntries ==
    ASSUME ChainOk, FilesInv
    PROVE  /\ DOMAIN RosterNow = {e.name : e \in Visible}
           /\ \A e \in Visible : RosterNow[e.name] = e.path
<1>1. DOMAIN RosterNow = {e.name : e \in Visible}
    BY DEF RosterNow
<1>2. ASSUME NEW e \in Visible PROVE RosterNow[e.name] = e.path
  <2> DEFINE d == CHOOSE x \in Visible : x.name = e.name
  <2>1. RosterNow[e.name] = d.path
    BY DEF RosterNow
  <2>2. d \in Visible /\ d.name = e.name
    OBVIOUS
  <2> HIDE DEF d
  <2>3. d = e
    BY <2>2, VisibleFacts
  <2> QED BY <2>1, <2>3
<1> QED BY <1>1, <1>2

\* queue_fork, the first time and whenever nothing has changed.
LEMMA QueueIsRoster ==
    ASSUME DOMAIN roster = {} \/ roster = RosterNow
    PROVE  QueueForks(Visible) = RosterNow
<1> DEFINE names == {e.name : e \in Visible}
           path(n) == (CHOOSE e \in Visible : e.name = n).path
<1>1. QueueForks(Visible) = [n \in DOMAIN roster \cup names |-> IF n \in DOMAIN roster THEN roster[n] ELSE path(n)]
    BY DEF QueueForks
<1>2. RosterNow = [n \in names |-> path(n)]
    BY DEF RosterNow
<1> HIDE DEF names, path
<1>3. CASE DOMAIN roster = {}
    BY <1>1, <1>2, <1>3
<1>4. CASE roster = RosterNow
  <2>1. DOMAIN roster = names /\ \A n \in names : roster[n] = path(n)
    BY <1>2, <1>4
  <2> QED BY <1>1, <1>2, <2>1
<1> QED BY <1>3, <1>4

\* What is visible changes with the files only.
LEMMA SameForks ==
    ASSUME UNCHANGED <<files, chain>>
    PROVE  Visible' = Visible /\ RosterNow' = RosterNow /\ RunOns(Visible)' = RunOns(Visible)
<1>1. Visible' = Visible
    BY DEF Visible
<1>2. RosterNow' = RosterNow
    BY <1>1 DEF RosterNow
<1>3. RunOns(Visible)' = RunOns(Visible)
    BY <1>1 DEF RunOns
<1> QED BY <1>1, <1>2, <1>3

LEMMA EditKeepsDue == ASSUME DueInv, Edit PROVE DueInv'
<1>1. touched' = (DOMAIN roster # {} \/ pc # "off") /\ UNCHANGED <<roster, pc, cfg>>
    BY DEF Edit, pollVars
<1>2. DeadlinesKnown'
    BY <1>1 DEF DeadlinesKnown
<1>3. RosterKnown'
    BY <1>1 DEF RosterKnown
<1>4. SelectedKnown'
    BY <1>1 DEF SelectedKnown
<1> QED BY <1>1, <1>2, <1>3, <1>4 DEF DueInv

LEMMA ParkKeepsDue ==
    ASSUME DueInv, SessionInv, FilesInv, ConfigLayered, Park PROVE DueInv'
<1>1. /\ pc = "off" /\ pc' = "parked" /\ cfg' = CfgNow
      /\ deadlines' = IdleDeadlines(RunOns(Visible), CfgNow.default_idle_deadline)
      /\ UNCHANGED <<files, chain, roster, touched>>
    BY DEF Park
<1>2. DeadlinesKnown'
    BY <1>1, SameForks DEF DeadlinesKnown
<1>3. RosterKnown'
    BY <1>1, SameForks DEF DueInv, RosterKnown
<1>4. SelectedKnown'
    BY <1>1 DEF SelectedKnown
<1>5. cfg'.default_idle_deadline \in Int
    BY <1>1, DefaultIdleTyped
<1> QED BY <1>2, <1>3, <1>4, <1>5 DEF DueInv

LEMMA EvaluateKeepsDue ==
    ASSUME DueInv, NEW d, Evaluate(d) PROVE DueInv'
<1>1. /\ pc = "parked" /\ pc' = "reading" /\ roster' = QueueForks(Visible)
      /\ todo' = DOMAIN roster' /\ selected' = {}
      /\ UNCHANGED <<files, chain, cfg, deadlines, touched>>
    BY DEF Evaluate
<1>2. DeadlinesKnown'
    BY <1>1, SameForks DEF DueInv, DeadlinesKnown
<1>3. RosterKnown'
  <2> SUFFICES ASSUME ~touched' PROVE roster' = RosterNow'
    BY DEF RosterKnown
  <2>1. DOMAIN roster = {} \/ roster = RosterNow
    BY <1>1 DEF DueInv, RosterKnown
  <2> QED BY <1>1, <2>1, QueueIsRoster, SameForks
<1>4. SelectedKnown'
  <2>1. Picked(DOMAIN roster \ todo)' = {}
    BY <1>1 DEF Picked
  <2> QED BY <1>1, <2>1 DEF SelectedKnown
<1> QED BY <1>1, <1>2, <1>3, <1>4 DEF DueInv

LEMMA ReadEntryKeepsDue ==
    ASSUME DueInv, ChainOk, FilesInv, NEW n \in todo, ReadEntry(n) PROVE DueInv'
<1> DEFINE content == IF IsFile(files, roster[n]) THEN files[roster[n]] ELSE Absent
           entry(m) == [name |-> m, path |-> roster[m], content |-> files[roster[m]]]
           picked(m) == {s \in {entry(m)} : Due(m)}
<1>1. /\ pc = "reading" /\ todo' = todo \ {n}
      /\ selected' = selected \cup {s \in {[name |-> n, path |-> roster[n], content |-> content]} :
                                      DueAt(n, content)}
      /\ UNCHANGED <<files, chain, env, cfg, deadlines, elapsed, pc, roster, touched>>
    BY DEF ReadEntry
<1>2. DeadlinesKnown'
    BY <1>1, SameForks DEF DueInv, DeadlinesKnown
<1>3. RosterKnown'
    BY <1>1, SameForks DEF DueInv, RosterKnown
<1>4. SelectedKnown'
  <2> SUFFICES ASSUME ~touched
               PROVE  todo' \subseteq DOMAIN roster /\ selected' = Picked(DOMAIN roster \ todo)'
    BY <1>1 DEF SelectedKnown
  <2>1. /\ roster = RosterNow /\ todo \subseteq DOMAIN roster
        /\ selected = Picked(DOMAIN roster \ todo)
    BY <1>1 DEF DueInv, RosterKnown, SelectedKnown
  <2>2. PICK e \in Visible : n = e.name
    BY <2>1, RosterEntries
  <2>3. roster[n] = e.path /\ IsFile(files, e.path)
    BY <2>1, <2>2, RosterEntries, VisibleFacts
  <2>4. content = files[roster[n]]
    BY <2>3
  <2>5. selected' = selected \cup picked(n)
    BY <1>1, <2>4 DEF Due
  <2>6. DOMAIN roster \ (todo \ {n}) = (DOMAIN roster \ todo) \cup {n}
    BY <2>1
  <2>7. Picked(DOMAIN roster \ todo)' = Picked((DOMAIN roster \ todo) \cup {n})
    <3>1. Picked(DOMAIN roster \ todo)' = Picked(DOMAIN roster \ (todo \ {n}))
      BY <1>1 DEF Picked, Due, DueAt
    <3> QED BY <2>6, <3>1
  <2>8. Picked((DOMAIN roster \ todo) \cup {n}) = Picked(DOMAIN roster \ todo) \cup picked(n)
    BY DEF Picked
  <2> QED BY <1>1, <2>1, <2>5, <2>7, <2>8
<1> QED BY <1>1, <1>2, <1>3, <1>4 DEF DueInv

LEMMA OtherKeepsDue ==
    ASSUME DueInv, Evaluated \/ Answer \/ Close \/ UNCHANGED vars PROVE DueInv'
<1>1. CASE Evaluated
  <2>1. pc = "reading" /\ pc' = "parked" /\ UNCHANGED <<files, chain, cfg, deadlines, roster, touched>>
    BY <1>1 DEF Evaluated
  <2>2. DeadlinesKnown'
    BY <2>1, SameForks DEF DueInv, DeadlinesKnown
  <2>3. RosterKnown'
    BY <2>1, SameForks DEF DueInv, RosterKnown
  <2>4. SelectedKnown'
    BY <2>1 DEF SelectedKnown
  <2> QED BY <2>1, <2>2, <2>3, <2>4 DEF DueInv
<1>2. CASE Answer
  <2>1. pc = "parked" /\ pc' = "off" /\ cfg' = DefaultConfig /\ UNCHANGED <<files, chain, roster, touched>>
    BY <1>2 DEF Answer
  <2>2. DeadlinesKnown' /\ SelectedKnown'
    BY <2>1 DEF DeadlinesKnown, SelectedKnown
  <2>3. RosterKnown'
    BY <2>1, SameForks DEF DueInv, RosterKnown
  <2>4. cfg'.default_idle_deadline \in Int
    BY <2>1, SMT DEF DefaultConfig
  <2> QED BY <2>2, <2>3, <2>4 DEF DueInv
<1>3. CASE Close
  <2>1. pc = "off" /\ pc' = "off" /\ roster' = <<>> /\ cfg' = cfg
    BY <1>3 DEF Close
  <2>2. DOMAIN roster' = {}
    BY <2>1
  <2> QED BY <2>1, <2>2 DEF DueInv, DeadlinesKnown, RosterKnown, SelectedKnown
<1>4. CASE UNCHANGED vars
  <2>1. UNCHANGED <<files, chain, env, cfg, deadlines, elapsed, pc, roster, todo, selected, touched>>
    BY <1>4 DEF vars
  <2>2. DeadlinesKnown'
    BY <2>1, SameForks DEF DueInv, DeadlinesKnown
  <2>3. RosterKnown'
    BY <2>1, SameForks DEF DueInv, RosterKnown
  <2>4. SelectedKnown'
    <3>1. Picked(DOMAIN roster \ todo)' = Picked(DOMAIN roster \ todo)
      BY <2>1 DEF Picked, Due, DueAt
    <3> QED BY <2>1, <3>1 DEF DueInv, SelectedKnown
  <2> QED BY <2>1, <2>2, <2>3, <2>4 DEF DueInv
<1> QED BY <1>1, <1>2, <1>3, <1>4

LEMMA DueKept == Spec => []DueInv
<1>1. Init => DueInv
  <2> SUFFICES ASSUME Init PROVE DueInv
    OBVIOUS
  <2>1. pc = "off" /\ DOMAIN roster = {} /\ cfg = DefaultConfig
    BY DEF Init
  <2>2. cfg.default_idle_deadline \in Int
    BY <2>1, SMT DEF DefaultConfig
  <2> QED BY <2>1, <2>2 DEF DueInv, DeadlinesKnown, RosterKnown, SelectedKnown
<1>2. DueInv /\ SessionInv /\ FilesInv /\ ConfigLayered /\ [Next]_vars => DueInv'
  <2> SUFFICES ASSUME DueInv, SessionInv, FilesInv, ConfigLayered, [Next]_vars PROVE DueInv'
    OBVIOUS
  <2>1. CASE Edit
    BY <2>1, EditKeepsDue
  <2>2. CASE Park
    BY <2>2, ParkKeepsDue
  <2>3. CASE \E d \in deadlines : Evaluate(d)
    BY <2>3, EvaluateKeepsDue
  <2>4. CASE \E n \in todo : ReadEntry(n)
    BY <2>4, SessionChain, ReadEntryKeepsDue
  <2>5. CASE Evaluated \/ Answer \/ Close \/ UNCHANGED vars
    BY <2>5, OtherKeepsDue
  <2> QED BY <2>1, <2>2, <2>3, <2>4, <2>5 DEF Next
<1> QED BY <1>1, <1>2, SessionKept, FilesKept, ConfigurationIsLayered, PTL DEF Spec

-----------------------------------------------------------------------------
\* The triggers of a fork, and the first of them that a moment hits.

KeepTrigger(out, e) == IF ParseRunOnEntry(e) = NoTrigger THEN out ELSE Append(out, ParseRunOnEntry(e))

\* parse_run_on keeps a list of what its entries say.
LEMMA ParsedRunOnTyped ==
    ASSUME NEW values, IsList(values)
    PROVE  ParsedRunOn(values) \in Seq({ParseRunOnEntry(e) : e \in Range(values)})
<1> DEFINE n == Len(values)
           T == {ParseRunOnEntry(e) : e \in Range(values)}
           A == Seq(T)
           step == [k \in 1..n |-> [out \in A |-> KeepTrigger(out, values[k])]]
           D == SUBSET (1..n)
           body(g) == [t \in D |-> IF t = {} THEN <<>> ELSE KeepTrigger(g[t \ {Max(t)}], values[Max(t)])]
           it == CHOOSE g : g = body(g)
<1>0. values \in Seq(Range(values))
    BY ListIsSeq
<1>1. n \in Nat /\ DOMAIN values = 1..n /\ <<>> \in A
    BY <1>0
<1>2. step \in [1..n -> [A -> A]]
  <2> SUFFICES ASSUME NEW k \in 1..n, NEW out \in A PROVE KeepTrigger(out, values[k]) \in A
    OBVIOUS
  <2>1. ParseRunOnEntry(values[k]) \in T
    BY <1>1 DEF Range
  <2> HIDE DEF T
  <2> QED BY <2>1 DEF KeepTrigger
<1>3. \A t \in D : t # {} => Max(t) \in 1..n /\ t \ {Max(t)} \in D
    BY <1>1, MaxOfIndices
<1>4. \A out \in A : \A k \in 1..n : step[k][out] = KeepTrigger(out, values[k])
    OBVIOUS
<1> HIDE DEF n, A, step, T
<1>5a. PICK g : SolvesFold(g, n, A, <<>>, step)
    BY <1>1, <1>2, FoldExists, Zenon
<1>5. g \in [D -> A] /\ \A t \in D : g[t] = IF t = {} THEN <<>> ELSE step[Max(t)][g[t \ {Max(t)}]]
    BY <1>5a DEF SolvesFold
<1>6. g = body(g)
  <2>1. ASSUME NEW t \in D PROVE g[t] = body(g)[t]
    <3>1. CASE t = {}
      BY <1>5, <3>1
    <3>2. CASE t # {}
      <4>1. Max(t) \in 1..n /\ g[t \ {Max(t)}] \in A
        BY <1>3, <1>5, <3>2
      <4> QED BY <1>4, <1>5, <3>2, <4>1
    <3> QED BY <3>1, <3>2
  <2> HIDE DEF D
  <2> QED BY <1>5, <2>1
<1>7. it = body(it)
    BY <1>6, Zenon
<1>8. ParsedRunOn(values) = it[1..n]
    BY <1>1, Zenon DEF ParsedRunOn, FoldLeft, MapThenFoldSet, KeepTrigger
<1> HIDE DEF it
<1>9. it[{}] = <<>> /\ \A t \in D : t # {} => it[t] = KeepTrigger(it[t \ {Max(t)}], values[Max(t)])
    BY <1>7
<1>10. \A t \in D : t # {} /\ it[t \ {Max(t)}] \in A => it[t] = step[Max(t)][it[t \ {Max(t)}]]
    BY <1>3, <1>4, <1>9
<1>10a. FollowsFold(it, n, A, <<>>, step)
    BY <1>9, <1>10 DEF FollowsFold
<1>11. PICK f : Folded(f, n, A, <<>>, step) /\ f[n] = it[1..n]
    BY <1>1, <1>2, <1>10a, FoldSteps
<1>12. f[n] \in A
    BY <1>1, <1>11 DEF Folded
<1> QED BY <1>8, <1>11, <1>12 DEF A, T

\* The seconds of an idle trigger are a number.
IdleTyped(t) == t[1] = "idle" => t[2] \in Int

LEMMA BareTyped == Bare \in Int
    BY DEF Bare

LEMMA PlainTyped ==
    ASSUME NEW w \in DOMAIN PlainTriggers
    PROVE  IdleTyped(PlainTriggers[w])
    BY DEF PlainTriggers, IdleTyped, Bare

LEMMA EntryTyped ==
    ASSUME NEW v, v.k = "map" /\ "idle" \in DOMAIN v.v => IsDuration(v.v["idle"])
    PROVE  IdleTyped(ParseRunOnEntry(v))
<1> DEFINE key == CHOOSE key \in DOMAIN v.v : TRUE
           n == CASE key = "idle" -> ParseDurationYaml(v.v[key])
                  [] key \in {"context_tokens", "context_left"} -> ParseTokenCount(v.v[key])
                  [] key = "context_used" -> ParsePercent(v.v[key])
                  [] OTHER -> None
           word == v.k = "str" /\ v.v \in DOMAIN PlainTriggers
           pair == v.k = "map" /\ Cardinality(DOMAIN v.v) = 1 /\ n # None
<1>1. ParseRunOnEntry(v) = CASE word -> PlainTriggers[v.v] [] pair -> <<key, n>> [] OTHER -> NoTrigger
    BY Zenon DEF ParseRunOnEntry
<1>2. ASSUME pair, key = "idle" PROVE n \in Int
  <2>1. DOMAIN v.v # {}
    BY <1>2, FS_EmptySet
  <2>2. "idle" \in DOMAIN v.v
    BY <1>2, <2>1
  <2>3. n = ParseDurationYaml(v.v["idle"])
    BY <1>2
  <2> QED BY <1>2, <2>2, <2>3, DurationTyped
<1> HIDE DEF key, n
<1>3. CASE word
  <2>1. ParseRunOnEntry(v) = PlainTriggers[v.v]
    BY <1>1, <1>3
  <2> QED BY <1>3, <2>1, PlainTyped
<1>4. CASE ~word /\ pair
  <2>1. ParseRunOnEntry(v) = <<key, n>>
    BY <1>1, <1>4
  <2> QED BY <1>2, <1>4, <2>1 DEF IdleTyped
<1>5. CASE ~word /\ ~pair
  <2>1. ParseRunOnEntry(v) = NoTrigger
    BY <1>1, <1>5
  <2> QED BY <2>1 DEF NoTrigger, IdleTyped
<1> QED BY <1>3, <1>4, <1>5

\* A list of triggers.
IsRunOn(r) == \E n \in Nat : DOMAIN r = 1..n /\ \A i \in 1..n : IdleTyped(r[i])

LEMMA RunOnTyped ==
    ASSUME NEW raw, IsRaw(raw), Deserializes(raw)
    PROVE  IsRunOn(ParseRunOn(raw.run_on))
<1> DEFINE v == raw.run_on
           list == v.v
           T == {ParseRunOnEntry(e) : e \in Range(list)}
<1>0. /\ raw["run_on"].k = "list" => IsList(raw["run_on"].v)
      /\ v.k = "list" =>
            \A i \in {j \in {m \in DOMAIN list : list[m].k = "map"} : "idle" \in DOMAIN list[j].v} :
                IsDuration(list[i].v["idle"])
    BY Zenon DEF IsRaw
<1>1. v.k \in {"unset", "list"}
    BY DEF Deserializes
<1>2. IsRunOn(DefaultRunOn)
  <2>1. DOMAIN DefaultRunOn = 1..1 /\ \A i \in 1..1 : DefaultRunOn[i] = <<"idle", Bare>>
    BY DEF DefaultRunOn
  <2>2. IdleTyped(<<"idle", Bare>>)
    BY BareTyped, Zenon DEF IdleTyped
  <2> QED BY <2>1, <2>2 DEF IsRunOn
<1>3. ASSUME v.k = "list" PROVE IsRunOn(ParsedRunOn(list))
  <2>1. IsList(list)
    BY <1>0, <1>3
  <2>2. ParsedRunOn(list) \in Seq(T)
    BY <2>1, ParsedRunOnTyped
  <2>3. ASSUME NEW t \in T PROVE IdleTyped(t)
    <3>1. PICK i \in DOMAIN list : t = ParseRunOnEntry(list[i])
      BY DEF Range
    <3>2. list[i].k = "map" /\ "idle" \in DOMAIN list[i].v => IsDuration(list[i].v["idle"])
      BY <1>0, <1>3
    <3> QED BY <3>1, <3>2, EntryTyped
  <2> HIDE DEF T, list
  <2> DEFINE s == ParsedRunOn(list)
  <2>4. Len(s) \in Nat /\ DOMAIN s = 1..Len(s) /\ \A i \in 1..Len(s) : s[i] \in T
    BY <2>2
  <2> HIDE DEF s
  <2> QED BY <2>3, <2>4 DEF IsRunOn, s
<1> HIDE DEF v, list
<1>4. ParseRunOn(v) = DefaultRunOn \/ (v.k = "list" /\ ParseRunOn(v) = ParsedRunOn(list))
    BY <1>1 DEF ParseRunOn, list
<1> QED BY <1>2, <1>3, <1>4 DEF v

\* A fork is matched if a trigger of its own is a deadline that has passed.
LEMMA MatchMeans ==
    ASSUME NEW r, IsRunOn(r), NEW idle \in Int, NEW D \in SUBSET Nat
    PROVE  MatchMoments(r, {<<"idle", d, 0>> : d \in D}, idle) # NoTrigger
           <=> \E i \in DOMAIN r : /\ r[i][1] = "idle"
                                   /\ EffectiveSecs(r[i], idle) > 0
                                   /\ EffectiveSecs(r[i], idle) \in D
<1> DEFINE moments == {<<"idle", d, 0>> : d \in D}
           rank(m) == IF m[1] = "context" THEN 0 ELSE m[2]
           hits == {h \in moments \X DOMAIN r : Hits(h[1], r[h[2]], idle)}
           first(h) == \A g \in hits : \/ rank(h[1]) < rank(g[1])
                                       \/ rank(h[1]) = rank(g[1]) /\ h[2] <= g[2]
           pick == CHOOSE h \in hits : first(h)
<1>1. DOMAIN r \in SUBSET Nat
    BY DEF IsRunOn
<1>2. MatchMoments(r, moments, idle) = IF hits = {} THEN NoTrigger ELSE r[pick[2]]
    BY DEF MatchMoments
<1>3. ASSUME NEW h \in hits
      PROVE  /\ h[1] \in moments /\ h[1][1] = "idle" /\ h[1][2] \in D
             /\ h[2] \in DOMAIN r /\ r[h[2]][1] = "idle"
             /\ EffectiveSecs(r[h[2]], idle) > 0 /\ EffectiveSecs(r[h[2]], idle) = h[1][2]
  <2>1. PICK d \in D : h[1] = <<"idle", d, 0>>
    OBVIOUS
  <2> QED BY <2>1 DEF Hits
<1>4. ASSUME NEW i \in DOMAIN r, r[i][1] = "idle",
             EffectiveSecs(r[i], idle) > 0, EffectiveSecs(r[i], idle) \in D
      PROVE  hits # {}
  <2> DEFINE m == <<"idle", EffectiveSecs(r[i], idle), 0>>
  <2>1. m \in moments /\ m[1] = "idle" /\ m[2] = EffectiveSecs(r[i], idle)
    BY <1>4
  <2>2. Hits(m, r[i], idle)
    BY <1>4, <2>1 DEF Hits
  <2> HIDE DEF m, moments
  <2>3. <<m, i>> \in hits
    BY <2>1, <2>2
  <2> QED BY <2>3
<1>5. ASSUME hits # {} PROVE \E h \in hits : first(h)
  <2>1. \A h \in hits : rank(h[1]) \in Nat /\ h[2] \in Nat
    BY <1>1, <1>3
  <2> HIDE DEF hits, rank
  <2> DEFINE ranks == {rank(h[1]) : h \in hits}
  <2>2. ranks \in SUBSET Nat /\ ranks # {}
    BY <1>5, <2>1
  <2>3. PICK b \in ranks : \A k \in ranks : b <= k
    <3> HIDE DEF ranks
    <3> QED BY <2>2, LeastNat
  <2> DEFINE best == {h \in hits : rank(h[1]) = b}
             places == {h[2] : h \in best}
  <2>4. places \in SUBSET Nat /\ places # {}
    BY <2>1, <2>3
  <2>5. PICK j \in places : \A k \in places : j <= k
    <3> HIDE DEF places
    <3> QED BY <2>4, LeastNat
  <2>6. PICK h \in best : h[2] = j
    BY <2>5
  <2>7. ASSUME NEW g \in hits
        PROVE  rank(h[1]) < rank(g[1]) \/ (rank(h[1]) = rank(g[1]) /\ h[2] <= g[2])
    <3>1. b <= rank(g[1]) /\ b \in Nat /\ rank(g[1]) \in Nat
      BY <2>1, <2>2, <2>3
    <3>2. rank(h[1]) = b
      BY <2>6
    <3>3. CASE rank(g[1]) = b
      <4>1. g[2] \in places
        BY <3>3
      <4>2. h[2] <= g[2]
        <5> HIDE DEF places
        <5> QED BY <4>1, <2>5, <2>6
      <4> QED BY <4>2, <3>2, <3>3
    <3> QED BY <3>1, <3>2, <3>3
  <2> QED BY <2>6, <2>7
<1> HIDE DEF hits, first, moments
<1>6. hits # {} => pick \in hits
    BY <1>5, Zenon
<1> HIDE DEF pick
<1>7. CASE hits = {}
    BY <1>2, <1>4, <1>7 DEF moments
<1>8. CASE hits # {}
  <2>1. pick \in hits /\ MatchMoments(r, moments, idle) = r[pick[2]]
    BY <1>2, <1>6, <1>8
  <2>2. r[pick[2]][1] = "idle"
    BY <1>3, <2>1
  <2>3. r[pick[2]] # NoTrigger
    <3>1. NoTrigger[1] = "none"
      BY DEF NoTrigger
    <3> QED BY <2>2, <3>1
  <2>4. \E i \in DOMAIN r : /\ r[i][1] = "idle"
                            /\ EffectiveSecs(r[i], idle) > 0
                            /\ EffectiveSecs(r[i], idle) \in D
    BY <1>3, <2>1
  <2> QED BY <2>1, <2>3, <2>4 DEF moments
<1> QED BY <1>7, <1>8

-----------------------------------------------------------------------------
\* The deadlines of the visible forks have a last one.

LEMMA Bounded ==
    ASSUME NEW n \in Nat, NEW f, \A i \in 1..n : f[i] \in Nat
    PROVE  \E b \in Nat : \A i \in 1..n : f[i] <= b
<1> DEFINE good(k) == \E b \in Nat : \A i \in 1..k : f[i] <= b
           G == {k \in 0..n : good(k)}
<1>1. 0 \in G
  <2>1. good(0)
    <3>1. \A i \in 1..0 : f[i] <= 0
      OBVIOUS
    <3> QED BY <3>1
  <2>2. 0 \in 0..n
    OBVIOUS
  <2> HIDE DEF good
  <2> QED BY <2>1, <2>2
<1>2. ASSUME NEW k \in 0..n, k \in G, k < n PROVE k + 1 \in G
  <2>1. PICK b \in Nat : \A i \in 1..k : f[i] <= b
    BY <1>2
  <2>2. k + 1 \in 1..n /\ k + 1 \in 0..n /\ f[k + 1] \in Nat
    BY <1>2
  <2> DEFINE c == IF f[k + 1] <= b THEN b ELSE f[k + 1]
  <2>3. c \in Nat /\ b <= c /\ f[k + 1] <= c
    BY <2>1, <2>2
  <2>4. ASSUME NEW i \in 1..(k + 1) PROVE f[i] <= c
    <3>1. CASE i = k + 1
      BY <2>3, <3>1
    <3>2. CASE i # k + 1
      <4>1. i \in 1..k /\ i \in 1..n
        BY <2>2, <3>2
      <4>2. f[i] <= b /\ f[i] \in Nat
        BY <2>1, <4>1
      <4> HIDE DEF c
      <4> QED BY <2>1, <2>3, <4>2
    <3> QED BY <3>1, <3>2
  <2> HIDE DEF c
  <2>5. good(k + 1)
    BY <2>3, <2>4
  <2> QED BY <2>2, <2>5
<1> HIDE DEF G
<1>3. n \in G
  <2>1. 0..n \subseteq G
    BY <1>1, <1>2, Induction
  <2> QED BY <2>1
<1> QED BY <1>3 DEF G

\* The deadlines one fork needs.
OwnDeadlines(r, idle) ==
    {d \in {EffectiveSecs(r[j], idle) : j \in {k \in DOMAIN r : r[k][1] = "idle"}} : d > 0}

LEMMA OwnBounded ==
    ASSUME NEW r, IsRunOn(r), NEW idle \in Int
    PROVE  \E b \in Nat : \A d \in OwnDeadlines(r, idle) : d \in Nat /\ d <= b
<1>1. PICK n \in Nat : DOMAIN r = 1..n /\ \A i \in 1..n : IdleTyped(r[i])
    BY DEF IsRunOn
<1> DEFINE secs(i) == EffectiveSecs(r[i], idle)
           f == [i \in 1..n |-> IF r[i][1] = "idle" /\ secs(i) > 0 THEN secs(i) ELSE 0]
<1>2. \A i \in 1..n : r[i][1] = "idle" => secs(i) \in Int
    BY <1>1 DEF IdleTyped, EffectiveSecs
<1>3. \A d \in OwnDeadlines(r, idle) : \E i \in 1..n : r[i][1] = "idle" /\ secs(i) > 0 /\ d = secs(i)
    BY <1>1 DEF OwnDeadlines
<1> HIDE DEF secs
<1>4. \A i \in 1..n : f[i] \in Nat
    BY <1>2
<1>5. \A d \in OwnDeadlines(r, idle) : d \in Nat /\ \E i \in 1..n : d = f[i]
    BY <1>2, <1>3
<1> HIDE DEF f
<1>6. PICK b \in Nat : \A i \in 1..n : f[i] <= b
    BY <1>4, Bounded
<1> QED BY <1>5, <1>6

LEMMA VisibleRunOn ==
    ASSUME ChainOk, FilesInv, NEW e \in Visible
    PROVE  IsRunOn(ParseAt(files, e.name, e.path).def.run_on)
<1> DEFINE raw == Raw(files[e.path])
           def == ParseAt(files, e.name, e.path).def
<1>1. IsRaw(raw) /\ ParseForkFile(e.name, raw).kind = "fork"
    BY VisibleFacts DEF IsFork, ParseAt
<1>2. /\ Deserializes(raw)
      /\ def = [run_on |-> ParseRunOn(raw.run_on), throttle |-> Throttle(raw),
                after |-> ParseAfter(raw.after, e.name),
                overlap |-> raw.overlap = Bool(TRUE), tags |-> ParseTags(raw.tags)]
    BY <1>1, ForkDef DEF ParseAt
<1> HIDE DEF raw, def
<1>3. def.run_on = ParseRunOn(raw.run_on)
    BY <1>2
<1>4. IsRunOn(def.run_on)
    BY <1>1, <1>2, <1>3, RunOnTyped
<1> QED BY <1>4 DEF def

LEMMA DeadlinesBounded ==
    ASSUME ChainOk, FilesInv, NEW idle \in Int
    PROVE  \E b \in Nat : \A d \in IdleDeadlines(RunOns(Visible), idle) : d \in 1..b
<1> DEFINE n == Len(All)
           def(e) == ParseAt(files, e.name, e.path).def
           own(e) == OwnDeadlines(def(e).run_on, idle)
           bound(e) == CHOOSE b \in Nat : \A d \in own(e) : d \in Nat /\ d <= b
           f == [i \in 1..n |-> IF First(i) THEN bound(All[i]) ELSE 0]
<1>1. n \in Nat
    BY AllIsRight
<1>2. Visible = {All[i] : i \in {j \in 1..n : First(j)}}
    BY VisibleAreFirst
<1> HIDE DEF n
<1>3. ASSUME NEW e \in Visible
      PROVE  bound(e) \in Nat /\ \A d \in own(e) : d \in Nat /\ d <= bound(e)
  <2>1. IsRunOn(def(e).run_on)
    BY VisibleRunOn
  <2>2. \E b \in Nat : \A d \in own(e) : d \in Nat /\ d <= b
    BY <2>1, OwnBounded
  <2> HIDE DEF own
  <2> QED BY <2>2, Zenon
<1>4. ASSUME NEW d \in IdleDeadlines(RunOns(Visible), idle)
      PROVE  d > 0 /\ \E e \in Visible : d \in own(e)
    BY DEF IdleDeadlines, RunOns, OwnDeadlines
<1> HIDE DEF own, bound
<1>5. \A i \in 1..n : f[i] \in Nat
    BY <1>2, <1>3
<1>6. PICK b \in Nat : \A i \in 1..n : f[i] <= b
  <2> HIDE DEF f
  <2> QED BY <1>1, <1>5, Bounded
<1>7. ASSUME NEW d \in IdleDeadlines(RunOns(Visible), idle) PROVE d \in 1..b
  <2>1. PICK e \in Visible : d \in own(e)
    BY <1>4
  <2>2. PICK i \in 1..n : First(i) /\ e = All[i]
    BY <1>2
  <2>3. f[i] = bound(e) /\ f[i] <= b
    BY <1>6, <2>2
  <2>4. d \in Nat /\ d <= bound(e) /\ bound(e) \in Nat /\ d > 0
    BY <1>3, <1>4, <2>1
  <2> HIDE DEF f
  <2> QED BY <2>3, <2>4
<1> QED BY <1>7

-----------------------------------------------------------------------------
\* The session's filter: what its environment names, else what is configured.

EnvNames(key) == IF env[key] = None THEN {} ELSE Range(env[key]) \ {""}

Filter(key) ==
    CASE EnvNames(key) # {} -> EnvNames(key)
      [] EnvNames(key) = {} /\ cfg[key] # None -> Range(cfg[key])
      [] OTHER -> {}

LEMMA EnvTags ==
    ASSUME SessionInv, NEW key \in TagKeys
    PROVE  /\ EnvNames(key) = {} => TagsFromEnv(env[key]) = None
           /\ EnvNames(key) # {} => /\ TagsFromEnv(env[key]) # None
                                    /\ Range(TagsFromEnv(env[key])) = EnvNames(key)
<1> DEFINE pieces == env[key]
           blank == ""
           tags == DistinctBut(blank, pieces)
<1>1. CASE pieces = None
  <2>1. EnvNames(key) = {} /\ TagsFromEnv(pieces) = None
    BY <1>1 DEF EnvNames, TagsFromEnv
  <2> QED BY <2>1
<1>2. CASE pieces # None
  <2>1. pieces \in Seq(Range(pieces) \ {None}) /\ None \notin Seq(Range(pieces))
    BY <1>2, SetupAssumption DEF SessionInv
  <2>2. EnvNames(key) = Range(pieces) \ {blank}
    BY <1>2 DEF EnvNames
  <2>3. ParseTags(Str(pieces)) = tags
    <3>1. Str(pieces).k = "str" /\ Str(pieces).v = pieces
      BY DEF Str
    <3>2. Pieces(Str(pieces)) = pieces
      BY <3>1 DEF Pieces
    <3> QED BY <3>2 DEF ParseTags
  <2>4. TagsFromEnv(pieces) = IF tags = <<>> THEN None ELSE tags
    BY <1>2, <2>3, Zenon DEF TagsFromEnv
  <2> HIDE DEF blank, pieces
  <2>5. pieces \in Seq(Range(pieces)) /\ None \notin Range(pieces)
    <3>1. Range(pieces) \ {None} \subseteq Range(pieces)
      OBVIOUS
    <3>2. None \notin Range(pieces)
      BY <2>1 DEF Range
    <3>3. Range(pieces) \ {None} = Range(pieces)
      BY <3>2
    <3> QED BY <2>1, <3>2, <3>3
  <2>6. tags \in Seq(Range(pieces)) /\ Range(tags) = Range(pieces) \ {None, blank}
    BY <2>5, DistinctButKeeps
  <2> HIDE DEF tags
  <2>7. Range(tags) = EnvNames(key)
    BY <2>2, <2>5, <2>6
  <2>8. tags = <<>> <=> Range(tags) = {}
    <3>1. ASSUME tags # <<>> PROVE Range(tags) # {}
      <4>1. 1 \in DOMAIN tags
        BY <2>6, <3>1
      <4> QED BY <4>1 DEF Range
    <3>2. Range(<<>>) = {}
      BY DEF Range
    <3> QED BY <3>1, <3>2
  <2>9. tags # None
    BY <2>1, <2>6
  <2> QED BY <2>4, <2>7, <2>8, <2>9 DEF pieces
<1> QED BY <1>1, <1>2

LEMMA FilterIsRight ==
    ASSUME SessionInv, NEW key \in TagKeys
    PROVE  EffectiveTags(env, cfg, key) = Filter(key)
<1> DEFINE own == TagsFromEnv(env[key])
           tags == IF own # None THEN own ELSE cfg[key]
<1>1. EffectiveTags(env, cfg, key) = IF tags = None THEN {} ELSE Range(tags)
    BY DEF EffectiveTags
<1>2. CASE EnvNames(key) # {}
  <2>1. own # None /\ Range(own) = EnvNames(key)
    BY <1>2, EnvTags
  <2>2. Filter(key) = EnvNames(key)
    BY <1>2 DEF Filter
  <2> HIDE DEF own
  <2> QED BY <1>1, <2>1, <2>2
<1>3. CASE EnvNames(key) = {}
  <2>1. own = None
    BY <1>3, EnvTags
  <2> HIDE DEF own
  <2>2. Filter(key) = IF cfg[key] = None THEN {} ELSE Range(cfg[key])
    BY <1>3 DEF Filter
  <2> QED BY <1>1, <2>1, <2>2
<1> QED BY <1>2, <1>3

-----------------------------------------------------------------------------
\* A visible fork that has not changed is due, at the last deadline, if its tags
\* are admitted and it has an idle deadline.
Served(e) ==
    LET def == ParseAt(files, e.name, e.path).def IN
    /\ TagsAllowed(Range(def.tags), Filter("enable_tags"), Filter("disable_tags"))
    /\ \E i \in DOMAIN def.run_on :
          /\ def.run_on[i][1] = "idle"
          /\ EffectiveSecs(def.run_on[i], cfg.default_idle_deadline) > 0

LEMMA DueIsServed ==
    ASSUME SessionInv, FilesInv, cfg.default_idle_deadline \in Int,
           elapsed = IdleDeadlines(RunOns(Visible), cfg.default_idle_deadline),
           NEW e \in Visible
    PROVE  DueAt(e.name, files[e.path]) <=> Served(e)
<1> DEFINE idle == cfg.default_idle_deadline
           parsed == ParseForkFile(e.name, Raw(files[e.path]))
           def == parsed.def
           r == def.run_on
           upTo == IF elapsed = {} THEN 0 ELSE Max(elapsed)
           moments == ElapsedMoments(NoTokens, 0, 0, elapsed, upTo)
           some == \E i \in DOMAIN r : r[i][1] = "idle" /\ EffectiveSecs(r[i], idle) > 0
           allowed == TagsAllowed(Range(def.tags), Filter("enable_tags"), Filter("disable_tags"))
<1>0. ChainOk
    BY SessionChain
<1>1. ParseAt(files, e.name, e.path) = parsed
    BY DEF ParseAt
<1>2. files[e.path] # Absent /\ parsed.kind = "fork" /\ IsRunOn(r)
    BY <1>0, <1>1, VisibleFacts, VisibleRunOn DEF IsFork
<1>3. PICK b \in Nat : \A d \in elapsed : d \in 1..b
    BY <1>0, DeadlinesBounded
<1>4. moments = {<<"idle", d, 0>> : d \in elapsed}
  <2>1. \A d \in elapsed : 0 + d <= upTo
    <3>1. CASE elapsed = {}
      BY <3>1
    <3>2. CASE elapsed # {}
      <4>1. elapsed \in SUBSET (1..b)
        BY <1>3
      <4>2. Max(elapsed) \in elapsed /\ \A d \in elapsed : d <= Max(elapsed)
        BY <3>2, <4>1, MaxOfIndices
      <4> QED BY <3>2, <4>1, <4>2
    <3> QED BY <3>1, <3>2
  <2> HIDE DEF upTo
  <2>2. {d \in elapsed : 0 + d <= upTo} = elapsed
    BY <2>1
  <2>3. moments = {<<"idle", d, 0>> : d \in {x \in elapsed : 0 + x <= upTo}}
    BY DEF ElapsedMoments
  <2> HIDE DEF moments
  <2> QED BY <2>2, <2>3
<1>5. ASSUME NEW i \in DOMAIN r, r[i][1] = "idle", EffectiveSecs(r[i], idle) > 0
      PROVE  EffectiveSecs(r[i], idle) \in elapsed
  <2>1. r \in RunOns(Visible)
    BY <1>1 DEF RunOns
  <2> HIDE DEF r
  <2> QED BY <1>5, <2>1 DEF IdleDeadlines
<1>6. MatchMoments(r, moments, idle) # NoTrigger <=> some
  <2>1. elapsed \in SUBSET Nat
    BY <1>3
  <2>2. MatchMoments(r, {<<"idle", d, 0>> : d \in elapsed}, idle) # NoTrigger
        <=> \E i \in DOMAIN r : /\ r[i][1] = "idle"
                                /\ EffectiveSecs(r[i], idle) > 0
                                /\ EffectiveSecs(r[i], idle) \in elapsed
    <3> HIDE DEF r, idle
    <3>1. idle \in Int
      BY DEF idle
    <3> QED BY <1>2, <2>1, <3>1, MatchMeans
  <2> HIDE DEF r, idle, moments
  <2> QED BY <1>4, <1>5, <2>2
<1>7. /\ EffectiveTags(env, cfg, "enable_tags") = Filter("enable_tags")
      /\ EffectiveTags(env, cfg, "disable_tags") = Filter("disable_tags")
    BY FilterIsRight DEF TagKeys
<1>8. DueAt(e.name, files[e.path]) <=>
         /\ files[e.path] # Absent
         /\ parsed.kind = "fork"
         /\ TagsAllowed(Range(def.tags), EffectiveTags(env, cfg, "enable_tags"),
                                         EffectiveTags(env, cfg, "disable_tags"))
         /\ MatchMoments(r, moments, idle) # NoTrigger
    BY Zenon DEF DueAt
<1>9. Served(e) <=> allowed /\ some
    BY <1>1 DEF Served
<1> HIDE DEF moments, some, r
<1> QED BY <1>2, <1>6, <1>7, <1>8, <1>9

\* Every visible fork is served at the last deadline, while nothing is edited: for
\* any files, tags, triggers and configuration (handle_stop_wait, select_forks).
THEOREM VisibleForksAreServed == Spec => []VisibleForksDue
<1>1. ASSUME SessionInv, FilesInv, DueInv PROVE VisibleForksDue
  <2> DEFINE found == {[name |-> s.name, path |-> s.path] : s \in selected}
  <2>1. ASSUME pc = "reading", todo = {}, ~touched, elapsed = deadlines
        PROVE  found = {e \in Visible : Served(e)}
    <3>1. /\ elapsed = IdleDeadlines(RunOns(Visible), cfg.default_idle_deadline)
          /\ cfg.default_idle_deadline \in Int
      BY <1>1, <2>1 DEF DueInv, DeadlinesKnown
    <3>2. roster = RosterNow /\ selected = Picked(DOMAIN roster)
      BY <1>1, <2>1 DEF DueInv, RosterKnown, SelectedKnown
    <3>3. ChainOk
      BY <1>1, SessionChain
    <3>4. DOMAIN roster = {e.name : e \in Visible} /\ \A e \in Visible : roster[e.name] = e.path
      BY <1>1, <3>2, <3>3, RosterEntries
    <3>5. \A e \in Visible : Due(e.name) <=> Served(e)
      BY <1>1, <3>1, <3>4, DueIsServed DEF Due
    <3>6. \A e \in Visible : e = [name |-> e.name, path |-> e.path]
      BY <1>1, <3>3, VisibleFacts
    <3>7. ASSUME NEW e \in Visible, Served(e) PROVE e \in found
      <4> DEFINE s == [name |-> e.name, path |-> roster[e.name], content |-> files[roster[e.name]]]
      <4>1. s \in selected
        BY <3>2, <3>4, <3>5, <3>7 DEF Picked
      <4>2. e = [name |-> s.name, path |-> s.path]
        BY <3>4, <3>6
      <4> HIDE DEF s
      <4> QED BY <4>1, <4>2
    <3>8. ASSUME NEW x \in found PROVE x \in Visible /\ Served(x)
      <4>1. PICK s \in selected : x = [name |-> s.name, path |-> s.path]
        OBVIOUS
      <4>2. PICK n \in DOMAIN roster :
               Due(n) /\ s = [name |-> n, path |-> roster[n], content |-> files[roster[n]]]
        BY <3>2 DEF Picked
      <4>3. x = [name |-> n, path |-> roster[n]]
        BY <4>1, <4>2
      <4>4. PICK e \in Visible : n = e.name
        BY <3>4
      <4>5. x = e
        BY <3>4, <3>6, <4>3, <4>4
      <4> QED BY <3>5, <4>2, <4>4, <4>5
    <3> HIDE DEF found
    <3> QED BY <3>7, <3>8
  <2> QED BY <2>1, Zenon DEF VisibleForksDue, Served, Filter, EnvNames
<1> QED BY <1>1, SessionKept, FilesKept, DueKept, PTL
=============================================================================
