--------------------------- MODULE DataTheorems ---------------------------
(***************************************************************************)
(* Induction and recursion over finite data, for the proofs about sums and *)
(* loops.  The set of the values that have a property takes the place of a *)
(* predicate, so that every fact here can be used as it stands.            *)
(***************************************************************************)
EXTENDS Integers, Sequences, FiniteSets, FiniteSetsExt, Functions, FiniteSetTheorems, TLAPS

\* A set of natural numbers that is not empty has a least element.
LEMMA LeastNatural ==
  ASSUME NEW T \in SUBSET Nat, T # {}
  PROVE  \E m \in T : \A k \in T : m <= k
<1> DEFINE R == OpToRel(<, Nat)
<1>1. IsWellFoundedOn(R, Nat)
  BY NatLessThanWellFounded
<1>2. \A i, j \in Nat : i < j => <<i, j>> \in R
  BY DEF OpToRel
<1> HIDE DEF R
<1>3. PICK m \in T : \A k \in T : ~(<<k, m>> \in R)
  BY <1>1, WFMin
<1>4. ASSUME NEW k \in T PROVE m <= k
  <2>1. m \in Nat /\ k \in Nat /\ ~(k < m)
    BY <1>2, <1>3
  <2> QED BY <2>1
<1> QED BY <1>4

\* Induction over the natural numbers.
LEMMA NaturalInduction ==
  ASSUME NEW G \in SUBSET Nat, 0 \in G, \A n \in G : n + 1 \in G
  PROVE  G = Nat
<1> SUFFICES ASSUME Nat \ G # {} PROVE FALSE
  OBVIOUS
<1>1. PICK m \in Nat \ G : \A k \in Nat \ G : m <= k
  BY LeastNatural
<1>2. m # 0 /\ m - 1 \in Nat /\ ~(m <= m - 1)
  BY <1>1
<1>3. m - 1 \in G
  BY <1>1, <1>2
<1>4. (m - 1) + 1 \in G /\ (m - 1) + 1 = m
  BY <1>1, <1>3
<1> QED BY <1>1, <1>4

\* Recursion over the natural numbers: a value that every step computes from the
\* one before is that of a function.
LEMMA RecursionExists ==
  ASSUME NEW V, NEW base \in V, NEW step \in [V -> V]
  PROVE  \E f \in [Nat -> V] : /\ f[0] = base
                               /\ \A n \in Nat : f[n + 1] = step[f[n]]
<1> DEFINE Upto(g, n) == g[0] = base /\ \A k \in Nat : k < n => g[k + 1] = step[g[k]]
           G == {n \in Nat : \E g \in [Nat -> V] : Upto(g, n)}
<1>1. 0 \in G
  <2> DEFINE g == [n \in Nat |-> base]
  <2>1. g \in [Nat -> V] /\ Upto(g, 0)
    OBVIOUS
  <2> QED BY <2>1
<1>2. ASSUME NEW n \in G PROVE n + 1 \in G
  <2>1. PICK g \in [Nat -> V] : Upto(g, n)
    BY <1>2
  <2> DEFINE h == [k \in Nat |-> IF k = n + 1 THEN step[g[n]] ELSE g[k]]
  <2>2. n \in Nat /\ step[g[n]] \in V
    BY <2>1
  <2>3. h \in [Nat -> V]
    BY <2>1, <2>2
  <2>4. h[0] = base
    BY <2>1, <2>2
  <2>5. ASSUME NEW k \in Nat, k < n + 1 PROVE h[k + 1] = step[h[k]]
    <3>1. h[k] = g[k]
      BY <2>2, <2>5
    <3>2. CASE k = n
      BY <2>2, <3>1, <3>2
    <3>3. CASE k < n
      BY <2>1, <2>2, <3>1, <3>3
    <3> QED BY <2>2, <2>5, <3>2, <3>3
  <2>6. Upto(h, n + 1)
    BY <2>4, <2>5
  <2> HIDE DEF h, Upto
  <2> QED BY <2>2, <2>3, <2>6
<1>3. G = Nat
  <2>1. G \in SUBSET Nat
    OBVIOUS
  <2> HIDE DEF G
  <2> QED BY <1>1, <1>2, <2>1, NaturalInduction
<1>4. ASSUME NEW m \in Nat, NEW n \in Nat, m <= n,
             NEW g \in [Nat -> V], Upto(g, m), NEW h \in [Nat -> V], Upto(h, n)
      PROVE  g[m] = h[m]
  <2> DEFINE E == {k \in Nat : k <= m => g[k] = h[k]}
  <2>1. E \in SUBSET Nat
    OBVIOUS
  <2>2. 0 \in E
    BY <1>4
  <2>3. ASSUME NEW k \in E PROVE k + 1 \in E
    <3> SUFFICES ASSUME k + 1 <= m PROVE g[k + 1] = h[k + 1]
      OBVIOUS
    <3>1. k \in Nat /\ k < m /\ k < n /\ k <= m
      BY <1>4
    <3>2. g[k] = h[k]
      BY <2>3, <3>1
    <3> QED BY <1>4, <3>1, <3>2
  <2>4. E = Nat
    <3> HIDE DEF E
    <3> QED BY <2>1, <2>2, <2>3, NaturalInduction
  <2> QED BY <2>4
<1> DEFINE g(n) == CHOOSE g \in [Nat -> V] : Upto(g, n)
           f == [n \in Nat |-> g(n)[n]]
<1>5. ASSUME NEW n \in Nat PROVE g(n) \in [Nat -> V] /\ Upto(g(n), n)
  <2>1. \E h \in [Nat -> V] : Upto(h, n)
    BY <1>3
  <2> HIDE DEF Upto
  <2> QED BY <2>1
<1> HIDE DEF g
<1>6. f \in [Nat -> V]
  BY <1>5
<1>7. f[0] = base
  BY <1>5
<1>8. ASSUME NEW n \in Nat PROVE f[n + 1] = step[f[n]]
  <2>1. PICK a \in [Nat -> V] : a = g(n) /\ Upto(a, n)
    BY <1>5
  <2>2. PICK b \in [Nat -> V] : b = g(n + 1) /\ Upto(b, n + 1)
    BY <1>5
  <2>3. a[n] = b[n]
    <3>1. n + 1 \in Nat /\ n <= n + 1
      OBVIOUS
    <3> HIDE DEF Upto
    <3> QED BY <1>4, <2>1, <2>2, <3>1
  <2>4. b[n + 1] = step[b[n]]
    BY <2>2
  <2> QED BY <2>1, <2>2, <2>3, <2>4
<1> QED BY <1>6, <1>7, <1>8

\* Induction over the subsets of a finite set: what holds of a set whenever it
\* holds of all smaller ones holds of all.
LEMMA SubsetInduction ==
  ASSUME NEW S, IsFiniteSet(S), NEW G \in SUBSET (SUBSET S),
         \A s \in SUBSET S :
           (\A t \in SUBSET S : Cardinality(t) < Cardinality(s) => t \in G) => s \in G
  PROVE  G = SUBSET S
<1> SUFFICES ASSUME NEW r \in SUBSET S, r \notin G PROVE FALSE
  OBVIOUS
<1> DEFINE T == {Cardinality(s) : s \in (SUBSET S) \ G}
<1>1. \A s \in SUBSET S : Cardinality(s) \in Nat
  BY FS_Subset, FS_CardinalityType
<1>2. T \in SUBSET Nat /\ T # {}
  BY <1>1
<1>3. PICK m \in T : \A k \in T : m <= k
  BY <1>2, LeastNatural
<1>4. PICK s \in (SUBSET S) \ G : Cardinality(s) = m
  BY <1>3
<1>5. ASSUME NEW t \in SUBSET S, Cardinality(t) < Cardinality(s) PROVE t \in G
  <2>1. Cardinality(t) \in Nat /\ Cardinality(s) \in Nat
    BY <1>1
  <2>2. CASE t \notin G
    <3>1. Cardinality(t) \in T
      BY <2>2
    <3>2. Cardinality(s) <= Cardinality(t)
      BY <1>3, <1>4, <3>1
    <3> QED BY <1>5, <2>1, <3>2
  <2> QED BY <2>2
<1> QED BY <1>4, <1>5

\* A subset without one of its elements is smaller.
LEMMA SmallerSubset ==
  ASSUME NEW S, IsFiniteSet(S), NEW s \in SUBSET S, NEW x \in s
  PROVE  /\ s \ {x} \in SUBSET S
         /\ Cardinality(s) \in Nat
         /\ Cardinality(s \ {x}) = Cardinality(s) - 1
         /\ Cardinality(s \ {x}) < Cardinality(s)
<1>1. IsFiniteSet(s)
  BY FS_Subset
<1>2. Cardinality(s) \in Nat
  BY <1>1, FS_CardinalityType
<1>3. Cardinality(s \ {x}) = Cardinality(s) - 1
  BY <1>1, FS_RemoveElement
<1> QED BY <1>2, <1>3

----------------------------------------------------------------------------
(* Recursion that takes a finite set apart, one chosen element at a time *)

\* The recursion equation of MapThenFoldSet, with its operators as functions.
Unfolds(h, S, base, step, c) ==
  h = [s \in SUBSET S |-> IF s = {} THEN base ELSE step[c[s]][h[s \ {c[s]}]]]

\* It has a solution.
LEMMA FoldExists ==
  ASSUME NEW S, IsFiniteSet(S), NEW V, NEW base \in V, NEW step \in [S -> [V -> V]],
         NEW c, \A s \in (SUBSET S) \ {{}} : c[s] \in s
  PROVE  \E h \in [SUBSET S -> V] : Unfolds(h, S, base, step, c)
<1> DEFINE Once(g) == [s \in SUBSET S |-> IF s = {} THEN base ELSE step[c[s]][g[s \ {c[s]}]]]
           Upto(g, n) == \A s \in SUBSET S : Cardinality(s) <= n => g[s] = Once(g)[s]
           G == {n \in Nat : \E g \in [SUBSET S -> V] : Upto(g, n)}
<1>1. \A g \in [SUBSET S -> V] : Once(g) \in [SUBSET S -> V]
  <2> SUFFICES ASSUME NEW g \in [SUBSET S -> V], NEW s \in SUBSET S, s # {}
               PROVE  step[c[s]][g[s \ {c[s]}]] \in V
    OBVIOUS
  <2>1. c[s] \in S /\ s \ {c[s]} \in SUBSET S
    OBVIOUS
  <2>2. g[s \ {c[s]}] \in V
    BY <2>1
  <2> QED BY <2>1, <2>2
<1>2. \A s \in SUBSET S : Cardinality(s) \in Nat /\ (Cardinality(s) = 0 => s = {})
  BY FS_Subset, FS_CardinalityType, FS_EmptySet
<1>3. 0 \in G
  <2> DEFINE g == [s \in SUBSET S |-> base]
  <2>1. g \in [SUBSET S -> V]
    OBVIOUS
  <2>2. Upto(g, 0)
    BY <1>2
  <2> QED BY <2>1, <2>2
<1>4. ASSUME NEW n \in G PROVE n + 1 \in G
  <2>0. n \in Nat
    OBVIOUS
  <2>1. PICK g \in [SUBSET S -> V] : Upto(g, n)
    BY <1>4
  <2>2. Once(g) \in [SUBSET S -> V]
    BY <1>1
  <2>3. Upto(Once(g), n + 1)
    <3> SUFFICES ASSUME NEW s \in SUBSET S, Cardinality(s) <= n + 1
                 PROVE  Once(g)[s] = Once(Once(g))[s]
      OBVIOUS
    <3>1. CASE s = {}
      BY <3>1
    <3>2. CASE s # {}
      <4>1. c[s] \in s
        BY <3>2
      <4>2. /\ s \ {c[s]} \in SUBSET S
            /\ Cardinality(s \ {c[s]}) = Cardinality(s) - 1
            /\ Cardinality(s) \in Nat
        <5>1. PICK x \in s : x = c[s]
          BY <4>1
        <5>2. /\ s \ {x} \in SUBSET S
              /\ Cardinality(s \ {x}) = Cardinality(s) - 1
              /\ Cardinality(s) \in Nat
          BY SmallerSubset
        <5> QED BY <5>1, <5>2
      <4>3. Cardinality(s \ {c[s]}) <= n
        BY <2>0, <4>2
      <4>4. g[s \ {c[s]}] = Once(g)[s \ {c[s]}]
        BY <2>1, <4>2, <4>3
      <4>5. /\ Once(g)[s] = step[c[s]][g[s \ {c[s]}]]
            /\ Once(Once(g))[s] = step[c[s]][Once(g)[s \ {c[s]}]]
        BY <3>2
      <4> QED BY <4>4, <4>5
    <3> QED BY <3>1, <3>2
  <2> HIDE DEF Once, Upto
  <2> QED BY <2>2, <2>3
<1> HIDE DEF Once, Upto
<1>5. Cardinality(S) \in G
  <2>1. G = Nat
    BY <1>3, <1>4, NaturalInduction
  <2> QED BY <2>1, FS_CardinalityType
<1>6. PICK g \in [SUBSET S -> V] : Upto(g, Cardinality(S))
  BY <1>5
<1>7. ASSUME NEW s \in SUBSET S PROVE g[s] = Once(g)[s]
  <2>1. Cardinality(s) <= Cardinality(S)
    BY FS_Subset
  <2> QED BY <1>6, <2>1 DEF Upto
<1>8. g = Once(g)
  <2>1. Once(g) \in [SUBSET S -> V]
    BY <1>1
  <2> QED BY <1>7, <2>1
<1> QED BY <1>8 DEF Once, Unfolds

----------------------------------------------------------------------------
(* Loops over a list.  FoldLeft takes the set of indices apart from its end. *)

\* A set of indices has a last one.
LEMMA LastIndex ==
  ASSUME NEW N \in Nat, NEW s \in SUBSET (1..N), s # {}
  PROVE  Max(s) \in s
<1> DEFINE T == {N - i : i \in s}
<1>1. T \in SUBSET Nat /\ T # {}
  <2>1. \A i \in s : N - i \in Nat
    OBVIOUS
  <2>2. PICK i \in s : TRUE
    OBVIOUS
  <2>3. N - i \in T
    BY <2>2
  <2> QED BY <2>1, <2>3
<1>2. PICK m \in T : \A k \in T : m <= k
  BY <1>1, LeastNatural
<1>3. PICK x \in s : m = N - x
  BY <1>2
<1>4. ASSUME NEW y \in s PROVE x >= y
  <2>1. N - x <= N - y
    BY <1>2, <1>3
  <2> QED BY <2>1
<1>5. \E z \in s : \A y \in s : z >= y
  BY <1>4
<1> QED BY <1>5 DEF Max

\* The last of the first k indices is k.
LEMMA LastOfPrefix ==
  ASSUME NEW k \in Nat, k # 0
  PROVE  Max(1..k) = k /\ (1..k) \ {k} = 1..(k - 1) /\ 1..k # {}
<1>1. k \in 1..k /\ \A y \in 1..k : k >= y
  OBVIOUS
<1>2. Max(1..k) \in 1..k /\ \A y \in 1..k : Max(1..k) >= y
  <2> DEFINE P(x) == \A y \in 1..k : x >= y
  <2>1. \E x \in 1..k : P(x)
    BY <1>1
  <2>2. Max(1..k) = CHOOSE x \in 1..k : P(x)
    BY DEF Max
  <2> HIDE DEF P
  <2>3. Max(1..k) \in 1..k /\ P(Max(1..k))
    BY <2>1, <2>2
  <2> QED BY <2>3 DEF P
<1>3. Max(1..k) = k
  BY <1>1, <1>2
<1> QED BY <1>1, <1>3

\* The values of a loop whose body is a function of the element and of the value
\* so far, for every set of indices.
LoopValues(h, seq, V, base, step) ==
  /\ h \in [SUBSET (DOMAIN seq) -> V]
  /\ \A s \in SUBSET (DOMAIN seq) :
       h[s] = IF s = {} THEN base ELSE step[seq[Max(s)]][h[s \ {Max(s)}]]

\* Such a loop has them.
LEMMA LoopExists ==
  ASSUME NEW X, NEW seq \in Seq(X), NEW V, NEW base \in V, NEW step \in [X -> [V -> V]]
  PROVE  \E h : LoopValues(h, seq, V, base, step)
<1> DEFINE S == DOMAIN seq
           body == [i \in S |-> step[seq[i]]]
           c == [s \in SUBSET S |-> Max(s)]
<1>1. Len(seq) \in Nat /\ S = 1..Len(seq) /\ \A i \in S : seq[i] \in X
  OBVIOUS
<1>2. IsFiniteSet(S)
  BY <1>1, FS_Interval
<1>3. body \in [S -> [V -> V]]
  BY <1>1
<1>4. \A s \in (SUBSET S) \ {{}} : Max(s) \in s /\ c[s] = Max(s) /\ c[s] \in s
  BY <1>1, LastIndex
<1>5. PICK h \in [SUBSET S -> V] : Unfolds(h, S, base, body, c)
  <2> HIDE DEF S, body, c
  <2> QED BY <1>2, <1>3, <1>4, FoldExists
<1>6. ASSUME NEW s \in SUBSET S
      PROVE  h[s] = IF s = {} THEN base ELSE step[seq[Max(s)]][h[s \ {Max(s)}]]
  <2>1. CASE s = {}
    BY <1>5, <2>1 DEF Unfolds
  <2>2. CASE s # {}
    <3>1. Max(s) \in S /\ c[s] = Max(s)
      BY <1>4, <2>2
    <3>2. h[s] = body[c[s]][h[s \ {c[s]}]]
      <4> HIDE DEF S, body, c
      <4> QED BY <1>5, <2>2 DEF Unfolds
    <3> QED BY <2>2, <3>1, <3>2
  <2> QED BY <2>1, <2>2
<1> QED BY <1>5, <1>6 DEF LoopValues


----------------------------------------------------------------------------
(* Sums *)

\* The element that the sums of module Functions take next.
NextIn(s) == CHOOSE x \in s : TRUE

\* It is an element, if there is one.
LEMMA AnyElement ==
  ASSUME NEW s, s # {}
  PROVE  NextIn(s) \in s
BY DEF NextIn

\* The partial sums that SumFunction computes.
NextTerm(h, S, f, s, x) ==
  /\ x \in s /\ x \in S
  /\ s \ {x} \in SUBSET S
  /\ Cardinality(s \ {x}) < Cardinality(s)
  /\ f[x] \in Int /\ h[s \ {x}] \in Int
  /\ h[s] = f[x] + h[s \ {x}]

PartialSums(h, S, f) ==
  /\ h \in [SUBSET S -> Int]
  /\ h[{}] = 0
  /\ \A s \in SUBSET S : s # {} => NextTerm(h, S, f, s, NextIn(s))

\* SumFunction has partial sums: the recursion in its definition has a solution.
LEMMA SumUnfold ==
  ASSUME NEW S, IsFiniteSet(S), NEW f \in [S -> Int]
  PROVE  \E h : PartialSums(h, S, f) /\ SumFunction(f) = h[S]
<1> DEFINE Eq(h) == h = [s \in SUBSET S |->
                           IF s = {} THEN 0 ELSE f[NextIn(s)] + h[s \ {NextIn(s)}]]
           sum == CHOOSE h : Eq(h)
<1>1. SumFunction(f) = sum[S]
  BY DEF SumFunction, SumFunctionOnSet, FoldFunctionOnSet, MapThenFoldSet, NextIn
<1>2. \E h \in [SUBSET S -> Int] : Eq(h)
  <2> DEFINE step == [x \in S |-> [v \in Int |-> f[x] + v]]
             c == [s \in SUBSET S |-> NextIn(s)]
             V == Int
             zero == 0
  <2>1. zero \in V /\ step \in [S -> [V -> V]]
    OBVIOUS
  <2>2. \A s \in (SUBSET S) \ {{}} : c[s] \in s
    BY AnyElement
  <2> HIDE DEF step, c, V, zero
  <2>3. PICK h \in [SUBSET S -> V] : Unfolds(h, S, zero, step, c)
    BY <2>1, <2>2, FoldExists
  <2> USE DEF V, zero
  <2>4. ASSUME NEW s \in SUBSET S
        PROVE  h[s] = IF s = {} THEN 0 ELSE f[NextIn(s)] + h[s \ {NextIn(s)}]
    <3>1. CASE s = {}
      BY <2>3, <3>1 DEF Unfolds
    <3>2. CASE s # {}
      <4>1. NextIn(s) \in S /\ s \ {NextIn(s)} \in SUBSET S /\ c[s] = NextIn(s)
        BY <3>2, AnyElement DEF c
      <4>2. h[s] = step[NextIn(s)][h[s \ {NextIn(s)}]]
        BY <2>3, <3>2, <4>1 DEF Unfolds
      <4>3. h[s \ {NextIn(s)}] \in Int
        BY <2>3, <4>1
      <4> QED BY <3>2, <4>1, <4>2, <4>3 DEF step
    <3> QED BY <3>1, <3>2
  <2>5. Eq(h)
    <3> DEFINE e(s) == IF s = {} THEN 0 ELSE f[NextIn(s)] + h[s \ {NextIn(s)}]
    <3>1. \A s \in SUBSET S : h[s] = e(s)
      BY <2>4
    <3>2. h = [s \in SUBSET S |-> h[s]]
      BY <2>3
    <3> HIDE DEF e
    <3>3. h = [s \in SUBSET S |-> e(s)]
      BY <3>1, <3>2
    <3> QED BY <3>3 DEF e
  <2> QED BY <2>3, <2>5
<1>3. Eq(sum)
  <2> HIDE DEF Eq
  <2> QED BY <1>2 DEF sum
<1> HIDE DEF sum
<1>4. /\ sum[{}] = 0
      /\ \A s \in SUBSET S : s # {} => sum[s] = f[NextIn(s)] + sum[s \ {NextIn(s)}]
  BY <1>3
<1>5. \A s \in SUBSET S : sum[s] \in Int
  <2> DEFINE G == {s \in SUBSET S : sum[s] \in Int}
  <2>1. ASSUME NEW s \in SUBSET S,
               \A t \in SUBSET S : Cardinality(t) < Cardinality(s) => t \in G
        PROVE  s \in G
    <3>1. CASE s = {}
      BY <1>4, <3>1
    <3>2. CASE s # {}
      <4>1. PICK x \in s : x = NextIn(s)
        BY <3>2, AnyElement
      <4>2. s \ {x} \in SUBSET S /\ Cardinality(s \ {x}) < Cardinality(s)
        BY SmallerSubset
      <4>3. sum[s \ {x}] \in Int
        BY <2>1, <4>2
      <4>4. sum[s] = f[x] + sum[s \ {x}]
        BY <1>4, <3>2, <4>1
      <4> QED BY <4>3, <4>4
    <3> QED BY <3>1, <3>2
  <2>2. G \in SUBSET (SUBSET S)
    OBVIOUS
  <2>3. G = SUBSET S
    <3> HIDE DEF G
    <3> QED BY <2>1, <2>2, SubsetInduction
  <2> QED BY <2>3
<1>6. sum \in [SUBSET S -> Int]
  <2>1. \A s \in SUBSET S :
          (IF s = {} THEN 0 ELSE f[NextIn(s)] + sum[s \ {NextIn(s)}]) \in Int
    BY <1>4, <1>5
  <2> QED BY <1>3, <2>1
<1>7. ASSUME NEW s \in SUBSET S, s # {} PROVE NextTerm(sum, S, f, s, NextIn(s))
  <2>1. PICK x \in s : x = NextIn(s)
    BY <1>7, AnyElement
  <2>2. s \ {x} \in SUBSET S /\ Cardinality(s \ {x}) < Cardinality(s)
    BY SmallerSubset
  <2>3. sum[s \ {x}] \in Int /\ f[x] \in Int
    BY <1>5, <2>2
  <2>4. sum[s] = f[x] + sum[s \ {x}]
    BY <1>4, <1>7, <2>1
  <2> QED BY <2>1, <2>2, <2>3, <2>4 DEF NextTerm
<1>8. PartialSums(sum, S, f)
  BY <1>4, <1>6, <1>7 DEF PartialSums
<1> QED BY <1>1, <1>8

\* A sum of integers is an integer.
LEMMA SumType ==
  ASSUME NEW S, IsFiniteSet(S), NEW f \in [S -> Int]
  PROVE  SumFunction(f) \in Int
<1>1. PICK h : PartialSums(h, S, f) /\ SumFunction(f) = h[S]
  BY SumUnfold
<1> QED BY <1>1 DEF PartialSums

\* A sum changes by as much as its only changed term.
LEMMA SumUpdate ==
  ASSUME NEW S, IsFiniteSet(S), NEW f \in [S -> Int], NEW g \in [S -> Int], NEW x \in S,
         \A y \in S : y # x => g[y] = f[y]
  PROVE  SumFunction(g) = SumFunction(f) - f[x] + g[x]
<1>1. PICK hf : PartialSums(hf, S, f) /\ SumFunction(f) = hf[S]
  BY SumUnfold
<1>2. PICK hg : PartialSums(hg, S, g) /\ SumFunction(g) = hg[S]
  BY SumUnfold
<1> DEFINE diff(s) == IF x \in s THEN g[x] - f[x] ELSE 0
           G == {s \in SUBSET S : hg[s] = hf[s] + diff(s)}
<1>3. ASSUME NEW s \in SUBSET S,
             \A t \in SUBSET S : Cardinality(t) < Cardinality(s) => t \in G
      PROVE  s \in G
  <2>1. CASE s = {}
    BY <1>1, <1>2, <2>1 DEF PartialSums
  <2>2. CASE s # {}
    <3>0. PICK y : y = NextIn(s)
      OBVIOUS
    <3>1. NextTerm(hf, S, f, s, y)
      BY <1>1, <2>2, <3>0 DEF PartialSums
    <3>2. NextTerm(hg, S, g, s, y)
      BY <1>2, <2>2, <3>0 DEF PartialSums
    <3> USE DEF NextTerm
    <3>3. hg[s \ {y}] = hf[s \ {y}] + diff(s \ {y})
      BY <1>3, <3>1
    <3>4. f[x] \in Int /\ g[x] \in Int
      OBVIOUS
    <3>5. g[y] + diff(s \ {y}) = f[y] + diff(s)
      BY <3>1, <3>2, <3>4
    <3>6. diff(s) \in Int /\ diff(s \ {y}) \in Int
      BY <3>4
    <3> HIDE DEF diff
    <3>7. hg[s] = hf[s] + diff(s)
      BY <3>1, <3>2, <3>3, <3>5, <3>6
    <3> QED BY <3>7
  <2> QED BY <2>1, <2>2
<1>4. G \in SUBSET (SUBSET S)
  OBVIOUS
<1>5. G = SUBSET S
  <2> HIDE DEF G
  <2> QED BY <1>3, <1>4, SubsetInduction
<1>6. hg[S] = hf[S] + (g[x] - f[x])
  BY <1>5
<1>7. hf[S] \in Int /\ f[x] \in Int /\ g[x] \in Int
  BY <1>1 DEF PartialSums
<1> QED BY <1>1, <1>2, <1>6, <1>7

\* A sum of terms that are at most those of another is at most the other.
LEMMA SumMonotone ==
  ASSUME NEW S, IsFiniteSet(S), NEW f \in [S -> Int], NEW g \in [S -> Int],
         \A y \in S : f[y] <= g[y]
  PROVE  SumFunction(f) <= SumFunction(g)
<1>1. PICK hf : PartialSums(hf, S, f) /\ SumFunction(f) = hf[S]
  BY SumUnfold
<1>2. PICK hg : PartialSums(hg, S, g) /\ SumFunction(g) = hg[S]
  BY SumUnfold
<1> DEFINE G == {s \in SUBSET S : hf[s] <= hg[s]}
<1>3. ASSUME NEW s \in SUBSET S,
             \A t \in SUBSET S : Cardinality(t) < Cardinality(s) => t \in G
      PROVE  s \in G
  <2>1. CASE s = {}
    BY <1>1, <1>2, <2>1 DEF PartialSums
  <2>2. CASE s # {}
    <3>0. PICK y : y = NextIn(s)
      OBVIOUS
    <3>1. NextTerm(hf, S, f, s, y)
      BY <1>1, <2>2, <3>0 DEF PartialSums
    <3>2. NextTerm(hg, S, g, s, y)
      BY <1>2, <2>2, <3>0 DEF PartialSums
    <3> USE DEF NextTerm
    <3>3. hf[s \ {y}] <= hg[s \ {y}] /\ f[y] <= g[y]
      BY <1>3, <3>1
    <3>4. hf[s] <= hg[s]
      BY <3>1, <3>2, <3>3
    <3> QED BY <3>4
  <2> QED BY <2>1, <2>2
<1>4. G \in SUBSET (SUBSET S)
  OBVIOUS
<1>5. G = SUBSET S
  <2> HIDE DEF G
  <2> QED BY <1>3, <1>4, SubsetInduction
<1> QED BY <1>1, <1>2, <1>5

\* The sum of the sums of terms is the sum of the two sums.
LEMMA SumOfSums ==
  ASSUME NEW S, IsFiniteSet(S), NEW f \in [S -> Int], NEW g \in [S -> Int],
         NEW k \in [S -> Int], \A y \in S : k[y] = f[y] + g[y]
  PROVE  SumFunction(k) = SumFunction(f) + SumFunction(g)
<1>1. PICK hf : PartialSums(hf, S, f) /\ SumFunction(f) = hf[S]
  BY SumUnfold
<1>2. PICK hg : PartialSums(hg, S, g) /\ SumFunction(g) = hg[S]
  BY SumUnfold
<1>3. PICK hk : PartialSums(hk, S, k) /\ SumFunction(k) = hk[S]
  BY SumUnfold
<1> DEFINE G == {s \in SUBSET S : hk[s] = hf[s] + hg[s]}
<1>4. ASSUME NEW s \in SUBSET S,
             \A t \in SUBSET S : Cardinality(t) < Cardinality(s) => t \in G
      PROVE  s \in G
  <2>1. CASE s = {}
    BY <1>1, <1>2, <1>3, <2>1 DEF PartialSums
  <2>2. CASE s # {}
    <3>0. PICK y : y = NextIn(s)
      OBVIOUS
    <3>1. NextTerm(hf, S, f, s, y)
      BY <1>1, <2>2, <3>0 DEF PartialSums
    <3>2. NextTerm(hg, S, g, s, y)
      BY <1>2, <2>2, <3>0 DEF PartialSums
    <3>3. NextTerm(hk, S, k, s, y)
      BY <1>3, <2>2, <3>0 DEF PartialSums
    <3> USE DEF NextTerm
    <3>4. hk[s \ {y}] = hf[s \ {y}] + hg[s \ {y}] /\ k[y] = f[y] + g[y]
      BY <1>4, <3>1
    <3>5. hk[s] = hf[s] + hg[s]
      BY <3>1, <3>2, <3>3, <3>4
    <3> QED BY <3>5
  <2> QED BY <2>1, <2>2
<1>5. G \in SUBSET (SUBSET S)
  OBVIOUS
<1>6. G = SUBSET S
  <2> HIDE DEF G
  <2> QED BY <1>4, <1>5, SubsetInduction
<1> QED BY <1>1, <1>2, <1>3, <1>6

\* The sum of equal terms.
LEMMA SumConstant ==
  ASSUME NEW S, IsFiniteSet(S), NEW k \in Int, NEW f \in [S -> Int], \A y \in S : f[y] = k
  PROVE  SumFunction(f) = k * Cardinality(S)
<1>1. PICK h : PartialSums(h, S, f) /\ SumFunction(f) = h[S]
  BY SumUnfold
<1> DEFINE G == {s \in SUBSET S : h[s] = k * Cardinality(s)}
<1>2. ASSUME NEW s \in SUBSET S,
             \A t \in SUBSET S : Cardinality(t) < Cardinality(s) => t \in G
      PROVE  s \in G
  <2>1. CASE s = {}
    BY <1>1, <2>1, FS_EmptySet DEF PartialSums
  <2>2. CASE s # {}
    <3>0. PICK y : y = NextIn(s)
      OBVIOUS
    <3>1. NextTerm(h, S, f, s, y)
      BY <1>1, <2>2, <3>0 DEF PartialSums
    <3> USE DEF NextTerm
    <3>2. Cardinality(s \ {y}) = Cardinality(s) - 1 /\ Cardinality(s) \in Nat
      BY <3>1, SmallerSubset
    <3>3. h[s] = k + k * (Cardinality(s) - 1)
      BY <1>2, <3>1, <3>2
    <3>4. \A n \in Nat : k + k * (n - 1) = k * n
      OBVIOUS
    <3>5. h[s] = k * Cardinality(s)
      BY <3>2, <3>3, <3>4
    <3> QED BY <3>5
  <2> QED BY <2>1, <2>2
<1>3. G \in SUBSET (SUBSET S)
  OBVIOUS
<1>4. G = SUBSET S
  <2> HIDE DEF G
  <2> QED BY <1>2, <1>3, SubsetInduction
<1> QED BY <1>1, <1>4

\* The sum of zeros.
LEMMA SumZero ==
  ASSUME NEW S, IsFiniteSet(S), NEW f \in [S -> Int], \A y \in S : f[y] = 0
  PROVE  SumFunction(f) = 0
<1>1. SumFunction(f) = 0 * Cardinality(S)
  BY SumConstant
<1>2. Cardinality(S) \in Nat
  BY FS_CardinalityType
<1> QED BY <1>1, <1>2

\* A sum of natural numbers is a natural number.
LEMMA SumNatural ==
  ASSUME NEW S, IsFiniteSet(S), NEW f \in [S -> Nat]
  PROVE  SumFunction(f) \in Nat
<1> DEFINE zero == [y \in S |-> 0]
<1>1. zero \in [S -> Int] /\ f \in [S -> Int] /\ \A y \in S : zero[y] = 0 /\ zero[y] <= f[y]
  OBVIOUS
<1> HIDE DEF zero
<1>2. SumFunction(zero) = 0
  BY <1>1, SumZero
<1>3. SumFunction(zero) <= SumFunction(f)
  BY <1>1, SumMonotone
<1>4. SumFunction(f) \in Int
  BY <1>1, SumType
<1> QED BY <1>2, <1>3, <1>4

\* A sum whose terms are all 0 but one.
LEMMA SumSingle ==
  ASSUME NEW S, IsFiniteSet(S), NEW f \in [S -> Int], NEW x \in S,
         \A y \in S : y # x => f[y] = 0
  PROVE  SumFunction(f) = f[x]
<1> DEFINE zero == [y \in S |-> 0]
<1>1. /\ zero \in [S -> Int] /\ zero[x] = 0
      /\ \A y \in S : zero[y] = 0
      /\ \A y \in S : y # x => f[y] = zero[y]
  OBVIOUS
<1> HIDE DEF zero
<1>2. SumFunction(zero) = 0
  BY <1>1, SumZero
<1>3. SumFunction(f) = SumFunction(zero) - zero[x] + f[x]
  BY <1>1, SumUpdate
<1>4. f[x] \in Int
  OBVIOUS
<1> QED BY <1>1, <1>2, <1>3, <1>4

\* The order in which a sum takes its terms does not matter: any of them can be
\* taken first.
LEMMA SumRemove ==
  ASSUME NEW S, IsFiniteSet(S), NEW f \in [S -> Int], NEW h, PartialSums(h, S, f),
         NEW r \in SUBSET S, NEW z \in r
  PROVE  h[r] = f[z] + h[r \ {z}]
<1> DEFINE G == {s \in SUBSET S : \A x \in s : h[s] = f[x] + h[s \ {x}]}
<1>1. ASSUME NEW s \in SUBSET S,
             \A t \in SUBSET S : Cardinality(t) < Cardinality(s) => t \in G
      PROVE  s \in G
  <2> SUFFICES ASSUME NEW x \in s PROVE h[s] = f[x] + h[s \ {x}]
    OBVIOUS
  <2>0. PICK y : y = NextIn(s)
    OBVIOUS
  <2>1. NextTerm(h, S, f, s, y)
    BY <2>0 DEF PartialSums
  <2> USE DEF NextTerm
  <2>2. CASE x = y
    BY <2>1, <2>2
  <2>3. CASE x # y
    <3>1. /\ s \ {x} \in SUBSET S /\ Cardinality(s \ {x}) < Cardinality(s)
      BY SmallerSubset
    <3>2. x \in s \ {y} /\ y \in s \ {x} /\ (s \ {y}) \ {x} = (s \ {x}) \ {y}
      BY <2>1, <2>3
    <3>3. h[s \ {y}] = f[x] + h[(s \ {y}) \ {x}]
      BY <1>1, <2>1, <3>2
    <3>4. h[s \ {x}] = f[y] + h[(s \ {x}) \ {y}]
      BY <1>1, <3>1, <3>2
    <3>5. f[x] \in Int /\ h[(s \ {x}) \ {y}] \in Int
      BY <3>2 DEF PartialSums
    <3>6. h[s \ {y}] = f[x] + h[(s \ {x}) \ {y}]
      BY <3>2, <3>3
    <3> QED BY <2>1, <3>4, <3>5, <3>6
  <2> QED BY <2>2, <2>3
<1>2. G \in SUBSET (SUBSET S)
  OBVIOUS
<1>3. G = SUBSET S
  <2> HIDE DEF G
  <2> QED BY <1>1, <1>2, SubsetInduction
<1> QED BY <1>3

\* One more term.
LEMMA SumExtend ==
  ASSUME NEW S, IsFiniteSet(S), NEW f \in [S -> Int], NEW R,
         NEW x \in R, x \notin S, S \subseteq R, \A y \in R : y \in S \/ y = x,
         NEW g \in [R -> Int], \A y \in S : g[y] = f[y]
  PROVE  SumFunction(g) = SumFunction(f) + g[x]
<1>0. IsFiniteSet(R) /\ x \in R /\ R \ {x} = S /\ SUBSET S \subseteq SUBSET R
  <2>1. R = S \cup {x}
    OBVIOUS
  <2> QED BY <2>1, FS_AddElement
<1>1. PICK hf : PartialSums(hf, S, f) /\ SumFunction(f) = hf[S]
  BY SumUnfold
<1>2. PICK hg : PartialSums(hg, R, g) /\ SumFunction(g) = hg[R]
  BY <1>0, SumUnfold
<1> DEFINE G == {s \in SUBSET S : hg[s] = hf[s]}
<1>3. ASSUME NEW s \in SUBSET S,
             \A t \in SUBSET S : Cardinality(t) < Cardinality(s) => t \in G
      PROVE  s \in G
  <2>0. s \in SUBSET R
    BY <1>0
  <2>1. CASE s = {}
    BY <1>1, <1>2, <2>1 DEF PartialSums
  <2>2. CASE s # {}
    <3>0. PICK y : y = NextIn(s)
      OBVIOUS
    <3>1. NextTerm(hf, S, f, s, y)
      BY <1>1, <2>2, <3>0 DEF PartialSums
    <3>2. NextTerm(hg, R, g, s, y)
      BY <1>0, <1>2, <2>0, <2>2, <3>0 DEF PartialSums
    <3> USE DEF NextTerm
    <3>3. hg[s \ {y}] = hf[s \ {y}] /\ g[y] = f[y]
      BY <1>3, <3>1
    <3> QED BY <3>1, <3>2, <3>3
  <2> QED BY <2>1, <2>2
<1>4. G \in SUBSET (SUBSET S)
  OBVIOUS
<1>5. G = SUBSET S
  <2> HIDE DEF G
  <2> QED BY <1>3, <1>4, SubsetInduction
<1>6. hg[R] = g[x] + hg[S]
  <2>1. hg[R] = g[x] + hg[R \ {x}]
    BY <1>0, <1>2, SumRemove
  <2> QED BY <1>0, <2>1
<1>7. hf[S] \in Int /\ g[x] \in Int
  BY <1>0, <1>1 DEF PartialSums
<1> QED BY <1>1, <1>2, <1>5, <1>6, <1>7

============================================================================
