--------------------------- MODULE LeastElements ---------------------------
(***************************************************************************)
(* Least elements: the form of induction that the proofs about lists and   *)
(* probe sequences use, and what it gives for functions defined step by    *)
(* step.                                                                   *)
(***************************************************************************)
EXTENDS Integers, FiniteSets, FiniteSetTheorems, WellFoundedInduction, TLAPS

\* A finite set has an element that is lowest by any integer rank.
LEMMA LowestRank ==
  ASSUME NEW S, IsFiniteSet(S), S # {}, NEW r \in [S -> Int]
  PROVE  \E m \in S : \A n \in S : r[m] <= r[n]
  <1> DEFINE below(b) == {c \in S : r[c] < r[b]}
             T == {below(b) : b \in S}
  <1>1. IsWellFoundedOn(StrictSubsetOrdering(S), FiniteSubsetsOf(S))
    BY FS_StrictSubsetOrderingWellFounded
  <1>2. T \subseteq FiniteSubsetsOf(S) /\ T # {}
    <2>1. \A b \in S : below(b) \in SUBSET S
      OBVIOUS
    <2>2. \A U \in SUBSET S : IsFiniteSet(U)
      BY FS_Subset
    <2>3. \A b \in S : below(b) \in FiniteSubsetsOf(S)
      <3> HIDE DEF below
      <3> QED BY <2>1, <2>2 DEF FiniteSubsetsOf
    <2> HIDE DEF below
    <2> QED BY <2>3
  <1> HIDE DEF T
  <1>3. PICK x \in T : \A y \in T : ~(<<y, x>> \in StrictSubsetOrdering(S))
    BY <1>1, <1>2, WFMin
  <1>4. PICK m \in S : x = below(m)
    BY DEF T
  <1>5. ASSUME NEW n \in S, r[n] < r[m]
        PROVE  FALSE
    <2>1. below(n) \subseteq below(m) /\ n \in below(m) /\ n \notin below(n)
      BY <1>5
    <2>2. below(n) \in T
      BY DEF T
    <2>3. <<below(n), below(m)>> \in StrictSubsetOrdering(S)
      BY <2>1, <1>4, <1>2, <2>2 DEF StrictSubsetOrdering
    <2> QED BY <1>3, <1>4, <2>2, <2>3
  <1> QED BY <1>5

\* A set of naturals that is not empty has a least element.
LEMMA LeastNatural ==
  ASSUME NEW T \in SUBSET Nat, NEW t \in T
  PROVE  \E m \in T : \A n \in T : m <= n
  <1> DEFINE S == T \cap (0 .. t)
             r == [n \in S |-> n]
  <1>1. IsFiniteSet(S)
    <2>1. IsFiniteSet(0 .. t)
      BY FS_Interval
    <2> QED BY <2>1, FS_Subset
  <1>2. t \in S /\ r \in [S -> Int]
    OBVIOUS
  <1> HIDE DEF r, S
  <1>3. PICK m \in S : \A n \in S : r[m] <= r[n]
    BY <1>1, <1>2, LowestRank
  <1>4. ASSUME NEW n \in T PROVE m <= n
    BY <1>3 DEF S, r
  <1> QED BY <1>4 DEF S

\* A sequence of integers that grows at every step grows over any stretch.
LEMMA GrowsSteadily ==
  ASSUME NEW k \in Nat, NEW f, \A n \in 0 .. k - 1 : f[n] \in Int,
         \A n \in 0 .. k - 1 : n + 1 <= k - 1 => f[n] < f[n + 1]
  PROVE  \A m, n \in 0 .. k - 1 : m < n => f[m] < f[n]
  <1> SUFFICES ASSUME NEW m \in 0 .. k - 1, NEW n0 \in 0 .. k - 1, m < n0, ~(f[m] < f[n0])
               PROVE  FALSE
    OBVIOUS
  <1> DEFINE T == {n \in 0 .. k - 1 : m < n /\ ~(f[m] < f[n])}
  <1>1. T \in SUBSET Nat /\ n0 \in T
    OBVIOUS
  <1> HIDE DEF T
  <1>2. PICK n \in T : \A q \in T : n <= q
    BY <1>1, LeastNatural
  <1>3. n \in 0 .. k - 1 /\ m < n /\ ~(f[m] < f[n]) /\ n - 1 \in 0 .. k - 1
    BY DEF T
  <1>4. f[n - 1] < f[n]
    <2>1. (n - 1) + 1 = n
      BY <1>3
    <2> QED BY <1>3, <2>1
  <1>5. n - 1 \notin T
    BY <1>2, <1>3
  <1>6. m = n - 1 \/ f[m] < f[n - 1]
    BY <1>3, <1>5 DEF T
  <1>7. f[m] \in Int /\ f[n] \in Int /\ f[n - 1] \in Int
    BY <1>3
  <1> QED BY <1>3, <1>4, <1>6, <1>7

\* There is a function that starts at v0 and takes the steps G.
Stepwise(n, V, v0, G) ==
  \E f \in [0 .. n -> V] : f[0] = v0 /\ \A i \in 1 .. n : f[i] = G[i][f[i - 1]]

\* A function that is defined step by step exists.
LEMMA StepByStep ==
  ASSUME NEW n, n \in Nat, NEW V, NEW v0, v0 \in V, NEW G, G \in [1 .. n -> [V -> V]]
  PROVE  Stepwise(n, V, v0, G)
  <1> USE DEF Stepwise
  <1> DEFINE Steps(k, f) == f[0] = v0 /\ \A i \in 1 .. k : f[i] = G[i][f[i - 1]]
             T == {k \in 0 .. n : ~ \E f \in [0 .. k -> V] : Steps(k, f)}
  <1> SUFFICES ASSUME n \in T PROVE FALSE
    OBVIOUS
  <1>1. PICK k \in T : \A m \in T : k <= m
    <2>1. T \in SUBSET Nat
      OBVIOUS
    <2> HIDE DEF T
    <2> QED BY <2>1, LeastNatural
  <1>2. k \in 0 .. n /\ ~ \E f \in [0 .. k -> V] : Steps(k, f)
    OBVIOUS
  <1>3. k # 0
    <2>1. [i \in 0 .. 0 |-> v0] \in [0 .. 0 -> V] /\ Steps(0, [i \in 0 .. 0 |-> v0])
      OBVIOUS
    <2> HIDE DEF Steps
    <2> QED BY <1>2, <2>1
  <1>4. k - 1 \in 0 .. n /\ k - 1 \notin T /\ k \in 1 .. n
    <2>1. k \in 1 .. n /\ k - 1 \in 0 .. n /\ ~(k <= k - 1)
      BY <1>2, <1>3
    <2> HIDE DEF T
    <2> QED BY <1>1, <2>1
  <1>5. PICK f \in [0 .. k - 1 -> V] : Steps(k - 1, f)
    BY <1>4
  <1> DEFINE g == [i \in 0 .. k |-> IF i = k THEN G[k][f[k - 1]] ELSE f[i]]
  <1>6. f[k - 1] \in V /\ G[k][f[k - 1]] \in V
    <2>1. k - 1 \in 0 .. k - 1
      BY <1>4
    <2>2. f[k - 1] \in V
      BY <2>1
    <2>3. G[k] \in [V -> V]
      BY <1>4
    <2> QED BY <2>2, <2>3
  <1>7. g \in [0 .. k -> V]
    <2>1. \A i \in 0 .. k : i # k => i \in 0 .. k - 1
      BY <1>4
    <2> QED BY <1>6, <2>1
  <1>8. Steps(k, g)
    <2>1. g[0] = v0
      BY <1>4, <1>5
    <2>2. ASSUME NEW i \in 1 .. k PROVE g[i] = G[i][g[i - 1]]
      <3>1. i - 1 \in 0 .. k - 1 /\ i - 1 # k /\ i \in 0 .. k /\ i - 1 \in 0 .. k
        BY <1>4
      <3>2. g[i - 1] = f[i - 1]
        BY <3>1
      <3>3. CASE i = k
        BY <3>1, <3>2, <3>3
      <3>4. CASE i # k
        <4>1. i \in 1 .. k - 1 /\ g[i] = f[i]
          BY <3>1, <3>4, <1>4
        <4> QED BY <4>1, <3>2, <1>5
      <3> QED BY <3>3, <3>4
    <2> QED BY <2>1, <2>2
  <1> HIDE DEF Steps, g
  <1> QED BY <1>2, <1>7, <1>8
============================================================================
