--------------------------- MODULE FlowGraphProofs ---------------------------
(***************************************************************************)
(* Proofs about FlowGraph, for a span of any length and any items: the     *)
(* search numbers what is reached and every node after one that leads to   *)
(* it, the sweeps of Cooper, Harvey and Kennedy end in the dominators,     *)
(* natural loops nest, and the graph is what the processor can execute.    *)
(***************************************************************************)
EXTENDS FlowGraph, LeastElements, SequenceTheorems

(***************************************************************************)
(* What is reached in as many steps as there are nodes is closed.          *)
(***************************************************************************)
Closed(T, next) == \A x \in T : next[x] \subseteq T

\* The least set that holds S and is closed.
IsClosure(C, S, next, X) ==
  /\ C \subseteq X
  /\ S \subseteq C
  /\ Closed(C, next)
  /\ \A T \in SUBSET X : S \subseteq T /\ Closed(T, next) => C \subseteq T

\* The function that Closure is defined by.
ReachSteps(S, next, bound, reach) ==
  reach = [k \in 0 .. bound |->
             IF k = 0 THEN S ELSE reach[k - 1] \cup UNION {next[x] : x \in reach[k - 1]}]

Reaching(S, next, bound, reach) ==
  /\ reach[0] = S
  /\ \A k \in 1 .. bound : reach[k] = reach[k - 1] \cup UNION {next[x] : x \in reach[k - 1]}

\* The function exists, and takes these steps.
LEMMA ReachDefined ==
  ASSUME NEW X, NEW next, next \in [X -> SUBSET X], NEW S, S \in SUBSET X, NEW bound, bound \in Nat
  PROVE  \E reach \in [0 .. bound -> SUBSET X] :
           Closure(S, next, bound) = reach[bound] /\ Reaching(S, next, bound, reach)
  <1> DEFINE V == SUBSET X
             G == [k \in 1 .. bound |-> [A \in V |-> A \cup UNION {next[x] : x \in A}]]
  <1>1. G \in [1 .. bound -> [V -> V]]
    <2>1. ASSUME NEW A \in V PROVE A \cup UNION {next[x] : x \in A} \in V
      OBVIOUS
    <2> QED BY <2>1
  <1>2. Stepwise(bound, V, S, G)
    <2> HIDE DEF V, G
    <2>1. S \in V
      BY DEF V
    <2> QED BY <1>1, <2>1, StepByStep
  <1>3. PICK f \in [0 .. bound -> V] : f[0] = S /\ \A i \in 1 .. bound : f[i] = G[i][f[i - 1]]
    <2> HIDE DEF V, G
    <2> QED BY <1>2 DEF Stepwise
  <1>4. \A i \in 1 .. bound : f[i] = f[i - 1] \cup UNION {next[x] : x \in f[i - 1]}
    <2> SUFFICES ASSUME NEW i \in 1 .. bound
                 PROVE  f[i] = f[i - 1] \cup UNION {next[x] : x \in f[i - 1]}
      OBVIOUS
    <2>1. i - 1 \in 0 .. bound
      OBVIOUS
    <2>2. f[i - 1] \in V
      <3> HIDE DEF V, G
      <3> QED BY <2>1, <1>3
    <2>3. G[i][f[i - 1]] = f[i - 1] \cup UNION {next[x] : x \in f[i - 1]}
      <3> HIDE DEF V
      <3> QED BY <2>2
    <2> HIDE DEF G
    <2> QED BY <2>3, <1>3
  <1>5. ReachSteps(S, next, bound, f)
    <2>1. \A k \in 0 .. bound :
            f[k] = IF k = 0 THEN S ELSE f[k - 1] \cup UNION {next[x] : x \in f[k - 1]}
      <3> HIDE DEF V, G
      <3> QED BY <1>3, <1>4
    <2>2. f = [k \in 0 .. bound |-> f[k]]
      <3> HIDE DEF V, G
      <3> QED BY <1>3
    <2> QED BY <2>1, <2>2 DEF ReachSteps
  <1> DEFINE g == CHOOSE reach : ReachSteps(S, next, bound, reach)
  <1>6. Closure(S, next, bound) = g[bound]
    BY Zenon DEF Closure, ReachSteps
  <1>7. ReachSteps(S, next, bound, g)
    BY <1>5, Zenon
  <1> HIDE DEF g, V, G
  <1>8. \A k \in 0 .. bound :
          g[k] = IF k = 0 THEN S ELSE g[k - 1] \cup UNION {next[x] : x \in g[k - 1]}
    <2> DEFINE h == [k \in 0 .. bound |->
                       IF k = 0 THEN S ELSE g[k - 1] \cup UNION {next[x] : x \in g[k - 1]}]
    <2>1. g = h
      BY <1>7 DEF ReachSteps
    <2>2. \A k \in 0 .. bound :
            h[k] = IF k = 0 THEN S ELSE g[k - 1] \cup UNION {next[x] : x \in g[k - 1]}
      OBVIOUS
    <2> HIDE DEF h
    <2> QED BY <2>1, <2>2
  <1>9. g = [k \in 0 .. bound |-> g[k]]
    BY <1>7 DEF ReachSteps
  <1>10. \A k \in 0 .. bound : g[k] = f[k]
    <2> DEFINE T == {k \in 0 .. bound : g[k] # f[k]}
    <2> SUFFICES ASSUME T # {} PROVE FALSE
      OBVIOUS
    <2>1. T \in SUBSET Nat
      OBVIOUS
    <2>2. PICK k \in T : \A m \in T : k <= m
      <3> HIDE DEF T
      <3> QED BY <2>1, LeastNatural
    <2>3. k # 0
      BY <1>8, <1>3
    <2>4. k \in 1 .. bound /\ k - 1 \in 0 .. bound /\ ~(k <= k - 1)
      BY <2>3
    <2>5. g[k - 1] = f[k - 1]
      BY <2>2, <2>4
    <2>6. g[k] = f[k]
      <3>1. k \in 0 .. bound
        OBVIOUS
      <3> HIDE DEF T
      <3>2. g[k] = g[k - 1] \cup UNION {next[x] : x \in g[k - 1]}
        BY <2>3, <3>1, <1>8
      <3>3. f[k] = f[k - 1] \cup UNION {next[x] : x \in f[k - 1]}
        BY <2>4, <1>4
      <3> QED BY <2>5, <3>2, <3>3
    <2> QED BY <2>6
  <1>11. f \in [0 .. bound -> SUBSET X] /\ g[bound] = f[bound]
    BY <1>10, <1>3 DEF V
  <1>12. Reaching(S, next, bound, f)
    BY <1>3, <1>4 DEF Reaching
  <1> QED BY <1>6, <1>11, <1>12

\* A set that grows at every step of a closure has room for no more steps
\* than it has nodes.
LEMMA ReachCloses ==
  ASSUME NEW X, IsFiniteSet(X), NEW next, next \in [X -> SUBSET X], NEW bound, bound \in Nat,
         Cardinality(X) <= bound,
         NEW f, f \in [0 .. bound -> SUBSET X],
         \A k \in 1 .. bound : f[k] = f[k - 1] \cup UNION {next[x] : x \in f[k - 1]}
  PROVE  Closed(f[bound], next)
  <1> SUFFICES ASSUME ~Closed(f[bound], next) PROVE FALSE
    OBVIOUS
  <1>1. \A k \in 0 .. bound : f[k] \in SUBSET X /\ IsFiniteSet(f[k]) /\ Cardinality(f[k]) \in Nat
                              /\ Cardinality(f[k]) <= Cardinality(X)
    <2> SUFFICES ASSUME NEW k \in 0 .. bound
                 PROVE  f[k] \in SUBSET X /\ IsFiniteSet(f[k]) /\ Cardinality(f[k]) \in Nat
                        /\ Cardinality(f[k]) <= Cardinality(X)
      OBVIOUS
    <2>1. f[k] \in SUBSET X
      OBVIOUS
    <2> QED BY <2>1, FS_Subset, FS_CardinalityType
  <1>2. \A k \in 0 .. bound : ~Closed(f[k], next)
    <2> DEFINE T == {k \in 0 .. bound : \E j \in 0 .. k : Closed(f[j], next) /\ ~Closed(f[k], next)}
    <2> SUFFICES ASSUME NEW j \in 0 .. bound, Closed(f[j], next) PROVE FALSE
      OBVIOUS
    <2>1. bound \in T
      OBVIOUS
    <2>2. T \in SUBSET Nat
      OBVIOUS
    <2>3. PICK k \in T : \A m \in T : k <= m
      <3> HIDE DEF T
      <3> QED BY <2>1, <2>2, LeastNatural
    <2>4. PICK i \in 0 .. k : Closed(f[i], next) /\ ~Closed(f[k], next)
      OBVIOUS
    <2>5. i # k /\ k \in 1 .. bound /\ k - 1 \in 0 .. bound /\ i \in 0 .. k - 1
      BY <2>4
    <2>6. k - 1 \notin T
      BY <2>3, <2>5
    <2>7. Closed(f[k - 1], next)
      BY <2>4, <2>5, <2>6
    <2>8. f[k] = f[k - 1]
      <3>1. f[k] = f[k - 1] \cup UNION {next[x] : x \in f[k - 1]}
        BY <2>5
      <3> QED BY <2>7, <3>1 DEF Closed
    <2> QED BY <2>4, <2>7, <2>8
  <1>3. \A k \in 0 .. bound : Cardinality(f[k]) >= k + 1
    <2> DEFINE T == {k \in 0 .. bound : ~(Cardinality(f[k]) >= k + 1)}
    <2> SUFFICES ASSUME T # {} PROVE FALSE
      OBVIOUS
    <2>1. T \in SUBSET Nat
      OBVIOUS
    <2>2. PICK k \in T : \A m \in T : k <= m
      <3> HIDE DEF T
      <3> QED BY <2>1, LeastNatural
    <2>3. k \in 0 .. bound /\ ~(Cardinality(f[k]) >= k + 1)
      OBVIOUS
    <2>4. CASE k = 0
      <3>1. f[0] # {}
        BY <1>2 DEF Closed
      <3>2. Cardinality(f[0]) # 0
        BY <1>1, <3>1, FS_EmptySet
      <3> QED BY <2>3, <2>4, <3>2, <1>1
    <2>5. CASE k # 0
      <3>1. k \in 1 .. bound /\ k - 1 \in 0 .. bound /\ ~(k <= k - 1)
        BY <2>3, <2>5
      <3>2. Cardinality(f[k - 1]) >= k
        BY <2>2, <3>1
      <3>3. f[k] = f[k - 1] \cup UNION {next[x] : x \in f[k - 1]}
        BY <3>1
      <3>4. f[k - 1] \subseteq f[k] /\ f[k - 1] # f[k]
        BY <3>1, <3>3, <1>2 DEF Closed
      <3>5. Cardinality(f[k - 1]) < Cardinality(f[k])
        <4>1. IsFiniteSet(f[k])
          BY <2>3, <1>1
        <4> QED BY <3>4, <4>1, <3>1, <2>3, <1>1, FS_Subset
      <3> HIDE DEF T
      <3> QED BY <3>1, <3>2, <3>5, <2>3, <1>1
    <2> QED BY <2>4, <2>5
  <1>4. bound \in 0 .. bound
    OBVIOUS
  <1>5. Cardinality(X) \in Nat
    BY FS_CardinalityType
  <1> QED BY <1>1, <1>3, <1>4, <1>5

\* Closure gives the least closed set.
LEMMA ClosureLeast ==
  ASSUME NEW X, IsFiniteSet(X), NEW next, next \in [X -> SUBSET X], NEW S, S \in SUBSET X,
         NEW bound, bound \in Nat, Cardinality(X) <= bound
  PROVE  IsClosure(Closure(S, next, bound), S, next, X)
  <1>0. PICK f \in [0 .. bound -> SUBSET X] :
           Closure(S, next, bound) = f[bound] /\ Reaching(S, next, bound, f)
    BY ReachDefined
  <1>1. /\ Closure(S, next, bound) = f[bound]
        /\ f[0] = S
        /\ \A k \in 1 .. bound : f[k] = f[k - 1] \cup UNION {next[x] : x \in f[k - 1]}
    BY <1>0 DEF Reaching
  <1>2. Closed(f[bound], next)
    BY <1>1, ReachCloses
  <1>3. f[bound] \subseteq X
    OBVIOUS
  <1>4. S \subseteq f[bound]
    <2> DEFINE T == {k \in 0 .. bound : ~(S \subseteq f[k])}
    <2> SUFFICES ASSUME T # {} PROVE FALSE
      OBVIOUS
    <2>1. PICK k \in T : \A m \in T : k <= m
      <3>1. T \in SUBSET Nat
        OBVIOUS
      <3> HIDE DEF T
      <3> QED BY <3>1, LeastNatural
    <2>2. k # 0
      BY <1>1
    <2>3. k \in 1 .. bound /\ k - 1 \in 0 .. bound /\ ~(k <= k - 1)
      BY <2>2
    <2>4. f[k] = f[k - 1] \cup UNION {next[x] : x \in f[k - 1]}
      BY <1>1, <2>3
    <2>5. S \subseteq f[k - 1]
      BY <2>1, <2>3
    <2> QED BY <2>4, <2>5
  <1>5. ASSUME NEW U \in SUBSET X, S \subseteq U, Closed(U, next)
        PROVE  f[bound] \subseteq U
    <2> DEFINE T == {k \in 0 .. bound : ~(f[k] \subseteq U)}
    <2> SUFFICES ASSUME T # {} PROVE FALSE
      OBVIOUS
    <2>1. PICK k \in T : \A m \in T : k <= m
      <3>1. T \in SUBSET Nat
        OBVIOUS
      <3> HIDE DEF T
      <3> QED BY <3>1, LeastNatural
    <2>2. k # 0
      BY <1>1, <1>5
    <2>3. k \in 1 .. bound /\ k - 1 \in 0 .. bound /\ ~(k <= k - 1)
      BY <2>2
    <2>4. f[k] = f[k - 1] \cup UNION {next[x] : x \in f[k - 1]}
      BY <1>1, <2>3
    <2>5. f[k - 1] \subseteq U
      BY <2>1, <2>3
    <2>6. f[k] \subseteq U
      <3> HIDE DEF T
      <3> QED BY <2>4, <2>5, <1>5 DEF Closed
    <2> QED BY <2>6
  <1> QED BY <1>1, <1>2, <1>3, <1>4, <1>5 DEF IsClosure

(***************************************************************************)
(* Trees given by the parent of each node, and the chains to their root.   *)
(***************************************************************************)
Settling(f) == {n \in DOMAIN f : f[n] # NoIdom}
UpIn(f) == [x \in DOMAIN f |-> IF x = VRoot \/ f[x] = NoIdom THEN {} ELSE {f[x]}]
Chain(f, u) == Closure({u}, UpIn(f), SpanLength + 1)

\* Parents come before their children in the order o.
Tree(f, o) ==
  /\ IsFiniteSet(DOMAIN f) /\ Cardinality(DOMAIN f) <= SpanLength + 1
  /\ VRoot \in DOMAIN f /\ f[VRoot] = VRoot
  /\ DOMAIN f \subseteq Nat
  /\ \A n \in DOMAIN f : f[n] \in DOMAIN f \cup {NoIdom}
  /\ \A n \in Settling(f) : o[n] \in Nat
  /\ \A m, n \in Settling(f) : o[m] = o[n] => m = n
  /\ \A n \in Settling(f) \ {VRoot} : f[n] \in Settling(f) /\ o[f[n]] < o[n]

\* A chain is a closure.
LEMMA ChainIs ==
  ASSUME NEW f, NEW o, Tree(f, o), NEW u \in DOMAIN f
  PROVE  IsClosure(Chain(f, u), {u}, UpIn(f), DOMAIN f)
  <1>1. IsFiniteSet(DOMAIN f) /\ Cardinality(DOMAIN f) <= SpanLength + 1
    BY DEF Tree
  <1>2. UpIn(f) \in [DOMAIN f -> SUBSET DOMAIN f]
    <2> SUFFICES ASSUME NEW x \in DOMAIN f
                 PROVE  (IF x = VRoot \/ f[x] = NoIdom THEN {} ELSE {f[x]}) \in SUBSET DOMAIN f
      BY DEF UpIn
    <2>1. f[x] \in DOMAIN f \cup {NoIdom}
      BY DEF Tree
    <2> QED BY <2>1
  <1>3. SpanLength + 1 \in Nat
    BY ItemsAssumption
  <1>4. {u} \in SUBSET DOMAIN f
    OBVIOUS
  <1> DEFINE X == DOMAIN f
             S == {u}
             next == UpIn(f)
             bound == SpanLength + 1
  <1>5. IsFiniteSet(X) /\ Cardinality(X) <= bound /\ next \in [X -> SUBSET X] /\ bound \in Nat
        /\ S \in SUBSET X
    BY <1>1, <1>2, <1>3, <1>4
  <1> HIDE DEF X, S, next, bound
  <1>6. IsClosure(Closure(S, next, bound), S, next, X)
    BY <1>5, ClosureLeast
  <1> QED BY <1>6 DEF Chain, X, S, next, bound

\* A chain is its first node and the chain of its parent.
LEMMA ChainUnfolds ==
  ASSUME NEW f, NEW o, Tree(f, o), NEW u \in DOMAIN f
  PROVE  /\ u \in Chain(f, u) /\ Chain(f, u) \subseteq DOMAIN f
         /\ u = VRoot \/ u \notin Settling(f) => Chain(f, u) = {u}
         /\ u # VRoot /\ u \in Settling(f) => Chain(f, u) = {u} \cup Chain(f, f[u])
  <1>1. IsClosure(Chain(f, u), {u}, UpIn(f), DOMAIN f)
    BY ChainIs
  <1>2. u \in Chain(f, u) /\ Chain(f, u) \subseteq DOMAIN f
    BY <1>1 DEF IsClosure
  <1>3. ASSUME u = VRoot \/ u \notin Settling(f) PROVE Chain(f, u) = {u}
    <2>1. UpIn(f)[u] = {}
      BY <1>3 DEF UpIn, Settling
    <2>2. Closed({u}, UpIn(f)) /\ {u} \in SUBSET DOMAIN f
      BY <2>1 DEF Closed
    <2>3. Chain(f, u) \subseteq {u}
      BY <1>1, <2>2 DEF IsClosure
    <2> QED BY <2>3, <1>2
  <1>4. ASSUME u # VRoot, u \in Settling(f) PROVE Chain(f, u) = {u} \cup Chain(f, f[u])
    <2>1. UpIn(f)[u] = {f[u]} /\ f[u] \in DOMAIN f
      BY <1>4 DEF UpIn, Settling, Tree
    <2>2. IsClosure(Chain(f, f[u]), {f[u]}, UpIn(f), DOMAIN f)
      BY <2>1, ChainIs
    <2>3. Chain(f, u) \subseteq {u} \cup Chain(f, f[u])
      <3>1. f[u] \in Chain(f, f[u]) /\ Chain(f, f[u]) \subseteq DOMAIN f
            /\ Closed(Chain(f, f[u]), UpIn(f))
        BY <2>2 DEF IsClosure
      <3>2. Closed({u} \cup Chain(f, f[u]), UpIn(f))
        BY <2>1, <3>1 DEF Closed
      <3>3. {u} \cup Chain(f, f[u]) \in SUBSET DOMAIN f
        BY <3>1
      <3>4. {u} \subseteq {u} \cup Chain(f, f[u])
        OBVIOUS
      <3> QED BY <1>1, <3>2, <3>3, <3>4 DEF IsClosure
    <2>4. Chain(f, f[u]) \subseteq Chain(f, u)
      <3>1. Closed(Chain(f, u), UpIn(f)) /\ Chain(f, u) \in SUBSET DOMAIN f
        BY <1>1 DEF IsClosure
      <3>2. {f[u]} \subseteq Chain(f, u)
        BY <3>1, <1>2, <2>1 DEF Closed
      <3> QED BY <2>2, <3>1, <3>2 DEF IsClosure
    <2> QED BY <1>2, <2>3, <2>4
  <1> QED BY <1>2, <1>3, <1>4

\* What lies on a chain: nodes with a parent, not after the first one, each
\* with its own chain, and the root.
LEMMA ChainWithin ==
  ASSUME NEW f, NEW o, Tree(f, o), NEW u \in Settling(f), NEW h \in Chain(f, u)
  PROVE  /\ h \in Settling(f) /\ o[h] <= o[u]
         /\ Chain(f, h) \subseteq Chain(f, u)
  <1>1. IsClosure(Chain(f, u), {u}, UpIn(f), DOMAIN f)
    BY ChainIs DEF Settling
  <1> DEFINE T == {n \in Settling(f) : o[n] <= o[u]}
  <1>2. \A n \in Settling(f) : o[n] \in Nat
    BY DEF Tree
  <1>3. Closed(T, UpIn(f))
    <2> SUFFICES ASSUME NEW n \in T, NEW m \in UpIn(f)[n] PROVE m \in T
      BY DEF Closed
    <2>1. n \in DOMAIN f /\ n # VRoot /\ f[n] # NoIdom /\ m = f[n]
      BY DEF UpIn, Settling
    <2>2. f[n] \in Settling(f) /\ o[f[n]] < o[n]
      BY <2>1 DEF Tree
    <2> QED BY <2>1, <2>2, <1>2
  <1>4. {u} \subseteq T /\ T \in SUBSET DOMAIN f
    BY <1>2 DEF Settling
  <1>5. h \in T
    <2> HIDE DEF T
    <2> QED BY <1>1, <1>3, <1>4 DEF IsClosure
  <1>6. Chain(f, h) \subseteq Chain(f, u)
    <2>1. h \in DOMAIN f
      BY <1>5 DEF Settling
    <2>2. IsClosure(Chain(f, h), {h}, UpIn(f), DOMAIN f)
      BY <2>1, ChainIs
    <2>3. {h} \subseteq Chain(f, u)
      OBVIOUS
    <2> QED BY <1>1, <2>2, <2>3 DEF IsClosure
  <1> QED BY <1>5, <1>6

\* The root is on every chain.
LEMMA ChainToRoot ==
  ASSUME NEW f, NEW o, Tree(f, o), NEW u \in Settling(f)
  PROVE  VRoot \in Chain(f, u)
  <1> DEFINE T == {n \in Settling(f) : VRoot \notin Chain(f, n)}
             r == [n \in T |-> o[n]]
  <1> SUFFICES ASSUME T # {} PROVE FALSE
    OBVIOUS
  <1>1. IsFiniteSet(T)
    <2>1. T \subseteq DOMAIN f
      BY DEF Settling
    <2> QED BY <2>1, FS_Subset DEF Tree
  <1>2. r \in [T -> Int]
    <2>1. \A n \in T : o[n] \in Int
      BY DEF Tree
    <2> QED BY <2>1
  <1> HIDE DEF T, r
  <1>3. PICK n \in T : \A m \in T : r[n] <= r[m]
    BY <1>1, <1>2, LowestRank
  <1>4. n \in Settling(f) /\ n \in DOMAIN f /\ VRoot \notin Chain(f, n)
    BY DEF T, Settling
  <1>5. n # VRoot /\ Chain(f, n) = {n} \cup Chain(f, f[n])
    BY <1>4, ChainUnfolds
  <1>6. f[n] \in Settling(f) /\ o[f[n]] < o[n] /\ o[f[n]] \in Nat /\ o[n] \in Nat
    BY <1>4, <1>5 DEF Tree
  <1>7. f[n] \in T
    BY <1>4, <1>5, <1>6 DEF T
  <1>8. r[n] <= r[f[n]] /\ r[n] = o[n] /\ r[f[n]] = o[f[n]]
    BY <1>3, <1>7 DEF r
  <1> QED BY <1>6, <1>8

\* On a chain, what comes earlier in the order is on the chain of the rest.
LEMMA ChainLinear ==
  ASSUME NEW f, NEW o, Tree(f, o), NEW u \in Settling(f),
         NEW a \in Chain(f, u), NEW b \in Chain(f, u), o[a] <= o[b]
  PROVE  a \in Chain(f, b)
  <1> DEFINE T == {n \in Settling(f) : a \in Chain(f, n) /\ b \in Chain(f, n) /\ a \notin Chain(f, b)}
             r == [n \in T |-> o[n]]
  <1> SUFFICES ASSUME T # {} PROVE FALSE
    OBVIOUS
  <1>1. IsFiniteSet(T)
    <2>1. T \subseteq DOMAIN f
      BY DEF Settling
    <2> QED BY <2>1, FS_Subset DEF Tree
  <1>2. r \in [T -> Int]
    <2>1. \A n \in T : o[n] \in Int
      BY DEF Tree
    <2> QED BY <2>1
  <1> HIDE DEF T, r
  <1>3. PICK n \in T : \A m \in T : r[n] <= r[m]
    BY <1>1, <1>2, LowestRank
  <1>4. n \in Settling(f) /\ n \in DOMAIN f /\ a \in Chain(f, n) /\ b \in Chain(f, n) /\ a \notin Chain(f, b)
    BY DEF T, Settling
  <1>5. b # n
    BY <1>4
  <1>6. n # VRoot /\ Chain(f, n) = {n} \cup Chain(f, f[n])
    BY <1>4, <1>5, ChainUnfolds
  <1>7. f[n] \in Settling(f) /\ o[f[n]] < o[n] /\ o[f[n]] \in Nat /\ o[n] \in Nat
    BY <1>4, <1>6 DEF Tree
  <1>8. b \in Chain(f, f[n])
    BY <1>4, <1>5, <1>6
  <1>9. o[b] <= o[f[n]] /\ b \in Settling(f)
    BY <1>7, <1>8, ChainWithin
  <1>10. o[b] \in Nat
    BY <1>9 DEF Tree
  <1>11. a # n
    BY <1>7, <1>9, <1>10
  <1>12. f[n] \in T
    BY <1>4, <1>6, <1>7, <1>8, <1>11 DEF T
  <1>13. r[n] <= r[f[n]] /\ r[n] = o[n] /\ r[f[n]] = o[f[n]]
    BY <1>3, <1>12 DEF r
  <1> QED BY <1>7, <1>13

(***************************************************************************)
(* Where chains meet.                                                      *)
(***************************************************************************)
\* The chain of x is what the chains from T have in common.
IsMeet(f, x, T) ==
  x \in Settling(f) /\ \A h \in DOMAIN f : h \in Chain(f, x) <=> \A p \in T : h \in Chain(f, p)

\* Chains meet somewhere.
LEMMA MeetExists ==
  ASSUME NEW f, NEW o, Tree(f, o), NEW T, T \subseteq Settling(f), T # {}
  PROVE  \E x : IsMeet(f, x, T)
  <1> DEFINE C == {h \in DOMAIN f : \A p \in T : h \in Chain(f, p)}
             r == [h \in C |-> 0 - o[h]]
  <1>1. PICK p0 \in T : TRUE
    OBVIOUS
  <1>2. VRoot \in C
    BY ChainToRoot DEF Tree
  <1>3. \A h \in C : h \in Settling(f) /\ o[h] \in Nat
    <2> SUFFICES ASSUME NEW h \in C PROVE h \in Settling(f) /\ o[h] \in Nat
      OBVIOUS
    <2>1. h \in Chain(f, p0) /\ p0 \in Settling(f)
      BY <1>1
    <2>2. h \in Settling(f)
      BY <2>1, ChainWithin
    <2> QED BY <2>2 DEF Tree
  <1>4. IsFiniteSet(C)
    <2>1. C \subseteq DOMAIN f
      OBVIOUS
    <2> QED BY <2>1, FS_Subset DEF Tree
  <1>5. r \in [C -> Int]
    <2> HIDE DEF C
    <2> QED BY <1>3
  <1>6. PICK x \in C : \A h \in C : r[x] <= r[h]
    <2> HIDE DEF C, r
    <2> QED BY <1>2, <1>4, <1>5, LowestRank
  <1>7. \A h \in C : o[h] <= o[x]
    <2> SUFFICES ASSUME NEW h \in C PROVE o[h] <= o[x]
      OBVIOUS
    <2>1. r[x] <= r[h] /\ r[x] = 0 - o[x] /\ r[h] = 0 - o[h] /\ o[x] \in Nat /\ o[h] \in Nat
      <3> HIDE DEF C
      <3> QED BY <1>3, <1>6
    <2> HIDE DEF r
    <2> QED BY <2>1
  <1> HIDE DEF r
  <1>8. ASSUME NEW h \in DOMAIN f
        PROVE  h \in Chain(f, x) <=> \A p \in T : h \in Chain(f, p)
    <2>1. ASSUME h \in Chain(f, x), NEW p \in T PROVE h \in Chain(f, p)
      <3>1. x \in Chain(f, p) /\ p \in Settling(f)
        OBVIOUS
      <3>2. Chain(f, x) \subseteq Chain(f, p)
        BY <3>1, ChainWithin
      <3> QED BY <2>1, <3>2
    <2>2. ASSUME \A p \in T : h \in Chain(f, p) PROVE h \in Chain(f, x)
      <3>1. h \in C
        BY <2>2
      <3>2. p0 \in Settling(f) /\ h \in Chain(f, p0) /\ x \in Chain(f, p0) /\ o[h] <= o[x]
        BY <1>1, <1>7, <3>1
      <3> HIDE DEF C
      <3> QED BY <3>2, ChainLinear
    <2> QED BY <2>1, <2>2
  <1>9. x \in Settling(f)
    <2> HIDE DEF C
    <2> QED BY <1>3
  <1> QED BY <1>8, <1>9 DEF IsMeet

\* They meet at one node.
LEMMA MeetUnique ==
  ASSUME NEW f, NEW o, Tree(f, o), NEW T, NEW x, IsMeet(f, x, T), NEW y, IsMeet(f, y, T)
  PROVE  x = y
  <1>1. x \in Settling(f) /\ y \in Settling(f) /\ x \in DOMAIN f /\ y \in DOMAIN f
    BY DEF IsMeet, Settling
  <1>2. x \in Chain(f, x) /\ y \in Chain(f, y)
    BY <1>1, ChainUnfolds
  <1>3. x \in Chain(f, y) /\ y \in Chain(f, x)
    BY <1>1, <1>2 DEF IsMeet
  <1>4. o[x] <= o[y] /\ o[y] <= o[x]
    BY <1>1, <1>3, ChainWithin
  <1>5. o[x] \in Nat /\ o[y] \in Nat
    BY <1>1 DEF Tree
  <1> QED BY <1>1, <1>4, <1>5 DEF Tree

\* The chain of one node meets itself there.
LEMMA MeetOfOne ==
  ASSUME NEW f, NEW a \in Settling(f)
  PROVE  IsMeet(f, a, {a}) /\ IsMeet(f, a, {a, a})
  BY DEF IsMeet

\* The later of two nodes may be replaced by its parent.
LEMMA MeetStep ==
  ASSUME NEW f, NEW o, Tree(f, o), NEW a \in Settling(f), NEW b \in Settling(f), o[b] < o[a]
  PROVE  /\ f[a] \in Settling(f) /\ o[f[a]] < o[a]
         /\ \A x : IsMeet(f, x, {f[a], b}) <=> IsMeet(f, x, {a, b})
         /\ \A x : IsMeet(f, x, {b, f[a]}) <=> IsMeet(f, x, {b, a})
  <1>1. a \in DOMAIN f /\ b \in DOMAIN f /\ o[a] \in Nat /\ o[b] \in Nat
    BY DEF Settling, Tree
  <1>2. a # VRoot
    <2> SUFFICES ASSUME a = VRoot PROVE FALSE
      OBVIOUS
    <2>1. VRoot \in Chain(f, b)
      BY ChainToRoot
    <2>2. o[VRoot] <= o[b]
      BY <2>1, ChainWithin
    <2> QED BY <1>1, <2>2
  <1>3. f[a] \in Settling(f) /\ o[f[a]] < o[a]
    BY <1>2 DEF Tree
  <1>4. a \notin Chain(f, b)
    <2> SUFFICES ASSUME a \in Chain(f, b) PROVE FALSE
      OBVIOUS
    <2>1. o[a] <= o[b]
      BY ChainWithin
    <2> QED BY <2>1, <1>1
  <1>5. Chain(f, a) = {a} \cup Chain(f, f[a])
    BY <1>1, <1>2, ChainUnfolds
  <1>6. \A h : h \in Chain(f, b) => (h \in Chain(f, a) <=> h \in Chain(f, f[a]))
    BY <1>4, <1>5
  <1> QED BY <1>3, <1>6 DEF IsMeet

MeetIn(f, o, a, b) ==
  LET meet[p \in Settling(f) \X Settling(f)] ==
        IF p[1] = p[2] THEN p[1]
        ELSE IF o[p[1]] > o[p[2]] THEN meet[<<f[p[1]], p[2]>>]
        ELSE meet[<<p[1], f[p[2]]>>]
  IN meet[<<a, b>>]

MeetSteps(f, o, meet) ==
  meet = [p \in Settling(f) \X Settling(f) |->
            IF p[1] = p[2] THEN p[1]
            ELSE IF o[p[1]] > o[p[2]] THEN meet[<<f[p[1]], p[2]>>]
            ELSE meet[<<p[1], f[p[2]]>>]]

\* The function that walks up two chains exists.
LEMMA MeetDefined ==
  ASSUME NEW f, NEW o, Tree(f, o)
  PROVE  \E meet : MeetSteps(f, o, meet)
  <1> DEFINE S == Settling(f)
             pick(a, b) == CHOOSE x : IsMeet(f, x, {a, b})
             F == [p \in S \X S |-> pick(p[1], p[2])]
  <1>1. \A a, b \in S : IsMeet(f, pick(a, b), {a, b})
    <2> SUFFICES ASSUME NEW a \in S, NEW b \in S PROVE IsMeet(f, pick(a, b), {a, b})
      OBVIOUS
    <2>1. {a, b} \subseteq Settling(f) /\ {a, b} # {}
      OBVIOUS
    <2>2. \E x : IsMeet(f, x, {a, b})
      BY <2>1, MeetExists
    <2> QED BY <2>2, Zenon
  <1>2. ASSUME NEW a \in S, NEW b \in S, NEW x, IsMeet(f, x, {a, b})
        PROVE  pick(a, b) = x
    <2>1. IsMeet(f, pick(a, b), {a, b})
      BY <1>1
    <2> HIDE DEF pick
    <2> QED BY <2>1, <1>2, MeetUnique
  <1> HIDE DEF pick
  <1>3. ASSUME NEW p \in S \X S
        PROVE  F[p] = IF p[1] = p[2] THEN p[1]
                      ELSE IF o[p[1]] > o[p[2]] THEN F[<<f[p[1]], p[2]>>]
                      ELSE F[<<p[1], f[p[2]]>>]
    <2>1. p[1] \in S /\ p[2] \in S /\ F[p] = pick(p[1], p[2])
      OBVIOUS
    <2>2. \A a, b \in S : F[<<a, b>>] = pick(a, b)
      OBVIOUS
    <2>3. o[p[1]] \in Nat /\ o[p[2]] \in Nat
      BY <2>1 DEF Tree
    <2> HIDE DEF F
    <2>4. CASE p[1] = p[2]
      <3>1. IsMeet(f, p[1], {p[1], p[2]})
        BY <2>1, <2>4, MeetOfOne
      <3> QED BY <2>1, <2>4, <3>1, <1>2
    <2>5. CASE p[1] # p[2] /\ o[p[1]] > o[p[2]]
      <3>1. f[p[1]] \in S /\ \A x : IsMeet(f, x, {f[p[1]], p[2]}) <=> IsMeet(f, x, {p[1], p[2]})
        BY <2>1, <2>3, <2>5, MeetStep
      <3>2. IsMeet(f, pick(f[p[1]], p[2]), {p[1], p[2]})
        BY <2>1, <3>1, <1>1
      <3>3. pick(p[1], p[2]) = pick(f[p[1]], p[2])
        BY <2>1, <3>2, <1>2
      <3> QED BY <2>1, <2>2, <2>5, <3>1, <3>3
    <2>6. CASE p[1] # p[2] /\ ~(o[p[1]] > o[p[2]])
      <3>0. o[p[1]] < o[p[2]]
        BY <2>1, <2>3, <2>6 DEF Tree
      <3>1. f[p[2]] \in S /\ \A x : IsMeet(f, x, {p[1], f[p[2]]}) <=> IsMeet(f, x, {p[1], p[2]})
        BY <2>1, <3>0, MeetStep
      <3>2. IsMeet(f, pick(p[1], f[p[2]]), {p[1], p[2]})
        BY <2>1, <3>1, <1>1
      <3>3. pick(p[1], p[2]) = pick(p[1], f[p[2]])
        BY <2>1, <3>2, <1>2
      <3> QED BY <2>1, <2>2, <2>6, <3>1, <3>3
    <2> QED BY <2>4, <2>5, <2>6
  <1>4. F = [p \in S \X S |-> F[p]]
    OBVIOUS
  <1> HIDE DEF F
  <1>5. MeetSteps(f, o, F)
    BY <1>3, <1>4 DEF MeetSteps
  <1> QED BY <1>5

\* Walking up from two nodes, the later one first, leads to where their
\* chains meet.
LEMMA MeetIsMeet ==
  ASSUME NEW f, NEW o, Tree(f, o), NEW a \in Settling(f), NEW b \in Settling(f)
  PROVE  IsMeet(f, MeetIn(f, o, a, b), {a, b})
  <1> DEFINE S == Settling(f)
             M == CHOOSE meet : MeetSteps(f, o, meet)
             T == {p \in S \X S : ~IsMeet(f, M[p], {p[1], p[2]})}
             r == [p \in T |-> o[p[1]] + o[p[2]]]
  <1>1. MeetIn(f, o, a, b) = M[<<a, b>>]
    BY Zenon DEF MeetIn, MeetSteps
  <1>2. MeetSteps(f, o, M)
    BY MeetDefined, Zenon
  <1> HIDE DEF M
  <1>3. \A p \in S \X S : M[p] = IF p[1] = p[2] THEN p[1]
                                 ELSE IF o[p[1]] > o[p[2]] THEN M[<<f[p[1]], p[2]>>]
                                 ELSE M[<<p[1], f[p[2]]>>]
    <2> DEFINE h == [p \in S \X S |-> IF p[1] = p[2] THEN p[1]
                                      ELSE IF o[p[1]] > o[p[2]] THEN M[<<f[p[1]], p[2]>>]
                                      ELSE M[<<p[1], f[p[2]]>>]]
    <2>1. M = h
      BY <1>2 DEF MeetSteps
    <2>2. \A p \in S \X S : h[p] = IF p[1] = p[2] THEN p[1]
                                 ELSE IF o[p[1]] > o[p[2]] THEN M[<<f[p[1]], p[2]>>]
                                 ELSE M[<<p[1], f[p[2]]>>]
      OBVIOUS
    <2> HIDE DEF h
    <2> QED BY <2>1, <2>2
  <1>4. ASSUME T # {} PROVE FALSE
    <2>1. IsFiniteSet(T)
      <3>1. IsFiniteSet(S)
        <4>1. S \subseteq DOMAIN f
          BY DEF Settling
        <4> QED BY <4>1, FS_Subset DEF Tree
      <3>2. IsFiniteSet(S \X S)
        <4> HIDE DEF S
        <4> QED BY <3>1, FS_Product
      <3>3. T \subseteq S \X S
        OBVIOUS
      <3> HIDE DEF S, T
      <3> QED BY <3>2, <3>3, FS_Subset
    <2>2. \A q \in S : o[q] \in Nat
      BY DEF Tree
    <2>3. r \in [T -> Int]
      <3>1. \A p \in T : o[p[1]] + o[p[2]] \in Int
        BY <2>2
      <3> HIDE DEF T
      <3> QED BY <3>1
    <2> HIDE DEF T, r
    <2>4. PICK p \in T : \A q \in T : r[p] <= r[q]
      BY <1>4, <2>1, <2>3, LowestRank
    <2>5. p \in S \X S /\ p[1] \in S /\ p[2] \in S /\ ~IsMeet(f, M[p], {p[1], p[2]})
      BY DEF T
    <2>6. o[p[1]] \in Nat /\ o[p[2]] \in Nat
      BY <2>2, <2>5
    <2>7. ASSUME NEW c \in S, NEW d \in S, o[c] + o[d] < o[p[1]] + o[p[2]]
          PROVE  IsMeet(f, M[<<c, d>>], {c, d})
      <3> SUFFICES ASSUME ~IsMeet(f, M[<<c, d>>], {c, d}) PROVE FALSE
        OBVIOUS
      <3>1. <<c, d>> \in T
        BY DEF T
      <3>2. r[p] <= r[<<c, d>>] /\ r[p] = o[p[1]] + o[p[2]] /\ r[<<c, d>>] = o[c] + o[d]
        BY <2>4, <3>1 DEF r
      <3>3. o[c] \in Nat /\ o[d] \in Nat
        BY <2>2
      <3> QED BY <2>6, <2>7, <3>2, <3>3
    <2>8. CASE p[1] = p[2]
      <3>1. M[p] = p[1]
        BY <1>3, <2>5, <2>8
      <3>2. IsMeet(f, p[1], {p[1], p[2]})
        BY <2>5, <2>8, MeetOfOne
      <3> QED BY <2>5, <3>1, <3>2
    <2>9. CASE p[1] # p[2] /\ o[p[1]] > o[p[2]]
      <3>1. M[p] = M[<<f[p[1]], p[2]>>]
        BY <1>3, <2>5, <2>9
      <3>0. o[p[2]] < o[p[1]]
        BY <2>6, <2>9
      <3>2. /\ f[p[1]] \in S /\ o[f[p[1]]] < o[p[1]]
            /\ \A x : IsMeet(f, x, {f[p[1]], p[2]}) <=> IsMeet(f, x, {p[1], p[2]})
        BY <2>5, <3>0, MeetStep
      <3>3. o[f[p[1]]] + o[p[2]] < o[p[1]] + o[p[2]]
        BY <2>2, <2>6, <3>2
      <3>4. IsMeet(f, M[<<f[p[1]], p[2]>>], {f[p[1]], p[2]})
        BY <2>5, <2>7, <3>2, <3>3
      <3> QED BY <2>5, <3>1, <3>2, <3>4
    <2>10. CASE p[1] # p[2] /\ ~(o[p[1]] > o[p[2]])
      <3>0. o[p[1]] < o[p[2]]
        BY <2>5, <2>6, <2>10 DEF Tree
      <3>1. M[p] = M[<<p[1], f[p[2]]>>]
        BY <1>3, <2>5, <2>10
      <3>2. /\ f[p[2]] \in S /\ o[f[p[2]]] < o[p[2]]
            /\ \A x : IsMeet(f, x, {p[1], f[p[2]]}) <=> IsMeet(f, x, {p[1], p[2]})
        BY <2>5, <3>0, MeetStep
      <3>3. o[p[1]] + o[f[p[2]]] < o[p[1]] + o[p[2]]
        BY <2>2, <2>6, <3>2
      <3>4. IsMeet(f, M[<<p[1], f[p[2]]>>], {p[1], f[p[2]]})
        BY <2>5, <2>7, <3>2, <3>3
      <3> QED BY <2>5, <3>1, <3>2, <3>4
    <2> QED BY <2>8, <2>9, <2>10
  <1>5. <<a, b>> \in S \X S /\ <<a, b>> \notin T
    BY <1>4
  <1> QED BY <1>1, <1>5

(***************************************************************************)
(* The new dominator of a node: where the chains of all its predecessors   *)
(* that have one meet, in whatever order they are taken.                   *)
(***************************************************************************)
\* The meet of a meet and one node more.
LEMMA MeetOfMore ==
  ASSUME NEW f, NEW o, NEW T, NEW y \in T, NEW z, IsMeet(f, z, T \ {y}), NEW x
  PROVE  IsMeet(f, x, {y, z}) <=> IsMeet(f, x, T)
  <1>1. \A h \in DOMAIN f : (\A p \in {y, z} : h \in Chain(f, p)) <=> (\A p \in T : h \in Chain(f, p))
    <2> SUFFICES ASSUME NEW h \in DOMAIN f
                 PROVE  (\A p \in {y, z} : h \in Chain(f, p)) <=> (\A p \in T : h \in Chain(f, p))
      OBVIOUS
    <2>1. h \in Chain(f, z) <=> \A p \in T \ {y} : h \in Chain(f, p)
      BY DEF IsMeet
    <2> QED BY <2>1
  <1> QED BY <1>1 DEF IsMeet

FoldSteps(f, o, ready, fold) ==
  fold = [S \in (SUBSET ready) \ {{}} |->
            LET x == CHOOSE y \in S : TRUE
            IN IF Cardinality(S) = 1 THEN x ELSE MeetIn(f, o, x, fold[S \ {x}])]

\* Of a set with more than one element, some are left without one.
LEMMA FoldRest ==
  ASSUME NEW S, IsFiniteSet(S), S # {}
  PROVE  LET x == CHOOSE y \in S : TRUE
         IN /\ x \in S
            /\ Cardinality(S) = 1 => S = {x}
            /\ Cardinality(S) # 1 => S \ {x} # {} /\ Cardinality(S \ {x}) < Cardinality(S)
  <1> DEFINE x == CHOOSE y \in S : TRUE
  <1>1. x \in S
    OBVIOUS
  <1> HIDE DEF x
  <1>2. ASSUME Cardinality(S) = 1 PROVE S = {x}
    <2>1. PICK w : S = {w}
      BY <1>2, FS_Singleton
    <2> QED BY <2>1, <1>1
  <1>3. ASSUME Cardinality(S) # 1 PROVE S \ {x} # {}
    <2> SUFFICES ASSUME S = {x} PROVE FALSE
      BY <1>1
    <2> QED BY <1>3, FS_Singleton
  <1>4. Cardinality(S \ {x}) < Cardinality(S)
    <2>1. S \ {x} \subseteq S /\ S \ {x} # S
      BY <1>1
    <2>2. Cardinality(S \ {x}) \in Nat /\ Cardinality(S) \in Nat
      BY <2>1, FS_Subset, FS_CardinalityType
    <2> QED BY <2>1, <2>2, FS_Subset
  <1> QED BY <1>1, <1>2, <1>3, <1>4 DEF x

\* The fold over the predecessors exists.
LEMMA FoldDefined ==
  ASSUME NEW f, NEW o, Tree(f, o), NEW ready, ready \subseteq Settling(f)
  PROVE  \E fold : FoldSteps(f, o, ready, fold)
  <1> DEFINE D == (SUBSET ready) \ {{}}
             top(S) == CHOOSE x : IsMeet(f, x, S)
             one(S) == CHOOSE y \in S : TRUE
             F == [S \in D |-> top(S)]
  <1>1. \A S \in D : IsMeet(f, top(S), S)
    <2> SUFFICES ASSUME NEW S \in D PROVE IsMeet(f, top(S), S)
      OBVIOUS
    <2>1. S \subseteq Settling(f) /\ S # {}
      OBVIOUS
    <2>2. \E x : IsMeet(f, x, S)
      BY <2>1, MeetExists
    <2> QED BY <2>2, Zenon
  <1>2. ASSUME NEW S \in D, NEW x, IsMeet(f, x, S) PROVE top(S) = x
    <2>1. IsMeet(f, top(S), S)
      BY <1>1
    <2> HIDE DEF top
    <2> QED BY <2>1, <1>2, MeetUnique
  <1>3. \A S \in D : F[S] = top(S)
    OBVIOUS
  <1>4. F = [S \in D |-> F[S]]
    OBVIOUS
  <1> HIDE DEF top, F
  <1>5. ASSUME NEW S \in D
        PROVE  F[S] = IF Cardinality(S) = 1 THEN one(S)
                      ELSE MeetIn(f, o, one(S), F[S \ {one(S)}])
    <2>1. IsFiniteSet(S) /\ S # {} /\ S \subseteq Settling(f)
      <3>1. S \subseteq DOMAIN f
        BY DEF Settling
      <3> QED BY <3>1, FS_Subset DEF Tree
    <2>2. /\ one(S) \in S
          /\ Cardinality(S) = 1 => S = {one(S)}
          /\ Cardinality(S) # 1 => S \ {one(S)} # {}
      BY <2>1, FoldRest
    <2> HIDE DEF one
    <2>3. CASE Cardinality(S) = 1
      <3>1. IsMeet(f, one(S), {one(S)})
        BY <2>1, <2>2, MeetOfOne
      <3>2. top(S) = one(S)
        BY <2>2, <2>3, <3>1, <1>2
      <3> QED BY <2>3, <3>2, <1>3
    <2>4. CASE Cardinality(S) # 1
      <3>1. S \ {one(S)} \in D
        BY <2>2, <2>4
      <3>2. IsMeet(f, F[S \ {one(S)}], S \ {one(S)}) /\ F[S \ {one(S)}] \in Settling(f)
        BY <3>1, <1>1, <1>3 DEF IsMeet
      <3>3. IsMeet(f, MeetIn(f, o, one(S), F[S \ {one(S)}]), {one(S), F[S \ {one(S)}]})
        BY <2>1, <2>2, <3>2, MeetIsMeet
      <3>4. IsMeet(f, MeetIn(f, o, one(S), F[S \ {one(S)}]), S)
        BY <2>2, <3>2, <3>3, MeetOfMore
      <3> QED BY <2>4, <3>4, <1>2, <1>3
    <2> QED BY <2>3, <2>4
  <1>6. FoldSteps(f, o, ready, F)
    <2>1. F = [S \in D |-> IF Cardinality(S) = 1 THEN one(S)
                           ELSE MeetIn(f, o, one(S), F[S \ {one(S)}])]
      <3> HIDE DEF D, one
      <3> QED BY <1>4, <1>5
    <2> QED BY <2>1, Zenon DEF FoldSteps
  <1> QED BY <1>6

PredsIn(g, n) ==
  {a \in DOMAIN g : n \in g[a]} \cup (IF n \in RootsOf(DOMAIN g) THEN {VRoot} ELSE {})

NewIn(g, f, o, n) ==
  LET ready == PredsIn(g, n) \cap Settling(f)
      fold[S \in (SUBSET ready) \ {{}}] ==
        LET x == CHOOSE y \in S : TRUE
        IN IF Cardinality(S) = 1 THEN x ELSE MeetIn(f, o, x, fold[S \ {x}])
  IN IF ready = {} THEN NoIdom ELSE fold[ready]

LEMMA NewIsMeet ==
  ASSUME NEW g, NEW f, NEW o, Tree(f, o), NEW n, PredsIn(g, n) \cap Settling(f) # {}
  PROVE  IsMeet(f, NewIn(g, f, o, n), PredsIn(g, n) \cap Settling(f))
  <1> DEFINE ready == PredsIn(g, n) \cap Settling(f)
             M == CHOOSE fold : FoldSteps(f, o, ready, fold)
             D == (SUBSET ready) \ {{}}
             one(S) == CHOOSE y \in S : TRUE
             T == {S \in D : ~IsMeet(f, M[S], S)}
             r == [S \in T |-> Cardinality(S)]
  <1>1. NewIn(g, f, o, n) = M[ready]
    <2>1. NewIn(g, f, o, n) = IF ready = {} THEN NoIdom ELSE M[ready]
      BY Zenon DEF NewIn, FoldSteps
    <2> QED BY <2>1
  <1>2. FoldSteps(f, o, ready, M)
    <2> HIDE DEF ready
    <2>1. ready \subseteq Settling(f)
      BY DEF ready
    <2>2. \E fold : FoldSteps(f, o, ready, fold)
      BY <2>1, FoldDefined
    <2> QED BY <2>2, Zenon
  <1> HIDE DEF M
  <1>3. \A S \in D : M[S] = IF Cardinality(S) = 1 THEN one(S)
                            ELSE MeetIn(f, o, one(S), M[S \ {one(S)}])
    <2> DEFINE h == [S \in D |-> IF Cardinality(S) = 1 THEN one(S)
                                 ELSE MeetIn(f, o, one(S), M[S \ {one(S)}])]
    <2>1. M = h
      BY <1>2, Zenon DEF FoldSteps
    <2>2. \A S \in D : h[S] = IF Cardinality(S) = 1 THEN one(S)
                              ELSE MeetIn(f, o, one(S), M[S \ {one(S)}])
      <3> HIDE DEF D, one
      <3> QED OBVIOUS
    <2> HIDE DEF h, D, one
    <2> QED BY <2>1, <2>2
  <1>4. IsFiniteSet(ready) /\ ready \subseteq Settling(f)
    <2>1. ready \subseteq DOMAIN f
      BY DEF Settling
    <2> QED BY <2>1, FS_Subset DEF Tree
  <1>5. ASSUME T # {} PROVE FALSE
    <2> HIDE DEF ready
    <2>1. IsFiniteSet(T)
      <3>1. IsFiniteSet(SUBSET ready)
        BY <1>4, FS_SUBSET
      <3>2. T \subseteq SUBSET ready
        OBVIOUS
      <3> QED BY <3>1, <3>2, FS_Subset
    <2>2. \A S \in D : IsFiniteSet(S) /\ Cardinality(S) \in Nat /\ S \subseteq Settling(f) /\ S # {}
      <3> SUFFICES ASSUME NEW S \in D
                   PROVE  IsFiniteSet(S) /\ Cardinality(S) \in Nat /\ S \subseteq Settling(f) /\ S # {}
        OBVIOUS
      <3>1. S \subseteq ready /\ S # {}
        OBVIOUS
      <3> QED BY <3>1, <1>4, FS_Subset, FS_CardinalityType
    <2>3. r \in [T -> Int]
      <3>1. \A S \in T : Cardinality(S) \in Int
        BY <2>2
      <3> HIDE DEF T
      <3> QED BY <3>1
    <2> HIDE DEF T, r
    <2>4. PICK S \in T : \A U \in T : r[S] <= r[U]
      BY <1>5, <2>1, <2>3, LowestRank
    <2>5. S \in D /\ ~IsMeet(f, M[S], S)
      BY DEF T
    <2>6. IsFiniteSet(S) /\ Cardinality(S) \in Nat /\ S \subseteq Settling(f) /\ S # {}
      BY <2>2, <2>5
    <2>7. /\ one(S) \in S
          /\ Cardinality(S) = 1 => S = {one(S)}
          /\ Cardinality(S) # 1 => S \ {one(S)} # {} /\ Cardinality(S \ {one(S)}) < Cardinality(S)
      BY <2>6, FoldRest
    <2> HIDE DEF one
    <2>8. CASE Cardinality(S) = 1
      <3>1. M[S] = one(S)
        BY <1>3, <2>5, <2>8
      <3>2. IsMeet(f, one(S), {one(S)})
        BY <2>6, <2>7, MeetOfOne
      <3> QED BY <2>5, <2>7, <2>8, <3>1, <3>2
    <2>9. CASE Cardinality(S) # 1
      <3>1. S \ {one(S)} \in D
        BY <2>5, <2>7, <2>9
      <3>2. IsMeet(f, M[S \ {one(S)}], S \ {one(S)})
        <4> SUFFICES ASSUME ~IsMeet(f, M[S \ {one(S)}], S \ {one(S)}) PROVE FALSE
          OBVIOUS
        <4>1. S \ {one(S)} \in T
          BY <3>1 DEF T
        <4>2. r[S] <= r[S \ {one(S)}] /\ r[S] = Cardinality(S)
              /\ r[S \ {one(S)}] = Cardinality(S \ {one(S)})
          BY <2>4, <4>1 DEF r
        <4>3. Cardinality(S \ {one(S)}) \in Nat
          BY <3>1, <2>2
        <4> QED BY <2>6, <2>7, <2>9, <4>2, <4>3
      <3>3. M[S \ {one(S)}] \in Settling(f)
        BY <3>2 DEF IsMeet
      <3>4. IsMeet(f, MeetIn(f, o, one(S), M[S \ {one(S)}]), {one(S), M[S \ {one(S)}]})
        BY <2>6, <2>7, <3>3, MeetIsMeet
      <3>5. IsMeet(f, MeetIn(f, o, one(S), M[S \ {one(S)}]), S)
        BY <2>7, <3>2, <3>4, MeetOfMore
      <3>6. M[S] = MeetIn(f, o, one(S), M[S \ {one(S)}])
        BY <1>3, <2>5, <2>9
      <3> QED BY <2>5, <3>5, <3>6
    <2> QED BY <2>8, <2>9
  <1>6. ready \in D /\ ready \notin T
    <2>1. ready \in D
      OBVIOUS
    <2> HIDE DEF ready
    <2> QED BY <1>5, <2>1
  <1>7. IsMeet(f, M[ready], ready)
    <2> HIDE DEF ready
    <2> QED BY <1>6
  <1> QED BY <1>1, <1>7

(***************************************************************************)
(* Dominators.                                                             *)
(***************************************************************************)
Graph(g) ==
  DOMAIN g \subseteq 1 .. SpanLength /\ DOMAIN g # {} /\ g \in [DOMAIN g -> SUBSET DOMAIN g]

NextIn(g, h) == [x \in DOMAIN g |-> g[x] \ {h}]
ReachIn(g, h) == Closure(RootsOf(DOMAIN g) \ {h}, NextIn(g, h), SpanLength)

\* Every path from a root to u passes h.
Dom(g, h, u) == u \in DOMAIN g /\ (h = u \/ u \notin ReachIn(g, h))

LEMMA RootsAreBlocks ==
  ASSUME NEW B, B \subseteq 1 .. SpanLength, B # {}
  PROVE  RootsOf(B) \subseteq B /\ RootsOf(B) # {}
  <1>1. CASE 1 \in B
    BY <1>1 DEF RootsOf
  <1>2. CASE 1 \notin B
    <2>1. PICK t \in B : TRUE
      OBVIOUS
    <2>2. B \in SUBSET Nat
      OBVIOUS
    <2>3. \E m \in B : \A n \in B : m <= n
      BY <2>1, <2>2, LeastNatural
    <2>4. Min(B) \in B
      BY <2>3 DEF Min
    <2> QED BY <2>4, <1>2 DEF RootsOf
  <1> QED BY <1>1, <1>2

LEMMA ReachIs ==
  ASSUME NEW g, Graph(g), NEW h
  PROVE  IsClosure(ReachIn(g, h), RootsOf(DOMAIN g) \ {h}, NextIn(g, h), DOMAIN g)
  <1> DEFINE X == DOMAIN g
             S == RootsOf(DOMAIN g) \ {h}
             next == NextIn(g, h)
             bound == SpanLength
  <1>1. bound \in Nat
    BY ItemsAssumption
  <1>2. IsFiniteSet(X) /\ Cardinality(X) <= bound
    <2>1. IsFiniteSet(1 .. SpanLength) /\ Cardinality(1 .. SpanLength) = SpanLength
      BY <1>1, FS_Interval
    <2>2. DOMAIN g \subseteq 1 .. SpanLength
      BY DEF Graph
    <2> QED BY <2>1, <2>2, FS_Subset
  <1>3. next \in [X -> SUBSET X]
    <2> SUFFICES ASSUME NEW x \in DOMAIN g PROVE g[x] \ {h} \in SUBSET DOMAIN g
      BY DEF NextIn
    <2>1. g[x] \in SUBSET DOMAIN g
      BY DEF Graph
    <2> QED BY <2>1
  <1>4. S \in SUBSET X
    BY RootsAreBlocks DEF Graph
  <1> HIDE DEF X, S, next, bound
  <1>5. IsClosure(Closure(S, next, bound), S, next, X)
    BY <1>1, <1>2, <1>3, <1>4, ClosureLeast
  <1> QED BY <1>5 DEF ReachIn, X, S, next, bound

\* What strictly dominates a node dominates its predecessors.
LEMMA DominatesPreds ==
  ASSUME NEW g, Graph(g), NEW n, NEW h \in DOMAIN g, Dom(g, h, n), h # n, NEW p \in PredsIn(g, n)
  PROVE  Dom(g, h, p)
  <1>1. n \in DOMAIN g /\ n \notin ReachIn(g, h)
    BY DEF Dom
  <1>2. IsClosure(ReachIn(g, h), RootsOf(DOMAIN g) \ {h}, NextIn(g, h), DOMAIN g)
    BY ReachIs
  <1>3. n \notin RootsOf(DOMAIN g)
    BY <1>1, <1>2 DEF IsClosure
  <1>4. p \in DOMAIN g /\ n \in g[p]
    BY <1>3 DEF PredsIn
  <1>5. p \notin ReachIn(g, h)
    <2> SUFFICES ASSUME p \in ReachIn(g, h) PROVE FALSE
      OBVIOUS
    <2>1. n \in NextIn(g, h)[p]
      BY <1>4 DEF NextIn
    <2> QED BY <1>1, <1>2, <2>1 DEF IsClosure, Closed
  <1> QED BY <1>4, <1>5 DEF Dom

\* The nodes in an order: those that are reached, each after the root or a
\* node that leads to it.
Numbered(g, o) ==
  /\ DOMAIN o = {VRoot} \cup ReachIn(g, VRoot)
  /\ \A n \in DOMAIN o : o[n] \in Nat
  /\ \A m, n \in DOMAIN o : o[m] = o[n] => m = n
  /\ \A n \in DOMAIN o \ {VRoot} : \E p \in PredsIn(g, n) \cap DOMAIN o : o[p] < o[n]

\* The tree under construction: what dominates a node dominates its parent.
DomTree(g, f, o) ==
  /\ Tree(f, o)
  /\ DOMAIN f = DOMAIN g \cup {VRoot}
  /\ Settling(f) \subseteq DOMAIN o
  /\ \A n \in Settling(f) \ {VRoot}, h \in DOMAIN g : Dom(g, h, n) /\ h # n => Dom(g, h, f[n])

\* What dominates a node is on its chain and dominates the chain down from it.
LEMMA DominatorsOnChain ==
  ASSUME NEW g, Graph(g), NEW f, NEW o, DomTree(g, f, o),
         NEW u \in Settling(f), NEW h \in DOMAIN g, Dom(g, h, u)
  PROVE  h \in Chain(f, u) /\ \A x \in Chain(f, u) : o[h] <= o[x] => Dom(g, h, x)
  <1> DEFINE Right(p) == h \in Chain(f, p) /\ \A x \in Chain(f, p) : o[h] <= o[x] => Dom(g, h, x)
             T == {p \in Settling(f) : Dom(g, h, p) /\ ~Right(p)}
             r == [p \in T |-> o[p]]
  <1> SUFFICES ASSUME T # {} PROVE FALSE
    OBVIOUS
  <1>1. Tree(f, o)
    BY DEF DomTree
  <1>2. IsFiniteSet(T)
    <2>1. T \subseteq DOMAIN f
      BY DEF Settling
    <2> QED BY <1>1, <2>1, FS_Subset DEF Tree
  <1>3. r \in [T -> Int]
    <2>1. \A p \in T : o[p] \in Int
      BY <1>1 DEF Tree
    <2> HIDE DEF Right
    <2> QED BY <2>1
  <1> HIDE DEF T, r
  <1>4. PICK p \in T : \A q \in T : r[p] <= r[q]
    BY <1>2, <1>3, LowestRank
  <1>5. p \in Settling(f) /\ Dom(g, h, p) /\ ~Right(p) /\ p \in DOMAIN f /\ p # VRoot
    <2>1. p \in Settling(f) /\ Dom(g, h, p) /\ ~Right(p)
      BY DEF T
    <2>2. p \in DOMAIN g /\ VRoot \notin DOMAIN g
      BY <2>1 DEF Dom, Graph, VRoot
    <2> QED BY <2>1, <2>2 DEF Settling
  <1>6. /\ Chain(f, p) = {p} \cup Chain(f, f[p])
        /\ f[p] \in Settling(f) /\ o[f[p]] < o[p] /\ o[f[p]] \in Nat /\ o[p] \in Nat
    BY <1>1, <1>5, ChainUnfolds DEF Tree
  <1>7. CASE h = p
    <2>1. ASSUME NEW x \in Chain(f, f[p]) PROVE ~(o[h] <= o[x])
      <3>1. x \in Settling(f) /\ o[x] <= o[f[p]]
        BY <1>1, <1>6, ChainWithin
      <3>2. o[x] \in Nat
        BY <1>1, <3>1 DEF Tree
      <3> QED BY <1>6, <1>7, <3>1, <3>2
    <2> QED BY <1>5, <1>6, <1>7, <2>1
  <1>8. CASE h # p
    <2>1. Dom(g, h, f[p])
      BY <1>5, <1>8 DEF DomTree
    <2>2. f[p] \notin T
      <3> SUFFICES ASSUME f[p] \in T PROVE FALSE
        OBVIOUS
      <3>1. r[p] <= r[f[p]] /\ r[p] = o[p] /\ r[f[p]] = o[f[p]]
        BY <1>4 DEF r
      <3> QED BY <1>6, <3>1
    <2>3. Right(f[p])
      BY <1>6, <2>1, <2>2 DEF T
    <2> QED BY <1>5, <1>6, <2>3
  <1> QED BY <1>7, <1>8

\* Giving a node its new dominator keeps the tree.
Visited(g, f, o, n, new) ==
  /\ new # NoIdom
  /\ DomTree(g, [f EXCEPT ![n] = new], o)
  /\ Settling([f EXCEPT ![n] = new]) = Settling(f) \cup {n}

LEMMA VisitKeeps ==
  ASSUME NEW g, Graph(g), NEW f, NEW o, DomTree(g, f, o), NEW n \in DOMAIN g, n \in DOMAIN o,
         Numbered(g, o),
         NEW first \in PredsIn(g, n) \cap Settling(f), o[first] < o[n],
         NEW new, new = NewIn(g, f, o, n)
  PROVE  Visited(g, f, o, n, new)
  <1> DEFINE e == [f EXCEPT ![n] = new]
             ready == PredsIn(g, n) \cap Settling(f)
  <1>1. Tree(f, o) /\ DOMAIN f = DOMAIN g \cup {VRoot} /\ n \in DOMAIN f /\ n # VRoot
    BY DEF DomTree, Graph, VRoot
  <1>2. IsMeet(f, new, ready)
    BY <1>1, NewIsMeet
  <1>3. new \in Settling(f) /\ new \in DOMAIN f /\ new # NoIdom
    <2>1. new \in Settling(f) /\ new \in DOMAIN f
      BY <1>2 DEF IsMeet, Settling
    <2> QED BY <1>1, <2>1 DEF Tree, NoIdom
  <1>4. \A p \in ready : new \in Chain(f, p)
    BY <1>1, <1>2, <1>3, ChainUnfolds DEF IsMeet
  <1>5. o[new] < o[n]
    <2>1. new \in Chain(f, first) /\ first \in Settling(f)
      BY <1>4
    <2>2. o[new] <= o[first]
      BY <1>1, <2>1, ChainWithin
    <2>3. o[new] \in Nat /\ o[first] \in Nat /\ o[n] \in Nat
      BY <1>1, <1>3, <2>1 DEF Tree, Numbered
    <2> QED BY <2>2, <2>3
  <1>6. Settling(e) = Settling(f) \cup {n} /\ DOMAIN e = DOMAIN f /\ e[n] = new
        /\ \A m \in DOMAIN f : m # n => e[m] = f[m]
    BY <1>1, <1>3 DEF Settling
  <1> HIDE DEF e
  <1>7. Tree(e, o)
    <2>1. \A m \in Settling(e) : o[m] \in Nat /\ m \in DOMAIN o
      BY <1>1, <1>6 DEF Tree, Numbered, DomTree
    <2>2. \A l, m \in Settling(e) : o[l] = o[m] => l = m
      BY <2>1 DEF Numbered
    <2>3. \A m \in Settling(e) \ {VRoot} : e[m] \in Settling(e) /\ o[e[m]] < o[m]
      <3> SUFFICES ASSUME NEW m \in Settling(e) \ {VRoot}
                   PROVE  e[m] \in Settling(e) /\ o[e[m]] < o[m]
        OBVIOUS
      <3>1. CASE m = n
        BY <1>3, <1>5, <1>6, <3>1
      <3>2. CASE m # n
        <4>1. m \in Settling(f) \ {VRoot} /\ e[m] = f[m]
          BY <1>6, <3>2 DEF Settling
        <4>2. f[m] \in Settling(f) /\ o[f[m]] < o[m]
          BY <1>1, <4>1 DEF Tree
        <4> QED BY <4>1, <4>2, <1>6
      <3> QED BY <3>1, <3>2
    <2>4. \A m \in DOMAIN e : e[m] \in DOMAIN e \cup {NoIdom}
      BY <1>1, <1>3, <1>6 DEF Tree
    <2>5. VRoot \in DOMAIN e /\ e[VRoot] = VRoot
      BY <1>1, <1>6 DEF Tree
    <2>6. IsFiniteSet(DOMAIN e) /\ Cardinality(DOMAIN e) <= SpanLength + 1 /\ DOMAIN e \subseteq Nat
      BY <1>1, <1>6 DEF Tree
    <2> QED BY <2>1, <2>2, <2>3, <2>4, <2>5, <2>6 DEF Tree
  <1>8. ASSUME NEW m \in Settling(e) \ {VRoot}, NEW h \in DOMAIN g, Dom(g, h, m), h # m
        PROVE  Dom(g, h, e[m])
    <2>1. CASE m # n
      <3>1. m \in Settling(f) \ {VRoot} /\ e[m] = f[m]
        BY <1>6, <2>1 DEF Settling
      <3> QED BY <1>8, <3>1 DEF DomTree
    <2>2. CASE m = n
      <3>1. \A p \in ready : Dom(g, h, p)
        BY <1>8, <2>2, DominatesPreds
      <3>2. \A p \in ready : h \in Chain(f, p)
        BY <3>1, DominatorsOnChain
      <3>3. h \in Chain(f, new)
        BY <1>1, <1>2, <3>2 DEF IsMeet
      <3>4. o[h] <= o[new]
        BY <1>1, <1>3, <3>3, ChainWithin
      <3>5. new \in Chain(f, first) /\ first \in Settling(f) /\ Dom(g, h, first)
        BY <1>4, <3>1
      <3>6. Dom(g, h, new)
        BY <3>4, <3>5, DominatorsOnChain
      <3> QED BY <1>6, <2>2, <3>6
    <2> QED BY <2>1, <2>2
  <1>9. Settling(e) \subseteq DOMAIN o
    BY <1>6 DEF DomTree
  <1>10. DomTree(g, e, o)
    BY <1>1, <1>6, <1>7, <1>8, <1>9 DEF DomTree
  <1> QED BY <1>3, <1>6, <1>10 DEF e, Visited


\* A node has the dominator that a visit would give it.
Fits(g, f, n) == IsMeet(f, f[n], PredsIn(g, n) \cap Settling(f))

\* When every node that is reached fits, its chain holds its dominators.
LEMMA ChainsAreDominators ==
  ASSUME NEW g, Graph(g), NEW f, NEW o, DomTree(g, f, o), Numbered(g, o),
         Settling(f) = DOMAIN o, \A n \in DOMAIN o \ {VRoot} : Fits(g, f, n),
         NEW u \in Settling(f) \ {VRoot}, NEW h \in DOMAIN g
  PROVE  h \in Chain(f, u) <=> Dom(g, h, u)
  <1>1. Tree(f, o) /\ DOMAIN f = DOMAIN g \cup {VRoot} /\ VRoot \notin DOMAIN g /\ u \in DOMAIN g
    BY DEF DomTree, Graph, VRoot, Settling
  <1>2. ASSUME Dom(g, h, u) PROVE h \in Chain(f, u)
    BY <1>2, DominatorsOnChain
  <1>3. ASSUME h \in Chain(f, u), h # u, u \in ReachIn(g, h) PROVE FALSE
    <2> DEFINE T == {x \in DOMAIN g \cap DOMAIN o : h \notin Chain(f, x)}
    <2>1. IsClosure(ReachIn(g, h), RootsOf(DOMAIN g) \ {h}, NextIn(g, h), DOMAIN g)
      BY ReachIs
    <2>2. IsClosure(ReachIn(g, VRoot), RootsOf(DOMAIN g) \ {VRoot}, NextIn(g, VRoot), DOMAIN g)
      BY ReachIs
    <2>3. ASSUME NEW s \in DOMAIN g \cap DOMAIN o, s # h,
                 NEW p \in PredsIn(g, s) \cap Settling(f), h \notin Chain(f, p)
          PROVE  s \in T
      <3>1. Fits(g, f, s) /\ s # VRoot /\ s \in Settling(f) /\ s \in DOMAIN f
        BY <1>1
      <3>2. h \notin Chain(f, f[s])
        BY <3>1, <1>1, <2>3 DEF Fits, IsMeet
      <3>3. Chain(f, s) = {s} \cup Chain(f, f[s])
        BY <3>1, <1>1, ChainUnfolds
      <3> QED BY <2>3, <3>2, <3>3
    <2>4. VRoot \in Settling(f) /\ h \notin Chain(f, VRoot)
      <3>1. VRoot \in Settling(f)
        BY DEF Numbered
      <3>2. Chain(f, VRoot) = {VRoot}
        BY <1>1, ChainUnfolds
      <3> QED BY <1>1, <3>1, <3>2
    <2>5. \A s \in DOMAIN g : s \in RootsOf(DOMAIN g) => s \in DOMAIN o
      BY <2>2, <1>1 DEF IsClosure, Numbered
    <2>6. RootsOf(DOMAIN g) \ {h} \subseteq T
      <3> SUFFICES ASSUME NEW s \in RootsOf(DOMAIN g), s # h PROVE s \in T
        OBVIOUS
      <3>1. s \in DOMAIN g
        BY RootsAreBlocks DEF Graph
      <3>2. VRoot \in PredsIn(g, s)
        BY DEF PredsIn
      <3> HIDE DEF T
      <3> QED BY <3>1, <3>2, <2>3, <2>4, <2>5
    <2>7. Closed(T, NextIn(g, h))
      <3> SUFFICES ASSUME NEW x \in T, NEW s \in NextIn(g, h)[x] PROVE s \in T
        BY DEF Closed
      <3>1. x \in DOMAIN g /\ x \in DOMAIN o /\ h \notin Chain(f, x) /\ s \in g[x] /\ s # h
        BY DEF NextIn
      <3>2. s \in DOMAIN g /\ x \in PredsIn(g, s)
        BY <3>1 DEF Graph, PredsIn
      <3>3. x \in ReachIn(g, VRoot)
        BY <3>1, <1>1 DEF Numbered
      <3>4. s \in NextIn(g, VRoot)[x]
        BY <3>1, <3>2, <1>1 DEF NextIn
      <3>5. s \in DOMAIN o
        BY <2>2, <3>3, <3>4 DEF IsClosure, Closed, Numbered
      <3> HIDE DEF T
      <3> QED BY <3>1, <3>2, <3>5, <2>3
    <2>8. T \in SUBSET DOMAIN g
      OBVIOUS
    <2>9. u \in T
      <3> HIDE DEF T
      <3> QED BY <1>3, <2>1, <2>6, <2>7, <2>8 DEF IsClosure
    <2> QED BY <2>9, <1>3
  <1> QED BY <1>1, <1>2, <1>3 DEF Dom

(***************************************************************************)
(* The depth-first search.                                                 *)
(***************************************************************************)
OnStack(s, a) == \E i \in 1 .. Len(s.stack) : s.stack[i][1] = a
InLeft(s, a) == \E i \in 1 .. Len(s.left) : s.left[i] = a
Leads(edges, a, b) == \E j \in 1 .. Len(edges[a]) : edges[a][j] = b

DfsType(V) == [stack : Seq(V \X Nat), seen : SUBSET V, left : Seq(V)]

\* A node is seen when it is put on the stack; it is left when all that it
\* leads to is seen; what it was seen from is then still on the stack.
DfsInv(V, edges, s) ==
  /\ s \in DfsType(V)
  /\ \A i \in 1 .. Len(s.stack) : s.stack[i][2] \in 1 .. Len(edges[s.stack[i][1]]) + 1
  /\ \A i, j \in 1 .. Len(s.stack) : s.stack[i][1] = s.stack[j][1] => i = j
  /\ \A i, j \in 1 .. Len(s.left) : s.left[i] = s.left[j] => i = j
  /\ \A a \in V : ~(OnStack(s, a) /\ InLeft(s, a))
  /\ \A a \in V : a \in s.seen <=> OnStack(s, a) \/ InLeft(s, a)
  /\ s.stack # <<>> => s.stack[1][1] = VRoot
  /\ s.stack = <<>> => s.left # <<>> /\ s.left[1] = VRoot
  /\ \A i \in 1 .. Len(s.stack) - 1 : Leads(edges, s.stack[i][1], s.stack[i + 1][1])
  /\ \A i \in 1 .. Len(s.stack), j \in Nat \ {0} :
       j < s.stack[i][2] => edges[s.stack[i][1]][j] \in s.seen
  /\ \A i \in 1 .. Len(s.left) : \A j \in 1 .. Len(edges[s.left[i]]) : edges[s.left[i]][j] \in s.seen
  /\ \A i \in 1 .. Len(s.left) :
       \/ s.left[i] = VRoot
       \/ \E j \in 1 .. i - 1 : Leads(edges, s.left[j], s.left[i])
       \/ \E a \in V : OnStack(s, a) /\ Leads(edges, a, s.left[i])
  /\ \A T \in SUBSET V : VRoot \in T /\ (\A a \in T, b \in V : Leads(edges, a, b) => b \in T) => s.seen \subseteq T

\* The three steps of the search, by what they do to the stack.
Popped(s, t) ==
  LET n == Len(s.stack) IN
  /\ Len(t.stack) = n - 1 /\ \A i \in 1 .. n - 1 : t.stack[i] = s.stack[i]
  /\ Len(t.left) = Len(s.left) + 1 /\ t.left[1] = s.stack[n][1]
  /\ \A i \in 1 .. Len(s.left) : t.left[i + 1] = s.left[i]
  /\ t.seen = s.seen

Advanced(s, t) ==
  LET n == Len(s.stack) IN
  /\ Len(t.stack) = n /\ \A i \in 1 .. n - 1 : t.stack[i] = s.stack[i]
  /\ t.stack[n] = <<s.stack[n][1], s.stack[n][2] + 1>>
  /\ t.left = s.left /\ t.seen = s.seen

Pushed(s, t, w) ==
  LET n == Len(s.stack) IN
  /\ Len(t.stack) = n + 1 /\ \A i \in 1 .. n - 1 : t.stack[i] = s.stack[i]
  /\ t.stack[n] = <<s.stack[n][1], s.stack[n][2] + 1>>
  /\ t.stack[n + 1] = <<w, 1>>
  /\ t.left = s.left /\ t.seen = s.seen \cup {w}

Turn(V, edges, s, t, n, v, p) ==
  /\ t \in DfsType(V) /\ n \in Nat \ {0} /\ v \in V /\ p \in 1 .. Len(edges[v]) + 1
  /\ \/ p = Len(edges[v]) + 1 /\ Popped(s, t)
     \/ p \in 1 .. Len(edges[v]) /\ edges[v][p] \in s.seen /\ Advanced(s, t)
     \/ p \in 1 .. Len(edges[v]) /\ edges[v][p] \in V \ s.seen /\ Pushed(s, t, edges[v][p])

\* One turn is one of the three.
LEMMA DfsStepIs ==
  ASSUME NEW V, NEW edges \in [V -> Seq(V)], NEW s, DfsInv(V, edges, s), s.stack # <<>>,
         NEW t, t = DfsStep(edges, s), NEW n, n = Len(s.stack),
         NEW v, v = s.stack[n][1], NEW p, p = s.stack[n][2]
  PROVE  Turn(V, edges, s, t, n, v, p)
  <1> DEFINE K == V \X Nat
             below == SubSeq(s.stack, 1, n - 1)
             next == <<v, p + 1>>
             rest == Append(below, next)
  <1>1. s \in DfsType(V)
    BY DEF DfsInv
  <1>2. s.stack \in Seq(K) /\ s.left \in Seq(V) /\ s.seen \in SUBSET V
    BY <1>1 DEF DfsType
  <1>3. n \in Nat \ {0} /\ s.stack[n] \in K
    <2>1. n \in Nat /\ n # 0
      <3> HIDE DEF K
      <3> QED BY <1>2, EmptySeq, LenProperties
    <2>2. n \in 1 .. Len(s.stack)
      BY <2>1
    <2> HIDE DEF K
    <2> QED BY <2>1, <2>2, <1>2, ElementOfSeq
  <1>4. v \in V /\ p \in 1 .. Len(edges[v]) + 1 /\ edges[v] \in Seq(V) /\ Len(edges[v]) \in Nat
    <2>1. v \in V /\ n \in 1 .. Len(s.stack)
      BY <1>3
    <2>2. p \in 1 .. Len(edges[v]) + 1
      BY <2>1 DEF DfsInv
    <2>3. edges[v] \in Seq(V)
      BY <2>1
    <2> QED BY <2>1, <2>2, <2>3
  <1>5. below \in Seq(K) /\ Len(below) = n - 1 /\ \A i \in 1 .. n - 1 : below[i] = s.stack[i]
    <2>1. 1 \in 1 .. n + 1 /\ n - 1 \in 0 .. n
      BY <1>3
    <2> HIDE DEF K
    <2> QED BY <1>2, <1>3, <2>1, SubSeqProperties
  <1>6. next \in K
    BY <1>4
  <1>7. rest \in Seq(K) /\ Len(rest) = n /\ rest[n] = next /\ \A i \in 1 .. n - 1 : rest[i] = s.stack[i]
    <2> HIDE DEF K, next, below
    <2> QED BY <1>3, <1>5, <1>6, AppendProperties
  <1>8. CASE p > Len(edges[v])
    <2>1. p = Len(edges[v]) + 1
      BY <1>4, <1>8
    <2>2. t = [s EXCEPT !.stack = below, !.left = <<v>> \o @]
      BY <1>8 DEF DfsStep
    <2>3. t = [stack |-> below, seen |-> s.seen, left |-> <<v>> \o s.left]
      <3> HIDE DEF below
      <3> QED BY <1>1, <2>2 DEF DfsType
    <2>4. /\ <<v>> \o s.left \in Seq(V) /\ Len(<<v>> \o s.left) = Len(s.left) + 1
          /\ (<<v>> \o s.left)[1] = v
          /\ \A i \in 1 .. Len(s.left) : (<<v>> \o s.left)[i + 1] = s.left[i]
      <3>1. <<v>> \in Seq(V) /\ Len(<<v>>) = 1 /\ <<v>>[1] = v
        BY <1>4
      <3> QED BY <3>1, <1>2, ConcatProperties
    <2> HIDE DEF below
    <2>5. t \in DfsType(V)
      BY <1>2, <1>5, <2>3, <2>4 DEF DfsType
    <2>6. Popped(s, t)
      BY <1>5, <2>3, <2>4 DEF Popped
    <2> QED BY <1>3, <1>4, <2>1, <2>5, <2>6 DEF Turn
  <1>9. CASE ~(p > Len(edges[v]))
    <2>1. p \in 1 .. Len(edges[v]) /\ edges[v][p] \in V
      <3>1. p \in 1 .. Len(edges[v])
        BY <1>4, <1>9
      <3> QED BY <3>1, <1>4, ElementOfSeq
    <2>2. CASE edges[v][p] \in s.seen
      <3>1. t = [s EXCEPT !.stack = rest]
        BY <1>9, <2>2 DEF DfsStep
      <3>2. t = [stack |-> rest, seen |-> s.seen, left |-> s.left]
        <4> HIDE DEF rest
        <4> QED BY <1>1, <3>1 DEF DfsType
      <3> HIDE DEF rest
      <3>3. t \in DfsType(V)
        BY <1>2, <1>7, <3>2 DEF DfsType
      <3>4. Advanced(s, t)
        BY <1>7, <3>2 DEF Advanced
      <3> QED BY <1>3, <1>4, <2>1, <2>2, <3>3, <3>4 DEF Turn
    <2>3. CASE edges[v][p] \notin s.seen
      <3> DEFINE w == edges[v][p]
                 first == <<w, 1>>
      <3>1. t = [s EXCEPT !.stack = Append(rest, first), !.seen = @ \cup {w}]
        BY <1>9, <2>3 DEF DfsStep
      <3>2. t = [stack |-> Append(rest, first), seen |-> s.seen \cup {w}, left |-> s.left]
        <4> HIDE DEF rest, w, first
        <4> QED BY <1>1, <3>1 DEF DfsType
      <3>3. first \in K /\ w \in V /\ w \notin s.seen
        BY <2>1, <2>3
      <3>4. /\ Append(rest, first) \in Seq(K) /\ Len(Append(rest, first)) = n + 1
            /\ Append(rest, first)[n + 1] = first
            /\ \A i \in 1 .. n : Append(rest, first)[i] = rest[i]
        <4> HIDE DEF K, rest, first, w, next
        <4> QED BY <1>3, <1>7, <3>3, AppendProperties
      <3>5. t \in DfsType(V)
        <4> HIDE DEF rest, first, w
        <4>1. Append(rest, first) \in Seq(K)
          BY <3>4
        <4>2. s.seen \cup {w} \in SUBSET V /\ s.left \in Seq(V)
          <5>1. s.seen \subseteq V /\ s.left \in Seq(V)
            BY <1>2 DEF DfsType
          <5> QED BY <5>1, <3>3
        <4> QED BY ONLY <3>2, <4>1, <4>2 DEF DfsType
      <3>6. Pushed(s, t, w)
        <4>1. n \in 1 .. n /\ \A i \in 1 .. n - 1 : i \in 1 .. n
          BY <1>3
        <4>2. t.stack = Append(rest, first) /\ t.seen = s.seen \cup {w} /\ t.left = s.left
          <5> HIDE DEF rest, first, w
          <5> QED BY <3>2
        <4>3. Len(t.stack) = n + 1 /\ t.stack[n + 1] = first /\ t.stack[n] = next
              /\ \A i \in 1 .. n - 1 : t.stack[i] = s.stack[i]
          <5> HIDE DEF rest, first, w, next
          <5> QED BY <4>1, <4>2, <3>4, <1>7
        <4> HIDE DEF w
        <4>4. v = s.stack[n][1] /\ p = s.stack[n][2] /\ n = Len(s.stack)
          OBVIOUS
        <4> QED BY ONLY <4>2, <4>3, <4>4 DEF Pushed
      <3> QED BY <1>3, <1>4, <2>1, <3>3, <3>5, <3>6 DEF Turn
    <2> QED BY <2>2, <2>3
  <1> QED BY <1>8, <1>9, <1>4

\* What the search knows of its positions.
LEMMA DfsSizes ==
  ASSUME NEW V, NEW s, s \in DfsType(V)
  PROVE  /\ Len(s.stack) \in Nat /\ Len(s.left) \in Nat
         /\ (s.stack = <<>>) <=> (Len(s.stack) = 0)
         /\ (s.left = <<>>) <=> (Len(s.left) = 0)
         /\ \A i \in 1 .. Len(s.stack) : s.stack[i][1] \in V /\ s.stack[i][2] \in Nat
         /\ \A i \in 1 .. Len(s.left) : s.left[i] \in V
  <1> DEFINE K == V \X Nat
  <1>1. s.stack \in Seq(K) /\ s.left \in Seq(V)
    BY DEF DfsType
  <1>2. \A i \in 1 .. Len(s.stack) : s.stack[i] \in K
    <2> HIDE DEF K
    <2> QED BY <1>1, ElementOfSeq
  <1>3. \A i \in 1 .. Len(s.stack) : s.stack[i][1] \in V /\ s.stack[i][2] \in Nat
    BY <1>2
  <1>4. \A i \in 1 .. Len(s.left) : s.left[i] \in V
    BY <1>1, ElementOfSeq
  <1>5. /\ Len(s.stack) \in Nat /\ Len(s.left) \in Nat
        /\ (s.stack = <<>>) <=> (Len(s.stack) = 0)
        /\ (s.left = <<>>) <=> (Len(s.left) = 0)
    <2> HIDE DEF K
    <2> QED BY <1>1, EmptySeq, LenProperties
  <1> QED BY <1>3, <1>4, <1>5

\* Leaving a node keeps the invariant of the search.
LEMMA PoppedKeeps ==
  ASSUME NEW V, NEW edges \in [V -> Seq(V)], NEW s, DfsInv(V, edges, s), s.stack # <<>>,
         NEW t \in DfsType(V), NEW n, n = Len(s.stack), NEW v, v = s.stack[n][1],
         s.stack[n][2] = Len(edges[v]) + 1, Popped(s, t)
  PROVE  DfsInv(V, edges, t)
  <1>1. s \in DfsType(V)
    BY DEF DfsInv
  <1>2. /\ n \in Nat \ {0} /\ Len(s.left) \in Nat /\ v \in V
        /\ \A i \in 1 .. n : s.stack[i][1] \in V
        /\ \A i \in 1 .. Len(s.left) : s.left[i] \in V
    BY <1>1, DfsSizes
  <1>3. /\ Len(t.stack) = n - 1 /\ \A i \in 1 .. n - 1 : t.stack[i] = s.stack[i] /\ i \in 1 .. n
        /\ Len(t.left) = Len(s.left) + 1 /\ t.left[1] = v
        /\ \A i \in 2 .. Len(t.left) : i - 1 \in 1 .. Len(s.left) /\ t.left[i] = s.left[i - 1]
        /\ \A i \in 1 .. Len(s.left) : i + 1 \in 1 .. Len(t.left) /\ t.left[i + 1] = s.left[i]
        /\ t.seen = s.seen
    <2>1. \A i \in 2 .. Len(s.left) + 1 : i - 1 \in 1 .. Len(s.left) /\ (i - 1) + 1 = i
      BY <1>2
    <2>2. \A i \in 1 .. Len(s.left) : i + 1 \in 1 .. Len(s.left) + 1
      BY <1>2
    <2>3. \A i \in 1 .. n - 1 : i \in 1 .. n
      BY <1>2
    <2>4. \A i \in 2 .. Len(s.left) + 1 : t.left[(i - 1) + 1] = s.left[i - 1]
      BY <2>1 DEF Popped
    <2> QED BY <2>1, <2>2, <2>3, <2>4 DEF Popped
  <1>4. \A a \in V : OnStack(t, a) <=> OnStack(s, a) /\ a # v
    <2> SUFFICES ASSUME NEW a \in V PROVE OnStack(t, a) <=> OnStack(s, a) /\ a # v
      OBVIOUS
    <2>1. ASSUME OnStack(t, a) PROVE OnStack(s, a) /\ a # v
      <3>1. PICK i \in 1 .. Len(t.stack) : t.stack[i][1] = a
        BY <2>1 DEF OnStack
      <3>2. s.stack[i][1] = a /\ i \in 1 .. n /\ i \in 1 .. n - 1
        BY <3>1, <1>3
      <3>3. i # n /\ n \in 1 .. n
        BY <3>2, <1>2
      <3> QED BY <3>2, <3>3 DEF OnStack, DfsInv
    <2>2. ASSUME OnStack(s, a), a # v PROVE OnStack(t, a)
      <3>1. PICK i \in 1 .. n : s.stack[i][1] = a
        BY <2>2 DEF OnStack
      <3>2. i \in 1 .. n - 1
        BY <2>2, <3>1, <1>2
      <3> QED BY <3>1, <3>2, <1>3 DEF OnStack
    <2> QED BY <2>1, <2>2
  <1>5. \A a \in V : InLeft(t, a) <=> a = v \/ InLeft(s, a)
    <2> SUFFICES ASSUME NEW a \in V PROVE InLeft(t, a) <=> a = v \/ InLeft(s, a)
      OBVIOUS
    <2>1. ASSUME InLeft(t, a), a # v PROVE InLeft(s, a)
      <3>1. PICK i \in 1 .. Len(t.left) : t.left[i] = a
        BY <2>1 DEF InLeft
      <3>2. i \in 2 .. Len(t.left)
        BY <2>1, <3>1, <1>2, <1>3
      <3> QED BY <3>1, <3>2, <1>3 DEF InLeft
    <2>2. ASSUME InLeft(s, a) PROVE InLeft(t, a)
      BY <2>2, <1>3 DEF InLeft
    <2>3. InLeft(t, v)
      <3>1. 1 \in 1 .. Len(t.left)
        BY <1>2, <1>3
      <3> QED BY <3>1, <1>3 DEF InLeft
    <2> QED BY <2>1, <2>2, <2>3
  <1>6. OnStack(s, v) /\ n \in 1 .. n
    <2>1. n \in 1 .. n
      BY <1>2
    <2> QED BY <2>1 DEF OnStack
  <1>a. /\ \A i \in 1 .. n, j \in Nat \ {0} : j < s.stack[i][2] => edges[s.stack[i][1]][j] \in s.seen
        /\ \A i \in 1 .. Len(s.left) :
             \A j \in 1 .. Len(edges[s.left[i]]) : edges[s.left[i]][j] \in s.seen
    BY DEF DfsInv
  <1>7. \A i \in 1 .. Len(t.stack) : t.stack[i][2] \in 1 .. Len(edges[t.stack[i][1]]) + 1
    BY <1>3 DEF DfsInv
  <1>8. \A i, j \in 1 .. Len(t.stack) : t.stack[i][1] = t.stack[j][1] => i = j
    BY <1>3 DEF DfsInv
  <1>9. \A i, j \in 1 .. Len(t.left) : t.left[i] = t.left[j] => i = j
    <2> SUFFICES ASSUME NEW i \in 1 .. Len(t.left), NEW j \in 1 .. Len(t.left), t.left[i] = t.left[j]
                 PROVE  i = j
      OBVIOUS
    <2>1. \A k \in 2 .. Len(t.left) : t.left[k] # v
      <3> SUFFICES ASSUME NEW k \in 2 .. Len(t.left), t.left[k] = v PROVE FALSE
        OBVIOUS
      <3>1. InLeft(s, v)
        BY <1>3 DEF InLeft
      <3> QED BY <3>1, <1>2, <1>6 DEF DfsInv
    <2>2. i = 1 \/ i \in 2 .. Len(t.left)
      BY <1>2, <1>3
    <2>3. j = 1 \/ j \in 2 .. Len(t.left)
      BY <1>2, <1>3
    <2>4. CASE i \in 2 .. Len(t.left) /\ j \in 2 .. Len(t.left)
      <3>1. i - 1 \in 1 .. Len(s.left) /\ j - 1 \in 1 .. Len(s.left) /\ s.left[i - 1] = s.left[j - 1]
        BY <1>3, <2>4
      <3>2. i - 1 = j - 1
        BY <3>1 DEF DfsInv
      <3> QED BY <2>4, <3>2
    <2> QED BY <2>1, <2>2, <2>3, <2>4, <1>3
  <1>10. \A a \in V : ~(OnStack(t, a) /\ InLeft(t, a))
    BY <1>4, <1>5 DEF DfsInv
  <1>11. \A a \in V : a \in t.seen <=> OnStack(t, a) \/ InLeft(t, a)
    BY <1>3, <1>4, <1>5, <1>6 DEF DfsInv
  <1>12. t.stack # <<>> => t.stack[1][1] = VRoot
    <2> SUFFICES ASSUME t.stack # <<>> PROVE t.stack[1][1] = VRoot
      OBVIOUS
    <2>1. Len(t.stack) # 0
      BY DfsSizes
    <2>2. 1 \in 1 .. n - 1
      BY <2>1, <1>2, <1>3
    <2> QED BY <2>2, <1>3 DEF DfsInv
  <1>13. t.stack = <<>> => t.left # <<>> /\ t.left[1] = VRoot
    <2> SUFFICES ASSUME t.stack = <<>> PROVE t.left # <<>> /\ t.left[1] = VRoot
      OBVIOUS
    <2>1. n = 1
      BY <1>2, <1>3, DfsSizes
    <2>2. v = VRoot
      BY <2>1 DEF DfsInv
    <2>3. Len(t.left) # 0
      BY <1>2, <1>3
    <2> QED BY <2>2, <2>3, <1>3, DfsSizes
  <1>14. \A i \in 1 .. Len(t.stack) - 1 : Leads(edges, t.stack[i][1], t.stack[i + 1][1])
    <2> SUFFICES ASSUME NEW i \in 1 .. Len(t.stack) - 1
                 PROVE  Leads(edges, t.stack[i][1], t.stack[i + 1][1])
      OBVIOUS
    <2>1. i \in 1 .. n - 1 /\ i + 1 \in 1 .. n - 1
      BY <1>2, <1>3
    <2> QED BY <2>1, <1>3 DEF DfsInv
  <1>15. \A i \in 1 .. Len(t.stack), j \in Nat \ {0} :
           j < t.stack[i][2] => edges[t.stack[i][1]][j] \in t.seen
    BY <1>3 DEF DfsInv
  <1>16. \A i \in 1 .. Len(t.left) : \A j \in 1 .. Len(edges[t.left[i]]) : edges[t.left[i]][j] \in t.seen
    <2> SUFFICES ASSUME NEW i \in 1 .. Len(t.left), NEW j \in 1 .. Len(edges[t.left[i]])
                 PROVE  edges[t.left[i]][j] \in s.seen
      BY <1>3
    <2>1. CASE i = 1
      <3>1. edges[v] \in Seq(V)
        BY <1>2
      <3>2. Len(edges[v]) \in Nat
        BY ONLY <3>1
      <3>3. j \in Nat \ {0} /\ j < s.stack[n][2]
        BY <2>1, <3>2, <1>3
      <3>4. edges[s.stack[n][1]][j] \in s.seen
        BY <3>3, <1>a, <1>6
      <3> QED BY <2>1, <3>4, <1>3
    <2>2. CASE i # 1
      <3>1. i \in 2 .. Len(t.left)
        BY <2>2, <1>2, <1>3
      <3>2. i - 1 \in 1 .. Len(s.left) /\ t.left[i] = s.left[i - 1]
        BY <3>1, <1>3
      <3>3. edges[s.left[i - 1]][j] \in s.seen
        BY <3>2, <1>a
      <3> QED BY <3>2, <3>3
    <2> QED BY <2>1, <2>2
  <1>17. ASSUME NEW i \in 1 .. Len(t.left)
         PROVE  \/ t.left[i] = VRoot
                \/ \E j \in 1 .. i - 1 : Leads(edges, t.left[j], t.left[i])
                \/ \E a \in V : OnStack(t, a) /\ Leads(edges, a, t.left[i])
    <2>1. CASE i = 1
      <3>1. CASE n = 1
        BY <2>1, <3>1, <1>3 DEF DfsInv
      <3>2. CASE n # 1
        <4>0. \A k \in Nat \ {0} : k # 1 => k - 1 \in 1 .. k - 1 /\ (k - 1) + 1 = k
          OBVIOUS
        <4>1. n - 1 \in 1 .. Len(s.stack) - 1 /\ n - 1 \in 1 .. n - 1 /\ (n - 1) + 1 = n
          BY <4>0, <3>2, <1>2
        <4>2. Leads(edges, s.stack[n - 1][1], s.stack[(n - 1) + 1][1])
          BY <4>1 DEF DfsInv
        <4>3. Leads(edges, s.stack[n - 1][1], v) /\ s.stack[n - 1][1] \in V
          BY <4>1, <4>2, <1>2, <1>3
        <4>4. OnStack(t, s.stack[n - 1][1])
          BY <4>1, <1>3 DEF OnStack
        <4> QED BY <2>1, <4>3, <4>4, <1>3
      <3> QED BY <3>1, <3>2
    <2>2. CASE i # 1
      <3>1. i \in 2 .. Len(t.left) /\ i - 1 \in 1 .. Len(s.left) /\ t.left[i] = s.left[i - 1]
        BY <2>2, <1>2, <1>3
      <3>2. \/ s.left[i - 1] = VRoot
            \/ \E j \in 1 .. (i - 1) - 1 : Leads(edges, s.left[j], s.left[i - 1])
            \/ \E a \in V : OnStack(s, a) /\ Leads(edges, a, s.left[i - 1])
        BY <3>1 DEF DfsInv
      <3>3. ASSUME NEW j \in 1 .. (i - 1) - 1, Leads(edges, s.left[j], s.left[i - 1])
            PROVE  \E k \in 1 .. i - 1 : Leads(edges, t.left[k], t.left[i])
        <4>1. j + 1 \in 1 .. i - 1 /\ j \in 1 .. Len(s.left)
          BY <3>1, <1>2
        <4>2. t.left[j + 1] = s.left[j]
          BY <4>1, <1>3
        <4> QED BY <3>1, <3>3, <4>1, <4>2
      <3>4. ASSUME NEW a \in V, OnStack(s, a), Leads(edges, a, s.left[i - 1])
            PROVE  \/ \E k \in 1 .. i - 1 : Leads(edges, t.left[k], t.left[i])
                   \/ \E b \in V : OnStack(t, b) /\ Leads(edges, b, t.left[i])
        <4>1. CASE a = v
          <5>1. 1 \in 1 .. i - 1 /\ t.left[1] = a
            BY <3>1, <4>1, <1>3
          <5> QED BY <3>1, <3>4, <5>1
        <4>2. CASE a # v
          BY <3>1, <3>4, <4>2, <1>4
        <4> QED BY <4>1, <4>2
      <3> QED BY <3>1, <3>2, <3>3, <3>4
    <2> QED BY <2>1, <2>2
  <1>18. \A T \in SUBSET V :
           VRoot \in T /\ (\A a \in T, b \in V : Leads(edges, a, b) => b \in T) => t.seen \subseteq T
    BY <1>3 DEF DfsInv
  <1> QED BY <1>7, <1>8, <1>9, <1>10, <1>11, <1>12, <1>13, <1>14, <1>15, <1>16, <1>17, <1>18 DEF DfsInv

\* Going past an edge to a node seen before keeps it.
LEMMA AdvancedKeeps ==
  ASSUME NEW V, NEW edges \in [V -> Seq(V)], NEW s, DfsInv(V, edges, s), s.stack # <<>>,
         NEW t \in DfsType(V), NEW n, n = Len(s.stack), NEW v, v = s.stack[n][1],
         NEW p, p = s.stack[n][2], p \in 1 .. Len(edges[v]), edges[v][p] \in s.seen, Advanced(s, t)
  PROVE  DfsInv(V, edges, t)
  <1>1. s \in DfsType(V)
    BY DEF DfsInv
  <1>2. n \in Nat \ {0} /\ v \in V /\ n \in 1 .. n /\ Len(edges[v]) \in Nat
    <2>1. n \in Nat \ {0} /\ v \in V
      BY <1>1, DfsSizes
    <2>2. edges[v] \in Seq(V)
      BY <2>1
    <2> QED BY <2>1, <2>2
  <1>3. /\ Len(t.stack) = n /\ \A i \in 1 .. n : t.stack[i][1] = s.stack[i][1]
        /\ \A i \in 1 .. n : i # n => t.stack[i] = s.stack[i]
        /\ t.stack[n][2] = p + 1
        /\ t.left = s.left /\ t.seen = s.seen
    <2>1. \A i \in 1 .. n : i # n => i \in 1 .. n - 1
      BY <1>2
    <2> QED BY <2>1 DEF Advanced
  <1>4. \A a \in V : OnStack(t, a) <=> OnStack(s, a)
    BY <1>3 DEF OnStack
  <1>5. \A a \in V : InLeft(t, a) <=> InLeft(s, a)
    BY <1>3 DEF InLeft
  <1>6. \A i \in 1 .. Len(t.stack) : t.stack[i][2] \in 1 .. Len(edges[t.stack[i][1]]) + 1
    <2> SUFFICES ASSUME NEW i \in 1 .. n
                 PROVE  t.stack[i][2] \in 1 .. Len(edges[t.stack[i][1]]) + 1
      BY <1>3
    <2>1. CASE i = n
      <3> DEFINE m == Len(edges[v])
      <3>0. m \in Nat /\ p \in 1 .. m
        BY <1>2, Zenon
      <3> HIDE DEF m
      <3>1. p + 1 \in 1 .. m + 1
        BY ONLY <3>0
      <3>2. t.stack[i][2] = p + 1 /\ t.stack[i][1] = v
        BY <2>1, <1>2, <1>3, Zenon
      <3> QED BY <3>1, <3>2, Zenon DEF m
    <2>2. CASE i # n
      BY <2>2, <1>3 DEF DfsInv
    <2> QED BY <2>1, <2>2
  <1>7. \A i, j \in 1 .. Len(t.stack) : t.stack[i][1] = t.stack[j][1] => i = j
    BY <1>3 DEF DfsInv
  <1>8. t.stack # <<>> => t.stack[1][1] = VRoot
    <2>1. 1 \in 1 .. n
      BY <1>2
    <2> QED BY <2>1, <1>3 DEF DfsInv
  <1>9. t.stack # <<>>
    BY <1>2, <1>3, DfsSizes
  <1>10. \A i \in 1 .. Len(t.stack) - 1 : Leads(edges, t.stack[i][1], t.stack[i + 1][1])
    <2>1. \A i \in 1 .. n - 1 : i \in 1 .. n /\ i + 1 \in 1 .. n
      BY <1>2
    <2> QED BY <2>1, <1>3 DEF DfsInv
  <1>11. \A i \in 1 .. Len(t.stack), j \in Nat \ {0} :
           j < t.stack[i][2] => edges[t.stack[i][1]][j] \in t.seen
    <2> SUFFICES ASSUME NEW i \in 1 .. n, NEW j \in Nat \ {0}, j < t.stack[i][2]
                 PROVE  edges[t.stack[i][1]][j] \in t.seen
      BY <1>3
    <2>1. CASE i = n
      <3>1. j = p \/ j < s.stack[n][2]
        BY <2>1, <1>3
      <3>2. CASE j = p
        BY <2>1, <3>2, <1>3
      <3>3. CASE j < s.stack[n][2]
        BY <2>1, <3>3, <1>2, <1>3 DEF DfsInv
      <3> QED BY <3>1, <3>2, <3>3
    <2>2. CASE i # n
      BY <2>2, <1>3 DEF DfsInv
    <2> QED BY <2>1, <2>2
  <1>12. \A i \in 1 .. Len(t.left) : \A j \in 1 .. Len(edges[t.left[i]]) : edges[t.left[i]][j] \in t.seen
    BY <1>3 DEF DfsInv
  <1>13. \A i \in 1 .. Len(t.left) :
           \/ t.left[i] = VRoot
           \/ \E j \in 1 .. i - 1 : Leads(edges, t.left[j], t.left[i])
           \/ \E a \in V : OnStack(t, a) /\ Leads(edges, a, t.left[i])
    BY <1>3, <1>4 DEF DfsInv
  <1>14. /\ \A i, j \in 1 .. Len(t.left) : t.left[i] = t.left[j] => i = j
         /\ \A a \in V : ~(OnStack(t, a) /\ InLeft(t, a))
         /\ \A a \in V : a \in t.seen <=> OnStack(t, a) \/ InLeft(t, a)
    BY <1>3, <1>4, <1>5 DEF DfsInv
  <1>15. \A T \in SUBSET V :
           VRoot \in T /\ (\A a \in T, b \in V : Leads(edges, a, b) => b \in T) => t.seen \subseteq T
    BY <1>3 DEF DfsInv
  <1> QED BY <1>6, <1>7, <1>8, <1>9, <1>10, <1>11, <1>12, <1>13, <1>14, <1>15 DEF DfsInv

\* Going on to a node not seen before keeps it.
PushedFrom(V, edges, s, t, n, v, p, w) ==
  /\ edges \in [V -> Seq(V)] /\ DfsInv(V, edges, s) /\ s.stack # <<>> /\ t \in DfsType(V)
  /\ n = Len(s.stack) /\ v = s.stack[n][1] /\ p = s.stack[n][2] /\ p \in 1 .. Len(edges[v])
  /\ w = edges[v][p] /\ w \in V /\ w \notin s.seen /\ Pushed(s, t, w)

LEMMA PushedKeeps ==
  ASSUME NEW V, NEW edges, NEW s, NEW t, NEW n, NEW v, NEW p, NEW w,
         PushedFrom(V, edges, s, t, n, v, p, w)
  PROVE  DfsInv(V, edges, t)
  <1>0. /\ v = s.stack[n][1] /\ p = s.stack[n][2] /\ p \in 1 .. Len(edges[v]) /\ w = edges[v][p]
        /\ n = Len(s.stack) /\ w \in V /\ w \notin s.seen
    BY Zenon DEF PushedFrom
  <1>0a. DfsInv(V, edges, s) /\ t \in DfsType(V) /\ Pushed(s, t, w) /\ s.stack # <<>>
    BY Zenon DEF PushedFrom
  <1>1. s \in DfsType(V)
    BY <1>0a, Zenon DEF DfsInv
  <1>1a. /\ \A i \in 1 .. n : s.stack[i][2] \in 1 .. Len(edges[s.stack[i][1]]) + 1
         /\ \A i, j \in 1 .. n : s.stack[i][1] = s.stack[j][1] => i = j
         /\ s.stack[1][1] = VRoot
         /\ \A a \in V : ~(OnStack(s, a) /\ InLeft(s, a))
         /\ \A a \in V : a \in s.seen <=> OnStack(s, a) \/ InLeft(s, a)
    BY <1>0, <1>0a, Zenon DEF DfsInv
  <1>2. n \in Nat \ {0} /\ v \in V /\ n \in 1 .. n /\ Len(edges[v]) \in Nat /\ Len(edges[w]) \in Nat
    <2>1. n \in Nat \ {0} /\ v \in V
      <3>1. /\ Len(s.stack) \in Nat /\ Len(s.stack) # 0
            /\ \A i \in 1 .. Len(s.stack) : s.stack[i][1] \in V
        BY <1>0a, <1>1, DfsSizes
      <3>2. v = s.stack[n][1] /\ n = Len(s.stack)
        BY <1>0, Zenon
      <3> QED BY ONLY <3>1, <3>2
    <2>2. edges[v] \in Seq(V) /\ edges[w] \in Seq(V)
      <3>1. edges \in [V -> Seq(V)]
        BY Zenon DEF PushedFrom
      <3> QED BY ONLY <3>1, <2>1, <1>0
    <2>3. Len(edges[v]) \in Nat /\ Len(edges[w]) \in Nat
      BY ONLY <2>2
    <2>4. n \in 1 .. n
      BY ONLY <2>1
    <2> QED BY ONLY <2>1, <2>3, <2>4
  <1>3. /\ Len(t.stack) = n + 1 /\ \A i \in 1 .. n : t.stack[i][1] = s.stack[i][1]
        /\ \A i \in 1 .. n : i # n => t.stack[i] = s.stack[i]
        /\ t.stack[n][2] = p + 1
        /\ t.stack[n + 1][1] = w /\ t.stack[n + 1][2] = 1
        /\ t.left = s.left /\ t.seen = s.seen \cup {w}
    <2>1. \A i \in 1 .. n : i # n => i \in 1 .. n - 1
      BY <1>2
    <2>2. /\ Len(t.stack) = n + 1 /\ \A i \in 1 .. n - 1 : t.stack[i] = s.stack[i]
          /\ t.stack[n] = <<v, p + 1>> /\ t.stack[n + 1] = <<w, 1>>
          /\ t.left = s.left /\ t.seen = s.seen \cup {w}
      BY <1>0, <1>0a, Zenon DEF Pushed
    <2>2a. n \in 1 .. n /\ v = s.stack[n][1]
      BY ONLY <1>0, <1>2
    <2>3. t.stack[n][1] = v /\ t.stack[n][2] = p + 1 /\ t.stack[n + 1][1] = w /\ t.stack[n + 1][2] = 1
      BY ONLY <2>2
    <2>4. \A i \in 1 .. n : t.stack[i][1] = s.stack[i][1]
      BY ONLY <2>1, <2>2, <2>2a, <2>3
    <2>5. \A i \in 1 .. n : i # n => t.stack[i] = s.stack[i]
      BY ONLY <2>1, <2>2
    <2> QED BY ONLY <2>2, <2>3, <2>4, <2>5
  <1>4. \A i \in 1 .. n + 1 : i = n + 1 \/ i \in 1 .. n
    BY ONLY <1>2
  <1>5. \A a \in V : OnStack(t, a) <=> OnStack(s, a) \/ a = w
    <2>1. n + 1 \in 1 .. n + 1 /\ \A i \in 1 .. n : i \in 1 .. n + 1
      BY ONLY <1>2
    <2> QED BY ONLY <2>1, <1>0, <1>3, <1>4 DEF OnStack
  <1>6. \A a \in V : InLeft(t, a) <=> InLeft(s, a)
    BY ONLY <1>3 DEF InLeft
  <1>7. ~OnStack(s, w) /\ ~InLeft(s, w)
    BY ONLY <1>0, <1>1a, Zenon
  <1>8. \A i \in 1 .. Len(t.stack) : t.stack[i][2] \in 1 .. Len(edges[t.stack[i][1]]) + 1
    <2> SUFFICES ASSUME NEW i \in 1 .. n + 1
                 PROVE  t.stack[i][2] \in 1 .. Len(edges[t.stack[i][1]]) + 1
      BY <1>3
    <2>1. CASE i = n
      <3> DEFINE m == Len(edges[v])
      <3>0. m \in Nat /\ p \in 1 .. m
        BY <1>0, <1>2, Zenon
      <3> HIDE DEF m
      <3>1. p + 1 \in 1 .. m + 1
        BY ONLY <3>0
      <3>2. t.stack[i][2] = p + 1 /\ t.stack[i][1] = s.stack[n][1] /\ v = s.stack[n][1]
        BY <2>1, <1>0, <1>2, <1>3, Zenon
      <3> QED BY <3>1, <3>2, Zenon DEF m
    <2>2. CASE i = n + 1
      <3> DEFINE m == Len(edges[w])
      <3>0. m \in Nat
        BY ONLY <1>2
      <3> HIDE DEF m
      <3>1. 1 \in 1 .. m + 1
        BY ONLY <3>0
      <3> USE DEF m
      <3> QED BY ONLY <2>2, <3>1, <1>3
    <2>3. CASE i # n /\ i # n + 1
      <3>1. i \in 1 .. n
        BY <2>3, <1>4, Zenon
      <3> QED BY ONLY <2>3, <3>1, <1>1a, <1>3
    <2> QED BY <2>1, <2>2, <2>3
  <1>9. \A i, j \in 1 .. Len(t.stack) : t.stack[i][1] = t.stack[j][1] => i = j
    <2> SUFFICES ASSUME NEW i \in 1 .. n + 1, NEW j \in 1 .. n + 1, t.stack[i][1] = t.stack[j][1]
                 PROVE  i = j
      BY <1>3
    <2>1. \A k \in 1 .. n : s.stack[k][1] # w
      BY ONLY <1>0, <1>7 DEF OnStack
    <2>2. t.stack[i][1] = t.stack[j][1] /\ (i = n + 1 \/ i \in 1 .. n) /\ (j = n + 1 \/ j \in 1 .. n)
      BY <1>4, Zenon
    <2>3. CASE i \in 1 .. n /\ j \in 1 .. n
      BY ONLY <2>2, <2>3, <1>1a, <1>3
    <2> QED BY ONLY <2>1, <2>2, <2>3, <1>3
  <1>10. t.stack # <<>> /\ t.stack[1][1] = VRoot
    <2>1. 1 \in 1 .. n
      BY ONLY <1>2
    <2>2. t.stack # <<>>
      <3>1. n + 1 # 0
        BY ONLY <1>2
      <3>2. Len(t.stack) = n + 1
        BY ONLY <1>3
      <3>3. Len(t.stack) # 0
        BY ONLY <3>1, <3>2
      <3> QED BY <3>3, <1>0a, DfsSizes
    <2> QED BY ONLY <2>1, <2>2, <1>1a, <1>3
  <1>11. \A i \in 1 .. Len(t.stack) - 1 : Leads(edges, t.stack[i][1], t.stack[i + 1][1])
    <2>0. Len(t.stack) - 1 = n
      <3>1. Len(t.stack) = n + 1
        BY <1>3
      <3>2. n \in Nat
        BY <1>2
      <3>3. \A m \in Nat : (m + 1) - 1 = m
        OBVIOUS
      <3>4. (n + 1) - 1 = n
        BY <3>2, <3>3, Zenon
      <3> QED BY <3>1, <3>4, Zenon
    <2> SUFFICES ASSUME NEW i \in 1 .. n PROVE Leads(edges, t.stack[i][1], t.stack[i + 1][1])
      BY <2>0
    <2>1. CASE i = n
      <3>1. Leads(edges, v, w)
        BY <1>0, Zenon DEF Leads
      <3> QED BY <2>1, <3>1, <1>0, <1>2, <1>3, Zenon
    <2>2. CASE i # n
      <3>1. i \in 1 .. n - 1 /\ i + 1 \in 1 .. n
        BY <2>2, <1>2
      <3>2. \A k \in 1 .. n - 1 : Leads(edges, s.stack[k][1], s.stack[k + 1][1])
        BY <1>0, <1>0a, Zenon DEF DfsInv
      <3>3. i \in 1 .. n
        OBVIOUS
      <3> QED BY ONLY <3>1, <3>2, <3>3, <1>3
    <2> QED BY <2>1, <2>2
  <1>12. \A i \in 1 .. Len(t.stack), j \in Nat \ {0} :
           j < t.stack[i][2] => edges[t.stack[i][1]][j] \in t.seen
    <2> SUFFICES ASSUME NEW i \in 1 .. n + 1, NEW j \in Nat \ {0}, j < t.stack[i][2]
                 PROVE  edges[t.stack[i][1]][j] \in t.seen
      BY <1>3
    <2>0. j \in Nat \ {0} /\ j < t.stack[i][2]
      OBVIOUS
    <2>0a. \A k \in 1 .. n, l \in Nat \ {0} : l < s.stack[k][2] => edges[s.stack[k][1]][l] \in s.seen
      BY <1>0, <1>0a, Zenon DEF DfsInv
    <2>1. CASE i = n
      <3>1. j = p \/ j < p
        <4>1. p \in Nat
          BY ONLY <1>0, <1>2
        <4> QED BY ONLY <2>0, <2>1, <4>1, <1>3
      <3>2. CASE j = p
        <4>1. edges[t.stack[i][1]][j] = w
          BY <2>1, <3>2, <1>0, <1>2, <1>3, Zenon
        <4> QED BY ONLY <4>1, <1>3
      <3>3. CASE j < p
        <4>1. j < s.stack[n][2] /\ j \in Nat \ {0} /\ n \in 1 .. n
          BY <2>0, <3>3, <1>0, <1>2, Zenon
        <4>2. edges[s.stack[n][1]][j] \in s.seen
          BY <4>1, <2>0a, Zenon
        <4> QED BY ONLY <4>1, <4>2, <2>1, <1>3
      <3> QED BY <3>1, <3>2, <3>3
    <2>2. CASE i = n + 1
      <3>1. j < 1
        BY ONLY <2>0, <2>2, <1>3
      <3> QED BY ONLY <2>0, <3>1
    <2>3. CASE i # n /\ i # n + 1
      <3>1. i \in 1 .. n
        BY <2>3, <1>4, Zenon
      <3> QED BY ONLY <2>0, <2>0a, <2>3, <3>1, <1>3
    <2> QED BY <2>1, <2>2, <2>3
  <1>13. \A i \in 1 .. Len(t.left) : \A j \in 1 .. Len(edges[t.left[i]]) : edges[t.left[i]][j] \in t.seen
    BY <1>0a, <1>3 DEF DfsInv
  <1>14. \A i \in 1 .. Len(t.left) :
           \/ t.left[i] = VRoot
           \/ \E j \in 1 .. i - 1 : Leads(edges, t.left[j], t.left[i])
           \/ \E a \in V : OnStack(t, a) /\ Leads(edges, a, t.left[i])
    BY <1>0a, <1>3, <1>5 DEF DfsInv
  <1>15. /\ \A i, j \in 1 .. Len(t.left) : t.left[i] = t.left[j] => i = j
         /\ \A a \in V : ~(OnStack(t, a) /\ InLeft(t, a))
         /\ \A a \in V : a \in t.seen <=> OnStack(t, a) \/ InLeft(t, a)
    <2>1. \A i, j \in 1 .. Len(s.left) : s.left[i] = s.left[j] => i = j
      BY <1>0, <1>0a, Zenon DEF DfsInv
    <2> QED BY ONLY <2>1, <1>1a, <1>3, <1>5, <1>6, <1>7
  <1>16. ASSUME NEW T \in SUBSET V, VRoot \in T, \A a \in T, b \in V : Leads(edges, a, b) => b \in T
         PROVE  t.seen \subseteq T
    <2>1. s.seen \subseteq T
      BY <1>0a, <1>16 DEF DfsInv
    <2>2. OnStack(s, v)
      BY ONLY <1>0, <1>2 DEF OnStack
    <2>3. v \in s.seen
      BY ONLY <2>2, <1>1a, <1>2
    <2>4. Leads(edges, v, w)
      BY <1>0, Zenon DEF Leads
    <2> QED BY ONLY <1>0, <2>1, <2>3, <2>4, <1>2, <1>3, <1>16
  <1> QED BY <1>8, <1>9, <1>10, <1>11, <1>12, <1>13, <1>14, <1>15, <1>16, <1>0a DEF DfsInv

\* Every turn keeps it.
LEMMA DfsKeeps ==
  ASSUME NEW V, NEW edges \in [V -> Seq(V)], NEW s, DfsInv(V, edges, s)
  PROVE  DfsInv(V, edges, DfsStep(edges, s))
  <1>1. CASE s.stack = <<>>
    <2>1. DfsStep(edges, s) = s
      BY <1>1 DEF DfsStep
    <2> QED BY <2>1
  <1>2. CASE s.stack # <<>>
    <2> DEFINE t == DfsStep(edges, s)
               n == Len(s.stack)
               v == s.stack[n][1]
               p == s.stack[n][2]
    <2> HIDE DEF t, n, v, p
    <2>1. /\ t \in DfsType(V) /\ n \in Nat \ {0} /\ v \in V /\ p \in 1 .. Len(edges[v]) + 1
          /\ \/ p = Len(edges[v]) + 1 /\ Popped(s, t)
             \/ p \in 1 .. Len(edges[v]) /\ edges[v][p] \in s.seen /\ Advanced(s, t)
             \/ p \in 1 .. Len(edges[v]) /\ edges[v][p] \in V \ s.seen /\ Pushed(s, t, edges[v][p])
      <3>1. t = DfsStep(edges, s) /\ n = Len(s.stack) /\ v = s.stack[n][1] /\ p = s.stack[n][2]
        BY DEF t, n, v, p
      <3>2. Turn(V, edges, s, t, n, v, p)
        BY <3>1, <1>2, DfsStepIs
      <3> QED BY <3>2, Zenon DEF Turn
    <2>2. CASE p = Len(edges[v]) + 1 /\ Popped(s, t)
      <3>1. DfsInv(V, edges, t)
        BY <1>2, <2>1, <2>2, PoppedKeeps DEF n, v, p
      <3> QED BY <3>1 DEF t
    <2>3. CASE p \in 1 .. Len(edges[v]) /\ edges[v][p] \in s.seen /\ Advanced(s, t)
      <3>1. DfsInv(V, edges, t)
        BY <1>2, <2>1, <2>3, AdvancedKeeps DEF n, v, p
      <3> QED BY <3>1 DEF t
    <2>4. CASE p \in 1 .. Len(edges[v]) /\ edges[v][p] \in V \ s.seen /\ Pushed(s, t, edges[v][p])
      <3>1. DfsInv(V, edges, t)
        <4>1. PushedFrom(V, edges, s, t, n, v, p, edges[v][p])
          <5>1. n = Len(s.stack) /\ v = s.stack[n][1] /\ p = s.stack[n][2]
            BY DEF n, v, p
          <5> QED BY <1>2, <2>1, <2>4, <5>1, Zenon DEF PushedFrom
        <4> QED BY <4>1, PushedKeeps
      <3> QED BY <3>1 DEF t
    <2> QED BY <2>1, <2>2, <2>3, <2>4
  <1> QED BY <1>1, <1>2

DfsStart == [stack |-> <<<<VRoot, 1>>>>, seen |-> {VRoot}, left |-> <<>>]

\* The search starts in it.
LEMMA DfsStarts ==
  ASSUME NEW V, VRoot \in V, NEW edges \in [V -> Seq(V)]
  PROVE  DfsInv(V, edges, DfsStart)
  <1> DEFINE s == DfsStart
             K == V \X Nat
             first == <<VRoot, 1>>
  <1>1. s.stack = <<first>> /\ s.seen = {VRoot} /\ s.left = <<>> /\ first \in K
    BY DEF DfsStart
  <1>2. <<first>> \in Seq(K) /\ Len(<<first>>) = 1 /\ <<first>>[1] = first /\ <<first>> # <<>>
    <2> HIDE DEF K, first
    <2> QED BY <1>1
  <1>3. s \in DfsType(V)
    <2> HIDE DEF K
    <2> QED BY <1>1, <1>2 DEF DfsType, DfsStart, K
  <1>4. Len(s.stack) = 1 /\ s.stack[1][1] = VRoot /\ s.stack[1][2] = 1 /\ Len(s.left) = 0 /\ s.stack # <<>>
    <2> HIDE DEF s
    <2> QED BY <1>1, <1>2
  <1> HIDE DEF s, K, first
  <1>5. \A i \in 1 .. Len(s.stack) : i = 1
    BY <1>4
  <1>6. 1 .. Len(s.left) = {} /\ 1 .. Len(s.stack) - 1 = {}
    BY <1>4
  <1>7. \A a \in V : OnStack(s, a) <=> a = VRoot
    BY <1>4, <1>5 DEF OnStack
  <1>8. \A a \in V : ~InLeft(s, a)
    BY <1>6 DEF InLeft
  <1>9. \A i \in 1 .. Len(s.stack) : s.stack[i][2] \in 1 .. Len(edges[s.stack[i][1]]) + 1
    <2>1. edges[VRoot] \in Seq(V)
      OBVIOUS
    <2>2. Len(edges[VRoot]) \in Nat
      BY <2>1
    <2>3. 1 \in 1 .. Len(edges[VRoot]) + 1
      BY <2>2
    <2> QED BY <2>3, <1>4, <1>5
  <1>10. \A i \in 1 .. Len(s.stack), j \in Nat \ {0} :
           j < s.stack[i][2] => edges[s.stack[i][1]][j] \in s.seen
    BY <1>4, <1>5
  <1>11. \A a \in V : a \in s.seen <=> OnStack(s, a) \/ InLeft(s, a)
    BY <1>1, <1>7, <1>8
  <1>12. \A T \in SUBSET V :
           VRoot \in T /\ (\A a \in T, b \in V : Leads(edges, a, b) => b \in T) => s.seen \subseteq T
    BY <1>1
  <1>13. DfsInv(V, edges, s)
    BY <1>3, <1>4, <1>5, <1>6, <1>7, <1>8, <1>9, <1>10, <1>11, <1>12 DEF DfsInv
  <1> QED BY <1>13 DEF s

\* The turns that the search has taken.
Spent(V, edges, s) ==
  {e \in V \X Nat : \/ InLeft(s, e[1]) /\ e[2] \in 1 .. Len(edges[e[1]]) + 1
                    \/ \E i \in 1 .. Len(s.stack) : s.stack[i][1] = e[1] /\ e[2] \in 1 .. s.stack[i][2] - 1}

\* Every turn is a new one.
LEMMA DfsSpends ==
  ASSUME NEW V, NEW edges \in [V -> Seq(V)], NEW s, DfsInv(V, edges, s), s.stack # <<>>
  PROVE  \E e : e \notin Spent(V, edges, s)
                /\ Spent(V, edges, s) \cup {e} \subseteq Spent(V, edges, DfsStep(edges, s))
  <1> DEFINE t == DfsStep(edges, s)
             n == Len(s.stack)
             v == s.stack[n][1]
             p == s.stack[n][2]
             e == <<v, p>>
  <1> HIDE DEF t, n, v, p, e
  <1>1. /\ t \in DfsType(V) /\ n \in Nat \ {0} /\ v \in V /\ p \in 1 .. Len(edges[v]) + 1
        /\ \/ p = Len(edges[v]) + 1 /\ Popped(s, t)
           \/ p \in 1 .. Len(edges[v]) /\ edges[v][p] \in s.seen /\ Advanced(s, t)
           \/ p \in 1 .. Len(edges[v]) /\ edges[v][p] \in V \ s.seen /\ Pushed(s, t, edges[v][p])
    <2>1. t = DfsStep(edges, s) /\ n = Len(s.stack) /\ v = s.stack[n][1] /\ p = s.stack[n][2]
      BY DEF t, n, v, p
    <2>2. Turn(V, edges, s, t, n, v, p)
      BY <2>1, DfsStepIs
    <2> QED BY <2>2, Zenon DEF Turn
  <1>2. n \in 1 .. Len(s.stack) /\ OnStack(s, v) /\ ~InLeft(s, v)
    <2>1. n \in 1 .. Len(s.stack)
      BY <1>1 DEF n
    <2> QED BY <2>1, <1>1 DEF OnStack, DfsInv, v
  <1>3. e \in V \X Nat /\ e[1] = v /\ e[2] = p /\ p \in Nat \ {0}
    <2>1. edges[v] \in Seq(V)
      BY <1>1
    <2>2. Len(edges[v]) \in Nat
      BY <2>1
    <2>3. p \in Nat \ {0}
      BY <2>2, <1>1
    <2> QED BY <2>3, <1>1 DEF e
  <1>4. e \notin Spent(V, edges, s)
    <2> SUFFICES ASSUME NEW i \in 1 .. Len(s.stack), s.stack[i][1] = v, p \in 1 .. s.stack[i][2] - 1
                 PROVE  FALSE
      BY <1>2, <1>3 DEF Spent
    <2>1. i = n
      BY <1>2 DEF DfsInv, v
    <2>2. p = s.stack[i][2] /\ p \in 1 .. p - 1
      BY <2>1 DEF p
    <2> QED BY <2>2, <1>3
  <1>5. /\ \A a \in V : InLeft(s, a) => InLeft(t, a)
        /\ \A i \in 1 .. n : i # n =>
             i \in 1 .. n - 1 /\ i \in 1 .. n + 1
    <2>1. \A i \in 1 .. n : i # n => i \in 1 .. n - 1 /\ i \in 1 .. n + 1
      BY <1>1
    <2>2. \A a \in V : InLeft(s, a) => InLeft(t, a)
      <3>1. CASE t.left = s.left
        BY <3>1 DEF InLeft
      <3>2. CASE Popped(s, t)
        <4>1. \A i \in 1 .. Len(s.left) : i + 1 \in 1 .. Len(t.left)
          <5>1. s \in DfsType(V)
            BY DEF DfsInv
          <5>2. Len(s.left) \in Nat
            BY <5>1, DfsSizes
          <5>3. Len(t.left) = Len(s.left) + 1
            BY <3>2 DEF Popped
          <5> QED BY <5>2, <5>3
        <4> QED BY <3>2, <4>1 DEF InLeft, Popped
      <3> QED BY <1>1, <3>1, <3>2 DEF Advanced, Pushed
    <2> QED BY <2>1, <2>2
  <1>6. CASE p = Len(edges[v]) + 1 /\ Popped(s, t)
    <2>1. InLeft(t, v)
      <3>1. s \in DfsType(V)
        BY DEF DfsInv
      <3>2. Len(s.left) \in Nat
        BY <3>1, DfsSizes
      <3>3. Len(t.left) = Len(s.left) + 1 /\ t.left[1] = v
        BY <1>6 DEF Popped, v, n
      <3>4. 1 \in 1 .. Len(t.left)
        BY <3>2, <3>3
      <3> QED BY <3>3, <3>4 DEF InLeft
    <2>2. e \in Spent(V, edges, t)
      BY <1>1, <1>3, <2>1 DEF Spent
    <2>3. ASSUME NEW d \in Spent(V, edges, s) PROVE d \in Spent(V, edges, t)
      <3>0. d \in V \X Nat
        BY DEF Spent
      <3>1. CASE InLeft(s, d[1]) /\ d[2] \in 1 .. Len(edges[d[1]]) + 1
        BY <3>0, <3>1, <1>5 DEF Spent
      <3>2. ASSUME NEW i \in 1 .. Len(s.stack), s.stack[i][1] = d[1], d[2] \in 1 .. s.stack[i][2] - 1
            PROVE  d \in Spent(V, edges, t)
        <4>1. CASE i = n
          <5>1. d[1] = v /\ d[2] \in 1 .. p - 1
            BY <3>2, <4>1 DEF v, p
          <5>2. d[2] \in 1 .. Len(edges[v]) + 1
            BY <5>1, <1>1
          <5> QED BY <3>0, <5>1, <5>2, <2>1 DEF Spent
        <4>2. CASE i # n
          <5>1. i \in 1 .. Len(t.stack) /\ t.stack[i] = s.stack[i]
            BY <4>2, <1>5, <1>6 DEF Popped, n
          <5> QED BY <3>0, <3>2, <5>1 DEF Spent
        <4> QED BY <4>1, <4>2
      <3> QED BY <3>1, <3>2 DEF Spent
    <2> QED BY <1>4, <2>2, <2>3 DEF t
  <1>7. CASE Advanced(s, t) \/ Pushed(s, t, edges[v][p])
    <2>1. /\ t.stack[n] = <<v, p + 1>> /\ n \in 1 .. Len(t.stack)
          /\ \A i \in 1 .. n : i # n => t.stack[i] = s.stack[i] /\ i \in 1 .. Len(t.stack)
      <3>1. t.stack[n] = <<v, p + 1>> /\ \A i \in 1 .. n - 1 : t.stack[i] = s.stack[i]
        BY <1>7, Zenon DEF Advanced, Pushed, n, v, p
      <3>2. Len(t.stack) = n \/ Len(t.stack) = n + 1
        BY <1>7 DEF Advanced, Pushed, n
      <3>3. n \in 1 .. Len(t.stack)
        BY <3>2, <1>1
      <3> QED BY <3>1, <3>2, <3>3, <1>5
    <2>2. e \in Spent(V, edges, t)
      <3>1. t.stack[n][1] = v /\ t.stack[n][2] = p + 1
        BY <2>1
      <3>2. p \in 1 .. (p + 1) - 1
        BY <1>3
      <3> QED BY <1>3, <2>1, <3>1, <3>2 DEF Spent
    <2>3. ASSUME NEW d \in Spent(V, edges, s) PROVE d \in Spent(V, edges, t)
      <3>0. d \in V \X Nat
        BY DEF Spent
      <3>1. CASE InLeft(s, d[1]) /\ d[2] \in 1 .. Len(edges[d[1]]) + 1
        BY <3>0, <3>1, <1>5 DEF Spent
      <3>2. ASSUME NEW i \in 1 .. Len(s.stack), s.stack[i][1] = d[1], d[2] \in 1 .. s.stack[i][2] - 1
            PROVE  d \in Spent(V, edges, t)
        <4>1. CASE i = n
          <5>1. d[1] = v /\ d[2] \in 1 .. p - 1
            BY <3>2, <4>1 DEF v, p
          <5>2. d[2] \in 1 .. (p + 1) - 1 /\ t.stack[n][1] = v /\ t.stack[n][2] = p + 1
            BY <5>1, <1>3, <2>1
          <5> QED BY <3>0, <5>1, <5>2, <2>1 DEF Spent
        <4>2. CASE i # n
          <5>1. i \in 1 .. Len(t.stack) /\ t.stack[i] = s.stack[i]
            BY <4>2, <2>1 DEF n
          <5> QED BY <3>0, <3>2, <5>1 DEF Spent
        <4> QED BY <4>1, <4>2
      <3> QED BY <3>1, <3>2 DEF Spent
    <2> QED BY <1>4, <2>2, <2>3 DEF t
  <1> QED BY <1>1, <1>6, <1>7

\* The function the search is defined by.
DfsSteps(edges, bound, dfs) ==
  dfs = [k \in 0 .. bound |-> IF k = 0 THEN DfsStart ELSE DfsStep(edges, dfs[k - 1])]

LEMMA DfsDefined ==
  ASSUME NEW V, VRoot \in V, NEW edges \in [V -> Seq(V)], NEW bound \in Nat
  PROVE  \E dfs : DfsSteps(edges, bound, dfs)
  <1> DEFINE W == {s \in DfsType(V) : DfsInv(V, edges, s)}
             G == [k \in 1 .. bound |-> [s \in W |-> DfsStep(edges, s)]]
  <1>0. \A s : s \in W <=> DfsInv(V, edges, s)
    BY DEF DfsInv
  <1> HIDE DEF W
  <1>1. \A s \in W : DfsStep(edges, s) \in W
    BY <1>0, DfsKeeps
  <1>2. G \in [1 .. bound -> [W -> W]]
    BY <1>1
  <1>3. DfsStart \in W
    BY <1>0, DfsStarts
  <1>4. Stepwise(bound, W, DfsStart, G)
    <2> HIDE DEF G
    <2> QED BY <1>2, <1>3, StepByStep
  <1>5. PICK f \in [0 .. bound -> W] : f[0] = DfsStart /\ \A i \in 1 .. bound : f[i] = G[i][f[i - 1]]
    <2> HIDE DEF G
    <2> QED BY <1>4 DEF Stepwise
  <1>6. \A i \in 1 .. bound : f[i] = DfsStep(edges, f[i - 1])
    <2> SUFFICES ASSUME NEW i \in 1 .. bound PROVE f[i] = DfsStep(edges, f[i - 1])
      OBVIOUS
    <2>1. i - 1 \in 0 .. bound
      OBVIOUS
    <2>2. f[i - 1] \in W
      <3> HIDE DEF G
      <3> QED BY <2>1, <1>5
    <2>3. G[i][f[i - 1]] = DfsStep(edges, f[i - 1])
      BY <2>2
    <2> HIDE DEF G
    <2> QED BY <2>3, <1>5
  <1> HIDE DEF G
  <1>7. \A k \in 0 .. bound : f[k] = IF k = 0 THEN DfsStart ELSE DfsStep(edges, f[k - 1])
    BY <1>5, <1>6
  <1>8. f = [k \in 0 .. bound |-> f[k]]
    BY <1>5
  <1>9. DfsSteps(edges, bound, f)
    BY <1>7, <1>8 DEF DfsSteps
  <1> QED BY <1>9

\* What it computes, turn by turn.
LEMMA DfsUnfolds ==
  ASSUME NEW edges, NEW bound \in Nat, NEW dfs, DfsSteps(edges, bound, dfs)
  PROVE  dfs[0] = DfsStart /\ \A k \in 1 .. bound : dfs[k] = DfsStep(edges, dfs[k - 1])
  <1> DEFINE h == [k \in 0 .. bound |-> IF k = 0 THEN DfsStart ELSE DfsStep(edges, dfs[k - 1])]
  <1>1. dfs = h
    BY DEF DfsSteps
  <1>2. h[0] = DfsStart /\ \A k \in 1 .. bound : h[k] = DfsStep(edges, dfs[k - 1])
    OBVIOUS
  <1> HIDE DEF h
  <1> QED BY <1>1, <1>2

\* The invariant holds all along the search.
LEMMA DfsKept ==
  ASSUME NEW V, VRoot \in V, NEW edges \in [V -> Seq(V)], NEW bound \in Nat,
         NEW dfs, DfsSteps(edges, bound, dfs), NEW k0 \in 0 .. bound
  PROVE  DfsInv(V, edges, dfs[k0])
  <1> DEFINE T == {k \in 0 .. bound : ~DfsInv(V, edges, dfs[k])}
  <1> SUFFICES ASSUME k0 \in T PROVE FALSE
    OBVIOUS
  <1>1. T \in SUBSET Nat
    OBVIOUS
  <1> HIDE DEF T
  <1>2. PICK k \in T : \A m \in T : k <= m
    BY <1>1, LeastNatural
  <1>3. k \in 0 .. bound /\ ~DfsInv(V, edges, dfs[k])
    BY DEF T
  <1>4. k # 0
    BY <1>3, DfsUnfolds, DfsStarts
  <1>5. k \in 1 .. bound /\ k - 1 \in 0 .. bound /\ ~(k <= k - 1)
    BY <1>3, <1>4
  <1>6. DfsInv(V, edges, dfs[k - 1])
    BY <1>5, <1>2 DEF T
  <1>7. dfs[k] = DfsStep(edges, dfs[k - 1])
    BY <1>5, DfsUnfolds
  <1> QED BY <1>3, <1>6, <1>7, DfsKeeps

LEMMA UpTo ==
  ASSUME NEW b \in Nat
  PROVE  IsFiniteSet(1 .. b) /\ Cardinality(1 .. b) = b
  <1>1. IsFiniteSet(1 .. b) /\ Cardinality(1 .. b) = IF 1 > b THEN 0 ELSE b - 1 + 1
    BY FS_Interval
  <1> QED BY <1>1

\* With two edges a node, no search takes more turns than three a node.
LEMMA SpentBounded ==
  ASSUME NEW V, IsFiniteSet(V), NEW edges \in [V -> Seq(V)], \A a \in V : Len(edges[a]) <= 2,
         NEW s, DfsInv(V, edges, s)
  PROVE  /\ IsFiniteSet(Spent(V, edges, s)) /\ Cardinality(Spent(V, edges, s)) \in Nat
         /\ Cardinality(Spent(V, edges, s)) <= 3 * Cardinality(V)
  <1> DEFINE R == V \X (1 .. 3)
  <1>1. IsFiniteSet(1 .. 3) /\ Cardinality(1 .. 3) = 3
    <2>1. 3 \in Nat
      OBVIOUS
    <2> QED BY <2>1, UpTo, Zenon
  <1>2. IsFiniteSet(R) /\ Cardinality(R) = Cardinality(V) * 3 /\ Cardinality(V) \in Nat
    BY <1>1, FS_Product, FS_CardinalityType
  <1>3. Spent(V, edges, s) \subseteq R
    <2> SUFFICES ASSUME NEW e \in Spent(V, edges, s) PROVE e \in R
      OBVIOUS
    <2>1. e \in V \X Nat
      BY DEF Spent
    <2>2. \A a \in V : Len(edges[a]) \in Nat
      <3>1. \A a \in V : edges[a] \in Seq(V)
        OBVIOUS
      <3> QED BY <3>1
    <2>3. CASE e[2] \in 1 .. Len(edges[e[1]]) + 1
      <3> DEFINE m == Len(edges[e[1]])
      <3>1. e[1] \in V
        BY ONLY <2>1
      <3>2. m \in Nat /\ m <= 2
        BY <2>2, <3>1, Zenon
      <3>3. e[2] \in 1 .. m + 1
        BY <2>3, Zenon
      <3> HIDE DEF m
      <3>4. e[2] \in 1 .. 3
        BY ONLY <3>2, <3>3
      <3> QED BY ONLY <2>1, <3>4
    <2>4. ASSUME NEW i \in 1 .. Len(s.stack), s.stack[i][1] = e[1], e[2] \in 1 .. s.stack[i][2] - 1
          PROVE  e \in R
      <3> DEFINE m == Len(edges[e[1]])
      <3>1. e[1] \in V
        BY ONLY <2>1
      <3>2. m \in Nat /\ m <= 2
        BY <2>2, <3>1, Zenon
      <3>3. s.stack[i][2] \in 1 .. m + 1
        BY <2>4 DEF DfsInv
      <3> HIDE DEF m
      <3>4. e[2] \in 1 .. 3
        BY ONLY <2>4, <3>2, <3>3
      <3> QED BY ONLY <2>1, <3>4
    <2> QED BY <2>3, <2>4 DEF Spent
  <1> HIDE DEF R
  <1>4. IsFiniteSet(Spent(V, edges, s)) /\ Cardinality(Spent(V, edges, s)) <= Cardinality(R)
    BY <1>2, <1>3, FS_Subset
  <1>5. Cardinality(Spent(V, edges, s)) \in Nat
    BY <1>4, FS_CardinalityType
  <1>6. Cardinality(R) = 3 * Cardinality(V)
    BY <1>2
  <1> QED BY <1>4, <1>5, <1>6

\* While the search goes on it has taken a new turn at every step.
LEMMA DfsProgress ==
  ASSUME NEW V, VRoot \in V, IsFiniteSet(V), NEW edges \in [V -> Seq(V)],
         \A a \in V : Len(edges[a]) <= 2, NEW bound \in Nat,
         NEW dfs, DfsSteps(edges, bound, dfs), NEW k0 \in 0 .. bound, dfs[k0].stack # <<>>
  PROVE  k0 <= Cardinality(Spent(V, edges, dfs[k0]))
  <1> DEFINE spent(k) == Cardinality(Spent(V, edges, dfs[k]))
             T == {k \in 0 .. bound : dfs[k].stack # <<>> /\ ~(k <= spent(k))}
  <1> SUFFICES ASSUME k0 \in T PROVE FALSE
    OBVIOUS
  <1>1. T \in SUBSET Nat
    OBVIOUS
  <1>2. \A k \in 0 .. bound : spent(k) \in Nat /\ IsFiniteSet(Spent(V, edges, dfs[k]))
    BY DfsKept, SpentBounded
  <1> HIDE DEF T
  <1>3. PICK k \in T : \A m \in T : k <= m
    BY <1>1, LeastNatural
  <1>4. k \in 0 .. bound /\ dfs[k].stack # <<>> /\ ~(k <= spent(k))
    BY DEF T
  <1> HIDE DEF spent
  <1>5. k # 0
    BY <1>2, <1>4
  <1>6. k \in 1 .. bound /\ k - 1 \in 0 .. bound /\ ~(k <= k - 1)
    BY <1>4, <1>5
  <1>7. dfs[k] = DfsStep(edges, dfs[k - 1]) /\ DfsInv(V, edges, dfs[k - 1])
    BY <1>6, DfsUnfolds, DfsKept
  <1>8. dfs[k - 1].stack # <<>>
    <2> SUFFICES ASSUME dfs[k - 1].stack = <<>> PROVE FALSE
      OBVIOUS
    <2>1. DfsStep(edges, dfs[k - 1]) = dfs[k - 1]
      BY DEF DfsStep
    <2> QED BY <2>1, <1>4, <1>7
  <1>9. k - 1 <= spent(k - 1)
    BY <1>3, <1>6, <1>8 DEF T
  <1>10. PICK e : /\ e \notin Spent(V, edges, dfs[k - 1])
                  /\ Spent(V, edges, dfs[k - 1]) \cup {e} \subseteq Spent(V, edges, dfs[k])
    BY <1>7, <1>8, DfsSpends
  <1>11. IsFiniteSet(Spent(V, edges, dfs[k - 1])) /\ IsFiniteSet(Spent(V, edges, dfs[k]))
    BY <1>2, <1>4, <1>6
  <1>12. Cardinality(Spent(V, edges, dfs[k - 1]) \cup {e}) = spent(k - 1) + 1
    BY <1>10, <1>11, FS_AddElement DEF spent
  <1>13. spent(k - 1) + 1 <= spent(k)
    BY <1>10, <1>11, <1>12, FS_Subset DEF spent
  <1>14. spent(k) \in Nat /\ spent(k - 1) \in Nat
    BY <1>2, <1>4, <1>6
  <1> QED BY <1>4, <1>6, <1>9, <1>13, <1>14

\* The search ends within its bound, in a state that keeps the invariant.
LEMMA DfsEnds ==
  ASSUME NEW span, NEW graph, IsFiniteSet(DOMAIN graph), VRoot \notin DOMAIN graph,
         NEW V, V = DOMAIN graph \cup {VRoot},
         NEW edges, edges = EdgesOf(span, graph), edges \in [V -> Seq(V)],
         \A a \in V : Len(edges[a]) <= 2
  PROVE  \E s : DfsInv(V, edges, s) /\ s.stack = <<>> /\ s.left = ReversePostorder(span, graph)
  <1> DEFINE bound == 4 * (Cardinality(DOMAIN graph) + 1)
             dfs == CHOOSE f : DfsSteps(edges, bound, f)
  <1>1. IsFiniteSet(V) /\ Cardinality(V) = Cardinality(DOMAIN graph) + 1 /\ Cardinality(DOMAIN graph) \in Nat
    BY FS_AddElement, FS_CardinalityType
  <1>2. bound \in Nat /\ ~(bound <= 3 * Cardinality(V))
    BY <1>1
  <1>3. ReversePostorder(span, graph) = dfs[bound].left
    BY Zenon DEF ReversePostorder, DfsSteps, DfsStart
  <1> HIDE DEF bound
  <1>4. VRoot \in V
    OBVIOUS
  <1>5. \E f : DfsSteps(edges, bound, f)
    BY <1>2, <1>4, DfsDefined
  <1>6. DfsSteps(edges, bound, dfs)
    BY <1>5, Zenon
  <1> HIDE DEF dfs
  <1>7. bound \in 0 .. bound
    BY <1>2
  <1>8. DfsInv(V, edges, dfs[bound])
    BY <1>2, <1>4, <1>6, <1>7, DfsKept
  <1>9. dfs[bound].stack = <<>>
    <2> SUFFICES ASSUME dfs[bound].stack # <<>> PROVE FALSE
      OBVIOUS
    <2>1. bound <= Cardinality(Spent(V, edges, dfs[bound]))
      BY <1>1, <1>2, <1>4, <1>6, <1>7, DfsProgress
    <2>2. /\ Cardinality(Spent(V, edges, dfs[bound])) \in Nat
          /\ Cardinality(Spent(V, edges, dfs[bound])) <= 3 * Cardinality(V)
      BY <1>1, <1>8, SpentBounded
    <2> QED BY <2>1, <2>2, <1>1, <1>2
  <1> QED BY <1>3, <1>8, <1>9

(***************************************************************************)
(* What the search leaves is a numbering of what the roots reach.          *)
(***************************************************************************)
Nodes(g) == DOMAIN g \cup {VRoot}

EdgesAre(g, edges) ==
  /\ edges \in [Nodes(g) -> Seq(Nodes(g))]
  /\ \A a, b \in Nodes(g) : Leads(edges, a, b) <=> a \in PredsIn(g, b)

\* The nodes that are reached, the root first, each after one that leads to it.
Found(g, l) ==
  /\ l \in Seq(Nodes(g)) /\ Len(l) \in Nat \ {0} /\ l[1] = VRoot
  /\ \A i, j \in 1 .. Len(l) : l[i] = l[j] => i = j
  /\ {l[i] : i \in 1 .. Len(l)} = {VRoot} \cup ReachIn(g, VRoot)
  /\ \A i \in 2 .. Len(l) : \E j \in 1 .. i - 1 : l[j] \in PredsIn(g, l[i])

LEMMA SearchFinds ==
  ASSUME NEW g, Graph(g), NEW edges, EdgesAre(g, edges),
         NEW s, DfsInv(Nodes(g), edges, s), s.stack = <<>>
  PROVE  Found(g, s.left)
  <1> DEFINE V == Nodes(g)
             R == ReachIn(g, VRoot)
  <1>1. /\ R \subseteq DOMAIN g
        /\ RootsOf(DOMAIN g) \ {VRoot} \subseteq R
        /\ Closed(R, NextIn(g, VRoot))
        /\ \A T \in SUBSET DOMAIN g :
             RootsOf(DOMAIN g) \ {VRoot} \subseteq T /\ Closed(T, NextIn(g, VRoot)) => R \subseteq T
    BY ReachIs DEF IsClosure
  <1>2. VRoot \notin DOMAIN g /\ RootsOf(DOMAIN g) \subseteq DOMAIN g
        /\ \A a \in DOMAIN g : g[a] \subseteq DOMAIN g
    BY RootsAreBlocks DEF Graph, VRoot
  <1>3. s \in DfsType(V) /\ Len(s.left) \in Nat \ {0} /\ s.left \in Seq(V) /\ Len(s.stack) = 0
    <2>1. s \in DfsType(V) /\ s.left # <<>>
      BY DEF DfsInv
    <2>2. Len(s.left) \in Nat \ {0} /\ Len(s.stack) = 0
      BY <2>1, DfsSizes
    <2> QED BY <2>1, <2>2 DEF DfsType
  <1>4. \A a \in V : ~OnStack(s, a)
    <2>1. 1 .. Len(s.stack) = {}
      BY <1>3
    <2> QED BY <2>1 DEF OnStack
  <1>5. /\ s.seen \subseteq V /\ s.left[1] = VRoot
        /\ \A a \in V : a \in s.seen <=> \E i \in 1 .. Len(s.left) : s.left[i] = a
        /\ \A i \in 1 .. Len(s.left) : s.left[i] \in V
    BY <1>3, <1>4, DfsSizes DEF DfsInv, InLeft, DfsType
  <1>6. VRoot \in s.seen
    <2>1. 1 \in 1 .. Len(s.left)
      BY <1>3
    <2>2. VRoot \in V
      BY DEF Nodes
    <2> QED BY <1>5, <2>1, <2>2
  <1>7. \A a, b \in V : Leads(edges, a, b) <=> a \in PredsIn(g, b)
    BY DEF EdgesAre
  <1>8. s.seen \subseteq {VRoot} \cup R
    <2> DEFINE T == {VRoot} \cup R
    <2>1. T \in SUBSET V /\ VRoot \in T
      BY <1>1 DEF Nodes
    <2>2. ASSUME NEW a \in T, NEW b \in V, Leads(edges, a, b) PROVE b \in T
      <3>1. a \in PredsIn(g, b)
        BY <2>1, <2>2, <1>7
      <3>2. CASE a = VRoot
        <4>1. b \in RootsOf(DOMAIN g) \ {VRoot}
          BY <3>1, <3>2, <1>2 DEF PredsIn
        <4> QED BY <4>1, <1>1
      <3>3. CASE a # VRoot
        <4>1. a \in R /\ a \in DOMAIN g /\ b \in g[a]
          BY <3>1, <3>3, <1>1 DEF PredsIn
        <4>2. b \in NextIn(g, VRoot)[a]
          BY <4>1, <1>2 DEF NextIn
        <4> QED BY <4>1, <4>2, <1>1 DEF Closed
      <3> QED BY <3>2, <3>3
    <2> HIDE DEF T
    <2>3. s.seen \subseteq T
      BY <2>1, <2>2 DEF DfsInv
    <2> QED BY <2>3 DEF T
  <1>9. \A a, b \in V : a \in s.seen /\ Leads(edges, a, b) => b \in s.seen
    BY <1>5 DEF DfsInv, Leads
  <1>10. R \subseteq s.seen
    <2> DEFINE T == s.seen \cap DOMAIN g
    <2>1. RootsOf(DOMAIN g) \ {VRoot} \subseteq T
      <3> SUFFICES ASSUME NEW b \in RootsOf(DOMAIN g) PROVE b \in s.seen
        BY <1>2
      <3>1. VRoot \in V /\ b \in V /\ VRoot \in PredsIn(g, b)
        BY <1>2 DEF PredsIn, Nodes
      <3> QED BY <3>1, <1>6, <1>7, <1>9
    <2>2. Closed(T, NextIn(g, VRoot))
      <3> SUFFICES ASSUME NEW a \in T, NEW b \in NextIn(g, VRoot)[a] PROVE b \in T
        BY DEF Closed
      <3>1. a \in DOMAIN g /\ b \in g[a] /\ b \in DOMAIN g
        BY <1>2 DEF NextIn
      <3>2. a \in V /\ b \in V /\ a \in PredsIn(g, b)
        BY <3>1 DEF Nodes, PredsIn
      <3> QED BY <3>1, <3>2, <1>7, <1>9
    <2> QED BY <2>1, <2>2, <1>1
  <1>11. {s.left[i] : i \in 1 .. Len(s.left)} = {VRoot} \cup R
    <2>1. {s.left[i] : i \in 1 .. Len(s.left)} = s.seen
      BY <1>5
    <2> QED BY <2>1, <1>6, <1>8, <1>10
  <1>12. ASSUME NEW i \in 2 .. Len(s.left)
         PROVE  \E j \in 1 .. i - 1 : s.left[j] \in PredsIn(g, s.left[i])
    <2>1. i \in 1 .. Len(s.left) /\ 1 \in 1 .. Len(s.left) /\ i # 1
          /\ \A j \in 1 .. i - 1 : j \in 1 .. Len(s.left)
      BY <1>3
    <2>2. s.left[i] # VRoot
      BY <2>1, <1>5 DEF DfsInv
    <2>3. \E j \in 1 .. i - 1 : Leads(edges, s.left[j], s.left[i])
      BY <2>1, <2>2, <1>4 DEF DfsInv
    <2> QED BY <2>1, <2>3, <1>5, <1>7
  <1>13. \A i, j \in 1 .. Len(s.left) : s.left[i] = s.left[j] => i = j
    BY DEF DfsInv
  <1> QED BY <1>3, <1>5, <1>11, <1>12, <1>13 DEF Found

\* The place of each node in a list.
PlaceIn(l) == [n \in {l[i] : i \in DOMAIN l} |-> CHOOSE i \in DOMAIN l : l[i] = n]

LEMMA FoundNumbers ==
  ASSUME NEW g, Graph(g), NEW l, Found(g, l)
  PROVE  Numbered(g, PlaceIn(l)) /\ \A i \in 1 .. Len(l) : PlaceIn(l)[l[i]] = i
  <1> DEFINE o == PlaceIn(l)
             D == {l[i] : i \in 1 .. Len(l)}
  <1>1. DOMAIN l = 1 .. Len(l) /\ Len(l) \in Nat
    BY DEF Found
  <1>2. DOMAIN o = D /\ \A n \in D : o[n] \in 1 .. Len(l) /\ l[o[n]] = n
    <2>1. o = [n \in D |-> CHOOSE i \in 1 .. Len(l) : l[i] = n]
      BY <1>1 DEF PlaceIn
    <2>2. ASSUME NEW n \in D
          PROVE  /\ (CHOOSE i \in 1 .. Len(l) : l[i] = n) \in 1 .. Len(l)
                 /\ l[CHOOSE i \in 1 .. Len(l) : l[i] = n] = n
      OBVIOUS
    <2> HIDE DEF o, D
    <2> QED BY <2>1, <2>2
  <1>3. \A i \in 1 .. Len(l) : l[i] \in D
    OBVIOUS
  <1>4. D = {VRoot} \cup ReachIn(g, VRoot)
    BY DEF Found
  <1> HIDE DEF o, D
  <1>5. \A i \in 1 .. Len(l) : o[l[i]] = i
    BY <1>2, <1>3 DEF Found
  <1>6. \A n \in D : o[n] \in Nat
    BY <1>1, <1>2
  <1>7. \A m, n \in D : o[m] = o[n] => m = n
    BY <1>2
  <1>8. ASSUME NEW n \in D \ {VRoot} PROVE \E p \in PredsIn(g, n) \cap D : o[p] < o[n]
    <2> DEFINE i == o[n]
    <2>1. i \in 1 .. Len(l) /\ l[i] = n
      BY <1>2
    <2>2. i # 1
      BY <2>1 DEF Found
    <2> HIDE DEF i
    <2>3. i \in 2 .. Len(l)
      BY <2>1, <2>2, <1>1
    <2>4. PICK j \in 1 .. i - 1 : l[j] \in PredsIn(g, n)
      BY <2>1, <2>3 DEF Found
    <2>5. j \in 1 .. Len(l) /\ j < i
      BY <2>1, <1>1
    <2>6. o[l[j]] = j /\ l[j] \in D
      BY <2>5, <1>3, <1>5
    <2> QED BY <2>4, <2>5, <2>6 DEF i
  <1>9. Numbered(g, o)
    BY <1>2, <1>4, <1>6, <1>7, <1>8 DEF Numbered
  <1> QED BY <1>5, <1>9 DEF o

(***************************************************************************)
(* The blocks of a span: their edges stay among them, two a block at most, *)
(* and the search goes along all of them.                                  *)
(***************************************************************************)
Rec == [cls : Classes, ft : BOOLEAN, tgt : Nat, call : BOOLEAN, lbl : BOOLEAN]
Span(s) == s \in Seq(Rec) /\ Len(s) \in Nat /\ Len(s) <= SpanLength

\* A set of naturals with a bound has a greatest element.
LEMMA MaxIs ==
  ASSUME NEW S, NEW n \in Nat, S \subseteq 0 .. n, S # {}
  PROVE  Max(S) \in S /\ \A x \in S : x <= Max(S)
  <1> DEFINE r == [x \in S |-> 0 - x]
  <1>1. IsFiniteSet(S)
    <2>1. IsFiniteSet(0 .. n)
      BY FS_Interval
    <2> QED BY <2>1, FS_Subset
  <1>2. r \in [S -> Int]
    OBVIOUS
  <1>3. \A x \in S : r[x] = 0 - x
    OBVIOUS
  <1> HIDE DEF r
  <1>4. PICK m \in S : \A x \in S : r[m] <= r[x]
    BY <1>1, <1>2, LowestRank
  <1>5. \A x \in S : m >= x
    BY <1>3, <1>4
  <1>6. Max(S) \in S /\ \A x \in S : Max(S) >= x
    BY <1>5, Zenon DEF Max
  <1>7. \A x \in S : x \in Nat
    OBVIOUS
  <1> QED BY <1>6, <1>7

LEMMA MinIs ==
  ASSUME NEW S, S \subseteq Nat, S # {}
  PROVE  Min(S) \in S /\ \A x \in S : Min(S) <= x
  <1>1. PICK t \in S : TRUE
    OBVIOUS
  <1>2. \E m \in S : \A x \in S : m <= x
    BY <1>1, LeastNatural
  <1> QED BY <1>2, Zenon DEF Min

\* What is before an item, and after it.
LEMMA BeforeIs ==
  ASSUME NEW span, NEW i \in Nat \ {0}, NEW c
  PROVE  /\ Before(span, i, c) \in 0 .. i - 1
         /\ Before(span, i, c) # 0 => span[Before(span, i, c)].cls # c
         /\ \A j \in 1 .. i - 1 : span[j].cls # c => j <= Before(span, i, c)
  <1> DEFINE js == {j \in 1 .. i - 1 : span[j].cls # c}
  <1>1. Before(span, i, c) = IF js = {} THEN 0 ELSE Max(js)
    BY DEF Before
  <1>2. CASE js = {}
    BY <1>1, <1>2
  <1>3. CASE js # {}
    <2>1. js \subseteq 0 .. i - 1 /\ i - 1 \in Nat
      OBVIOUS
    <2> HIDE DEF js
    <2>2. Max(js) \in js /\ \A x \in js : x <= Max(js)
      BY <1>3, <2>1, MaxIs
    <2>3. Before(span, i, c) = Max(js)
      BY <1>1, <1>3
    <2> QED BY <2>2, <2>3 DEF js
  <1> QED BY <1>2, <1>3

LEMMA AfterIs ==
  ASSUME NEW span, NEW i \in Nat, NEW c, Len(span) \in Nat
  PROVE  After(span, i, c) = 0 \/ After(span, i, c) \in i + 1 .. Len(span)
  <1> DEFINE js == {j \in i + 1 .. Len(span) : span[j].cls # c}
  <1>1. After(span, i, c) = IF js = {} THEN 0 ELSE Min(js)
    BY DEF After
  <1>2. js \subseteq Nat /\ js \subseteq i + 1 .. Len(span)
    OBVIOUS
  <1> HIDE DEF js
  <1> QED BY <1>1, <1>2, MinIs

\* What a list of a set of at most one node lists.
Listed(S) == IF S = {} THEN <<>> ELSE <<Min(S)>>
Lists(l, S, W) ==
  l \in Seq(W) /\ Len(l) \in Nat /\ Len(l) <= 1 /\ \A b : (\E j \in 1 .. Len(l) : l[j] = b) <=> b \in S

LEMMA ListedIs ==
  ASSUME NEW W, W \subseteq Nat, NEW S, S \subseteq W, \A x, y \in S : x = y
  PROVE  Lists(Listed(S), S, W)
  <1>1. CASE S = {}
    <2> DEFINE l == Listed(S)
    <2>1. l = <<>>
      BY <1>1 DEF Listed
    <2> HIDE DEF l
    <2>2. l \in Seq(W) /\ Len(l) = 0
      BY <2>1
    <2>3. 1 .. Len(l) = {}
      BY <2>2
    <2>4. Lists(l, S, W)
      BY <1>1, <2>2, <2>3 DEF Lists
    <2> QED BY <2>4 DEF l
  <1>2. CASE S # {}
    <2>1. Min(S) \in S /\ Listed(S) = <<Min(S)>>
      BY <1>2, MinIs DEF Listed
    <2> DEFINE m == Min(S)
    <2> HIDE DEF m
    <2>2. <<m>> \in Seq(W) /\ Len(<<m>>) = 1 /\ <<m>>[1] = m
      <3>1. m \in W
        BY <2>1 DEF m
      <3> QED BY <3>1
    <2>3. Listed(S) = <<m>> /\ \A b : b \in S <=> b = m
      BY <2>1 DEF m
    <2>4. \A j \in 1 .. 1 : j = 1
      OBVIOUS
    <2> QED BY <2>2, <2>3, <2>4 DEF Lists
  <1> QED BY <1>1, <1>2

\* A list after another lists what both list.
ListsTwo(l, S, W) ==
  l \in Seq(W) /\ Len(l) <= 2 /\ \A b : (\E j \in 1 .. Len(l) : l[j] = b) <=> b \in S

LEMMA ListsBoth ==
  ASSUME NEW W, NEW S, NEW T, NEW l, Lists(l, S, W), NEW m, Lists(m, T, W)
  PROVE  ListsTwo(l \o m, S \cup T, W)
  <1>1. /\ l \in Seq(W) /\ m \in Seq(W)
        /\ Len(l) \in Nat /\ Len(m) \in Nat /\ Len(l) <= 1 /\ Len(m) <= 1
    BY DEF Lists
  <1>2. /\ l \o m \in Seq(W) /\ Len(l \o m) = Len(l) + Len(m)
        /\ \A i \in 1 .. Len(l) : (l \o m)[i] = l[i]
        /\ \A i \in 1 .. Len(m) : (l \o m)[Len(l) + i] = m[i]
    BY <1>1, ConcatProperties
  <1> DEFINE k == l \o m
  <1> HIDE DEF k
  <1>3. ASSUME NEW j \in 1 .. Len(l) + Len(m)
        PROVE  j \in 1 .. Len(l) \/ \E i \in 1 .. Len(m) : j = Len(l) + i
    <2>1. j \in 1 .. Len(l) \/ j - Len(l) \in 1 .. Len(m)
      BY <1>1
    <2>2. j = Len(l) + (j - Len(l))
      BY <1>1
    <2> QED BY <2>1, <2>2
  <1>4. /\ \A i \in 1 .. Len(l) : i \in 1 .. Len(l) + Len(m)
        /\ \A i \in 1 .. Len(m) : Len(l) + i \in 1 .. Len(l) + Len(m)
    BY <1>1
  <1>5. \A b : (\E j \in 1 .. Len(k) : k[j] = b)
               <=> (\E j \in 1 .. Len(l) : l[j] = b) \/ (\E j \in 1 .. Len(m) : m[j] = b)
    BY <1>2, <1>3, <1>4 DEF k
  <1>6. \A b : (\E j \in 1 .. Len(k) : k[j] = b) <=> b \in S \cup T
    BY <1>5 DEF Lists
  <1>7. Len(l \o m) <= 2
    BY <1>1, <1>2
  <1> QED BY <1>2, <1>6, <1>7 DEF k, ListsTwo

LEMMA BlockOfIs ==
  ASSUME NEW B, B \subseteq Nat, NEW i \in Nat, NEW a \in B, a <= i
  PROVE  /\ BlockOf(B, i) \in B /\ BlockOf(B, i) <= i
         /\ \A b \in B : b <= i => b <= BlockOf(B, i)
  <1> DEFINE S == {b \in B : b <= i}
  <1>1. S \subseteq 0 .. i /\ S # {}
    <2>1. a \in S
      OBVIOUS
    <2>2. \A b \in B : b \in Nat
      OBVIOUS
    <2>3. \A b \in Nat : b <= i => b \in 0 .. i
      OBVIOUS
    <2> QED BY <2>1, <2>2, <2>3
  <1>2. BlockOf(B, i) = Max(S)
    BY DEF BlockOf
  <1> HIDE DEF S
  <1>3. Max(S) \in S /\ \A x \in S : x <= Max(S)
    BY <1>1, MaxIs
  <1> QED BY <1>2, <1>3 DEF S

LEMMA SpanItems ==
  ASSUME NEW span, Span(span)
  PROVE  /\ DOMAIN span = 1 .. Len(span) /\ Len(span) \in Nat /\ DOMAIN span \subseteq 1 .. SpanLength
         /\ \A i \in DOMAIN span : span[i] \in Rec
         /\ BlocksOf(span) \subseteq DOMAIN span
         /\ \A b \in BlocksOf(span) : IsCode(span[b])
  <1>1. SpanLength \in Nat /\ span \in Seq(Rec) /\ Len(span) \in Nat /\ Len(span) <= SpanLength
    BY ItemsAssumption DEF Span
  <1>2. DOMAIN span = 1 .. Len(span)
    BY <1>1
  <1>3. \A i \in 1 .. Len(span) : span[i] \in Rec
    BY <1>1, ElementOfSeq
  <1>4. BlocksOf(span) \subseteq DOMAIN span /\ \A b \in BlocksOf(span) : IsCode(span[b])
    BY DEF BlocksOf
  <1>5. DOMAIN span \subseteq 1 .. SpanLength
    BY <1>1, <1>2
  <1> QED BY <1>1, <1>2, <1>3, <1>4, <1>5

\* The first code item starts a block, so code is in some block.
LEMMA CodeHasBlock ==
  ASSUME NEW span, Span(span), NEW i \in DOMAIN span, IsCode(span[i])
  PROVE  \E b \in BlocksOf(span) : b <= i
  <1> DEFINE T == {j \in DOMAIN span : IsCode(span[j])}
  <1>1. T \in SUBSET Nat /\ i \in T
    BY SpanItems
  <1> HIDE DEF T
  <1>2. PICK b \in T : \A j \in T : b <= j
    BY <1>1, LeastNatural
  <1>3. b \in DOMAIN span /\ IsCode(span[b]) /\ b \in Nat \ {0} /\ b <= i
    BY <1>1, <1>2, SpanItems DEF T
  <1> DEFINE p == Before(span, b, "PAD")
  <1>4. p \in 0 .. b - 1
    BY <1>3, BeforeIs
  <1>5. p = 0 \/ ~IsCode(span[p])
    <2> SUFFICES ASSUME p # 0, IsCode(span[p]) PROVE FALSE
      OBVIOUS
    <2>1. p \in DOMAIN span /\ ~(b <= p)
      BY <1>3, <1>4, SpanItems
    <2> QED BY <2>1, <1>2 DEF T
  <1>6. Breaks(span, b)
    BY <1>5 DEF Breaks
  <1>7. b \in BlocksOf(span)
    BY <1>3, <1>6 DEF BlocksOf
  <1> QED BY <1>3, <1>7

\* A block falls through to one block at most.
LEMMA FallsOnce ==
  ASSUME NEW span, Span(span), NEW b,
         NEW x \in FallEdge(span, BlocksOf(span), b), NEW y \in FallEdge(span, BlocksOf(span), b)
  PROVE  x = y
  <1> DEFINE B == BlocksOf(span)
             from(c) == Before(span, c, "PAD")
  <1>1. ASSUME NEW c \in FallEdge(span, B, b)
        PROVE  /\ c \in B /\ c \in Nat \ {0} /\ b \in Nat /\ b < c
               /\ \A d \in B : d < c => d <= b
    <2>1. c \in B /\ FtIn(span, c) /\ BlockOf(B, from(c)) = b
      BY <1>1 DEF FallEdge
    <2>2. c \in DOMAIN span /\ c \in Nat \ {0} /\ IsCode(span[c]) /\ B \subseteq Nat
      BY <2>1, SpanItems
    <2>3. /\ from(c) \in 0 .. c - 1
          /\ \A j \in 1 .. c - 1 : span[j].cls # "PAD" => j <= from(c)
      BY <2>2, BeforeIs
    <2>4. from(c) # 0 /\ IsCode(span[from(c)])
      BY <2>1 DEF FtIn
    <2> HIDE DEF from
    <2>5. from(c) \in DOMAIN span /\ from(c) \in Nat
      BY <2>2, <2>3, <2>4, SpanItems
    <2>6. PICK a \in B : a <= from(c)
      BY <2>4, <2>5, CodeHasBlock
    <2> HIDE DEF B
    <2>7. b \in B /\ b <= from(c) /\ \A d \in B : d <= from(c) => d <= b
      BY <2>1, <2>2, <2>5, <2>6, BlockOfIs
    <2>8. ASSUME NEW d \in B, d < c PROVE d <= b
      <3>1. IsCode(span[d]) /\ d \in Nat \ {0}
        BY SpanItems DEF B
      <3>2. d \in 1 .. c - 1
        BY <3>1, <2>2, <2>8
      <3>3. span[d].cls # "PAD"
        BY <3>1 DEF IsCode
      <3>4. d <= from(c)
        BY <2>3, <3>2, <3>3
      <3> QED BY <2>7, <3>4
    <2>9. b \in Nat /\ b < c
      BY <2>2, <2>3, <2>7
    <2> QED BY <2>1, <2>2, <2>8, <2>9
  <1> HIDE DEF B
  <1>2. /\ x \in B /\ x \in Nat \ {0} /\ b \in Nat /\ b < x /\ \A d \in B : d < x => d <= b
        /\ y \in B /\ y \in Nat \ {0} /\ b < y /\ \A d \in B : d < y => d <= b
    BY <1>1 DEF B
  <1>3. ~(x < y) /\ ~(y < x)
    BY <1>2
  <1> QED BY <1>2, <1>3

\* It branches to one block at most: what its last instruction branches to.
LEMMA JumpsOnce ==
  ASSUME NEW span, Span(span), NEW b \in BlocksOf(span)
  PROVE  /\ JumpEdge(span, BlocksOf(span), b) \subseteq BlocksOf(span)
         /\ \A x, y \in JumpEdge(span, BlocksOf(span), b) : x = y
  <1> DEFINE B == BlocksOf(span)
             last == LastOf(span, B, b)
             S == {i \in DOMAIN span : IsCode(span[i]) /\ BlockOf(B, i) = b}
  <1>1. b \in DOMAIN span /\ b \in Nat /\ IsCode(span[b]) /\ B \subseteq Nat
    BY SpanItems
  <1>2. BlockOf(B, b) = b
    <2> HIDE DEF B
    <2>0. b \in B
      BY DEF B
    <2> DEFINE x == BlockOf(B, b)
    <2>1. b <= b
      BY <1>1
    <2>2. x \in B /\ x <= b /\ b <= x
      BY <2>0, <2>1, <1>1, BlockOfIs
    <2>3. x \in Nat
      BY <2>2, <1>1
    <2> HIDE DEF x
    <2>4. x = b
      BY <2>2, <2>3, <1>1
    <2> QED BY <2>4 DEF x
  <1>3. S # {} /\ S \subseteq 0 .. Len(span) /\ Len(span) \in Nat
    BY <1>1, <1>2, SpanItems
  <1>4. last = Max(S)
    BY DEF LastOf
  <1> HIDE DEF S, last
  <1>5. last \in S
    BY <1>3, <1>4, MaxIs
  <1>6. last \in DOMAIN span /\ IsCode(span[last])
    BY <1>5 DEF S
  <1> DEFINE t == BranchTo(span[last])
  <1>7. JumpEdge(span, B, b) = IF t \in DOMAIN span /\ IsCode(span[t]) THEN {t} ELSE {}
    BY DEF JumpEdge, JumpsTo, last
  <1>8. t \in Entered(span)
    BY <1>6 DEF Entered
  <1> HIDE DEF t
  <1>9. t \in DOMAIN span /\ IsCode(span[t]) => t \in B
    BY <1>8 DEF BlocksOf
  <1> HIDE DEF B
  <1>10. JumpEdge(span, B, b) \subseteq B /\ \A x, y \in JumpEdge(span, B, b) : x = y
    BY <1>7, <1>9
  <1> QED BY <1>10 DEF B

LEMMA BlocksMakeGraph ==
  ASSUME NEW span, Span(span), BlocksOf(span) # {}
  PROVE  Graph(BuildBlocks(span)) /\ DOMAIN BuildBlocks(span) = BlocksOf(span)
  <1> DEFINE B == BlocksOf(span)
             g == BuildBlocks(span)
  <1>1. g = [b \in B |-> FallEdge(span, B, b) \cup JumpEdge(span, B, b)]
    BY DEF BuildBlocks
  <1>2. B \subseteq 1 .. SpanLength
    BY SpanItems
  <1>3. ASSUME NEW b \in B PROVE FallEdge(span, B, b) \cup JumpEdge(span, B, b) \in SUBSET B
    BY JumpsOnce DEF FallEdge
  <1> HIDE DEF B, g
  <1>4. g \in [B -> SUBSET B] /\ DOMAIN g = B
    BY <1>1, <1>3
  <1>5. B # {}
    BY DEF B
  <1>6. Graph(g) /\ DOMAIN g = B
    BY <1>2, <1>4, <1>5 DEF Graph
  <1> QED BY <1>6 DEF g, B

\* The roots are one.
LEMMA RootOnce ==
  ASSUME NEW B, B \subseteq 1 .. SpanLength, B # {}
  PROVE  \A x, y \in RootsOf(B) : x = y
  BY DEF RootsOf

\* The search has the edges of the graph, and two a node at most.
LEMMA EdgesMatch ==
  ASSUME NEW span, Span(span), BlocksOf(span) # {},
         NEW g, g = BuildBlocks(span), NEW edges, edges = EdgesOf(span, g)
  PROVE  EdgesAre(g, edges) /\ \A a \in Nodes(g) : Len(edges[a]) <= 2
  <1> DEFINE B == DOMAIN g
             W == Nodes(g)
             fall(n) == FallEdge(span, B, n)
             jump(n) == g[n] \ fall(n)
             ordered(n) == IF n = VRoot THEN Listed(RootsOf(B)) ELSE Listed(fall(n)) \o Listed(jump(n))
             outs(n) == IF n = VRoot THEN RootsOf(B) ELSE g[n]
  <1>1. Graph(g) /\ B = BlocksOf(span)
    BY BlocksMakeGraph
  <1>2. B \subseteq 1 .. SpanLength /\ VRoot \notin B /\ W \subseteq Nat /\ B \subseteq W /\ B # {}
        /\ \A n \in B : g[n] \subseteq B
    BY <1>1 DEF Graph, Nodes, VRoot
  <1>3. edges = [n \in W |-> ordered(n)]
    <2>1. \A n : Ordered(span, g, n) = ordered(n)
      BY DEF Ordered, Listed
    <2> QED BY <2>1 DEF EdgesOf, Nodes
  <1>4. ASSUME NEW n \in W
        PROVE  /\ ordered(n) \in Seq(W) /\ Len(ordered(n)) <= 2
               /\ \A b : (\E j \in 1 .. Len(ordered(n)) : ordered(n)[j] = b) <=> b \in outs(n)
    <2>1. CASE n = VRoot
      <3>1. RootsOf(B) \subseteq W /\ \A x, y \in RootsOf(B) : x = y
        BY <1>2, RootsAreBlocks, RootOnce
      <3>2. Lists(Listed(RootsOf(B)), RootsOf(B), W)
        BY <3>1, <1>2, ListedIs
      <3> DEFINE l == Listed(RootsOf(B))
      <3>3. ordered(n) = l /\ outs(n) = RootsOf(B)
        BY <2>1
      <3>4. l \in Seq(W) /\ Len(l) <= 2 /\ \A b : (\E j \in 1 .. Len(l) : l[j] = b) <=> b \in RootsOf(B)
        BY <3>2 DEF Lists
      <3> HIDE DEF l, ordered, outs
      <3> QED BY <3>3, <3>4
    <2>2. CASE n # VRoot
      <3>1. n \in B
        BY <2>2 DEF Nodes
      <3>2. g[n] = fall(n) \cup JumpEdge(span, B, n)
        BY <3>1, <1>1 DEF BuildBlocks
      <3>3. fall(n) \subseteq W /\ jump(n) \subseteq W
        BY <3>1, <3>2, <1>2
      <3>4. \A x, y \in fall(n) : x = y
        BY <1>1, FallsOnce
      <3>5. \A x, y \in jump(n) : x = y
        BY <3>1, <3>2, <1>1, JumpsOnce
      <3>6. Lists(Listed(fall(n)), fall(n), W) /\ Lists(Listed(jump(n)), jump(n), W)
        <4> HIDE DEF fall, jump
        <4> QED BY <1>2, <3>3, <3>4, <3>5, ListedIs
      <3> DEFINE l == Listed(fall(n)) \o Listed(jump(n))
      <3>7. /\ l \in Seq(W) /\ Len(l) <= 2
            /\ \A b : (\E j \in 1 .. Len(l) : l[j] = b) <=> b \in fall(n) \cup jump(n)
        <4>1. ListsTwo(l, fall(n) \cup jump(n), W)
          <5> HIDE DEF fall, jump
          <5> QED BY <3>6, ListsBoth
        <4> HIDE DEF l, fall, jump
        <4> QED BY <4>1 DEF ListsTwo
      <3>8. ordered(n) = l /\ outs(n) = g[n]
        BY <2>2
      <3>9. fall(n) \cup jump(n) = g[n]
        BY <3>2
      <3> HIDE DEF l, ordered, outs, fall, jump
      <3> QED BY <3>7, <3>8, <3>9
    <2> QED BY <2>1, <2>2
  <1>5. \A a \in W, b \in W : b \in outs(a) <=> a \in PredsIn(g, b)
    BY <1>2 DEF PredsIn, Nodes
  <1> HIDE DEF ordered, outs, W
  <1>6. edges \in [W -> Seq(W)] /\ \A a \in W : Len(edges[a]) <= 2
    BY <1>3, <1>4
  <1>7. \A a, b \in W : Leads(edges, a, b) <=> b \in outs(a)
    BY <1>3, <1>4 DEF Leads
  <1>8. EdgesAre(g, edges)
    BY <1>5, <1>6, <1>7 DEF EdgesAre, W
  <1> QED BY <1>6, <1>8 DEF W

(***************************************************************************)
(* The body of a function is a span.                                       *)
(***************************************************************************)
LEMMA ClassifiedIs ==
  ASSUME NEW span \in [1 .. SpanLength -> Items]
  PROVE  ClassifyNops(span) \in [1 .. SpanLength -> Rec]
  <1>1. \A i \in 1 .. SpanLength : span[i] \in Rec
    BY ItemsAssumption DEF Rec
  <1>2. \A r \in Rec, c \in Classes : [r EXCEPT !.cls = c] \in Rec
    BY DEF Rec
  <1>3. DOMAIN span = 1 .. SpanLength
    OBVIOUS
  <1> DEFINE inline(i) == LET p == Before(span, i, "NOP")
                              n == After(span, i, "NOP")
                          IN /\ p # 0 /\ IsCode(span[p]) /\ span[p].ft
                             /\ n # 0 /\ IsCode(span[n]) /\ n \notin Entered(span)
             entered(i) == Before(span, i, "NOP") + 1 \in Entered(span)
             class(i) == IF inline(i) \/ entered(i) THEN "CODE" ELSE "PAD"
  <1>4. ClassifyNops(span) = [i \in DOMAIN span |->
          IF span[i].cls = "NOP" THEN [span[i] EXCEPT !.cls = class(i)] ELSE span[i]]
    BY Zenon DEF ClassifyNops
  <1> HIDE DEF inline, entered
  <1>5. \A i : class(i) \in Classes
    <2>1. "CODE" \in Classes /\ "PAD" \in Classes
      BY DEF Classes
    <2>2. \A i : class(i) = "CODE" \/ class(i) = "PAD"
      BY Zenon
    <2> HIDE DEF class
    <2> QED BY <2>1, <2>2
  <1> HIDE DEF class
  <1>6. \A i \in 1 .. SpanLength :
          (IF span[i].cls = "NOP" THEN [span[i] EXCEPT !.cls = class(i)] ELSE span[i]) \in Rec
    BY <1>1, <1>2, <1>5
  <1> QED BY <1>3, <1>4, <1>6

\* A function owns a prefix of its span.
LEMMA OwnedEndIs ==
  ASSUME NEW span \in [1 .. SpanLength -> Rec]
  PROVE  OwnedEnd(span) \in 0 .. Len(span)
  <1> DEFINE n == Len(span)
             X == DOMAIN span
             next == [i \in X |-> FallsTo(span, i) \cup JumpsTo(span, i)]
             own == {1} \cup {i \in Labelled(span) : IsCode(span[i])}
             seen == Closure(own, next, n)
             past == {k \in (Max(seen) + 1) .. n : IsCode(span[k])}
  <1>1. SpanLength \in Nat \ {0}
    BY ItemsAssumption
  <1>2. X = 1 .. n /\ n = SpanLength
    <2>1. span \in Seq(Rec) /\ DOMAIN span = 1 .. SpanLength
      BY <1>1
    <2>2. DOMAIN span = 1 .. Len(span) /\ Len(span) \in Nat
      BY <2>1
    <2> QED BY <2>1, <2>2, <1>1
  <1> HIDE DEF n
  <1>3. ASSUME NEW i \in X PROVE FallsTo(span, i) \cup JumpsTo(span, i) \in SUBSET X
    <2>1. JumpsTo(span, i) \subseteq X
      BY DEF JumpsTo
    <2>2. FallsTo(span, i) \subseteq X
      <3> DEFINE j == After(span, i, "PAD")
      <3>0. i \in Nat /\ n \in Nat
        BY <1>1, <1>2
      <3>1. j = 0 \/ j \in i + 1 .. n
        BY <3>0, AfterIs DEF n
      <3> HIDE DEF j
      <3>2. j # 0 => j \in X
        BY <3>0, <3>1, <1>2
      <3>3. FallsTo(span, i) = IF span[i].ft /\ j # 0 /\ IsCode(span[j]) THEN {j} ELSE {}
        BY DEF FallsTo, j
      <3> QED BY <3>2, <3>3
    <2> QED BY <2>1, <2>2
  <1>4. next \in [X -> SUBSET X]
    BY <1>3
  <1> HIDE DEF next, X
  <1>5. IsFiniteSet(X) /\ Cardinality(X) = n /\ n \in Nat \ {0}
    BY <1>1, <1>2, UpTo
  <1>6. own \in SUBSET X /\ 1 \in own
    <2>1. {i \in Labelled(span) : IsCode(span[i])} \subseteq X
      BY DEF Labelled, X
    <2> QED BY <2>1, <1>2, <1>5
  <1> HIDE DEF own
  <1>7. Cardinality(X) <= n
    BY <1>5
  <1>8. IsClosure(seen, own, next, X)
    BY <1>4, <1>5, <1>6, <1>7, ClosureLeast
  <1> HIDE DEF seen
  <1>9. seen \subseteq 0 .. n /\ seen # {}
    BY <1>2, <1>6, <1>8 DEF IsClosure
  <1>10. Max(seen) \in 0 .. n
    BY <1>5, <1>9, MaxIs
  <1>11. past # {} => Min(past) - 1 \in 0 .. n
    <2> SUFFICES ASSUME past # {} PROVE Min(past) - 1 \in 0 .. n
      OBVIOUS
    <2>1. past \subseteq Nat /\ past \subseteq 1 .. n
      BY <1>10
    <2> HIDE DEF past
    <2>2. Min(past) \in 1 .. n
      BY <2>1, MinIs
    <2> QED BY <2>2, <1>5
  <1>12. OwnedEnd(span) = IF ~IsCode(span[1]) THEN n ELSE IF past = {} THEN n ELSE Min(past) - 1
    BY Zenon DEF OwnedEnd, past, seen, own, next, X, n
  <1> HIDE DEF past
  <1>13. OwnedEnd(span) \in 0 .. n
    BY <1>5, <1>11, <1>12
  <1> QED BY <1>13 DEF n

LEMMA PrefixIs ==
  ASSUME NEW R, NEW s \in Seq(R), NEW e \in 0 .. Len(s)
  PROVE  SubSeq(s, 1, e) \in Seq(R) /\ Len(SubSeq(s, 1, e)) = e /\ e \in Nat
  <1>1. Len(s) \in Nat
    OBVIOUS
  <1>2. 1 \in 1 .. Len(s) + 1 /\ e \in 1 - 1 .. Len(s)
    BY <1>1
  <1> QED BY <1>1, <1>2, SubSeqProperties

LEMMA BodyIsSpan ==
  ASSUME NEW span \in [1 .. SpanLength -> Rec]
  PROVE  Span(Body(span))
  <1> DEFINE owned == SubSeq(span, 1, OwnedEnd(span))
             kept == {i \in DOMAIN owned : owned[i].cls \notin {"FILL", "PAD", "GAP"}}
  <1>1. SpanLength \in Nat
    BY ItemsAssumption
  <1>2. span \in Seq(Rec) /\ Len(span) = SpanLength
    BY <1>1
  <1>3. owned \in Seq(Rec) /\ Len(owned) \in Nat /\ Len(owned) <= SpanLength
    <2>1. OwnedEnd(span) \in 0 .. Len(span)
      BY OwnedEndIs
    <2> DEFINE e == OwnedEnd(span)
    <2> HIDE DEF e
    <2>2. SubSeq(span, 1, e) \in Seq(Rec) /\ Len(SubSeq(span, 1, e)) = e /\ e \in Nat
      BY <2>1, <1>2, PrefixIs DEF e
    <2>3. e <= SpanLength
      BY <2>1, <1>1, <1>2 DEF e
    <2> QED BY <2>2, <2>3 DEF e
  <1>4. Body(span) = IF kept = {} THEN <<>> ELSE SubSeq(owned, 1, Max(kept))
    BY Zenon DEF Body
  <1> HIDE DEF owned
  <1>5. CASE kept = {}
    <2> DEFINE b == Body(span)
    <2>1. b = <<>>
      BY <1>4, <1>5
    <2> HIDE DEF b
    <2>2. b \in Seq(Rec) /\ Len(b) = 0
      BY <2>1
    <2>3. Span(b)
      BY <2>2, <1>1 DEF Span
    <2> QED BY <2>3 DEF b
  <1>6. CASE kept # {}
    <2>1. DOMAIN owned = 1 .. Len(owned)
      BY <1>3
    <2>2. kept \subseteq 0 .. Len(owned)
      BY <2>1, <1>3
    <2> HIDE DEF kept
    <2> DEFINE e == Max(kept)
    <2>3. e \in 0 .. Len(owned)
      BY <2>2, <1>3, <1>6, MaxIs
    <2> HIDE DEF e
    <2>4. SubSeq(owned, 1, e) \in Seq(Rec) /\ Len(SubSeq(owned, 1, e)) = e /\ e \in Nat
      BY <2>3, <1>3, PrefixIs
    <2>5. e <= SpanLength
      BY <2>3, <1>1, <1>3
    <2>6. Span(SubSeq(owned, 1, e))
      BY <2>4, <2>5 DEF Span
    <2> QED BY <2>6, <1>4, <1>6 DEF e
  <1> QED BY <1>5, <1>6

(***************************************************************************)
(* The sweeps.                                                             *)
(***************************************************************************)

\* The graph is numbered, the dominators found so far are a tree, and what
\* this sweep has passed has a dominator; while the sweep has changed nothing
\* it fits the predecessors too.
DomInv ==
  /\ Graph(succ) /\ Found(succ, rpo)
  /\ DomTree(succ, idom, NodeOrder)
  /\ at \in 2 .. Len(rpo) + 1
  /\ \A i \in 2 .. at - 1 : rpo[i] \in Settling(idom)
  /\ refined \in BOOLEAN /\ done \in BOOLEAN
  /\ ~refined => \A i \in 2 .. at - 1 : Fits(succ, idom, rpo[i])
  /\ done => at = Len(rpo) + 1 /\ ~refined

LEMMA OrderIs == NodeOrder = PlaceIn(rpo)
  BY DEF NodeOrder, PlaceIn

LEMMA FoundAtStart ==
  ASSUME NEW span, Span(span), BlocksOf(span) # {}, NEW g, g = BuildBlocks(span)
  PROVE  Found(g, ReversePostorder(span, g))
  <1> DEFINE edges == EdgesOf(span, g)
  <1>1. Graph(g)
    BY BlocksMakeGraph
  <1>2. EdgesAre(g, edges) /\ \A a \in Nodes(g) : Len(edges[a]) <= 2
    BY EdgesMatch
  <1>3. IsFiniteSet(DOMAIN g) /\ VRoot \notin DOMAIN g
    <2>1. IsFiniteSet(1 .. SpanLength)
      BY ItemsAssumption, UpTo
    <2>2. DOMAIN g \subseteq 1 .. SpanLength
      BY <1>1 DEF Graph
    <2>3. IsFiniteSet(DOMAIN g)
      BY <2>1, <2>2, FS_Subset
    <2>4. 0 \notin 1 .. SpanLength
      BY ItemsAssumption
    <2> QED BY <2>2, <2>3, <2>4 DEF VRoot
  <1>4. Nodes(g) = DOMAIN g \cup {VRoot} /\ edges \in [Nodes(g) -> Seq(Nodes(g))]
    BY <1>2 DEF Nodes, EdgesAre
  <1>5. edges = EdgesOf(span, g)
    OBVIOUS
  <1> HIDE DEF edges
  <1>6. \E s : DfsInv(Nodes(g), edges, s) /\ s.stack = <<>> /\ s.left = ReversePostorder(span, g)
    BY <1>2, <1>3, <1>4, <1>5, DfsEnds
  <1>7. PICK s : DfsInv(Nodes(g), edges, s) /\ s.stack = <<>> /\ s.left = ReversePostorder(span, g)
    BY <1>6
  <1>8. Found(g, s.left)
    BY <1>1, <1>2, <1>7, SearchFinds
  <1> QED BY <1>7, <1>8

\* At first only the virtual root has a dominator: itself.
LEMMA TreeAtStart ==
  ASSUME NEW g, Graph(g), NEW l, Found(g, l), NEW f,
         f = [n \in DOMAIN g \cup {VRoot} |-> IF n = VRoot THEN VRoot ELSE NoIdom]
  PROVE  DomTree(g, f, PlaceIn(l))
  <1>1. Settling(f) = {VRoot} /\ DOMAIN f = DOMAIN g \cup {VRoot} /\ f[VRoot] = VRoot
        /\ \A n \in DOMAIN f : f[n] \in DOMAIN f \cup {NoIdom}
    BY DEF Settling, VRoot, NoIdom
  <1>2. DOMAIN g \subseteq 1 .. SpanLength /\ SpanLength \in Nat
    BY ItemsAssumption DEF Graph
  <1>3. IsFiniteSet(DOMAIN f) /\ Cardinality(DOMAIN f) <= SpanLength + 1
    <2>1. IsFiniteSet(1 .. SpanLength) /\ Cardinality(1 .. SpanLength) = SpanLength
      BY <1>2, UpTo
    <2>2. IsFiniteSet(DOMAIN g) /\ Cardinality(DOMAIN g) <= SpanLength
      BY <1>2, <2>1, FS_Subset
    <2>3. Cardinality(DOMAIN g) \in Nat
      BY <2>2, FS_CardinalityType
    <2>4. /\ IsFiniteSet(DOMAIN g \cup {VRoot})
          /\ Cardinality(DOMAIN g \cup {VRoot}) = IF VRoot \in DOMAIN g THEN Cardinality(DOMAIN g)
                                                  ELSE Cardinality(DOMAIN g) + 1
      BY <2>2, FS_AddElement
    <2> QED BY <1>1, <1>2, <2>2, <2>3, <2>4
  <1>4. DOMAIN f \subseteq Nat
    BY <1>1, <1>2 DEF VRoot
  <1>5. Numbered(g, PlaceIn(l))
    BY FoundNumbers
  <1>6. VRoot \in DOMAIN PlaceIn(l) /\ PlaceIn(l)[VRoot] \in Nat
    BY <1>5 DEF Numbered
  <1>7. Tree(f, PlaceIn(l))
    BY <1>1, <1>3, <1>4, <1>6 DEF Tree
  <1> QED BY <1>1, <1>6, <1>7 DEF DomTree

LEMMA DomInvInit == GraphInit => DomInv
  <1> SUFFICES ASSUME GraphInit PROVE DomInv
    OBVIOUS
  <1>1. PICK span \in [1 .. SpanLength -> Items] : recs = ClassifyNops(span)
    BY DEF GraphInit
  <1>2. Span(body) /\ succ = BuildBlocks(body) /\ rpo = ReversePostorder(body, succ)
    BY <1>1, ClassifiedIs, BodyIsSpan DEF GraphInit
  <1>3. BlocksOf(body) # {}
    <2>1. DOMAIN BuildBlocks(body) = BlocksOf(body)
      BY DEF BuildBlocks
    <2> QED BY <2>1, <1>2 DEF GraphInit, Blocks
  <1>4. Graph(succ) /\ Found(succ, rpo)
    BY <1>2, <1>3, BlocksMakeGraph, FoundAtStart
  <1>5. DomTree(succ, idom, NodeOrder)
    BY <1>4, TreeAtStart, OrderIs DEF GraphInit, Blocks
  <1>6. Len(rpo) \in Nat \ {0} /\ at = 2 /\ refined = FALSE /\ done = FALSE
    BY <1>4 DEF Found, GraphInit
  <1>7. at \in 2 .. Len(rpo) + 1 /\ 2 .. at - 1 = {}
    BY <1>6
  <1> QED BY <1>4, <1>5, <1>6, <1>7 DEF DomInv

LEMMA NewIdomIs == \A n : NewIdom(NodeOrder, n) = NewIn(succ, idom, NodeOrder, n)
  BY Zenon DEF NewIdom, NewIn, PredV, PredsIn, Pred, Blocks, Settled, Settling, Meet, MeetIn

LEMMA VisitKeepsInv ==
  ASSUME DomInv, Visit
  PROVE  DomInv'
  <1> DEFINE n == rpo[at]
             new == NewIdom(NodeOrder, n)
             moves == new # NoIdom /\ idom[n] # new
             o == NodeOrder
  <1>1. /\ ~done /\ at <= Len(rpo)
        /\ idom' = IF moves THEN [idom EXCEPT ![n] = new] ELSE idom
        /\ refined' = (refined \/ moves)
        /\ at' = at + 1
        /\ succ' = succ /\ rpo' = rpo /\ done' = done
    BY DEF Visit
  <1>2. Graph(succ) /\ Found(succ, rpo) /\ DomTree(succ, idom, o) /\ o = PlaceIn(rpo)
    BY OrderIs DEF DomInv
  <1>3. Len(rpo) \in Nat /\ at \in 2 .. Len(rpo) /\ at \in 1 .. Len(rpo) /\ 1 \in 1 .. Len(rpo)
    <2>1. Len(rpo) \in Nat /\ at \in 2 .. Len(rpo) + 1 /\ at <= Len(rpo)
      BY <1>1, <1>2 DEF DomInv, Found
    <2> QED BY <2>1
  <1>4. Numbered(succ, o) /\ \A i \in 1 .. Len(rpo) : o[rpo[i]] = i
    BY <1>2, FoundNumbers
  <1>5. \A i \in 1 .. Len(rpo) : rpo[i] \in {VRoot} \cup ReachIn(succ, VRoot)
    BY <1>2 DEF Found
  <1>6. n \in DOMAIN succ /\ n \in DOMAIN o
    <2>1. n # VRoot
      BY <1>2, <1>3 DEF Found
    <2>2. ReachIn(succ, VRoot) \subseteq DOMAIN succ
      BY <1>2, ReachIs DEF IsClosure
    <2> QED BY <1>3, <1>4, <1>5, <2>1, <2>2 DEF Numbered
  <1>7. VRoot \in Settling(idom)
    BY <1>2 DEF DomTree, Tree, Settling, VRoot, NoIdom
  <1>8. PICK first \in PredsIn(succ, n) \cap Settling(idom) : o[first] < o[n]
    <2>1. PICK j \in 1 .. at - 1 : rpo[j] \in PredsIn(succ, n)
      BY <1>2, <1>3 DEF Found
    <2>2. j \in 1 .. Len(rpo) /\ j < at /\ (j = 1 \/ j \in 2 .. at - 1)
      BY <1>3
    <2>3. rpo[j] \in Settling(idom)
      BY <1>2, <1>7, <2>2 DEF DomInv, Found
    <2> QED BY <1>3, <1>4, <2>1, <2>2, <2>3
  <1>9. new = NewIn(succ, idom, o, n)
    BY NewIdomIs
  <1> HIDE DEF n, new, o
  <1>10. /\ new # NoIdom
         /\ DomTree(succ, [idom EXCEPT ![n] = new], o)
         /\ Settling([idom EXCEPT ![n] = new]) = Settling(idom) \cup {n}
    <2>1. Visited(succ, idom, o, n, new)
      BY <1>2, <1>4, <1>6, <1>8, <1>9, VisitKeeps
    <2> QED BY <2>1 DEF Visited
  <1>11. DomTree(succ, idom', o) /\ Settling(idom') = Settling(idom) \cup {n}
    <2>1. CASE moves
      BY <2>1, <1>1, <1>10
    <2>2. CASE ~moves
      <3>1. idom' = idom /\ idom[n] = new /\ n \in DOMAIN idom
        BY <2>2, <1>1, <1>2, <1>6, <1>10 DEF DomTree
      <3>2. n \in Settling(idom)
        BY <3>1, <1>10 DEF Settling
      <3> QED BY <3>1, <3>2, <1>2
    <2> QED BY <2>1, <2>2
  <1>12. NodeOrder' = o
    BY <1>1 DEF NodeOrder, o
  <1>13. at' \in 2 .. Len(rpo') + 1 /\ 2 .. at' - 1 = (2 .. at - 1) \cup {at}
    BY <1>1, <1>3
  <1>14. \A i \in 2 .. at' - 1 : rpo'[i] \in Settling(idom')
    BY <1>1, <1>11, <1>13 DEF DomInv, n
  <1>15. ~refined' => \A i \in 2 .. at' - 1 : Fits(succ', idom', rpo'[i])
    <2> SUFFICES ASSUME ~refined' PROVE \A i \in 2 .. at' - 1 : Fits(succ, idom', rpo[i])
      BY <1>1
    <2>1. ~refined /\ ~moves /\ idom' = idom /\ idom[n] = new
      BY <1>1, <1>10
    <2>2. \A i \in 2 .. at - 1 : Fits(succ, idom, rpo[i])
      BY <2>1 DEF DomInv
    <2>3. Tree(idom, o) /\ PredsIn(succ, n) \cap Settling(idom) # {}
      BY <1>2, <1>8 DEF DomTree
    <2>4. IsMeet(idom, new, PredsIn(succ, n) \cap Settling(idom))
      BY <2>3, <1>9, NewIsMeet
    <2>5. Fits(succ, idom, rpo[at])
      BY <2>1, <2>4 DEF Fits, n
    <2> QED BY <2>1, <2>2, <2>5, <1>13
  <1>16. refined' \in BOOLEAN /\ done' \in BOOLEAN /\ ~done'
    BY <1>1 DEF DomInv
  <1> QED BY <1>1, <1>2, <1>11, <1>12, <1>13, <1>14, <1>15, <1>16 DEF DomInv

LEMMA SweptKeepsInv ==
  ASSUME DomInv, Swept
  PROVE  DomInv'
  <1>1. /\ ~done /\ at > Len(rpo)
        /\ IF refined THEN at' = 2 /\ refined' = FALSE /\ done' = done
                      ELSE done' = TRUE /\ at' = at /\ refined' = refined
        /\ succ' = succ /\ rpo' = rpo /\ idom' = idom
    BY DEF Swept
  <1>2. NodeOrder' = NodeOrder
    BY <1>1 DEF NodeOrder
  <1>3. Len(rpo) \in Nat \ {0} /\ at = Len(rpo) + 1
    <2>1. Len(rpo) \in Nat \ {0} /\ at \in 2 .. Len(rpo) + 1
      BY DEF DomInv, Found
    <2> QED BY <2>1, <1>1
  <1>4. CASE refined
    <2>1. at' \in 2 .. Len(rpo') + 1 /\ 2 .. at' - 1 = {}
      BY <1>1, <1>3, <1>4
    <2>2. refined' = FALSE /\ ~done'
      BY <1>1, <1>4
    <2> QED BY <1>1, <1>2, <2>1, <2>2 DEF DomInv
  <1>5. CASE ~refined
    BY <1>1, <1>2, <1>3, <1>5 DEF DomInv
  <1> QED BY <1>4, <1>5

\* The sweeps keep the tree of dominators (layout_loops.dominators).
THEOREM SweepsKeepTree == GraphSpec => []DomInv
  <1>1. DomInv /\ [GraphNext]_flow => DomInv'
    <2> SUFFICES ASSUME DomInv, [GraphNext]_flow PROVE DomInv'
      OBVIOUS
    <2>1. CASE Visit
      BY <2>1, VisitKeepsInv
    <2>2. CASE Swept
      BY <2>2, SweptKeepsInv
    <2>3. CASE UNCHANGED flow
      <3>1. NodeOrder' = NodeOrder
        BY <2>3 DEF NodeOrder, flow
      <3> QED BY <2>3, <3>1 DEF DomInv, flow
    <2> QED BY <2>1, <2>2, <2>3 DEF GraphNext
  <1> QED BY <1>1, DomInvInit, PTL DEF GraphSpec

(***************************************************************************)
(* What is reported when the sweeps stop.                                  *)
(***************************************************************************)
LEMMA ReachedIs == \A h : ReachedAvoiding(h) = ReachIn(succ, h)
  BY Zenon DEF ReachedAvoiding, ReachIn, NextIn, Blocks

LEMMA DominatesIs == \A h, u : Dominates(h, u) <=> h \in Chain(idom, u)
  BY Zenon DEF Dominates, ChainOf, Chain, UpIn

\* All that is reached is settled, and fits.
LEMMA AllFit ==
  ASSUME DomInv, done
  PROVE  /\ Numbered(succ, NodeOrder) /\ Settling(idom) = DOMAIN NodeOrder
         /\ DOMAIN NodeOrder = {VRoot} \cup ReachIn(succ, VRoot)
         /\ \A n \in DOMAIN NodeOrder \ {VRoot} : Fits(succ, idom, n)
  <1>1. /\ Graph(succ) /\ Found(succ, rpo) /\ DomTree(succ, idom, NodeOrder) /\ NodeOrder = PlaceIn(rpo)
        /\ at = Len(rpo) + 1 /\ ~refined
    BY OrderIs DEF DomInv
  <1>2. Numbered(succ, NodeOrder)
    BY <1>1, FoundNumbers
  <1>3. DOMAIN NodeOrder = {VRoot} \cup ReachIn(succ, VRoot)
    BY <1>2 DEF Numbered
  <1>4. Len(rpo) \in Nat /\ at - 1 = Len(rpo)
    BY <1>1 DEF Found
  <1>5. ASSUME NEW n \in DOMAIN NodeOrder, n # VRoot
        PROVE  n \in Settling(idom) /\ Fits(succ, idom, n)
    <2>1. PICK i \in 1 .. Len(rpo) : rpo[i] = n
      BY <1>1, <1>3 DEF Found
    <2>2. i # 1
      BY <2>1, <1>1, <1>5 DEF Found
    <2>3. i \in 2 .. at - 1
      BY <2>2, <1>4
    <2> QED BY <2>1, <2>3, <1>1 DEF DomInv
  <1>6. VRoot \in Settling(idom) /\ Settling(idom) \subseteq DOMAIN NodeOrder
    BY <1>1 DEF DomTree, Tree, Settling, VRoot, NoIdom
  <1>7. Settling(idom) = DOMAIN NodeOrder
    BY <1>5, <1>6
  <1> QED BY <1>2, <1>3, <1>5, <1>7

LEMMA DominatorsFound ==
  ASSUME DomInv
  PROVE  DominatorsExact
  <1> SUFFICES ASSUME done, NEW u \in Blocks
               PROVE  /\ (idom[u] = NoIdom) <=> (u \notin ReachedAvoiding(VRoot))
                      /\ idom[u] # NoIdom =>
                           \A h \in Blocks : Dominates(h, u) <=> (h = u \/ u \notin ReachedAvoiding(h))
    BY Zenon DEF DominatorsExact
  <1>1. /\ Numbered(succ, NodeOrder) /\ Settling(idom) = DOMAIN NodeOrder
        /\ DOMAIN NodeOrder = {VRoot} \cup ReachIn(succ, VRoot)
        /\ \A n \in DOMAIN NodeOrder \ {VRoot} : Fits(succ, idom, n)
    BY AllFit
  <1>2. Graph(succ) /\ DomTree(succ, idom, NodeOrder)
    BY DEF DomInv
  <1>3. u \in DOMAIN succ /\ u # VRoot /\ u \in DOMAIN idom
    BY <1>2 DEF Blocks, Graph, VRoot, DomTree
  <1>4. (idom[u] = NoIdom) <=> (u \notin ReachIn(succ, VRoot))
    BY <1>1, <1>3 DEF Settling
  <1>5. ASSUME idom[u] # NoIdom, NEW h \in Blocks
        PROVE  h \in Chain(idom, u) <=> (h = u \/ u \notin ReachIn(succ, h))
    <2>1. u \in Settling(idom) \ {VRoot} /\ h \in DOMAIN succ
      BY <1>3, <1>5 DEF Settling, Blocks
    <2>2. h \in Chain(idom, u) <=> Dom(succ, h, u)
      BY <2>1, <1>1, <1>2, ChainsAreDominators
    <2> QED BY <2>2, <1>3 DEF Dom
  <1> QED BY <1>4, <1>5, ReachedIs, DominatesIs

\* Whatever the branches of a function, when the sweeps stop a block has no
\* dominator exactly when nothing reaches it, and its chain of dominators holds
\* exactly the blocks that every path to it passes.
THEOREM DominatorsAreExact == GraphSpec => []DominatorsExact
  BY SweepsKeepTree, DominatorsFound, PTL

(***************************************************************************)
(* Natural loops.                                                          *)
(***************************************************************************)
Ups(x) == Pred(x) \cap Settling(idom)
Sources(h) == {e[1] : e \in {b \in BackEdges : b[2] = h}}

\* A loop holds what leads to its blocks, up to its header, and no more than
\* that; its header dominates it.
LoopAt(h) ==
  /\ h \in Blocks /\ h \in Settling(idom)
  /\ NaturalLoop(h) \subseteq Blocks \cap Settling(idom) /\ h \in NaturalLoop(h)
  /\ \A x \in NaturalLoop(h) \ {h} : Ups(x) \subseteq NaturalLoop(h)
  /\ \A x \in NaturalLoop(h) : h \in Chain(idom, x)
  /\ Sources(h) \subseteq Ups(h)
  /\ \A T \in SUBSET Blocks :
       Sources(h) \subseteq T /\ (\A x \in T \ {h} : Ups(x) \subseteq T) => NaturalLoop(h) \subseteq T \cup {h}

LEMMA BlocksFinite ==
  ASSUME Graph(succ)
  PROVE  /\ IsFiniteSet(Blocks) /\ Cardinality(Blocks) <= SpanLength /\ SpanLength \in Nat
         /\ Blocks \subseteq Nat
  <1>1. SpanLength \in Nat
    BY ItemsAssumption
  <1>2. IsFiniteSet(1 .. SpanLength) /\ Cardinality(1 .. SpanLength) = SpanLength
    BY <1>1, UpTo
  <1>3. Blocks \subseteq 1 .. SpanLength
    BY DEF Graph, Blocks
  <1>4. Blocks \subseteq Nat
    BY <1>3
  <1>5. IsFiniteSet(Blocks) /\ Cardinality(Blocks) <= SpanLength
    BY <1>2, <1>3, FS_Subset
  <1> QED BY <1>1, <1>4, <1>5

\* What dominates a block dominates the settled blocks that lead to it.
LEMMA DominatesUps ==
  ASSUME DomInv, done, NEW h \in Blocks, NEW x \in Blocks \cap Settling(idom), h # x,
         h \in Chain(idom, x), NEW p \in Ups(x)
  PROVE  h \in Chain(idom, p)
  <1>1. /\ Numbered(succ, NodeOrder) /\ Settling(idom) = DOMAIN NodeOrder
        /\ \A n \in DOMAIN NodeOrder \ {VRoot} : Fits(succ, idom, n)
    BY AllFit
  <1>2. Graph(succ) /\ DomTree(succ, idom, NodeOrder)
    BY DEF DomInv
  <1>3. VRoot \notin Blocks /\ p \in Blocks /\ p \in Settling(idom) /\ p \in PredsIn(succ, x)
    BY <1>2 DEF Blocks, Graph, VRoot, Ups, Pred, PredsIn
  <1>4. Dom(succ, h, x)
    BY <1>1, <1>2, <1>3, ChainsAreDominators DEF Blocks
  <1>5. Dom(succ, h, p)
    BY <1>2, <1>3, <1>4, DominatesPreds DEF Blocks
  <1> QED BY <1>1, <1>2, <1>3, <1>5, ChainsAreDominators DEF Blocks

LEMMA LoopIs ==
  ASSUME DomInv, done, NEW h \in Headers
  PROVE  LoopAt(h)
  <1> DEFINE up == [x \in Blocks |-> IF x = h THEN {} ELSE Ups(x)]
             C == Closure(Sources(h), up, SpanLength)
             L == NaturalLoop(h)
  <1>1. L = {h} \cup C
    BY Zenon DEF NaturalLoop, Sources, Ups, Settled, Settling
  <1>2. Graph(succ) /\ DomTree(succ, idom, NodeOrder) /\ Tree(idom, NodeOrder)
    BY DEF DomInv, DomTree
  <1>3. PICK e \in BackEdges : e[2] = h
    BY DEF Headers
  <1>4. ASSUME NEW a \in Sources(h)
        PROVE  /\ a \in Blocks /\ a \in Settling(idom) /\ h \in Blocks /\ h \in succ[a]
               /\ h \in Chain(idom, a)
    <2>1. PICK d \in BackEdges : d[2] = h /\ d[1] = a
      BY DEF Sources
    <2>2. d \in Blocks \X Blocks /\ idom[d[1]] # NoIdom /\ d[2] \in succ[d[1]] /\ Dominates(d[2], d[1])
      BY DEF BackEdges
    <2>3. a \in DOMAIN idom
      BY <2>1, <2>2, <1>2 DEF DomTree, Blocks
    <2> QED BY <2>1, <2>2, <2>3, DominatesIs DEF Settling
  <1>5. e[1] \in Sources(h)
    BY <1>3 DEF Sources
  <1>6. h \in Blocks /\ h \in Settling(idom)
    BY <1>2, <1>4, <1>5, ChainWithin
  <1>7. Sources(h) \subseteq Ups(h) /\ Sources(h) \subseteq Blocks
    BY <1>4 DEF Ups, Pred
  <1>8. \A x : Ups(x) \subseteq Blocks \cap Settling(idom)
    BY DEF Ups, Pred
  <1>9. up \in [Blocks -> SUBSET Blocks]
    BY <1>8
  <1>10. IsFiniteSet(Blocks) /\ Cardinality(Blocks) <= SpanLength /\ SpanLength \in Nat
    BY <1>2, BlocksFinite
  <1>11. IsClosure(C, Sources(h), up, Blocks)
    <2> HIDE DEF up
    <2> QED BY <1>7, <1>9, <1>10, ClosureLeast
  <1>12. \A x \in Blocks : up[x] = IF x = h THEN {} ELSE Ups(x)
    OBVIOUS
  <1> HIDE DEF C, up, L
  <1>13. ASSUME NEW T \in SUBSET Blocks, Sources(h) \subseteq T, \A x \in T \ {h} : Ups(x) \subseteq T
         PROVE  C \subseteq T
    <2>1. Closed(T, up)
      BY <1>12, <1>13 DEF Closed
    <2> QED BY <2>1, <1>11, <1>13 DEF IsClosure
  <1>14. C \subseteq Blocks /\ \A x \in C \ {h} : Ups(x) \subseteq C
    BY <1>11, <1>12 DEF IsClosure, Closed
  <1>15. \A x \in C : x \in Settling(idom) /\ h \in Chain(idom, x)
    <2> DEFINE T == {x \in Blocks \cap Settling(idom) : h \in Chain(idom, x)}
    <2>1. Sources(h) \subseteq T
      BY <1>4
    <2>2. ASSUME NEW x \in T \ {h} PROVE Ups(x) \subseteq T
      BY <1>6, <1>8, DominatesUps
    <2>3. C \subseteq T
      <3> HIDE DEF T
      <3>1. T \in SUBSET Blocks
        BY DEF T
      <3> QED BY <2>1, <2>2, <3>1, <1>13
    <2> QED BY <2>3
  <1>16. h \in Chain(idom, h)
    BY <1>2, <1>6, ChainUnfolds DEF Settling
  <1>17. L \subseteq Blocks \cap Settling(idom) /\ h \in L
    BY <1>1, <1>6, <1>14, <1>15 DEF L
  <1>18. \A x \in L \ {h} : Ups(x) \subseteq L
    BY <1>1, <1>14 DEF L
  <1>19. \A x \in L : h \in Chain(idom, x)
    BY <1>1, <1>15, <1>16 DEF L
  <1>20. \A T \in SUBSET Blocks :
           Sources(h) \subseteq T /\ (\A x \in T \ {h} : Ups(x) \subseteq T) => L \subseteq T \cup {h}
    BY <1>1, <1>13 DEF L
  <1> QED BY <1>6, <1>7, <1>17, <1>18, <1>19, <1>20 DEF LoopAt, L

\* Of two blocks that dominate each other one is the other.
LEMMA DominatesOnce ==
  ASSUME DomInv, NEW h \in Settling(idom), NEW m \in Settling(idom),
         h \in Chain(idom, m), m \in Chain(idom, h)
  PROVE  h = m
  <1>1. Tree(idom, NodeOrder)
    BY DEF DomInv, DomTree
  <1>2. NodeOrder[h] <= NodeOrder[m] /\ NodeOrder[m] <= NodeOrder[h] /\ NodeOrder[h] \in Nat /\ NodeOrder[m] \in Nat
    BY <1>1, ChainWithin DEF Tree
  <1>3. NodeOrder[h] = NodeOrder[m]
    BY <1>2
  <1> QED BY <1>1, <1>3 DEF Tree

\* A loop holds every loop whose header it holds.
LEMMA LoopHolds ==
  ASSUME DomInv, done, NEW h \in Headers, NEW m \in Headers, h \in NaturalLoop(m)
  PROVE  NaturalLoop(h) \subseteq NaturalLoop(m)
  <1>1. LoopAt(h) /\ LoopAt(m)
    BY LoopIs
  <1>2. CASE h = m
    BY <1>2
  <1>3. CASE h # m
    <2> DEFINE T == {x \in NaturalLoop(m) : h \in Chain(idom, x)}
    <2>1. h \in Blocks /\ h \in Settling(idom) /\ m \in Settling(idom) /\ m \in Chain(idom, h)
          /\ h \in Chain(idom, h)
      BY <1>1 DEF LoopAt
    <2>2. m \notin T
      BY <1>3, <2>1, DominatesOnce
    <2>3. ASSUME NEW x \in NaturalLoop(m), h \in Chain(idom, x), x # h, NEW p \in Ups(x)
          PROVE  p \in T
      <3>1. x # m
        BY <2>2, <2>3
      <3>2. p \in NaturalLoop(m) /\ x \in Blocks \cap Settling(idom)
        BY <3>1, <1>1 DEF LoopAt
      <3>3. h \in Chain(idom, p)
        BY <2>1, <2>3, <3>2, DominatesUps
      <3> QED BY <3>2, <3>3
    <2>4. Sources(h) \subseteq T
      <3> SUFFICES ASSUME NEW a \in Sources(h) PROVE a \in T
        OBVIOUS
      <3>1. a \in Ups(h)
        BY <1>1 DEF LoopAt
      <3>2. a \in NaturalLoop(m)
        BY <3>1, <1>1, <1>3 DEF LoopAt
      <3>3. h \in Chain(idom, a)
        <4>1. PICK d \in BackEdges : d[2] = h /\ d[1] = a
          BY DEF Sources
        <4> QED BY <4>1, DominatesIs DEF BackEdges
      <3> QED BY <3>2, <3>3
    <2>5. T \in SUBSET Blocks
      BY <1>1 DEF LoopAt
    <2>6. \A x \in T \ {h} : Ups(x) \subseteq T
      BY <2>3
    <2>7. T \subseteq NaturalLoop(m)
      OBVIOUS
    <2> HIDE DEF T
    <2>8. NaturalLoop(h) \subseteq T \cup {h}
      BY <2>4, <2>5, <2>6, <1>1 DEF LoopAt
    <2> QED BY <2>7, <2>8
  <1> QED BY <1>2, <1>3

\* Of two loops that share a block, the one whose header dominates the other's
\* holds that header.
LEMMA LoopsOverlap ==
  ASSUME DomInv, done, NEW h \in Headers, NEW m \in Headers, m \in Chain(idom, h),
         NEW x0 \in NaturalLoop(h) \cap NaturalLoop(m)
  PROVE  h \in NaturalLoop(m)
  <1> SUFFICES ASSUME h \notin NaturalLoop(m) PROVE FALSE
    OBVIOUS
  <1> DEFINE C == NaturalLoop(h) \cap NaturalLoop(m)
             r == [x \in C |-> NodeOrder[x]]
  <1>1. LoopAt(h) /\ LoopAt(m)
    BY LoopIs
  <1>2. /\ Numbered(succ, NodeOrder) /\ Settling(idom) = DOMAIN NodeOrder
        /\ \A n \in DOMAIN NodeOrder \ {VRoot} : Fits(succ, idom, n)
    BY AllFit
  <1>3. Graph(succ) /\ DomTree(succ, idom, NodeOrder) /\ Tree(idom, NodeOrder)
    BY DEF DomInv, DomTree
  <1>4. m \notin NaturalLoop(h)
    <2> SUFFICES ASSUME m \in NaturalLoop(h) PROVE FALSE
      OBVIOUS
    <2>1. h = m
      BY <1>1, DominatesOnce DEF LoopAt
    <2> QED BY <2>1, <1>1 DEF LoopAt
  <1>5. \A x \in C : Ups(x) \subseteq C
    BY <1>1, <1>4 DEF LoopAt
  <1>6. C \subseteq Blocks \cap Settling(idom) /\ x0 \in C /\ h \notin C
    BY <1>1 DEF LoopAt
  <1>7. r \in [C -> Int]
    BY <1>2, <1>6 DEF Numbered
  <1>8. IsFiniteSet(C)
    BY <1>3, <1>6, FS_Subset DEF Tree, Settling
  <1>9. \A x \in C : r[x] = NodeOrder[x]
    OBVIOUS
  <1>a. C \subseteq NaturalLoop(h)
    OBVIOUS
  <1> HIDE DEF C, r
  <1>10. PICK x \in C : \A y \in C : r[x] <= r[y]
    BY <1>6, <1>7, <1>8, LowestRank
  <1>11. x \in Blocks /\ x \in DOMAIN NodeOrder /\ x # VRoot /\ x \in Settling(idom)
    BY <1>2, <1>3, <1>6 DEF Graph, Blocks, VRoot
  <1>12. PICK p \in PredsIn(succ, x) \cap DOMAIN NodeOrder : NodeOrder[p] < NodeOrder[x]
    BY <1>2, <1>11 DEF Numbered
  <1>13. p \notin C
    <2> SUFFICES ASSUME p \in C PROVE FALSE
      OBVIOUS
    <2>1. NodeOrder[x] <= NodeOrder[p] /\ NodeOrder[p] \in Nat /\ NodeOrder[x] \in Nat
      BY <1>2, <1>9, <1>10, <1>11, <1>12 DEF Numbered
    <2> QED BY <2>1, <1>12
  <1>14. p \notin Ups(x)
    BY <1>5, <1>10, <1>13
  <1>15. x \in RootsOf(DOMAIN succ)
    BY <1>2, <1>12, <1>14 DEF PredsIn, Ups, Pred, Blocks
  <1>16. h \in Chain(idom, x) /\ h \in DOMAIN succ /\ h # x
    BY <1>1, <1>6, <1>10, <1>a DEF LoopAt, Blocks
  <1>17. Dom(succ, h, x)
    BY <1>2, <1>3, <1>11, <1>16, ChainsAreDominators
  <1>18. x \in ReachIn(succ, h)
    BY <1>3, <1>15, <1>16, ReachIs DEF IsClosure
  <1> QED BY <1>16, <1>17, <1>18 DEF Dom

LEMMA LoopsApart ==
  ASSUME DomInv, done, NEW h \in Headers, NEW m \in Headers
  PROVE  \/ NaturalLoop(h) \cap NaturalLoop(m) = {}
         \/ NaturalLoop(h) \subseteq NaturalLoop(m) \/ NaturalLoop(m) \subseteq NaturalLoop(h)
  <1> SUFFICES ASSUME NEW x \in NaturalLoop(h), x \in NaturalLoop(m)
               PROVE  NaturalLoop(h) \subseteq NaturalLoop(m) \/ NaturalLoop(m) \subseteq NaturalLoop(h)
    OBVIOUS
  <1>1. LoopAt(h) /\ LoopAt(m) /\ Tree(idom, NodeOrder)
    BY LoopIs DEF DomInv, DomTree
  <1>2. /\ x \in Settling(idom) /\ h \in Chain(idom, x) /\ m \in Chain(idom, x)
        /\ h \in Settling(idom) /\ m \in Settling(idom)
    BY <1>1 DEF LoopAt
  <1>3. NodeOrder[h] \in Nat /\ NodeOrder[m] \in Nat
    BY <1>1, <1>2 DEF Tree
  <1>4. CASE NodeOrder[m] <= NodeOrder[h]
    <2>1. m \in Chain(idom, h)
      BY <1>1, <1>2, <1>4, ChainLinear
    <2>2. h \in NaturalLoop(m)
      BY <2>1, LoopsOverlap
    <2> QED BY <2>2, LoopHolds
  <1>5. CASE NodeOrder[h] <= NodeOrder[m]
    <2>1. h \in Chain(idom, m)
      BY <1>1, <1>2, <1>5, ChainLinear
    <2>2. m \in NaturalLoop(h)
      BY <2>1, LoopsOverlap
    <2> QED BY <2>2, LoopHolds
  <1> QED BY <1>3, <1>4, <1>5

\* The loops that are larger than h's and hold its header.
Outer(h) ==
  {m \in Headers \ {h} : /\ h \in NaturalLoop(m)
                         /\ Cardinality(NaturalLoop(m)) > Cardinality(NaturalLoop(h))}

\* The parent is one of them, if there is any.
LEMMA ParentIs ==
  ASSUME DomInv, done, NEW h \in Headers
  PROVE  IF Outer(h) = {} THEN ParentOf(h) = NoIdom ELSE ParentOf(h) \in Outer(h)
  <1> DEFINE O == Outer(h)
             least == {m \in O : \A o \in O :
                         Cardinality(NaturalLoop(m)) <= Cardinality(NaturalLoop(o))}
             r == [m \in O |-> Cardinality(NaturalLoop(m))]
  <1>1. ParentOf(h) = IF O = {} THEN NoIdom ELSE Min(least)
    BY Zenon DEF ParentOf, Outer
  <1>2. \A m \in Headers : LoopAt(m)
    BY LoopIs
  <1>3. IsFiniteSet(Blocks) /\ Blocks \subseteq Nat
    BY BlocksFinite DEF DomInv
  <1>4. O \subseteq Headers /\ Headers \subseteq Blocks
    BY <1>2 DEF Outer, LoopAt
  <1>5. \A m \in O : Cardinality(NaturalLoop(m)) \in Int
    <2> SUFFICES ASSUME NEW m \in O PROVE Cardinality(NaturalLoop(m)) \in Int
      OBVIOUS
    <2>1. NaturalLoop(m) \subseteq Blocks
      BY <1>2, <1>4 DEF LoopAt
    <2> QED BY <2>1, <1>3, FS_Subset, FS_CardinalityType
  <1>6. IsFiniteSet(O)
    BY <1>3, <1>4, FS_Subset
  <1>7. r \in [O -> Int] /\ \A m \in O : r[m] = Cardinality(NaturalLoop(m))
    BY <1>5
  <1> HIDE DEF r, O
  <1>8. ASSUME O # {} PROVE Min(least) \in O
    <2>1. PICK m \in O : \A o \in O : r[m] <= r[o]
      BY <1>6, <1>7, <1>8, LowestRank
    <2>2. m \in least
      BY <2>1, <1>7
    <2>3. least \subseteq Nat /\ least \subseteq O /\ least # {}
      BY <2>2, <1>3, <1>4
    <2> HIDE DEF least
    <2> QED BY <2>3, MinIs
  <1> QED BY <1>1, <1>8 DEF O

LEMMA LoopsFound ==
  ASSUME DomInv
  PROVE  LoopsNest
  <1> SUFFICES ASSUME done, NEW h \in Headers
               PROVE  /\ \A u \in NaturalLoop(h) : Dominates(h, u)
                      /\ \A m \in Headers :
                           \/ NaturalLoop(h) \cap NaturalLoop(m) = {}
                           \/ NaturalLoop(h) \subseteq NaturalLoop(m)
                           \/ NaturalLoop(m) \subseteq NaturalLoop(h)
                      /\ ParentOf(h) # NoIdom => NaturalLoop(h) \subseteq NaturalLoop(ParentOf(h))
                      /\ \A m \in Headers \ {h} :
                           h \in NaturalLoop(m) /\ m \notin NaturalLoop(h) => ParentOf(h) # NoIdom
    BY Zenon DEF LoopsNest
  <1>1. \A m \in Headers : LoopAt(m)
    BY LoopIs
  <1>2. \A u \in NaturalLoop(h) : Dominates(h, u)
    BY <1>1, DominatesIs DEF LoopAt
  <1>3. ASSUME ParentOf(h) # NoIdom
        PROVE  NaturalLoop(h) \subseteq NaturalLoop(ParentOf(h))
    <2>1. ParentOf(h) \in Headers /\ h \in NaturalLoop(ParentOf(h))
      BY <1>3, ParentIs DEF Outer
    <2> QED BY <2>1, LoopHolds
  <1>4. ASSUME NEW m \in Headers \ {h}, h \in NaturalLoop(m), m \notin NaturalLoop(h)
        PROVE  ParentOf(h) # NoIdom
    <2>1. IsFiniteSet(Blocks) /\ Blocks \subseteq Nat
      BY BlocksFinite DEF DomInv
    <2> DEFINE A == NaturalLoop(h)
               B == NaturalLoop(m)
    <2>2. A \subseteq B /\ B \subseteq Blocks /\ m \in B
      BY <1>1, <1>4, LoopHolds DEF LoopAt
    <2>3. A # B
      BY <2>2, <1>4
    <2> HIDE DEF A, B
    <2>4. IsFiniteSet(B) /\ IsFiniteSet(A)
      BY <2>1, <2>2, FS_Subset
    <2>5. Cardinality(A) <= Cardinality(B) /\ Cardinality(A) # Cardinality(B)
          /\ Cardinality(A) \in Nat /\ Cardinality(B) \in Nat
      BY <2>2, <2>3, <2>4, FS_Subset, FS_CardinalityType
    <2>6. Cardinality(B) > Cardinality(A)
      BY <2>5
    <2>7. m \in Outer(h)
      BY <2>6, <1>4 DEF Outer, A, B
    <2>8. ParentOf(h) \in Outer(h)
      BY <2>7, ParentIs
    <2>9. ParentOf(h) \in Nat
      BY <2>8, <2>1, <1>1 DEF Outer, LoopAt
    <2> QED BY <2>9 DEF NoIdom
  <1> QED BY <1>2, <1>3, <1>4, LoopsApart

\* Whatever the branches of a function, the loops reported of it are entered at
\* their headers only, two of them are disjoint or one holds the other, and the
\* parent of a loop is a loop that holds it: the nesting depth is well defined.
THEOREM LoopsAreNested == GraphSpec => []LoopsNest
  BY SweepsKeepTree, LoopsFound, PTL

(***************************************************************************)
(* What follows an item across pad.                                        *)
(***************************************************************************)
Across(s, i, j) == i < j /\ \A k \in i + 1 .. j - 1 : s[k].cls = "PAD"

LEMMA AfterPad ==
  ASSUME NEW s, NEW i \in Nat, Len(s) \in Nat
  PROVE  /\ After(s, i, "PAD") = 0 <=> \A k \in i + 1 .. Len(s) : s[k].cls = "PAD"
         /\ After(s, i, "PAD") # 0 =>
              /\ After(s, i, "PAD") \in i + 1 .. Len(s)
              /\ s[After(s, i, "PAD")].cls # "PAD"
              /\ \A k \in i + 1 .. After(s, i, "PAD") - 1 : s[k].cls = "PAD"
  <1> DEFINE js == {j \in i + 1 .. Len(s) : s[j].cls # "PAD"}
  <1>1. After(s, i, "PAD") = IF js = {} THEN 0 ELSE Min(js)
    BY DEF After
  <1>2. js \subseteq Nat
    OBVIOUS
  <1>3. CASE js = {}
    BY <1>1, <1>3
  <1>4. CASE js # {}
    <2>1. Min(js) \in js /\ \A x \in js : Min(js) <= x
      <3> HIDE DEF js
      <3> QED BY <1>2, <1>4, MinIs
    <2> DEFINE m == Min(js)
    <2>2. After(s, i, "PAD") = m
      BY <1>1, <1>4
    <2> HIDE DEF m
    <2>3. m \in i + 1 .. Len(s) /\ s[m].cls # "PAD" /\ m # 0
      BY <2>1 DEF m
    <2>4. ASSUME NEW k \in i + 1 .. m - 1 PROVE s[k].cls = "PAD"
      <3>1. k \in i + 1 .. Len(s) /\ ~(m <= k)
        BY <2>3
      <3> QED BY <2>1, <3>1 DEF m
    <2> QED BY <2>2, <2>3, <2>4
  <1> QED BY <1>3, <1>4

LEMMA FallsToIs ==
  ASSUME NEW s, NEW i \in Nat, Len(s) \in Nat, NEW j
  PROVE  j \in FallsTo(s, i) <=> s[i].ft /\ j \in i + 1 .. Len(s) /\ IsCode(s[j]) /\ Across(s, i, j)
  <1> DEFINE a == After(s, i, "PAD")
  <1>1. FallsTo(s, i) = IF s[i].ft /\ a # 0 /\ IsCode(s[a]) THEN {a} ELSE {}
    BY DEF FallsTo
  <1>2. /\ a = 0 <=> \A k \in i + 1 .. Len(s) : s[k].cls = "PAD"
        /\ a # 0 => /\ a \in i + 1 .. Len(s)
                    /\ s[a].cls # "PAD"
                    /\ \A k \in i + 1 .. a - 1 : s[k].cls = "PAD"
    BY AfterPad
  <1> HIDE DEF a
  <1>3. ASSUME j \in FallsTo(s, i)
        PROVE  s[i].ft /\ j \in i + 1 .. Len(s) /\ IsCode(s[j]) /\ Across(s, i, j)
    <2>1. s[i].ft /\ j = a /\ a # 0 /\ IsCode(s[j])
      BY <1>1, <1>3
    <2> QED BY <2>1, <1>2 DEF Across
  <1>4. ASSUME s[i].ft, j \in i + 1 .. Len(s), IsCode(s[j]), Across(s, i, j)
        PROVE  j \in FallsTo(s, i)
    <2>1. s[j].cls # "PAD"
      BY <1>4 DEF IsCode
    <2>2. a # 0 /\ a \in i + 1 .. Len(s) /\ s[a].cls # "PAD"
      BY <1>2, <1>4, <2>1
    <2>3. ~(j < a)
      <3> SUFFICES ASSUME j < a PROVE FALSE
        OBVIOUS
      <3>1. j \in i + 1 .. a - 1
        BY <1>4, <2>2
      <3> QED BY <3>1, <2>1, <2>2, <1>2
    <2>4. ~(a < j)
      <3> SUFFICES ASSUME a < j PROVE FALSE
        OBVIOUS
      <3>1. a \in i + 1 .. j - 1
        BY <1>4, <2>2
      <3> QED BY <3>1, <2>2, <1>4 DEF Across
    <2>5. a = j
      BY <2>2, <2>3, <2>4, <1>4
    <2> QED BY <1>1, <1>4, <2>2, <2>5
  <1> QED BY <1>3, <1>4

LEMMA BeforePad ==
  ASSUME NEW s, NEW i \in Nat \ {0}, NEW j \in Nat, i < j
  PROVE  /\ Before(s, j, "PAD") = i => Across(s, i, j)
         /\ s[i].cls # "PAD" /\ Across(s, i, j) => Before(s, j, "PAD") = i
  <1> DEFINE p == Before(s, j, "PAD")
  <1>1. /\ p \in 0 .. j - 1
        /\ p # 0 => s[p].cls # "PAD"
        /\ \A k \in 1 .. j - 1 : s[k].cls # "PAD" => k <= p
    <2>1. j \in Nat \ {0}
      OBVIOUS
    <2> QED BY ONLY <2>1, BeforeIs
  <1> HIDE DEF p
  <1>2. ASSUME p = i PROVE Across(s, i, j)
    <2> SUFFICES ASSUME NEW k \in i + 1 .. j - 1 PROVE s[k].cls = "PAD"
      BY DEF Across
    <2>1. k \in 1 .. j - 1 /\ ~(k <= p)
      BY <1>2
    <2> QED BY <2>1, <1>1
  <1>3. ASSUME s[i].cls # "PAD", Across(s, i, j) PROVE p = i
    <2>1. i <= p
      BY <1>1, <1>3
    <2>2. ~(i < p)
      <3> SUFFICES ASSUME i < p PROVE FALSE
        OBVIOUS
      <3>1. p \in i + 1 .. j - 1 /\ p # 0
        BY <1>1
      <3> QED BY <3>1, <1>1, <1>3 DEF Across
    <2> QED BY <1>1, <2>1, <2>2
  <1> QED BY <1>2, <1>3 DEF p

(***************************************************************************)
(* The graph of a span against its instructions.                           *)
(***************************************************************************)
NextItems(s) == [i \in DOMAIN s |-> FallsTo(s, i) \cup JumpsTo(s, i)]

LEMMA CodeIs ==
  ASSUME NEW s, Span(s), NEW i \in DOMAIN s, IsCode(s[i])
  PROVE  /\ i \in Nat \ {0} /\ i <= Len(s) /\ s[i].cls # "PAD" /\ BlocksOf(s) \subseteq Nat
         /\ BlockOf(BlocksOf(s), i) \in BlocksOf(s) /\ BlockOf(BlocksOf(s), i) <= i
         /\ BlockOf(BlocksOf(s), i) \in Nat
         /\ \A b \in BlocksOf(s) : b <= i => b <= BlockOf(BlocksOf(s), i)
         /\ i \in BlocksOf(s) => BlockOf(BlocksOf(s), i) = i
  <1> DEFINE B == BlocksOf(s)
  <1>1. i \in Nat \ {0} /\ i <= Len(s) /\ B \subseteq Nat
    BY SpanItems
  <1>2. s[i].cls # "PAD"
    BY DEF IsCode
  <1>3. PICK a \in B : a <= i
    BY CodeHasBlock
  <1> DEFINE b == BlockOf(B, i)
  <1> HIDE DEF B
  <1>4. b \in B /\ b <= i /\ \A c \in B : c <= i => c <= b
    BY <1>1, <1>3, BlockOfIs
  <1> HIDE DEF b
  <1>5. b \in Nat
    BY <1>1, <1>4
  <1>6. i \in B => b = i
    BY <1>1, <1>4, <1>5
  <1> QED BY <1>1, <1>2, <1>4, <1>5, <1>6 DEF b, B

\* Code between that starts no block is in the block of the code before it.
LEMMA SameBlock ==
  ASSUME NEW s, Span(s), NEW i \in DOMAIN s, NEW j \in DOMAIN s, IsCode(s[i]), IsCode(s[j]),
         i < j, Across(s, i, j), j \notin BlocksOf(s)
  PROVE  BlockOf(BlocksOf(s), j) = BlockOf(BlocksOf(s), i)
  <1> DEFINE B == BlocksOf(s)
             a == BlockOf(B, i)
             c == BlockOf(B, j)
  <1>1. /\ i \in Nat \ {0} /\ B \subseteq Nat /\ a \in B /\ a <= i /\ a \in Nat
        /\ \A b \in B : b <= i => b <= a
    BY CodeIs
  <1>2. j \in Nat \ {0} /\ c \in B /\ c <= j /\ c \in Nat /\ \A b \in B : b <= j => b <= c
    BY CodeIs
  <1>3. IsCode(s[c])
    BY <1>2, SpanItems
  <1> HIDE DEF a, c
  <1>4. c # j
    BY <1>2
  <1>5. c <= i
    <2> SUFFICES ASSUME i < c PROVE FALSE
      BY <1>1, <1>2
    <2>1. c \in i + 1 .. j - 1
      BY <1>1, <1>2, <1>4
    <2>2. s[c].cls = "PAD"
      BY <2>1 DEF Across
    <2> QED BY <2>2, <1>3 DEF IsCode
  <1>6. a <= c /\ c <= a
    BY <1>1, <1>2, <1>5
  <1> QED BY <1>6, <1>1, <1>2 DEF a, c

\* What starts no block follows code of its block that goes on to it.
LEMMA InsideBlock ==
  ASSUME NEW s, Span(s), NEW i \in DOMAIN s, IsCode(s[i]), i \notin BlocksOf(s)
  PROVE  \E p \in DOMAIN s : /\ IsCode(s[p]) /\ p < i /\ i \in FallsTo(s, p)
                             /\ BlockOf(BlocksOf(s), p) = BlockOf(BlocksOf(s), i)
  <1> DEFINE p == Before(s, i, "PAD")
  <1>1. i \in Nat \ {0} /\ i <= Len(s) /\ Len(s) \in Nat /\ DOMAIN s = 1 .. Len(s)
    BY CodeIs, SpanItems
  <1>2. ~Breaks(s, i)
    BY DEF BlocksOf
  <1>3. p # 0 /\ IsCode(s[p]) /\ s[p].ft
    <2>1. s[p].ft
      BY <1>2 DEF Breaks
    <2> QED BY <2>1, <1>2 DEF Breaks
  <1>4. p \in 0 .. i - 1
    BY <1>1, BeforeIs
  <1> HIDE DEF p
  <1>5. p \in Nat \ {0} /\ p < i /\ p \in DOMAIN s
    BY <1>1, <1>3, <1>4
  <1>6. Across(s, p, i)
    BY <1>1, <1>5, BeforePad DEF p
  <1>7. BlockOf(BlocksOf(s), i) = BlockOf(BlocksOf(s), p)
    BY <1>3, <1>5, <1>6, SameBlock
  <1>8. i \in p + 1 .. Len(s)
    BY <1>1, <1>5
  <1>9. i \in FallsTo(s, p)
    BY <1>1, <1>3, <1>5, <1>6, <1>8, FallsToIs
  <1> QED BY <1>3, <1>5, <1>7, <1>9

\* A block is left at its end only: what its first item leads to holds all of it.
LEMMA WholeBlock ==
  ASSUME NEW s, Span(s), NEW C, Closed(C, NextItems(s)), NEW b \in BlocksOf(s), b \in C,
         NEW i \in DOMAIN s, IsCode(s[i]), BlockOf(BlocksOf(s), i) = b
  PROVE  i \in C
  <1> DEFINE T == {k \in DOMAIN s : IsCode(s[k]) /\ BlockOf(BlocksOf(s), k) = b /\ k \notin C}
  <1> SUFFICES ASSUME i \notin C PROVE FALSE
    OBVIOUS
  <1>1. i \in T /\ T \in SUBSET Nat
    BY SpanItems
  <1> HIDE DEF T
  <1>2. PICK m \in T : \A n \in T : m <= n
    BY <1>1, LeastNatural
  <1>3. m \in DOMAIN s /\ IsCode(s[m]) /\ BlockOf(BlocksOf(s), m) = b /\ m \notin C /\ m \in Nat
    BY <1>1, <1>2 DEF T
  <1>4. m \notin BlocksOf(s)
    BY <1>3, CodeIs
  <1>5. PICK p \in DOMAIN s : /\ IsCode(s[p]) /\ p < m /\ m \in FallsTo(s, p)
                              /\ BlockOf(BlocksOf(s), p) = b
    BY <1>3, <1>4, InsideBlock
  <1>6. p \in Nat
    BY SpanItems
  <1>7. p \in C
    <2>1. p \notin T
      BY <1>2, <1>3, <1>5, <1>6
    <2> QED BY <2>1, <1>5 DEF T
  <1>8. m \in NextItems(s)[p]
    BY <1>5 DEF NextItems
  <1> QED BY <1>3, <1>7, <1>8 DEF Closed

\* An instruction that branches is its block's last.
LEMMA BranchIsLast ==
  ASSUME NEW s, Span(s), NEW i \in DOMAIN s, IsCode(s[i]), BranchTo(s[i]) # 0
  PROVE  LastOf(s, BlocksOf(s), BlockOf(BlocksOf(s), i)) = i
  <1> DEFINE B == BlocksOf(s)
             b == BlockOf(B, i)
             S == {k \in DOMAIN s : IsCode(s[k]) /\ BlockOf(B, k) = b}
  <1>1. i \in Nat \ {0} /\ i <= Len(s) /\ B \subseteq Nat /\ b <= i /\ b \in Nat /\ s[i].cls # "PAD"
    BY CodeIs
  <1>2. DOMAIN s = 1 .. Len(s) /\ Len(s) \in Nat
    BY SpanItems
  <1> HIDE DEF b
  <1>3. ASSUME NEW k \in S PROVE k <= i
    <2> SUFFICES ASSUME i < k PROVE FALSE
      BY <1>1, <1>2
    <2> DEFINE T == {n \in DOMAIN s : IsCode(s[n]) /\ i < n}
    <2>1. k \in T /\ T \in SUBSET Nat
      BY <1>2
    <2> HIDE DEF T
    <2>2. PICK n \in T : \A m \in T : n <= m
      BY <2>1, LeastNatural
    <2>3. n \in DOMAIN s /\ IsCode(s[n]) /\ i < n /\ n \in Nat \ {0} /\ n <= k
      BY <2>1, <2>2, <1>2 DEF T
    <2> DEFINE p == Before(s, n, "PAD")
    <2>4. /\ p \in 0 .. n - 1
          /\ \A j \in 1 .. n - 1 : s[j].cls # "PAD" => j <= p
      BY <2>3, BeforeIs
    <2> HIDE DEF p
    <2>5. i <= p
      BY <2>3, <2>4, <1>1
    <2>6. n \in B
      <3>1. Breaks(s, n)
        <4>1. CASE p = i
          BY <4>1 DEF Breaks, p
        <4>2. CASE p # i
          <5>1. p \in Nat /\ i < p /\ p < n /\ n <= Len(s)
            BY <2>3, <2>4, <2>5, <4>2, <1>1, <1>2
          <5>2. p \in DOMAIN s /\ ~(n <= p)
            BY <5>1, <2>3, <1>1, <1>2
          <5>3. ~IsCode(s[p])
            BY <5>1, <5>2, <2>2 DEF T
          <5> QED BY <5>3 DEF Breaks, p
        <4> QED BY <4>1, <4>2
      <3> QED BY <3>1, <2>3 DEF BlocksOf
    <2>7. BlockOf(B, k) = b /\ k \in DOMAIN s /\ IsCode(s[k]) /\ \A c \in B : c <= k => c <= BlockOf(B, k)
      BY CodeIs
    <2> HIDE DEF S, B
    <2>8. n <= b
      BY <2>3, <2>6, <2>7
    <2> QED BY <2>3, <2>8, <1>1
  <1>4. i \in S
    BY DEF b
  <1>5. S # {} /\ S \subseteq 0 .. Len(s)
    BY <1>2, <1>4
  <1>6. LastOf(s, B, b) = Max(S)
    BY DEF LastOf
  <1> HIDE DEF S, B
  <1> DEFINE m == Max(S)
  <1>7. m \in S /\ \A x \in S : x <= m
    BY <1>2, <1>5, MaxIs
  <1>8. LastOf(s, B, b) = m
    BY <1>6
  <1> HIDE DEF m
  <1>9. m \in Nat /\ m <= i /\ i <= m
    BY <1>3, <1>4, <1>5, <1>7
  <1>10. m = i
    BY <1>1, <1>9
  <1> QED BY <1>8, <1>10 DEF b, B

\* An instruction that leads to another does so along an edge of the graph,
\* or inside a block.
LEMMA EdgesHold ==
  ASSUME NEW s, Span(s), NEW i \in DOMAIN s, IsCode(s[i]), NEW j \in NextItems(s)[i]
  PROVE  /\ j \in DOMAIN s /\ IsCode(s[j])
         /\ \/ BlockOf(BlocksOf(s), j) = BlockOf(BlocksOf(s), i)
            \/ BlockOf(BlocksOf(s), j) \in BuildBlocks(s)[BlockOf(BlocksOf(s), i)]
  <1> DEFINE B == BlocksOf(s)
             b == BlockOf(B, i)
  <1>1. i \in Nat \ {0} /\ i <= Len(s) /\ b \in B /\ s[i].cls # "PAD"
    BY CodeIs
  <1>2. Len(s) \in Nat /\ DOMAIN s = 1 .. Len(s)
    BY SpanItems
  <1>3. BuildBlocks(s)[b] = FallEdge(s, B, b) \cup JumpEdge(s, B, b)
    BY <1>1 DEF BuildBlocks
  <1>4. CASE j \in FallsTo(s, i)
    <2>1. s[i].ft /\ j \in i + 1 .. Len(s) /\ IsCode(s[j]) /\ Across(s, i, j)
      BY <1>1, <1>2, <1>4, FallsToIs
    <2>2. j \in DOMAIN s /\ j \in Nat /\ i < j
      BY <1>1, <1>2, <2>1
    <2>3. CASE j \in B
      <3>1. Before(s, j, "PAD") = i
        BY <1>1, <2>1, <2>2, BeforePad
      <3>2. FtIn(s, j)
        BY <3>1, <2>1, <1>1 DEF FtIn
      <3>3. j \in FallEdge(s, B, b)
        BY <2>3, <3>1, <3>2 DEF FallEdge
      <3>4. BlockOf(B, j) = j
        BY <2>1, <2>2, <2>3, CodeIs
      <3> QED BY <1>3, <2>1, <2>2, <3>3, <3>4
    <2>4. CASE j \notin B
      BY <2>1, <2>2, <2>4, SameBlock
    <2> QED BY <2>3, <2>4
  <1>5. CASE j \in JumpsTo(s, i)
    <2> DEFINE t == BranchTo(s[i])
    <2>1. j = t /\ t \in DOMAIN s /\ IsCode(s[t])
      BY <1>5 DEF JumpsTo
    <2>2. t \in Entered(s)
      BY DEF Entered
    <2> HIDE DEF t
    <2>3. j \in B
      BY <2>1, <2>2 DEF BlocksOf
    <2>4. t # 0
      BY <2>1, <1>2
    <2>5. LastOf(s, B, b) = i
      BY <2>4, BranchIsLast DEF t
    <2>6. j \in JumpEdge(s, B, b)
      BY <1>5, <2>5 DEF JumpEdge
    <2>7. BlockOf(B, j) = j
      BY <2>1, <2>3, CodeIs
    <2> QED BY <1>3, <2>1, <2>6, <2>7
  <1>6. j \in FallsTo(s, i) \/ j \in JumpsTo(s, i)
    BY DEF NextItems
  <1> QED BY <1>4, <1>5, <1>6

\* What the instructions reach from the first is what the graph reaches.
LEMMA BlocksReached ==
  ASSUME NEW s, Span(s), 1 \in DOMAIN s, IsCode(s[1]),
         NEW C, IsClosure(C, {1}, NextItems(s), DOMAIN s),
         NEW i \in DOMAIN s, IsCode(s[i])
  PROVE  i \in C <=> BlockOf(BlocksOf(s), i) \in ReachIn(BuildBlocks(s), VRoot)
  <1> DEFINE B == BlocksOf(s)
             g == BuildBlocks(s)
             R == ReachIn(g, VRoot)
  <1>1. 1 \in B
    BY DEF BlocksOf, Entered
  <1>2. Graph(g) /\ DOMAIN g = B
    BY <1>1, BlocksMakeGraph
  <1>3. RootsOf(B) \ {VRoot} = {1} /\ VRoot \notin B
    <2>1. RootsOf(B) = {1}
      BY <1>1 DEF RootsOf
    <2>2. VRoot \notin B
      BY <1>2 DEF Graph, VRoot
    <2> QED BY <1>1, <2>1, <2>2
  <1>4. IsClosure(R, {1}, NextIn(g, VRoot), B)
    BY <1>2, <1>3, ReachIs
  <1>5. \A b \in B : NextIn(g, VRoot)[b] = g[b]
    BY <1>2, <1>3 DEF NextIn, Graph
  <1>6. /\ C \subseteq DOMAIN s /\ 1 \in C /\ Closed(C, NextItems(s))
        /\ \A T \in SUBSET DOMAIN s : {1} \subseteq T /\ Closed(T, NextItems(s)) => C \subseteq T
    BY DEF IsClosure
  <1> HIDE DEF g, R
  <1>7. /\ R \subseteq B /\ 1 \in R /\ \A b \in R : g[b] \subseteq R
        /\ \A T \in SUBSET B : 1 \in T /\ (\A b \in T : g[b] \subseteq T) => R \subseteq T
    <2>1. R \subseteq B /\ 1 \in R
      BY <1>4 DEF IsClosure
    <2>2. \A b \in R : g[b] \subseteq R
      BY <1>4, <1>5, <2>1 DEF IsClosure, Closed
    <2>3. ASSUME NEW T \in SUBSET B, 1 \in T, \A b \in T : g[b] \subseteq T PROVE R \subseteq T
      <3>1. Closed(T, NextIn(g, VRoot))
        BY <1>5, <2>3 DEF Closed
      <3> QED BY <1>4, <2>3, <3>1 DEF IsClosure
    <2> QED BY <2>1, <2>2, <2>3
  <1>8. C \subseteq {k \in DOMAIN s : IsCode(s[k]) /\ BlockOf(B, k) \in R}
    <2> DEFINE T == {k \in DOMAIN s : IsCode(s[k]) /\ BlockOf(B, k) \in R}
    <2>1. 1 \in T
      BY <1>1, <1>7, CodeIs
    <2>2. ASSUME NEW x \in T, NEW y \in NextItems(s)[x] PROVE y \in T
      <3>1. x \in DOMAIN s /\ IsCode(s[x]) /\ BlockOf(B, x) \in R
        BY <2>2
      <3>2. /\ y \in DOMAIN s /\ IsCode(s[y])
            /\ BlockOf(B, y) = BlockOf(B, x) \/ BlockOf(B, y) \in g[BlockOf(B, x)]
        BY <3>1, EdgesHold DEF g
      <3>3. BlockOf(B, y) \in R
        BY <3>1, <3>2, <1>7
      <3> QED BY <3>2, <3>3
    <2>3. Closed(T, NextItems(s)) /\ T \in SUBSET DOMAIN s
      BY <2>2 DEF Closed
    <2> HIDE DEF T
    <2>4. C \subseteq T
      BY <1>6, <2>1, <2>3
    <2> QED BY <2>4 DEF T
  <1>9. R \subseteq C
    <2> DEFINE T == {b \in B : b \in C}
    <2>1. 1 \in T /\ T \in SUBSET B
      BY <1>1, <1>6
    <2>2. ASSUME NEW b \in T, NEW c \in g[b] PROVE c \in T
      <3>1. b \in B /\ b \in C
        BY <2>2
      <3>2. c \in FallEdge(s, B, b) \/ c \in JumpEdge(s, B, b)
        BY <3>1, <2>2 DEF g, BuildBlocks
      <3>3. CASE c \in FallEdge(s, B, b)
        <4> DEFINE p == Before(s, c, "PAD")
        <4>1. c \in B /\ FtIn(s, c) /\ BlockOf(B, p) = b
          BY <3>3 DEF FallEdge
        <4>2. c \in DOMAIN s /\ IsCode(s[c]) /\ c \in Nat \ {0} /\ Len(s) \in Nat /\ DOMAIN s = 1 .. Len(s)
          BY <4>1, SpanItems
        <4>3. p # 0 /\ IsCode(s[p]) /\ s[p].ft
          BY <4>1 DEF FtIn
        <4>4. p \in 0 .. c - 1
          BY <4>2, BeforeIs
        <4> HIDE DEF p
        <4>5. p \in Nat \ {0} /\ p < c /\ p \in DOMAIN s
          BY <4>2, <4>3, <4>4
        <4>6. p \in C
          BY <3>1, <4>1, <4>3, <4>5, <1>6, WholeBlock
        <4>7. Across(s, p, c)
          BY <4>2, <4>5, BeforePad DEF p
        <4>8. c \in p + 1 .. Len(s)
          BY <4>2, <4>5
        <4>9. c \in FallsTo(s, p)
          BY <4>2, <4>3, <4>5, <4>7, <4>8, FallsToIs
        <4>10. c \in NextItems(s)[p]
          BY <4>5, <4>9 DEF NextItems
        <4> QED BY <4>1, <4>6, <4>10, <1>6 DEF Closed
      <3>4. CASE c \in JumpEdge(s, B, b)
        <4> DEFINE S == {k \in DOMAIN s : IsCode(s[k]) /\ BlockOf(B, k) = b}
                   m == LastOf(s, B, b)
        <4>1. b \in DOMAIN s /\ IsCode(s[b]) /\ Len(s) \in Nat /\ DOMAIN s = 1 .. Len(s)
          BY <3>1, SpanItems
        <4>2. b \in S
          BY <3>1, <4>1, CodeIs
        <4>3. S # {} /\ S \subseteq 0 .. Len(s)
          BY <4>1, <4>2
        <4>4. m = Max(S)
          BY DEF LastOf
        <4> HIDE DEF S, m
        <4>5. m \in S
          BY <4>1, <4>3, <4>4, MaxIs
        <4>6. m \in DOMAIN s /\ IsCode(s[m]) /\ BlockOf(B, m) = b
          BY <4>5 DEF S
        <4>7. m \in C
          BY <3>1, <4>6, <1>6, WholeBlock
        <4>8. c \in NextItems(s)[m]
          BY <3>4, <4>6 DEF JumpEdge, NextItems, m
        <4>9. c \in B
          BY <3>1, <3>4, JumpsOnce
        <4> QED BY <4>7, <4>8, <4>9, <1>6 DEF Closed
      <3> QED BY <3>2, <3>3, <3>4
    <2> HIDE DEF T
    <2>3. R \subseteq T
      BY <1>7, <2>1, <2>2
    <2> QED BY <2>3 DEF T
  <1>10. ASSUME BlockOf(B, i) \in R PROVE i \in C
    <2>1. BlockOf(B, i) \in B /\ BlockOf(B, i) \in C
      BY <1>7, <1>9, <1>10
    <2> QED BY <2>1, <1>6, WholeBlock
  <1>11. i \in C => BlockOf(B, i) \in R
    BY <1>8
  <1> QED BY <1>10, <1>11 DEF R, g

(***************************************************************************)
(* The instructions against what the processor executes.                   *)
(***************************************************************************)
\* Classified items: pad is run through, and nothing branches into it.
Laid(r) ==
  /\ r \in [1 .. SpanLength -> Rec]
  /\ \A i \in 1 .. SpanLength : r[i].cls = "PAD" => r[i].ft
  /\ \A i, t \in 1 .. SpanLength : IsCode(r[i]) /\ BranchTo(r[i]) = t => r[t].cls # "PAD"

LEMMA ClassifiedAre ==
  ASSUME NEW span \in [1 .. SpanLength -> Items], NEW i \in 1 .. SpanLength
  PROVE  LET c == ClassifyNops(span)[i]
         IN /\ c.ft = span[i].ft /\ c.tgt = span[i].tgt /\ c.call = span[i].call
            /\ span[i].cls # "NOP" => c = span[i]
            /\ span[i].cls = "NOP" /\ Before(span, i, "NOP") + 1 \in Entered(span) => c.cls = "CODE"
  <1> DEFINE inline(k) == LET p == Before(span, k, "NOP")
                              n == After(span, k, "NOP")
                          IN /\ p # 0 /\ IsCode(span[p]) /\ span[p].ft
                             /\ n # 0 /\ IsCode(span[n]) /\ n \notin Entered(span)
             entered(k) == Before(span, k, "NOP") + 1 \in Entered(span)
             class(k) == IF inline(k) \/ entered(k) THEN "CODE" ELSE "PAD"
             c == ClassifyNops(span)[i]
  <1>1. ClassifyNops(span) = [k \in DOMAIN span |->
          IF span[k].cls = "NOP" THEN [span[k] EXCEPT !.cls = class(k)] ELSE span[k]]
    BY Zenon DEF ClassifyNops
  <1>2. span[i] \in Rec /\ i \in DOMAIN span
    BY ItemsAssumption DEF Rec
  <1> HIDE DEF inline, class
  <1>3. c = IF span[i].cls = "NOP" THEN [span[i] EXCEPT !.cls = class(i)] ELSE span[i]
    BY <1>1, <1>2
  <1> HIDE DEF c
  <1>4. entered(i) => class(i) = "CODE"
    BY DEF class
  <1>5. /\ [span[i] EXCEPT !.cls = class(i)].ft = span[i].ft
        /\ [span[i] EXCEPT !.cls = class(i)].tgt = span[i].tgt
        /\ [span[i] EXCEPT !.cls = class(i)].call = span[i].call
        /\ [span[i] EXCEPT !.cls = class(i)].cls = class(i)
    BY <1>2 DEF Rec
  <1>6. c.ft = span[i].ft /\ c.tgt = span[i].tgt /\ c.call = span[i].call
    BY <1>3, <1>5
  <1>7. span[i].cls # "NOP" => c = span[i]
    BY <1>3
  <1>8. span[i].cls = "NOP" /\ entered(i) => c.cls = "CODE"
    BY <1>3, <1>4, <1>5
  <1> QED BY <1>6, <1>7, <1>8 DEF c

LEMMA ClassifiedAreLaid ==
  ASSUME NEW span \in [1 .. SpanLength -> Items], Emitted(span)
  PROVE  Laid(ClassifyNops(span))
  <1> DEFINE r == ClassifyNops(span)
  <1>1. r \in [1 .. SpanLength -> Rec]
    BY ClassifiedIs
  <1>2. \A i \in 1 .. SpanLength :
          /\ r[i].ft = span[i].ft /\ r[i].tgt = span[i].tgt /\ r[i].call = span[i].call
          /\ span[i].cls # "NOP" => r[i] = span[i]
          /\ span[i].cls = "NOP" /\ Before(span, i, "NOP") + 1 \in Entered(span) => r[i].cls = "CODE"
    BY ClassifiedAre
  <1> HIDE DEF r
  <1>3. /\ SpanLength \in Nat \ {0}
        /\ \A i \in 1 .. SpanLength :
             /\ span[i].cls # "PAD" /\ span[i].tgt \in Nat
             /\ span[i].cls # "CODE" => span[i].ft /\ span[i].tgt = 0
    <2>1. SpanLength \in Nat \ {0}
      BY ItemsAssumption
    <2>2. ASSUME NEW i \in 1 .. SpanLength
          PROVE  /\ span[i].cls # "PAD" /\ span[i].tgt \in Nat
                 /\ span[i].cls # "CODE" => span[i].ft /\ span[i].tgt = 0
      <3>1. span[i] \in Items
        OBVIOUS
      <3>2. span[i].cls \in Classes \ {"PAD"} /\ span[i].tgt \in Nat
        BY <3>1, ItemsAssumption
      <3> QED BY <3>1, <3>2, ItemsAssumption
    <2> QED BY <2>1, <2>2
  <1>4. ASSUME NEW i \in 1 .. SpanLength, r[i].cls = "PAD" PROVE span[i].cls = "NOP"
    BY <1>2, <1>3, <1>4
  <1>5. \A i \in 1 .. SpanLength : r[i].cls = "PAD" => r[i].ft
    BY <1>2, <1>3, <1>4
  <1>6. ASSUME NEW i \in 1 .. SpanLength, NEW t \in 1 .. SpanLength,
               IsCode(r[i]), BranchTo(r[i]) = t, r[t].cls = "PAD"
        PROVE  FALSE
    <2>1. BranchTo(span[i]) = t
      BY <1>2, <1>6 DEF BranchTo
    <2>2. span[i].tgt # 0
      BY <2>1, <1>3 DEF BranchTo
    <2>3. IsCode(span[i])
      BY <2>2, <1>3 DEF IsCode
    <2>4. t \in Entered(span)
      BY <2>1, <2>3 DEF Entered
    <2>5. span[t].cls = "NOP"
      BY <1>4, <1>6
    <2> DEFINE p == Before(span, t, "NOP")
    <2>6. p \in 0 .. t - 1 /\ \A j \in 1 .. t - 1 : span[j].cls # "NOP" => j <= p
      <3>1. t \in Nat \ {0}
        BY <1>3
      <3> QED BY <3>1, BeforeIs
    <2> HIDE DEF p
    <2>7. p + 1 = t
      <3>1. CASE t = 1
        BY <3>1, <2>6
      <3>2. CASE t # 1
        <4>1. t \in 2 .. SpanLength
          BY <3>2
        <4>2. span[t - 1].cls # "NOP"
          BY <4>1, <2>4, <2>5 DEF Emitted
        <4>3. t - 1 <= p
          BY <4>1, <4>2, <2>6
        <4> QED BY <4>1, <4>3, <2>6
      <3> QED BY <3>1, <3>2
    <2>8. r[t].cls = "CODE"
      BY <2>4, <2>5, <2>7, <1>2 DEF p
    <2> QED BY <2>8, <1>6
  <1>7. Laid(r)
    BY <1>1, <1>5, <1>6 DEF Laid
  <1> QED BY <1>7 DEF r

LEMMA LaidItems ==
  ASSUME NEW r, Laid(r)
  PROVE  /\ DOMAIN r = 1 .. Len(r) /\ Len(r) = SpanLength /\ SpanLength \in Nat \ {0}
         /\ r \in Seq(Rec) /\ IsFiniteSet(DOMAIN r) /\ Cardinality(DOMAIN r) = Len(r) /\ 1 \in DOMAIN r
         /\ \A i \in DOMAIN r : r[i] \in Rec
  <1>1. SpanLength \in Nat \ {0} /\ r \in [1 .. SpanLength -> Rec]
    BY ItemsAssumption DEF Laid
  <1>2. r \in Seq(Rec) /\ DOMAIN r = 1 .. SpanLength
    BY <1>1
  <1>3. Len(r) = SpanLength
    BY <1>1, <1>2
  <1>4. IsFiniteSet(1 .. SpanLength) /\ Cardinality(1 .. SpanLength) = SpanLength
    BY <1>1, UpTo
  <1> QED BY <1>1, <1>2, <1>3, <1>4

Seen(r) == Closure({1}, NextItems(r), Len(r))

LEMMA LedToIs ==
  ASSUME NEW r, Laid(r), NEW S \in SUBSET DOMAIN r
  PROVE  IsClosure(Closure(S, NextItems(r), Len(r)), S, NextItems(r), DOMAIN r)
  <1> DEFINE X == DOMAIN r
             next == NextItems(r)
             bound == Len(r)
  <1>1. X = 1 .. bound /\ bound \in Nat /\ IsFiniteSet(X) /\ Cardinality(X) <= bound /\ S \in SUBSET X
    BY LaidItems
  <1>2. next \in [X -> SUBSET X]
    <2>1. ASSUME NEW i \in X PROVE FallsTo(r, i) \cup JumpsTo(r, i) \in SUBSET X
      <3>1. JumpsTo(r, i) \subseteq X
        BY DEF JumpsTo
      <3>2. ASSUME NEW j \in FallsTo(r, i) PROVE j \in X
        <4>1. i \in Nat /\ Len(r) \in Nat
          BY <1>1
        <4>2. j \in i + 1 .. Len(r)
          BY <4>1, FallsToIs
        <4> QED BY <4>1, <4>2, <1>1
      <3> QED BY <3>1, <3>2
    <2> QED BY <2>1 DEF NextItems
  <1> HIDE DEF X, next, bound
  <1>3. IsClosure(Closure(S, next, bound), S, next, X)
    BY <1>1, <1>2, ClosureLeast
  <1> QED BY <1>3 DEF X, next, bound

LEMMA SeenIs ==
  ASSUME NEW r, Laid(r)
  PROVE  IsClosure(Seen(r), {1}, NextItems(r), DOMAIN r)
  <1>1. {1} \in SUBSET DOMAIN r
    BY LaidItems
  <1> QED BY <1>1, LedToIs DEF Seen

\* What a function owns goes as far as its entry and its labels lead.
Starts(r) == {1} \cup {i \in Labelled(r) : IsCode(r[i])}
Held(r) == Closure(Starts(r), NextItems(r), Len(r))

LEMMA HeldIs ==
  ASSUME NEW r, Laid(r)
  PROVE  IsClosure(Held(r), Starts(r), NextItems(r), DOMAIN r) /\ Seen(r) \subseteq Held(r)
  <1>1. Starts(r) \in SUBSET DOMAIN r /\ {1} \subseteq Starts(r)
    <2>1. 1 \in DOMAIN r
      BY LaidItems
    <2>2. Labelled(r) \subseteq DOMAIN r
      BY DEF Labelled
    <2> QED BY <2>1, <2>2 DEF Starts
  <1>2. IsClosure(Held(r), Starts(r), NextItems(r), DOMAIN r)
    BY <1>1, LedToIs DEF Held
  <1>3. {1} \subseteq Held(r) /\ Held(r) \in SUBSET DOMAIN r /\ Closed(Held(r), NextItems(r))
    BY <1>1, <1>2 DEF IsClosure
  <1>4. \A U \in SUBSET DOMAIN r : {1} \subseteq U /\ Closed(U, NextItems(r)) => Seen(r) \subseteq U
    BY SeenIs DEF IsClosure
  <1> QED BY <1>2, <1>3, <1>4

\* Where the processor goes from an item.
Goes(r, i) ==
  {j \in DOMAIN r : /\ r[j].cls \in {"CODE", "PAD"}
                    /\ \/ r[i].ft /\ j = i + 1
                       \/ IsCode(r[i]) /\ j = BranchTo(r[i])}
Goings(r) == [i \in DOMAIN r |-> Goes(r, i)]
Runs(r) == Closure({1}, Goings(r), Len(r))

LEMMA ExecutedIs ==
  ASSUME 1 \in DOMAIN recs, IsCode(recs[1])
  PROVE  Executed = Runs(recs)
  <1> DEFINE On(i) == i \in DOMAIN recs /\ recs[i].cls \in {"CODE", "PAD"}
             next == [i \in DOMAIN recs |->
                        {j \in DOMAIN recs : /\ On(j)
                                             /\ \/ recs[i].ft /\ j = i + 1
                                                \/ IsCode(recs[i]) /\ j = BranchTo(recs[i])}]
  <1>1. Executed = IF On(1) THEN Closure({1}, next, Len(recs)) ELSE {}
    BY Zenon DEF Executed
  <1>2. On(1)
    BY DEF IsCode
  <1>3. next = Goings(recs)
    <2>1. \A i \in DOMAIN recs : next[i] = Goes(recs, i)
      BY DEF Goes
    <2>2. next = [i \in DOMAIN recs |-> next[i]]
      OBVIOUS
    <2> HIDE DEF next
    <2> QED BY <2>1, <2>2 DEF Goings
  <1> HIDE DEF On, next
  <1> QED BY <1>1, <1>2, <1>3 DEF Runs

LEMMA RunsIs ==
  ASSUME NEW r, Laid(r)
  PROVE  IsClosure(Runs(r), {1}, Goings(r), DOMAIN r)
  <1> DEFINE X == DOMAIN r
             next == Goings(r)
             S == {1}
             bound == Len(r)
  <1>1. bound \in Nat /\ IsFiniteSet(X) /\ Cardinality(X) <= bound /\ S \in SUBSET X
    BY LaidItems
  <1>2. next \in [X -> SUBSET X]
    BY DEF Goings, Goes
  <1> HIDE DEF X, next, S, bound
  <1>3. IsClosure(Closure(S, next, bound), S, next, X)
    BY <1>1, <1>2, ClosureLeast
  <1> QED BY <1>3 DEF X, next, S, bound, Runs

\* What falls through to an instruction is run through pad up to it.
LEMMA RunsAcross ==
  ASSUME NEW r, Laid(r), NEW C, Closed(C, Goings(r)),
         NEW i \in DOMAIN r, i \in C, NEW j \in FallsTo(r, i)
  PROVE  j \in C
  <1>1. DOMAIN r = 1 .. Len(r) /\ Len(r) \in Nat /\ i \in Nat \ {0} /\ Len(r) = SpanLength
    BY LaidItems
  <1>2. r[i].ft /\ j \in i + 1 .. Len(r) /\ IsCode(r[j]) /\ Across(r, i, j)
    BY <1>1, FallsToIs
  <1> DEFINE T == {k \in i + 1 .. j : k \notin C}
  <1> SUFFICES ASSUME j \notin C PROVE FALSE
    OBVIOUS
  <1>3. j \in T /\ T \in SUBSET Nat
    BY <1>1, <1>2
  <1> HIDE DEF T
  <1>4. PICK k \in T : \A n \in T : k <= n
    BY <1>3, LeastNatural
  <1>5. k \in i + 1 .. j /\ k \notin C
    BY <1>4 DEF T
  <1>6. k - 1 \in C
    <2>1. CASE k = i + 1
      BY <2>1, <1>1
    <2>2. CASE k # i + 1
      <3>1. k - 1 \in i + 1 .. j /\ ~(k <= k - 1)
        BY <2>2, <1>1, <1>2, <1>5
      <3> QED BY <3>1, <1>4 DEF T
    <2> QED BY <2>1, <2>2
  <1>7. k - 1 \in DOMAIN r /\ k \in DOMAIN r /\ k = (k - 1) + 1
    BY <1>1, <1>2, <1>5
  <1>8. r[k - 1].ft
    <2>1. CASE k = i + 1
      <3>1. k - 1 = i
        BY <2>1, <1>1
      <3> QED BY <3>1, <1>2
    <2>2. CASE k # i + 1
      <3>1. k - 1 \in i + 1 .. j - 1
        BY <2>2, <1>1, <1>2, <1>5
      <3>2. r[k - 1].cls = "PAD"
        BY <3>1, <1>2 DEF Across
      <3> QED BY <3>2, <1>1, <1>7 DEF Laid
    <2> QED BY <2>1, <2>2
  <1>9. r[k].cls \in {"CODE", "PAD"}
    <2>1. CASE k = j
      BY <2>1, <1>2 DEF IsCode
    <2>2. CASE k # j
      <3>1. k \in i + 1 .. j - 1
        BY <2>2, <1>1, <1>2, <1>5
      <3> QED BY <3>1, <1>2 DEF Across
    <2> QED BY <2>1, <2>2
  <1>10. k \in Goes(r, k - 1)
    BY <1>7, <1>8, <1>9 DEF Goes
  <1>11. k \in Goings(r)[k - 1]
    BY <1>7, <1>10 DEF Goings
  <1> QED BY <1>5, <1>6, <1>11 DEF Closed

\* The instructions the processor runs are those the span's items lead to.
LEMMA RunsAreSeen ==
  ASSUME NEW r, Laid(r), IsCode(r[1]), NEW i \in DOMAIN r, IsCode(r[i])
  PROVE  i \in Runs(r) <=> i \in Seen(r)
  <1> DEFINE P == {x \in DOMAIN r : r[x].cls = "PAD" /\ \E p \in Seen(r) : r[p].ft /\ Across(r, p, x)}
             T == Seen(r) \cup P
  <1>1. DOMAIN r = 1 .. Len(r) /\ Len(r) = SpanLength /\ Len(r) \in Nat /\ 1 \in DOMAIN r
    BY LaidItems
  <1>2. /\ Seen(r) \subseteq DOMAIN r /\ 1 \in Seen(r) /\ Closed(Seen(r), NextItems(r))
        /\ \A U \in SUBSET DOMAIN r : {1} \subseteq U /\ Closed(U, NextItems(r)) => Seen(r) \subseteq U
    BY SeenIs DEF IsClosure
  <1>3. /\ Runs(r) \subseteq DOMAIN r /\ 1 \in Runs(r) /\ Closed(Runs(r), Goings(r))
        /\ \A U \in SUBSET DOMAIN r : {1} \subseteq U /\ Closed(U, Goings(r)) => Runs(r) \subseteq U
    BY RunsIs DEF IsClosure
  <1>4. \A x \in Seen(r) : IsCode(r[x])
    <2> DEFINE U == {x \in DOMAIN r : IsCode(r[x])}
    <2>1. \A x \in U : NextItems(r)[x] \subseteq U
      <3> SUFFICES ASSUME NEW x \in U, NEW y \in NextItems(r)[x] PROVE y \in U
        OBVIOUS
      <3>1. x \in DOMAIN r /\ x \in Nat
        BY <1>1
      <3>2. y \in FallsTo(r, x) \/ y \in JumpsTo(r, x)
        BY <3>1 DEF NextItems
      <3>3. CASE y \in FallsTo(r, x)
        <4>1. y \in x + 1 .. Len(r) /\ IsCode(r[y])
          BY <3>1, <3>3, <1>1, FallsToIs
        <4>2. y \in DOMAIN r
          BY <4>1, <3>1, <1>1
        <4> QED BY <4>1, <4>2
      <3>4. CASE y \in JumpsTo(r, x)
        BY <3>4 DEF JumpsTo
      <3> QED BY <3>2, <3>3, <3>4
    <2>2. U \in SUBSET DOMAIN r /\ {1} \subseteq U
      BY <1>1
    <2> HIDE DEF U
    <2>3. Seen(r) \subseteq U
      BY <1>2, <2>1, <2>2 DEF Closed
    <2> QED BY <2>3 DEF U
  <1>5. ASSUME NEW x \in Seen(r), NEW y \in DOMAIN r, r[y].cls \in {"CODE", "PAD"},
               r[x].ft, Across(r, x, y)
        PROVE  y \in T
    <2>1. x \in DOMAIN r /\ x \in Nat /\ x < y /\ y \in x + 1 .. Len(r)
      BY <1>1, <1>2, <1>5 DEF Across
    <2>2. CASE IsCode(r[y])
      <3>1. y \in FallsTo(r, x)
        BY <1>1, <1>5, <2>1, <2>2, FallsToIs
      <3>2. y \in NextItems(r)[x]
        BY <2>1, <3>1 DEF NextItems
      <3> QED BY <3>2, <1>2 DEF Closed
    <2>3. CASE ~IsCode(r[y])
      <3>1. r[y].cls = "PAD"
        BY <1>5, <2>3 DEF IsCode
      <3> QED BY <3>1, <1>5
    <2> QED BY <2>2, <2>3
  <1>6. ASSUME NEW x \in T, NEW y \in Goings(r)[x] PROVE y \in T
    <2>1. x \in DOMAIN r /\ x \in Nat
      BY <1>1, <1>2
    <2>2. /\ y \in DOMAIN r /\ r[y].cls \in {"CODE", "PAD"}
          /\ (r[x].ft /\ y = x + 1) \/ (IsCode(r[x]) /\ y = BranchTo(r[x]))
      BY <2>1, <1>6 DEF Goings, Goes
    <2>3. CASE x \in Seen(r)
      <3>1. CASE r[x].ft /\ y = x + 1
        <4>1. x + 1 .. y - 1 = {}
          BY <2>1, <3>1
        <4>2. Across(r, x, y)
          BY <2>1, <3>1, <4>1 DEF Across
        <4> QED BY <1>5, <2>2, <2>3, <3>1, <4>2
      <3>2. CASE y = BranchTo(r[x])
        <4>1. IsCode(r[x])
          BY <1>4, <2>3
        <4>2. r[y].cls # "PAD"
          BY <2>1, <2>2, <3>2, <4>1, <1>1 DEF Laid
        <4>3. IsCode(r[y])
          BY <2>2, <4>2 DEF IsCode
        <4>4. y \in JumpsTo(r, x)
          BY <2>2, <3>2, <4>3 DEF JumpsTo
        <4>5. y \in NextItems(r)[x]
          BY <2>1, <4>4 DEF NextItems
        <4> QED BY <2>3, <4>5, <1>2 DEF Closed
      <3> QED BY <2>2, <3>1, <3>2
    <2>4. CASE x \in P
      <3>1. r[x].cls = "PAD" /\ ~IsCode(r[x])
        BY <2>4 DEF IsCode
      <3>2. PICK p \in Seen(r) : r[p].ft /\ Across(r, p, x)
        BY <2>4
      <3>3. y = x + 1 /\ p \in Nat /\ p < x
        BY <3>1, <3>2, <2>2, <1>1, <1>2 DEF Across
      <3>4. Across(r, p, y)
        <4> SUFFICES ASSUME NEW k \in p + 1 .. y - 1 PROVE r[k].cls = "PAD"
          BY <3>3, <2>1 DEF Across
        <4>1. k = x \/ k \in p + 1 .. x - 1
          BY <3>3, <2>1
        <4> QED BY <4>1, <3>1, <3>2 DEF Across
      <3> QED BY <1>5, <2>2, <3>2, <3>4
    <2> QED BY <2>3, <2>4
  <1>7. T \in SUBSET DOMAIN r /\ {1} \subseteq T
    BY <1>2
  <1>8. i \notin P
    BY DEF IsCode
  <1> HIDE DEF P
  <1>9. Runs(r) \subseteq T
    BY <1>3, <1>6, <1>7 DEF Closed
  <1>10. Seen(r) \subseteq Runs(r)
    <2> DEFINE U == Seen(r) \cap Runs(r)
    <2>1. U \in SUBSET DOMAIN r /\ {1} \subseteq U
      BY <1>2, <1>3
    <2>2. ASSUME NEW x \in U, NEW y \in NextItems(r)[x] PROVE y \in U
      <3>1. x \in DOMAIN r /\ x \in Seen(r) /\ x \in Runs(r) /\ IsCode(r[x])
        BY <1>2, <1>4
      <3>2. y \in Seen(r)
        BY <3>1, <2>2, <1>2 DEF Closed
      <3>3. y \in FallsTo(r, x) \/ y \in JumpsTo(r, x)
        BY <3>1, <2>2 DEF NextItems
      <3>4. CASE y \in FallsTo(r, x)
        <4>1. y \in Runs(r)
          BY <3>1, <3>4, <1>3, RunsAcross
        <4> QED BY <4>1, <3>2
      <3>5. CASE y \in JumpsTo(r, x)
        <4>1. y = BranchTo(r[x]) /\ y \in DOMAIN r /\ IsCode(r[y])
          BY <3>5 DEF JumpsTo
        <4>2. y \in Goes(r, x)
          BY <4>1, <3>1 DEF Goes, IsCode
        <4>3. y \in Goings(r)[x]
          BY <4>2, <3>1 DEF Goings
        <4> QED BY <4>3, <3>1, <3>2, <1>3 DEF Closed
      <3> QED BY <3>3, <3>4, <3>5
    <2>3. Closed(U, NextItems(r))
      BY <2>2 DEF Closed
    <2> HIDE DEF U
    <2>4. Seen(r) \subseteq U
      BY <1>2, <2>1, <2>3
    <2> QED BY <2>4 DEF U
  <1> QED BY <1>8, <1>9, <1>10

LEMMA CutIs ==
  ASSUME NEW R, NEW s \in Seq(R), NEW e \in 0 .. Len(s)
  PROVE  /\ SubSeq(s, 1, e) \in Seq(R) /\ Len(SubSeq(s, 1, e)) = e /\ DOMAIN SubSeq(s, 1, e) = 1 .. e
         /\ \A i \in 1 .. e : SubSeq(s, 1, e)[i] = s[i]
  <1>1. SubSeq(s, 1, e) \in Seq(R) /\ Len(SubSeq(s, 1, e)) = e /\ e \in Nat
    BY PrefixIs
  <1>2. DOMAIN SubSeq(s, 1, e) = 1 .. e
    BY <1>1
  <1>3. \A i \in 1 .. e : SubSeq(s, 1, e)[i] = s[i]
    BY <1>1
  <1> QED BY <1>1, <1>2, <1>3

\* The body is a prefix of the items and holds all that they lead to.
Cuts(r, s) ==
  /\ Span(s) /\ Len(s) \in 1 .. Len(r) /\ DOMAIN s = 1 .. Len(s)
  /\ \A i \in DOMAIN s : s[i] = r[i]
  /\ Seen(r) \subseteq DOMAIN s

LEMMA BodyCuts ==
  ASSUME NEW r, Laid(r), IsCode(r[1])
  PROVE  Cuts(r, Body(r))
  <1> DEFINE n == Len(r)
             seen == Held(r)
             own == Starts(r)
             past == {k \in (Max(seen) + 1) .. n : IsCode(r[k])}
             e == OwnedEnd(r)
             owned == SubSeq(r, 1, e)
             kept == {i \in DOMAIN owned : owned[i].cls \notin {"FILL", "PAD", "GAP"}}
             top == Max(seen)
             m == Max(kept)
             s == Body(r)
  <1>1. DOMAIN r = 1 .. n /\ n \in Nat \ {0} /\ r \in Seq(Rec)
    BY LaidItems
  <1>0. IsClosure(seen, own, NextItems(r), DOMAIN r) /\ Seen(r) \subseteq seen
    BY HeldIs
  <1>own. 1 \in own /\ own \subseteq DOMAIN r /\ \A x \in own : IsCode(r[x])
    BY <1>1 DEF Starts, Labelled
  <1>2. seen \subseteq 1 .. n /\ 1 \in seen /\ \A x \in seen : IsCode(r[x])
    <2>1. seen \subseteq 1 .. n /\ 1 \in seen
      BY <1>0, <1>1, <1>own DEF IsClosure
    <2>2. \A x \in seen : IsCode(r[x])
      <3> SUFFICES ASSUME NEW x \in seen PROVE IsCode(r[x])
        OBVIOUS
      <3>1. seen \subseteq own \cup {y \in 1 .. n : \E p \in seen : y \in NextItems(r)[p]}
        <4> DEFINE U == own \cup {y \in 1 .. n : \E p \in seen : y \in NextItems(r)[p]}
                   V == U \cap seen
        <4>1. /\ Closed(seen, NextItems(r))
              /\ \A W \in SUBSET DOMAIN r : own \subseteq W /\ Closed(W, NextItems(r)) => seen \subseteq W
          BY <1>0 DEF IsClosure
        <4>2. Closed(V, NextItems(r))
          <5> SUFFICES ASSUME NEW p \in V, NEW y \in NextItems(r)[p] PROVE y \in V
            BY DEF Closed
          <5>1. y \in seen
            BY <4>1 DEF Closed
          <5>2. p \in seen /\ y \in 1 .. n
            BY <5>1, <2>1
          <5> QED BY <5>1, <5>2
        <4>3. V \in SUBSET DOMAIN r /\ own \subseteq V
          BY <1>0, <1>1, <2>1 DEF IsClosure
        <4> HIDE DEF V, seen, own
        <4>4. seen \subseteq V
          BY <4>1, <4>2, <4>3
        <4> QED BY <4>4 DEF V
      <3>2. CASE x \in own
        BY <3>2, <1>own
      <3>3. CASE x \notin own
        <4>1. PICK p \in seen : x \in NextItems(r)[p]
          BY <3>1, <3>3
        <4>2. p \in DOMAIN r /\ p \in Nat
          BY <1>1, <2>1
        <4>3. x \in FallsTo(r, p) \/ x \in JumpsTo(r, p)
          BY <4>1, <4>2 DEF NextItems
        <4> QED BY <4>2, <4>3, <1>1, FallsToIs DEF JumpsTo
      <3> QED BY <3>2, <3>3
    <2> QED BY <2>1, <2>2
  <1>3. e = IF ~IsCode(r[1]) THEN n ELSE IF past = {} THEN n ELSE Min(past) - 1
    BY Zenon DEF OwnedEnd, Held, Starts, NextItems
  <1>led. Seen(r) \subseteq seen
    BY <1>0
  <1> HIDE DEF seen, own, e, n
  <1>4. top \in seen /\ \A x \in seen : x <= top
    <2>1. seen \subseteq 0 .. n /\ seen # {}
      BY <1>1, <1>2
    <2> QED BY <2>1, <1>1, MaxIs
  <1> HIDE DEF top
  <1>5. top \in 1 .. n /\ IsCode(r[top])
    BY <1>2, <1>4
  <1>6. past \subseteq top + 1 .. n
    BY DEF top
  <1> HIDE DEF past
  <1>7. e \in top .. n
    <2>1. CASE past = {}
      BY <2>1, <1>1, <1>3, <1>5
    <2>2. CASE past # {}
      <3>1. past \subseteq Nat
        BY <1>5, <1>6
      <3>2. Min(past) \in top + 1 .. n
        BY <2>2, <3>1, <1>6, MinIs
      <3>3. e = Min(past) - 1
        BY <2>2, <1>3
      <3> DEFINE l == Min(past)
      <3> HIDE DEF l
      <3>4. l \in top + 1 .. n /\ e = l - 1
        BY <3>2, <3>3 DEF l
      <3> QED BY <3>4, <1>1, <1>5
    <2> QED BY <2>1, <2>2
  <1>8. /\ owned \in Seq(Rec) /\ Len(owned) = e /\ DOMAIN owned = 1 .. e
        /\ \A i \in 1 .. e : owned[i] = r[i]
    <2>1. e \in 0 .. Len(r)
      BY <1>1, <1>5, <1>7 DEF n
    <2> QED BY <2>1, <1>1, CutIs
  <1>9. s = IF kept = {} THEN <<>> ELSE SubSeq(owned, 1, m)
    BY Zenon DEF Body, e
  <1> HIDE DEF owned, s
  <1>10. top \in kept
    BY <1>5, <1>7, <1>8 DEF IsCode
  <1>11. kept \subseteq 0 .. e /\ e \in Nat /\ kept \subseteq 1 .. e
    BY <1>5, <1>7, <1>8
  <1> HIDE DEF kept
  <1>12. m \in kept /\ top <= m
    BY <1>10, <1>11, MaxIs
  <1> HIDE DEF m
  <1>13. m \in 1 .. e /\ s = SubSeq(owned, 1, m)
    BY <1>9, <1>10, <1>11, <1>12
  <1>14. /\ Len(s) = m /\ DOMAIN s = 1 .. m
         /\ \A i \in 1 .. m : s[i] = owned[i]
    <2>1. m \in 0 .. Len(owned)
      BY <1>8, <1>13
    <2> QED BY <2>1, <1>8, <1>13, CutIs
  <1>15. Span(s)
    BY BodyIsSpan DEF Laid, s
  <1>16. \A i \in 1 .. m : s[i] = r[i]
    BY <1>8, <1>11, <1>13, <1>14
  <1>17. seen \subseteq 1 .. m
    <2> SUFFICES ASSUME NEW x \in seen PROVE x \in 1 .. m
      OBVIOUS
    <2>1. x \in 1 .. n /\ x <= top
      BY <1>2, <1>4
    <2> QED BY <2>1, <1>1, <1>5, <1>11, <1>12, <1>13
  <1>18. m \in 1 .. n
    BY <1>1, <1>5, <1>7, <1>11, <1>13
  <1> QED BY <1>14, <1>15, <1>16, <1>17, <1>18, <1>led DEF Cuts, n, s

\* In the body the items lead where they lead in the span.
LEMMA BodyLeads ==
  ASSUME NEW r, Laid(r), NEW s, Cuts(r, s)
  PROVE  IsClosure(Seen(r), {1}, NextItems(s), DOMAIN s)
  <1>1. /\ DOMAIN r = 1 .. Len(r) /\ Len(r) \in Nat /\ DOMAIN s = 1 .. Len(s) /\ Len(s) \in Nat
        /\ Len(s) <= Len(r) /\ \A i \in DOMAIN s : s[i] = r[i]
    BY LaidItems DEF Cuts
  <1>2. /\ Seen(r) \subseteq DOMAIN s /\ 1 \in Seen(r) /\ Closed(Seen(r), NextItems(r))
        /\ \A U \in SUBSET DOMAIN r : {1} \subseteq U /\ Closed(U, NextItems(r)) => Seen(r) \subseteq U
    BY SeenIs DEF IsClosure, Cuts
  <1>3. ASSUME NEW i \in DOMAIN s, NEW j \in DOMAIN s
        PROVE  j \in NextItems(s)[i] <=> j \in NextItems(r)[i]
    <2>1. i \in Nat /\ j \in Nat /\ i \in DOMAIN r /\ j \in DOMAIN r /\ i # 0 /\ j <= Len(s)
      BY <1>1
    <2>2. \A k \in i + 1 .. j - 1 : s[k] = r[k]
      <3> SUFFICES ASSUME NEW k \in i + 1 .. j - 1 PROVE s[k] = r[k]
        OBVIOUS
      <3>1. k \in DOMAIN s
        BY <1>1, <2>1
      <3> QED BY <3>1, <1>1
    <2>3. s[i] = r[i] /\ s[j] = r[j]
      BY <1>1
    <2>4. Across(s, i, j) <=> Across(r, i, j)
      BY <2>2 DEF Across
    <2>5. j \in FallsTo(s, i) <=> s[i].ft /\ j \in i + 1 .. Len(s) /\ IsCode(s[j]) /\ Across(s, i, j)
      BY <1>1, <2>1, FallsToIs
    <2>6. j \in FallsTo(r, i) <=> r[i].ft /\ j \in i + 1 .. Len(r) /\ IsCode(r[j]) /\ Across(r, i, j)
      BY <1>1, <2>1, FallsToIs
    <2>7. j \in i + 1 .. Len(s) <=> j \in i + 1 .. Len(r)
      BY <1>1, <2>1
    <2>8. j \in FallsTo(s, i) <=> j \in FallsTo(r, i)
      BY <2>3, <2>4, <2>5, <2>6, <2>7
    <2>9. j \in JumpsTo(s, i) <=> j \in JumpsTo(r, i)
      BY <2>1, <2>3 DEF JumpsTo
    <2> QED BY <2>1, <2>8, <2>9 DEF NextItems
  <1>4. ASSUME NEW i \in DOMAIN s PROVE NextItems(s)[i] \subseteq DOMAIN s
    <2> SUFFICES ASSUME NEW j \in NextItems(s)[i] PROVE j \in DOMAIN s
      OBVIOUS
    <2>1. i \in Nat
      BY <1>1
    <2>2. j \in FallsTo(s, i) \/ j \in JumpsTo(s, i)
      BY DEF NextItems
    <2>3. CASE j \in FallsTo(s, i)
      <3>1. j \in i + 1 .. Len(s)
        BY <1>1, <2>1, <2>3, FallsToIs
      <3> QED BY <3>1, <2>1, <1>1
    <2>4. CASE j \in JumpsTo(s, i)
      BY <2>4 DEF JumpsTo
    <2> QED BY <2>2, <2>3, <2>4
  <1>5. Closed(Seen(r), NextItems(s))
    <2> SUFFICES ASSUME NEW i \in Seen(r), NEW j \in NextItems(s)[i] PROVE j \in Seen(r)
      BY DEF Closed
    <2>1. i \in DOMAIN s /\ j \in DOMAIN s
      BY <1>2, <1>4
    <2>2. j \in NextItems(r)[i]
      BY <2>1, <1>3
    <2> QED BY <2>2, <1>2 DEF Closed
  <1>6. ASSUME NEW U \in SUBSET DOMAIN s, {1} \subseteq U, Closed(U, NextItems(s))
        PROVE  Seen(r) \subseteq U
    <2> DEFINE V == U \cap Seen(r)
    <2>1. Closed(V, NextItems(r))
      <3> SUFFICES ASSUME NEW i \in V, NEW j \in NextItems(r)[i] PROVE j \in V
        BY DEF Closed
      <3>1. i \in DOMAIN s /\ j \in Seen(r) /\ j \in DOMAIN s
        BY <1>2 DEF Closed
      <3>2. j \in NextItems(s)[i]
        BY <3>1, <1>3
      <3> QED BY <3>1, <3>2, <1>6 DEF Closed
    <2>2. V \in SUBSET DOMAIN r /\ {1} \subseteq V
      BY <1>1, <1>2, <1>6
    <2> HIDE DEF V
    <2>3. Seen(r) \subseteq V
      BY <1>2, <2>1, <2>2
    <2> QED BY <2>3 DEF V
  <1> QED BY <1>2, <1>5, <1>6 DEF IsClosure

(***************************************************************************)
(* The graph of a function.                                                *)
(***************************************************************************)
\* The items are a span's as the backends emit it, classified; the graph is
\* that of its body.
Analysed ==
  /\ Laid(recs)
  /\ body = Body(recs)
  /\ succ = BuildBlocks(body)

\* The span stays as it was read.
LEMMA StaysAnalysed == GraphSpec => []Analysed
  <1>1. GraphInit => Analysed
    <2> SUFFICES ASSUME GraphInit PROVE Analysed
      OBVIOUS
    <2>1. PICK span \in {s \in [1 .. SpanLength -> Items] : Emitted(s)} : recs = ClassifyNops(span)
      BY DEF GraphInit
    <2>2. Laid(recs)
      BY <2>1, ClassifiedAreLaid
    <2> QED BY <2>2 DEF GraphInit, Analysed
  <1>2. Analysed /\ [GraphNext]_flow => Analysed'
    <2> SUFFICES ASSUME Analysed, [GraphNext]_flow PROVE Analysed'
      OBVIOUS
    <2>1. recs' = recs /\ body' = body /\ succ' = succ
      BY DEF GraphNext, Visit, Swept, flow
    <2> QED BY <2>1 DEF Analysed
  <1> QED BY <1>1, <1>2, PTL DEF GraphSpec

\* GraphFollowsExecution: whatever a function's instructions, its filler and
\* its NOPs are, what can be executed from its entry is what lies in the blocks
\* the graph reaches (classify_nops, owned_end, build_blocks).
THEOREM GraphIsExecution == GraphSpec => []GraphFollowsExecution
  <1>1. ASSUME Analysed PROVE GraphFollowsExecution
    <2> SUFFICES ASSUME IsCode(recs[1])
                 PROVE  {i \in Executed : IsCode(recs[i])}
                          = {i \in DOMAIN body : IsCode(body[i])
                                                 /\ BlockOf(Blocks, i) \in ReachedAvoiding(VRoot)}
      BY DEF GraphFollowsExecution
    <2>1. Laid(recs) /\ Cuts(recs, body)
      BY <1>1, BodyCuts DEF Analysed
    <2>2. /\ Span(body) /\ DOMAIN body = 1 .. Len(body) /\ 1 \in DOMAIN body
          /\ DOMAIN body \subseteq DOMAIN recs /\ Seen(recs) \subseteq DOMAIN body
          /\ \A i \in DOMAIN body : body[i] = recs[i]
      BY <2>1, LaidItems DEF Cuts
    <2>3. Executed = Runs(recs) /\ Runs(recs) \subseteq DOMAIN recs
      BY <2>1, LaidItems, ExecutedIs, RunsIs DEF IsClosure
    <2>4. IsClosure(Seen(recs), {1}, NextItems(body), DOMAIN body)
      BY <2>1, BodyLeads
    <2>5. \A i \in DOMAIN recs : IsCode(recs[i]) => (i \in Executed <=> i \in Seen(recs))
      BY <2>1, <2>3, RunsAreSeen
    <2>6. Blocks = BlocksOf(body) /\ ReachedAvoiding(VRoot) = ReachIn(BuildBlocks(body), VRoot)
      <3>1. succ = BuildBlocks(body)
        BY <1>1 DEF Analysed
      <3>2. Blocks = BlocksOf(body)
        BY <3>1 DEF Blocks, BuildBlocks
      <3> QED BY <3>1, <3>2, ReachedIs
    <2>7. \A i \in DOMAIN body :
            IsCode(body[i]) => (i \in Seen(recs) <=> BlockOf(Blocks, i) \in ReachedAvoiding(VRoot))
      BY <2>2, <2>4, <2>6, BlocksReached
    <2> QED BY <2>2, <2>3, <2>5, <2>7
  <1> QED BY <1>1, StaysAnalysed, PTL
==============================================================================
