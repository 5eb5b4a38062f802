------------------------- MODULE ABExperimentProofs -------------------------
(***************************************************************************)
(* What is proved of the placement A/B driver (ABExperiment), for any arms *)
(* and seed lists, any number of replicates, jobs and sessions, whatever   *)
(* is wrong with the arms, and wherever Ctrl-C or a loss of power cuts the *)
(* sessions short.                                                         *)
(***************************************************************************)
EXTENDS ABExperiment, LeastElements, SequenceTheorems

(***************************************************************************)
(* Sequences.                                                              *)
(***************************************************************************)

\* Appending adds one element.
LEMMA AppendElements ==
  ASSUME NEW S, NEW s \in Seq(S), NEW e \in S
  PROVE  Append(s, e) \in Seq(S) /\ Range(Append(s, e)) = Range(s) \cup {e}
  <1>1. Append(s, e) \in Seq(S) /\ Len(Append(s, e)) = Len(s) + 1
    OBVIOUS
  <1>2. \A i \in 1 .. Len(s) : Append(s, e)[i] = s[i]
    OBVIOUS
  <1>3. Append(s, e)[Len(s) + 1] = e
    OBVIOUS
  <1>4. DOMAIN Append(s, e) = 1 .. Len(s) + 1 /\ DOMAIN s = 1 .. Len(s) /\ Len(s) \in Nat
    BY <1>1
  <1> DEFINE t == Append(s, e)
             n == Len(s)
  <1> HIDE DEF t, n
  <1>5. /\ DOMAIN t = 1 .. n + 1 /\ DOMAIN s = 1 .. n /\ n \in Nat
        /\ t[n + 1] = e /\ \A i \in 1 .. n : t[i] = s[i]
    BY <1>2, <1>3, <1>4 DEF t, n
  <1>6. Range(t) = Range(s) \cup {e}
    <2>1. 1 .. n + 1 = (1 .. n) \cup {n + 1}
      BY <1>5
    <2> QED BY <1>5, <2>1 DEF Range
  <1> QED BY <1>1, <1>6 DEF t

\* Head and Tail take a sequence apart.
LEMMA TailElements ==
  ASSUME NEW S, NEW s \in Seq(S), s # <<>>
  PROVE  /\ Head(s) \in S /\ Tail(s) \in Seq(S)
         /\ Range(s) = {Head(s)} \cup Range(Tail(s))
  <1>1. Head(s) = s[1] /\ s[1] \in S /\ Tail(s) \in Seq(S) /\ Len(s) \in Nat /\ Len(s) # 0
    OBVIOUS
  <1>2. Len(Tail(s)) = Len(s) - 1 /\ \A i \in 1 .. Len(s) - 1 : Tail(s)[i] = s[i + 1]
    OBVIOUS
  <1> DEFINE t == Tail(s)
             n == Len(s)
             h == Head(s)
  <1>3. DOMAIN s = 1 .. n /\ DOMAIN t = 1 .. n - 1
    BY <1>1, <1>2
  <1> HIDE DEF t, n, h
  <1>4. /\ DOMAIN s = 1 .. n /\ DOMAIN t = 1 .. n - 1 /\ n \in Nat /\ n # 0 /\ h = s[1]
        /\ \A i \in 1 .. n - 1 : t[i] = s[i + 1]
    BY <1>1, <1>2, <1>3 DEF t, n, h
  <1>5. Range(s) = {h} \cup Range(t)
    <2>1. ASSUME NEW i \in 1 .. n PROVE s[i] \in {h} \cup Range(t)
      <3>1. CASE i = 1
        BY <3>1, <1>4
      <3>2. CASE i # 1
        <4>1. i - 1 \in 1 .. n - 1 /\ (i - 1) + 1 = i
          BY <3>2, <1>4
        <4>2. t[i - 1] = s[i]
          BY <4>1, <1>4
        <4> QED BY <4>1, <4>2, <1>4 DEF Range
      <3> QED BY <3>1, <3>2
    <2>2. ASSUME NEW i \in 1 .. n - 1 PROVE t[i] \in Range(s)
      <3>1. i + 1 \in 1 .. n
        BY <1>4
      <3> QED BY <3>1, <1>4 DEF Range
    <2>3. h \in Range(s)
      <3>1. 1 \in 1 .. n
        BY <1>4
      <3> QED BY <3>1, <1>4 DEF Range
    <2> QED BY <2>1, <2>2, <2>3, <1>4 DEF Range
  <1> QED BY <1>1, <1>5 DEF t, h

\* Joining two sequences joins their elements.
LEMMA JoinElements ==
  ASSUME NEW S, NEW s \in Seq(S), NEW t \in Seq(S)
  PROVE  s \o t \in Seq(S) /\ Range(s \o t) = Range(s) \cup Range(t)
  <1> DEFINE u == s \o t
             m == Len(s)
             n == Len(t)
  <1>1. u \in Seq(S) /\ DOMAIN u = 1 .. m + n /\ DOMAIN s = 1 .. m /\ DOMAIN t = 1 .. n
        /\ m \in Nat /\ n \in Nat
    OBVIOUS
  <1>2. \A i \in 1 .. m + n : u[i] = IF i <= m THEN s[i] ELSE t[i - m]
    OBVIOUS
  <1> HIDE DEF u, m, n
  <1>3. ASSUME NEW i \in 1 .. m + n PROVE u[i] \in Range(s) \cup Range(t)
    <2>1. CASE i <= m
      <3>1. i \in 1 .. m
        BY <1>1, <2>1
      <3> QED BY <3>1, <2>1, <1>1, <1>2 DEF Range
    <2>2. CASE ~(i <= m)
      <3>1. i - m \in 1 .. n
        BY <1>1, <2>2
      <3> QED BY <3>1, <2>2, <1>1, <1>2 DEF Range
    <2> QED BY <2>1, <2>2
  <1>4. ASSUME NEW i \in 1 .. m PROVE s[i] \in Range(u)
    <2>1. i \in 1 .. m + n /\ i <= m
      BY <1>1
    <2> QED BY <2>1, <1>1, <1>2 DEF Range
  <1>5. ASSUME NEW i \in 1 .. n PROVE t[i] \in Range(u)
    <2>1. i + m \in 1 .. m + n /\ ~(i + m <= m) /\ (i + m) - m = i
      BY <1>1
    <2>2. u[i + m] = t[i]
      BY <2>1, <1>2
    <2> QED BY <2>1, <2>2, <1>1 DEF Range
  <1>6. Range(u) = Range(s) \cup Range(t)
    BY <1>1, <1>3, <1>4, <1>5 DEF Range
  <1> QED BY <1>1, <1>6 DEF u

\* Appending an element that is not there keeps the elements distinct.
LEMMA AppendDistinct ==
  ASSUME NEW S, NEW s \in Seq(S), NEW e \in S, IsInjective(s), e \notin Range(s)
  PROVE  IsInjective(Append(s, e))
  <1> DEFINE t == Append(s, e)
             n == Len(s)
  <1>1. /\ DOMAIN t = 1 .. n + 1 /\ DOMAIN s = 1 .. n /\ n \in Nat
        /\ t[n + 1] = e /\ \A i \in 1 .. n : t[i] = s[i]
    OBVIOUS
  <1> HIDE DEF t, n
  <1>2. ASSUME NEW i \in 1 .. n + 1, NEW j \in 1 .. n + 1, t[i] = t[j] PROVE i = j
    <2>1. \A m \in 1 .. n : t[m] # e
      BY <1>1 DEF Range
    <2>2. \A m \in 1 .. n + 1 : m = n + 1 \/ m \in 1 .. n
      BY <1>1
    <2>3. CASE i = n + 1 \/ j = n + 1
      BY <1>1, <1>2, <2>1, <2>2, <2>3
    <2>4. CASE i \in 1 .. n /\ j \in 1 .. n
      BY <1>1, <1>2, <2>4 DEF IsInjective
    <2> QED BY <2>2, <2>3, <2>4
  <1>3. IsInjective(t)
    BY <1>1, <1>2 DEF IsInjective
  <1> QED BY <1>3 DEF t

\* Joining sequences with no element in common keeps the elements distinct.
LEMMA JoinDistinct ==
  ASSUME NEW S, NEW s \in Seq(S), NEW t \in Seq(S), IsInjective(s), IsInjective(t),
         Range(s) \cap Range(t) = {}
  PROVE  IsInjective(s \o t)
  <1> DEFINE u == s \o t
             m == Len(s)
             n == Len(t)
  <1>1. DOMAIN u = 1 .. m + n /\ DOMAIN s = 1 .. m /\ DOMAIN t = 1 .. n /\ m \in Nat /\ n \in Nat
    OBVIOUS
  <1>2. \A i \in 1 .. m + n : u[i] = IF i <= m THEN s[i] ELSE t[i - m]
    OBVIOUS
  <1> HIDE DEF u, m, n
  <1>3. \A i \in 1 .. m + n : (i <= m => i \in 1 .. m) /\ (~(i <= m) => i - m \in 1 .. n)
    BY <1>1
  <1>4. ASSUME NEW i \in 1 .. m + n, NEW j \in 1 .. m + n, u[i] = u[j] PROVE i = j
    <2>1. CASE i <= m /\ j <= m
      BY <2>1, <1>1, <1>2, <1>3, <1>4 DEF IsInjective
    <2>2. CASE ~(i <= m) /\ ~(j <= m)
      <3>1. i - m = j - m
        BY <2>2, <1>1, <1>2, <1>3, <1>4 DEF IsInjective
      <3> QED BY <3>1, <1>1
    <2>3. CASE i <= m /\ ~(j <= m)
      <3>1. u[i] \in Range(s) /\ u[j] \in Range(t)
        BY <2>3, <1>1, <1>2, <1>3 DEF Range
      <3> QED BY <3>1, <1>4
    <2>4. CASE ~(i <= m) /\ j <= m
      <3>1. u[j] \in Range(s) /\ u[i] \in Range(t)
        BY <2>4, <1>1, <1>2, <1>3 DEF Range
      <3> QED BY <3>1, <1>4
    <2> QED BY <2>1, <2>2, <2>3, <2>4
  <1>5. IsInjective(u)
    BY <1>1, <1>4 DEF IsInjective
  <1> QED BY <1>5 DEF u

\* The function Sift is defined by, which takes the elements at the
\* positions in turn.
SiftSteps(s, at, f) ==
  f = [n \in 0 .. Len(s) |->
         IF n = 0 THEN <<>> ELSE IF n \in at THEN Append(f[n - 1], s[n]) ELSE f[n - 1]]

\* What is known of that function.
SiftRule(s, at, g) ==
  /\ Sift(s, at) = g[Len(s)]
  /\ \A n \in 0 .. Len(s) :
       g[n] = IF n = 0 THEN <<>> ELSE IF n \in at THEN Append(g[n - 1], s[n]) ELSE g[n - 1]

\* It exists.
LEMMA SiftDefined ==
  ASSUME NEW S, NEW s \in Seq(S), NEW at
  PROVE  \E g : SiftRule(s, at, g)
  <1> DEFINE N == Len(s)
             G == [n \in 1 .. N |->
                     [u \in Seq(S) |-> IF n \in at THEN Append(u, s[n]) ELSE u]]
  <1>1. N \in Nat /\ DOMAIN s = 1 .. N /\ <<>> \in Seq(S)
    OBVIOUS
  <1>2. \A n \in 1 .. N : s[n] \in S
    OBVIOUS
  <1>3. G \in [1 .. N -> [Seq(S) -> Seq(S)]]
    <2>1. ASSUME NEW n \in 1 .. N, NEW u \in Seq(S)
          PROVE  (IF n \in at THEN Append(u, s[n]) ELSE u) \in Seq(S)
      BY <1>2
    <2> QED BY <2>1
  <1>4. \E f : SiftSteps(s, at, f)
    <2> HIDE DEF N, G
    <2> DEFINE V == Seq(S)
               e == <<>>
    <2>a. N \in Nat /\ e \in V /\ G \in [1 .. N -> [V -> V]]
      BY <1>1, <1>3
    <2>b. \E f \in [0 .. N -> V] : f[0] = e /\ \A n \in 1 .. N : f[n] = G[n][f[n - 1]]
      <3>1. Stepwise(N, V, e, G)
        <4> HIDE DEF V, e
        <4> QED BY <2>a, StepByStep
      <3> HIDE DEF V, e
      <3> QED BY <3>1 DEF Stepwise
    <2>1. PICK f \in [0 .. N -> Seq(S)] : f[0] = <<>> /\ \A n \in 1 .. N : f[n] = G[n][f[n - 1]]
      BY <2>b
    <2>2. ASSUME NEW n \in 0 .. N
          PROVE  f[n] = IF n = 0 THEN <<>> ELSE IF n \in at THEN Append(f[n - 1], s[n]) ELSE f[n - 1]
      <3>1. CASE n = 0
        BY <2>1, <3>1
      <3>2. CASE n # 0
        <4>1. n \in 1 .. N /\ n - 1 \in 0 .. N
          BY <3>2, <1>1
        <4>2. f[n - 1] \in Seq(S) /\ f[n] = G[n][f[n - 1]]
          BY <4>1, <2>1
        <4>3. G[n][f[n - 1]] = IF n \in at THEN Append(f[n - 1], s[n]) ELSE f[n - 1]
          BY <4>1, <4>2 DEF G
        <4> QED BY <3>2, <4>2, <4>3
      <3> QED BY <3>1, <3>2
    <2>3. f = [n \in 0 .. N |->
                 IF n = 0 THEN <<>> ELSE IF n \in at THEN Append(f[n - 1], s[n]) ELSE f[n - 1]]
      BY <2>1, <2>2
    <2> QED BY <2>3 DEF SiftSteps, N
  <1> DEFINE g == CHOOSE f : SiftSteps(s, at, f)
  <1>5. Sift(s, at) = g[N]
    BY Zenon DEF Sift, SiftSteps
  <1>6. SiftSteps(s, at, g)
    BY <1>4, Zenon
  <1> HIDE DEF g, N, G
  <1>7. \A n \in 0 .. N :
          g[n] = IF n = 0 THEN <<>> ELSE IF n \in at THEN Append(g[n - 1], s[n]) ELSE g[n - 1]
    <2> DEFINE h == [n \in 0 .. N |->
                 IF n = 0 THEN <<>> ELSE IF n \in at THEN Append(g[n - 1], s[n]) ELSE g[n - 1]]
    <2>1. g = h
      BY <1>6 DEF SiftSteps, N
    <2>2. \A n \in 0 .. N : h[n] = IF n = 0 THEN <<>> ELSE IF n \in at THEN Append(g[n - 1], s[n]) ELSE g[n - 1]
      OBVIOUS
    <2> HIDE DEF h
    <2> QED BY <2>1, <2>2
  <1>8. SiftRule(s, at, g)
    BY <1>5, <1>7 DEF SiftRule, N
  <1> QED BY <1>8

\* The elements at some positions are distinct.
DistinctAt(s, at) == \A i, j \in DOMAIN s \cap at : s[i] = s[j] => i = j

\* Sift keeps the elements at the positions, and no other, each as often as it
\* is at one of them.
LEMMA SiftElements ==
  ASSUME NEW S, NEW s \in Seq(S), NEW at
  PROVE  /\ Sift(s, at) \in Seq(S)
         /\ Range(Sift(s, at)) = {s[i] : i \in DOMAIN s \cap at}
         /\ DistinctAt(s, at) => IsInjective(Sift(s, at))
  <1> DEFINE N == Len(s)
  <1>1. N \in Nat /\ DOMAIN s = 1 .. N /\ <<>> \in Seq(S)
    OBVIOUS
  <1>2. \A n \in 1 .. N : s[n] \in S
    OBVIOUS
  <1>3. PICK g : SiftRule(s, at, g)
    BY SiftDefined
  <1>5. Sift(s, at) = g[N]
    BY <1>3 DEF SiftRule
  <1>7. \A n \in 0 .. N :
          g[n] = IF n = 0 THEN <<>> ELSE IF n \in at THEN Append(g[n - 1], s[n]) ELSE g[n - 1]
    BY <1>3 DEF SiftRule
  <1> HIDE DEF N
  <1> DEFINE Right(n) == /\ g[n] \in Seq(S) /\ Range(g[n]) = {s[i] : i \in (1 .. n) \cap at}
                         /\ DistinctAt(s, at) => IsInjective(g[n])
             T == {n \in 0 .. N : ~Right(n)}
  <1>8. N \notin T
    <2> SUFFICES ASSUME N \in T PROVE FALSE
      OBVIOUS
    <2>1. PICK n \in T : \A m \in T : n <= m
      <3>1. T \in SUBSET Nat
        BY <1>1
      <3> HIDE DEF T
      <3> QED BY <3>1, LeastNatural
    <2>2. n \in 0 .. N /\ ~Right(n)
      OBVIOUS
    <2>3. n # 0
      <3>1. 0 \in 0 .. N
        BY <1>1
      <3>2. g[0] = <<>>
        BY <1>7, <3>1
      <3>3. Range(<<>>) = {} /\ (1 .. 0) = {}
        BY DEF Range
      <3>4. Right(0)
        <4>1. IsInjective(<<>>)
          BY DEF IsInjective
        <4> QED BY <1>1, <3>2, <3>3, <4>1
      <3> HIDE DEF Right
      <3> QED BY <2>2, <3>4
    <2>4. n \in 1 .. N /\ n - 1 \in 0 .. N /\ ~(n <= n - 1)
      BY <2>2, <2>3, <1>1
    <2>5. Right(n - 1)
      <3>1. n - 1 \notin T
        <4> HIDE DEF T
        <4> QED BY <2>1, <2>4
      <3> QED BY <3>1, <2>4
    <2>6. g[n] = IF n \in at THEN Append(g[n - 1], s[n]) ELSE g[n - 1]
      BY <1>7, <2>4, <2>3
    <2>7. 1 .. n = (1 .. n - 1) \cup {n}
      BY <2>4, <1>1
    <2>8. CASE n \in at
      <3>1. g[n] = Append(g[n - 1], s[n]) /\ s[n] \in S
        BY <2>6, <2>8, <2>4, <1>2 DEF N
      <3> DEFINE q == g[n - 1]
      <3>2. q \in Seq(S) /\ Range(q) = {s[i] : i \in (1 .. n - 1) \cap at}
        BY <2>5
      <3> HIDE DEF q
      <3>3. Append(q, s[n]) \in Seq(S) /\ Range(Append(q, s[n])) = Range(q) \cup {s[n]}
        BY <3>1, <3>2, AppendElements
      <3>4. Range(q) \cup {s[n]} = {s[i] : i \in (1 .. n) \cap at}
        BY <2>7, <2>8, <3>2
      <3>5. g[n] = Append(q, s[n])
        BY <3>1 DEF q
      <3>6. ASSUME DistinctAt(s, at) PROVE IsInjective(Append(q, s[n]))
        <4>1. IsInjective(q)
          BY <2>5, <3>6 DEF q
        <4>2. s[n] \notin Range(q)
          <5>1. \A i \in (1 .. n - 1) \cap at : i \in DOMAIN s /\ i # n
            BY <2>4, <1>1
          <5> QED BY <5>1, <2>4, <2>8, <3>2, <3>6, <1>1 DEF DistinctAt
        <4> QED BY <4>1, <4>2, <3>1, <3>2, AppendDistinct
      <3> QED BY <2>2, <3>3, <3>4, <3>5, <3>6
    <2>9. CASE n \notin at
      <3>1. g[n] = g[n - 1]
        BY <2>6, <2>9
      <3>2. {s[i] : i \in (1 .. n) \cap at} = {s[i] : i \in (1 .. n - 1) \cap at}
        BY <2>7, <2>9
      <3> QED BY <2>2, <2>5, <3>1, <3>2
    <2> QED BY <2>8, <2>9
  <1>9. Right(N)
    BY <1>8, <1>1
  <1> QED BY <1>9, <1>5, <1>1

\* The function FlattenSeq is defined by, which joins the sequences in turn.
FlattenSteps(ss, f) ==
  f = [i \in 1 .. Len(ss) |-> IF i = 1 THEN ss[i] ELSE f[i - 1] \o ss[i]]

\* What is known of that function.
FlattenRule(ss, g) ==
  /\ FlattenSeq(ss) = g[Len(ss)]
  /\ \A n \in 1 .. Len(ss) : g[n] = IF n = 1 THEN ss[n] ELSE g[n - 1] \o ss[n]

\* It exists.
LEMMA FlattenDefined ==
  ASSUME NEW S, NEW ss \in Seq(Seq(S)), Len(ss) # 0
  PROVE  \E g : FlattenRule(ss, g)
  <1> DEFINE N == Len(ss)
             G == [n \in 1 .. N |-> [u \in Seq(S) |-> u \o ss[n]]]
  <1>a. N \in Nat /\ DOMAIN ss = 1 .. N /\ <<>> \in Seq(S)
    OBVIOUS
  <1>b. \A n \in 1 .. N : ss[n] \in Seq(S)
    OBVIOUS
  <1>c. N # 0
    OBVIOUS
  <1>1. G \in [1 .. N -> [Seq(S) -> Seq(S)]]
    <2>1. ASSUME NEW n \in 1 .. N, NEW u \in Seq(S)
          PROVE  u \o ss[n] \in Seq(S)
      BY <1>b
    <2> QED BY <2>1
  <1>2. \E f : FlattenSteps(ss, f)
    <2> HIDE DEF N, G
    <2> DEFINE V == Seq(S)
               z == <<>>
    <2>a. N \in Nat /\ z \in V /\ G \in [1 .. N -> [V -> V]]
      BY <1>a, <1>1
    <2>b. \E f \in [0 .. N -> V] : f[0] = z /\ \A n \in 1 .. N : f[n] = G[n][f[n - 1]]
      <3>1. Stepwise(N, V, z, G)
        <4> HIDE DEF V, z
        <4> QED BY <2>a, StepByStep
      <3> HIDE DEF V, z
      <3> QED BY <3>1 DEF Stepwise
    <2>1. PICK f \in [0 .. N -> Seq(S)] : f[0] = <<>> /\ \A n \in 1 .. N : f[n] = G[n][f[n - 1]]
      BY <2>b
    <2> DEFINE e == [i \in 1 .. N |-> f[i]]
    <2>2. ASSUME NEW n \in 1 .. N
          PROVE  f[n] = IF n = 1 THEN ss[n] ELSE e[n - 1] \o ss[n]
      <3>1. n - 1 \in 0 .. N
        BY <1>a
      <3>2. f[n - 1] \in Seq(S) /\ f[n] = f[n - 1] \o ss[n] /\ ss[n] \in Seq(S)
        BY <3>1, <2>1, <1>b DEF G, N
      <3>3. CASE n = 1
        <4>1. f[n] = <<>> \o ss[n]
          <5>1. n - 1 = 0
            BY <3>3
          <5>2. f[n - 1] = <<>>
            BY <5>1, <2>1
          <5> HIDE DEF e
          <5> QED BY <3>2, <5>2
        <4>2. <<>> \o ss[n] = ss[n]
          BY <3>2
        <4> QED BY <3>3, <4>1, <4>2
      <3>4. CASE n # 1
        <4>1. n - 1 \in 1 .. N
          BY <3>4, <1>a
        <4>2. e[n - 1] = f[n - 1]
          BY <4>1
        <4> QED BY <3>2, <3>4, <4>2
      <3> QED BY <3>3, <3>4
    <2>3. \A n \in 1 .. N : e[n] = IF n = 1 THEN ss[n] ELSE e[n - 1] \o ss[n]
      <3>1. \A n \in 1 .. N : e[n] = f[n]
        OBVIOUS
      <3> HIDE DEF e
      <3> QED BY <3>1, <2>2
    <2>4. e = [i \in 1 .. N |-> IF i = 1 THEN ss[i] ELSE e[i - 1] \o ss[i]]
      <3>1. e = [i \in 1 .. N |-> e[i]]
        OBVIOUS
      <3> HIDE DEF e
      <3> QED BY <3>1, <2>3
    <2> HIDE DEF e
    <2> QED BY <2>4 DEF FlattenSteps, N
  <1> DEFINE g == CHOOSE f : FlattenSteps(ss, f)
  <1>3. FlattenSeq(ss) = g[N]
    BY <1>c, Zenon DEF FlattenSeq, FlattenSteps
  <1>4. FlattenSteps(ss, g)
    BY <1>2, Zenon
  <1> HIDE DEF g, N, G
  <1>5. \A n \in 1 .. N : g[n] = IF n = 1 THEN ss[n] ELSE g[n - 1] \o ss[n]
    <2> DEFINE h == [n \in 1 .. N |-> IF n = 1 THEN ss[n] ELSE g[n - 1] \o ss[n]]
    <2>1. g = h
      BY <1>4 DEF FlattenSteps, N
    <2>2. \A n \in 1 .. N : h[n] = IF n = 1 THEN ss[n] ELSE g[n - 1] \o ss[n]
      OBVIOUS
    <2> HIDE DEF h
    <2> QED BY <2>1, <2>2
  <1>6. FlattenRule(ss, g)
    BY <1>3, <1>5 DEF FlattenRule, N
  <1> QED BY <1>6

\* Sequences with distinct elements, and none in common.
Apart(ss) ==
  /\ \A i \in DOMAIN ss : IsInjective(ss[i])
  /\ \A i, j \in DOMAIN ss : i # j => Range(ss[i]) \cap Range(ss[j]) = {}

\* FlattenSeq has the elements of all the sequences, and no other, each as
\* often as they do.
LEMMA FlattenElements ==
  ASSUME NEW S, NEW ss \in Seq(Seq(S))
  PROVE  /\ FlattenSeq(ss) \in Seq(S)
         /\ Range(FlattenSeq(ss)) = UNION {Range(ss[i]) : i \in DOMAIN ss}
         /\ Apart(ss) => IsInjective(FlattenSeq(ss))
  <1> DEFINE N == Len(ss)
  <1>1. N \in Nat /\ DOMAIN ss = 1 .. N /\ <<>> \in Seq(S)
    OBVIOUS
  <1>2. \A n \in 1 .. N : ss[n] \in Seq(S)
    OBVIOUS
  <1>3. CASE N = 0
    <2>1. FlattenSeq(ss) = ss /\ ss = <<>>
      BY <1>3 DEF FlattenSeq
    <2>2. Range(<<>>) = {}
      BY DEF Range
    <2>3. UNION {Range(ss[i]) : i \in DOMAIN ss} = {}
      BY <1>1, <1>3
    <2>4. IsInjective(<<>>)
      BY DEF IsInjective
    <2> QED BY <2>1, <2>2, <2>3, <2>4
  <1>4. CASE N # 0
    <2>1. PICK g : FlattenRule(ss, g)
      BY <1>4, FlattenDefined
    <2>3. FlattenSeq(ss) = g[N]
      BY <2>1 DEF FlattenRule
    <2>5. \A n \in 1 .. N : g[n] = IF n = 1 THEN ss[n] ELSE g[n - 1] \o ss[n]
      BY <2>1 DEF FlattenRule
    <2> HIDE DEF N
    <2> DEFINE Right(n) == /\ g[n] \in Seq(S) /\ Range(g[n]) = UNION {Range(ss[i]) : i \in 1 .. n}
                           /\ Apart(ss) => IsInjective(g[n])
               T == {n \in 1 .. N : ~Right(n)}
    <2>6. N \notin T
      <3> SUFFICES ASSUME N \in T PROVE FALSE
        OBVIOUS
      <3>1. PICK n \in T : \A m \in T : n <= m
        <4>1. T \in SUBSET Nat
          BY <1>1
        <4> HIDE DEF T
        <4> QED BY <4>1, LeastNatural
      <3>2. n \in 1 .. N /\ ~Right(n)
        OBVIOUS
      <3>3. n # 1
        <4>1. 1 \in 1 .. N
          BY <1>1, <1>4
        <4>2. g[1] = ss[1] /\ ss[1] \in Seq(S)
          BY <2>5, <4>1, <1>2 DEF N
        <4>3. 1 .. 1 = {1}
          OBVIOUS
        <4>4. UNION {Range(ss[i]) : i \in 1 .. 1} = Range(ss[1])
          BY <4>3
        <4>5. Right(1)
          BY <4>1, <4>2, <4>4, <1>1 DEF Apart
        <4> HIDE DEF Right
        <4> QED BY <3>2, <4>5
      <3>4. n - 1 \in 1 .. N /\ ~(n <= n - 1)
        BY <3>2, <3>3, <1>1
      <3>5. Right(n - 1)
        <4>1. n - 1 \notin T
          <5> HIDE DEF T
          <5> QED BY <3>1, <3>4
        <4> QED BY <4>1, <3>4
      <3>6. g[n] = g[n - 1] \o ss[n] /\ ss[n] \in Seq(S)
        BY <2>5, <3>2, <3>3, <1>2 DEF N
      <3>7. 1 .. n = (1 .. n - 1) \cup {n}
        BY <3>2, <1>1
      <3> DEFINE q == g[n - 1]
      <3>8. q \in Seq(S) /\ Range(q) = UNION {Range(ss[i]) : i \in 1 .. n - 1}
        BY <3>5
      <3>9. g[n] = q \o ss[n]
        BY <3>6
      <3> HIDE DEF q
      <3>10. q \o ss[n] \in Seq(S) /\ Range(q \o ss[n]) = Range(q) \cup Range(ss[n])
        BY <3>6, <3>8, JoinElements
      <3>11. Range(q) \cup Range(ss[n]) = UNION {Range(ss[i]) : i \in 1 .. n}
        BY <3>7, <3>8
      <3>12. ASSUME Apart(ss) PROVE IsInjective(q \o ss[n])
        <4>1. IsInjective(q) /\ IsInjective(ss[n])
          BY <3>2, <3>5, <3>12, <1>1 DEF q, Apart
        <4>2. Range(q) \cap Range(ss[n]) = {}
          <5>1. \A i \in 1 .. n - 1 : i \in DOMAIN ss /\ i # n
            BY <3>2, <1>1
          <5>2. \A i \in 1 .. n - 1 : Range(ss[i]) \cap Range(ss[n]) = {}
            BY <5>1, <3>2, <3>12, <1>1 DEF Apart
          <5> QED BY <5>2, <3>8
        <4> QED BY <4>1, <4>2, <3>6, <3>8, JoinDistinct
      <3> QED BY <3>2, <3>9, <3>10, <3>11, <3>12
    <2>7. Right(N)
      BY <2>6, <1>1, <1>4
    <2> QED BY <2>3, <2>7, <1>1
  <1> QED BY <1>3, <1>4

\* A log: a sequence, whatever its rows.
IsLog(s) == s \in Seq(Range(s))

\* A sequence of anything is a log.
LEMMA SeqIsLog ==
  ASSUME NEW S, NEW t \in Seq(S)
  PROVE  IsLog(t)
  <1>1. Len(t) \in Nat /\ DOMAIN t = 1 .. Len(t) /\ t = [i \in 1 .. Len(t) |-> t[i]]
    OBVIOUS
  <1>2. \A i \in 1 .. Len(t) : t[i] \in Range(t)
    BY <1>1 DEF Range
  <1>3. t \in Seq(Range(t))
    BY <1>1, <1>2
  <1> QED BY <1>3 DEF IsLog

(***************************************************************************)
(* The elements of a sequence that are in a set, in their order.           *)
(***************************************************************************)
On(s, B) == Sift(s, {i \in DOMAIN s : s[i] \in B})

\* A set of sequences that has the empty one, and each of its own with any
\* element appended, has all: induction, for properties stated as sets.
LEMMA ByAppending ==
  ASSUME NEW S, NEW P \in SUBSET Seq(S), <<>> \in P,
         \A s \in P, e \in S : Append(s, e) \in P
  PROVE  P = Seq(S)
  <1> DEFINE T == {n \in Nat : \E s \in Seq(S) : s \notin P /\ Len(s) = n}
  <1> SUFFICES ASSUME NEW s \in Seq(S), s \notin P PROVE FALSE
    OBVIOUS
  <1>1. Len(s) \in T
    BY LenProperties
  <1>2. PICK n \in T : \A m \in T : n <= m
    <2>1. T \in SUBSET Nat
      OBVIOUS
    <2> HIDE DEF T
    <2> QED BY <1>1, <2>1, LeastNatural
  <1>3. PICK t \in Seq(S) : t \notin P /\ Len(t) = n
    OBVIOUS
  <1>4. PICK u \in Seq(S), e \in S : t = Append(u, e)
    <2>1. t # <<>>
      BY <1>3
    <2> QED BY <2>1, SequenceEmptyOrAppend
  <1>5. u \notin P /\ Len(t) = Len(u) + 1 /\ Len(u) \in Nat
    BY <1>3, <1>4, AppendProperties, LenProperties
  <1>6. n = Len(u) + 1 /\ Len(u) \in Nat
    BY <1>3, <1>5
  <1>7. Len(u) \in T
    BY <1>5
  <1> HIDE DEF T
  <1>8. ~(n <= Len(u))
    BY <1>6
  <1> QED BY <1>2, <1>7, <1>8

\* What Sift does at the end of a sequence.
LEMMA SiftAppend ==
  ASSUME NEW S, NEW s \in Seq(S), NEW e \in S, NEW at, NEW was,
         \A i \in DOMAIN s : i \in at <=> i \in was
  PROVE  Sift(Append(s, e), at)
           = IF Len(s) + 1 \in at THEN Append(Sift(s, was), e) ELSE Sift(s, was)
  <1> DEFINE t == Append(s, e)
             n == Len(s)
  <1>1. /\ t \in Seq(S) /\ Len(t) = n + 1 /\ n \in Nat /\ DOMAIN s = 1 .. n
        /\ t[n + 1] = e /\ \A i \in 1 .. n : t[i] = s[i]
    BY AppendProperties, LenProperties
  <1> HIDE DEF t
  <1>2. PICK g : SiftRule(t, at, g)
    BY <1>1, SiftDefined
  <1>3. PICK h : SiftRule(s, was, h)
    BY SiftDefined
  <1> HIDE DEF n
  <1>4. /\ Sift(t, at) = g[n + 1]
        /\ \A m \in 0 .. n + 1 :
             g[m] = IF m = 0 THEN <<>> ELSE IF m \in at THEN Append(g[m - 1], t[m]) ELSE g[m - 1]
    BY <1>1, <1>2 DEF SiftRule
  <1>5. /\ Sift(s, was) = h[n]
        /\ \A m \in 0 .. n :
             h[m] = IF m = 0 THEN <<>> ELSE IF m \in was THEN Append(h[m - 1], s[m]) ELSE h[m - 1]
    BY <1>3 DEF SiftRule, n
  <1> DEFINE T == {m \in 0 .. n : g[m] # h[m]}
  <1>6. T = {}
    <2> SUFFICES ASSUME NEW x \in T PROVE FALSE
      OBVIOUS
    <2>1. PICK m \in T : \A k \in T : m <= k
      <3>1. T \in SUBSET Nat
        BY <1>1
      <3> HIDE DEF T
      <3> QED BY <3>1, LeastNatural
    <2>2. m \in 0 .. n /\ g[m] # h[m]
      OBVIOUS
    <2>3. m \in 0 .. n + 1 /\ m # 0
      BY <2>2, <1>1, <1>4, <1>5
    <2>4. m - 1 \in 0 .. n /\ ~(m <= m - 1) /\ m \in 1 .. n
      BY <2>2, <2>3, <1>1
    <2>5. g[m - 1] = h[m - 1]
      <3>1. m - 1 \notin T
        <4> HIDE DEF T
        <4> QED BY <2>1, <2>4
      <3> QED BY <3>1, <2>4
    <2>6. (m \in at <=> m \in was) /\ t[m] = s[m]
      BY <2>4, <1>1
    <2>7. g[m] = IF m \in at THEN Append(g[m - 1], t[m]) ELSE g[m - 1]
      BY <2>3, <1>4
    <2>8. h[m] = IF m \in was THEN Append(h[m - 1], s[m]) ELSE h[m - 1]
      BY <2>2, <2>3, <1>5
    <2> HIDE DEF T
    <2> QED BY <2>2, <2>5, <2>6, <2>7, <2>8
  <1>7. g[n] = h[n]
    BY <1>1, <1>6
  <1>8. n + 1 \in 0 .. n + 1 /\ n + 1 # 0 /\ (n + 1) - 1 = n
    BY <1>1
  <1>9. g[n + 1] = IF n + 1 \in at THEN Append(g[n], e) ELSE g[n]
    BY <1>1, <1>4, <1>8
  <1> QED BY <1>4, <1>5, <1>7, <1>9 DEF t, n

\* Sets that differ in none of the elements pick the same.
LEMMA OnSame ==
  ASSUME NEW s, NEW B, NEW C, \A x \in Range(s) : x \in B <=> x \in C
  PROVE  On(s, B) = On(s, C)
  <1>1. {i \in DOMAIN s : s[i] \in B} = {i \in DOMAIN s : s[i] \in C}
    BY DEF Range
  <1> QED BY <1>1, Zenon DEF On

\* What On picks is a sequence of the elements in the set.
LEMMA OnElements ==
  ASSUME NEW S, NEW B
  PROVE  /\ On(<<>>, B) = <<>>
         /\ \A s \in Seq(S) : On(s, B) \in Seq(S)
         /\ \A s \in Seq(S) : Range(On(s, B)) = Range(s) \cap B
  <1>1. On(<<>>, B) = <<>>
    <2> DEFINE at == {i \in DOMAIN <<>> : <<>>[i] \in B}
               z == <<>>
    <2>1. z \in Seq(S) /\ Len(z) = 0
      BY EmptySeq
    <2>2. On(z, B) = Sift(z, at)
      BY Zenon DEF On
    <2> HIDE DEF at, z
    <2>3. PICK g : SiftRule(z, at, g)
      BY <2>1, SiftDefined
    <2>4. 0 \in 0 .. 0
      OBVIOUS
    <2>5. Sift(z, at) = <<>>
      BY <2>1, <2>3, <2>4 DEF SiftRule
    <2> QED BY <2>2, <2>5 DEF z
  <1>2. ASSUME NEW s \in Seq(S) PROVE On(s, B) \in Seq(S) /\ Range(On(s, B)) = Range(s) \cap B
    <2> DEFINE at == {i \in DOMAIN s : s[i] \in B}
    <2>1. On(s, B) = Sift(s, at)
      BY Zenon DEF On
    <2>2. {s[i] : i \in DOMAIN s \cap at} = Range(s) \cap B
      BY DEF Range
    <2> HIDE DEF at
    <2> QED BY <2>1, <2>2, SiftElements
  <1> QED BY <1>1, <1>2

\* It grows as the sequence does.
LEMMA OnAppend ==
  ASSUME NEW S, NEW s \in Seq(S), NEW e \in S, NEW B
  PROVE  On(Append(s, e), B) = IF e \in B THEN Append(On(s, B), e) ELSE On(s, B)
  <1> DEFINE t == Append(s, e)
             n == Len(s)
             at == {i \in DOMAIN t : t[i] \in B}
             was == {i \in DOMAIN s : s[i] \in B}
  <1>1. /\ DOMAIN t = 1 .. n + 1 /\ n \in Nat /\ DOMAIN s = 1 .. n
        /\ t[n + 1] = e /\ \A i \in 1 .. n : t[i] = s[i]
    BY AppendProperties, LenProperties
  <1>2. On(t, B) = Sift(t, at) /\ On(s, B) = Sift(s, was)
    BY Zenon DEF On
  <1> HIDE DEF t, n
  <1>3. \A i \in DOMAIN s : i \in at <=> i \in was
    BY <1>1
  <1>4. n + 1 \in at <=> e \in B
    BY <1>1
  <1> HIDE DEF at, was
  <1>5. Sift(t, at) = IF n + 1 \in at THEN Append(Sift(s, was), e) ELSE Sift(s, was)
    BY <1>3, SiftAppend DEF t, n
  <1> QED BY <1>2, <1>4, <1>5 DEF t

\* A set with all of the elements picks all, one with none of them picks none.
LEMMA OnAllOrNone ==
  ASSUME NEW S, NEW s \in Seq(S), NEW B
  PROVE  /\ Range(s) \subseteq B => On(s, B) = s
         /\ Range(s) \cap B = {} => On(s, B) = <<>>
  <1> DEFINE Right(t) == /\ Range(t) \subseteq B => On(t, B) = t
                         /\ Range(t) \cap B = {} => On(t, B) = <<>>
             P == {t \in Seq(S) : Right(t)}
  <1>1. <<>> \in P
    BY OnElements, EmptySeq
  <1>2. ASSUME NEW t \in P, NEW e \in S PROVE Append(t, e) \in P
    <2>1. t \in Seq(S) /\ Right(t)
      OBVIOUS
    <2>2. Append(t, e) \in Seq(S) /\ Range(Append(t, e)) = Range(t) \cup {e}
      BY <2>1, AppendElements
    <2>3. On(Append(t, e), B) = IF e \in B THEN Append(On(t, B), e) ELSE On(t, B)
      BY <2>1, OnAppend
    <2> QED BY <2>1, <2>2, <2>3
  <1>3. P = Seq(S)
    <2>1. P \in SUBSET Seq(S)
      OBVIOUS
    <2> HIDE DEF P
    <2> QED BY <1>1, <1>2, <2>1, ByAppending
  <1> QED BY <1>3

\* What On picks from two sequences joined.
LEMMA OnJoin ==
  ASSUME NEW S, NEW B
  PROVE  \A s, t \in Seq(S) : On(s \o t, B) = On(s, B) \o On(t, B)
  <1> SUFFICES ASSUME NEW s \in Seq(S), NEW t \in Seq(S) PROVE On(s \o t, B) = On(s, B) \o On(t, B)
    OBVIOUS
  <1> DEFINE P == {u \in Seq(S) : On(s \o u, B) = On(s, B) \o On(u, B)}
  <1>0. On(s, B) \in Seq(S)
    BY OnElements
  <1>1. <<>> \in P
    <2>1. On(<<>>, B) = <<>> /\ <<>> \in Seq(S)
      BY OnElements, EmptySeq
    <2>2. s \o <<>> = s /\ On(s, B) \o <<>> = On(s, B)
      BY <1>0, ConcatEmptySeq
    <2> QED BY <2>1, <2>2
  <1>2. ASSUME NEW u \in P, NEW e \in S PROVE Append(u, e) \in P
    <2>1. u \in Seq(S) /\ On(s \o u, B) = On(s, B) \o On(u, B)
      OBVIOUS
    <2> HIDE DEF P
    <2>2. On(u, B) \in Seq(S) /\ s \o u \in Seq(S) /\ <<e>> \in Seq(S) /\ Append(u, e) \in Seq(S)
      BY <2>1, OnElements, ConcatProperties, AppendProperties
    <2>3. s \o Append(u, e) = Append(s \o u, e)
      BY <2>1, <2>2, AppendIsConcat, ConcatAssociative
    <2>4. On(s, B) \o Append(On(u, B), e) = Append(On(s, B) \o On(u, B), e)
      <3>1. On(s, B) \o On(u, B) \in Seq(S)
        BY <1>0, <2>2, ConcatProperties
      <3> QED BY <3>1, <1>0, <2>2, AppendIsConcat, ConcatAssociative
    <2>5. On(Append(u, e), B) = IF e \in B THEN Append(On(u, B), e) ELSE On(u, B)
      BY <2>1, OnAppend
    <2>6. On(Append(s \o u, e), B) = IF e \in B THEN Append(On(s \o u, B), e) ELSE On(s \o u, B)
      BY <2>2, OnAppend
    <2>7. On(s \o Append(u, e), B) = On(s, B) \o On(Append(u, e), B)
      BY <2>1, <2>3, <2>4, <2>5, <2>6
    <2> QED BY <2>2, <2>7 DEF P
  <1>3. P = Seq(S)
    <2>1. P \in SUBSET Seq(S)
      OBVIOUS
    <2> HIDE DEF P
    <2> QED BY <1>1, <1>2, <2>1, ByAppending
  <1> QED BY <1>3

\* Picking twice picks what is in both sets.
LEMMA OnTwice ==
  ASSUME NEW S, NEW s \in Seq(S), NEW B, NEW C
  PROVE  On(On(s, B), C) = On(s, B \cap C)
  <1> DEFINE P == {u \in Seq(S) : On(On(u, B), C) = On(u, B \cap C)}
  <1>1. <<>> \in P
    BY OnElements, EmptySeq
  <1>2. ASSUME NEW u \in P, NEW e \in S PROVE Append(u, e) \in P
    <2>1. u \in Seq(S) /\ On(On(u, B), C) = On(u, B \cap C)
      OBVIOUS
    <2> HIDE DEF P
    <2>2. On(u, B) \in Seq(S) /\ Append(u, e) \in Seq(S)
      BY <2>1, OnElements, AppendProperties
    <2>3. On(Append(u, e), B) = IF e \in B THEN Append(On(u, B), e) ELSE On(u, B)
      BY <2>1, OnAppend
    <2>4. On(Append(On(u, B), e), C) = IF e \in C THEN Append(On(On(u, B), C), e) ELSE On(On(u, B), C)
      BY <2>2, OnAppend
    <2>5. On(Append(u, e), B \cap C) = IF e \in B \cap C THEN Append(On(u, B \cap C), e) ELSE On(u, B \cap C)
      BY <2>1, OnAppend
    <2>6. On(On(Append(u, e), B), C) = On(Append(u, e), B \cap C)
      <3>1. CASE e \notin B
        BY <3>1, <2>1, <2>3, <2>5
      <3>2. CASE e \in B /\ e \notin C
        <4>1. On(Append(u, e), B) = Append(On(u, B), e)
          BY <3>2, <2>3
        <4>2. On(Append(On(u, B), e), C) = On(On(u, B), C) /\ On(Append(u, e), B \cap C) = On(u, B \cap C)
          BY <3>2, <2>4, <2>5
        <4> QED BY <4>1, <4>2, <2>1
      <3>3. CASE e \in B /\ e \in C
        <4>1. On(Append(u, e), B) = Append(On(u, B), e)
          BY <3>3, <2>3
        <4>2. /\ On(Append(On(u, B), e), C) = Append(On(On(u, B), C), e)
              /\ On(Append(u, e), B \cap C) = Append(On(u, B \cap C), e)
          BY <3>3, <2>4, <2>5
        <4> QED BY <4>1, <4>2, <2>1
      <3> QED BY <3>1, <3>2, <3>3
    <2> QED BY <2>2, <2>6 DEF P
  <1>3. P = Seq(S)
    <2>1. P \in SUBSET Seq(S)
      OBVIOUS
    <2> HIDE DEF P
    <2> QED BY <1>1, <1>2, <2>1, ByAppending
  <1> QED BY <1>3

\* A set with the elements of one of several sequences, and of no other, picks
\* that one when they are joined.
LEMMA OnFlatten ==
  ASSUME NEW S, NEW ss \in Seq(Seq(S)), NEW B, NEW one \in DOMAIN ss, Range(ss[one]) \subseteq B,
         \A i \in DOMAIN ss : i # one => Range(ss[i]) \cap B = {}
  PROVE  On(FlattenSeq(ss), B) = ss[one]
  <1> DEFINE N == Len(ss)
  <1>1. N \in Nat /\ DOMAIN ss = 1 .. N /\ N # 0 /\ \A i \in 1 .. N : ss[i] \in Seq(S)
    OBVIOUS
  <1>2. PICK g : FlattenRule(ss, g)
    BY <1>1, FlattenDefined
  <1>3. /\ FlattenSeq(ss) = g[N]
        /\ \A n \in 1 .. N : g[n] = IF n = 1 THEN ss[n] ELSE g[n - 1] \o ss[n]
    BY <1>2 DEF FlattenRule
  <1>4. \A i \in 1 .. N : On(ss[i], B) = IF i = one THEN ss[one] ELSE <<>>
    BY <1>1, OnAllOrNone
  <1>5. \A q, u \in Seq(S) : On(q \o u, B) = On(q, B) \o On(u, B)
    BY OnJoin
  <1> HIDE DEF N
  <1> DEFINE Right(n) == g[n] \in Seq(S) /\ On(g[n], B) = IF n < one THEN <<>> ELSE ss[one]
             T == {n \in 1 .. N : ~Right(n)}
  <1>6. T = {}
    <2> SUFFICES ASSUME NEW x \in T PROVE FALSE
      OBVIOUS
    <2>1. PICK n \in T : \A m \in T : n <= m
      <3>1. T \in SUBSET Nat
        BY <1>1
      <3> HIDE DEF T
      <3> QED BY <3>1, LeastNatural
    <2>2. n \in 1 .. N /\ ~Right(n) /\ one \in 1 .. N
      BY <1>1
    <2>3. CASE n = 1
      <3>1. g[n] = ss[n] /\ ss[n] \in Seq(S)
        BY <2>2, <2>3, <1>1, <1>3
      <3>2. n < one <=> n # one
        BY <2>2, <2>3, <1>1
      <3> QED BY <3>1, <3>2, <2>2, <1>4
    <2>4. CASE n # 1
      <3>1. n - 1 \in 1 .. N /\ ~(n <= n - 1)
        BY <2>2, <2>4, <1>1
      <3>2. Right(n - 1)
        <4>1. n - 1 \notin T
          <5> HIDE DEF T
          <5> QED BY <2>1, <3>1
        <4> QED BY <4>1, <3>1
      <3>3. g[n] = g[n - 1] \o ss[n] /\ ss[n] \in Seq(S)
        BY <2>2, <2>4, <1>1, <1>3
      <3> DEFINE q == g[n - 1]
                 u == ss[n]
      <3>4. q \in Seq(S) /\ u \in Seq(S) /\ g[n] = q \o u
        BY <3>2, <3>3
      <3>5. On(q, B) = IF n - 1 < one THEN <<>> ELSE ss[one]
        BY <3>2
      <3>6. On(u, B) = IF n = one THEN ss[one] ELSE <<>>
        BY <1>4, <2>2
      <3> HIDE DEF q, u, T, Right
      <3>7. q \o u \in Seq(S) /\ On(q \o u, B) = On(q, B) \o On(u, B)
        <4>1. q \in Seq(S) /\ u \in Seq(S)
          BY <3>4
        <4>2. q \o u \in Seq(S)
          BY <4>1, ConcatProperties
        <4>3. On(q \o u, B) = On(q, B) \o On(u, B)
          BY <4>1, <1>5, Zenon
        <4> QED BY <4>2, <4>3
      <3>8. ss[one] \o <<>> = ss[one] /\ <<>> \o ss[one] = ss[one] /\ <<>> \o <<>> = <<>>
        BY <1>1, <2>2, ConcatEmptySeq, EmptySeq
      <3>9. On(q, B) \o On(u, B) = IF n < one THEN <<>> ELSE ss[one]
        <4>1. (n - 1 < one <=> n <= one) /\ (n < one <=> n <= one /\ n # one)
          BY <2>2, <1>1
        <4>2. CASE n = one
          BY <4>1, <4>2, <3>5, <3>6, <3>8, <2>2
        <4>3. CASE n # one
          BY <4>1, <4>3, <3>5, <3>6, <3>8
        <4> QED BY <4>2, <4>3
      <3>10. Right(n)
        BY <3>4, <3>7, <3>9 DEF Right
      <3> QED BY <2>2, <3>10
    <2> QED BY <2>3, <2>4
  <1>7. Right(N)
    <2>1. N \in 1 .. N
      BY <1>1
    <2> QED BY <2>1, <1>6
  <1>8. ~(N < one)
    BY <1>1
  <1> QED BY <1>3, <1>7, <1>8

(***************************************************************************)
(* Every round runs every arm once in each replicate.                      *)
(***************************************************************************)

\* A row of the schedule: each of k arms at one of k positions.
IsOrder(k, s) ==
  /\ s \in [1 .. k -> 0 .. k - 1]
  /\ \A p, q \in 1 .. k : s[p] = s[q] => p = q
  /\ \A a \in 0 .. k - 1 : \E p \in 1 .. k : s[p] = a

\* The remainder of a number below twice the divisor.
LEMMA Wraps ==
  ASSUME NEW k \in Nat \ {0}, NEW x \in 0 .. 2 * k - 1
  PROVE  x % k = IF x < k THEN x ELSE x - k
  OBVIOUS

\* The first row of the Williams square has every arm once
\* (schedule.williams).
LEMMA FirstRowIsOrder ==
  ASSUME NEW k \in Nat \ {0}
  PROVE  IsOrder(k, FirstRow(k))
  <1> DEFINE s == FirstRow(k)
             half(p) == p \div 2
             low(p) == (p - 1) \div 2
  <1>1. ASSUME NEW p \in 1 .. k, p % 2 = 0
        PROVE  s[p] = half(p) /\ half(p) \in 1 .. k /\ 2 * half(p) = p
    BY <1>1 DEF FirstRow
  <1>2. ASSUME NEW p \in 1 .. k, p % 2 # 0
        PROVE  /\ low(p) \in 0 .. k - 1 /\ 2 * low(p) + 1 = p
               /\ s[p] = IF low(p) = 0 THEN 0 ELSE k - low(p)
    <2>1. low(p) \in 0 .. k - 1 /\ 2 * low(p) + 1 = p
      BY <1>2
    <2>2. s[p] = (k - low(p)) % k
      BY <1>2 DEF FirstRow
    <2> HIDE DEF low
    <2> DEFINE x == k - low(p)
    <2>3. x \in 0 .. 2 * k - 1 /\ x <= k /\ (x = k => low(p) = 0) /\ (x < k => low(p) # 0)
      BY <2>1
    <2> HIDE DEF x
    <2>4. x % k = IF x < k THEN x ELSE x - k
      BY <2>3, Wraps
    <2>5. CASE low(p) = 0
      <3>1. x = k
        BY <2>5, <2>1 DEF x
      <3> QED BY <2>1, <2>2, <2>4, <2>5, <3>1 DEF x
    <2>6. CASE low(p) # 0
      <3>1. x < k
        BY <2>6, <2>1 DEF x
      <3> QED BY <2>1, <2>2, <2>4, <2>6, <3>1 DEF x
    <2> QED BY <2>5, <2>6
  <1>3. DOMAIN s = 1 .. k /\ s = [p \in 1 .. k |-> s[p]]
    BY DEF FirstRow
  <1> HIDE DEF s, half, low
  <1>4. \A p \in 1 .. k : s[p] \in 0 .. k - 1
    <2> SUFFICES ASSUME NEW p \in 1 .. k PROVE s[p] \in 0 .. k - 1
      OBVIOUS
    <2>1. CASE p % 2 = 0
      <3>1. half(p) < k
        BY <1>1, <2>1
      <3> QED BY <1>1, <2>1, <3>1
    <2>2. CASE p % 2 # 0
      BY <1>2, <2>2
    <2> QED BY <2>1, <2>2
  <1>5. ASSUME NEW p \in 1 .. k, NEW q \in 1 .. k, s[p] = s[q]
        PROVE  p = q
    <2>1. CASE p % 2 = 0 /\ q % 2 = 0
      <3>1. s[p] = half(p) /\ 2 * half(p) = p /\ half(p) \in Int
        BY <1>1, <2>1
      <3>2. s[q] = half(q) /\ 2 * half(q) = q /\ half(q) \in Int
        BY <1>1, <2>1
      <3> QED BY <3>1, <3>2, <1>5
    <2>2. CASE p % 2 # 0 /\ q % 2 # 0
      <3>1. /\ low(p) \in 0 .. k - 1 /\ 2 * low(p) + 1 = p
            /\ s[p] = IF low(p) = 0 THEN 0 ELSE k - low(p)
        BY <1>2, <2>2
      <3>2. /\ low(q) \in 0 .. k - 1 /\ 2 * low(q) + 1 = q
            /\ s[q] = IF low(q) = 0 THEN 0 ELSE k - low(q)
        BY <1>2, <2>2
      <3>3. low(p) = low(q)
        BY <3>1, <3>2, <1>5
      <3> QED BY <3>1, <3>2, <3>3
    <2>3. CASE p % 2 = 0 /\ q % 2 # 0
      <3>1. s[p] = half(p) /\ half(p) \in 1 .. k /\ 2 * half(p) = p
        BY <1>1, <2>3
      <3>2. /\ low(q) \in 0 .. k - 1 /\ 2 * low(q) + 1 = q
            /\ s[q] = IF low(q) = 0 THEN 0 ELSE k - low(q)
        BY <1>2, <2>3
      <3>3. half(p) # 0 /\ half(p) # k - low(q)
        BY <3>1, <3>2
      <3> QED BY <3>1, <3>2, <3>3, <1>5
    <2>4. CASE p % 2 # 0 /\ q % 2 = 0
      <3>1. s[q] = half(q) /\ half(q) \in 1 .. k /\ 2 * half(q) = q
        BY <1>1, <2>4
      <3>2. /\ low(p) \in 0 .. k - 1 /\ 2 * low(p) + 1 = p
            /\ s[p] = IF low(p) = 0 THEN 0 ELSE k - low(p)
        BY <1>2, <2>4
      <3>3. half(q) # 0 /\ half(q) # k - low(p)
        BY <3>1, <3>2
      <3> QED BY <3>1, <3>2, <3>3, <1>5
    <2> QED BY <2>1, <2>2, <2>3, <2>4
  <1>6. ASSUME NEW a \in 0 .. k - 1
        PROVE  \E p \in 1 .. k : s[p] = a
    <2>1. CASE a = 0
      <3>1. 1 \in 1 .. k /\ 1 % 2 # 0
        OBVIOUS
      <3>2. low(1) = 0
        BY <3>1, <1>2
      <3> QED BY <3>1, <3>2, <1>2, <2>1
    <2>2. CASE a # 0 /\ 2 * a <= k
      <3>1. 2 * a \in 1 .. k /\ (2 * a) % 2 = 0
        BY <2>2
      <3>2. s[2 * a] = half(2 * a) /\ half(2 * a) \in Int /\ 2 * half(2 * a) = 2 * a
        BY <3>1, <1>1
      <3> QED BY <3>1, <3>2
    <2>3. CASE a # 0 /\ 2 * a > k
      <3> DEFINE p == 2 * (k - a) + 1
      <3>1. p \in 1 .. k /\ p % 2 # 0
        BY <2>3
      <3>2. low(p) \in 0 .. k - 1 /\ 2 * low(p) + 1 = p /\ s[p] = IF low(p) = 0 THEN 0 ELSE k - low(p)
        BY <3>1, <1>2
      <3>3. low(p) = k - a
        BY <3>2
      <3>4. s[p] = a
        BY <3>2, <3>3
      <3> QED BY <3>1, <3>4
    <2> QED BY <2>1, <2>2, <2>3
  <1> QED BY <1>3, <1>4, <1>5, <1>6 DEF IsOrder, s

\* Adding the row number modulo k renames the arms.
LEMMA ShiftedIsOrder ==
  ASSUME NEW k \in Nat \ {0}, NEW s, IsOrder(k, s), NEW i \in 0 .. k - 1,
         NEW t, t = [p \in 1 .. k |-> (s[p] + i) % k]
  PROVE  IsOrder(k, t)
  <1>1. ASSUME NEW p \in 1 .. k
        PROVE  /\ s[p] \in 0 .. k - 1
               /\ t[p] = IF s[p] + i < k THEN s[p] + i ELSE s[p] + i - k
    <2>1. s[p] \in 0 .. k - 1
      BY DEF IsOrder
    <2> DEFINE x == s[p] + i
    <2>2. x \in 0 .. 2 * k - 1
      BY <2>1
    <2> HIDE DEF x
    <2>3. x % k = IF x < k THEN x ELSE x - k
      BY <2>2, Wraps
    <2> QED BY <2>1, <2>3 DEF x
  <1>2. \A p \in 1 .. k : t[p] \in 0 .. k - 1
    BY <1>1
  <1>3. ASSUME NEW p \in 1 .. k, NEW q \in 1 .. k, t[p] = t[q] PROVE p = q
    <2>1. s[p] \in 0 .. k - 1 /\ t[p] = IF s[p] + i < k THEN s[p] + i ELSE s[p] + i - k
      BY <1>1
    <2>2. s[q] \in 0 .. k - 1 /\ t[q] = IF s[q] + i < k THEN s[q] + i ELSE s[q] + i - k
      BY <1>1
    <2> DEFINE x == s[p]
               y == s[q]
               u == t[p]
    <2>3. /\ x \in 0 .. k - 1 /\ u = IF x + i < k THEN x + i ELSE x + i - k
          /\ y \in 0 .. k - 1 /\ u = IF y + i < k THEN y + i ELSE y + i - k
      BY <2>1, <2>2, <1>3
    <2> HIDE DEF x, y, u
    <2>4. x = y
      BY <2>3
    <2> QED BY <2>4 DEF IsOrder, x, y
  <1>4. ASSUME NEW a \in 0 .. k - 1 PROVE \E p \in 1 .. k : t[p] = a
    <2> DEFINE b == IF a >= i THEN a - i ELSE a - i + k
    <2>1. b \in 0 .. k - 1
      OBVIOUS
    <2>2. PICK p \in 1 .. k : s[p] = b
      <3> HIDE DEF b
      <3> QED BY <2>1 DEF IsOrder
    <2>3. t[p] = a
      BY <2>1, <2>2, <1>1
    <2> QED BY <2>3
  <1> QED BY <1>2, <1>3, <1>4 DEF IsOrder

\* A row read backwards.
LEMMA ReversedIsOrder ==
  ASSUME NEW k \in Nat \ {0}, NEW s, IsOrder(k, s)
  PROVE  IsOrder(k, Reverse(s))
  <1>1. s \in [1 .. k -> 0 .. k - 1]
    BY DEF IsOrder
  <1>2. Len(s) = k
    BY <1>1
  <1> DEFINE t == Reverse(s)
  <1>3. t = [p \in 1 .. k |-> s[(k - p) + 1]]
    BY <1>2 DEF Reverse
  <1> HIDE DEF t
  <1>4. \A p \in 1 .. k : (k - p) + 1 \in 1 .. k /\ t[p] = s[(k - p) + 1] /\ t[p] \in 0 .. k - 1
    BY <1>1, <1>3
  <1>5. ASSUME NEW p \in 1 .. k, NEW q \in 1 .. k, t[p] = t[q] PROVE p = q
    <2>1. (k - p) + 1 = (k - q) + 1
      BY <1>4, <1>5 DEF IsOrder
    <2> QED BY <2>1
  <1>6. ASSUME NEW a \in 0 .. k - 1 PROVE \E p \in 1 .. k : t[p] = a
    <2>1. PICK q \in 1 .. k : s[q] = a
      BY DEF IsOrder
    <2>2. (k - q) + 1 \in 1 .. k /\ (k - ((k - q) + 1)) + 1 = q
      OBVIOUS
    <2> QED BY <2>1, <2>2, <1>4
  <1> QED BY <1>3, <1>4, <1>5, <1>6 DEF IsOrder, t

\* Every row of the square, and every order of a round, has every arm once
\* (schedule.williams, round_orders).
LEMMA RoundOrdersAreOrders ==
  ASSUME NEW k \in Nat \ {0}, NEW reps \in Nat, NEW r \in Nat, NEW rep \in 1 .. reps
  PROVE  IsOrder(k, RoundOrders(r, k, reps)[rep])
  <1> DEFINE row(i) == [p \in 1 .. k |-> (FirstRow(k)[p] + i) % k]
             rows == [i \in 1 .. k |-> row(i - 1)]
             back == [i \in 1 .. k |-> Reverse(rows[i])]
             S == {rows[i] : i \in 1 .. k} \cup {back[i] : i \in 1 .. k}
  <1>1. \A i \in 1 .. k : IsOrder(k, rows[i])
    <2> SUFFICES ASSUME NEW i \in 1 .. k PROVE IsOrder(k, rows[i])
      OBVIOUS
    <2> DEFINE s == FirstRow(k)
               t == rows[i]
               j == i - 1
    <2>1. IsOrder(k, s)
      BY FirstRowIsOrder
    <2>2. j \in 0 .. k - 1 /\ t = [p \in 1 .. k |-> (s[p] + j) % k]
      OBVIOUS
    <2> HIDE DEF s, t, j
    <2>3. IsOrder(k, t)
      BY <2>1, <2>2, ShiftedIsOrder
    <2> QED BY <2>3 DEF t
  <1>2. \A i \in 1 .. k : IsOrder(k, back[i])
    <2>1. \A i \in 1 .. k : back[i] = Reverse(rows[i])
      OBVIOUS
    <2> HIDE DEF rows, back
    <2> QED BY <2>1, <1>1, ReversedIsOrder
  <1>3. \A i \in 1 .. Cycle(k) : IsOrder(k, Williams(k)[i])
    <2>1. Williams(k) = IF k % 2 = 1 /\ k > 1 THEN rows \o back ELSE rows
      BY DEF Williams
    <2>2. rows \in Seq(S) /\ back \in Seq(S) /\ Len(rows) = k /\ Len(back) = k
      <3>1. /\ DOMAIN rows = 1 .. k /\ rows = [i \in 1 .. k |-> rows[i]]
            /\ DOMAIN back = 1 .. k /\ back = [i \in 1 .. k |-> back[i]]
        OBVIOUS
      <3> HIDE DEF rows, back
      <3>2. \A i \in 1 .. k : rows[i] \in S /\ back[i] \in S
        OBVIOUS
      <3> HIDE DEF S
      <3>3. rows \in Seq(S) /\ back \in Seq(S)
        BY <3>1, <3>2
      <3> QED BY <3>1, <3>3
    <2> HIDE DEF rows, back, S
    <2>3. CASE k % 2 = 1 /\ k > 1
      <3>1. \A i \in 1 .. k + k : (rows \o back)[i] = IF i <= k THEN rows[i] ELSE back[i - k]
        BY <2>2
      <3>2. \A i \in 1 .. k + k : (i <= k => i \in 1 .. k) /\ (~(i <= k) => i - k \in 1 .. k)
        OBVIOUS
      <3>3. Cycle(k) = k + k
        BY <2>3 DEF Cycle
      <3>4. ASSUME NEW i \in 1 .. k + k PROVE IsOrder(k, (rows \o back)[i])
        <4>1. CASE i <= k
          BY <4>1, <3>1, <3>2, <1>1
        <4>2. CASE ~(i <= k)
          BY <4>2, <3>1, <3>2, <1>2
        <4> QED BY <4>1, <4>2
      <3> QED BY <2>1, <2>3, <3>3, <3>4
    <2>4. CASE ~(k % 2 = 1 /\ k > 1)
      BY <2>1, <2>4, <1>1 DEF Cycle
    <2> QED BY <2>3, <2>4
  <1> DEFINE c == Cycle(k)
             n == (r % c) + 1
  <1>4. n \in 1 .. c
    <2>1. c \in Nat \ {0}
      BY DEF Cycle
    <2> HIDE DEF c
    <2>2. r % c \in 0 .. c - 1
      BY <2>1
    <2> QED BY <2>1, <2>2
  <1> DEFINE w == Williams(k)[n]
  <1>5. IsOrder(k, w)
    <2> HIDE DEF n
    <2> QED BY <1>3, <1>4
  <1>6. RoundOrders(r, k, reps)[rep] = IF rep % 2 = 1 THEN w ELSE Reverse(w)
    <2> DEFINE rr == (r % Cycle(k)) + 1
    <2> QED BY DEF RoundOrders
  <1> HIDE DEF w
  <1>7. IsOrder(k, Reverse(w))
    BY <1>5, ReversedIsOrder
  <1> QED BY <1>5, <1>6, <1>7

\* The runs of a round, in order, and those among some runs.
RoundRuns(r, seed, k, reps) ==
  FlattenSeq([rep \in 1 .. reps |->
                [pos \in 1 .. k |-> [round |-> r, seed |-> seed, rep |-> rep, pos |-> pos,
                                     arm |-> RoundOrders(r, k, reps)[rep][pos]]]])
RunsOf(runs, r) == On(runs, {x \in Range(runs) : x.round = r})

\* What the timed plan holds: in each round every arm once in each replicate.
PlanHolds(P, l, k, reps) ==
  /\ IsLog(P) /\ IsInjective(P)
  /\ \A x \in Range(P) : x.round \in Rounds(l) /\ <<x.rep, x.arm>> \in (1 .. reps) \X (0 .. k - 1)
  /\ \A x, y \in Range(P) : x.round = y.round /\ <<x.rep, x.arm>> = <<y.rep, y.arm>> => x = y
  /\ \A r \in Rounds(l), rep \in 1 .. reps, a \in 0 .. k - 1 :
       \E x \in Range(P) : x.round = r /\ x.rep = rep /\ x.arm = a
  /\ \A r \in Rounds(l) : RunsOf(P, r) = RoundRuns(r, l[r + 1], k, reps)

\* The timed plan holds them (schedule.plan).
LEMMA TimedPlanHolds ==
  ASSUME NEW l \in Seq(Int), NEW k \in Nat \ {0}, NEW reps \in Nat
  PROVE  PlanHolds(TimedPlan(l, k, reps), l, k, reps)
  <1> DEFINE run(r, rep, pos) == [round |-> r, seed |-> l[r + 1], rep |-> rep, pos |-> pos,
                                  arm |-> RoundOrders(r, k, reps)[rep][pos]]
             Order(r, rep) == RoundOrders(r, k, reps)[rep]
             S == {run(r, rep, pos) : r \in Rounds(l), rep \in 1 .. reps, pos \in 1 .. k}
             runs(r, rep) == {run(r, rep, pos) : pos \in 1 .. k}
             allRuns(r) == UNION {runs(r, rep) : rep \in 1 .. reps}
             ofOrder(r, rep) == [pos \in 1 .. k |-> run(r, rep, pos)]
             orders(r) == [rep \in 1 .. reps |-> ofOrder(r, rep)]
             ofRound(r) == FlattenSeq(orders(r))
             rounds == [i \in 1 .. Len(l) |-> ofRound(i - 1)]
             P == FlattenSeq(rounds)
  <1>1. TimedPlan(l, k, reps) = P
    BY DEF TimedPlan
  <1>2. \A r, rep, pos : /\ run(r, rep, pos).round = r /\ run(r, rep, pos).rep = rep
                         /\ run(r, rep, pos).pos = pos /\ run(r, rep, pos).arm = Order(r, rep)[pos]
    OBVIOUS
  <1>3. \A r \in Rounds(l), rep \in 1 .. reps : IsOrder(k, Order(r, rep))
    <2>1. \A r \in Rounds(l) : r \in Nat
      BY DEF Rounds
    <2> QED BY <2>1, RoundOrdersAreOrders
  <1>z. \A r : ofRound(r) = RoundRuns(r, l[r + 1], k, reps)
    BY Zenon DEF RoundRuns
  <1> HIDE DEF run, Order
  <1>a. \A r, rep : \A x \in runs(r, rep) : x.round = r /\ x.rep = rep
    BY <1>2
  <1>b. \A r : \A x \in allRuns(r) : x.round = r
    BY <1>2
  <1>c. \A r, rep : \A pos \in 1 .. k : run(r, rep, pos) \in runs(r, rep)
    OBVIOUS
  <1>d. \A r : \A rep \in 1 .. reps : runs(r, rep) \subseteq allRuns(r)
    OBVIOUS
  <1>4. \A i \in 1 .. Len(l) : i - 1 \in Rounds(l)
    BY DEF Rounds
  <1>5. ASSUME NEW r \in Rounds(l), NEW rep \in 1 .. reps
        PROVE  /\ ofOrder(r, rep) \in Seq(S) /\ IsInjective(ofOrder(r, rep))
               /\ Range(ofOrder(r, rep)) = runs(r, rep)
    <2>1. \A pos \in 1 .. k : run(r, rep, pos) \in S
      OBVIOUS
    <2>2. ofOrder(r, rep) \in Seq(S)
      <3> HIDE DEF S
      <3> QED BY <2>1
    <2>3. IsInjective(ofOrder(r, rep))
      <3>1. \A p, q \in 1 .. k : run(r, rep, p) = run(r, rep, q) => p = q
        BY <1>2
      <3> QED BY <3>1 DEF IsInjective
    <2>4. Range(ofOrder(r, rep)) = runs(r, rep)
      BY DEF Range
    <2> HIDE DEF S, runs, ofOrder
    <2> QED BY <2>2, <2>3, <2>4
  <1> HIDE DEF S, runs
  <1>6. ASSUME NEW r \in Rounds(l)
        PROVE  /\ ofRound(r) \in Seq(S) /\ IsInjective(ofRound(r))
               /\ Range(ofRound(r)) = allRuns(r)
    <2> DEFINE ss == orders(r)
    <2>1. DOMAIN ss = 1 .. reps /\ \A rep \in 1 .. reps : ss[rep] = ofOrder(r, rep)
      OBVIOUS
    <2>2. ss \in Seq(Seq(S))
      <3>1. \A rep \in 1 .. reps : ofOrder(r, rep) \in Seq(S)
        BY <1>5
      <3> HIDE DEF ofOrder
      <3> QED BY <3>1
    <2>3. Apart(ss)
      <3>1. \A rep \in 1 .. reps : IsInjective(ss[rep])
        <4> HIDE DEF ss, ofOrder
        <4> QED BY <2>1, <1>5
      <3>2. ASSUME NEW p \in 1 .. reps, NEW q \in 1 .. reps, p # q
            PROVE  Range(ss[p]) \cap Range(ss[q]) = {}
        <4>1. /\ Range(ss[p]) = runs(r, p)
              /\ Range(ss[q]) = runs(r, q)
          <5> HIDE DEF ss, ofOrder
          <5> QED BY <2>1, <1>5
        <4> HIDE DEF ss
        <4> QED BY <4>1, <3>2, <1>a
      <3> HIDE DEF ss
      <3> QED BY <2>1, <3>1, <3>2 DEF Apart
    <2>4. \A rep \in 1 .. reps : Range(ss[rep]) = runs(r, rep)
      <3> HIDE DEF ss, ofOrder
      <3> QED BY <2>1, <1>5
    <2> HIDE DEF ss, S
    <2>5. /\ FlattenSeq(ss) \in Seq(S) /\ IsInjective(FlattenSeq(ss))
          /\ Range(FlattenSeq(ss)) = UNION {Range(ss[i]) : i \in DOMAIN ss}
      BY <2>2, <2>3, FlattenElements
    <2>6. UNION {Range(ss[i]) : i \in DOMAIN ss} = allRuns(r)
      BY <2>1, <2>4, Zenon
    <2>7. ofRound(r) = FlattenSeq(ss)
      BY DEF ss
    <2> HIDE DEF ofRound, allRuns
    <2> QED BY <2>5, <2>6, <2>7
  <1> HIDE DEF ofRound, allRuns
  <1>7. DOMAIN rounds = 1 .. Len(l) /\ \A i \in 1 .. Len(l) : rounds[i] = ofRound(i - 1)
    OBVIOUS
  <1>8. rounds \in Seq(Seq(S))
    <2> HIDE DEF S
    <2> QED BY <1>4, <1>6
  <1> HIDE DEF rounds
  <1>9. \A i \in 1 .. Len(l) : /\ IsInjective(rounds[i])
                               /\ Range(rounds[i]) = allRuns(i - 1)
    BY <1>4, <1>6, <1>7
  <1>10. Apart(rounds)
    <2>1. ASSUME NEW i \in 1 .. Len(l), NEW j \in 1 .. Len(l), i # j
          PROVE  Range(rounds[i]) \cap Range(rounds[j]) = {}
      <3>1. i - 1 # j - 1
        BY <2>1
      <3>2. /\ \A x \in Range(rounds[i]) : x.round = i - 1
            /\ \A x \in Range(rounds[j]) : x.round = j - 1
        BY <1>9, <1>b
      <3> QED BY <3>1, <3>2
    <2> QED BY <2>1, <1>7, <1>9 DEF Apart
  <1>11. /\ P \in Seq(S) /\ IsInjective(P)
         /\ Range(P) = UNION {Range(rounds[i]) : i \in DOMAIN rounds}
    <2> HIDE DEF S
    <2> QED BY <1>8, <1>10, FlattenElements
  <1>y. ASSUME NEW r \in Rounds(l)
        PROVE  RunsOf(P, r) = RoundRuns(r, l[r + 1], k, reps)
    <2> DEFINE B == {x \in Range(P) : x.round = r}
    <2>1. r + 1 \in DOMAIN rounds /\ (r + 1) - 1 = r
      BY <1>7 DEF Rounds
    <2>2. rounds[r + 1] = RoundRuns(r, l[r + 1], k, reps)
      BY <2>1, <1>7, <1>z
    <2>3. \A i \in DOMAIN rounds : \A x \in Range(rounds[i]) : x \in B <=> i = r + 1
      <3>1. \A i \in DOMAIN rounds : \A x \in Range(rounds[i]) : x \in Range(P) /\ x.round = i - 1
        BY <1>7, <1>9, <1>11, <1>b
      <3>2. \A i \in DOMAIN rounds : i - 1 = r <=> i = r + 1
        BY <1>7 DEF Rounds
      <3> HIDE DEF P
      <3> QED BY <3>1, <3>2
    <2>4. On(FlattenSeq(rounds), B) = rounds[r + 1]
      <3> HIDE DEF B, S, P
      <3>1. Range(rounds[r + 1]) \subseteq B /\ \A i \in DOMAIN rounds : i # r + 1 => Range(rounds[i]) \cap B = {}
        BY <2>1, <2>3
      <3> QED BY <3>1, <2>1, <1>8, OnFlatten
    <2> QED BY <2>2, <2>4, Zenon DEF RunsOf
  <1> HIDE DEF P
  <1>12. Range(P) = S
    <2>1. ASSUME NEW r \in Rounds(l), NEW rep \in 1 .. reps, NEW pos \in 1 .. k
          PROVE  run(r, rep, pos) \in Range(P)
      <3>1. r + 1 \in 1 .. Len(l) /\ (r + 1) - 1 = r
        BY DEF Rounds
      <3>2. run(r, rep, pos) \in allRuns(r)
        BY <1>c, <1>d
      <3>3. Range(rounds[r + 1]) = allRuns(r)
        BY <3>1, <1>9
      <3> QED BY <3>1, <3>2, <3>3, <1>7, <1>11
    <2>2. Range(P) \subseteq S
      BY <1>11 DEF Range
    <2> QED BY <2>1, <2>2 DEF S
  <1>13. IsLog(P)
    <2> HIDE DEF S
    <2> QED BY <1>11, SeqIsLog
  <1>14. ASSUME NEW x \in Range(P)
         PROVE  \E r \in Rounds(l), rep \in 1 .. reps, pos \in 1 .. k :
                  x = run(r, rep, pos) /\ x.round = r /\ x.rep = rep /\ x.arm = Order(r, rep)[pos]
    BY <1>12, <1>2 DEF S
  <1>15. ASSUME NEW x \in Range(P)
         PROVE  x.round \in Rounds(l) /\ <<x.rep, x.arm>> \in (1 .. reps) \X (0 .. k - 1)
    <2>1. PICK r \in Rounds(l), rep \in 1 .. reps, pos \in 1 .. k :
                  x.round = r /\ x.rep = rep /\ x.arm = Order(r, rep)[pos]
      BY <1>14
    <2>2. x.arm \in 0 .. k - 1
      <3>1. Order(r, rep) \in [1 .. k -> 0 .. k - 1]
        BY <1>3 DEF IsOrder
      <3> QED BY <2>1, <3>1
    <2> QED BY <2>1, <2>2
  <1>16. ASSUME NEW x \in Range(P), NEW y \in Range(P), x.round = y.round, <<x.rep, x.arm>> = <<y.rep, y.arm>>
         PROVE  x = y
    <2>1. PICK r \in Rounds(l), rep \in 1 .. reps, pos \in 1 .. k :
                  x = run(r, rep, pos) /\ x.round = r /\ x.rep = rep /\ x.arm = Order(r, rep)[pos]
      BY <1>14
    <2>2. PICK r2 \in Rounds(l), rep2 \in 1 .. reps, pos2 \in 1 .. k :
                  y = run(r2, rep2, pos2) /\ y.round = r2 /\ y.rep = rep2 /\ y.arm = Order(r2, rep2)[pos2]
      BY <1>14
    <2>3. r = r2 /\ rep = rep2 /\ Order(r, rep)[pos] = Order(r, rep)[pos2]
      BY <1>16, <2>1, <2>2
    <2>4. pos = pos2
      BY <2>3, <1>3 DEF IsOrder
    <2> QED BY <2>1, <2>2, <2>3, <2>4
  <1>17. ASSUME NEW r \in Rounds(l), NEW rep \in 1 .. reps, NEW a \in 0 .. k - 1
         PROVE  \E x \in Range(P) : x.round = r /\ x.rep = rep /\ x.arm = a
    <2>1. PICK pos \in 1 .. k : Order(r, rep)[pos] = a
      BY <1>3 DEF IsOrder
    <2> DEFINE x == run(r, rep, pos)
    <2>2. x \in Range(P)
      BY <1>12 DEF S
    <2>3. x.round = r /\ x.rep = rep /\ x.arm = a
      BY <1>2, <2>1
    <2> HIDE DEF x
    <2> QED BY <2>2, <2>3
  <1>18. PlanHolds(P, l, k, reps)
    <2> HIDE DEF S
    <2> QED BY <1>11, <1>13, <1>15, <1>16, <1>17, <1>y DEF PlanHolds
  <1> QED BY <1>1, <1>18

(***************************************************************************)
(* An interrupt is not a failure: only compilers that fail are "broken",   *)
(* and a log that lost its header is refused before a signal is seen.      *)
(***************************************************************************)
TaskStates == {"none", "queued", "linked", "reused", "claimed", "running", "ready", "done",
               "broken", "interrupted", "cancelled"}

NotBroken ==
  /\ task \in [AllBuilds -> TaskStates] /\ why \in Outcomes \cup {None}
  /\ pc \in {"idle", "opened"} => ~signal
  /\ flaw # "broken" => \A b \in AllBuilds : task[b] # "broken"
  /\ signal /\ flaw # "broken" => why # "failed"

\* Every step keeps the state of each build one of the pool's, and only a
\* compiler that fails makes a build broken (ab_build.Builder._call).
LEMMA NextNotBroken ==
  ASSUME NotBroken, [Next]_vars
  PROVE  NotBroken'
  <1> DEFINE Early == {"idle", "opened"}
             Onward == pc' \in Early => pc \in Early
             Became(b, t) == UNCHANGED <<flaw, signal>> /\ Onward /\ task' = [task EXCEPT ![b] = t]
  <1> USE SessionAssumption DEF Outcomes
  <1>1. ASSUME UNCHANGED <<flaw, task, why, signal>>, Onward PROVE NotBroken'
    BY <1>1 DEF NotBroken
  <1>2. ASSUME UNCHANGED <<flaw, task, signal>>, Onward, why' \in Outcomes \cup {None},
               why' = "failed" => ~signal \/ why = "failed" \/ \E b \in AllBuilds : task[b] = "broken"
        PROVE  NotBroken'
    BY <1>2 DEF NotBroken
  <1>3. ASSUME NEW b \in AllBuilds, NEW t \in TaskStates, Became(b, t),
               why' \in {why, None, "aborted"}, flaw # "broken" => t # "broken"
        PROVE  NotBroken'
    <2>1. task \in [AllBuilds -> TaskStates]
      BY DEF NotBroken
    <2>2. task' \in [AllBuilds -> TaskStates]
      BY <1>3, <2>1
    <2>3. \A c \in AllBuilds : task'[c] = IF c = b THEN t ELSE task[c]
      BY <1>3, <2>1
    <2>4. flaw' # "broken" => \A c \in AllBuilds : task'[c] # "broken"
      BY <1>3, <2>3 DEF NotBroken
    <2>5. why' \in Outcomes \cup {None} /\ (signal' /\ flaw' # "broken" => why' # "failed")
      BY <1>3 DEF NotBroken
    <2>6. pc' \in Early => ~signal'
      BY <1>3 DEF NotBroken
    <2> QED BY <2>2, <2>4, <2>5, <2>6 DEF NotBroken
  <1>4. ASSUME flaw' = flaw, why' = None, ~signal', task' = [b \in AllBuilds |-> "none"]
        PROVE  NotBroken'
    BY <1>4 DEF NotBroken, TaskStates
  <1>5. ASSUME NEW b \in AllBuilds, Claim(b) PROVE NotBroken'
    <2>1. Became(b, "reused") \/ Became(b, "claimed")
      BY <1>5 DEF Claim
    <2>2. why' = why
      BY <1>5 DEF Claim
    <2> HIDE DEF Became
    <2> QED BY <2>1, <2>2, <1>3 DEF TaskStates
  <1>6. ASSUME NEW b \in AllBuilds, Spawn(b) PROVE NotBroken'
    <2>1. Became(b, "cancelled") \/ Became(b, "running")
      BY <1>6 DEF Spawn
    <2>2. why' = why
      BY <1>6 DEF Spawn
    <2> HIDE DEF Became
    <2> QED BY <2>1, <2>2, <1>3 DEF TaskStates
  <1>7. ASSUME NEW b \in AllBuilds, Built(b) PROVE NotBroken'
    <2>1. Became(b, "ready") \/ (Became(b, "broken") /\ flaw = "broken")
      BY <1>7 DEF Built, Compiles
    <2>2. why' = why
      BY <1>7 DEF Built
    <2> HIDE DEF Became
    <2> QED BY <2>1, <2>2, <1>3 DEF TaskStates
  <1>8. ASSUME NEW b \in AllBuilds, NEW row, NEW reused, Recorded(b, row, reused),
               UNCHANGED <<flaw, signal>>
        PROVE  NotBroken'
    <2>1. Became(b, "done") /\ why' \in {None, "aborted"}
      BY <1>8 DEF Recorded
    <2> HIDE DEF Became
    <2> QED BY <2>1, <1>3 DEF TaskStates
  <1>9. ASSUME NEW b \in AllBuilds, Record(b) PROVE NotBroken'
    BY <1>9, <1>8 DEF Record
  <1>10. ASSUME NEW b \in AllBuilds, LinkBuild(b) PROVE NotBroken'
    BY <1>10, <1>8 DEF LinkBuild
  <1>11. ASSUME NEW b \in AllBuilds, Raised(b) PROVE NotBroken'
    BY <1>11, <1>2 DEF Raised
  <1>12. ASSUME NEW b \in AllBuilds, Terminate(b) PROVE NotBroken'
    <2>1. Became(b, "cancelled") \/ Became(b, "interrupted")
      BY <1>12 DEF Terminate, Killed
    <2>2. why' = why
      BY <1>12 DEF Terminate
    <2> HIDE DEF Became
    <2> QED BY <2>1, <2>2, <1>3 DEF TaskStates
  <1>13. ASSUME ReadBuilds PROVE NotBroken'
    <2>1. \A b \in AllBuilds : (IF b \in Planned THEN IF IsLink(b) THEN "linked" ELSE "queued" ELSE "none")
                                 \in TaskStates \ {"broken"}
      BY DEF TaskStates
    <2>2. UNCHANGED <<flaw, why, signal>> /\ pc' = "building"
      BY <1>13 DEF ReadBuilds
    <2>3. task' \in [AllBuilds -> TaskStates] /\ \A b \in AllBuilds : task'[b] # "broken"
      BY <1>13, <2>1 DEF ReadBuilds
    <2> QED BY <2>2, <2>3 DEF NotBroken
  <1>14. ASSUME RewriteBuilds \/ DropRow \/ RewriteSamples \/ HaveReference \/ Stopped \/ Empty
         PROVE  NotBroken'
    BY <1>14, <1>1 DEF RewriteBuilds, DropRow, RewriteSamples, HaveReference, Stopped, Empty, driver
  <1>15. ASSUME OpenReference \/ Timed \/ Finished \/ Interrupted PROVE NotBroken'
    <2>1. UNCHANGED <<flaw, task, signal>> /\ why' \in {why, None, "aborted", "done", "interrupted"}
      BY <1>15 DEF OpenReference, Timed, Finished, Interrupted
    <2>2. Onward
      BY <1>15 DEF OpenReference, Timed, Finished, Interrupted, InPhase, Going
    <2> QED BY <2>1, <2>2, <1>2 DEF NotBroken
  <1>16. ASSUME Leave \/ Crash PROVE NotBroken'
    BY <1>16, <1>4 DEF Leave, Crash, Gone
  <1>17. ASSUME NEW l \in SeedLists, Run(l) \/ Resume(l) PROVE NotBroken'
    BY <1>17, <1>1 DEF Run, Resume, Begin
  <1>18. CASE UNCHANGED vars
    BY <1>18, <1>1 DEF vars, driver
  <1>19. ASSUME Open \/ SplitRounds \/ OpenDropped PROVE NotBroken'
    <2>1. UNCHANGED <<flaw, task, signal>> /\ why' \in {why, "failed"} /\ Onward
      BY <1>19 DEF Open, SplitRounds, OpenDropped
    <2>2. ~signal
      BY <1>19 DEF Open, SplitRounds, OpenDropped, NotBroken, InPhase
    <2> QED BY <2>1, <2>2, <1>2 DEF NotBroken
  <1>20. ASSUME Interrupt PROVE NotBroken'
    BY <1>20 DEF Interrupt, InPhase, Going, NotBroken
  <1>21. CASE Next
    BY <1>21, <1>5, <1>6, <1>7, <1>9, <1>10, <1>11, <1>12, <1>13, <1>14, <1>15, <1>16, <1>17, <1>19,
       <1>20 DEF Next, Step, Start
  <1> QED BY <1>18, <1>21

\* InterruptNotFailure: a session that Ctrl-C ends is not reported as a
\* failed build (ab_build.Builder._call), with any number of compilers at
\* work when the signal arrives.
THEOREM InterruptIsNotFailure == Spec => []InterruptNotFailure
  <1>1. Init => NotBroken
    BY SessionAssumption DEF Init, Idle, NotBroken, TaskStates, Outcomes
  <1>2. NotBroken /\ [Next]_vars => NotBroken'
    BY NextNotBroken
  <1>3. NotBroken => InterruptNotFailure
    BY DEF NotBroken, InterruptNotFailure
  <1> QED BY <1>1, <1>2, <1>3, PTL DEF Spec

(***************************************************************************)
(* No sample is lost but those in a log that a cut-short _trim had opened. *)
(* What a resumed session keeps and what it drops are between them every   *)
(* row of samples.tsv, because each row is of a round the session asks     *)
(* for: meta.json's seeds only grow.  A row is appended only after the     *)
(* remainder of a row cut short was trimmed.                               *)
(***************************************************************************)
\* meta.json is written before the first sample, and says the seeds of the
\* session that runs.
MetaOk ==
  /\ seeds \in SeedLists \cup {<<>>}
  /\ meta = None \/ meta \in [seeds : SeedLists, status : Outcomes \cup {None}]
  /\ ~used => pc = "idle" /\ meta = None
  /\ meta = None => slog = <<>>
  /\ why \in Outcomes \cup {None}
  /\ pc = "opened" => seeds \in SeedLists /\ (meta # None => Len(meta.seeds) <= Len(seeds))
  /\ pc \notin {"idle", "opened"} => seeds \in SeedLists /\ meta # None /\ meta.seeds = seeds

RowsInRange ==
  /\ IsLog(slog) /\ IsLog(dropped) /\ IsLog(lost)
  /\ meta # None => \A row \in Samples(slog) : row.run.round \in Rounds(meta.seeds)
  /\ pc = "timed" => IsLog(todo) /\ \A run \in Range(todo) : run.round \in Rounds(seeds)

Splitting ==
  /\ pc \in {"dropping", "reference", "writing", "timed"} => "samples" \notin torn
  /\ pc \in {"trimming", "dropping"} =>
       /\ IsLog(todo) /\ IsLog(keep) /\ Samples(keep) \subseteq Samples(slog)
       /\ Samples(slog) \subseteq Samples(keep) \cup Samples(todo) \cup Samples(dropped)

SamplesInv == MetaOk /\ RowsInRange /\ Splitting /\ NoSampleLost

\* The samples of a log are its rows that were not cut short.
LEMMA SamplesOf ==
  ASSUME NEW s, IsLog(s)
  PROVE  Samples(s) = Range(s) \ {Garbled}
  BY DEF Samples, Range

\* Appending a row adds it to the samples, unless it is one cut short.
LEMMA AppendRow ==
  ASSUME NEW s, IsLog(s), NEW e
  PROVE  /\ IsLog(Append(s, e)) /\ Samples(Append(s, e)) = Samples(s) \cup ({e} \ {Garbled})
         /\ Samples(s) \subseteq Samples(Append(s, e))
         /\ e # Garbled => e \in Samples(Append(s, e))
  <1> DEFINE S == Range(s) \cup {e}
  <1>1. s \in Seq(S) /\ e \in S
    BY DEF IsLog
  <1> HIDE DEF S
  <1>2. Append(s, e) \in Seq(S) /\ Range(Append(s, e)) = Range(s) \cup {e}
    BY <1>1, AppendElements
  <1>3. IsLog(Append(s, e))
    BY <1>2 DEF S, IsLog
  <1> QED BY <1>2, <1>3, SamplesOf

\* Taking the head of a log leaves the other rows.
LEMMA DropHead ==
  ASSUME NEW s, IsLog(s), s # <<>>
  PROVE  /\ IsLog(Tail(s)) /\ Samples(s) = Samples(Tail(s)) \cup ({Head(s)} \ {Garbled})
         /\ Head(s) \in Range(s) /\ Range(Tail(s)) \subseteq Range(s)
  <1> DEFINE S == Range(s)
  <1>1. s \in Seq(S)
    BY DEF IsLog
  <1>2. Tail(s) \in Seq(S) /\ Range(s) = {Head(s)} \cup Range(Tail(s))
    <2> HIDE DEF S
    <2> QED BY <1>1, TailElements
  <1>3. IsLog(Tail(s))
    <2> DEFINE t == Tail(s)
    <2>1. t \in Seq(S)
      BY <1>2
    <2> HIDE DEF t, S
    <2>2. Len(t) \in Nat /\ DOMAIN t = 1 .. Len(t) /\ t = [i \in 1 .. Len(t) |-> t[i]]
      BY <2>1
    <2>3. \A i \in 1 .. Len(t) : t[i] \in Range(t)
      BY <2>2 DEF Range
    <2>4. t \in Seq(Range(t))
      BY <2>2, <2>3
    <2> QED BY <2>4 DEF IsLog, t
  <1> QED BY <1>2, <1>3, SamplesOf

\* What is left of a sequence that is cut short: its first elements.
IsCut(t, s) == \E n \in 0 .. Len(s) : t = SubSeq(s, 1, n)

\* They are elements of it, at the same positions.
LEMMA CutElements ==
  ASSUME NEW s, IsLog(s), NEW t, IsCut(t, s)
  PROVE  /\ IsLog(t) /\ Len(t) \in 0 .. Len(s) /\ DOMAIN t = 1 .. Len(t) /\ DOMAIN s = 1 .. Len(s)
         /\ \A i \in DOMAIN t : i \in DOMAIN s /\ t[i] = s[i]
         /\ Range(t) \subseteq Range(s) /\ Samples(t) \subseteq Samples(s)
         /\ Samples(s) = Samples(t) \cup Samples(SubSeq(s, Len(t) + 1, Len(s)))
  <1> DEFINE S == Range(s)
             rest == SubSeq(s, Len(t) + 1, Len(s))
  <1>1. s \in Seq(S) /\ Len(s) \in Nat /\ DOMAIN s = 1 .. Len(s)
    BY DEF IsLog
  <1>2. PICK n \in 0 .. Len(s) : t = SubSeq(s, 1, n)
    BY DEF IsCut
  <1> HIDE DEF S
  <1>3. \A i \in 1 .. n : s[i] \in S
    BY <1>1, <1>2
  <1>4. t \in Seq(S) /\ Len(t) = n /\ \A i \in 1 .. n : t[i] = s[i]
    BY <1>1, <1>2, <1>3
  <1>5. IsLog(t)
    BY <1>4, SeqIsLog
  <1>6. \A i \in DOMAIN t : i \in DOMAIN s /\ t[i] = s[i]
    BY <1>1, <1>4
  <1>7. Range(t) \subseteq Range(s) /\ Samples(t) \subseteq Samples(s)
    BY <1>6 DEF Range, Samples
  <1>8. /\ rest \in Seq(S) /\ DOMAIN rest = 1 .. Len(s) - n
        /\ \A i \in 1 .. Len(s) - n : rest[i] = s[n + i]
    <2>1. \A i \in (n + 1) .. Len(s) : s[i] \in S
      BY <1>1
    <2> QED BY <1>1, <1>4, <2>1
  <1>9. Samples(rest) \subseteq Samples(s)
    <2>1. \A i \in DOMAIN rest : n + i \in DOMAIN s /\ rest[i] = s[n + i]
      BY <1>1, <1>2, <1>8
    <2> HIDE DEF rest
    <2> QED BY <2>1 DEF Samples
  <1>10. ASSUME NEW x \in Samples(s) PROVE x \in Samples(t) \cup Samples(rest)
    <2>1. PICK i \in DOMAIN s : s[i] # Garbled /\ x = s[i]
      BY <1>10 DEF Samples
    <2>2. CASE i <= n
      <3>1. i \in DOMAIN t /\ t[i] = x
        BY <1>1, <1>4, <2>1, <2>2
      <3> QED BY <3>1, <2>1 DEF Samples
    <2>3. CASE i > n
      <3>1. i - n \in DOMAIN rest /\ rest[i - n] = s[n + (i - n)] /\ n + (i - n) = i
        BY <1>1, <1>2, <1>8, <2>1, <2>3
      <3> HIDE DEF rest
      <3> QED BY <3>1, <2>1 DEF Samples
    <2> QED BY <1>1, <1>2, <2>2, <2>3
  <1> QED BY <1>1, <1>2, <1>4, <1>5, <1>6, <1>7, <1>9, <1>10

\* A log is cut to a whole number of lines, or not at all.
LEMMA CutToIsCut ==
  ASSUME NEW s, IsLog(s), NEW name, NEW names, NEW n \in Lines(name, s, names)
  PROVE  IsCut(IF name \in names THEN CutTo(s, n) ELSE s, s)
  <1> DEFINE S == Range(s)
  <1>1. s \in Seq(S) /\ Len(s) \in Nat
    BY DEF IsLog
  <1>2. CASE name \notin names
    <2> HIDE DEF S
    <2>1. SubSeq(s, 1, Len(s)) = s
      BY <1>1
    <2>2. Len(s) \in 0 .. Len(s)
      BY <1>1
    <2>3. IsCut(s, s)
      BY <2>1, <2>2, Zenon DEF IsCut
    <2> QED BY <1>2, <2>3
  <1>3. CASE name \in names
    <2>1. n \in 0 .. Len(s) + 1
      BY <1>3 DEF Lines
    <2>2. CASE n = 0
      <3> HIDE DEF S
      <3>1. SubSeq(s, 1, n - 1) = <<>> /\ SubSeq(s, 1, 0) = <<>>
        BY <1>1, <2>2, SubSeqEmpty
      <3>2. 0 \in 0 .. Len(s)
        BY <1>1
      <3>3. IsCut(CutTo(s, n), s)
        BY <3>1, <3>2, Zenon DEF IsCut, CutTo
      <3> QED BY <1>3, <3>3
    <2>3. CASE n # 0
      <3>1. n - 1 \in 0 .. Len(s)
        BY <1>1, <2>1, <2>3
      <3> QED BY <1>3, <3>1 DEF IsCut, CutTo
    <2> QED BY <2>2, <2>3
  <1> QED BY <1>2, <1>3

\* What cutting the logs takes of their samples is remembered.
Cutting(took) ==
  /\ IsCut(slog', slog) /\ IsCut(dropped', dropped)
  /\ Samples(slog) \cup Samples(dropped) = Samples(slog') \cup Samples(dropped') \cup took
  /\ Samples(slog) \subseteq Samples(slog') \cup took
  /\ lost' = IF took = {} THEN lost ELSE Append(lost, took)

\* So it is by Ctrl-C in a _trim, and by a loss of power.
LEMMA CutLogs ==
  ASSUME IsLog(slog), IsLog(dropped), Interrupted \/ Crash
  PROVE  \E took : Cutting(took)
  <1>1. PICK names, b, s, d : /\ Cut(names, b, s, d) /\ s \in Lines("samples", slog, names)
                              /\ d \in Lines("dropped", dropped, names)
    <2>1. CASE Crash
      BY <2>1 DEF Crash
    <2>2. CASE Interrupted
      <3>1. PICK names : Cut(names, 0, 0, 0)
        BY <2>2 DEF Interrupted
      <3>2. ASSUME NEW log, IsLog(log), NEW name PROVE 0 \in Lines(name, log, names)
        <4>1. Len(log) \in Nat
          BY <3>2 DEF IsLog
        <4> QED BY <4>1 DEF Lines
      <3> QED BY <3>1, <3>2
    <2> QED BY <2>1, <2>2
  <1>2. /\ slog' = IF "samples" \in names THEN CutTo(slog, s) ELSE slog
        /\ dropped' = IF "dropped" \in names THEN CutTo(dropped, d) ELSE dropped
    BY <1>1 DEF Cut
  <1>3. IsCut(slog', slog) /\ IsCut(dropped', dropped)
    BY <1>1, <1>2, CutToIsCut
  <1> DEFINE took == Samples(SubSeq(slog, Len(slog') + 1, Len(slog)))
                       \cup Samples(SubSeq(dropped, Len(dropped') + 1, Len(dropped)))
  <1>4. lost' = IF took = {} THEN lost ELSE Append(lost, took)
    BY <1>1 DEF Cut
  <1>5. /\ Samples(slog) = Samples(slog') \cup Samples(SubSeq(slog, Len(slog') + 1, Len(slog)))
        /\ Samples(dropped) = Samples(dropped') \cup Samples(SubSeq(dropped, Len(dropped') + 1, Len(dropped)))
    BY <1>3, CutElements
  <1>6. /\ Samples(slog) \cup Samples(dropped) = Samples(slog') \cup Samples(dropped') \cup took
        /\ Samples(slog) \subseteq Samples(slog') \cup took
    BY <1>5
  <1> HIDE DEF took
  <1> QED BY <1>3, <1>4, <1>6 DEF Cutting

\* And so is builds.tsv.
LEMMA CutBuilds ==
  ASSUME IsLog(blog), Interrupted \/ Crash
  PROVE  IsCut(blog', blog)
  <1>1. PICK names, b, s, d : Cut(names, b, s, d) /\ b \in Lines("builds", blog, names)
    <2>1. CASE Crash
      BY <2>1 DEF Crash
    <2>2. CASE Interrupted
      <3>1. PICK names : Cut(names, 0, 0, 0)
        BY <2>2 DEF Interrupted
      <3>2. Len(blog) \in Nat
        BY DEF IsLog
      <3>3. 0 \in Lines("builds", blog, names)
        BY <3>2 DEF Lines
      <3> QED BY <3>1, <3>3
    <2> QED BY <2>1, <2>2
  <1>2. blog' = IF "builds" \in names THEN CutTo(blog, b) ELSE blog
    BY <1>1 DEF Cut
  <1> QED BY <1>1, <1>2, CutToIsCut

\* The parts k and t that the rows of a log are split into: the rows of the
\* finished rounds, in one part once each, and those of the others.
SplitParts(l, log, k, t) ==
  /\ IsLog(k) /\ IsLog(t)
  /\ \A x : x \in Range(k) <=> \E r \in Rounds(l) : FinishedIn(log, r) /\ \E j \in RowsAt(log, r) : x = log[j]
  /\ \A x : x \in Range(t) <=> \E r \in Rounds(l) : ~FinishedIn(log, r) /\ \E j \in RowsAt(log, r) : x = log[j]
  /\ (\A r \in Rounds(l) : FinishedIn(log, r) => DistinctAt(log, RowsAt(log, r))) => IsInjective(k)

\* What a resumed session keeps and drops are such parts of samples.tsv
\* (ab_timed.split_rounds).
LEMMA SplitIntoParts ==
  ASSUME SamplesInv, SplitRounds, pc' # "leaving"
  PROVE  SplitParts(seeds, slog, keep', todo')
  <1> DEFINE S == Range(slog)
             rows(i) == RowsOf(slog, i - 1)
             kept == [i \in DOMAIN seeds |-> IF Kept(i - 1) THEN rows(i) ELSE <<>>]
             moved == [i \in DOMAIN seeds |-> IF Kept(i - 1) THEN <<>> ELSE rows(i)]
  <1>1. slog \in Seq(S)
    BY DEF SamplesInv, RowsInRange, IsLog
  <1>2. seeds \in SeedLists /\ seeds \in Seq(Int) /\ Len(seeds) \in Nat /\ DOMAIN seeds = 1 .. Len(seeds)
    <2>1. seeds \in SeedLists
      BY DEF SamplesInv, MetaOk, SplitRounds, InPhase, Going
    <2>2. seeds \in Seq(Int)
      BY <2>1, SessionAssumption
    <2> QED BY <2>1, <2>2
  <1>3. \A i \in DOMAIN seeds :
          /\ rows(i) \in Seq(S)
          /\ Range(rows(i)) = {slog[j] : j \in DOMAIN slog \cap RowsAt(slog, i - 1)}
          /\ DistinctAt(slog, RowsAt(slog, i - 1)) => IsInjective(rows(i))
    <2> HIDE DEF S
    <2> QED BY <1>1, SiftElements DEF RowsOf
  <1>4. <<>> \in Seq(S) /\ Range(<<>>) = {} /\ IsInjective(<<>>)
    BY DEF Range, IsInjective
  <1>5. kept \in Seq(Seq(S)) /\ moved \in Seq(Seq(S)) /\ DOMAIN kept = DOMAIN seeds /\ DOMAIN moved = DOMAIN seeds
    <2> HIDE DEF rows, S
    <2> QED BY <1>2, <1>3, <1>4
  <1>6. /\ \A i \in DOMAIN seeds : Kept(i - 1) => kept[i] = rows(i) /\ moved[i] = <<>>
        /\ \A i \in DOMAIN seeds : ~Kept(i - 1) => moved[i] = rows(i) /\ kept[i] = <<>>
    <2> HIDE DEF rows
    <2> QED BY <1>4
  <1>7. keep' = FlattenSeq(kept) /\ todo' = FlattenSeq(moved)
    BY Zenon DEF SplitRounds
  <1> HIDE DEF kept, moved, S
  <1>8. /\ keep' \in Seq(S) /\ Range(keep') = UNION {Range(kept[i]) : i \in DOMAIN kept}
        /\ todo' \in Seq(S) /\ Range(todo') = UNION {Range(moved[i]) : i \in DOMAIN moved}
        /\ Apart(kept) => IsInjective(keep')
    BY <1>5, <1>7, FlattenElements
  <1> HIDE DEF rows
  <1>9. IsLog(keep') /\ IsLog(todo')
    BY <1>8, SeqIsLog
  <1>10. \A i \in DOMAIN seeds : \A x : x \in Range(rows(i)) <=> \E j \in RowsAt(slog, i - 1) : x = slog[j]
    BY <1>3 DEF RowsAt
  <1>11. /\ \A i \in DOMAIN seeds : i - 1 \in Rounds(seeds)
         /\ \A r \in Rounds(seeds) : r + 1 \in DOMAIN seeds /\ (r + 1) - 1 = r
    BY <1>2 DEF Rounds
  <1>12. ASSUME NEW x
         PROVE  x \in Range(keep') <=> \E r \in Rounds(seeds) : Kept(r) /\ \E j \in RowsAt(slog, r) : x = slog[j]
    <2>1. x \in Range(keep') <=> \E i \in DOMAIN seeds : x \in Range(kept[i])
      BY <1>5, <1>8
    <2>2. \A i \in DOMAIN seeds : x \in Range(kept[i]) <=> Kept(i - 1) /\ x \in Range(rows(i))
      BY <1>4, <1>6
    <2> HIDE DEF Kept
    <2> QED BY <2>1, <2>2, <1>10, <1>11
  <1>13. ASSUME NEW x
         PROVE  x \in Range(todo') <=> \E r \in Rounds(seeds) : ~Kept(r) /\ \E j \in RowsAt(slog, r) : x = slog[j]
    <2>1. x \in Range(todo') <=> \E i \in DOMAIN seeds : x \in Range(moved[i])
      BY <1>5, <1>8
    <2>2. \A i \in DOMAIN seeds : x \in Range(moved[i]) <=> ~Kept(i - 1) /\ x \in Range(rows(i))
      BY <1>4, <1>6
    <2> HIDE DEF Kept
    <2> QED BY <2>1, <2>2, <1>10, <1>11
  <1>14. ASSUME \A r \in Rounds(seeds) : Kept(r) => DistinctAt(slog, RowsAt(slog, r))
         PROVE  IsInjective(keep')
    <2>1. \A i \in DOMAIN seeds : IsInjective(kept[i])
      <3> HIDE DEF Kept
      <3> QED BY <1>3, <1>4, <1>6, <1>11, <1>14
    <2>2. ASSUME NEW i \in DOMAIN seeds, NEW j \in DOMAIN seeds, i # j,
                 NEW x, x \in Range(kept[i]), x \in Range(kept[j])
          PROVE  FALSE
      <3>1. x \in Range(rows(i)) /\ x \in Range(rows(j))
        BY <2>2, <1>4, <1>6
      <3>2. x.run.round = i - 1 /\ x.run.round = j - 1
        BY <3>1, <1>10 DEF RowsAt
      <3> QED BY <3>2, <2>2, <1>2
    <2>3. Apart(kept)
      BY <2>1, <2>2, <1>5 DEF Apart
    <2> QED BY <2>3, <1>8
  <1> QED BY <1>9, <1>12, <1>13, <1>14 DEF SplitParts, Kept

\* What is kept and what is dropped are between them every sample.
LEMMA SplitKeepsAll ==
  ASSUME SamplesInv, SplitRounds, pc' # "leaving"
  PROVE  /\ IsLog(keep') /\ IsLog(todo')
         /\ Samples(keep') \subseteq Samples(slog)
         /\ Samples(slog) \subseteq Samples(keep') \cup Samples(todo')
  <1>1. SplitParts(seeds, slog, keep', todo')
    BY SplitIntoParts
  <1>2. IsLog(keep') /\ IsLog(todo') /\ IsLog(slog)
    BY <1>1 DEF SplitParts, SamplesInv, RowsInRange
  <1>3. /\ Samples(keep') = Range(keep') \ {Garbled} /\ Samples(todo') = Range(todo') \ {Garbled}
    BY <1>2, SamplesOf
  <1>4. ASSUME NEW x \in Samples(keep') PROVE x \in Samples(slog)
    <2>1. PICK r \in Rounds(seeds) : \E j \in RowsAt(slog, r) : x = slog[j]
      BY <1>1, <1>3 DEF SplitParts
    <2> QED BY <2>1 DEF RowsAt, Samples
  <1>5. ASSUME NEW x \in Samples(slog) PROVE x \in Samples(keep') \cup Samples(todo')
    <2>1. PICK j \in DOMAIN slog : slog[j] # Garbled /\ x = slog[j]
      BY DEF Samples
    <2> DEFINE r == x.run.round
    <2>2. r \in Rounds(seeds)
      BY DEF SamplesInv, RowsInRange, MetaOk, SplitRounds, InPhase, Going
    <2>3. j \in RowsAt(slog, r)
      BY <2>1 DEF RowsAt
    <2> HIDE DEF r
    <2> QED BY <2>1, <2>2, <2>3, <1>1, <1>3 DEF SplitParts
  <1> QED BY <1>2, <1>4, <1>5

\* Every step keeps the samples and what is known of them.
LEMMA NextSamples ==
  ASSUME SamplesInv, [Next]_vars
  PROVE  SamplesInv'
  <1> USE DEF SamplesInv
  <1>0. IsLog(slog) /\ IsLog(dropped) /\ why \in Outcomes \cup {None}
    BY DEF RowsInRange, MetaOk
  <1>1. ASSUME UNCHANGED <<meta, used, seeds, slog, dropped, torn, taken, lost, pc, todo, keep>>,
               why' \in Outcomes \cup {None}
        PROVE  SamplesInv'
    BY <1>1 DEF MetaOk, RowsInRange, Splitting, NoSampleLost
  <1>2. ASSUME UNCHANGED <<meta, used, seeds, slog, dropped, taken, lost>>,
               why' \in Outcomes \cup {None}, pc \notin {"idle", "opened"},
               pc' \in {"building", "splitting", "stopping", "leaving"}
        PROVE  SamplesInv'
    BY <1>2 DEF MetaOk, RowsInRange, Splitting, NoSampleLost
  <1>3. ASSUME NEW b \in AllBuilds, Claim(b) \/ Spawn(b) \/ Built(b) \/ Terminate(b) PROVE SamplesInv'
    BY <1>3, <1>0, <1>1 DEF Claim, Spawn, Built, Terminate, disk, trims
  <1>4. ASSUME NEW b \in AllBuilds, Record(b) \/ LinkBuild(b) PROVE SamplesInv'
    <2>1. pc = "building" /\ pc' \in {"building", "stopping"} /\ why' \in {None, "aborted"}
      BY <1>4 DEF Record, LinkBuild, Recorded, InPhase, Going
    <2>2. UNCHANGED <<meta, used, seeds, slog, dropped, taken, lost>>
      BY <1>4 DEF Record, LinkBuild
    <2> QED BY <2>1, <2>2, <1>2 DEF Outcomes
  <1>5. ASSUME NEW b \in AllBuilds, Raised(b) PROVE SamplesInv'
    BY <1>5, <1>2 DEF Raised, Going, Outcomes, disk
  <1>6. ASSUME Open PROVE SamplesInv'
    <2>1. pc = "opened" /\ pc' \in {"opening", "leaving"} /\ meta' # None /\ meta'.seeds = seeds
          /\ seeds \in SeedLists /\ meta' \in [seeds : SeedLists, status : Outcomes \cup {None}]
      <3>1. seeds \in SeedLists /\ pc = "opened" /\ pc' \in {"opening", "leaving"}
        BY <1>6 DEF Open, MetaOk
      <3>2. (IF meta = None THEN None ELSE meta.status) \in Outcomes \cup {None}
        BY DEF MetaOk
      <3>3. meta' = [seeds |-> seeds, status |-> IF meta = None THEN None ELSE meta.status]
        BY <1>6 DEF Open
      <3>4. meta' \in [seeds : SeedLists, status : Outcomes \cup {None}] /\ meta'.seeds = seeds
        BY <3>1, <3>2, <3>3
      <3> QED BY <3>1, <3>4, SessionAssumption
    <2>2. UNCHANGED <<used, seeds, slog, dropped, taken, lost>> /\ why' \in {why, "failed"}
      BY <1>6 DEF Open
    <2>3. used'
      BY <2>1, <2>2, <1>6 DEF MetaOk
    <2>4. MetaOk'
      BY <1>0, <2>1, <2>2, <2>3 DEF MetaOk, Outcomes
    <2>5. \A row \in Samples(slog) : row.run.round \in Rounds(seeds)
      <3>1. CASE meta = None
        <4>1. slog = <<>>
          BY <3>1 DEF MetaOk
        <4> QED BY <4>1 DEF Samples
      <3>2. CASE meta # None
        <4>1. meta.seeds \in SeedLists /\ Len(meta.seeds) <= Len(seeds)
          BY <3>2, <2>1 DEF MetaOk
        <4>2. Len(meta.seeds) \in Nat /\ Len(seeds) \in Nat
          BY <4>1, <2>1, SessionAssumption
        <4>3. Rounds(meta.seeds) \subseteq Rounds(seeds)
          BY <4>1, <4>2 DEF Rounds
        <4> QED BY <3>2, <4>3 DEF RowsInRange
      <3> QED BY <3>1, <3>2
    <2>6. RowsInRange'
      BY <1>0, <2>1, <2>2, <2>5 DEF RowsInRange
    <2> QED BY <2>1, <2>2, <2>4, <2>6 DEF Splitting, NoSampleLost
  <1>7. ASSUME ReadBuilds \/ RewriteBuilds \/ Stopped \/ Finished PROVE SamplesInv'
    <2>1. pc \notin {"idle", "opened"} /\ pc' \in {"building", "splitting", "stopping", "leaving"}
          /\ why' \in {why, "done"}
      BY <1>7 DEF ReadBuilds, RewriteBuilds, Stopped, Finished, InPhase, Going
    <2>2. UNCHANGED <<meta, used, seeds, slog, dropped, taken, lost>>
      BY <1>7 DEF ReadBuilds, RewriteBuilds, Stopped, Finished, disk
    <2> QED BY <2>1, <2>2, <1>0, <1>2 DEF Outcomes
  <1>8. ASSUME SplitRounds PROVE SamplesInv'
    <2>1. UNCHANGED <<meta, used, seeds, slog, dropped, taken, lost>> /\ pc = "splitting"
      BY <1>8 DEF SplitRounds, InPhase, Going
    <2>2. CASE pc' = "leaving"
      <3>1. why' \in Outcomes \cup {None}
        BY <1>0, <1>8 DEF SplitRounds, Outcomes
      <3> QED BY <2>1, <2>2, <3>1, <1>2
    <2>3. CASE pc' # "leaving"
      <3>1. pc' = "trimming" /\ why' = why
        BY <1>8, <2>3 DEF SplitRounds
      <3>2. MetaOk' /\ RowsInRange'
        BY <2>1, <3>1 DEF MetaOk, RowsInRange
      <3>3. /\ IsLog(keep') /\ IsLog(todo') /\ Samples(keep') \subseteq Samples(slog)
            /\ Samples(slog) \subseteq Samples(keep') \cup Samples(todo')
        BY <1>8, <2>3, SplitKeepsAll
      <3>4. Splitting'
        BY <2>1, <3>1, <3>3 DEF Splitting
      <3> QED BY <2>1, <3>2, <3>4 DEF NoSampleLost
    <2> QED BY <2>2, <2>3
  <1>21. ASSUME OpenDropped PROVE SamplesInv'
    <2>1. /\ UNCHANGED <<meta, used, seeds, slog, dropped, taken, lost, keep, todo>> /\ pc = "trimming"
          /\ torn' = torn \ {"samples"} /\ why' \in {why, "failed"}
          /\ pc' \in {"reference", "dropping", "leaving"}
      BY <1>21 DEF OpenDropped, InPhase, Going, Trim
    <2>2. MetaOk' /\ RowsInRange'
      BY <1>0, <2>1 DEF MetaOk, RowsInRange, Outcomes
    <2>3. Splitting' /\ NoSampleLost'
      BY <2>1 DEF Splitting, NoSampleLost
    <2> QED BY <2>2, <2>3
  <1>22. ASSUME Interrupted \/ Crash PROVE SamplesInv'
    <2>1. /\ UNCHANGED <<meta, used, seeds, taken>>
          /\ \/ pc' = "idle" /\ why' = None
             \/ pc \notin {"idle", "opened"} /\ pc' \in {"stopping", "leaving"} /\ why' = "interrupted"
      BY <1>22 DEF Interrupted, Crash, Gone, Going
    <2>2. PICK took : Cutting(took)
      BY <1>0, <1>22, CutLogs
    <2>3. /\ IsCut(slog', slog) /\ IsCut(dropped', dropped)
          /\ Samples(slog) \cup Samples(dropped) = Samples(slog') \cup Samples(dropped') \cup took
          /\ lost' = IF took = {} THEN lost ELSE Append(lost, took)
      BY <2>2 DEF Cutting
    <2>4. IsLog(slog') /\ IsLog(dropped') /\ Samples(slog') \subseteq Samples(slog)
      BY <1>0, <2>3, CutElements
    <2>5. IsLog(lost') /\ UNION Range(lost') = took \cup UNION Range(lost)
      <3> DEFINE L == Range(lost) \cup {took}
      <3>1. lost \in Seq(L) /\ took \in L /\ IsLog(lost)
        BY DEF RowsInRange, IsLog
      <3> HIDE DEF L
      <3>2. Append(lost, took) \in Seq(L) /\ Range(Append(lost, took)) = Range(lost) \cup {took}
        BY <3>1, AppendElements
      <3> QED BY <2>3, <3>1, <3>2, SeqIsLog
    <2>6. slog = <<>> => slog' = <<>>
      <3>1. CASE slog = <<>>
        <4>1. Len(slog') = 0 /\ IsLog(slog')
          BY <1>0, <2>3, <3>1, CutElements
        <4> QED BY <4>1 DEF IsLog
      <3> QED BY <3>1
    <2>7. MetaOk'
      BY <2>1, <2>6 DEF MetaOk, Outcomes
    <2>8. RowsInRange'
      BY <2>1, <2>4, <2>5 DEF RowsInRange
    <2>9. NoSampleLost'
      BY <2>1, <2>3, <2>5 DEF NoSampleLost
    <2> QED BY <2>1, <2>7, <2>8, <2>9 DEF Splitting
  <1>9. ASSUME DropRow PROVE SamplesInv'
    <2>1. UNCHANGED <<meta, used, seeds, slog, taken, lost, why, keep, pc>> /\ pc = "dropping" /\ todo # <<>>
          /\ dropped' = Append(dropped, Head(todo)) /\ todo' = Tail(todo) /\ torn' \subseteq torn
      BY <1>9 DEF DropRow, InPhase, Going, Trim
    <2>2. IsLog(todo)
      BY <2>1 DEF Splitting
    <2>3. /\ IsLog(todo') /\ Samples(todo) = Samples(todo') \cup ({Head(todo)} \ {Garbled})
      BY <2>1, <2>2, DropHead
    <2>4. IsLog(dropped') /\ Samples(dropped') = Samples(dropped) \cup ({Head(todo)} \ {Garbled})
      BY <2>1, <1>0, AppendRow
    <2>5. MetaOk'
      BY <2>1 DEF MetaOk
    <2>6. RowsInRange'
      BY <2>1, <2>4 DEF RowsInRange
    <2>7. Splitting'
      BY <2>1, <2>3, <2>4 DEF Splitting
    <2>8. NoSampleLost'
      BY <2>1, <2>4 DEF NoSampleLost
    <2> QED BY <2>5, <2>6, <2>7, <2>8
  <1>10. ASSUME RewriteSamples PROVE SamplesInv'
    <2>1. UNCHANGED <<meta, used, seeds, torn, taken, lost, why, keep, todo, dropped>> /\ pc = "dropping"
          /\ todo = <<>> /\ slog' = keep /\ pc' = "reference"
      BY <1>10 DEF RewriteSamples, InPhase, Going
    <2>2. Samples(todo) = {}
      BY <2>1 DEF Samples
    <2>3. IsLog(slog') /\ Samples(slog') \subseteq Samples(slog)
          /\ Samples(slog) \subseteq Samples(slog') \cup Samples(dropped)
      BY <2>1, <2>2 DEF Splitting
    <2>4. MetaOk'
      BY <2>1 DEF MetaOk
    <2>5. RowsInRange'
      BY <2>1, <2>3 DEF RowsInRange
    <2>6. Splitting'
      BY <2>1 DEF Splitting
    <2>7. NoSampleLost'
      BY <2>1, <2>3 DEF NoSampleLost
    <2> QED BY <2>4, <2>5, <2>6, <2>7
  <1>11. ASSUME OpenReference PROVE SamplesInv'
    <2>1. UNCHANGED <<meta, used, seeds, slog, dropped, torn, taken, lost>> /\ pc = "reference"
          /\ ((pc' = "writing" /\ why' = why) \/ (pc' = "leaving" /\ why' = "aborted"))
      BY <1>11 DEF OpenReference, InPhase, Going, trims
    <2>2. CASE pc' = "leaving"
      BY <2>1, <2>2, <1>0, <1>2 DEF Outcomes
    <2>3. CASE pc' = "writing"
      <3>1. why' \in Outcomes \cup {None}
        BY <2>1, <2>3, <1>0
      <3>2. MetaOk'
        BY <2>1, <2>3, <3>1 DEF MetaOk
      <3> QED BY <2>1, <2>3, <3>2 DEF RowsInRange, Splitting, NoSampleLost
    <2> QED BY <2>1, <2>2, <2>3
  <1>12. ASSUME HaveReference PROVE SamplesInv'
    <2>1. UNCHANGED <<meta, used, seeds, slog, dropped, torn, taken, lost, why>>
          /\ pc \in {"writing", "reference"} /\ pc' = "timed"
      BY <1>12 DEF HaveReference, InPhase, Going, trims
    <2>2. seeds \in Seq(Int) /\ K \in Nat \ {0} /\ Reps \in Nat
      <3>1. seeds \in SeedLists
        BY <2>1 DEF MetaOk
      <3> QED BY <3>1, SessionAssumption DEF K
    <2> DEFINE runs == TimedPlan(seeds, K, Reps)
               at == {i \in DOMAIN runs : ~FinishedIn(slog, runs[i].round)}
    <2>3. todo' = Sift(runs, at)
      BY <1>12 DEF HaveReference
    <2>4. IsLog(runs) /\ \A run \in Range(runs) : run.round \in Rounds(seeds)
      BY <2>2, TimedPlanHolds DEF PlanHolds
    <2> HIDE DEF runs, at
    <2>5. IsLog(todo') /\ Range(todo') \subseteq Range(runs)
      <3> DEFINE S == Range(runs)
      <3>1. runs \in Seq(S)
        BY <2>4 DEF IsLog
      <3> HIDE DEF S
      <3>2. todo' \in Seq(S) /\ Range(todo') = {runs[i] : i \in DOMAIN runs \cap at}
        BY <2>3, <3>1, SiftElements
      <3>3. IsLog(todo')
        BY <3>2, SeqIsLog
      <3> QED BY <3>2, <3>3 DEF Range
    <2>6. MetaOk'
      BY <2>1 DEF MetaOk
    <2>7. RowsInRange'
      BY <2>1, <2>4, <2>5 DEF RowsInRange
    <2> QED BY <2>1, <2>6, <2>7 DEF Splitting, NoSampleLost
  <1>13. ASSUME Timed PROVE SamplesInv'
    <2> DEFINE row == [run |-> Head(todo), ok |-> OutputOk(Head(todo)), session |-> session]
    <2>1. UNCHANGED <<meta, used, seeds, dropped, torn, lost>> /\ pc = "timed" /\ todo # <<>>
          /\ pc' \in {"timed", "leaving"} /\ why' \in {None, "aborted"} /\ todo' = Tail(todo)
      BY <1>13 DEF Timed, InPhase, Going
    <2>2. slog' = Append(slog, row) /\ taken' = taken \cup {row}
      BY <1>13, <2>1 DEF Timed, Append1, Splitting
    <2>3. row.run = Head(todo) /\ row # Garbled
      <3>1. DOMAIN row = {"run", "ok", "session"} /\ DOMAIN Garbled = {"garbled"}
        BY DEF Garbled
      <3>2. "run" \notin {"garbled"}
        OBVIOUS
      <3>3. row # Garbled
        BY <3>1, <3>2
      <3> QED BY <3>3
    <2> HIDE DEF row
    <2>4. IsLog(todo) /\ \A run \in Range(todo) : run.round \in Rounds(seeds)
      BY <2>1 DEF RowsInRange
    <2>5. IsLog(todo') /\ Head(todo) \in Range(todo) /\ Range(todo') \subseteq Range(todo)
      BY <2>1, <2>4, DropHead
    <2>6. /\ IsLog(slog') /\ Samples(slog') = Samples(slog) \cup ({row} \ {Garbled})
          /\ row \in Samples(slog')
      BY <2>2, <2>3, <1>0, AppendRow
    <2>7. meta # None /\ meta.seeds = seeds /\ seeds \in SeedLists
      BY <2>1 DEF MetaOk
    <2>8. MetaOk'
      BY <2>1, <2>7 DEF MetaOk, Outcomes
    <2>9. RowsInRange'
      <3>1. \A r \in Samples(slog') : r.run.round \in Rounds(seeds)
        BY <2>3, <2>4, <2>5, <2>6, <2>7 DEF RowsInRange
      <3>2. \A run \in Range(todo') : run.round \in Rounds(seeds)
        BY <2>4, <2>5
      <3> QED BY <2>1, <2>5, <2>6, <2>7, <3>1, <3>2, <1>0 DEF RowsInRange
    <2>10. Splitting'
      BY <2>1 DEF Splitting
    <2>11. NoSampleLost'
      BY <2>1, <2>2, <2>6 DEF NoSampleLost
    <2> QED BY <2>8, <2>9, <2>10, <2>11
  <1>14. ASSUME Leave PROVE SamplesInv'
    <2>1. UNCHANGED <<used, seeds, slog, dropped, torn, taken, lost>> /\ pc = "leaving" /\ pc' = "idle"
          /\ why' = None /\ meta' = [meta EXCEPT !.status = why]
      BY <1>14 DEF Leave, Gone, trims
    <2>2. meta \in [seeds : SeedLists, status : Outcomes \cup {None}] /\ meta # None
      BY <2>1 DEF MetaOk
    <2>3. meta' \in [seeds : SeedLists, status : Outcomes \cup {None}] /\ meta'.seeds = meta.seeds
      BY <2>1, <2>2, <1>0
    <2>4. meta' # None
      BY <2>3, SessionAssumption
    <2>5. MetaOk'
      BY <2>1, <2>2, <2>3, <2>4 DEF MetaOk
    <2>6. RowsInRange'
      BY <2>1, <2>2, <2>3 DEF RowsInRange
    <2> QED BY <2>1, <2>5, <2>6 DEF Splitting, NoSampleLost
  <1>16. ASSUME NEW l \in SeedLists, Run(l) \/ Resume(l) PROVE SamplesInv'
    <2>1. UNCHANGED <<meta, slog, dropped, taken, lost, why>> /\ seeds' = l /\ pc' = "opened" /\ used'
          /\ (meta # None => Len(meta.seeds) <= Len(l))
      <3>1. CASE Run(l)
        <4>1. meta = None
          BY <3>1 DEF Run, MetaOk
        <4> QED BY <3>1, <4>1 DEF Run, Begin
      <3>2. CASE Resume(l)
        <4>1. Len(l) \in Int /\ Len(l) >= Len(meta.seeds) /\ meta # None
          BY <3>2, SessionAssumption DEF Resume
        <4>2. Len(meta.seeds) \in Int
          BY <4>1, SessionAssumption DEF MetaOk
        <4> QED BY <3>2, <4>1, <4>2 DEF Resume, Begin
      <3> QED BY <1>16, <3>1, <3>2
    <2>2. MetaOk'
      BY <2>1 DEF MetaOk
    <2> QED BY <2>1, <2>2 DEF RowsInRange, Splitting, NoSampleLost
  <1>17. ASSUME Empty PROVE SamplesInv'
    <2>1. UNCHANGED <<meta, slog, dropped, taken, lost, why, seeds, pc>> /\ pc = "idle" /\ meta = None
      BY <1>17 DEF Empty, driver
    <2>2. MetaOk'
      BY <2>1 DEF MetaOk
    <2> QED BY <2>1, <2>2 DEF RowsInRange, Splitting, NoSampleLost
  <1>18. ASSUME Interrupt PROVE SamplesInv'
    BY <1>18, <1>0, <1>1 DEF Interrupt, disk, trims
  <1>19. CASE UNCHANGED vars
    BY <1>19, <1>0, <1>1 DEF vars, driver, disk, trims
  <1>20. CASE Next
    BY <1>20, <1>3, <1>4, <1>5, <1>6, <1>7, <1>8, <1>9, <1>10, <1>11, <1>12, <1>13, <1>14, <1>16,
       <1>17, <1>18, <1>21, <1>22
       DEF Next, Step, Start
  <1> QED BY <1>19, <1>20

\* A directory that is new has no samples.
LEMMA InitSamples ==
  ASSUME Init
  PROVE  SamplesInv
  <1>1. IsLog(<<>>) /\ Samples(<<>>) = {}
    BY DEF IsLog, Samples
  <1> QED BY <1>1 DEF Init, Idle, SamplesInv, MetaOk, RowsInRange, Splitting, NoSampleLost

\* NoSampleLost: every sample ever appended is in samples.tsv or in
\* samples.dropped.tsv, or was in one of these when Ctrl-C or a power loss cut
\* a session short while _trim had it open, its rows not yet flushed again;
\* however many sessions end early, in whichever step, and whichever rounds
\* they complete (ab.experiment, TsvLog).
THEOREM SamplesAreKept == Spec => []NoSampleLost
  <1>1. Init => SamplesInv
    BY InitSamples
  <1>2. SamplesInv /\ [Next]_vars => SamplesInv'
    BY NextSamples
  <1>3. SamplesInv => NoSampleLost
    BY DEF SamplesInv
  <1> QED BY <1>1, <1>2, <1>3, PTL DEF Spec

(***************************************************************************)
(* What is timed is what was built.                                        *)
(***************************************************************************)

\* A set of positions that is not empty has a last one.
LEMMA LastPosition ==
  ASSUME NEW n \in Nat, NEW at \in SUBSET (1 .. n), at # {}
  PROVE  \E i \in at : \A j \in at : j <= i
  <1> DEFINE r == [i \in at |-> n - i]
  <1>1. IsFiniteSet(at)
    <2>1. IsFiniteSet(1 .. n)
      BY FS_Interval
    <2> QED BY <2>1, FS_Subset
  <1>2. r \in [at -> Int]
    OBVIOUS
  <1>3. \E i \in at : \A j \in at : r[i] <= r[j]
    <2> HIDE DEF r
    <2> QED BY <1>1, <1>2, LowestRank
  <1>4. PICK i \in at : \A j \in at : r[i] <= r[j]
    BY <1>3
  <1>5. \A j \in at : n - i <= n - j /\ i \in Int /\ j \in Int
    BY <1>4
  <1>6. \A j \in at : j <= i
    BY <1>5
  <1> QED BY <1>6

\* The plan has the controls of the native arms, and every arm's build with
\* every seed, and no other (ab_build.plan_builds).
LEMMA PlanElements ==
  ASSUME NEW l \in SeedLists, SeedsOk(l)
  PROVE  /\ PlanBuilds(l) \in Seq(AllBuilds)
         /\ \A a \in Arms : Native(a) =>
              {Build(a, "seed0", 0), Build(a, "noflag", 0)} \subseteq Range(PlanBuilds(l))
         /\ \A a \in Arms, i \in DOMAIN l : Build(a, "seed", l[i]) \in Range(PlanBuilds(l))
  <1> DEFINE S == AllBuilds
             arms == [i \in 1 .. K |-> i - 1]
             controls(a) == IF Native(a) THEN <<Build(a, "seed0", 0), Build(a, "noflag", 0)>> ELSE <<>>
             row(i) == IF i % 2 = 1 THEN arms ELSE Reverse(arms)
             seeded(i) == [j \in 1 .. K |-> Build(row(i)[j], "seed", l[i])]
             first == [i \in 1 .. K |-> controls(arms[i])]
             rest == [i \in DOMAIN l |-> seeded(i)]
  <1>1. PlanBuilds(l) = FlattenSeq(first) \o FlattenSeq(rest)
    BY Zenon DEF PlanBuilds
  <1>2. K \in Nat /\ l \in Seq(Int) /\ DOMAIN l = 1 .. Len(l) /\ Len(l) \in Nat
    BY SessionAssumption DEF K
  <1>3. arms \in Seq(Arms) /\ Len(arms) = K /\ \A i \in 1 .. K : arms[i] = i - 1
    <2>1. \A i \in 1 .. K : i - 1 \in Arms
      BY <1>2 DEF Arms
    <2> QED BY <1>2, <2>1
  <1> DEFINE back == Reverse(arms)
  <1>4. \A i \in 1 .. K : back[i] = arms[K - i + 1] /\ K - i + 1 \in 1 .. K
    <2> HIDE DEF arms
    <2>1. back = [i \in 1 .. K |-> arms[K - i + 1]]
      BY <1>3 DEF Reverse
    <2>2. \A i \in 1 .. K : K - i + 1 \in 1 .. K
      BY <1>2
    <2> HIDE DEF back
    <2> QED BY <2>1, <2>2
  <1>5. \A i \in DOMAIN l, j \in 1 .. K : row(i)[j] \in Arms
    <2>1. \A j \in 1 .. K : arms[j] \in Arms
      BY <1>2, <1>3 DEF Arms
    <2> HIDE DEF arms
    <2>2. \A j \in 1 .. K : back[j] \in Arms
      BY <2>1, <1>4
    <2> QED BY <2>1, <2>2
  <1>6. \A i \in DOMAIN l, a \in Arms : \E j \in 1 .. K : row(i)[j] = a
    <2>1. \A a \in Arms : \E j \in 1 .. K : arms[j] = a
      <3>1. \A a \in Arms : a + 1 \in 1 .. K /\ (a + 1) - 1 = a
        BY <1>2 DEF Arms
      <3> QED BY <3>1, <1>3
    <2>2. \A a \in Arms : \E j \in 1 .. K : back[j] = a
      <3> SUFFICES ASSUME NEW a \in Arms PROVE \E j \in 1 .. K : back[j] = a
        OBVIOUS
      <3>1. PICK j \in 1 .. K : arms[j] = a
        BY <2>1
      <3>2. K - j + 1 \in 1 .. K /\ K - (K - j + 1) + 1 = j
        BY <1>2
      <3> HIDE DEF back, arms
      <3> QED BY <3>1, <3>2, <1>4
    <2> HIDE DEF arms
    <2> QED BY <2>1, <2>2
  <1>7. \A a \in Arms : controls(a) \in Seq(S)
    <2>1. ASSUME NEW a \in Arms, Native(a)
          PROVE  Build(a, "seed0", 0) \in S /\ Build(a, "noflag", 0) \in S
      BY <2>1 DEF AllBuilds
    <2> HIDE DEF S
    <2> QED BY <2>1
  <1>8. first \in Seq(Seq(S)) /\ DOMAIN first = 1 .. K
    <2>1. \A i \in 1 .. K : controls(arms[i]) \in Seq(S)
      <3>1. \A i \in 1 .. K : arms[i] \in Arms
        BY <1>2, <1>3 DEF Arms
      <3> HIDE DEF controls, arms, S
      <3> QED BY <3>1, <1>7
    <2> HIDE DEF controls, arms, S
    <2> QED BY <2>1, <1>2
  <1>9. \A i \in DOMAIN l : seeded(i) \in Seq(S)
    <2> SUFFICES ASSUME NEW i \in DOMAIN l PROVE seeded(i) \in Seq(S)
      OBVIOUS
    <2>1. l[i] \in AllSeeds
      BY DEF AllSeeds, Range
    <2>2. \A a \in Arms : Build(a, "seed", l[i]) \in S
      BY <2>1 DEF AllBuilds, Build
    <2> HIDE DEF row, S
    <2> QED BY <2>2, <1>2, <1>5
  <1>10. rest \in Seq(Seq(S)) /\ DOMAIN rest = DOMAIN l
    <2> HIDE DEF seeded, S
    <2> QED BY <1>2, <1>9
  <1>11. /\ FlattenSeq(first) \in Seq(S)
         /\ Range(FlattenSeq(first)) = UNION {Range(first[i]) : i \in DOMAIN first}
    <2> HIDE DEF first, S
    <2> QED BY <1>8, FlattenElements
  <1>12. /\ FlattenSeq(rest) \in Seq(S)
         /\ Range(FlattenSeq(rest)) = UNION {Range(rest[i]) : i \in DOMAIN rest}
    <2> HIDE DEF rest, S
    <2> QED BY <1>10, FlattenElements
  <1>13. /\ PlanBuilds(l) \in Seq(S)
         /\ Range(PlanBuilds(l)) = Range(FlattenSeq(first)) \cup Range(FlattenSeq(rest))
    <2> HIDE DEF first, rest, S
    <2> QED BY <1>1, <1>11, <1>12, JoinElements
  <1>14. ASSUME NEW a \in Arms, Native(a)
         PROVE  {Build(a, "seed0", 0), Build(a, "noflag", 0)} \subseteq Range(FlattenSeq(first))
    <2>1. PICK i \in 1 .. K : arms[i] = a
      <3>1. a + 1 \in 1 .. K /\ (a + 1) - 1 = a
        BY <1>2 DEF Arms
      <3> QED BY <3>1, <1>3
    <2>2. first[i] = <<Build(a, "seed0", 0), Build(a, "noflag", 0)>>
      <3> HIDE DEF arms
      <3> QED BY <1>14, <2>1
    <2> DEFINE x == Build(a, "seed0", 0)
               y == Build(a, "noflag", 0)
    <2>3. Range(<<x, y>>) = {x, y}
      <3> HIDE DEF x, y
      <3> QED BY DEF Range
    <2> HIDE DEF first
    <2> QED BY <2>2, <2>3, <1>8, <1>11
  <1>15. ASSUME NEW a \in Arms, NEW i \in DOMAIN l
         PROVE  Build(a, "seed", l[i]) \in Range(FlattenSeq(rest))
    <2>1. PICK j \in 1 .. K : row(i)[j] = a
      BY <1>6
    <2>2. Build(a, "seed", l[i]) \in Range(seeded(i))
      <3> HIDE DEF row
      <3> QED BY <2>1 DEF Range
    <2>3. rest[i] = seeded(i)
      <3> HIDE DEF seeded
      <3> QED OBVIOUS
    <2> HIDE DEF rest, seeded
    <2> QED BY <2>2, <2>3, <1>10, <1>12
  <1> QED BY <1>13, <1>14, <1>15

\* What the compiler under test makes of each build.
Made == [b \in AllBuilds |-> Output(b)]

\* Whether the builds recorded so far must stop the experiment.
Bad == Rejected(done)

\* A row of builds.tsv that was not cut short names a build, and for a native
\* build what the compiler makes of it.
BlogOk(log, out) ==
  /\ IsLog(log)
  /\ \A row \in Samples(log) : Native(row.build.arm) => row.contents = out[row.build]

OldOk(rows, out) ==
  \A b \in DOMAIN rows : b \in AllBuilds /\ (Native(b.arm) => rows[b] = out[b])

\* What the thread pool has done with each build, the store and the rows.
TasksOk(tasks, store, rows, before, out) ==
  /\ tasks \in [AllBuilds -> TaskStates] /\ DOMAIN store = AllBuilds
  /\ DOMAIN rows = {b \in AllBuilds : tasks[b] = "done"}
  /\ \A b \in AllBuilds :
       /\ tasks[b] = "reused" => b \in DOMAIN before /\ store[b] = before[b]
       /\ tasks[b] = "done" => rows[b] = store[b]
       /\ tasks[b] \in {"ready", "done"} /\ Native(b.arm) => store[b] = out[b]
       /\ tasks[b] = "linked" => ~Native(b.arm)

Before == {"idle", "opened", "opening"}
After == {"splitting", "trimming", "dropping", "reference", "writing", "timed"}

RowsOfPlan(builds, rows) ==
  [i \in DOMAIN builds |-> [build |-> builds[i], contents |-> rows[builds[i]]]]

PhaseOk(at, l, builds, rows, log, bad) ==
  /\ at \in Before => rows = <<>>
  /\ at # "idle" => l \in SeedLists /\ SeedsOk(l) /\ builds = PlanBuilds(l)
  /\ at \in After \cup {"building"} => ~bad
  /\ at \in After => Range(builds) \subseteq DOMAIN rows /\ log = RowsOfPlan(builds, rows)

BuildsInv ==
  /\ BlogOk(blog, Made) /\ OldOk(old, Made) /\ TasksOk(task, bin, done, old, Made)
  /\ PhaseOk(pc, seeds, plan, done, blog, Bad)

\* One build changes state: what its binary and its row must then be.
TaskStep(tasks, store, rows, before, out, b, t, tasks2, store2, rows2) ==
  /\ b \in AllBuilds /\ tasks[b] # "done" /\ t \in TaskStates /\ tasks2 = [tasks EXCEPT ![b] = t]
  /\ DOMAIN store2 = AllBuilds /\ \A c \in AllBuilds : c # b => store2[c] = store[c]
  /\ t # "done" => rows2 = rows
  /\ t = "done" => /\ DOMAIN rows2 = DOMAIN rows \cup {b} /\ rows2[b] = store2[b]
                   /\ \A c \in DOMAIN rows : rows2[c] = rows[c]
  /\ t = "reused" => b \in DOMAIN before /\ store2[b] = before[b]
  /\ t \in {"ready", "done"} /\ Native(b.arm) => store2[b] = out[b]
  /\ t = "linked" => ~Native(b.arm)

\* Such a change keeps what is known of all builds.
LEMMA OneTask ==
  ASSUME NEW tasks, NEW store, NEW rows, NEW before, NEW out, NEW b, NEW t, NEW tasks2, NEW store2, NEW rows2,
         TasksOk(tasks, store, rows, before, out),
         TaskStep(tasks, store, rows, before, out, b, t, tasks2, store2, rows2)
  PROVE  TasksOk(tasks2, store2, rows2, before, out)
  <1> USE DEF TaskStep
  <1>1. tasks \in [AllBuilds -> TaskStates]
    BY DEF TasksOk
  <1>2. tasks2 \in [AllBuilds -> TaskStates]
    BY <1>1
  <1>3. \A c \in AllBuilds : tasks2[c] = IF c = b THEN t ELSE tasks[c]
    BY <1>1
  <1>4. DOMAIN rows2 = {c \in AllBuilds : tasks2[c] = "done"}
    <2>1. DOMAIN rows = {c \in AllBuilds : tasks[c] = "done"}
      BY DEF TasksOk
    <2>2. CASE t = "done"
      BY <2>1, <2>2, <1>3
    <2>3. CASE t # "done"
      BY <2>1, <2>3, <1>3
    <2> QED BY <2>2, <2>3
  <1>5. ASSUME NEW c \in AllBuilds
        PROVE  /\ tasks2[c] = "reused" => c \in DOMAIN before /\ store2[c] = before[c]
               /\ tasks2[c] = "done" => rows2[c] = store2[c]
               /\ tasks2[c] \in {"ready", "done"} /\ Native(c.arm) => store2[c] = out[c]
               /\ tasks2[c] = "linked" => ~Native(c.arm)
    <2>1. CASE c = b
      BY <2>1, <1>3
    <2>2. CASE c # b
      <3>1. tasks2[c] = tasks[c] /\ store2[c] = store[c]
        BY <2>2, <1>3
      <3>2. tasks[c] = "done" => rows2[c] = rows[c]
        <4>1. tasks[c] = "done" => c \in DOMAIN rows
          BY DEF TasksOk
        <4> QED BY <4>1
      <3> QED BY <3>1, <3>2 DEF TasksOk
    <2> QED BY <2>1, <2>2
  <1> QED BY <1>2, <1>4, <1>5 DEF TasksOk

\* The rows by path are those of the log (ab_store.TsvLog, ab.experiment).
LEMMA ByPathRows ==
  ASSUME NEW log, NEW out, BlogOk(log, out)
  PROVE  OldOk(ByPath(log), out)
  <1> DEFINE at(b) == {i \in DOMAIN log : log[i] # Garbled /\ log[i].build = b}
             last(b) == CHOOSE i \in at(b) : \A j \in at(b) : j <= i
             rows == [b \in {x \in AllBuilds : at(x) # {}} |-> log[last(b)].contents]
  <1>1. ByPath(log) = rows
    BY Zenon DEF ByPath
  <1>2. ASSUME NEW b \in AllBuilds, at(b) # {} PROVE last(b) \in at(b)
    <2>1. Len(log) \in Nat /\ DOMAIN log = 1 .. Len(log)
      BY DEF BlogOk, IsLog
    <2>2. at(b) \in SUBSET (1 .. Len(log))
      BY <2>1
    <2>3. \E i \in at(b) : \A j \in at(b) : j <= i
      <3> HIDE DEF at
      <3> QED BY <1>2, <2>1, <2>2, LastPosition
    <2> HIDE DEF at
    <2> QED BY <2>3
  <1>3. ASSUME NEW b \in DOMAIN rows PROVE b \in AllBuilds /\ (Native(b.arm) => rows[b] = out[b])
    <2>1. b \in AllBuilds /\ at(b) # {} /\ rows[b] = log[last(b)].contents
      OBVIOUS
    <2>2. last(b) \in at(b)
      <3> HIDE DEF at, last, rows
      <3> QED BY <2>1, <1>2
    <2> DEFINE i == last(b)
    <2>3. i \in DOMAIN log /\ log[i] # Garbled /\ log[i].build = b
      <3> HIDE DEF last
      <3> QED BY <2>2
    <2> HIDE DEF i, last, at
    <2>4. log[i] \in Samples(log)
      BY <2>3 DEF Samples
    <2>5. Native(b.arm) => log[i].contents = out[b]
      BY <2>3, <2>4 DEF BlogOk
    <2> QED BY <2>1, <2>5 DEF i
  <1> HIDE DEF rows
  <1> QED BY <1>1, <1>3 DEF OldOk

\* A row appended to builds.tsv, or lost with one cut short before it.
LEMMA AppendBuild ==
  ASSUME NEW log, NEW out, BlogOk(log, out), NEW row,
         Native(row.build.arm) => row.contents = out[row.build]
  PROVE  BlogOk(Append1(log, "builds", row), out)
  <1>1. IsLog(log)
    BY DEF BlogOk
  <1>2. CASE "builds" \in torn
    <2>1. Append1(log, "builds", row) = Append(log, Garbled)
      BY <1>2 DEF Append1
    <2>2. IsLog(Append(log, Garbled)) /\ Samples(Append(log, Garbled)) = Samples(log) \cup ({Garbled} \ {Garbled})
      BY <1>1, AppendRow
    <2> QED BY <2>1, <2>2 DEF BlogOk
  <1>3. CASE "builds" \notin torn
    <2>1. Append1(log, "builds", row) = Append(log, row)
      BY <1>3 DEF Append1
    <2>2. IsLog(Append(log, row)) /\ Samples(Append(log, row)) = Samples(log) \cup ({row} \ {Garbled})
      BY <1>1, AppendRow
    <2> QED BY <2>1, <2>2 DEF BlogOk
  <1> QED BY <1>2, <1>3

\* What recording a build's row keeps, whether its binary was reused, made or
\* linked (ab_build.Builder.run, abort_reasons).
LEMMA RecordedKeeps ==
  ASSUME BuildsInv, flaw' = flaw, UNCHANGED <<seeds, plan, old>>, pc = "building",
         NEW b \in AllBuilds, task[b] # "done", NEW row, NEW reused, Recorded(b, row, reused),
         DOMAIN bin' = AllBuilds, \A c \in AllBuilds : c # b => bin'[c] = bin[c],
         row = bin'[b], Native(b.arm) => row = Made[b]
  PROVE  BuildsInv'
  <1>1. Made' = Made
    BY DEF Made, Output
  <1>2. /\ done' = With(done, b, row) /\ task' = [task EXCEPT ![b] = "done"]
        /\ blog' = IF reused THEN blog ELSE Append1(blog, "builds", [build |-> b, contents |-> row])
        /\ pc' = IF Rejected(done') THEN "stopping" ELSE pc
    BY DEF Recorded
  <1>3. DOMAIN done = {c \in AllBuilds : task[c] = "done"}
    BY DEF BuildsInv, TasksOk
  <1>4. DOMAIN done' = DOMAIN done \cup {b} /\ done'[b] = row /\ \A c \in DOMAIN done : done'[c] = done[c]
    BY <1>2, <1>3 DEF With
  <1>5. TasksOk(task', bin', done', old, Made)
    <2>1. TasksOk(task, bin, done, old, Made) /\ "done" \in TaskStates
      BY DEF BuildsInv, TaskStates
    <2>2. TaskStep(task, bin, done, old, Made, b, "done", task', bin', done')
      BY <1>2, <1>4, <2>1 DEF TaskStep
    <2> QED BY <2>1, <2>2, OneTask
  <1>6. BlogOk(blog', Made)
    <2> DEFINE r == [build |-> b, contents |-> row]
    <2>1. BlogOk(blog, Made)
      BY DEF BuildsInv
    <2>2. Native(r.build.arm) => r.contents = Made[r.build]
      OBVIOUS
    <2> HIDE DEF r
    <2>3. BlogOk(Append1(blog, "builds", r), Made)
      BY <2>1, <2>2, AppendBuild
    <2> QED BY <1>2, <2>1, <2>3 DEF r
  <1>7. Bad' = Rejected(done')
    BY DEF Bad, Rejected, LayoutOk
  <1>8. PhaseOk(pc', seeds, plan, done', blog', Bad')
    BY <1>2, <1>7 DEF BuildsInv, PhaseOk, Before, After
  <1> QED BY <1>1, <1>5, <1>6, <1>8 DEF BuildsInv

\* A step that leaves the pool, the rows and the store alone and moves the
\* driver forward, or out of the session's phases.
LEMMA PhaseMoves ==
  ASSUME BuildsInv, UNCHANGED <<flaw, bin, blog, old, task, done, seeds, plan>>,
         \/ pc' = pc
         \/ pc' \in {"stopping", "leaving"} /\ pc # "idle"
         \/ pc' \in After /\ pc \in After
         \/ pc' = "opening" /\ pc = "opened"
  PROVE  BuildsInv'
  <1>1. Made' = Made /\ Bad' = Bad
    BY DEF Made, Output, Bad, Rejected, LayoutOk
  <1>2. PhaseOk(pc', seeds, plan, done, blog, Bad)
    BY DEF BuildsInv, PhaseOk, Before, After
  <1> QED BY <1>1, <1>2 DEF BuildsInv

\* A worker's step on one build keeps what is known of the builds.
LEMMA WorkerStep ==
  ASSUME BuildsInv, UNCHANGED <<flaw, blog, old, done, seeds, plan, pc>>,
         NEW b, NEW t, t # "done", TaskStep(task, bin, done, old, Made, b, t, task', bin', done')
  PROVE  BuildsInv'
  <1>1. Made' = Made /\ Bad' = Bad
    BY DEF Made, Output, Bad, Rejected, LayoutOk
  <1>2. TasksOk(task', bin', done', old, Made)
    BY OneTask DEF BuildsInv
  <1> QED BY <1>1, <1>2 DEF BuildsInv

\* Every step keeps the store, the rows and the pool in agreement.
LEMMA NextBuilds ==
  ASSUME BuildsInv, [Next]_vars
  PROVE  BuildsInv'
  <1>1. DOMAIN bin = AllBuilds /\ task \in [AllBuilds -> TaskStates]
    BY DEF BuildsInv, TasksOk
  <1>2. \A b \in AllBuilds : Made[b] = Output(b)
    BY DEF Made
  <1>3. ASSUME NEW b \in AllBuilds, Claim(b) PROVE BuildsInv'
    <2>1. UNCHANGED <<flaw, blog, old, done, seeds, plan, pc, bin>>
      BY <1>3 DEF Claim, disk
    <2>2. TaskStep(task, bin, done, old, Made, b, "reused", task', bin', done')
          \/ TaskStep(task, bin, done, old, Made, b, "claimed", task', bin', done')
      BY <1>1, <1>3, <2>1 DEF Claim, TaskStep, TaskStates, Reusable
    <2> QED BY <2>1, <2>2, WorkerStep
  <1>4. ASSUME NEW b \in AllBuilds, Spawn(b) PROVE BuildsInv'
    <2>1. UNCHANGED <<flaw, blog, old, done, seeds, plan, pc>> /\ task[b] = "claimed"
      BY <1>4 DEF Spawn
    <2>2. bin' = bin \/ bin' = [bin EXCEPT ![b] = Torn]
      BY <1>4 DEF Spawn
    <2>3. DOMAIN bin' = AllBuilds /\ \A c \in AllBuilds : c # b => bin'[c] = bin[c]
      BY <1>1, <2>2
    <2>4. TaskStep(task, bin, done, old, Made, b, "cancelled", task', bin', done')
          \/ TaskStep(task, bin, done, old, Made, b, "running", task', bin', done')
      BY <1>4, <2>1, <2>3 DEF Spawn, TaskStep, TaskStates
    <2> QED BY <2>1, <2>4, WorkerStep
  <1>5. ASSUME NEW b \in AllBuilds, Built(b) PROVE BuildsInv'
    <2>1. UNCHANGED <<flaw, blog, old, done, seeds, plan, pc>> /\ task[b] = "running"
      BY <1>5 DEF Built
    <2>2. bin' = bin \/ bin' = [bin EXCEPT ![b] = Output(b)]
      BY <1>5 DEF Built
    <2>3. DOMAIN bin' = AllBuilds /\ \A c \in AllBuilds : c # b => bin'[c] = bin[c]
      BY <1>1, <2>2
    <2>4. CASE Compiles(b)
      <3>1. task' = [task EXCEPT ![b] = "ready"] /\ bin'[b] = Made[b]
        BY <1>1, <1>2, <1>5, <2>4 DEF Built
      <3>2. TaskStep(task, bin, done, old, Made, b, "ready", task', bin', done')
        BY <2>1, <2>3, <3>1 DEF TaskStep, TaskStates
      <3> QED BY <2>1, <3>2, WorkerStep
    <2>5. CASE ~Compiles(b)
      <3>1. TaskStep(task, bin, done, old, Made, b, "broken", task', bin', done')
        BY <1>5, <2>1, <2>3, <2>5 DEF Built, TaskStep, TaskStates
      <3> QED BY <2>1, <3>1, WorkerStep
    <2> QED BY <2>4, <2>5
  <1>6. ASSUME NEW b \in AllBuilds, Terminate(b) PROVE BuildsInv'
    <2>1. UNCHANGED <<flaw, blog, old, done, seeds, plan, pc, bin>>
      BY <1>6 DEF Terminate, disk
    <2>2. TaskStep(task, bin, done, old, Made, b, "cancelled", task', bin', done')
          \/ TaskStep(task, bin, done, old, Made, b, "interrupted", task', bin', done')
      BY <1>1, <1>6, <2>1 DEF Terminate, Killed, TaskStep, TaskStates
    <2> QED BY <2>1, <2>2, WorkerStep
  <1>7. ASSUME NEW b \in AllBuilds, Record(b) PROVE BuildsInv'
    <2> DEFINE row == IF task[b] = "reused" THEN old[b] ELSE bin[b]
               reused == task[b] = "reused"
    <2>1. /\ flaw' = flaw /\ UNCHANGED <<seeds, plan, old, bin>> /\ pc = "building"
          /\ task[b] \in {"ready", "reused"} /\ Recorded(b, row, reused)
      BY <1>7 DEF Record, InPhase, Going
    <2>2. row = bin[b] /\ (Native(b.arm) => row = Made[b])
      <3>1. task[b] = "reused" => b \in DOMAIN old /\ bin[b] = old[b]
        BY DEF BuildsInv, TasksOk
      <3>2. task[b] = "ready" /\ Native(b.arm) => bin[b] = Made[b]
        BY DEF BuildsInv, TasksOk
      <3>3. b \in DOMAIN old /\ Native(b.arm) => old[b] = Made[b]
        BY DEF BuildsInv, OldOk
      <3> QED BY <2>1, <3>1, <3>2, <3>3
    <2>3. task[b] # "done" /\ DOMAIN bin' = AllBuilds /\ \A c \in AllBuilds : c # b => bin'[c] = bin[c]
      BY <1>1, <2>1
    <2>4. row = bin'[b]
      BY <2>1, <2>2
    <2> HIDE DEF row, reused
    <2> QED BY <2>1, <2>2, <2>3, <2>4, RecordedKeeps
  <1>8. ASSUME NEW b \in AllBuilds, LinkBuild(b) PROVE BuildsInv'
    <2> DEFINE row == bin'[b]
               reused == Reusable(b)
    <2>1. /\ flaw' = flaw /\ UNCHANGED <<seeds, plan, old>> /\ pc = "building"
          /\ task[b] = "linked" /\ Recorded(b, row, reused)
      BY <1>8 DEF LinkBuild, InPhase, Going
    <2>2. bin' = bin \/ bin' = [bin EXCEPT ![b] = bin[LinkOf(b)]]
      BY <1>8 DEF LinkBuild
    <2>3. task[b] # "done" /\ DOMAIN bin' = AllBuilds /\ \A c \in AllBuilds : c # b => bin'[c] = bin[c]
      BY <1>1, <2>1, <2>2
    <2>4. row = bin'[b] /\ (Native(b.arm) => row = Made[b])
      BY <2>1 DEF BuildsInv, TasksOk
    <2> HIDE DEF row, reused
    <2> QED BY <2>1, <2>3, <2>4, RecordedKeeps
  <1>9. ASSUME ReadBuilds PROVE BuildsInv'
    <2>1. /\ UNCHANGED <<flaw, bin, blog, done, seeds, plan>> /\ pc = "opening" /\ pc' = "building"
          /\ old' = ByPath(blog)
          /\ task' = [b \in AllBuilds |->
                        IF b \in Planned THEN IF IsLink(b) THEN "linked" ELSE "queued" ELSE "none"]
      BY <1>9 DEF ReadBuilds, InPhase, Going
    <2>2. Made' = Made /\ Bad' = Bad
      BY <2>1 DEF Made, Output, Bad, Rejected, LayoutOk
    <2>3. OldOk(old', Made)
      BY <2>1, ByPathRows DEF BuildsInv
    <2>4. done = <<>>
      BY <2>1 DEF BuildsInv, PhaseOk, Before
    <2>5. \A b \in AllBuilds : /\ task'[b] \in {"none", "linked", "queued"}
                               /\ task'[b] = "linked" => ~Native(b.arm)
      BY <2>1 DEF IsLink
    <2>6. TasksOk(task', bin, done, old', Made)
      <3>1. task' \in [AllBuilds -> TaskStates]
        BY <2>1, <2>5 DEF TaskStates
      <3>2. DOMAIN done = {b \in AllBuilds : task'[b] = "done"}
        BY <2>4, <2>5
      <3> QED BY <1>1, <2>5, <3>1, <3>2 DEF TasksOk
    <2>7. ~Bad
      <3>1. DOMAIN done = {}
        BY <2>4
      <3> QED BY <3>1 DEF Bad, Rejected
    <2>8. PhaseOk(pc', seeds, plan, done, blog, Bad)
      BY <2>1, <2>7 DEF BuildsInv, PhaseOk, Before, After
    <2> QED BY <2>1, <2>2, <2>3, <2>6, <2>8 DEF BuildsInv
  <1>10. ASSUME RewriteBuilds PROVE BuildsInv'
    <2>1. /\ UNCHANGED <<flaw, bin, old, task, done, seeds, plan>> /\ pc = "building" /\ pc' = "splitting"
          /\ \A b \in Planned : task[b] = "done"
          /\ blog' = RowsOfPlan(plan, done)
      BY <1>10 DEF RewriteBuilds, InPhase, Going, RowsOfPlan
    <2>2. Made' = Made /\ Bad' = Bad
      BY <2>1 DEF Made, Output, Bad, Rejected, LayoutOk
    <2>3. plan \in Seq(AllBuilds)
      <3>1. seeds \in SeedLists /\ SeedsOk(seeds) /\ plan = PlanBuilds(seeds)
        BY <2>1 DEF BuildsInv, PhaseOk, Before
      <3> QED BY <3>1, PlanElements
    <2>4. /\ Len(plan) \in Nat /\ DOMAIN plan = 1 .. Len(plan)
          /\ \A i \in DOMAIN plan : plan[i] \in Planned /\ plan[i] \in AllBuilds
      BY <2>3 DEF Planned, Range
    <2>5. \A i \in DOMAIN plan : /\ plan[i] \in DOMAIN done
                                 /\ Native(plan[i].arm) => done[plan[i]] = Made[plan[i]]
      BY <2>1, <2>4 DEF BuildsInv, TasksOk
    <2>6. BlogOk(blog', Made)
      <3> DEFINE log == RowsOfPlan(plan, done)
                 S == Range(log)
      <3>1. /\ DOMAIN log = 1 .. Len(plan)
            /\ \A i \in 1 .. Len(plan) : log[i].build = plan[i] /\ log[i].contents = done[plan[i]]
            /\ log = [i \in 1 .. Len(plan) |-> log[i]]
        BY <2>4 DEF RowsOfPlan
      <3> HIDE DEF log
      <3>2. \A i \in 1 .. Len(plan) : log[i] \in S
        BY <3>1 DEF Range
      <3>3. log \in Seq(S)
        <4> HIDE DEF S
        <4> QED BY <2>4, <3>1, <3>2
      <3>4. \A row \in Samples(log) : Native(row.build.arm) => row.contents = Made[row.build]
        BY <2>4, <2>5, <3>1 DEF Samples
      <3> QED BY <2>1, <3>3, <3>4 DEF BlogOk, IsLog, log
    <2>7. Range(plan) \subseteq DOMAIN done
      BY <2>5 DEF Range
    <2>8. PhaseOk(pc', seeds, plan, done, blog', Bad)
      BY <2>1, <2>7 DEF BuildsInv, PhaseOk, Before, After
    <2> QED BY <2>1, <2>2, <2>6, <2>8 DEF BuildsInv
  <1>11. ASSUME NEW b \in AllBuilds, Raised(b) PROVE BuildsInv'
    <2>1. UNCHANGED <<flaw, bin, blog, old, task, done, seeds, plan>> /\ pc' = "stopping" /\ pc = "building"
      BY <1>11 DEF Raised, Going, disk
    <2> QED BY <2>1, PhaseMoves
  <1>12. ASSUME SplitRounds \/ OpenDropped \/ DropRow \/ RewriteSamples \/ OpenReference \/ HaveReference
                  \/ Timed \/ Finished
         PROVE  BuildsInv'
    <2>1. UNCHANGED <<flaw, bin, blog, old, task, done, seeds, plan>>
      BY <1>12 DEF SplitRounds, OpenDropped, DropRow, RewriteSamples, OpenReference, HaveReference, Timed,
                   Finished, disk
    <2>2. pc \in After /\ pc' \in After \cup {"leaving"}
      BY <1>12 DEF SplitRounds, OpenDropped, DropRow, RewriteSamples, OpenReference, HaveReference, Timed,
                   Finished, InPhase, Going, After
    <2>3. \/ pc' \in After
          \/ pc' \in {"stopping", "leaving"} /\ pc # "idle"
      BY <2>2 DEF After
    <2> QED BY <2>1, <2>2, <2>3, PhaseMoves
  <1>13. ASSUME Stopped \/ Open PROVE BuildsInv'
    <2>1. UNCHANGED <<flaw, bin, blog, old, task, done, seeds, plan>>
      BY <1>13 DEF Stopped, Open, disk
    <2>2. (pc' = "leaving" /\ pc # "idle") \/ (pc = "opened" /\ pc' = "opening")
      BY <1>13 DEF Stopped, Open
    <2> QED BY <2>1, <2>2, PhaseMoves
  <1>14. ASSUME UNCHANGED <<flaw, bin, blog, old, task, done, seeds, plan, pc>> PROVE BuildsInv'
    BY <1>14, PhaseMoves
  <1>15. ASSUME Empty \/ Interrupt PROVE BuildsInv'
    BY <1>15, <1>14 DEF Empty, Interrupt, driver, disk
  <1>20. ASSUME Interrupted \/ Crash PROVE BlogOk(blog', Made)
    <2>1. BlogOk(blog, Made)
      BY DEF BuildsInv
    <2>2. IsCut(blog', blog)
      BY <1>20, <2>1, CutBuilds DEF BlogOk
    <2>3. IsLog(blog') /\ Samples(blog') \subseteq Samples(blog)
      BY <2>1, <2>2, CutElements DEF BlogOk
    <2> QED BY <2>1, <2>3 DEF BlogOk
  <1>21. ASSUME Interrupted PROVE BuildsInv'
    <2>1. UNCHANGED <<flaw, bin, old, task, done, seeds, plan>> /\ pc' \in {"stopping", "leaving"} /\ pc # "idle"
      BY <1>21 DEF Interrupted, Going
    <2>2. Made' = Made /\ Bad' = Bad
      BY <2>1 DEF Made, Output, Bad, Rejected, LayoutOk
    <2>3. PhaseOk(pc', seeds, plan, done, blog', Bad)
      BY <2>1 DEF BuildsInv, PhaseOk, Before, After
    <2> QED BY <1>20, <1>21, <2>1, <2>2, <2>3 DEF BuildsInv
  <1>16. ASSUME Leave \/ Crash PROVE BuildsInv'
    <2>1. /\ UNCHANGED <<flaw, seeds, plan>> /\ pc' = "idle" /\ old' = <<>> /\ done' = <<>>
          /\ task' = [b \in AllBuilds |-> "none"]
      BY <1>16 DEF Leave, Crash, Gone
    <2>2. DOMAIN bin' = AllBuilds
      BY <1>1, <1>16 DEF Leave, Crash
    <2>3. Made' = Made
      BY <2>1 DEF Made, Output
    <2>4. OldOk(old', Made)
      BY <2>1 DEF OldOk
    <2>5. TasksOk(task', bin', done', old', Made)
      BY <2>1, <2>2 DEF TasksOk, TaskStates
    <2>6. PhaseOk(pc', seeds, plan, done', blog', Bad')
      BY <2>1 DEF PhaseOk, Before, After
    <2>7. BlogOk(blog', Made)
      <3>1. Leave => blog' = blog
        BY DEF Leave
      <3> QED BY <1>16, <1>20, <3>1 DEF BuildsInv
    <2> QED BY <2>1, <2>3, <2>4, <2>5, <2>6, <2>7 DEF BuildsInv
  <1>17. ASSUME NEW l \in SeedLists, Run(l) \/ Resume(l) PROVE BuildsInv'
    <2>1. /\ UNCHANGED <<flaw, bin, blog, old, task, done>> /\ pc = "idle" /\ pc' = "opened"
          /\ SeedsOk(l) /\ seeds' = l /\ plan' = PlanBuilds(l)
      BY <1>17 DEF Run, Resume, Begin
    <2>2. Made' = Made /\ Bad' = Bad
      BY <2>1 DEF Made, Output, Bad, Rejected, LayoutOk
    <2>3. PhaseOk(pc', seeds', plan', done, blog, Bad)
      BY <2>1 DEF BuildsInv, PhaseOk, Before, After
    <2> QED BY <2>1, <2>2, <2>3 DEF BuildsInv
  <1>18. CASE UNCHANGED vars
    BY <1>18, <1>14 DEF vars, driver, disk
  <1>19. CASE Next
    BY <1>19, <1>3, <1>4, <1>5, <1>6, <1>7, <1>8, <1>9, <1>10, <1>11, <1>12, <1>13, <1>15, <1>16, <1>17,
       <1>21 DEF Next, Step, Start
  <1> QED BY <1>18, <1>19

\* The driver starts with an empty store and no rows.
LEMMA InitBuilds ==
  ASSUME Init
  PROVE  BuildsInv
  <1>1. IsLog(<<>>) /\ Samples(<<>>) = {} /\ DOMAIN <<>> = {}
    BY DEF IsLog, Samples
  <1>2. /\ blog = <<>> /\ old = <<>> /\ done = <<>> /\ pc = "idle" /\ DOMAIN bin = AllBuilds
        /\ task = [b \in AllBuilds |-> "none"]
    BY DEF Init, Idle
  <1>3. BlogOk(blog, Made) /\ OldOk(old, Made)
    BY <1>1, <1>2 DEF BlogOk, OldOk
  <1>4. TasksOk(task, bin, done, old, Made)
    BY <1>1, <1>2 DEF TasksOk, TaskStates
  <1>5. PhaseOk(pc, seeds, plan, done, blog, Bad)
    BY <1>2 DEF PhaseOk, Before, After
  <1> QED BY <1>3, <1>4, <1>5 DEF BuildsInv

\* The pool, the store, the rows of this session and builds.tsv agree at every
\* step (ab_build.Builder), in the session that made them and in later ones.
THEOREM BuildsAgree == Spec => []BuildsInv
  <1>1. Init => BuildsInv
    BY InitBuilds
  <1>2. BuildsInv /\ [Next]_vars => BuildsInv'
    BY NextBuilds
  <1> QED BY <1>1, <1>2, PTL DEF Spec

\* TimedAsBuilt: when runs are timed, builds.tsv has one row for each planned
\* build, in plan order, and the store has the binary the row names
\* (ab_build.Builder.run, _reuse).
THEOREM TimedIsBuilt == Spec => []TimedAsBuilt
  <1>1. ASSUME BuildsInv PROVE TimedAsBuilt
    <2> SUFFICES ASSUME pc = "timed"
                 PROVE  blog = [i \in DOMAIN plan |-> [build |-> plan[i], contents |-> bin[plan[i]]]]
      BY DEF TimedAsBuilt
    <2>1. Range(plan) \subseteq DOMAIN done /\ blog = RowsOfPlan(plan, done)
      BY <1>1 DEF BuildsInv, PhaseOk, After
    <2>2. \A i \in DOMAIN plan : done[plan[i]] = bin[plan[i]]
      BY <1>1, <2>1 DEF BuildsInv, TasksOk, Range
    <2> QED BY <2>1, <2>2 DEF RowsOfPlan
  <1> QED BY <1>1, BuildsAgree, PTL

\* RejectedNeverTimed: what the checks reject is not timed, in the session
\* that found it or in a later one (ab_build.abort_reasons).
THEOREM RejectedIsNeverTimed == Spec => []RejectedNeverTimed
  <1>1. ASSUME BuildsInv PROVE RejectedNeverTimed
    <2> SUFFICES ASSUME pc = "timed", NEW a \in Arms, Native(a)
                 PROVE  flaw \notin {"seed0", "filler"} /\ (flaw = "no_effect" => Len(seeds) = 1)
      BY DEF RejectedNeverTimed
    <2>1. /\ seeds \in SeedLists /\ SeedsOk(seeds) /\ plan = PlanBuilds(seeds)
          /\ Range(plan) \subseteq DOMAIN done /\ ~Rejected(done)
      BY <1>1 DEF BuildsInv, PhaseOk, After, Bad
    <2>2. seeds \in Seq(Int) /\ Len(seeds) \in Nat /\ DOMAIN seeds = 1 .. Len(seeds) /\ Len(seeds) # 0
      BY <2>1, SessionAssumption DEF SeedsOk
    <2>3. /\ {Build(a, "seed0", 0), Build(a, "noflag", 0)} \subseteq DOMAIN done
          /\ \A i \in DOMAIN seeds : Build(a, "seed", seeds[i]) \in DOMAIN done
      BY <2>1, PlanElements
    <2>4. \A b \in DOMAIN done : Native(b.arm) => done[b] = Output(b)
      BY <1>1 DEF BuildsInv, TasksOk, Made
    <2>5. flaw # "seed0"
      <3> SUFFICES ASSUME flaw = "seed0" PROVE FALSE
        OBVIOUS
      <3> DEFINE b == Build(a, "seed0", 0)
                 c == Build(a, "noflag", 0)
      <3>1. b.arm = a /\ c.arm = a /\ b.kind = "seed0" /\ c.kind = "noflag"
        BY DEF Build
      <3> HIDE DEF b, c
      <3>2. b \in DOMAIN done /\ c \in DOMAIN done
        BY <2>3 DEF b, c
      <3>3. done[b] = Output(b) /\ done[c] = Output(c)
        BY <2>4, <3>1, <3>2
      <3>4. Output(b) = <<a, "moved">> /\ Output(c) = <<a, "plain">>
        BY <3>1 DEF Output
      <3>5. done[b] # done[c]
        BY <3>3, <3>4
      <3>6. Rejected(done)
        BY <3>1, <3>2, <3>5 DEF Rejected
      <3> QED BY <2>1, <3>6
    <2>6. flaw # "filler"
      <3> SUFFICES ASSUME flaw = "filler" PROVE FALSE
        OBVIOUS
      <3> DEFINE b == Build(a, "seed", seeds[1])
      <3>1. b.arm = a /\ b.kind = "seed"
        BY DEF Build
      <3>2. b \in DOMAIN done
        BY <2>2, <2>3
      <3> HIDE DEF b
      <3>3. ~LayoutOk(b)
        BY <3>1 DEF LayoutOk
      <3>4. Rejected(done)
        BY <3>1, <3>2, <3>3 DEF Rejected
      <3> QED BY <2>1, <3>4
    <2>7. ASSUME flaw = "no_effect", Len(seeds) # 1 PROVE FALSE
      <3> DEFINE b == Build(a, "seed", seeds[1])
                 c == Build(a, "seed", seeds[2])
      <3>1. b.arm = a /\ c.arm = a /\ b.kind = "seed" /\ c.kind = "seed"
        BY DEF Build
      <3>2. 1 \in DOMAIN seeds /\ 2 \in DOMAIN seeds
        BY <2>2, <2>7
      <3>3. b # c
        <4>1. seeds[1] # seeds[2]
          BY <2>1, <3>2 DEF SeedsOk, IsInjective
        <4> QED BY <4>1 DEF Build
      <3>4. b \in DOMAIN done /\ c \in DOMAIN done
        BY <2>3, <3>2
      <3> HIDE DEF b, c
      <3>5. done[b] = Output(b) /\ done[c] = Output(c)
        BY <2>4, <3>1, <3>4
      <3>6. Output(b) = <<a, "plain">> /\ Output(c) = <<a, "plain">>
        BY <2>7, <3>1 DEF Output
      <3>7. Rejected(done)
        BY <3>1, <3>3, <3>4, <3>5, <3>6 DEF Rejected
      <3> QED BY <2>1, <3>7
    <2> QED BY <2>5, <2>6, <2>7
  <1> QED BY <1>1, BuildsAgree, PTL

(***************************************************************************)
(* When a round is finished.  A round that is not has the runs ahead that  *)
(* its rows lack, so it is finished with the last of them and not before.  *)
(***************************************************************************)
KeysAt(log, r) == {<<log[i].run.rep, log[i].run.arm>> : i \in RowsAt(log, r)}
AllKeys == (1 .. Reps) \X Arms

\* The rows of a round are of different runs, with good outputs.
RowsGood(log, r) ==
  /\ \A i, j \in RowsAt(log, r) :
       <<log[i].run.rep, log[i].run.arm>> = <<log[j].run.rep, log[j].run.arm>> => i = j
  /\ \A i \in RowsAt(log, r) : log[i].ok

Whole(log, r) == RowsGood(log, r) /\ Cardinality(KeysAt(log, r)) = Reps * K

\* A round has Reps * K runs.
LEMMA KeysCount ==
  IsFiniteSet(AllKeys) /\ Cardinality(AllKeys) = Reps * K /\ Reps * K \in Nat \ {0}
  <1>1. Reps \in Nat \ {0} /\ K \in Nat \ {0}
    BY SessionAssumption DEF K
  <1>2. IsFiniteSet(1 .. Reps) /\ Cardinality(1 .. Reps) = Reps
    <2>1. /\ IsFiniteSet(1 .. Reps)
          /\ Cardinality(1 .. Reps) = IF 1 > Reps THEN 0 ELSE Reps - 1 + 1
      BY <1>1, FS_Interval
    <2> QED BY <1>1, <2>1
  <1>3. IsFiniteSet(Arms) /\ Cardinality(Arms) = K
    <2> DEFINE n == K - 1
    <2>1. 0 \in Int /\ n \in Int
      BY <1>1
    <2> HIDE DEF n
    <2>2. IsFiniteSet(0 .. n) /\ Cardinality(0 .. n) = IF 0 > n THEN 0 ELSE n - 0 + 1
      BY <2>1, FS_Interval
    <2> QED BY <1>1, <2>2 DEF Arms, n
  <1>4. IsFiniteSet(AllKeys) /\ Cardinality(AllKeys) = Cardinality(1 .. Reps) * Cardinality(Arms)
    <2> DEFINE R == 1 .. Reps
    <2>1. IsFiniteSet(R)
      BY <1>2
    <2> HIDE DEF R
    <2>2. IsFiniteSet(R \X Arms) /\ Cardinality(R \X Arms) = Cardinality(R) * Cardinality(Arms)
      BY <2>1, <1>3, FS_Product
    <2> QED BY <2>2 DEF R, AllKeys
  <1>5. Reps * K \in Nat \ {0}
    BY <1>1
  <1> QED BY <1>2, <1>3, <1>4, <1>5

\* The code's counts say that a round's rows are of different runs, and are
\* all of them (ab_timed.split_rounds).
LEMMA FinishedIsWhole ==
  ASSUME NEW log, IsLog(log), NEW r
  PROVE  FinishedIn(log, r) <=> Whole(log, r)
  <1> DEFINE A == RowsAt(log, r)
             B == KeysAt(log, r)
             f == [i \in A |-> <<log[i].run.rep, log[i].run.arm>>]
  <1>1. IsFiniteSet(A)
    <2>1. Len(log) \in Nat /\ DOMAIN log = 1 .. Len(log)
      BY DEF IsLog
    <2>2. A \in SUBSET (1 .. Len(log))
      BY <2>1 DEF RowsAt
    <2>3. IsFiniteSet(1 .. Len(log))
      BY <2>1, FS_Interval
    <2> HIDE DEF A
    <2> QED BY <2>2, <2>3, FS_Subset
  <1>2. f \in Surjection(A, B)
    <2>1. /\ f \in [A -> B] /\ \A b \in B : \E i \in A : f[i] = b
      BY DEF KeysAt
    <2> HIDE DEF f, A, B
    <2> QED BY <2>1 DEF Surjection
  <1>3. FinishedIn(log, r) <=> /\ Cardinality(A) = Reps * K /\ Cardinality(B) = Reps * K
                               /\ \A i \in A : log[i].ok
    BY DEF FinishedIn, KeysAt
  <1>4. f \in Injection(A, B) <=> \A i, j \in A : f[i] = f[j] => i = j
    <2>1. f \in [A -> B] /\ DOMAIN f = A
      BY DEF KeysAt
    <2> HIDE DEF f, A, B
    <2> QED BY <2>1 DEF Injection, IsInjective
  <1>5. Whole(log, r) <=> /\ \A i, j \in A : f[i] = f[j] => i = j
                          /\ Cardinality(B) = Reps * K
                          /\ \A i \in A : log[i].ok
    BY DEF Whole, RowsGood
  <1> HIDE DEF f, A, B
  <1>6. Cardinality(B) = Cardinality(A) <=> f \in Injection(A, B)
    BY <1>1, <1>2, FS_Surjection
  <1> QED BY <1>3, <1>4, <1>5, <1>6

\* The rows of a round and the runs ahead make up the round.
Pending(log, ahead, r) ==
  /\ RowsGood(log, r)
  /\ KeysAt(log, r) \cap ahead = {} /\ KeysAt(log, r) \cup ahead = AllKeys

\* Such a round is finished when none is ahead.
LEMMA PendingFinished ==
  ASSUME NEW log, IsLog(log), NEW ahead, NEW r, Pending(log, ahead, r)
  PROVE  FinishedIn(log, r) <=> ahead = {}
  <1>1. CASE ahead = {}
    <2>1. KeysAt(log, r) = AllKeys
      BY <1>1 DEF Pending
    <2> QED BY <1>1, <2>1, KeysCount, FinishedIsWhole DEF Pending, Whole
  <1>2. CASE ahead # {}
    <2> DEFINE B == KeysAt(log, r)
    <2>1. B \in SUBSET AllKeys /\ B # AllKeys
      BY <1>2 DEF Pending
    <2> HIDE DEF B
    <2>2. Cardinality(B) # Cardinality(AllKeys)
      BY <2>1, KeysCount, FS_Subset
    <2> QED BY <1>2, <2>2, KeysCount, FinishedIsWhole DEF Whole, B
  <1> QED BY <1>1, <1>2

\* A round without rows is not finished.
LEMMA EmptyUnfinished ==
  ASSUME NEW log, NEW r, RowsAt(log, r) = {}
  PROVE  ~FinishedIn(log, r)
  <1>1. Cardinality({}) = 0
    BY FS_EmptySet
  <1> QED BY <1>1, KeysCount DEF FinishedIn

\* A row of another round changes nothing.
LEMMA OtherRound ==
  ASSUME NEW log, IsLog(log), NEW row, row # Garbled, NEW r, row.run.round # r
  PROVE  /\ RowsAt(Append(log, row), r) = RowsAt(log, r)
         /\ KeysAt(Append(log, row), r) = KeysAt(log, r)
         /\ RowsGood(Append(log, row), r) <=> RowsGood(log, r)
         /\ FinishedIn(Append(log, row), r) <=> FinishedIn(log, r)
  <1> DEFINE t == Append(log, row)
             n == Len(log)
  <1>1. /\ n \in Nat /\ DOMAIN log = 1 .. n /\ DOMAIN t = 1 .. n + 1
        /\ t[n + 1] = row /\ \A i \in 1 .. n : t[i] = log[i]
    BY DEF IsLog
  <1>2. IsLog(t)
    BY AppendRow
  <1> HIDE DEF t, n
  <1>3. \A i \in DOMAIN t : i = n + 1 \/ i \in 1 .. n
    BY <1>1
  <1>4. \A i \in 1 .. n : i \in DOMAIN t
    BY <1>1
  <1>5. RowsAt(t, r) = RowsAt(log, r)
    BY <1>1, <1>3, <1>4 DEF RowsAt
  <1>6. \A i \in RowsAt(log, r) : t[i] = log[i]
    BY <1>1 DEF RowsAt
  <1>7. KeysAt(t, r) = KeysAt(log, r)
    BY <1>5, <1>6 DEF KeysAt
  <1>8. RowsGood(t, r) <=> RowsGood(log, r)
    BY <1>5, <1>6 DEF RowsGood
  <1>9. FinishedIn(t, r) <=> FinishedIn(log, r)
    BY <1>2, <1>7, <1>8, FinishedIsWhole DEF Whole
  <1> QED BY <1>5, <1>7, <1>8, <1>9 DEF t

\* A run that was ahead is taken.
LEMMA TakeRun ==
  ASSUME NEW log, IsLog(log), NEW row, row # Garbled, row.ok, NEW r, row.run.round = r,
         NEW ahead, Pending(log, ahead, r), NEW key, key = <<row.run.rep, row.run.arm>>, key \in ahead
  PROVE  Pending(Append(log, row), ahead \ {key}, r)
  <1> DEFINE t == Append(log, row)
             n == Len(log)
  <1>1. /\ n \in Nat /\ DOMAIN log = 1 .. n /\ DOMAIN t = 1 .. n + 1
        /\ t[n + 1] = row /\ \A i \in 1 .. n : t[i] = log[i]
    BY DEF IsLog
  <1> HIDE DEF t, n
  <1>2. RowsAt(t, r) = RowsAt(log, r) \cup {n + 1} /\ \A i \in RowsAt(log, r) : t[i] = log[i] /\ i # n + 1
    <2>1. \A i \in DOMAIN t : i = n + 1 \/ i \in 1 .. n
      BY <1>1
    <2>2. \A i \in 1 .. n : i \in DOMAIN t /\ i # n + 1
      BY <1>1
    <2>3. n + 1 \in DOMAIN t
      BY <1>1
    <2> QED BY <1>1, <2>1, <2>2, <2>3 DEF RowsAt
  <1>3. KeysAt(t, r) = KeysAt(log, r) \cup {key}
    BY <1>1, <1>2 DEF KeysAt
  <1>4. key \notin KeysAt(log, r)
    BY DEF Pending
  <1>5. RowsGood(t, r)
    <2>1. RowsGood(log, r)
      BY DEF Pending
    <2>2. \A i \in RowsAt(t, r) : t[i].ok
      BY <2>1, <1>1, <1>2 DEF RowsGood
    <2>3. \A i \in RowsAt(log, r) : <<t[i].run.rep, t[i].run.arm>> # key
      BY <1>2, <1>4 DEF KeysAt
    <2>4. ASSUME NEW i \in RowsAt(t, r), NEW j \in RowsAt(t, r),
                 <<t[i].run.rep, t[i].run.arm>> = <<t[j].run.rep, t[j].run.arm>>
          PROVE  i = j
      <3>1. CASE i = n + 1 \/ j = n + 1
        BY <3>1, <2>3, <2>4, <1>1, <1>2
      <3>2. CASE i \in RowsAt(log, r) /\ j \in RowsAt(log, r)
        BY <3>2, <2>1, <2>4, <1>2 DEF RowsGood
      <3> QED BY <3>1, <3>2, <1>2
    <2> QED BY <2>2, <2>4 DEF RowsGood
  <1>6. Pending(t, ahead \ {key}, r)
    BY <1>3, <1>4, <1>5 DEF Pending
  <1> QED BY <1>6 DEF t

\* A row with a bad output leaves its round unfinished.
LEMMA BadRunUnfinished ==
  ASSUME NEW log, IsLog(log), NEW row, row # Garbled, ~row.ok
  PROVE  ~FinishedIn(Append(log, row), row.run.round)
  <1> DEFINE t == Append(log, row)
             n == Len(log)
  <1>1. n \in Nat /\ DOMAIN t = 1 .. n + 1 /\ t[n + 1] = row
    BY DEF IsLog
  <1> HIDE DEF t, n
  <1>2. n + 1 \in RowsAt(t, row.run.round)
    BY <1>1 DEF RowsAt
  <1>3. ~FinishedIn(t, row.run.round)
    BY <1>1, <1>2 DEF FinishedIn
  <1> QED BY <1>3 DEF t

\* The rows of a round are of different runs of it, whatever their outputs.
RowsOnce(log, r) ==
  /\ \A i, j \in RowsAt(log, r) :
       <<log[i].run.rep, log[i].run.arm>> = <<log[j].run.rep, log[j].run.arm>> => i = j
  /\ KeysAt(log, r) \subseteq AllKeys

\* They stay so when a run is taken that has no row yet.
LEMMA AppendOnce ==
  ASSUME NEW log, IsLog(log), NEW row, row # Garbled, NEW r, RowsOnce(log, r),
         row.run.round = r => <<row.run.rep, row.run.arm>> \in AllKeys \ KeysAt(log, r)
  PROVE  RowsOnce(Append(log, row), r)
  <1> DEFINE t == Append(log, row)
             n == Len(log)
             key == <<row.run.rep, row.run.arm>>
  <1>1. /\ n \in Nat /\ DOMAIN log = 1 .. n /\ DOMAIN t = 1 .. n + 1
        /\ t[n + 1] = row /\ \A i \in 1 .. n : t[i] = log[i]
    BY DEF IsLog
  <1>2. ASSUME row.run.round # r PROVE RowsOnce(t, r)
    <2>1. RowsAt(t, r) = RowsAt(log, r) /\ KeysAt(t, r) = KeysAt(log, r)
      BY <1>2, OtherRound
    <2>2. \A i \in RowsAt(log, r) : t[i] = log[i]
      BY <1>1 DEF RowsAt
    <2> HIDE DEF t
    <2> QED BY <2>1, <2>2 DEF RowsOnce
  <1>3. ASSUME row.run.round = r PROVE RowsOnce(t, r)
    <2> HIDE DEF t, n
    <2>1. RowsAt(t, r) = RowsAt(log, r) \cup {n + 1} /\ \A i \in RowsAt(log, r) : t[i] = log[i] /\ i # n + 1
      <3>1. \A i \in DOMAIN t : i = n + 1 \/ i \in 1 .. n
        BY <1>1
      <3>2. \A i \in 1 .. n : i \in DOMAIN t /\ i # n + 1
        BY <1>1
      <3>3. n + 1 \in DOMAIN t
        BY <1>1
      <3> QED BY <1>1, <1>3, <3>1, <3>2, <3>3 DEF RowsAt
    <2>2. KeysAt(t, r) = KeysAt(log, r) \cup {key}
      BY <1>1, <2>1 DEF KeysAt
    <2>3. key \in AllKeys /\ key \notin KeysAt(log, r)
      BY <1>3
    <2>4. \A i \in RowsAt(log, r) : <<t[i].run.rep, t[i].run.arm>> # key
      BY <2>1, <2>3 DEF KeysAt
    <2>5. t[n + 1].run.rep = row.run.rep /\ t[n + 1].run.arm = row.run.arm
      BY <1>1
    <2> HIDE DEF key
    <2>6. ASSUME NEW i \in RowsAt(t, r), NEW j \in RowsAt(t, r),
                 <<t[i].run.rep, t[i].run.arm>> = <<t[j].run.rep, t[j].run.arm>>
          PROVE  i = j
      <3>1. CASE i = n + 1 \/ j = n + 1
        BY <3>1, <2>4, <2>5, <2>6, <2>1 DEF key
      <3>2. CASE i \in RowsAt(log, r) /\ j \in RowsAt(log, r)
        BY <3>2, <2>6, <2>1 DEF RowsOnce
      <3> QED BY <3>1, <3>2, <2>1
    <2> QED BY <2>2, <2>3, <2>6 DEF RowsOnce
  <1> QED BY <1>2, <1>3 DEF t

\* What is left of a log has finished a round only if it has all its rows.
LEMMA CutFinished ==
  ASSUME NEW s, IsLog(s), NEW t, IsCut(t, s), NEW r, RowsOnce(s, r), FinishedIn(t, r)
  PROVE  RowsAt(t, r) = RowsAt(s, r) /\ FinishedIn(s, r)
  <1> DEFINE B == KeysAt(t, r)
  <1>1. IsLog(t) /\ \A i \in DOMAIN t : i \in DOMAIN s /\ t[i] = s[i]
    BY CutElements
  <1>2. RowsAt(t, r) \subseteq RowsAt(s, r) /\ \A i \in RowsAt(t, r) : t[i] = s[i]
    BY <1>1 DEF RowsAt
  <1>3. B \in SUBSET AllKeys
    <2>1. B \subseteq KeysAt(s, r)
      BY <1>2 DEF KeysAt
    <2> QED BY <2>1 DEF RowsOnce
  <1>4. Cardinality(B) = Cardinality(AllKeys)
    BY <1>1, FinishedIsWhole, KeysCount DEF Whole
  <1>5. B = AllKeys
    <2> HIDE DEF B
    <2> QED BY <1>3, <1>4, KeysCount, FS_Subset
  <1>6. ASSUME NEW i \in RowsAt(s, r) PROVE i \in RowsAt(t, r)
    <2>1. <<s[i].run.rep, s[i].run.arm>> \in B
      BY <1>5 DEF RowsOnce, KeysAt
    <2>2. PICK j \in RowsAt(t, r) : <<s[i].run.rep, s[i].run.arm>> = <<t[j].run.rep, t[j].run.arm>>
      BY <2>1 DEF KeysAt
    <2>3. j \in RowsAt(s, r) /\ t[j] = s[j]
      BY <1>2
    <2>4. i = j
      BY <2>2, <2>3 DEF RowsOnce
    <2> QED BY <2>4
  <1>7. RowsAt(t, r) = RowsAt(s, r)
    BY <1>2, <1>6
  <1>8. {<<t[i].run.rep, t[i].run.arm>> : i \in RowsAt(t, r)} = {<<s[i].run.rep, s[i].run.arm>> : i \in RowsAt(s, r)}
    BY <1>2, <1>7
  <1>9. FinishedIn(s, r)
    BY <1>2, <1>7, <1>8 DEF FinishedIn
  <1> QED BY <1>7, <1>9

\* The rounds that some rows are of.
RoundsOf(rows) == {row.run.round : row \in rows}

\* A round that was finished and is not any more lost one of its rows.
LEMMA CutUnfinishes ==
  ASSUME NEW s, IsLog(s), NEW t, IsCut(t, s), NEW r, FinishedIn(s, r), ~FinishedIn(t, r),
         NEW took, Samples(s) \subseteq Samples(t) \cup took
  PROVE  r \in RoundsOf(took)
  <1>1. IsLog(t) /\ \A i \in DOMAIN t : i \in DOMAIN s /\ t[i] = s[i]
    BY CutElements
  <1>2. RowsAt(t, r) \subseteq RowsAt(s, r) /\ \A i \in RowsAt(t, r) : t[i] = s[i]
    BY <1>1 DEF RowsAt
  <1>3. RowsAt(t, r) # RowsAt(s, r)
    <2> SUFFICES ASSUME RowsAt(t, r) = RowsAt(s, r) PROVE FALSE
      OBVIOUS
    <2>1. {<<t[i].run.rep, t[i].run.arm>> : i \in RowsAt(t, r)} = {<<s[i].run.rep, s[i].run.arm>> : i \in RowsAt(s, r)}
      BY <1>2
    <2>2. FinishedIn(t, r)
      BY <1>2, <2>1 DEF FinishedIn
    <2> QED BY <2>2
  <1>4. PICK i \in RowsAt(s, r) : i \notin RowsAt(t, r)
    BY <1>2, <1>3
  <1>5. i \in DOMAIN s /\ s[i] # Garbled /\ s[i].run.round = r /\ s[i] \in Samples(s)
    BY DEF RowsAt, Samples
  <1>6. s[i] \notin Samples(t)
    <2> SUFFICES ASSUME s[i] \in Samples(t) PROVE FALSE
      OBVIOUS
    <2>1. PICK j \in DOMAIN t : t[j] # Garbled /\ s[i] = t[j]
      BY DEF Samples
    <2>2. j \in RowsAt(t, r)
      BY <2>1, <1>5 DEF RowsAt
    <2>3. j \in RowsAt(s, r) /\ s[j] = s[i]
      BY <2>1, <2>2, <1>2
    <2>4. RowsGood(s, r)
      BY FinishedIsWhole DEF Whole
    <2>5. i = j
      BY <2>3, <2>4 DEF RowsGood
    <2> QED BY <2>2, <2>5, <1>4
  <1> QED BY <1>5, <1>6 DEF RoundsOf

\* What is left of a log whose rounds have different runs is such a log.
LEMMA CutOnce ==
  ASSUME NEW s, IsLog(s), NEW t, IsCut(t, s), NEW r, RowsOnce(s, r)
  PROVE  RowsOnce(t, r)
  <1>1. \A i \in DOMAIN t : i \in DOMAIN s /\ t[i] = s[i]
    BY CutElements
  <1>2. RowsAt(t, r) \subseteq RowsAt(s, r) /\ \A i \in RowsAt(t, r) : t[i] = s[i]
    BY <1>1 DEF RowsAt
  <1>3. KeysAt(t, r) \subseteq KeysAt(s, r)
    BY <1>2 DEF KeysAt
  <1> QED BY <1>2, <1>3 DEF RowsOnce

(***************************************************************************)
(* The driver keeps the promise of Experiment.  A session finishes its     *)
(* rounds one at a time, because when its first run starts every round is  *)
(* settled: it has all its rows or none.                                   *)
(***************************************************************************)
Settled(log, r) == FinishedIn(log, r) \/ RowsAt(log, r) = {}

\* The runs of a round among some runs, and how far the round has come with
\* them still ahead.
KeysOf(runs, r) == {<<x.rep, x.arm>> : x \in {y \in runs : y.round = r}}
Progress(log, runs, r) ==
  \/ FinishedIn(log, r) /\ KeysOf(runs, r) = {}
  \/ Pending(log, KeysOf(runs, r), r)

\* The runs ahead are each of a round and an arm of its own, and with the rows
\* of the log they make up every round.
Ahead(log, runs, l) ==
  /\ IsLog(runs) /\ IsInjective(runs)
  /\ \A x \in Range(runs) : x.round \in Rounds(l)
  /\ \A x, y \in Range(runs) : x.round = y.round /\ <<x.rep, x.arm>> = <<y.rep, y.arm>> => x = y
  /\ \A r \in Rounds(l) : Progress(log, Range(runs), r)

PromiseInv ==
  /\ pc \in {"idle", "opened"} => why = None
  /\ pc # "idle" => SeedsOk(seeds)
  /\ pc = "opened" /\ meta # None => SubSeq(seeds, 1, Len(meta.seeds)) = meta.seeds
  /\ \A r : RowsOnce(slog, r)
  /\ pc \in {"trimming", "dropping"} =>
       /\ \A r : RowsOnce(keep, r)
       /\ \A r \in Rounds(seeds) : /\ FinishedIn(keep, r) <=> FinishedIn(slog, r)
                                  /\ Settled(keep, r)
  /\ pc = "trimming" /\ todo = <<>> => \A r \in Rounds(seeds) : Settled(slog, r)
  /\ pc \in {"reference", "writing"} => \A r \in Rounds(seeds) : Settled(slog, r)
  /\ pc = "timed" => Ahead(slog, todo, seeds)

\* The rows of the parts: what is kept has the finished rounds, and all of
\* them, and no row of another round.
LEMMA PartsSettle ==
  ASSUME NEW l, NEW log, IsLog(log), NEW k, NEW t, SplitParts(l, log, k, t), NEW r \in Rounds(l)
  PROVE  /\ FinishedIn(k, r) <=> FinishedIn(log, r)
         /\ Settled(k, r)
         /\ t = <<>> => Settled(log, r)
  <1>1. IsLog(k)
    BY DEF SplitParts
  <1>2. IsInjective(k)
    <2>1. ASSUME NEW q \in Rounds(l), FinishedIn(log, q) PROVE DistinctAt(log, RowsAt(log, q))
      <3>1. RowsGood(log, q)
        BY <2>1, FinishedIsWhole DEF Whole
      <3> QED BY <3>1 DEF RowsGood, DistinctAt
    <2> QED BY <2>1 DEF SplitParts
  <1>3. \A x : x \in Range(k) <=> \E q \in Rounds(l) : FinishedIn(log, q) /\ \E j \in RowsAt(log, q) : x = log[j]
    BY DEF SplitParts
  <1>4. \A q, j : j \in RowsAt(log, q) => log[j] # Garbled /\ log[j].run.round = q
    BY DEF RowsAt
  <1>5. \A i : i \in RowsAt(k, r) <=> i \in DOMAIN k /\ k[i] # Garbled /\ k[i].run.round = r
    BY DEF RowsAt
  <1>6. CASE FinishedIn(log, r)
    <2>1. \A i \in RowsAt(k, r) : \E j \in RowsAt(log, r) : k[i] = log[j]
      <3> SUFFICES ASSUME NEW i \in RowsAt(k, r) PROVE \E j \in RowsAt(log, r) : k[i] = log[j]
        OBVIOUS
      <3>1. k[i] \in Range(k) /\ k[i].run.round = r
        BY <1>5 DEF Range
      <3>2. PICK q \in Rounds(l) : \E j \in RowsAt(log, q) : k[i] = log[j]
        BY <3>1, <1>3
      <3>3. PICK j \in RowsAt(log, q) : k[i] = log[j]
        BY <3>2
      <3>4. q = r
        BY <3>1, <3>3, <1>4
      <3> QED BY <3>3, <3>4
    <2>2. \A j \in RowsAt(log, r) : \E i \in RowsAt(k, r) : k[i] = log[j]
      <3> SUFFICES ASSUME NEW j \in RowsAt(log, r) PROVE \E i \in RowsAt(k, r) : k[i] = log[j]
        OBVIOUS
      <3>1. log[j] \in Range(k)
        BY <1>3, <1>6
      <3>2. PICK i \in DOMAIN k : k[i] = log[j]
        BY <3>1 DEF Range
      <3> QED BY <3>2, <1>4, <1>5
    <2>3. RowsGood(log, r) /\ Cardinality(KeysAt(log, r)) = Reps * K
      BY <1>6, FinishedIsWhole DEF Whole
    <2>4. KeysAt(k, r) = KeysAt(log, r)
      <3>1. KeysAt(k, r) \subseteq KeysAt(log, r)
        BY <2>1 DEF KeysAt
      <3>2. KeysAt(log, r) \subseteq KeysAt(k, r)
        BY <2>2 DEF KeysAt
      <3> QED BY <3>1, <3>2
    <2>5. RowsGood(k, r)
      <3>1. \A i \in RowsAt(k, r) : k[i].ok
        BY <2>1, <2>3 DEF RowsGood
      <3>2. ASSUME NEW i \in RowsAt(k, r), NEW j \in RowsAt(k, r),
                   <<k[i].run.rep, k[i].run.arm>> = <<k[j].run.rep, k[j].run.arm>>
            PROVE  i = j
        <4>1. PICK a \in RowsAt(log, r) : k[i] = log[a]
          BY <2>1
        <4>2. PICK b \in RowsAt(log, r) : k[j] = log[b]
          BY <2>1
        <4>3. a = b
          BY <4>1, <4>2, <3>2, <2>3 DEF RowsGood
        <4> QED BY <4>1, <4>2, <4>3, <1>2, <1>5 DEF IsInjective
      <3> QED BY <3>1, <3>2 DEF RowsGood
    <2>6. FinishedIn(k, r)
      BY <2>3, <2>4, <2>5, <1>1, FinishedIsWhole DEF Whole
    <2> QED BY <2>6, <1>6 DEF Settled
  <1>7. CASE ~FinishedIn(log, r)
    <2>1. RowsAt(k, r) = {}
      <3> SUFFICES ASSUME NEW i \in RowsAt(k, r) PROVE FALSE
        OBVIOUS
      <3>1. k[i] \in Range(k) /\ k[i].run.round = r
        BY <1>5 DEF Range
      <3>2. PICK q \in Rounds(l) : FinishedIn(log, q) /\ \E j \in RowsAt(log, q) : k[i] = log[j]
        BY <3>1, <1>3
      <3>3. q = r
        BY <3>1, <3>2, <1>4
      <3> QED BY <3>2, <3>3, <1>7
    <2>2. ~FinishedIn(k, r)
      BY <2>1, EmptyUnfinished
    <2>3. ASSUME t = <<>> PROVE RowsAt(log, r) = {}
      <3>1. Range(t) = {}
        BY <2>3 DEF Range
      <3> QED BY <3>1, <1>7 DEF SplitParts
    <2> QED BY <2>1, <2>2, <2>3, <1>7 DEF Settled
  <1> QED BY <1>6, <1>7

\* Nor are two of the rows kept of the same run.
LEMMA PartsOnce ==
  ASSUME NEW l, NEW log, IsLog(log), NEW k, NEW t, SplitParts(l, log, k, t), \A q : RowsOnce(log, q), NEW r
  PROVE  RowsOnce(k, r)
  <1>1. IsInjective(k)
    <2>1. ASSUME NEW q \in Rounds(l), FinishedIn(log, q) PROVE DistinctAt(log, RowsAt(log, q))
      <3>1. RowsGood(log, q)
        BY <2>1, FinishedIsWhole DEF Whole
      <3> QED BY <3>1 DEF RowsGood, DistinctAt
    <2> QED BY <2>1 DEF SplitParts
  <1>2. ASSUME NEW i \in RowsAt(k, r) PROVE \E j \in RowsAt(log, r) : k[i] = log[j]
    <2>1. i \in DOMAIN k /\ k[i] \in Range(k) /\ k[i].run.round = r
      BY DEF RowsAt, Range
    <2>2. PICK q \in Rounds(l) : \E j \in RowsAt(log, q) : k[i] = log[j]
      BY <2>1 DEF SplitParts
    <2>3. q = r
      BY <2>1, <2>2 DEF RowsAt
    <2> QED BY <2>2, <2>3
  <1>3. RowsOnce(log, r)
    OBVIOUS
  <1>4. KeysAt(k, r) \subseteq KeysAt(log, r)
    BY <1>2 DEF KeysAt
  <1>5. ASSUME NEW i \in RowsAt(k, r), NEW j \in RowsAt(k, r),
               <<k[i].run.rep, k[i].run.arm>> = <<k[j].run.rep, k[j].run.arm>>
        PROVE  i = j
    <2>1. PICK a \in RowsAt(log, r) : k[i] = log[a]
      BY <1>2
    <2>2. PICK b \in RowsAt(log, r) : k[j] = log[b]
      BY <1>2
    <2>3. a = b
      BY <2>1, <2>2, <1>3, <1>5 DEF RowsOnce
    <2>4. i \in DOMAIN k /\ j \in DOMAIN k
      BY DEF RowsAt
    <2> QED BY <2>1, <2>2, <2>3, <2>4, <1>1 DEF IsInjective
  <1> QED BY <1>3, <1>4, <1>5 DEF RowsOnce

\* The runs ahead of a settled session are those of the rounds that are not
\* finished, and all of them (ab_timed.Timed.run).
LEMMA SettledIsAhead ==
  ASSUME SamplesInv, HaveReference, \A r \in Rounds(seeds) : Settled(slog, r)
  PROVE  Ahead(slog, todo', seeds)
  <1> DEFINE runs == TimedPlan(seeds, K, Reps)
             at == {i \in DOMAIN runs : ~FinishedIn(slog, runs[i].round)}
             S == Range(runs)
             ahead == Range(todo')
  <1>1. seeds \in Seq(Int) /\ K \in Nat \ {0} /\ Reps \in Nat
    <2>1. seeds \in SeedLists
      BY DEF SamplesInv, MetaOk, HaveReference, InPhase, Going
    <2> QED BY <2>1, SessionAssumption DEF K
  <1>2. todo' = Sift(runs, at)
    BY DEF HaveReference
  <1>3. PlanHolds(runs, seeds, K, Reps)
    BY <1>1, TimedPlanHolds
  <1>4. (1 .. Reps) \X (0 .. K - 1) = AllKeys
    BY DEF AllKeys, Arms
  <1> HIDE DEF runs
  <1>5. /\ runs \in Seq(S) /\ \A i, j \in DOMAIN runs : runs[i] = runs[j] => i = j
        /\ \A x \in S : x.round \in Rounds(seeds) /\ <<x.rep, x.arm>> \in AllKeys
        /\ \A x, y \in S : x.round = y.round /\ <<x.rep, x.arm>> = <<y.rep, y.arm>> => x = y
        /\ \A r \in Rounds(seeds), key \in AllKeys : \E x \in S : x.round = r /\ <<x.rep, x.arm>> = key
    <2>1. runs \in Seq(S) /\ \A i, j \in DOMAIN runs : runs[i] = runs[j] => i = j
      BY <1>3 DEF PlanHolds, IsLog, IsInjective
    <2>2. \A x \in S : x.round \in Rounds(seeds) /\ <<x.rep, x.arm>> \in AllKeys
      BY <1>3, <1>4 DEF PlanHolds
    <2>3. \A x, y \in S : x.round = y.round /\ <<x.rep, x.arm>> = <<y.rep, y.arm>> => x = y
      BY <1>3 DEF PlanHolds
    <2>4. ASSUME NEW r \in Rounds(seeds), NEW key \in AllKeys
          PROVE  \E x \in S : x.round = r /\ <<x.rep, x.arm>> = key
      <3>1. PICK rep \in 1 .. Reps, a \in 0 .. K - 1 : key = <<rep, a>>
        BY <1>4
      <3>2. PICK x \in S : x.round = r /\ x.rep = rep /\ x.arm = a
        BY <1>3 DEF PlanHolds
      <3> QED BY <3>1, <3>2
    <2> QED BY <2>1, <2>2, <2>3, <2>4
  <1>6. /\ todo' \in Seq(S) /\ ahead = {runs[i] : i \in DOMAIN runs \cap at}
        /\ DistinctAt(runs, at) => IsInjective(todo')
    <2> HIDE DEF at, S
    <2> QED BY <1>2, <1>5, SiftElements
  <1>7. IsLog(todo') /\ IsInjective(todo')
    <2>1. IsLog(todo')
      BY <1>6, SeqIsLog
    <2>2. DistinctAt(runs, at)
      BY <1>5 DEF DistinctAt
    <2> QED BY <1>6, <2>1, <2>2
  <1>8. ahead = {x \in S : ~FinishedIn(slog, x.round)}
    BY <1>6 DEF Range
  <1> HIDE DEF ahead, at, S
  <1>9. ASSUME NEW r \in Rounds(seeds) PROVE Progress(slog, ahead, r)
    <2>1. CASE FinishedIn(slog, r)
      <3>1. KeysOf(ahead, r) = {}
        BY <1>8, <2>1 DEF KeysOf
      <3> QED BY <2>1, <3>1 DEF Progress
    <2>2. CASE ~FinishedIn(slog, r)
      <3>1. RowsAt(slog, r) = {}
        BY <2>2 DEF Settled
      <3>2. RowsGood(slog, r) /\ KeysAt(slog, r) = {}
        BY <3>1 DEF RowsGood, KeysAt
      <3>3. KeysOf(ahead, r) = AllKeys
        BY <1>5, <1>8, <2>2 DEF KeysOf
      <3> QED BY <3>2, <3>3 DEF Progress, Pending
    <2> QED BY <2>1, <2>2
  <1> QED BY <1>5, <1>7, <1>8, <1>9 DEF Ahead, ahead

\* The first of distinct elements is not among the others, which are distinct.
LEMMA TailDistinct ==
  ASSUME NEW s, IsLog(s), s # <<>>, IsInjective(s)
  PROVE  IsInjective(Tail(s)) /\ Range(Tail(s)) = Range(s) \ {Head(s)}
  <1> DEFINE S == Range(s)
             t == Tail(s)
             n == Len(s)
             h == Head(s)
  <1>1. s \in Seq(S)
    BY DEF IsLog
  <1>2. /\ DOMAIN s = 1 .. n /\ DOMAIN t = 1 .. n - 1 /\ n \in Nat /\ n # 0 /\ h = s[1]
        /\ \A i \in 1 .. n - 1 : t[i] = s[i + 1]
    <2> HIDE DEF S
    <2> QED BY <1>1
  <1>3. Range(s) = {h} \cup Range(t)
    <2> HIDE DEF S
    <2> QED BY <1>1, TailElements
  <1> HIDE DEF S, t, n, h
  <1>4. \A i \in 1 .. n - 1 : i + 1 \in 1 .. n /\ i + 1 # 1
    BY <1>2
  <1>5. \A i, j \in 1 .. n : s[i] = s[j] => i = j
    BY <1>2 DEF IsInjective
  <1>6. IsInjective(t)
    <2>1. ASSUME NEW i \in 1 .. n - 1, NEW j \in 1 .. n - 1, t[i] = t[j] PROVE i = j
      <3>1. i + 1 = j + 1
        BY <2>1, <1>2, <1>4, <1>5
      <3> QED BY <3>1
    <2> QED BY <2>1, <1>2 DEF IsInjective
  <1>7. h \notin Range(t)
    <2>1. 1 \in 1 .. n
      BY <1>2
    <2>2. \A i \in 1 .. n - 1 : t[i] # h
      BY <2>1, <1>2, <1>4, <1>5
    <2> QED BY <2>2, <1>2 DEF Range
  <1> QED BY <1>3, <1>6, <1>7 DEF t, h

\* What a timed run does to the rounds: a good output takes its round one run
\* further, a bad one leaves it unfinished, and the other rounds stay as they
\* are.
RunTaken(log, runs, l, run, good, newLog, rest) ==
  /\ run.round \in Rounds(l) /\ ~FinishedIn(log, run.round)
  /\ good => Ahead(newLog, rest, l)
  /\ ~good => ~FinishedIn(newLog, run.round)
  /\ \A r \in Rounds(l) : r # run.round => (FinishedIn(newLog, r) <=> FinishedIn(log, r))
  /\ \A r : RowsOnce(log, r) => RowsOnce(newLog, r)

\* A timed run does that (ab_timed.Timed.run).
LEMMA TimedTakes ==
  ASSUME NEW log, IsLog(log), NEW runs, runs # <<>>, NEW l, Ahead(log, runs, l),
         NEW row, row # Garbled, row.run = Head(runs)
  PROVE  RunTaken(log, runs, l, Head(runs), row.ok, Append(log, row), Tail(runs))
  <1> DEFINE run == Head(runs)
             rest == Tail(runs)
             q == run.round
             key == <<run.rep, run.arm>>
             newLog == Append(log, row)
  <1>1. /\ IsLog(runs) /\ IsInjective(runs)
        /\ \A x \in Range(runs) : x.round \in Rounds(l)
        /\ \A x, y \in Range(runs) : x.round = y.round /\ <<x.rep, x.arm>> = <<y.rep, y.arm>> => x = y
        /\ \A r \in Rounds(l) : Progress(log, Range(runs), r)
    BY DEF Ahead
  <1>2. IsLog(rest) /\ run \in Range(runs) /\ IsInjective(rest) /\ Range(rest) = Range(runs) \ {run}
    BY <1>1, DropHead, TailDistinct
  <1>3. row.run = run
    OBVIOUS
  <1> HIDE DEF run, rest, newLog
  <1>4. q \in Rounds(l)
    BY <1>1, <1>2
  <1>5. key \in KeysOf(Range(runs), q)
    BY <1>2 DEF KeysOf
  <1>6. Pending(log, KeysOf(Range(runs), q), q)
    BY <1>1, <1>4, <1>5 DEF Progress
  <1>7. ~FinishedIn(log, q)
    BY <1>5, <1>6, PendingFinished
  <1>8. \A r \in Rounds(l) : r # q => KeysOf(Range(rest), r) = KeysOf(Range(runs), r)
    BY <1>2 DEF KeysOf
  <1>9. KeysOf(Range(rest), q) = KeysOf(Range(runs), q) \ {key}
    <2>1. ASSUME NEW x \in Range(rest), x.round = q PROVE <<x.rep, x.arm>> # key
      <3>1. x \in Range(runs) /\ x # run
        BY <1>2, <2>1
      <3> QED BY <3>1, <2>1, <1>1, <1>2
    <2>2. KeysOf(Range(rest), q) \subseteq KeysOf(Range(runs), q) \ {key}
      BY <2>1, <1>2 DEF KeysOf
    <2>3. KeysOf(Range(runs), q) \ {key} \subseteq KeysOf(Range(rest), q)
      BY <1>2 DEF KeysOf
    <2> QED BY <2>2, <2>3
  <1> HIDE DEF q, key
  <1>10. row.run.round = q /\ <<row.run.rep, row.run.arm>> = key
    BY <1>3 DEF q, key
  <1>11. \A r \in Rounds(l) : r # q =>
           /\ RowsAt(newLog, r) = RowsAt(log, r) /\ KeysAt(newLog, r) = KeysAt(log, r)
           /\ RowsGood(newLog, r) <=> RowsGood(log, r)
           /\ FinishedIn(newLog, r) <=> FinishedIn(log, r)
    BY <1>10, OtherRound DEF newLog
  <1>12. ~row.ok => ~FinishedIn(newLog, q)
    BY <1>10, BadRunUnfinished DEF newLog
  <1>13. ASSUME row.ok PROVE Ahead(newLog, rest, l)
    <2>1. Pending(newLog, KeysOf(Range(rest), q), q)
      <3> DEFINE ahead == KeysOf(Range(runs), q)
      <3>1. Pending(log, ahead, q) /\ key \in ahead
        BY <1>5, <1>6
      <3> HIDE DEF ahead
      <3>2. Pending(newLog, ahead \ {key}, q)
        BY <3>1, <1>10, <1>13, TakeRun DEF newLog
      <3> QED BY <3>2, <1>9 DEF ahead
    <2>2. ASSUME NEW r \in Rounds(l), r # q PROVE Progress(newLog, Range(rest), r)
      <3>1. Progress(log, Range(runs), r)
        BY <1>1
      <3>2. KeysOf(Range(rest), r) = KeysOf(Range(runs), r)
        BY <1>8, <2>2
      <3> QED BY <3>1, <3>2, <2>2, <1>11 DEF Progress, Pending
    <2>3. \A r \in Rounds(l) : Progress(newLog, Range(rest), r)
      BY <2>1, <2>2 DEF Progress
    <2> QED BY <2>3, <1>1, <1>2 DEF Ahead
  <1>14. run.round = q
    BY DEF q
  <1>15. ASSUME NEW r, RowsOnce(log, r) PROVE RowsOnce(newLog, r)
    <2>1. key \in AllKeys \ KeysAt(log, q)
      BY <1>5, <1>6 DEF Pending
    <2> QED BY <2>1, <1>10, <1>15, AppendOnce DEF newLog
  <1> QED BY <1>4, <1>7, <1>11, <1>12, <1>13, <1>14, <1>15 DEF RunTaken, run, rest, newLog

\* The step that takes it.
LEMMA TimedStep ==
  ASSUME SamplesInv, PromiseInv, Timed
  PROVE  RunTaken(slog, todo, seeds, Head(todo), OutputOk(Head(todo)), slog', todo')
  <1> DEFINE row == [run |-> Head(todo), ok |-> OutputOk(Head(todo)), session |-> session]
  <1>1. pc = "timed" /\ todo # <<>> /\ todo' = Tail(todo)
    BY DEF Timed, InPhase, Going
  <1>2. slog' = Append(slog, row)
    BY <1>1 DEF Timed, Append1, SamplesInv, Splitting
  <1>3. row.run = Head(todo) /\ row.ok = OutputOk(Head(todo)) /\ row # Garbled
    <2>1. DOMAIN row = {"run", "ok", "session"} /\ DOMAIN Garbled = {"garbled"}
      BY DEF Garbled
    <2>2. "run" \notin {"garbled"}
      OBVIOUS
    <2>3. row # Garbled
      BY <2>1, <2>2
    <2> QED BY <2>3
  <1>4. IsLog(slog) /\ Ahead(slog, todo, seeds)
    BY <1>1 DEF SamplesInv, RowsInRange, PromiseInv
  <1> HIDE DEF row
  <1>5. RunTaken(slog, todo, seeds, Head(todo), row.ok, Append(slog, row), Tail(todo))
    BY <1>1, <1>3, <1>4, TimedTakes
  <1> QED BY <1>1, <1>2, <1>3, <1>5

\* Every step keeps the rounds settled, and then the runs ahead what the
\* rounds lack.
LEMMA NextPromise ==
  ASSUME SamplesInv, PromiseInv, [Next]_vars
  PROVE  PromiseInv'
  <1>0. IsLog(slog)
    BY DEF SamplesInv, RowsInRange
  <1>1. ASSUME UNCHANGED <<meta, seeds, slog, pc, todo, keep>>, why' = why PROVE PromiseInv'
    BY <1>1 DEF PromiseInv
  <1>2. ASSUME UNCHANGED <<seeds, slog>>, pc # "idle", pc' \in {"opening", "building", "splitting", "stopping", "leaving"}
        PROVE  PromiseInv'
    BY <1>2 DEF PromiseInv
  <1>3. ASSUME NEW b \in AllBuilds, Claim(b) \/ Spawn(b) \/ Built(b) \/ Terminate(b) PROVE PromiseInv'
    BY <1>3, <1>1 DEF Claim, Spawn, Built, Terminate, disk
  <1>4. ASSUME NEW b \in AllBuilds, Record(b) \/ LinkBuild(b) PROVE PromiseInv'
    <2>1. pc = "building" /\ pc' \in {"building", "stopping"} /\ UNCHANGED <<seeds, slog>>
      BY <1>4 DEF Record, LinkBuild, Recorded, InPhase, Going
    <2> QED BY <2>1, <1>2
  <1>5. ASSUME NEW b \in AllBuilds, Raised(b) PROVE PromiseInv'
    BY <1>5, <1>2 DEF Raised, Going, disk
  <1>6. CASE Open
    BY <1>6, <1>2 DEF Open
  <1>7. CASE ReadBuilds \/ RewriteBuilds \/ Stopped \/ Finished
    <2>1. pc # "idle" /\ pc' \in {"building", "splitting", "stopping", "leaving"} /\ UNCHANGED <<seeds, slog>>
      BY <1>7 DEF ReadBuilds, RewriteBuilds, Stopped, Finished, InPhase, Going, disk
    <2> QED BY <2>1, <1>2
  <1>8. CASE SplitRounds
    <2>1. UNCHANGED <<meta, seeds, slog>> /\ pc = "splitting" /\ pc' \in {"trimming", "leaving"}
      BY <1>8 DEF SplitRounds, InPhase, Going
    <2>2. CASE pc' = "leaving"
      BY <2>1, <2>2, <1>2
    <2>3. CASE pc' = "trimming"
      <3>1. SplitParts(seeds, slog, keep', todo')
        BY <1>8, <2>3, SplitIntoParts
      <3>2. \A r \in Rounds(seeds) : /\ FinishedIn(keep', r) <=> FinishedIn(slog, r)
                                     /\ Settled(keep', r)
                                     /\ todo' = <<>> => Settled(slog, r)
        BY <3>1, <1>0, PartsSettle
      <3>3. \A r : RowsOnce(keep', r)
        BY <3>1, <1>0, PartsOnce DEF PromiseInv
      <3> QED BY <2>1, <2>3, <3>2, <3>3 DEF PromiseInv
    <2> QED BY <2>1, <2>2, <2>3
  <1>19. CASE OpenDropped
    <2>1. UNCHANGED <<meta, seeds, slog, keep, todo>> /\ pc = "trimming"
          /\ pc' \in {"reference", "dropping", "leaving"} /\ (pc' = "reference" => todo = <<>>)
      BY <1>19 DEF OpenDropped, InPhase, Going
    <2> QED BY <2>1 DEF PromiseInv
  <1>9. CASE DropRow
    <2>1. UNCHANGED <<meta, seeds, slog, keep, pc>> /\ pc = "dropping"
      BY <1>9 DEF DropRow, InPhase, Going
    <2> QED BY <2>1 DEF PromiseInv
  <1>10. CASE RewriteSamples
    <2>1. UNCHANGED <<meta, seeds>> /\ slog' = keep /\ pc = "dropping" /\ pc' = "reference"
      BY <1>10 DEF RewriteSamples, InPhase, Going
    <2> QED BY <2>1 DEF PromiseInv
  <1>11. CASE OpenReference
    <2>1. UNCHANGED <<meta, seeds, slog>> /\ pc = "reference" /\ pc' \in {"writing", "leaving"}
      BY <1>11 DEF OpenReference, InPhase, Going
    <2> QED BY <2>1 DEF PromiseInv
  <1>12. CASE HaveReference
    <2>1. UNCHANGED <<meta, seeds, slog>> /\ pc \in {"writing", "reference"} /\ pc' = "timed"
      BY <1>12 DEF HaveReference, InPhase, Going
    <2>2. \A r \in Rounds(seeds) : Settled(slog, r)
      BY <2>1 DEF PromiseInv
    <2>3. Ahead(slog, todo', seeds)
      BY <1>12, <2>2, SettledIsAhead
    <2> QED BY <2>1, <2>3 DEF PromiseInv
  <1>13. CASE Timed
    <2>1. UNCHANGED <<meta, seeds>> /\ pc = "timed" /\ pc' = IF OutputOk(Head(todo)) THEN "timed" ELSE "leaving"
      BY <1>13 DEF Timed, InPhase, Going
    <2>2. RunTaken(slog, todo, seeds, Head(todo), OutputOk(Head(todo)), slog', todo')
      BY <1>13, TimedStep
    <2>3. OutputOk(Head(todo)) => Ahead(slog', todo', seeds)
      BY <2>2 DEF RunTaken
    <2>4. \A r : RowsOnce(slog', r)
      BY <2>2 DEF RunTaken, PromiseInv
    <2> QED BY <2>1, <2>3, <2>4 DEF PromiseInv
  <1>14. CASE Empty \/ Interrupt
    BY <1>14, <1>1 DEF Empty, Interrupt, driver, disk
  <1>15. CASE Leave
    <2>1. UNCHANGED <<seeds, slog>> /\ pc' = "idle" /\ why' = None
      BY <1>15 DEF Leave, Gone
    <2> QED BY <2>1 DEF PromiseInv
  <1>20. CASE Interrupted \/ Crash
    <2>1. /\ seeds' = seeds
          /\ \/ pc' = "idle" /\ why' = None
             \/ pc # "idle" /\ pc' \in {"stopping", "leaving"}
      BY <1>20 DEF Interrupted, Crash, Gone, Going
    <2>2. IsCut(slog', slog)
      <3>1. \E took : Cutting(took)
        BY <1>20, CutLogs DEF SamplesInv, RowsInRange
      <3> QED BY <3>1 DEF Cutting
    <2>3. \A r : RowsOnce(slog', r)
      BY <2>2, <1>0, CutOnce DEF PromiseInv
    <2> QED BY <2>1, <2>3 DEF PromiseInv
  <1>16. ASSUME NEW l \in SeedLists, Run(l) \/ Resume(l) PROVE PromiseInv'
    <2>1. UNCHANGED <<meta, slog, why>> /\ pc = "idle" /\ pc' = "opened" /\ seeds' = l /\ SeedsOk(l)
      BY <1>16 DEF Run, Resume, Begin
    <2>2. meta # None => SubSeq(l, 1, Len(meta.seeds)) = meta.seeds
      BY <1>16 DEF Run, Resume, Begin, SamplesInv, MetaOk
    <2> QED BY <2>1, <2>2 DEF PromiseInv
  <1>17. CASE UNCHANGED vars
    BY <1>17, <1>1 DEF vars, driver, disk
  <1>18. CASE Next
    BY <1>18, <1>3, <1>4, <1>5, <1>6, <1>7, <1>8, <1>9, <1>10, <1>11, <1>12, <1>13, <1>14, <1>15, <1>16,
       <1>19, <1>20 DEF Next, Step, Start
  <1> QED BY <1>17, <1>18

\* Every step is one of Experiment, or changes nothing it sees.
LEMMA StepKeepsPromise ==
  ASSUME SamplesInv, PromiseInv, [Next]_vars
  PROVE  [Promise!Next]_(Promise!vars)
  <1> DEFINE Same == UNCHANGED <<meta, slog, lost>> /\ (why' = "done" <=> why = "done")
  <1>0. None # "done"
    BY SessionAssumption DEF Outcomes
  <1>1. ASSUME Same PROVE UNCHANGED (Promise!vars)
    BY <1>1 DEF Promise!vars, FinishedIn, RowsAt
  <1>2. ASSUME NEW b \in AllBuilds, Claim(b) \/ Spawn(b) \/ Built(b) \/ Terminate(b) PROVE Same
    BY <1>2 DEF Claim, Spawn, Built, Terminate, disk
  <1>3. ASSUME NEW b \in AllBuilds, Record(b) \/ LinkBuild(b) \/ Raised(b) PROVE Same
    <2>1. UNCHANGED <<meta, slog, lost>> /\ why = None /\ why' \in {None, "aborted", "failed", "interrupted"}
      BY <1>3 DEF Record, LinkBuild, Recorded, Raised, InPhase, Going, disk
    <2> QED BY <2>1, <1>0
  <1>4. CASE \/ ReadBuilds \/ RewriteBuilds \/ DropRow \/ HaveReference \/ Stopped \/ Interrupt \/ Empty
             \/ \E l \in SeedLists : Run(l) \/ Resume(l)
    <2>1. Same
      BY <1>4 DEF ReadBuilds, RewriteBuilds, DropRow, HaveReference, Stopped, Interrupt, Empty, Run,
                  Resume, disk, driver
    <2> QED BY <2>1, <1>1
  <1>5. CASE OpenReference \/ SplitRounds \/ OpenDropped
    <2>1. UNCHANGED <<meta, slog, lost>> /\ why = None /\ why' \in {None, "aborted", "failed"}
      BY <1>5 DEF OpenReference, SplitRounds, OpenDropped, InPhase, Going, disk
    <2> QED BY <2>1, <1>0, <1>1
  <1>6. CASE UNCHANGED vars
    <2>1. Same
      BY <1>6 DEF vars, disk, driver
    <2> QED BY <2>1, <1>1
  <1>7. CASE Open
    <2>1. /\ pc = "opened" /\ UNCHANGED <<slog, lost>> /\ why = None /\ why' \in {None, "failed"}
          /\ meta' = [seeds |-> seeds, status |-> IF meta = None THEN None ELSE meta.status]
      BY <1>7 DEF Open, PromiseInv
    <2>2. meta'.seeds = seeds /\ meta' # None /\ seeds \in SeedLists /\ seeds \in Seq(Int)
      <3>1. seeds \in SeedLists
        BY <2>1 DEF SamplesInv, MetaOk
      <3>2. (IF meta = None THEN None ELSE meta.status) \in Outcomes \cup {None}
        BY DEF SamplesInv, MetaOk
      <3>3. meta' \in [seeds : SeedLists, status : Outcomes \cup {None}] /\ meta'.seeds = seeds
        BY <2>1, <3>1, <3>2
      <3> QED BY <3>1, <3>3, SessionAssumption
    <2> DEFINE was == IF meta = None THEN <<>> ELSE meta.seeds
               had == IF meta = None THEN {} ELSE {r \in Rounds(meta.seeds) : FinishedIn(slog, r)}
    <2>3. Len(seeds) >= Len(was) /\ SubSeq(seeds, 1, Len(was)) = was
      <3>1. CASE meta = None
        BY <3>1, <2>2
      <3>2. CASE meta # None
        <4>1. Len(meta.seeds) <= Len(seeds) /\ meta.seeds \in SeedLists
          BY <3>2, <2>1 DEF SamplesInv, MetaOk
        <4>2. Len(meta.seeds) \in Nat /\ Len(seeds) \in Nat
          BY <4>1, <2>2, SessionAssumption
        <4> QED BY <3>2, <4>1, <4>2, <2>1 DEF PromiseInv
      <3> QED BY <3>1, <3>2
    <2>4. {r \in Rounds(seeds) : FinishedIn(slog, r)} = had
      <3>1. ASSUME NEW r \in Rounds(seeds), FinishedIn(slog, r)
            PROVE  meta # None /\ r \in Rounds(meta.seeds)
        <4>1. PICK i \in RowsAt(slog, r) : TRUE
          BY <3>1, EmptyUnfinished
        <4>2. i \in DOMAIN slog /\ slog[i] \in Samples(slog) /\ slog[i].run.round = r
          BY DEF RowsAt, Samples
        <4>3. slog # <<>>
          BY <4>2
        <4>4. meta # None
          BY <4>3 DEF SamplesInv, MetaOk
        <4> QED BY <4>2, <4>4 DEF SamplesInv, RowsInRange
      <3>2. meta # None => Rounds(meta.seeds) \subseteq Rounds(seeds)
        <4>1. ASSUME meta # None PROVE Rounds(meta.seeds) \subseteq Rounds(seeds)
          <5>1. Len(meta.seeds) <= Len(seeds) /\ meta.seeds \in SeedLists
            BY <4>1, <2>1 DEF SamplesInv, MetaOk
          <5>2. Len(meta.seeds) \in Nat /\ Len(seeds) \in Nat
            BY <5>1, <2>2, SessionAssumption
          <5> QED BY <5>1, <5>2 DEF Rounds
        <4> QED BY <4>1
      <3> QED BY <3>1, <3>2
    <2>5. Promise!Ask
      <3>1. {r \in Rounds(meta'.seeds) : FinishedIn(slog', r)} = had
        BY <2>1, <2>2, <2>4
      <3> QED BY <2>1, <2>2, <2>3, <3>1, <1>0 DEF Promise!Ask
    <2> QED BY <2>5 DEF Promise!Next
  <1>8. CASE RewriteSamples
    <2>1. UNCHANGED <<meta, why, lost>> /\ pc = "dropping" /\ slog' = keep
      BY <1>8 DEF RewriteSamples, InPhase, Going
    <2>2. meta # None /\ meta.seeds = seeds
      BY <2>1 DEF SamplesInv, MetaOk
    <2>3. \A r \in Rounds(seeds) : FinishedIn(slog', r) <=> FinishedIn(slog, r)
      BY <2>1 DEF PromiseInv
    <2>4. {r \in Rounds(meta'.seeds) : FinishedIn(slog', r)} = {r \in Rounds(meta.seeds) : FinishedIn(slog, r)}
      BY <2>1, <2>2, <2>3
    <2> QED BY <2>1, <2>4 DEF Promise!vars
  <1>9. CASE Timed
    <2> DEFINE good == OutputOk(Head(todo))
               run == Head(todo)
               q == run.round
               had == {r \in Rounds(meta.seeds) : FinishedIn(slog, r)}
               has == {r \in Rounds(meta.seeds) : FinishedIn(slog', r)}
    <2>1. UNCHANGED <<meta, lost>> /\ pc = "timed" /\ why = None /\ why' = IF good THEN None ELSE "aborted"
      BY <1>9 DEF Timed, InPhase, Going
    <2>2. RunTaken(slog, todo, seeds, run, good, slog', todo')
      BY <1>9, TimedStep
    <2> HIDE DEF good, run
    <2>3. meta # None /\ meta.seeds = seeds
      BY <2>1 DEF SamplesInv, MetaOk
    <2>4. has = had \/ (q \in Rounds(meta.seeds) \ had /\ has = had \cup {q})
      BY <2>2, <2>3 DEF RunTaken
    <2>5. why # "done" /\ why' # "done"
      BY <2>1, <1>0
    <2> HIDE DEF q
    <2>6. CASE has = had
      BY <2>1, <2>3, <2>5, <2>6 DEF Promise!vars
    <2>7. CASE q \in Rounds(meta.seeds) \ had /\ has = had \cup {q}
      <3>1. Promise!Finish
        BY <2>1, <2>3, <2>5, <2>7 DEF Promise!Finish, Promise!Rounds, Rounds
      <3> QED BY <3>1 DEF Promise!Next
    <2> QED BY <2>4, <2>6, <2>7
  <1>10. CASE Finished
    <2>1. UNCHANGED <<meta, slog, lost>> /\ pc = "timed" /\ todo = <<>> /\ why' = "done"
      BY <1>10 DEF Finished, InPhase, Going, disk
    <2>2. meta # None /\ meta.seeds = seeds /\ seeds # <<>>
      BY <2>1 DEF SamplesInv, MetaOk, PromiseInv, SeedsOk
    <2>3. ASSUME NEW r \in Rounds(seeds) PROVE FinishedIn(slog, r)
      <3>1. Progress(slog, Range(todo), r)
        BY <2>1 DEF PromiseInv, Ahead
      <3>2. KeysOf(Range(todo), r) = {}
        BY <2>1 DEF KeysOf, Range
      <3>3. IsLog(slog)
        BY DEF SamplesInv, RowsInRange
      <3> QED BY <3>1, <3>2, <3>3, PendingFinished DEF Progress
    <2>4. {r \in Rounds(meta.seeds) : FinishedIn(slog, r)} = Rounds(meta.seeds)
      BY <2>2, <2>3
    <2>5. Promise!Report
      BY <2>1, <2>2, <2>4 DEF Promise!Report, Promise!Rounds, Rounds
    <2> QED BY <2>5 DEF Promise!Next
  <1>11. CASE Leave
    <2>1. why' = None /\ UNCHANGED <<slog, lost>>
      BY <1>11 DEF Leave, Gone
    <2>2. meta # None /\ meta' # None /\ meta'.seeds = meta.seeds
      <3>1. meta \in [seeds : SeedLists, status : Outcomes \cup {None}] /\ why \in Outcomes \cup {None}
            /\ meta # None /\ meta' = [meta EXCEPT !.status = why]
        BY <1>11 DEF Leave, SamplesInv, MetaOk
      <3>2. meta' \in [seeds : SeedLists, status : Outcomes \cup {None}] /\ meta'.seeds = meta.seeds
        BY <3>1
      <3> QED BY <3>1, <3>2, SessionAssumption
    <2>3. CASE why = "done"
      <3>1. Promise!Seen
        BY <2>1, <2>2, <2>3, <1>0 DEF Promise!Seen, FinishedIn, RowsAt
      <3> QED BY <3>1 DEF Promise!Next
    <2>4. CASE why # "done"
      BY <2>1, <2>2, <2>4, <1>0 DEF Promise!vars, FinishedIn, RowsAt
    <2> QED BY <2>3, <2>4
  <1>13. CASE Interrupted \/ Crash
    <2> DEFINE asked == IF meta = None THEN <<>> ELSE meta.seeds
               had == IF meta = None THEN {} ELSE {r \in Rounds(meta.seeds) : FinishedIn(slog, r)}
               has == IF meta = None THEN {} ELSE {r \in Rounds(meta.seeds) : FinishedIn(slog', r)}
               before == [i \in DOMAIN lost |-> RoundsOf(lost[i])]
               after == [i \in DOMAIN lost' |-> RoundsOf(lost'[i])]
    <2>1. meta' = meta /\ why' # "done"
      BY <1>13, <1>0 DEF Interrupted, Crash, Gone
    <2>2. PICK took : Cutting(took)
      BY <1>13, CutLogs DEF SamplesInv, RowsInRange
    <2>3. /\ IsCut(slog', slog) /\ Samples(slog) \subseteq Samples(slog') \cup took
          /\ lost' = IF took = {} THEN lost ELSE Append(lost, took)
      BY <2>2 DEF Cutting
    <2>4. IsLog(slog) /\ IsLog(lost) /\ \A r : RowsOnce(slog, r)
      BY DEF SamplesInv, RowsInRange, PromiseInv
    <2>5. ASSUME NEW r, FinishedIn(slog', r) PROVE FinishedIn(slog, r)
      BY <2>3, <2>4, <2>5, CutFinished
    <2>6. ASSUME NEW r, FinishedIn(slog, r), ~FinishedIn(slog', r) PROVE r \in RoundsOf(took)
      <3>1. /\ IsLog(slog) /\ IsCut(slog', slog) /\ Samples(slog) \subseteq Samples(slog') \cup took
            /\ FinishedIn(slog, r) /\ ~FinishedIn(slog', r)
        BY <2>3, <2>4, <2>6
      <3> QED BY <3>1, CutUnfinishes
    <2>7. has \subseteq had /\ had \ has \subseteq RoundsOf(took)
      BY <2>5, <2>6
    <2>8. (IF meta' = None THEN {} ELSE {r \in Rounds(meta'.seeds) : FinishedIn(slog', r)}) = has
      BY <2>1
    <2>9. CASE took = {}
      <3>0. RoundsOf(took) = {} /\ lost' = lost
        BY <2>3, <2>9 DEF RoundsOf
      <3>1. has = had /\ after = before
        <4>1. after = before
          BY <3>0
        <4> HIDE DEF has, had, after, before
        <4> QED BY <2>7, <3>0, <4>1
      <3> HIDE DEF has, had, after, before, RoundsOf
      <3>2. CASE why = "done"
        <4>1. Promise!Seen
          BY <2>1, <2>8, <3>1, <3>2 DEF Promise!Seen, had, after, before, RoundsOf
        <4> QED BY <4>1 DEF Promise!Next
      <3>3. CASE why # "done"
        BY <2>1, <2>8, <3>1, <3>3 DEF Promise!vars, had, after, before, RoundsOf
      <3> QED BY <3>2, <3>3
    <2>10. CASE took # {}
      <3> DEFINE L == Range(lost) \cup {took}
                 n == Len(lost)
      <3>1. lost \in Seq(L) /\ took \in L /\ lost' = Append(lost, took)
        BY <2>3, <2>4, <2>10 DEF IsLog
      <3> HIDE DEF L
      <3>2. /\ n \in Nat /\ DOMAIN lost = 1 .. n /\ DOMAIN lost' = 1 .. n + 1 /\ lost'[n + 1] = took
            /\ \A i \in 1 .. n : lost'[i] = lost[i]
        BY <3>1
      <3> HIDE DEF n
      <3>3. after = [i \in 1 .. n + 1 |-> after[i]] /\ before = [i \in 1 .. n |-> before[i]]
        BY <3>2
      <3>4. after[n + 1] = RoundsOf(took) /\ \A i \in 1 .. n : after[i] = before[i]
        BY <3>2
      <3> HIDE DEF after, before
      <3> DEFINE S == {after[i] : i \in 1 .. n + 1}
      <3>5. after \in Seq(S) /\ Len(after) = n + 1
        BY <3>2, <3>3
      <3>6. before \in Seq(S) /\ Len(before) = n
        <4>1. \A i \in 1 .. n : before[i] \in S
          BY <3>2, <3>4
        <4> HIDE DEF S
        <4> QED BY <3>2, <3>3, <4>1
      <3> HIDE DEF S
      <3>7. SubSeq(after, 1, n) = before
        BY <3>2, <3>4, <3>5, <3>6
      <3>8. Len(after) = Len(before) + 1 /\ SubSeq(after, 1, Len(before)) = before
            /\ had \ has \subseteq after[Len(after)]
        BY <2>7, <3>4, <3>5, <3>6, <3>7
      <3> HIDE DEF has, had
      <3>9. Promise!Lose
        BY <2>1, <2>7, <2>8, <3>8 DEF Promise!Lose, had, after, before, RoundsOf
      <3> QED BY <3>9 DEF Promise!Next
    <2> QED BY <2>9, <2>10
  <1>12. CASE Next
    <2>1. CASE \E b \in AllBuilds : Claim(b) \/ Spawn(b) \/ Built(b) \/ Record(b) \/ Raised(b)
                                    \/ LinkBuild(b) \/ Terminate(b)
      <3>1. Same
        <4> HIDE DEF Same
        <4> QED BY <2>1, <1>2, <1>3
      <3> QED BY <3>1, <1>1
    <2> QED BY <1>12, <2>1, <1>4, <1>5, <1>7, <1>8, <1>9, <1>10, <1>11, <1>13
      DEF Next, Step, Start
  <1> QED BY <1>6, <1>12

\* The driver implements Experiment: however its sessions end, the rounds asked
\* for only grow, a finished round stays finished unless a _trim that was cut
\* short took rows of it, and success is reported only when every round is
\* finished (ab.experiment, ab_timed.split_rounds, TsvLog._trim).
THEOREM Implements == Spec => ImplementsExperiment
  <1>1. ASSUME Init PROVE Promise!Init
    <2>1. lost = <<>> /\ meta = None /\ why = None
      BY <1>1 DEF Init, Idle
    <2>2. [i \in DOMAIN lost |-> {row.run.round : row \in lost[i]}] = <<>>
      BY <2>1
    <2> QED BY <2>1, <2>2, SessionAssumption DEF Promise!Init, Outcomes
  <1>2. ASSUME Init PROVE PromiseInv
    <2>1. \A r : RowsOnce(<<>>, r)
      BY DEF RowsOnce, KeysAt, RowsAt
    <2> QED BY <1>2, <2>1 DEF Init, Idle, PromiseInv
  <1>3. SamplesInv /\ PromiseInv /\ [Next]_vars => PromiseInv'
    BY NextPromise
  <1>4. SamplesInv /\ PromiseInv /\ [Next]_vars => [Promise!Next]_(Promise!vars)
    BY StepKeepsPromise
  <1>5. Init => SamplesInv
    BY InitSamples
  <1>6. SamplesInv /\ [Next]_vars => SamplesInv'
    BY NextSamples
  <1> QED BY <1>1, <1>2, <1>3, <1>4, <1>5, <1>6, PTL DEF Spec, ImplementsExperiment, Promise!Spec

(***************************************************************************)
(* Success means that every round is whole.  A finished round's rows are   *)
(* its runs, in the order scheduled and of one session, since the rows of  *)
(* a round left unfinished are moved away before it is run again.          *)
(***************************************************************************)
RunsIn(rows) == [i \in DOMAIN rows |-> rows[i].run]

InOrder(log, l, r) ==
  /\ RunsIn(RowsOf(log, r)) = RoundRuns(r, l[r + 1], K, Reps)
  /\ \A i, j \in DOMAIN RowsOf(log, r) : RowsOf(log, r)[i].session = RowsOf(log, r)[j].session

\* The rows of a round, of session n, and then the runs ahead of it.
OnTrack(log, runs, l, r, n) ==
  /\ RunsIn(RowsOf(log, r)) \o RunsOf(runs, r) = RoundRuns(r, l[r + 1], K, Reps)
  /\ \A i \in DOMAIN RowsOf(log, r) : RowsOf(log, r)[i].session = n

OrderInv ==
  /\ meta # None => \A r \in Rounds(meta.seeds) : FinishedIn(slog, r) => InOrder(slog, meta.seeds, r)
  /\ pc \in {"trimming", "dropping"} =>
       \A r \in Rounds(seeds) : FinishedIn(slog, r) => RowsOf(keep, r) = RowsOf(slog, r)
  /\ pc = "timed" => \A r \in Rounds(seeds) : FinishedIn(slog, r) \/ OnTrack(slog, todo, seeds, r, session)
  /\ why = "done" => \A r \in Rounds(seeds) : FinishedIn(slog, r)

\* The rows of a round, as the log grows.
LEMMA RowsGrow ==
  ASSUME NEW log, IsLog(log), NEW row, row # Garbled, NEW r
  PROVE  RowsOf(Append(log, row), r)
           = IF row.run.round = r THEN Append(RowsOf(log, r), row) ELSE RowsOf(log, r)
  <1> DEFINE S == Range(log) \cup {row}
             u == Append(log, row)
             n == Len(log)
             at == RowsAt(u, r)
             was == RowsAt(log, r)
  <1>1. log \in Seq(S) /\ row \in S
    BY DEF IsLog
  <1>2. /\ n \in Nat /\ DOMAIN log = 1 .. n /\ DOMAIN u = 1 .. n + 1
        /\ u[n + 1] = row /\ \A i \in 1 .. n : u[i] = log[i]
    BY DEF IsLog
  <1>3. RowsOf(u, r) = Sift(u, at) /\ RowsOf(log, r) = Sift(log, was)
    BY Zenon DEF RowsOf
  <1> HIDE DEF S, u, n
  <1>4. \A i \in DOMAIN log : i \in at <=> i \in was
    BY <1>2 DEF RowsAt
  <1>5. n + 1 \in at <=> row.run.round = r
    BY <1>2 DEF RowsAt
  <1> HIDE DEF at, was
  <1>6. Sift(u, at) = IF n + 1 \in at THEN Append(Sift(log, was), row) ELSE Sift(log, was)
    BY <1>1, <1>4, SiftAppend DEF u, n
  <1> QED BY <1>3, <1>5, <1>6 DEF u

\* The rows of a round are a log, with the rows at its positions.
LEMMA RowsAreLog ==
  ASSUME NEW log, IsLog(log), NEW r
  PROVE  /\ RowsOf(log, r) \in Seq(Range(log))
         /\ Range(RowsOf(log, r)) = {log[i] : i \in RowsAt(log, r)}
  <1> DEFINE S == Range(log)
             at == RowsAt(log, r)
  <1>1. log \in Seq(S)
    BY DEF IsLog
  <1>2. RowsOf(log, r) = Sift(log, at)
    BY Zenon DEF RowsOf
  <1>3. DOMAIN log \cap at = at
    BY DEF RowsAt
  <1> HIDE DEF S, at
  <1>4. Sift(log, at) \in Seq(S) /\ Range(Sift(log, at)) = {log[i] : i \in DOMAIN log \cap at}
    BY <1>1, SiftElements
  <1> QED BY <1>2, <1>3, <1>4 DEF S, at

\* Where the elements of two sequences joined are.
LEMMA JoinAt ==
  ASSUME NEW S
  PROVE  \A p, q \in Seq(S) :
           /\ p \o q \in Seq(S) /\ DOMAIN (p \o q) = 1 .. (Len(p) + Len(q))
           /\ \A i \in 1 .. Len(p) : (p \o q)[i] = p[i]
           /\ \A i \in 1 .. Len(q) : (p \o q)[Len(p) + i] = q[i]
  OBVIOUS

\* The rows of a round that keeps them all when its log is cut.
LEMMA CutRows ==
  ASSUME NEW s, IsLog(s), NEW t, IsCut(t, s), NEW r, RowsAt(t, r) = RowsAt(s, r)
  PROVE  RowsOf(t, r) = RowsOf(s, r)
  <1> DEFINE S == Range(s)
             B == {x \in S : x # Garbled /\ x.run.round = r}
             rest == SubSeq(s, Len(t) + 1, Len(s))
  <1>1. /\ s \in Seq(S) /\ Len(s) \in Nat /\ IsLog(t) /\ Len(t) \in 0 .. Len(s)
        /\ DOMAIN t = 1 .. Len(t) /\ DOMAIN s = 1 .. Len(s)
        /\ \A i \in DOMAIN t : i \in DOMAIN s /\ t[i] = s[i]
    BY CutElements DEF IsLog
  <1>2. /\ \A i \in DOMAIN s : s[i] \in S
        /\ \A i \in DOMAIN t : t[i] \in S
    BY <1>1 DEF Range
  <1>3. On(s, B) = RowsOf(s, r) /\ On(t, B) = RowsOf(t, r)
    <2>1. {i \in DOMAIN s : s[i] \in B} = RowsAt(s, r) /\ {i \in DOMAIN t : t[i] \in B} = RowsAt(t, r)
      BY <1>2 DEF RowsAt
    <2> QED BY <2>1, Zenon DEF On, RowsOf
  <1>4. \A i \in DOMAIN s : s[i] \in B => i \in DOMAIN t
    BY <1>2 DEF RowsAt
  <1> HIDE DEF S
  <1> DEFINE m == Len(t)
             n == Len(s)
  <1>5. t \in Seq(S)
    <2>1. t = [i \in 1 .. Len(t) |-> t[i]] /\ Len(t) \in Nat
      BY <1>1 DEF IsLog
    <2> QED BY <2>1, <1>1, <1>2
  <1>6. /\ rest \in Seq(S) /\ DOMAIN rest = 1 .. n - m /\ Len(rest) = n - m
        /\ \A i \in 1 .. n - m : rest[i] = s[m + i]
    <2>1. m \in Nat /\ n \in Nat /\ m <= n /\ rest = SubSeq(s, m + 1, n)
      BY <1>1
    <2>2. s \in Seq(S) /\ Len(s) = n
      BY <1>1
    <2> HIDE DEF m, n, rest
    <2>3. \A i \in (m + 1) .. n : s[i] \in S
      BY <2>1, <2>2
    <2>4. SubSeq(s, m + 1, n) \in Seq(S) /\ Len(SubSeq(s, m + 1, n)) = n - m
      BY <2>1, <2>2, <2>3
    <2>5. \A i \in 1 .. n - m : SubSeq(s, m + 1, n)[i] = s[m + i]
      BY <2>1, <2>2, <2>3
    <2> QED BY <2>1, <2>4, <2>5
  <1>7. m \in Nat /\ n \in Nat /\ m <= n /\ DOMAIN t = 1 .. m /\ DOMAIN s = 1 .. n
    BY <1>1
  <1> HIDE DEF rest
  <1>8. s = t \o rest
    <2> DEFINE u == t \o rest
    <2>1. /\ u \in Seq(S) /\ DOMAIN u = 1 .. m + Len(rest) /\ \A i \in 1 .. m : u[i] = t[i]
          /\ \A i \in 1 .. Len(rest) : u[m + i] = rest[i]
      BY <1>5, <1>6, JoinAt
    <2> HIDE DEF u, m, n
    <2>2. DOMAIN u = 1 .. n
      BY <1>6, <1>7, <2>1
    <2>3. ASSUME NEW i \in 1 .. n PROVE u[i] = s[i]
      <3>1. CASE i \in 1 .. m
        BY <3>1, <1>1, <1>7, <2>1
      <3>2. CASE i \notin 1 .. m
        <4>1. i - m \in 1 .. n - m /\ m + (i - m) = i
          BY <3>2, <1>7
        <4> QED BY <4>1, <1>6, <2>1
      <3> QED BY <3>1, <3>2
    <2>4. s = [i \in 1 .. n |-> s[i]] /\ u = [i \in 1 .. n |-> u[i]]
      BY <1>1, <1>7, <2>1, <2>2
    <2>5. s = u
      BY <2>3, <2>4
    <2> QED BY <2>5 DEF u
  <1>9. Range(rest) \cap B = {}
    <2> HIDE DEF m, n
    <2>1. \A i \in 1 .. n - m : m + i \in DOMAIN s /\ m + i \notin DOMAIN t
      BY <1>7
    <2> HIDE DEF B
    <2> QED BY <2>1, <1>4, <1>6 DEF Range
  <1> HIDE DEF B, m, n
  <1>11. On(rest, B) = <<>> /\ On(t, B) \in Seq(S)
    BY <1>5, <1>6, <1>9, OnAllOrNone, OnElements
  <1>12. On(t \o rest, B) = On(t, B) \o On(rest, B)
    BY <1>5, <1>6, OnJoin
  <1>13. On(s, B) = On(t, B)
    BY <1>8, <1>11, <1>12, ConcatEmptySeq
  <1> QED BY <1>3, <1>13

\* The runs of a round among those ahead, as the first is taken.
LEMMA RunsOfTail ==
  ASSUME NEW runs, IsLog(runs), runs # <<>>, NEW r
  PROVE  /\ RunsOf(runs, r) = IF Head(runs).round = r THEN <<Head(runs)>> \o RunsOf(Tail(runs), r)
                              ELSE RunsOf(Tail(runs), r)
         /\ RunsOf(Tail(runs), r) \in Seq(Range(runs))
  <1> DEFINE S == Range(runs)
             B == {x \in S : x.round = r}
             h == Head(runs)
             u == Tail(runs)
             C == {x \in Range(u) : x.round = r}
  <1>1. runs \in Seq(S)
    BY DEF IsLog
  <1> HIDE DEF S
  <1>2. /\ h \in S /\ u \in Seq(S) /\ runs = <<h>> \o u /\ <<h>> \in Seq(S)
        /\ Range(<<h>>) = {h} /\ Range(u) \subseteq S
    <2>1. u \in Seq(S) /\ h \in S
      BY <1>1
    <2>2. runs = <<h>> \o u
      BY <1>1
    <2>3. Range(<<h>>) = {h}
      BY DEF Range
    <2>4. Range(u) \subseteq S
      BY <2>1 DEF Range
    <2> HIDE DEF h, u
    <2> QED BY <2>1, <2>2, <2>3, <2>4
  <1>3. RunsOf(runs, r) = On(runs, B) /\ RunsOf(u, r) = On(u, C)
    BY Zenon DEF RunsOf, S
  <1>4. h \in B <=> h.round = r
    BY <1>2
  <1>5. \A x \in Range(u) : x \in B <=> x \in C
    BY <1>2
  <1> HIDE DEF h, u, B, C
  <1>6. On(u, B) = On(u, C) /\ On(u, B) \in Seq(S)
    <2>1. On(u, B) = On(u, C)
      BY <1>5, OnSame
    <2>2. On(u, B) \in Seq(S)
      BY <1>2, OnElements
    <2> QED BY <2>1, <2>2
  <1>7. \A p, q \in Seq(S) : On(p \o q, B) = On(p, B) \o On(q, B)
    BY OnJoin
  <1>8. On(<<h>> \o u, B) = On(<<h>>, B) \o On(u, B)
    BY <1>2, <1>7, Zenon
  <1>9. On(<<h>>, B) = IF h \in B THEN <<h>> ELSE <<>>
    <2>1. Range(<<h>>) \subseteq B => On(<<h>>, B) = <<h>>
      BY <1>2, OnAllOrNone
    <2>2. Range(<<h>>) \cap B = {} => On(<<h>>, B) = <<>>
      BY <1>2, OnAllOrNone
    <2> QED BY <2>1, <2>2, <1>2
  <1>10. <<>> \o On(u, B) = On(u, B)
    BY <1>6, ConcatEmptySeq
  <1>11. RunsOf(runs, r) = IF h.round = r THEN <<h>> \o RunsOf(u, r) ELSE RunsOf(u, r)
    BY <1>2, <1>3, <1>4, <1>6, <1>8, <1>9, <1>10
  <1>12. RunsOf(u, r) \in Seq(S)
    BY <1>3, <1>6
  <1> QED BY <1>11, <1>12 DEF h, u, S

\* A run taken is the next one of its round.
LEMMA RunInOrder ==
  ASSUME NEW log, IsLog(log), NEW runs, IsLog(runs), runs # <<>>, NEW l, NEW n,
         NEW row, row # Garbled, row.run = Head(runs), row.session = n,
         OnTrack(log, runs, l, Head(runs).round, n)
  PROVE  OnTrack(Append(log, row), Tail(runs), l, Head(runs).round, n)
  <1> DEFINE h == Head(runs)
             r == h.round
             rows == RowsOf(log, r)
             more == RowsOf(Append(log, row), r)
             rest == RunsOf(Tail(runs), r)
             S == {x.run : x \in Range(log)} \cup Range(runs)
             done1 == RunsIn(rows)
  <1>1. rows \in Seq(Range(log))
    BY RowsAreLog
  <1>2. more = Append(rows, row)
    <2>1. row.run.round = r
      OBVIOUS
    <2> QED BY <2>1, RowsGrow
  <1>3. RunsOf(runs, r) = <<h>> \o rest /\ rest \in Seq(Range(runs))
    BY RunsOfTail
  <1>4. h \in Range(runs)
    BY DropHead
  <1>5. /\ DOMAIN rows = 1 .. Len(rows) /\ Len(rows) \in Nat /\ DOMAIN more = 1 .. Len(rows) + 1
        /\ \A i \in 1 .. Len(rows) : more[i] = rows[i] /\ rows[i] \in Range(log)
        /\ more[Len(rows) + 1] = row
    <2> HIDE DEF rows, more
    <2> QED BY <1>1, <1>2
  <1>6. /\ done1 \o RunsOf(runs, r) = RoundRuns(r, l[r + 1], K, Reps)
        /\ \A i \in DOMAIN rows : rows[i].session = n
    BY DEF OnTrack
  <1> HIDE DEF rows, more, rest, S, h
  <1>7. done1 \in Seq(S) /\ RunsIn(more) = Append(done1, h)
    <2>1. \A i \in DOMAIN rows : rows[i].run \in S
      BY <1>5 DEF S
    <2>2. done1 \in Seq(S)
      BY <2>1, <1>5 DEF RunsIn
    <2>3. DOMAIN done1 = 1 .. Len(rows) /\ Len(done1) = Len(rows)
      BY <1>5, <2>2 DEF RunsIn
    <2>4. \A i \in 1 .. Len(rows) + 1 : more[i].run = IF i = Len(rows) + 1 THEN h ELSE done1[i]
      BY <1>5 DEF RunsIn, h
    <2>5. Append(done1, h) = [i \in 1 .. Len(rows) + 1 |-> IF i = Len(rows) + 1 THEN h ELSE done1[i]]
      <3> HIDE DEF done1
      <3>1. /\ DOMAIN Append(done1, h) = 1 .. Len(rows) + 1
            /\ \A i \in 1 .. Len(rows) + 1 : Append(done1, h)[i] = IF i = Len(rows) + 1 THEN h ELSE done1[i]
        BY <2>2, <2>3, <1>5
      <3> DEFINE u == Append(done1, h)
      <3>2. u \in Seq(S)
        <4>1. h \in S
          BY <1>4 DEF S
        <4> QED BY <4>1, <2>2, AppendProperties
      <3> HIDE DEF u
      <3>3. u = [i \in 1 .. Len(u) |-> u[i]] /\ DOMAIN u = 1 .. Len(u)
        BY <3>2
      <3>4. u = [i \in DOMAIN u |-> u[i]]
        BY <3>3
      <3>5. DOMAIN u = 1 .. Len(rows) + 1
        BY <3>1 DEF u
      <3>6. \A i \in 1 .. Len(rows) + 1 : u[i] = IF i = Len(rows) + 1 THEN h ELSE done1[i]
        BY <3>1 DEF u
      <3>7. u = [i \in 1 .. Len(rows) + 1 |-> IF i = Len(rows) + 1 THEN h ELSE done1[i]]
        BY <3>4, <3>5, <3>6
      <3> QED BY <3>7 DEF u
    <2>6. RunsIn(more) = Append(done1, h)
      <3> HIDE DEF done1
      <3> QED BY <2>4, <2>5, <1>5 DEF RunsIn
    <2> QED BY <2>2, <2>6
  <1>8. /\ h \in S /\ rest \in Seq(S) /\ <<h>> \in Seq(S)
    BY <1>3, <1>4 DEF S
  <1> HIDE DEF done1
  <1>9. Append(done1, h) \o rest = done1 \o (<<h>> \o rest)
    <2>1. Append(done1, h) = done1 \o <<h>>
      BY <1>7, <1>8, AppendIsConcat
    <2>2. (done1 \o <<h>>) \o rest = done1 \o (<<h>> \o rest)
      BY <1>7, <1>8, ConcatAssociative
    <2> QED BY <2>1, <2>2
  <1>10. RunsIn(more) \o rest = RoundRuns(r, l[r + 1], K, Reps)
    BY <1>3, <1>6, <1>7, <1>9
  <1>11. \A i \in DOMAIN more : more[i].session = n
    <2>1. \A i \in 1 .. Len(rows) + 1 : i = Len(rows) + 1 \/ i \in 1 .. Len(rows)
      BY <1>5
    <2> QED BY <2>1, <1>5, <1>6
  <1> QED BY <1>10, <1>11 DEF OnTrack, more, rest, h

\* A round on track, with no run of it ahead, is in order.
LEMMA OnTrackInOrder ==
  ASSUME NEW log, IsLog(log), NEW runs, IsLog(runs), NEW l, NEW r, NEW n, OnTrack(log, runs, l, r, n),
         KeysOf(Range(runs), r) = {}
  PROVE  InOrder(log, l, r)
  <1> DEFINE S == Range(runs)
             B == {x \in S : x.round = r}
             rows == RowsOf(log, r)
  <1>1. B = {}
    BY DEF KeysOf
  <1>2. RunsOf(runs, r) = On(runs, B) /\ runs \in Seq(S)
    BY Zenon DEF RunsOf, IsLog
  <1>3. rows \in Seq(Range(log))
    BY RowsAreLog
  <1> HIDE DEF S, B, rows
  <1>4. RunsOf(runs, r) = <<>>
    <2>1. Range(runs) \cap B = {} => On(runs, B) = <<>>
      BY <1>2, OnAllOrNone
    <2> QED BY <2>1, <1>1, <1>2
  <1>5. RunsIn(rows) \o <<>> = RunsIn(rows)
    <2> DEFINE R == {rows[i].run : i \in DOMAIN rows}
    <2>1. RunsIn(rows) \in Seq(R)
      BY <1>3 DEF RunsIn
    <2> HIDE DEF R
    <2> QED BY <2>1, ConcatEmptySeq
  <1> QED BY <1>4, <1>5 DEF OnTrack, InOrder, rows

\* A round without rows is on track when its runs are all ahead.
LEMMA EmptyOnTrack ==
  ASSUME NEW log, IsLog(log), NEW runs, NEW l, NEW r, NEW n, RowsAt(log, r) = {}, NEW S,
         RunsOf(runs, r) \in Seq(S), RunsOf(runs, r) = RoundRuns(r, l[r + 1], K, Reps)
  PROVE  OnTrack(log, runs, l, r, n)
  <1> DEFINE rows == RowsOf(log, r)
             q == RunsOf(runs, r)
  <1>1. rows = <<>>
    <2> DEFINE R == Range(log)
    <2>1. rows \in Seq(R) /\ Range(rows) = {}
      BY RowsAreLog
    <2> HIDE DEF rows, R
    <2>2. DOMAIN rows = 1 .. Len(rows) /\ Len(rows) \in Nat
      BY <2>1
    <2>3. \A i \in DOMAIN rows : rows[i] \in Range(rows)
      BY DEF Range
    <2>4. ~(Len(rows) >= 1)
      BY <2>1, <2>2, <2>3
    <2> QED BY <2>1, <2>2, <2>4, EmptySeq
  <1>2. DOMAIN rows = {} /\ RunsIn(rows) = <<>>
    <2> HIDE DEF rows
    <2> QED BY <1>1 DEF RunsIn
  <1> HIDE DEF rows, q
  <1>3. <<>> \o q = q
    BY ConcatEmptySeq DEF q
  <1> QED BY <1>2, <1>3 DEF OnTrack, rows, q

\* The rows kept of a finished round are its rows, in their order
\* (ab_timed.split_rounds).
LEMMA PartsOrder ==
  ASSUME SamplesInv, SplitRounds, pc' # "leaving", NEW r \in Rounds(seeds), FinishedIn(slog, r)
  PROVE  RowsOf(keep', r) = RowsOf(slog, r)
  <1> DEFINE S == Range(slog)
             rows(i) == RowsOf(slog, i - 1)
             kept == [i \in DOMAIN seeds |-> IF Kept(i - 1) THEN rows(i) ELSE <<>>]
             B == {x \in S : x # Garbled /\ x.run.round = r}
  <1>1. IsLog(slog) /\ slog \in Seq(S)
    BY DEF SamplesInv, RowsInRange, IsLog
  <1>2. Len(seeds) \in Nat /\ DOMAIN seeds = 1 .. Len(seeds)
    <2>1. seeds \in SeedLists
      BY DEF SamplesInv, MetaOk, SplitRounds, InPhase, Going
    <2>2. seeds \in Seq(Int)
      BY <2>1, SessionAssumption
    <2> QED BY <2>2
  <1>3. /\ \A i \in DOMAIN seeds : rows(i) \in Seq(S)
        /\ \A i \in DOMAIN seeds : Range(rows(i)) = {slog[j] : j \in RowsAt(slog, i - 1)}
    BY <1>1, RowsAreLog
  <1>4. <<>> \in Seq(S) /\ Range(<<>>) = {}
    BY DEF Range
  <1>5. kept \in Seq(Seq(S)) /\ DOMAIN kept = DOMAIN seeds
    <2> HIDE DEF rows, S
    <2> QED BY <1>2, <1>3, <1>4
  <1>6. \A i \in DOMAIN seeds : kept[i] = IF Kept(i - 1) THEN rows(i) ELSE <<>>
    <2> HIDE DEF rows, Kept
    <2> QED OBVIOUS
  <1>7. keep' = FlattenSeq(kept)
    BY Zenon DEF SplitRounds
  <1>8. r + 1 \in DOMAIN seeds /\ (r + 1) - 1 = r /\ \A i \in DOMAIN seeds : i - 1 = r <=> i = r + 1
    BY <1>2 DEF Rounds
  <1>9. \A i \in DOMAIN seeds : \A x \in Range(rows(i)) : x \in B <=> i = r + 1
    <2>1. \A i \in DOMAIN seeds : \A x \in Range(rows(i)) : x \in S /\ x # Garbled /\ x.run.round = i - 1
      <3> SUFFICES ASSUME NEW i \in DOMAIN seeds, NEW x \in Range(rows(i))
                   PROVE  x \in S /\ x # Garbled /\ x.run.round = i - 1
        OBVIOUS
      <3>1. PICK j \in RowsAt(slog, i - 1) : x = slog[j]
        BY <1>3
      <3> QED BY <3>1 DEF RowsAt, Range
    <2> HIDE DEF rows, S
    <2> QED BY <2>1, <1>8
  <1>10. kept[r + 1] = RowsOf(slog, r)
    BY <1>6, <1>8 DEF Kept
  <1> HIDE DEF kept, rows, S
  <1>11. Range(kept[r + 1]) \subseteq B /\ \A i \in DOMAIN kept : i # r + 1 => Range(kept[i]) \cap B = {}
    <2> HIDE DEF B, Kept
    <2>1. Range(kept[r + 1]) \subseteq B
      BY <1>4, <1>6, <1>8, <1>9
    <2>2. \A i \in DOMAIN kept : i # r + 1 => Range(kept[i]) \cap B = {}
      BY <1>4, <1>5, <1>6, <1>9
    <2> QED BY <2>1, <2>2
  <1> DEFINE k == FlattenSeq(kept)
             at == {i \in DOMAIN k : k[i] \in B}
  <1>12. On(k, B) = kept[r + 1] /\ On(k, B) = Sift(k, at)
    <2>1. On(k, B) = Sift(k, at)
      BY Zenon DEF On
    <2> HIDE DEF B, at
    <2>2. On(FlattenSeq(kept), B) = kept[r + 1]
      BY <1>5, <1>8, <1>11, OnFlatten
    <2> QED BY <2>1, <2>2 DEF k
  <1>13. k \in Seq(S)
    BY <1>5, FlattenElements
  <1> HIDE DEF k
  <1>14. RowsAt(k, r) = at
    <2>1. \A i \in DOMAIN k : k[i] \in S
      BY <1>13
    <2> QED BY <2>1 DEF RowsAt
  <1>15. RowsOf(k, r) = Sift(k, at)
    <2> HIDE DEF at
    <2> QED BY <1>14 DEF RowsOf
  <1>16. RowsOf(k, r) = RowsOf(slog, r)
    BY <1>10, <1>12, <1>15
  <1> QED BY <1>7, <1>16 DEF k

\* A round without rows is on track when the runs are planned
\* (ab_timed.Timed.run).
LEMMA PlanOnTrack ==
  ASSUME SamplesInv, HaveReference, NEW r \in Rounds(seeds), RowsAt(slog, r) = {}
  PROVE  OnTrack(slog, todo', seeds, r, session)
  <1> DEFINE runs == TimedPlan(seeds, K, Reps)
             at == {i \in DOMAIN runs : ~FinishedIn(slog, runs[i].round)}
             S == Range(runs)
             C == {x \in S : ~FinishedIn(slog, x.round)}
             B == {x \in S : x.round = r}
             left == Sift(runs, at)
             D == {x \in Range(left) : x.round = r}
  <1>1. seeds \in Seq(Int) /\ K \in Nat \ {0} /\ Reps \in Nat
    <2>1. seeds \in SeedLists
      BY DEF SamplesInv, MetaOk, HaveReference, InPhase, Going
    <2> QED BY <2>1, SessionAssumption DEF K
  <1>2. todo' = left
    BY DEF HaveReference
  <1>3. runs \in Seq(S) /\ RunsOf(runs, r) = RoundRuns(r, seeds[r + 1], K, Reps)
    BY <1>1, TimedPlanHolds DEF PlanHolds, IsLog
  <1>4. RunsOf(runs, r) = On(runs, B)
    BY Zenon DEF RunsOf
  <1> HIDE DEF runs
  <1>5. left = On(runs, C)
    <2>1. at = {i \in DOMAIN runs : runs[i] \in C}
      BY DEF Range
    <2> QED BY <2>1, Zenon DEF On
  <1>6. RunsOf(left, r) = On(left, D)
    BY Zenon DEF RunsOf
  <1> HIDE DEF S, left, at
  <1>7. ~FinishedIn(slog, r)
    BY EmptyUnfinished
  <1>8. left \in Seq(S) /\ Range(left) = S \cap C
    <2> HIDE DEF C
    <2>1. On(runs, C) \in Seq(S)
      BY <1>3, OnElements
    <2>2. Range(On(runs, C)) = Range(runs) \cap C
      BY <1>3, OnElements
    <2> QED BY <2>1, <2>2, <1>5 DEF S
  <1>9. \A x \in Range(left) : x \in B <=> x \in D
    BY <1>8
  <1>10. \A x \in Range(runs) : x \in C \cap B <=> x \in B
    BY <1>7
  <1> HIDE DEF B, C, D
  <1>11. On(left, B) = On(left, D)
    BY <1>9, OnSame
  <1>12. On(runs, C \cap B) = On(runs, B)
    <2> DEFINE E == C \cap B
    <2>1. \A x \in Range(runs) : x \in E <=> x \in B
      BY <1>10
    <2> HIDE DEF E
    <2>2. On(runs, E) = On(runs, B)
      BY <2>1, OnSame
    <2> QED BY <2>2 DEF E
  <1>13. On(On(runs, C), B) = On(runs, C \cap B)
    BY <1>3, OnTwice
  <1>14. RunsOf(left, r) = RoundRuns(r, seeds[r + 1], K, Reps)
    BY <1>3, <1>4, <1>5, <1>6, <1>11, <1>12, <1>13
  <1>15. RunsOf(left, r) \in Seq(S)
    <2>1. left \in Seq(S)
      BY <1>8
    <2>2. On(left, D) \in Seq(S)
      BY <2>1, OnElements
    <2> QED BY <2>2, <1>6
  <1>16. IsLog(slog)
    BY DEF SamplesInv, RowsInRange
  <1>17. OnTrack(slog, left, seeds, r, session)
    BY <1>14, <1>15, <1>16, EmptyOnTrack
  <1> QED BY <1>2, <1>17

\* One timed run keeps the finished rounds in order, and the others on track.
LEMMA TimedInOrder ==
  ASSUME SamplesInv, PromiseInv, OrderInv, Timed, NEW r \in Rounds(seeds)
  PROVE  /\ FinishedIn(slog', r) => InOrder(slog', seeds, r)
         /\ pc' = "timed" => FinishedIn(slog', r) \/ OnTrack(slog', todo', seeds, r, session)
  <1> DEFINE h == Head(todo)
             row == [run |-> h, ok |-> OutputOk(h), session |-> session]
             log == Append(slog, row)
             rest == Tail(todo)
  <1>1. pc = "timed" /\ todo # <<>> /\ todo' = rest /\ pc' = IF row.ok THEN "timed" ELSE "leaving"
    BY DEF Timed, InPhase, Going
  <1>2. slog' = log
    BY <1>1 DEF Timed, Append1, SamplesInv, Splitting
  <1>3. row.run = h /\ row.session = session /\ row # Garbled
    <2>1. DOMAIN row = {"run", "ok", "session"} /\ DOMAIN Garbled = {"garbled"}
      BY DEF Garbled
    <2>2. "run" \notin {"garbled"}
      OBVIOUS
    <2>3. row # Garbled
      BY <2>1, <2>2
    <2> QED BY <2>3
  <1>4. IsLog(slog) /\ IsLog(todo) /\ Ahead(slog, todo, seeds)
    BY <1>1 DEF SamplesInv, RowsInRange, PromiseInv
  <1>5. row.ok = OutputOk(h)
    OBVIOUS
  <1>6. meta # None /\ meta.seeds = seeds
    BY <1>1 DEF SamplesInv, MetaOk
  <1>7. /\ FinishedIn(slog, r) => InOrder(slog, seeds, r)
        /\ FinishedIn(slog, r) \/ OnTrack(slog, todo, seeds, r, session)
    BY <1>1, <1>6 DEF OrderInv
  <1>8. h \in Range(todo)
    BY <1>1, <1>4, DropHead
  <1> HIDE DEF row
  <1>9. IsLog(log) /\ IsLog(rest)
    BY <1>1, <1>4, AppendRow, DropHead
  <1>10. CASE h.round # r
    <2>1. RowsOf(log, r) = RowsOf(slog, r)
      BY <1>3, <1>4, <1>10, RowsGrow
    <2>2. FinishedIn(log, r) <=> FinishedIn(slog, r)
      BY <1>3, <1>4, <1>10, OtherRound
    <2>3. RunsOf(rest, r) = RunsOf(todo, r)
      BY <1>1, <1>4, <1>10, RunsOfTail
    <2> HIDE DEF log, rest
    <2> QED BY <1>1, <1>2, <1>7, <2>1, <2>2, <2>3 DEF InOrder, OnTrack
  <1>11. CASE h.round = r
    <2>1. ~FinishedIn(slog, r)
      <3>1. <<h.rep, h.arm>> \in KeysOf(Range(todo), r)
        BY <1>8, <1>11 DEF KeysOf
      <3>2. KeysOf(Range(todo), r) # {}
        BY <3>1
      <3> HIDE DEF h
      <3> QED BY <3>2, <1>4, PendingFinished DEF Ahead, Progress
    <2>2. OnTrack(log, rest, seeds, r, session)
      BY <1>1, <1>3, <1>4, <1>7, <1>11, <2>1, RunInOrder
    <2>3. RunTaken(slog, todo, seeds, h, row.ok, log, rest)
      BY <1>1, <1>2, <1>5, TimedStep
    <2>4. FinishedIn(log, r) => KeysOf(Range(rest), r) = {}
      <3>1. row.ok => Ahead(log, rest, seeds)
        BY <2>3 DEF RunTaken
      <3>2. ~row.ok => ~FinishedIn(log, r)
        BY <1>3, <1>4, <1>11, BadRunUnfinished
      <3> HIDE DEF log, rest
      <3>3. ASSUME Ahead(log, rest, seeds), FinishedIn(log, r) PROVE KeysOf(Range(rest), r) = {}
        BY <3>3, <1>9, PendingFinished DEF Ahead, Progress
      <3> QED BY <3>1, <3>2, <3>3
    <2>5. FinishedIn(log, r) => InOrder(log, seeds, r)
      <3> HIDE DEF log, rest
      <3> QED BY <1>9, <2>2, <2>4, OnTrackInOrder
    <2> QED BY <1>1, <1>2, <2>2, <2>5
  <1> QED BY <1>10, <1>11

\* More seeds leave the rounds there were as they were.
LEMMA MoreSeeds ==
  ASSUME SamplesInv, PromiseInv, OrderInv, Open, NEW r \in Rounds(seeds), FinishedIn(slog, r)
  PROVE  InOrder(slog, seeds, r)
  <1>1. PICK i \in RowsAt(slog, r) : TRUE
    BY EmptyUnfinished
  <1>2. i \in DOMAIN slog /\ slog[i] \in Samples(slog) /\ slog[i].run.round = r
    BY DEF RowsAt, Samples
  <1>3. slog # <<>>
    BY <1>2
  <1>4. meta # None
    BY <1>3 DEF SamplesInv, MetaOk
  <1>5. r \in Rounds(meta.seeds)
    BY <1>2, <1>4 DEF SamplesInv, RowsInRange
  <1>6. InOrder(slog, meta.seeds, r)
    BY <1>4, <1>5 DEF OrderInv
  <1>7. meta.seeds \in Seq(Int) /\ seeds \in Seq(Int)
    <2>1. meta.seeds \in SeedLists /\ seeds \in SeedLists
      BY <1>4 DEF SamplesInv, MetaOk, Open
    <2> QED BY <2>1, SessionAssumption
  <1> DEFINE was == meta.seeds
             n == Len(was)
  <1>8. SubSeq(seeds, 1, n) = was /\ n <= Len(seeds)
    BY <1>4 DEF PromiseInv, Open, SamplesInv, MetaOk
  <1>9. r + 1 \in 1 .. n /\ n \in Nat
    BY <1>5, <1>7 DEF Rounds
  <1> HIDE DEF was
  <1>10. SubSeq(seeds, 1, n)[r + 1] = seeds[r + 1]
    BY <1>7, <1>8, <1>9
  <1>11. was[r + 1] = seeds[r + 1]
    BY <1>8, <1>10
  <1> QED BY <1>6, <1>11 DEF InOrder, was

\* No round has a row at first.
LEMMA InitOrder ==
  Init => PromiseInv /\ OrderInv
  <1>1. \A r : RowsOnce(<<>>, r)
    BY DEF RowsOnce, KeysAt, RowsAt
  <1> QED BY <1>1, SessionAssumption DEF Init, Idle, PromiseInv, OrderInv, Outcomes

\* Every step keeps the finished rounds in order.
LEMMA NextOrder ==
  ASSUME SamplesInv, PromiseInv, OrderInv, [Next]_vars
  PROVE  OrderInv'
  <1>0. None # "done"
    BY SessionAssumption DEF Outcomes
  <1>1. ASSUME UNCHANGED <<meta, seeds, slog, pc, todo, keep, session>>, why' = why PROVE OrderInv'
    BY <1>1 DEF OrderInv, InOrder, OnTrack
  <1>2. ASSUME UNCHANGED <<meta, seeds, slog>>, why' # "done", pc' \notin {"trimming", "dropping", "timed"}
        PROVE  OrderInv'
    BY <1>2 DEF OrderInv, InOrder
  <1>3. ASSUME NEW b \in AllBuilds, Claim(b) \/ Spawn(b) \/ Built(b) \/ Terminate(b) PROVE OrderInv'
    BY <1>3, <1>1 DEF Claim, Spawn, Built, Terminate, disk
  <1>4. ASSUME NEW b \in AllBuilds, Record(b) \/ LinkBuild(b) \/ Raised(b) PROVE OrderInv'
    <2>1. pc = "building" /\ pc' \in {"building", "stopping"} /\ UNCHANGED <<meta, seeds, slog>>
          /\ why' \in {None, "aborted", "failed", "interrupted"}
      BY <1>4 DEF Record, LinkBuild, Raised, Recorded, InPhase, Going, disk
    <2> QED BY <2>1, <1>0, <1>2
  <1>5. CASE Open
    <2>1. /\ UNCHANGED <<seeds, slog>> /\ why' \in {None, "failed"} /\ pc' \in {"opening", "leaving"}
          /\ meta'.seeds = seeds
      BY <1>5 DEF Open, PromiseInv
    <2>2. \A r \in Rounds(seeds) : FinishedIn(slog, r) => InOrder(slog, seeds, r)
      BY <1>5, MoreSeeds
    <2> QED BY <2>1, <2>2, <1>0 DEF OrderInv
  <1>6. CASE ReadBuilds \/ RewriteBuilds \/ OpenReference
    <2>1. /\ UNCHANGED <<meta, seeds, slog>> /\ why = None /\ why' \in {None, "aborted", "failed"}
          /\ pc' \in {"building", "splitting", "stopping", "leaving", "writing"}
      BY <1>6 DEF ReadBuilds, RewriteBuilds, OpenReference, InPhase, Going, disk
    <2> QED BY <2>1, <1>0, <1>2
  <1>7. CASE SplitRounds
    <2>1. UNCHANGED <<meta, seeds, slog>> /\ why' \in {None, "failed"} /\ pc' \in {"trimming", "leaving"}
      BY <1>7 DEF SplitRounds, InPhase, Going
    <2>2. CASE pc' = "leaving"
      BY <2>1, <2>2, <1>0, <1>2
    <2>3. CASE pc' = "trimming"
      <3>1. \A r \in Rounds(seeds) : FinishedIn(slog, r) => RowsOf(keep', r) = RowsOf(slog, r)
        BY <1>7, <2>3, PartsOrder
      <3> QED BY <2>1, <2>3, <3>1, <1>0 DEF OrderInv, InOrder
    <2> QED BY <2>1, <2>2, <2>3
  <1>19. CASE OpenDropped
    <2>1. /\ UNCHANGED <<meta, seeds, slog, keep>> /\ pc = "trimming" /\ why' \in {None, "failed"}
          /\ pc' \in {"reference", "dropping", "leaving"}
      BY <1>19 DEF OpenDropped, InPhase, Going
    <2> QED BY <2>1, <1>0 DEF OrderInv, InOrder
  <1>8. CASE DropRow
    <2>1. UNCHANGED <<meta, seeds, slog, keep, pc, why>> /\ pc = "dropping"
      BY <1>8 DEF DropRow, InPhase, Going
    <2> QED BY <2>1 DEF OrderInv, InOrder
  <1>9. CASE RewriteSamples
    <2>1. UNCHANGED <<meta, seeds, why>> /\ why = None /\ slog' = keep /\ pc = "dropping" /\ pc' = "reference"
      BY <1>9 DEF RewriteSamples, InPhase, Going
    <2>2. meta # None /\ meta.seeds = seeds
      BY <2>1 DEF SamplesInv, MetaOk
    <2>3. \A r \in Rounds(seeds) : FinishedIn(keep, r) => FinishedIn(slog, r) /\ RowsOf(keep, r) = RowsOf(slog, r)
      BY <2>1 DEF PromiseInv, OrderInv
    <2>4. \A r \in Rounds(seeds) : FinishedIn(keep, r) => InOrder(keep, seeds, r)
      BY <2>2, <2>3 DEF OrderInv, InOrder
    <2> QED BY <2>1, <2>2, <2>4, <1>0 DEF OrderInv
  <1>10. CASE HaveReference
    <2>1. UNCHANGED <<meta, seeds, slog, why, session>> /\ why = None /\ pc \in {"writing", "reference"}
          /\ pc' = "timed"
      BY <1>10 DEF HaveReference, InPhase, Going
    <2>2. \A r \in Rounds(seeds) : Settled(slog, r)
      BY <2>1 DEF PromiseInv
    <2>3. \A r \in Rounds(seeds) : FinishedIn(slog, r) \/ OnTrack(slog, todo', seeds, r, session)
      BY <1>10, <2>2, PlanOnTrack DEF Settled
    <2>4. \A r \in Rounds(seeds) : FinishedIn(slog', r) \/ OnTrack(slog', todo', seeds', r, session')
      BY <2>1, <2>3
    <2> QED BY <2>1, <2>4, <1>0 DEF OrderInv, InOrder
  <1>11. CASE Timed
    <2>1. UNCHANGED <<meta, seeds, session>> /\ pc = "timed" /\ pc' \in {"timed", "leaving"}
          /\ why' \in {None, "aborted"}
      BY <1>11 DEF Timed, InPhase, Going
    <2>2. meta.seeds = seeds
      BY <2>1 DEF SamplesInv, MetaOk
    <2>3. \A r \in Rounds(seeds) :
            /\ FinishedIn(slog', r) => InOrder(slog', seeds, r)
            /\ pc' = "timed" => FinishedIn(slog', r) \/ OnTrack(slog', todo', seeds, r, session)
      BY <1>11, TimedInOrder
    <2> QED BY <2>1, <2>2, <2>3, <1>0 DEF OrderInv
  <1>12. CASE Finished
    <2>1. UNCHANGED <<meta, seeds, slog>> /\ pc = "timed" /\ todo = <<>> /\ pc' = "leaving"
      BY <1>12 DEF Finished, InPhase, Going, disk
    <2>2. ASSUME NEW r \in Rounds(seeds) PROVE FinishedIn(slog, r)
      <3>1. Progress(slog, Range(todo), r)
        BY <2>1 DEF PromiseInv, Ahead
      <3>2. KeysOf(Range(todo), r) = {}
        BY <2>1 DEF KeysOf, Range
      <3>3. IsLog(slog)
        BY DEF SamplesInv, RowsInRange
      <3> QED BY <3>1, <3>2, <3>3, PendingFinished DEF Progress
    <2> QED BY <2>1, <2>2 DEF OrderInv, InOrder
  <1>13. CASE Stopped
    <2>1. UNCHANGED <<meta, seeds, slog, why>> /\ pc' = "leaving"
      BY <1>13 DEF Stopped, disk
    <2> QED BY <2>1 DEF OrderInv, InOrder
  <1>14. CASE Empty \/ Interrupt
    BY <1>14, <1>1 DEF Empty, Interrupt, driver, disk
  <1>15. CASE Leave
    <2>1. UNCHANGED <<seeds, slog>> /\ pc' = "idle" /\ why' = None
      BY <1>15 DEF Leave, Gone
    <2>2. meta' # None => meta # None /\ meta'.seeds = meta.seeds
      BY <1>15 DEF Leave, SamplesInv, MetaOk
    <2> QED BY <2>1, <2>2, <1>0 DEF OrderInv, InOrder
  <1>20. CASE Interrupted \/ Crash
    <2>1. UNCHANGED <<meta, seeds>> /\ pc' \in {"idle", "stopping", "leaving"} /\ why' \in {None, "interrupted"}
      BY <1>20 DEF Interrupted, Crash, Gone
    <2>2. IsLog(slog) /\ IsCut(slog', slog)
      <3>1. \E took : Cutting(took)
        BY <1>20, CutLogs DEF SamplesInv, RowsInRange
      <3> QED BY <3>1 DEF Cutting, SamplesInv, RowsInRange
    <2>3. ASSUME NEW r, FinishedIn(slog', r) PROVE FinishedIn(slog, r) /\ RowsOf(slog', r) = RowsOf(slog, r)
      <3>1. RowsOnce(slog, r)
        BY DEF PromiseInv
      <3>2. RowsAt(slog', r) = RowsAt(slog, r) /\ FinishedIn(slog, r)
        BY <2>2, <2>3, <3>1, CutFinished
      <3> QED BY <2>2, <3>2, CutRows
    <2>4. \A r : FinishedIn(slog', r) => FinishedIn(slog, r) /\ RowsOf(slog', r) = RowsOf(slog, r)
      BY <2>3
    <2> QED BY <2>1, <2>4, <1>0 DEF OrderInv, InOrder
  <1>16. ASSUME NEW l \in SeedLists, Run(l) \/ Resume(l) PROVE OrderInv'
    <2>1. UNCHANGED <<meta, slog>> /\ pc' = "opened" /\ why' = None
      BY <1>16 DEF Run, Resume, Begin, PromiseInv
    <2> QED BY <2>1, <1>0 DEF OrderInv, InOrder
  <1>17. CASE UNCHANGED vars
    BY <1>17, <1>1 DEF vars, driver, disk
  <1>18. CASE Next
    BY <1>18, <1>3, <1>4, <1>5, <1>6, <1>7, <1>8, <1>9, <1>10, <1>11, <1>12, <1>13, <1>14, <1>15, <1>16,
       <1>19, <1>20 DEF Next, Step, Start
  <1> QED BY <1>17, <1>18

\* Finished rounds in order are what success promises.
LEMMA OrderIsWhole ==
  ASSUME SamplesInv, PromiseInv, OrderInv
  PROVE  RoundsWhole
  <1> SUFFICES ASSUME why = "done", NEW r \in Rounds(seeds)
               PROVE  LET rows == RowsOf(slog, r)
                          runs == TimedPlan(seeds, K, Reps)
                      IN /\ [i \in DOMAIN rows |-> rows[i].run]
                              = Sift(runs, {i \in DOMAIN runs : runs[i].round = r})
                         /\ \A i \in DOMAIN rows : rows[i].ok /\ rows[i].session = rows[1].session
    BY Zenon DEF RoundsWhole
  <1> DEFINE rows == RowsOf(slog, r)
             runs == TimedPlan(seeds, K, Reps)
             B == {x \in Range(runs) : x.round = r}
             at == {i \in DOMAIN runs : runs[i].round = r}
  <1>1. meta # None /\ meta.seeds = seeds /\ seeds \in SeedLists /\ IsLog(slog) /\ FinishedIn(slog, r)
    <2>1. None # "done"
      BY SessionAssumption DEF Outcomes
    <2> QED BY <2>1 DEF SamplesInv, MetaOk, RowsInRange, PromiseInv, OrderInv
  <1>2. RunsIn(rows) = RoundRuns(r, seeds[r + 1], K, Reps)
        /\ \A i, j \in DOMAIN rows : rows[i].session = rows[j].session
    BY <1>1 DEF OrderInv, InOrder
  <1>3. RunsOf(runs, r) = RoundRuns(r, seeds[r + 1], K, Reps)
    <2>1. seeds \in Seq(Int) /\ K \in Nat \ {0} /\ Reps \in Nat
      BY <1>1, SessionAssumption DEF K
    <2> QED BY <2>1, TimedPlanHolds DEF PlanHolds
  <1> HIDE DEF runs
  <1>4. RunsOf(runs, r) = Sift(runs, at)
    <2>1. RunsOf(runs, r) = Sift(runs, {i \in DOMAIN runs : runs[i] \in B})
      BY Zenon DEF RunsOf, On
    <2>2. {i \in DOMAIN runs : runs[i] \in B} = at
      BY DEF Range
    <2> QED BY <2>1, <2>2, Zenon
  <1>5. rows \in Seq(Range(slog)) /\ Range(rows) = {slog[i] : i \in RowsAt(slog, r)}
    BY <1>1, RowsAreLog
  <1>6. \A i \in RowsAt(slog, r) : slog[i].ok
    BY <1>1 DEF FinishedIn
  <1> HIDE DEF rows, at, B
  <1>7. ASSUME NEW i \in DOMAIN rows PROVE rows[i].ok /\ rows[i].session = rows[1].session
    <2>1. rows[i] \in Range(rows)
      BY DEF Range
    <2>2. rows[i].ok
      BY <2>1, <1>5, <1>6
    <2>3. 1 \in DOMAIN rows
      <3> DEFINE S == Range(slog)
      <3>1. rows \in Seq(S)
        BY <1>5
      <3> HIDE DEF S
      <3> QED BY <3>1
    <2> QED BY <2>2, <2>3, <1>2
  <1>8. [i \in DOMAIN rows |-> rows[i].run] = Sift(runs, at)
    BY <1>2, <1>3, <1>4 DEF RunsIn
  <1> QED BY <1>7, <1>8, Zenon DEF rows, runs, at

\* When a session reports success, every round's rows are its runs in the
\* scheduled order, with good outputs and of one session (ab_timed.Timed.run).
THEOREM RoundsAreWhole == Spec => []RoundsWhole
  <1>1. Init => SamplesInv
    BY InitSamples
  <1>2. Init => PromiseInv /\ OrderInv
    BY InitOrder
  <1>3. SamplesInv /\ [Next]_vars => SamplesInv'
    BY NextSamples
  <1>4. SamplesInv /\ PromiseInv /\ [Next]_vars => PromiseInv'
    BY NextPromise
  <1>5. SamplesInv /\ PromiseInv /\ OrderInv /\ [Next]_vars => OrderInv'
    BY NextOrder
  <1>6. SamplesInv /\ PromiseInv /\ OrderInv => RoundsWhole
    BY OrderIsWhole
  <1> QED BY <1>1, <1>2, <1>3, <1>4, <1>5, <1>6, PTL DEF Spec

(***************************************************************************)
(* The schedule is balanced.  A row of the Williams square is the first    *)
(* plus a constant, so what tells who follows whom is by how much the      *)
(* first row changes at each position: by each amount once when the number *)
(* of arms is even; by each odd amount twice when it is odd, and then the  *)
(* rows read backwards change by each even amount twice.                   *)
(***************************************************************************)
\* Addition modulo k, of numbers below k.
Plus(k, x, y) == IF x + y < k THEN x + y ELSE x + y - k

\* Row i of the square, from 1, and by how much the arm changes from a
\* position to the next.
Row(k, i) == [p \in 1 .. k |-> (FirstRow(k)[p] + (i - 1)) % k]
Jump(k, p) == IF p % 2 = 1 THEN p ELSE k - p

\* The first row, position by position.
LEMMA FirstRowHalves ==
  ASSUME NEW k \in Nat \ {0}, NEW p \in 1 .. k
  PROVE  /\ FirstRow(k)[p] \in 0 .. k - 1
         /\ p % 2 = 0 => 2 * FirstRow(k)[p] = p
         /\ p = 1 => FirstRow(k)[p] = 0
         /\ p % 2 = 1 /\ p # 1 => 2 * (k - FirstRow(k)[p]) + 1 = p
  <1> DEFINE x == FirstRow(k)[p]
             half == p \div 2
             low == (p - 1) \div 2
  <1>1. x = IF p % 2 = 0 THEN half ELSE (k - low) % k
    BY DEF FirstRow
  <1> HIDE DEF x
  <1>2. CASE p % 2 = 0
    <2>1. x = half /\ 2 * half = p /\ half \in 0 .. k - 1
      BY <1>1, <1>2
    <2> HIDE DEF half
    <2> QED BY <1>2, <2>1 DEF x
  <1>3. CASE p % 2 # 0
    <2>1. low \in 0 .. k - 1 /\ 2 * low + 1 = p /\ p % 2 = 1
      BY <1>3
    <2>2. x = (k - low) % k
      BY <1>1, <1>3
    <2> HIDE DEF low
    <2> DEFINE y == k - low
    <2>3. y \in 0 .. 2 * k - 1 /\ y <= k /\ (y = k <=> low = 0)
      BY <2>1
    <2>4. y % k = IF y < k THEN y ELSE y - k
      <3> HIDE DEF y
      <3> QED BY <2>3, Wraps
    <2>5. x = IF low = 0 THEN 0 ELSE k - low
      BY <2>2, <2>3, <2>4
    <2>6. CASE low = 0
      BY <2>1, <2>5, <2>6 DEF x
    <2>7. CASE low # 0
      BY <2>1, <2>5, <2>7 DEF x
    <2> QED BY <2>6, <2>7
  <1> QED BY <1>2, <1>3

\* From a position to the next the arm changes by Jump.
LEMMA FirstRowSteps ==
  ASSUME NEW k \in Nat \ {0}, NEW p \in 1 .. k - 1
  PROVE  /\ Jump(k, p) \in 1 .. k - 1
         /\ FirstRow(k)[p + 1] = Plus(k, FirstRow(k)[p], Jump(k, p))
  <1> DEFINE x == FirstRow(k)[p]
             y == FirstRow(k)[p + 1]
             s == Jump(k, p)
  <1>1. /\ x \in 0 .. k - 1
        /\ p % 2 = 0 => 2 * x = p
        /\ p = 1 => x = 0
        /\ p % 2 = 1 /\ p # 1 => 2 * (k - x) + 1 = p
    <2>1. p \in 1 .. k
      OBVIOUS
    <2> QED BY <2>1, FirstRowHalves
  <1>2. /\ y \in 0 .. k - 1
        /\ (p + 1) % 2 = 0 => 2 * y = p + 1
        /\ (p + 1) % 2 = 1 /\ p + 1 # 1 => 2 * (k - y) + 1 = p + 1
    <2> DEFINE q == p + 1
    <2>1. q \in 1 .. k
      OBVIOUS
    <2> HIDE DEF q
    <2>2. /\ FirstRow(k)[q] \in 0 .. k - 1
          /\ q % 2 = 0 => 2 * FirstRow(k)[q] = q
          /\ q % 2 = 1 /\ q # 1 => 2 * (k - FirstRow(k)[q]) + 1 = q
      BY <2>1, FirstRowHalves
    <2> QED BY <2>2 DEF q
  <1>3. s = IF p % 2 = 1 THEN p ELSE k - p
    BY DEF Jump
  <1> HIDE DEF x, y, s
  <1>4. s \in 1 .. k - 1
    BY <1>3
  <1>5. y = Plus(k, x, s)
    <2>1. CASE p % 2 = 0
      <3>1. (p + 1) % 2 = 1 /\ p + 1 # 1
        BY <2>1
      <3>2. 2 * x = p /\ 2 * (k - y) = p /\ s = k - p
        BY <1>1, <1>2, <1>3, <2>1, <3>1
      <3> QED BY <1>1, <1>2, <3>2 DEF Plus
    <2>2. CASE p % 2 = 1
      <3>1. (p + 1) % 2 = 0
        BY <2>2
      <3>2. 2 * y = p + 1 /\ s = p
        BY <1>2, <1>3, <2>2, <3>1
      <3>3. CASE p = 1
        BY <1>1, <1>2, <3>2, <3>3 DEF Plus
      <3>4. CASE p # 1
        BY <1>1, <1>2, <3>2, <3>4, <2>2 DEF Plus
      <3> QED BY <3>3, <3>4
    <2> QED BY <2>1, <2>2
  <1> QED BY <1>4, <1>5 DEF x, y, s

\* A row is the first with the arms renumbered.
LEMMA RowValue ==
  ASSUME NEW k \in Nat \ {0}, NEW i \in 1 .. k, NEW p \in 1 .. k
  PROVE  Row(k, i)[p] \in 0 .. k - 1 /\ Row(k, i)[p] = Plus(k, FirstRow(k)[p], i - 1)
  <1> DEFINE f == FirstRow(k)[p]
             x == f + (i - 1)
  <1>1. f \in 0 .. k - 1
    BY FirstRowHalves
  <1>2. Row(k, i)[p] = x % k
    BY DEF Row
  <1> HIDE DEF f
  <1>3. x \in 0 .. 2 * k - 1
    BY <1>1
  <1>4. x % k = IF x < k THEN x ELSE x - k
    <2> HIDE DEF x
    <2> QED BY <1>3, Wraps
  <1>5. x % k = Plus(k, f, i - 1)
    <2>1. Plus(k, f, i - 1) = IF x < k THEN x ELSE x - k
      BY <1>1 DEF Plus
    <2> HIDE DEF x
    <2> QED BY <1>4, <2>1
  <1>6. Plus(k, f, i - 1) \in 0 .. k - 1
    BY <1>1 DEF Plus
  <1> HIDE DEF x
  <1> QED BY <1>2, <1>5, <1>6 DEF f

\* So it has the same steps.
LEMMA RowSteps ==
  ASSUME NEW k \in Nat \ {0}, NEW i \in 1 .. k, NEW p \in 1 .. k - 1
  PROVE  Row(k, i)[p + 1] = Plus(k, Row(k, i)[p], Jump(k, p))
  <1> DEFINE x == FirstRow(k)[p]
             y == FirstRow(k)[p + 1]
             u == Row(k, i)[p]
             v == Row(k, i)[p + 1]
             s == Jump(k, p)
  <1>0. p \in 1 .. k /\ p + 1 \in 1 .. k
    OBVIOUS
  <1>1. s \in 1 .. k - 1 /\ y = Plus(k, x, s)
    BY FirstRowSteps
  <1>2. x \in 0 .. k - 1 /\ y \in 0 .. k - 1
    BY <1>0, FirstRowHalves
  <1>3. u = Plus(k, x, i - 1)
    BY <1>0, RowValue
  <1>4. v = Plus(k, y, i - 1)
    BY <1>0, RowValue
  <1> HIDE DEF x, y, u, v, s
  <1>5. v = Plus(k, u, s)
    BY <1>1, <1>2, <1>3, <1>4 DEF Plus
  <1> QED BY <1>5 DEF u, v, s

\* An arm is at a position in one of the rows.
LEMMA HeldOnce ==
  ASSUME NEW k \in Nat \ {0}, NEW p \in 1 .. k, NEW a \in 0 .. k - 1
  PROVE  \E i \in 1 .. k : \A j \in 1 .. k : Row(k, j)[p] = a <=> j = i
  <1> DEFINE x == FirstRow(k)[p]
             i == IF x <= a THEN a - x + 1 ELSE a - x + k + 1
  <1>1. x \in 0 .. k - 1
    BY FirstRowHalves
  <1>2. ASSUME NEW j \in 1 .. k PROVE Row(k, j)[p] = Plus(k, x, j - 1)
    BY RowValue
  <1> HIDE DEF x
  <1>3. i \in 1 .. k
    BY <1>1
  <1>4. ASSUME NEW j \in 1 .. k PROVE Plus(k, x, j - 1) = a <=> j = i
    BY <1>1 DEF Plus
  <1> HIDE DEF i
  <1> QED BY <1>2, <1>3, <1>4


\* Where, in the rows of the square, arm b follows arm a.
Forward(k, a, b) ==
  {at \in (1 .. k) \X (1 .. k - 1) : Row(k, at[1])[at[2]] = a /\ Row(k, at[1])[at[2] + 1] = b}

\* Where the steps lead from a to b.
LEMMA FollowsByStep ==
  ASSUME NEW k \in Nat \ {0}, NEW a \in 0 .. k - 1, NEW b \in 0 .. k - 1, NEW d \in 1 .. k - 1,
         b = Plus(k, a, d), NEW i \in 1 .. k, NEW p \in 1 .. k - 1
  PROVE  Row(k, i)[p] = a /\ Row(k, i)[p + 1] = b <=> Row(k, i)[p] = a /\ Jump(k, p) = d
  <1> DEFINE s == Jump(k, p)
             u == Row(k, i)[p]
             v == Row(k, i)[p + 1]
  <1>1. v = Plus(k, u, s) /\ s \in 1 .. k - 1
    BY RowSteps, FirstRowSteps
  <1> HIDE DEF s, u, v
  <1>2. u = a /\ v = b <=> u = a /\ s = d
    BY <1>1 DEF Plus
  <1> QED BY <1>2 DEF s, u, v

\* The change from an arm to another, and back.
LEMMA Change ==
  ASSUME NEW k \in Nat \ {0}, NEW a \in 0 .. k - 1, NEW b \in 0 .. k - 1, a # b
  PROVE  \E d \in 1 .. k - 1 : b = Plus(k, a, d) /\ a = Plus(k, b, k - d) /\ k - d \in 1 .. k - 1
  <1> DEFINE d == IF b >= a THEN b - a ELSE b - a + k
  <1>1. d \in 1 .. k - 1 /\ k - d \in 1 .. k - 1
    OBVIOUS
  <1>2. b = Plus(k, a, d) /\ a = Plus(k, b, k - d)
    BY DEF Plus
  <1> HIDE DEF d
  <1> QED BY <1>1, <1>2

\* x is the place where a is at position p, the only one there.
OnlyAt(k, a, p, x) ==
  /\ x \in (1 .. k) \X (1 .. k - 1) /\ x[2] = p
  /\ \A at \in (1 .. k) \X (1 .. k - 1) : at[2] = p /\ Row(k, at[1])[p] = a <=> at = x

\* There is one such place.
LEMMA AtSteps ==
  ASSUME NEW k \in Nat \ {0}, NEW a \in 0 .. k - 1, NEW p \in 1 .. k - 1
  PROVE  \E x : OnlyAt(k, a, p, x)
  <1>1. p \in 1 .. k
    OBVIOUS
  <1>2. PICK i \in 1 .. k : \A j \in 1 .. k : Row(k, j)[p] = a <=> j = i
    BY <1>1, HeldOnce
  <1>3. <<i, p>> \in (1 .. k) \X (1 .. k - 1) /\ <<i, p>>[2] = p
    OBVIOUS
  <1>4. ASSUME NEW at \in (1 .. k) \X (1 .. k - 1)
        PROVE  at[2] = p /\ Row(k, at[1])[p] = a <=> at = <<i, p>>
    <2>1. at = <<at[1], at[2]>> /\ at[1] \in 1 .. k
      OBVIOUS
    <2>2. Row(k, at[1])[p] = a <=> at[1] = i
      BY <1>2, <2>1
    <2> QED BY <2>1, <2>2
  <1>5. OnlyAt(k, a, p, <<i, p>>)
    BY <1>3, <1>4 DEF OnlyAt
  <1> QED BY <1>5

\* In an even square an arm follows another once.
LEMMA FollowsEven ==
  ASSUME NEW k \in Nat \ {0}, k % 2 = 0, NEW a \in 0 .. k - 1, NEW b \in 0 .. k - 1, a # b
  PROVE  \E x : Forward(k, a, b) = {x}
  <1>1. PICK d \in 1 .. k - 1 : b = Plus(k, a, d)
    BY Change
  <1>a. d \in 1 .. k - 1 /\ b = Plus(k, a, d)
    BY <1>1
  <1> DEFINE p == IF d % 2 = 1 THEN d ELSE k - d
  <1>2. p \in 1 .. k - 1 /\ \A q \in 1 .. k - 1 : Jump(k, q) = d <=> q = p
    BY DEF Jump
  <1> HIDE DEF p
  <1>3. PICK x : OnlyAt(k, a, p, x)
    BY <1>2, AtSteps
  <1>4. ASSUME NEW at \in (1 .. k) \X (1 .. k - 1)
        PROVE  Row(k, at[1])[at[2]] = a /\ Row(k, at[1])[at[2] + 1] = b <=> at = x
    <2> DEFINE j == at[1]
               q == at[2]
    <2>1. j \in 1 .. k /\ q \in 1 .. k - 1
      OBVIOUS
    <2> HIDE DEF j, q
    <2>2. Row(k, j)[q] = a /\ Row(k, j)[q + 1] = b <=> Row(k, j)[q] = a /\ Jump(k, q) = d
      BY <1>a, <2>1, FollowsByStep
    <2>3. Row(k, j)[q] = a /\ Jump(k, q) = d <=> q = p /\ Row(k, j)[p] = a
      BY <1>2, <2>1
    <2>4. q = p /\ Row(k, j)[p] = a <=> at = x
      BY <1>3 DEF OnlyAt, j, q
    <2>5. Row(k, j)[q] = a /\ Row(k, j)[q + 1] = b <=> at = x
      BY <2>2, <2>3, <2>4
    <2> QED BY <2>5 DEF j, q
  <1>5. x \in (1 .. k) \X (1 .. k - 1)
    BY <1>3 DEF OnlyAt
  <1>6. Forward(k, a, b) = {x}
    BY <1>4, <1>5 DEF Forward
  <1> QED BY <1>6

IsPair(S) == \E x, y : x # y /\ S = {x, y}

\* In an odd square an arm follows another twice, or never.
LEMMA FollowsOdd ==
  ASSUME NEW k \in Nat \ {0}, k % 2 = 1, NEW a \in 0 .. k - 1, NEW b \in 0 .. k - 1,
         NEW d \in 1 .. k - 1, b = Plus(k, a, d)
  PROVE  /\ d % 2 = 1 => IsPair(Forward(k, a, b))
         /\ d % 2 = 0 => Forward(k, a, b) = {}
  <1>1. ASSUME NEW at \in (1 .. k) \X (1 .. k - 1)
        PROVE  /\ at[1] \in 1 .. k /\ at[2] \in 1 .. k - 1
               /\ Row(k, at[1])[at[2]] = a /\ Row(k, at[1])[at[2] + 1] = b
                   <=> Row(k, at[1])[at[2]] = a /\ Jump(k, at[2]) = d
    <2> DEFINE j == at[1]
               q == at[2]
    <2>1. j \in 1 .. k /\ q \in 1 .. k - 1
      OBVIOUS
    <2> HIDE DEF j, q
    <2>2. Row(k, j)[q] = a /\ Row(k, j)[q + 1] = b <=> Row(k, j)[q] = a /\ Jump(k, q) = d
      BY <2>1, FollowsByStep
    <2> QED BY <2>1, <2>2 DEF j, q
  <1>2. CASE d % 2 = 0
    <2>1. \A q \in 1 .. k - 1 : Jump(k, q) # d
      BY <1>2 DEF Jump
    <2>2. Forward(k, a, b) = {}
      BY <1>1, <2>1 DEF Forward
    <2> QED BY <1>2, <2>2
  <1>3. CASE d % 2 = 1
    <2> DEFINE e == k - d
    <2>1. e \in 1 .. k - 1 /\ e # d /\ \A q \in 1 .. k - 1 : Jump(k, q) = d <=> q = d \/ q = e
      BY <1>3 DEF Jump
    <2> HIDE DEF e
    <2>2. PICK x : OnlyAt(k, a, d, x)
      BY AtSteps
    <2>3. PICK y : OnlyAt(k, a, e, y)
      BY <2>1, AtSteps
    <2>4. x # y /\ x \in (1 .. k) \X (1 .. k - 1) /\ y \in (1 .. k) \X (1 .. k - 1)
      BY <2>1, <2>2, <2>3 DEF OnlyAt
    <2>5. ASSUME NEW at \in (1 .. k) \X (1 .. k - 1)
          PROVE  Row(k, at[1])[at[2]] = a /\ Row(k, at[1])[at[2] + 1] = b <=> at = x \/ at = y
      <3>1. Row(k, at[1])[at[2]] = a /\ Jump(k, at[2]) = d
              <=> (at[2] = d /\ Row(k, at[1])[d] = a) \/ (at[2] = e /\ Row(k, at[1])[e] = a)
        BY <1>1, <2>1
      <3> QED BY <1>1, <2>2, <2>3, <3>1 DEF OnlyAt
    <2>6. Forward(k, a, b) = {x, y}
      BY <2>4, <2>5 DEF Forward
    <2>7. IsPair(Forward(k, a, b))
      BY <2>4, <2>6 DEF IsPair
    <2> QED BY <1>3, <2>7
  <1> QED BY <1>2, <1>3


\* The square: the rows and, if k is odd, each of them backwards.
LEMMA WilliamsRows ==
  ASSUME NEW k \in Nat \ {0}
  PROVE  /\ Len(Williams(k)) = Cycle(k) /\ DOMAIN Williams(k) = 1 .. Cycle(k)
         /\ \A i \in 1 .. k : Williams(k)[i] = Row(k, i)
         /\ k % 2 = 1 /\ k > 1 => \A i \in 1 .. k : Williams(k)[k + i] = Reverse(Row(k, i))
  <1> DEFINE rows == [i \in 1 .. k |-> Row(k, i)]
             back == [i \in 1 .. k |-> Reverse(rows[i])]
             S == {rows[i] : i \in 1 .. k} \cup {back[i] : i \in 1 .. k}
  <1>1. Williams(k) = IF k % 2 = 1 /\ k > 1 THEN rows \o back ELSE rows
    BY DEF Williams, Row
  <1>2. rows \in Seq(S) /\ back \in Seq(S) /\ Len(rows) = k /\ Len(back) = k
    <2>1. /\ DOMAIN rows = 1 .. k /\ rows = [i \in 1 .. k |-> rows[i]]
          /\ DOMAIN back = 1 .. k /\ back = [i \in 1 .. k |-> back[i]]
      OBVIOUS
    <2> HIDE DEF rows, back
    <2>2. \A i \in 1 .. k : rows[i] \in S /\ back[i] \in S
      OBVIOUS
    <2> HIDE DEF S
    <2>3. rows \in [1 .. k -> S] /\ back \in [1 .. k -> S]
      BY <2>1, <2>2
    <2> QED BY <2>3
  <1>3. \A i \in 1 .. k : rows[i] = Row(k, i) /\ back[i] = Reverse(Row(k, i))
    OBVIOUS
  <1> HIDE DEF rows, back, S
  <1>4. CASE k % 2 = 1 /\ k > 1
    <2>1. \A i \in 1 .. k + k : (rows \o back)[i] = IF i <= k THEN rows[i] ELSE back[i - k]
      BY <1>2
    <2>2. Len(rows \o back) = k + k /\ DOMAIN (rows \o back) = 1 .. k + k
      BY <1>2
    <2>3. \A i \in 1 .. k : i \in 1 .. k + k /\ i <= k /\ k + i \in 1 .. k + k /\ ~(k + i <= k) /\ (k + i) - k = i
      OBVIOUS
    <2>4. \A i \in 1 .. k : (rows \o back)[i] = Row(k, i) /\ (rows \o back)[k + i] = Reverse(Row(k, i))
      BY <2>1, <2>3, <1>3
    <2>5. Cycle(k) = k + k
      BY <1>4 DEF Cycle
    <2> QED BY <1>1, <1>4, <2>2, <2>4, <2>5
  <1>5. CASE ~(k % 2 = 1 /\ k > 1)
    <2>1. Cycle(k) = k
      BY <1>5 DEF Cycle
    <2>2. Williams(k) = rows /\ Len(rows) = k /\ DOMAIN rows = 1 .. k
      BY <1>1, <1>2, <1>5
    <2> QED BY <1>3, <1>5, <2>1, <2>2
  <1> QED BY <1>4, <1>5

\* A row backwards, position by position.
LEMMA BackwardRow ==
  ASSUME NEW k \in Nat \ {0}, NEW i \in 1 .. k, NEW p \in 1 .. k
  PROVE  Reverse(Row(k, i))[p] = Row(k, i)[(k - p) + 1]
  <1> DEFINE s == Row(k, i)
  <1>1. \A q \in 1 .. k : s[q] \in 0 .. k - 1
    BY RowValue
  <1>2. s = [q \in 1 .. k |-> s[q]]
    BY DEF Row
  <1> HIDE DEF s
  <1>3. s \in [1 .. k -> 0 .. k - 1]
    BY <1>1, <1>2
  <1>4. Len(s) = k
    BY <1>3
  <1>5. Reverse(s) = [q \in 1 .. k |-> s[(k - q) + 1]]
    BY <1>4 DEF Reverse
  <1> QED BY <1>5 DEF s

\* How many elements one and two are.
LEMMA OneAndTwo ==
  /\ \A x : Cardinality({x}) = 1
  /\ \A x, y : x # y => Cardinality({x, y}) = 2
  <1>1. \A x : IsFiniteSet({x}) /\ Cardinality({x}) = 1
    BY FS_Singleton
  <1>2. ASSUME NEW x, NEW y, x # y PROVE Cardinality({x, y}) = 2
    <2> DEFINE S == {x}
    <2>1. IsFiniteSet(S) /\ Cardinality(S) = 1 /\ y \notin S
      BY <1>1, <1>2
    <2>2. {x, y} = S \cup {y}
      OBVIOUS
    <2> HIDE DEF S
    <2>3. Cardinality(S \cup {y}) = Cardinality(S) + 1
      BY <2>1, FS_AddElement
    <2> QED BY <2>1, <2>2, <2>3
  <1> QED BY <1>1, <1>2

\* A cycle is k rows or twice as many.
LEMMA Shares ==
  ASSUME NEW k \in Nat \ {0}
  PROVE  /\ k % 2 = 1 /\ k > 1 => Cycle(k) = k + k /\ Cycle(k) \div k = 2
         /\ ~(k % 2 = 1 /\ k > 1) => Cycle(k) = k /\ Cycle(k) \div k = 1
  <1>1. k \div k = 1 /\ (2 * k) \div k = 2
    OBVIOUS
  <1>2. 2 * k = k + k
    OBVIOUS
  <1> QED BY <1>1, <1>2 DEF Cycle

\* The rows where arm a is at position p, and the places where b follows a.
HeldIn(k, a, p) == {i \in DOMAIN Williams(k) : Williams(k)[i][p] = a}
FollowedIn(k, a, b) ==
  {at \in (DOMAIN Williams(k)) \X (1 .. k - 1) :
     Williams(k)[at[1]][at[2]] = a /\ Williams(k)[at[1]][at[2] + 1] = b}

\* Over a cycle every arm holds a position as often as there are rows to an arm.
LEMMA HoldsShare ==
  ASSUME NEW k \in Nat \ {0}, NEW a \in 0 .. k - 1, NEW p \in 1 .. k
  PROVE  Cardinality(HeldIn(k, a, p)) = Cycle(k) \div k
  <1> DEFINE w == Williams(k)
             at == HeldIn(k, a, p)
  <1>0. at = {i \in DOMAIN w : w[i][p] = a}
    BY DEF HeldIn
  <1>1. PICK i \in 1 .. k : \A j \in 1 .. k : Row(k, j)[p] = a <=> j = i
    BY HeldOnce
  <1>2. /\ DOMAIN w = 1 .. Cycle(k)
        /\ \A j \in 1 .. k : w[j] = Row(k, j)
        /\ k % 2 = 1 /\ k > 1 => \A j \in 1 .. k : w[k + j] = Reverse(Row(k, j))
    BY WilliamsRows
  <1> HIDE DEF w, at
  <1>3. CASE ~(k % 2 = 1 /\ k > 1)
    <2>1. Cycle(k) = k /\ Cycle(k) \div k = 1
      BY <1>3, Shares
    <2>2. at = {i}
      BY <1>0, <1>1, <1>2, <2>1
    <2> QED BY <2>1, <2>2, OneAndTwo DEF at
  <1>4. CASE k % 2 = 1 /\ k > 1
    <2>1. Cycle(k) = k + k /\ Cycle(k) \div k = 2
      BY <1>4, Shares
    <2> DEFINE q == (k - p) + 1
    <2>2. q \in 1 .. k
      OBVIOUS
    <2>3. PICK m \in 1 .. k : \A j \in 1 .. k : Row(k, j)[q] = a <=> j = m
      <3> HIDE DEF q
      <3> QED BY <2>2, HeldOnce
    <2>4. \A j \in 1 .. k : Reverse(Row(k, j))[p] = Row(k, j)[q]
      BY BackwardRow
    <2> HIDE DEF q
    <2>5. \A j \in 1 .. k : w[k + j][p] = a <=> j = m
      BY <1>2, <1>4, <2>3, <2>4
    <2>6. \A j \in 1 .. k : w[j][p] = a <=> j = i
      BY <1>1, <1>2
    <2>7. ASSUME NEW n \in 1 .. k + k PROVE w[n][p] = a <=> n = i \/ n = k + m
      <3>1. CASE n \in 1 .. k
        BY <2>6, <3>1
      <3>2. CASE n \notin 1 .. k
        <4> DEFINE j == n - k
        <4>1. j \in 1 .. k /\ n = k + j
          BY <3>2
        <4> HIDE DEF j
        <4>2. w[n][p] = a <=> j = m
          BY <2>5, <4>1
        <4> QED BY <4>1, <4>2, <3>2
      <3> QED BY <3>1, <3>2
    <2>8. i \in 1 .. k + k /\ k + m \in 1 .. k + k /\ i # k + m
      OBVIOUS
    <2>9. at = {i, k + m}
      BY <1>0, <1>2, <2>1, <2>7, <2>8
    <2>10. Cardinality(at) = 2
      BY <2>8, <2>9, OneAndTwo
    <2> QED BY <2>1, <2>10 DEF at
  <1> QED BY <1>3, <1>4


\* Over a cycle every arm follows every other as often.
LEMMA FollowsShare ==
  ASSUME NEW k \in Nat \ {0}, NEW a \in 0 .. k - 1, NEW b \in 0 .. k - 1, a # b
  PROVE  Cardinality(FollowedIn(k, a, b)) = Cycle(k) \div k
  <1> DEFINE w == Williams(k)
             C == Cycle(k)
             at == FollowedIn(k, a, b)
             fore == Forward(k, a, b)
             aft == Forward(k, b, a)
  <1>1. /\ DOMAIN w = 1 .. C
        /\ \A j \in 1 .. k : w[j] = Row(k, j)
        /\ k % 2 = 1 /\ k > 1 => \A j \in 1 .. k : w[k + j] = Reverse(Row(k, j))
    BY WilliamsRows
  <1>2. at = {x \in (1 .. C) \X (1 .. k - 1) : w[x[1]][x[2]] = a /\ w[x[1]][x[2] + 1] = b}
    BY <1>1 DEF FollowedIn
  <1>3. k > 1
    OBVIOUS
  <1>4. CASE k % 2 = 0
    <2>1. ~(k % 2 = 1 /\ k > 1)
      BY <1>4
    <2>2. C = k /\ C \div k = 1
      BY <2>1, Shares
    <2> HIDE DEF w, C
    <2>3. ASSUME NEW x \in (1 .. k) \X (1 .. k - 1) PROVE w[x[1]] = Row(k, x[1])
      BY <1>1
    <2>4. at = fore
      <3> HIDE DEF at
      <3> QED BY <1>2, <2>2, <2>3 DEF Forward
    <2>5. PICK x : fore = {x}
      BY <1>4, FollowsEven
    <2>6. Cardinality(at) = 1
      <3> HIDE DEF at, fore
      <3> QED BY <2>4, <2>5, OneAndTwo
    <2> QED BY <2>2, <2>6 DEF C
  <1>5. CASE k % 2 = 1
    <2>1. C = k + k /\ C \div k = 2
      BY <1>3, <1>5, Shares
    <2>2. \A j \in 1 .. k : w[k + j] = Reverse(Row(k, j))
      BY <1>1, <1>3, <1>5
    <2> DEFINE turn(x) == <<k + x[1], k - x[2]>>
    <2> HIDE DEF w, C, at
    \* A place in a row read backwards is one where a follows b.
    <2>3. ASSUME NEW j \in 1 .. k, NEW p \in 1 .. k - 1
          PROVE  /\ <<k + j, p>> \in at <=> <<j, k - p>> \in aft
                 /\ <<j, p>> \in at <=> <<j, p>> \in fore
      <3> DEFINE q == k - p
      <3>1. /\ p \in 1 .. k /\ p + 1 \in 1 .. k /\ q \in 1 .. k - 1 /\ (k - p) + 1 = q + 1
            /\ (k - (p + 1)) + 1 = q /\ k + j \in 1 .. k + k /\ j \in 1 .. k + k
        OBVIOUS
      <3> HIDE DEF q
      <3>2. Reverse(Row(k, j))[p] = Row(k, j)[q + 1] /\ Reverse(Row(k, j))[p + 1] = Row(k, j)[q]
        <4>1. Reverse(Row(k, j))[p] = Row(k, j)[(k - p) + 1]
          BY <3>1, BackwardRow
        <4>2. Reverse(Row(k, j))[p + 1] = Row(k, j)[(k - (p + 1)) + 1]
          BY <3>1, BackwardRow
        <4> QED BY <3>1, <4>1, <4>2
      <3>3. <<k + j, p>> \in at <=> Row(k, j)[q + 1] = a /\ Row(k, j)[q] = b
        BY <1>2, <2>1, <2>2, <3>1, <3>2
      <3>4. <<j, q>> \in aft <=> Row(k, j)[q] = b /\ Row(k, j)[q + 1] = a
        BY <3>1 DEF Forward
      <3>5. <<j, p>> \in at <=> Row(k, j)[p] = a /\ Row(k, j)[p + 1] = b
        BY <1>1, <1>2, <2>1, <3>1
      <3>6. <<j, p>> \in fore <=> Row(k, j)[p] = a /\ Row(k, j)[p + 1] = b
        BY <3>1 DEF Forward
      <3> QED BY <3>3, <3>4, <3>5, <3>6 DEF q
    <2>4. at = fore \cup {turn(x) : x \in aft}
      <3>1. fore \subseteq (1 .. k) \X (1 .. k - 1) /\ aft \subseteq (1 .. k) \X (1 .. k - 1)
        BY DEF Forward
      <3> HIDE DEF fore, aft
      <3>2. ASSUME NEW x \in at PROVE x \in fore \cup {turn(y) : y \in aft}
        <4>1. x = <<x[1], x[2]>> /\ x[1] \in 1 .. k + k /\ x[2] \in 1 .. k - 1
          BY <1>2, <2>1
        <4> DEFINE i == x[1]
                   p == x[2]
        <4>2. CASE i \in 1 .. k
          BY <2>3, <4>1, <4>2
        <4>3. CASE i \notin 1 .. k
          <5> DEFINE j == i - k
                     y == <<j, k - p>>
          <5>1. j \in 1 .. k /\ k + j = i /\ k - (k - p) = p
            BY <4>1, <4>3
          <5>2. y \in aft
            BY <2>3, <4>1, <5>1
          <5>3. turn(y) = x
            BY <4>1, <5>1
          <5> HIDE DEF y, turn
          <5> QED BY <5>2, <5>3
        <4> QED BY <4>2, <4>3
      <3>3. ASSUME NEW x \in fore PROVE x \in at
        <4>1. x = <<x[1], x[2]>> /\ x[1] \in 1 .. k /\ x[2] \in 1 .. k - 1
          BY <3>1
        <4> QED BY <2>3, <4>1
      <3>4. ASSUME NEW y \in aft PROVE turn(y) \in at
        <4>1. y = <<y[1], y[2]>> /\ y[1] \in 1 .. k /\ y[2] \in 1 .. k - 1
          BY <3>1
        <4>2. k - y[2] \in 1 .. k - 1 /\ k - (k - y[2]) = y[2]
          BY <4>1
        <4>3. <<k + y[1], k - y[2]>> \in at <=> <<y[1], k - (k - y[2])>> \in aft
          BY <2>3, <4>1, <4>2
        <4> QED BY <4>1, <4>2, <4>3
      <3> HIDE DEF turn
      <3> QED BY <3>2, <3>3, <3>4
    <2>5. PICK d \in 1 .. k - 1 : b = Plus(k, a, d) /\ a = Plus(k, b, k - d) /\ k - d \in 1 .. k - 1
      BY Change
    <2>6. CASE d % 2 = 1
      <3>1. (k - d) % 2 = 0
        BY <1>5, <2>6
      <3>2. IsPair(fore)
        BY <1>5, <2>5, <2>6, FollowsOdd
      <3>3. aft = {}
        BY <1>5, <2>5, <3>1, FollowsOdd
      <3> HIDE DEF fore, aft, turn
      <3>4. at = fore
        BY <2>4, <3>3
      <3>5. PICK x, y : x # y /\ fore = {x, y}
        BY <3>2 DEF IsPair
      <3>6. Cardinality(at) = 2
        BY <3>4, <3>5, OneAndTwo
      <3> QED BY <2>1, <3>6 DEF C, at
    <2>7. CASE d % 2 = 0
      <3>1. (k - d) % 2 = 1
        BY <1>5, <2>7
      <3>2. IsPair(aft)
        BY <1>5, <2>5, <3>1, FollowsOdd
      <3>3. fore = {}
        BY <1>5, <2>5, <2>7, FollowsOdd
      <3>4. aft \subseteq (1 .. k) \X (1 .. k - 1)
        BY DEF Forward
      <3> HIDE DEF fore, aft
      <3>5. PICK x, y : x # y /\ aft = {x, y}
        BY <3>2 DEF IsPair
      <3>6. turn(x) # turn(y)
        <4>1. /\ x = <<x[1], x[2]>> /\ y = <<y[1], y[2]>>
              /\ x[1] \in Int /\ x[2] \in Int /\ y[1] \in Int /\ y[2] \in Int
          BY <3>4, <3>5
        <4>2. x[1] # y[1] \/ x[2] # y[2]
          BY <3>5, <4>1
        <4>3. k + x[1] # k + y[1] \/ k - x[2] # k - y[2]
          BY <4>1, <4>2
        <4> QED BY <4>3
      <3>7. at = {turn(x), turn(y)}
        <4> HIDE DEF turn
        <4> QED BY <2>4, <3>3, <3>5
      <3>8. Cardinality(at) = 2
        <4> HIDE DEF turn
        <4> QED BY <3>6, <3>7, OneAndTwo
      <3> QED BY <2>1, <3>8 DEF C, at
    <2>8. d % 2 = 0 \/ d % 2 = 1
      BY <2>5
    <2> QED BY <2>6, <2>7, <2>8, Zenon
  <1>6. k % 2 = 0 \/ k % 2 = 1
    OBVIOUS
  <1> QED BY <1>4, <1>5, <1>6, Zenon

(* Over a cycle of rounds every arm holds every position, and directly     *)
(* follows every other arm, the same number of times, for any number of    *)
(* arms: what schedule.williams is for.                                    *)
THEOREM SquaresAreBalanced == \A k \in Nat \ {0} : Balanced(k)
  <1> SUFFICES ASSUME NEW k \in Nat \ {0} PROVE Balanced(k)
    OBVIOUS
  <1>1. Len(Williams(k)) = Cycle(k)
    BY WilliamsRows
  <1>2. ASSUME NEW a \in 0 .. k - 1, NEW p \in 0 .. k - 1
        PROVE  Cardinality({i \in DOMAIN Williams(k) : Williams(k)[i][p + 1] = a}) = Cycle(k) \div k
    <2> DEFINE q == p + 1
    <2>1. q \in 1 .. k
      OBVIOUS
    <2> HIDE DEF q
    <2>2. Cardinality(HeldIn(k, a, q)) = Cycle(k) \div k
      BY <2>1, HoldsShare
    <2> QED BY <2>2, Zenon DEF HeldIn, q
  <1>3. ASSUME NEW a \in 0 .. k - 1, NEW b \in 0 .. k - 1, a # b
        PROVE  Cardinality({at \in (DOMAIN Williams(k)) \X (1 .. k - 1) :
                  Williams(k)[at[1]][at[2]] = a /\ Williams(k)[at[1]][at[2] + 1] = b}) = Cycle(k) \div k
    <2>1. Cardinality(FollowedIn(k, a, b)) = Cycle(k) \div k
      BY <1>3, FollowsShare
    <2> QED BY <2>1, Zenon DEF FollowedIn
  <1> QED BY <1>1, <1>2, <1>3, Zenon DEF Balanced

(***************************************************************************)
(* The kept samples are balanced.  samples.tsv never breaks an order: the  *)
(* row of a run that is not the first of its order comes right after the   *)
(* row of the run before, however many sessions appended to the file, and  *)
(* whatever rounds were moved away from between those kept.                *)
(***************************************************************************)
Unbroken(q) ==
  \A i \in DOMAIN q : q[i].pos # 1 =>
     i # 1 /\ q[i - 1].round = q[i].round /\ q[i - 1].rep = q[i].rep /\ q[i - 1].pos = q[i].pos - 1

\* Sequences without a break have none joined, and neither has what another
\* was joined to.
LEMMA UnbrokenJoin ==
  ASSUME NEW S
  PROVE  \A p, q \in Seq(S) : /\ Unbroken(p) /\ Unbroken(q) => Unbroken(p \o q)
                              /\ Unbroken(p \o q) => Unbroken(p)
  <1> SUFFICES ASSUME NEW p \in Seq(S), NEW q \in Seq(S)
               PROVE  /\ Unbroken(p) /\ Unbroken(q) => Unbroken(p \o q)
                      /\ Unbroken(p \o q) => Unbroken(p)
    OBVIOUS
  <1> DEFINE z == p \o q
             m == Len(p)
             n == Len(q)
  <1>1. /\ DOMAIN z = 1 .. m + n /\ DOMAIN p = 1 .. m /\ DOMAIN q = 1 .. n /\ m \in Nat /\ n \in Nat
        /\ \A i \in 1 .. m : z[i] = p[i]
        /\ \A i \in 1 .. n : z[m + i] = q[i]
    <2>1. /\ DOMAIN z = 1 .. m + n
          /\ \A i \in 1 .. m : z[i] = p[i]
          /\ \A i \in 1 .. n : z[m + i] = q[i]
      BY JoinAt
    <2>2. DOMAIN p = 1 .. m /\ DOMAIN q = 1 .. n /\ m \in Nat /\ n \in Nat
      OBVIOUS
    <2> QED BY <2>1, <2>2
  <1> HIDE DEF z, m, n
  <1>2. ASSUME Unbroken(p), Unbroken(q) PROVE Unbroken(z)
    <2> SUFFICES ASSUME NEW i \in 1 .. m + n, z[i].pos # 1
                 PROVE  /\ i # 1 /\ z[i - 1].round = z[i].round /\ z[i - 1].rep = z[i].rep
                        /\ z[i - 1].pos = z[i].pos - 1
      BY <1>1 DEF Unbroken
    <2>1. CASE i \in 1 .. m
      <3>1. z[i] = p[i]
        BY <1>1, <2>1
      <3>2. i # 1 /\ p[i - 1].round = p[i].round /\ p[i - 1].rep = p[i].rep /\ p[i - 1].pos = p[i].pos - 1
        BY <1>1, <1>2, <2>1, <3>1 DEF Unbroken
      <3>3. i - 1 \in 1 .. m
        BY <1>1, <2>1, <3>2
      <3>4. z[i - 1] = p[i - 1]
        BY <1>1, <3>3
      <3> QED BY <3>1, <3>2, <3>4
    <2>2. CASE i \notin 1 .. m
      <3> DEFINE j == i - m
      <3>1. j \in 1 .. n /\ i = m + j
        BY <1>1, <2>2
      <3> HIDE DEF j
      <3>2. z[i] = q[j]
        BY <1>1, <3>1
      <3>3. j # 1 /\ q[j - 1].round = q[j].round /\ q[j - 1].rep = q[j].rep /\ q[j - 1].pos = q[j].pos - 1
        BY <1>1, <1>2, <3>1, <3>2 DEF Unbroken
      <3>4. j - 1 \in 1 .. n /\ i - 1 = m + (j - 1) /\ i # 1
        BY <1>1, <3>1, <3>3
      <3>5. z[i - 1] = q[j - 1]
        BY <1>1, <3>4
      <3> QED BY <3>2, <3>3, <3>4, <3>5
    <2> QED BY <2>1, <2>2
  <1>3. ASSUME Unbroken(z) PROVE Unbroken(p)
    <2> SUFFICES ASSUME NEW i \in 1 .. m, p[i].pos # 1
                 PROVE  /\ i # 1 /\ p[i - 1].round = p[i].round /\ p[i - 1].rep = p[i].rep
                        /\ p[i - 1].pos = p[i].pos - 1
      BY <1>1 DEF Unbroken
    <2>1. z[i] = p[i] /\ i \in DOMAIN z
      BY <1>1
    <2>2. i # 1 /\ z[i - 1].round = z[i].round /\ z[i - 1].rep = z[i].rep /\ z[i - 1].pos = z[i].pos - 1
      BY <1>3, <2>1 DEF Unbroken
    <2>3. i - 1 \in 1 .. m
      BY <1>1, <2>2
    <2>4. z[i - 1] = p[i - 1]
      BY <1>1, <2>3
    <2> QED BY <2>1, <2>2, <2>4
  <1> QED BY <1>2, <1>3 DEF z

\* What holds of the empty sequence, and of two joined when it holds of each,
\* holds of several joined when it holds of each.
LEMMA FlattenKeeps ==
  ASSUME NEW S, NEW P \in SUBSET Seq(S), <<>> \in P, \A p, q \in P : p \o q \in P, NEW ss \in Seq(P)
  PROVE  FlattenSeq(ss) \in P
  <1> DEFINE N == Len(ss)
  <1>1. N \in Nat /\ DOMAIN ss = 1 .. N /\ \A n \in 1 .. N : ss[n] \in P
    OBVIOUS
  <1>2. ss \in Seq(Seq(S))
    <2>1. ss = [n \in 1 .. N |-> ss[n]]
      OBVIOUS
    <2>2. \A n \in 1 .. N : ss[n] \in Seq(S)
      BY <1>1
    <2> HIDE DEF N
    <2>3. [n \in 1 .. N |-> ss[n]] \in [1 .. N -> Seq(S)]
      BY <2>2
    <2>4. ss \in [1 .. N -> Seq(S)]
      BY <2>1, <2>3
    <2> QED BY <2>4, <1>1
  <1>3. CASE N = 0
    <2>1. FlattenSeq(ss) = ss /\ ss = <<>>
      BY <1>3 DEF FlattenSeq
    <2> QED BY <2>1
  <1>4. CASE N # 0
    <2>1. PICK g : FlattenRule(ss, g)
      BY <1>2, <1>4, FlattenDefined
    <2>2. FlattenSeq(ss) = g[N] /\ \A n \in 1 .. N : g[n] = IF n = 1 THEN ss[n] ELSE g[n - 1] \o ss[n]
      BY <2>1 DEF FlattenRule
    <2> HIDE DEF N
    <2> DEFINE T == {n \in 1 .. N : g[n] \notin P}
    <2>3. N \notin T
      <3> SUFFICES ASSUME N \in T PROVE FALSE
        OBVIOUS
      <3>1. PICK n \in T : \A m \in T : n <= m
        <4>1. T \in SUBSET Nat
          BY <1>1
        <4> HIDE DEF T
        <4> QED BY <4>1, LeastNatural
      <3>2. n \in 1 .. N /\ g[n] \notin P
        OBVIOUS
      <3>3. n # 1
        BY <1>1, <2>2, <3>2
      <3>4. n - 1 \in 1 .. N /\ ~(n <= n - 1)
        BY <3>2, <3>3, <1>1
      <3>5. n - 1 \notin T
        <4> HIDE DEF T
        <4> QED BY <3>1, <3>4
      <3>6. g[n - 1] \in P
        BY <3>4, <3>5
      <3>7. g[n] = g[n - 1] \o ss[n] /\ ss[n] \in P
        BY <1>1, <2>2, <3>2, <3>3
      <3> QED BY <3>2, <3>6, <3>7
    <2>4. g[N] \in P
      BY <2>3, <1>1, <1>4
    <2> QED BY <2>2, <2>4
  <1> QED BY <1>3, <1>4

\* A set that has all of a round's runs, or none, leaves no break.
LEMMA UnbrokenOn ==
  ASSUME NEW S, NEW B, \A x, y \in S : x.round = y.round => (x \in B <=> y \in B)
  PROVE  \A s \in Seq(S) : Unbroken(s) => Unbroken(On(s, B))
  <1> DEFINE Ends(s, t) == s # <<>> /\ s[Len(s)] \in B => t # <<>> /\ t[Len(t)] = s[Len(s)]
             Right(s) == Unbroken(s) => Unbroken(On(s, B)) /\ Ends(s, On(s, B))
             P == {s \in Seq(S) : Right(s)}
  <1>1. <<>> \in P
    <2>1. On(<<>>, B) = <<>>
      BY OnElements
    <2>2. Right(<<>>)
      BY <2>1
    <2> QED BY <2>2
  <1>2. ASSUME NEW s \in P, NEW e \in S PROVE Append(s, e) \in P
    <2> DEFINE u == Append(s, e)
               n == Len(s)
               t == On(s, B)
               m == Len(t)
               v == Append(t, e)
    <2>1. s \in Seq(S) /\ Right(s)
      OBVIOUS
    <2>2. /\ u \in Seq(S) /\ n \in Nat /\ DOMAIN u = 1 .. n + 1 /\ DOMAIN s = 1 .. n /\ Len(u) = n + 1
          /\ u[n + 1] = e /\ \A i \in 1 .. n : u[i] = s[i]
          /\ s # <<>> <=> n # 0
      BY <2>1
    <2>3. On(u, B) = IF e \in B THEN v ELSE t
      BY <2>1, OnAppend
    <2>4. t \in Seq(S)
      BY <2>1, OnElements
    <2> HIDE DEF t
    <2>5. /\ m \in Nat /\ DOMAIN v = 1 .. m + 1 /\ DOMAIN t = 1 .. m /\ Len(v) = m + 1
          /\ v[m + 1] = e /\ (\A i \in 1 .. m : v[i] = t[i]) /\ v # <<>>
          /\ t # <<>> <=> m # 0
      BY <2>4
    <2> SUFFICES ASSUME Unbroken(u) PROVE Unbroken(On(u, B)) /\ Ends(u, On(u, B))
      BY <2>2
    <2> HIDE DEF u, n, m, v
    <2>6. Unbroken(s)
      <3> SUFFICES ASSUME NEW i \in 1 .. n, s[i].pos # 1
                   PROVE  /\ i # 1 /\ s[i - 1].round = s[i].round /\ s[i - 1].rep = s[i].rep
                          /\ s[i - 1].pos = s[i].pos - 1
        BY <2>2 DEF Unbroken
      <3>1. i \in DOMAIN u /\ u[i] = s[i]
        BY <2>2
      <3>2. /\ i # 1 /\ u[i - 1].round = u[i].round /\ u[i - 1].rep = u[i].rep
            /\ u[i - 1].pos = u[i].pos - 1
        BY <3>1 DEF Unbroken
      <3>3. u[i - 1] = s[i - 1]
        BY <2>2, <3>2
      <3> QED BY <3>1, <3>2, <3>3
    <2>7. Unbroken(t) /\ Ends(s, t)
      BY <2>1, <2>6 DEF t
    <2>8. CASE e \notin B
      BY <2>2, <2>3, <2>7, <2>8
    <2>9. CASE e \in B
      <3>1. Ends(u, v)
        BY <2>2, <2>5
      <3>2. ASSUME e.pos # 1
            PROVE  /\ m # 0 /\ t[m].round = e.round /\ t[m].rep = e.rep /\ t[m].pos = e.pos - 1
        <4>1. n + 1 \in DOMAIN u /\ (n + 1) - 1 = n
          BY <2>2
        <4>2. /\ n + 1 # 1 /\ u[n].round = e.round /\ u[n].rep = e.rep /\ u[n].pos = e.pos - 1
          BY <2>2, <3>2, <4>1 DEF Unbroken
        <4>3. n # 0 /\ n \in 1 .. n /\ u[n] = s[n] /\ s[n] \in S
          BY <2>1, <2>2, <4>2
        <4>4. s[n] \in B
          BY <2>9, <4>2, <4>3
        <4>5. t # <<>> /\ t[m] = s[n]
          BY <2>2, <2>7, <4>3, <4>4 DEF n, m
        <4> QED BY <2>5, <4>2, <4>3, <4>5
      <3>3. Unbroken(v)
        <4> SUFFICES ASSUME NEW i \in 1 .. m + 1, v[i].pos # 1
                     PROVE  /\ i # 1 /\ v[i - 1].round = v[i].round /\ v[i - 1].rep = v[i].rep
                            /\ v[i - 1].pos = v[i].pos - 1
          BY <2>5 DEF Unbroken
        <4>1. CASE i = m + 1
          <5>1. v[i] = e /\ i - 1 = m
            BY <2>5, <4>1
          <5>2. /\ m # 0 /\ t[m].round = e.round /\ t[m].rep = e.rep /\ t[m].pos = e.pos - 1
            BY <3>2, <5>1
          <5>3. v[m] = t[m]
            BY <2>5, <5>2
          <5> QED BY <4>1, <5>1, <5>2, <5>3
        <4>2. CASE i # m + 1
          <5>1. i \in 1 .. m /\ v[i] = t[i]
            BY <2>5, <4>2
          <5>2. /\ i # 1 /\ t[i - 1].round = t[i].round /\ t[i - 1].rep = t[i].rep
                /\ t[i - 1].pos = t[i].pos - 1
            BY <2>5, <2>7, <5>1 DEF Unbroken
          <5>3. v[i - 1] = t[i - 1]
            BY <2>5, <5>1, <5>2
          <5> QED BY <5>1, <5>2, <5>3
        <4> QED BY <4>1, <4>2
      <3> QED BY <2>3, <2>9, <3>1, <3>3
    <2> QED BY <2>8, <2>9
  <1>3. P = Seq(S)
    <2>1. P \in SUBSET Seq(S)
      OBVIOUS
    <2> HIDE DEF P
    <2> QED BY <1>1, <1>2, <2>1, ByAppending
  <1> QED BY <1>3

\* The runs of rows joined, and of rows with one more.
LEMMA RunsJoin ==
  ASSUME NEW S
  PROVE  \A p, q \in Seq(S) : /\ RunsIn(p) \in Seq({x.run : x \in S})
                              /\ RunsIn(p \o q) = RunsIn(p) \o RunsIn(q)
  <1> SUFFICES ASSUME NEW p \in Seq(S), NEW q \in Seq(S)
               PROVE  /\ RunsIn(p) \in Seq({x.run : x \in S})
                      /\ RunsIn(p \o q) = RunsIn(p) \o RunsIn(q)
    OBVIOUS
  <1> DEFINE R == {x.run : x \in S}
             z == p \o q
             a == RunsIn(p)
             b == RunsIn(q)
             c == RunsIn(z)
             m == Len(p)
             n == Len(q)
  <1>1. /\ DOMAIN z = 1 .. m + n /\ DOMAIN p = 1 .. m /\ DOMAIN q = 1 .. n /\ m \in Nat /\ n \in Nat
        /\ \A i \in 1 .. m : z[i] = p[i] /\ p[i] \in S
        /\ \A i \in 1 .. n : z[m + i] = q[i] /\ q[i] \in S
    <2>1. /\ DOMAIN z = 1 .. m + n
          /\ \A i \in 1 .. m : z[i] = p[i]
          /\ \A i \in 1 .. n : z[m + i] = q[i]
      BY JoinAt
    <2>2. DOMAIN p = 1 .. m /\ DOMAIN q = 1 .. n /\ m \in Nat /\ n \in Nat
      OBVIOUS
    <2>3. (\A i \in 1 .. m : p[i] \in S) /\ (\A i \in 1 .. n : q[i] \in S)
      OBVIOUS
    <2> QED BY <2>1, <2>2, <2>3
  <1> HIDE DEF z, m, n
  <1>2. a \in Seq(R) /\ b \in Seq(R) /\ Len(a) = m /\ Len(b) = n
    <2>1. a = [i \in 1 .. m |-> p[i].run] /\ b = [i \in 1 .. n |-> q[i].run]
      BY <1>1 DEF RunsIn
    <2>2. (\A i \in 1 .. m : p[i].run \in R) /\ (\A i \in 1 .. n : q[i].run \in R)
      BY <1>1
    <2> HIDE DEF a, b, R
    <2> QED BY <2>1, <2>2, <1>1
  <1>3. /\ DOMAIN c = 1 .. m + n
        /\ \A i \in 1 .. m : c[i] = a[i]
        /\ \A i \in 1 .. n : c[m + i] = b[i]
    <2>1. \A i \in 1 .. n : m + i \in 1 .. m + n
      BY <1>1
    <2>2. \A i \in 1 .. m : i \in 1 .. m + n
      BY <1>1
    <2> QED BY <1>1, <2>1, <2>2 DEF RunsIn
  <1>4. c = [i \in DOMAIN c |-> c[i]]
    BY DEF RunsIn
  <1> HIDE DEF a, b, c, R
  <1>5. /\ a \o b \in Seq(R) /\ DOMAIN (a \o b) = 1 .. m + n
        /\ \A i \in 1 .. m : (a \o b)[i] = a[i]
        /\ \A i \in 1 .. n : (a \o b)[m + i] = b[i]
    <2>1. /\ a \o b \in Seq(R) /\ DOMAIN (a \o b) = 1 .. (Len(a) + Len(b))
          /\ \A i \in 1 .. Len(a) : (a \o b)[i] = a[i]
          /\ \A i \in 1 .. Len(b) : (a \o b)[Len(a) + i] = b[i]
      <3>1. \A p1, q1 \in Seq(R) :
              /\ p1 \o q1 \in Seq(R) /\ DOMAIN (p1 \o q1) = 1 .. (Len(p1) + Len(q1))
              /\ \A i \in 1 .. Len(p1) : (p1 \o q1)[i] = p1[i]
              /\ \A i \in 1 .. Len(q1) : (p1 \o q1)[Len(p1) + i] = q1[i]
        BY JoinAt
      <3> QED BY <3>1, <1>2, Zenon
    <2> DEFINE d == a \o b
    <2> HIDE DEF d
    <2>2. /\ d \in Seq(R) /\ DOMAIN d = 1 .. m + n
          /\ \A i \in 1 .. m : d[i] = a[i]
          /\ \A i \in 1 .. n : d[m + i] = b[i]
      BY <1>2, <2>1 DEF d
    <2> QED BY <2>2 DEF d
  <1> DEFINE d == a \o b
  <1>6. d = [i \in DOMAIN d |-> d[i]]
    <2>1. d \in Seq(R)
      BY <1>5
    <2> HIDE DEF d
    <2> QED BY <2>1
  <1>7. \A i \in 1 .. m + n : c[i] = d[i]
    <2> SUFFICES ASSUME NEW i \in 1 .. m + n PROVE c[i] = d[i]
      OBVIOUS
    <2>1. CASE i \in 1 .. m
      BY <2>1, <1>3, <1>5
    <2>2. CASE i \notin 1 .. m
      <3> DEFINE j == i - m
      <3>1. j \in 1 .. n /\ i = m + j
        BY <1>1, <2>2
      <3> HIDE DEF j
      <3> QED BY <3>1, <1>3, <1>5
    <2> QED BY <2>1, <2>2
  <1>8. DOMAIN d = 1 .. m + n
    BY <1>5
  <1> HIDE DEF d
  <1>9. c = d
    BY <1>3, <1>4, <1>6, <1>7, <1>8
  <1> QED BY <1>2, <1>9 DEF c, d, a, b, R, z

\* The runs of a round.
RunsFor(r, seed, k, reps) ==
  {[round |-> r, seed |-> seed, rep |-> rep, pos |-> pos, arm |-> RoundOrders(r, k, reps)[rep][pos]] :
     rep \in 1 .. reps, pos \in 1 .. k}

\* A round, which is its orders joined, is unbroken.
LEMMA RoundUnbroken ==
  ASSUME NEW r, NEW seed, NEW k \in Nat, NEW reps \in Nat
  PROVE  /\ Unbroken(RoundRuns(r, seed, k, reps))
         /\ RoundRuns(r, seed, k, reps) \in Seq(RunsFor(r, seed, k, reps))
  <1> DEFINE run(rep, pos) == [round |-> r, seed |-> seed, rep |-> rep, pos |-> pos,
                               arm |-> RoundOrders(r, k, reps)[rep][pos]]
             S == {run(rep, pos) : rep \in 1 .. reps, pos \in 1 .. k}
             order(rep) == [pos \in 1 .. k |-> run(rep, pos)]
             ss == [rep \in 1 .. reps |-> order(rep)]
             P == {q \in Seq(S) : Unbroken(q)}
  <1>1. \A rep, pos : run(rep, pos).round = r /\ run(rep, pos).rep = rep /\ run(rep, pos).pos = pos
    OBVIOUS
  <1>2. RoundRuns(r, seed, k, reps) = FlattenSeq(ss)
    BY Zenon DEF RoundRuns
  <1>3. \A rep \in 1 .. reps, pos \in 1 .. k : run(rep, pos) \in S
    OBVIOUS
  <1> HIDE DEF run, S
  <1>4. ASSUME NEW rep \in 1 .. reps PROVE order(rep) \in P
    <2> DEFINE q == order(rep)
    <2>1. q \in Seq(S)
      <3>1. q \in [1 .. k -> S]
        BY <1>3
      <3> QED BY <3>1
    <2>2. DOMAIN q = 1 .. k /\ \A pos \in 1 .. k : q[pos] = run(rep, pos)
      OBVIOUS
    <2> HIDE DEF q
    <2>3. Unbroken(q)
      <3> SUFFICES ASSUME NEW i \in 1 .. k, q[i].pos # 1
                   PROVE  /\ i # 1 /\ q[i - 1].round = q[i].round /\ q[i - 1].rep = q[i].rep
                          /\ q[i - 1].pos = q[i].pos - 1
        BY <2>2 DEF Unbroken
      <3>1. q[i] = run(rep, i) /\ i # 1
        BY <1>1, <2>2
      <3>2. i - 1 \in 1 .. k
        BY <3>1
      <3>3. q[i - 1] = run(rep, i - 1)
        BY <2>2, <3>2
      <3> QED BY <1>1, <3>1, <3>3
    <2>4. q \in P
      BY <2>1, <2>3
    <2> QED BY <2>4 DEF q
  <1> HIDE DEF order
  <1>5. ss \in Seq(P)
    <2> HIDE DEF P
    <2>1. ss \in [1 .. reps -> P]
      BY <1>4
    <2> QED BY <2>1
  <1>6. P \in SUBSET Seq(S) /\ <<>> \in P
    <2>1. Unbroken(<<>>)
      BY DEF Unbroken
    <2> QED BY <2>1
  <1>7. ASSUME NEW p \in P, NEW q \in P PROVE p \o q \in P
    <2>1. p \in Seq(S) /\ q \in Seq(S) /\ Unbroken(p) /\ Unbroken(q)
      OBVIOUS
    <2>2. Unbroken(p \o q) /\ p \o q \in Seq(S)
      BY <2>1, UnbrokenJoin
    <2> QED BY <2>2
  <1> HIDE DEF ss, P
  <1>8. FlattenSeq(ss) \in P
    BY <1>5, <1>6, <1>7, FlattenKeeps
  <1>9. RoundRuns(r, seed, k, reps) \in P
    BY <1>2, <1>8
  <1>10. Unbroken(RoundRuns(r, seed, k, reps)) /\ RoundRuns(r, seed, k, reps) \in Seq(S)
    BY <1>9 DEF P
  <1>11. S = RunsFor(r, seed, k, reps)
    BY DEF S, run, RunsFor
  <1> QED BY <1>10, <1>11

\* So is the plan, which is its rounds joined (schedule.plan).
LEMMA PlanUnbroken ==
  ASSUME NEW l \in Seq(Int), NEW k \in Nat, NEW reps \in Nat
  PROVE  Unbroken(TimedPlan(l, k, reps))
  <1> DEFINE N == Len(l)
             ss == [i \in 1 .. N |-> RoundRuns(i - 1, l[(i - 1) + 1], k, reps)]
             T(i) == RunsFor(i - 1, l[(i - 1) + 1], k, reps)
             S == UNION {T(i) : i \in 1 .. N}
             P == {q \in Seq(S) : Unbroken(q)}
  <1>1. TimedPlan(l, k, reps) = FlattenSeq(ss)
    BY Zenon DEF TimedPlan, RoundRuns
  <1>2. N \in Nat
    OBVIOUS
  <1>3. ASSUME NEW i \in 1 .. N PROVE RoundRuns(i - 1, l[(i - 1) + 1], k, reps) \in P
    <2> DEFINE q == RoundRuns(i - 1, l[(i - 1) + 1], k, reps)
    <2>1. Unbroken(q) /\ q \in Seq(T(i))
      BY RoundUnbroken
    <2> HIDE DEF q, T, N
    <2>2. T(i) \subseteq S
      BY <1>3
    <2> HIDE DEF S
    <2>3. q \in Seq(S)
      BY <2>1, <2>2
    <2>4. q \in P
      BY <2>1, <2>3
    <2> QED BY <2>4 DEF q
  <1> HIDE DEF N, S, T
  <1>4. ss \in Seq(P)
    <2> HIDE DEF P
    <2>1. ss \in [1 .. N -> P]
      BY <1>3
    <2> QED BY <2>1, <1>2
  <1>5. P \in SUBSET Seq(S) /\ <<>> \in P
    <2>1. Unbroken(<<>>)
      BY DEF Unbroken
    <2> QED BY <2>1
  <1>6. ASSUME NEW p \in P, NEW q \in P PROVE p \o q \in P
    <2>1. p \in Seq(S) /\ q \in Seq(S) /\ Unbroken(p) /\ Unbroken(q)
      OBVIOUS
    <2>2. Unbroken(p \o q) /\ p \o q \in Seq(S)
      BY <2>1, UnbrokenJoin
    <2> QED BY <2>2
  <1> HIDE DEF ss, P
  <1>7. FlattenSeq(ss) \in P
    BY <1>4, <1>5, <1>6, FlattenKeeps
  <1>8. TimedPlan(l, k, reps) \in P
    BY <1>1, <1>7
  <1> QED BY <1>8 DEF P

\* A log of whole rows without a break.
Steady(log) == Garbled \notin Range(log) /\ Unbroken(RunsIn(log))

SteadyInv ==
  /\ Steady(slog)
  /\ pc \in {"trimming", "dropping"} => Steady(keep)
  /\ pc = "timed" => Unbroken(RunsIn(slog) \o todo)

\* Nor has what is left of a log that is cut.
LEMMA CutSteady ==
  ASSUME NEW s, IsLog(s), Steady(s), NEW t, IsCut(t, s)
  PROVE  Steady(t)
  <1> DEFINE p == RunsIn(t)
             q == RunsIn(s)
             m == Len(t)
  <1>1. /\ m \in Nat /\ DOMAIN t = 1 .. m /\ \A i \in DOMAIN t : i \in DOMAIN s /\ t[i] = s[i]
        /\ Range(t) \subseteq Range(s)
    <2>1. Len(s) \in Nat
      BY DEF IsLog
    <2> QED BY <2>1, CutElements
  <1>2. /\ DOMAIN p = 1 .. m /\ \A i \in 1 .. m : i \in DOMAIN q /\ p[i] = q[i]
        /\ Unbroken(q)
    BY <1>1 DEF RunsIn, Steady
  <1> HIDE DEF p, q, m
  <1>3. ASSUME NEW i \in DOMAIN p, p[i].pos # 1
        PROVE  /\ i # 1 /\ p[i - 1].round = p[i].round /\ p[i - 1].rep = p[i].rep
               /\ p[i - 1].pos = p[i].pos - 1
    <2>1. i # 1 /\ q[i - 1].round = q[i].round /\ q[i - 1].rep = q[i].rep /\ q[i - 1].pos = q[i].pos - 1
      BY <1>2, <1>3 DEF Unbroken
    <2>2. i - 1 \in 1 .. m
      BY <1>1, <1>2, <2>1
    <2>3. p[i - 1] = q[i - 1] /\ p[i] = q[i]
      BY <1>2, <2>2
    <2> QED BY <2>1, <2>3
  <1>4. Unbroken(p)
    BY <1>3 DEF Unbroken
  <1> QED BY <1>1, <1>4 DEF Steady, p

\* The rows kept are of finished rounds, each without a break
\* (ab_timed.split_rounds).
LEMMA KeptSteady ==
  ASSUME SamplesInv, OrderInv, SplitRounds, pc' # "leaving"
  PROVE  Steady(keep')
  <1> DEFINE S == Range(slog)
             rows(i) == RowsOf(slog, i - 1)
             kept == [i \in DOMAIN seeds |-> IF Kept(i - 1) THEN rows(i) ELSE <<>>]
             P == {q \in Seq(S) : Steady(q)}
  <1>1. IsLog(slog) /\ slog \in Seq(S)
    BY DEF SamplesInv, RowsInRange, IsLog
  <1>2. /\ seeds \in Seq(Int) /\ Len(seeds) \in Nat /\ DOMAIN seeds = 1 .. Len(seeds)
        /\ meta # None /\ meta.seeds = seeds /\ K \in Nat \ {0} /\ Reps \in Nat \ {0}
    <2>1. seeds \in SeedLists /\ meta # None /\ meta.seeds = seeds
      BY DEF SamplesInv, MetaOk, SplitRounds, InPhase, Going
    <2>2. seeds \in Seq(Int)
      BY <2>1, SessionAssumption
    <2> QED BY <2>1, <2>2, SessionAssumption DEF K
  <1>3. keep' = FlattenSeq(kept)
    BY Zenon DEF SplitRounds
  <1>4. <<>> \in P /\ P \in SUBSET Seq(S)
    <2>1. Range(<<>>) = {} /\ RunsIn(<<>>) = <<>> /\ Unbroken(<<>>)
      BY DEF Range, RunsIn, Unbroken
    <2>2. Steady(<<>>)
      BY <2>1 DEF Steady
    <2> QED BY <2>2
  <1>5. ASSUME NEW i \in DOMAIN seeds, Kept(i - 1) PROVE rows(i) \in P
    <2> DEFINE r == i - 1
    <2>1. r \in Rounds(seeds)
      BY <1>2 DEF Rounds
    <2>2. FinishedIn(slog, r)
      BY <1>5 DEF Kept
    <2> DEFINE q == RowsOf(slog, r)
    <2> HIDE DEF r
    <2>3. RunsIn(q) = RoundRuns(r, seeds[r + 1], K, Reps)
      BY <1>2, <2>1, <2>2 DEF OrderInv, InOrder
    <2>4. Unbroken(RoundRuns(r, seeds[r + 1], K, Reps))
      BY <1>2, RoundUnbroken
    <2>5. q \in Seq(S) /\ Range(q) = {slog[j] : j \in RowsAt(slog, r)}
      BY <1>1, RowsAreLog
    <2>6. Garbled \notin Range(q)
      BY <2>5 DEF RowsAt
    <2>7. q \in P
      BY <2>3, <2>4, <2>5, <2>6 DEF Steady
    <2> QED BY <2>7 DEF r
  <1> HIDE DEF rows
  <1>6. kept \in Seq(P)
    <2> HIDE DEF P, Kept
    <2>1. kept \in [1 .. Len(seeds) -> P]
      BY <1>2, <1>4, <1>5
    <2> QED BY <2>1, <1>2
  <1>7. ASSUME NEW p \in P, NEW q \in P PROVE p \o q \in P
    <2>1. p \in Seq(S) /\ q \in Seq(S) /\ Steady(p) /\ Steady(q)
      OBVIOUS
    <2> HIDE DEF S
    <2> DEFINE R == {x.run : x \in S}
               a == RunsIn(p)
               b == RunsIn(q)
    <2>2. a \in Seq(R) /\ b \in Seq(R) /\ RunsIn(p \o q) = a \o b
      BY <2>1, RunsJoin
    <2>3. Unbroken(a) /\ Unbroken(b)
      BY <2>1 DEF Steady
    <2> HIDE DEF R, a, b
    <2>4. Unbroken(a \o b)
      BY <2>2, <2>3, UnbrokenJoin
    <2>5. p \o q \in Seq(S) /\ Range(p \o q) = Range(p) \cup Range(q)
      BY <2>1, JoinElements
    <2>6. Steady(p \o q)
      BY <2>1, <2>2, <2>4, <2>5 DEF Steady
    <2> QED BY <2>5, <2>6
  <1> HIDE DEF kept, P, S
  <1>8. FlattenSeq(kept) \in P
    BY <1>4, <1>6, <1>7, FlattenKeeps
  <1> QED BY <1>3, <1>8 DEF P

\* The runs ahead are whole rounds, and follow what the log has
\* (ab_timed.Timed.run).
LEMMA AheadSteady ==
  ASSUME SamplesInv, SteadyInv, HaveReference
  PROVE  Unbroken(RunsIn(slog) \o todo')
  <1> DEFINE runs == TimedPlan(seeds, K, Reps)
             at == {i \in DOMAIN runs : ~FinishedIn(slog, runs[i].round)}
             S == Range(runs)
             C == {x \in S : ~FinishedIn(slog, x.round)}
             R == {x.run : x \in Range(slog)}
             T == R \cup S
             a == RunsIn(slog)
             left == On(runs, C)
  <1>1. seeds \in Seq(Int) /\ K \in Nat \ {0} /\ Reps \in Nat
    <2>1. seeds \in SeedLists
      BY DEF SamplesInv, MetaOk, HaveReference, InPhase, Going
    <2> QED BY <2>1, SessionAssumption DEF K
  <1>2. todo' = Sift(runs, at)
    BY DEF HaveReference
  <1>3. runs \in Seq(S) /\ Unbroken(runs)
    BY <1>1, TimedPlanHolds, PlanUnbroken DEF PlanHolds, IsLog
  <1>4. a \in Seq(R) /\ Unbroken(a)
    <2>1. slog \in Seq(Range(slog))
      BY DEF SamplesInv, RowsInRange, IsLog
    <2>2. a \in Seq(R)
      BY <2>1, RunsJoin
    <2> QED BY <2>2 DEF SteadyInv, Steady
  <1> HIDE DEF runs, a, R
  <1>5. todo' = left
    <2>1. at = {i \in DOMAIN runs : runs[i] \in C}
      BY DEF Range
    <2> QED BY <1>2, <2>1, Zenon DEF On
  <1>6. \A x, y \in S : x.round = y.round => (x \in C <=> y \in C)
    OBVIOUS
  <1> HIDE DEF S, C, at
  <1>7. Unbroken(On(runs, C))
    BY <1>3, <1>6, UnbrokenOn
  <1>8. On(runs, C) \in Seq(S)
    BY <1>3, OnElements
  <1> HIDE DEF left
  <1>9. left \in Seq(T) /\ Unbroken(left) /\ a \in Seq(T)
    BY <1>4, <1>7, <1>8 DEF left
  <1> HIDE DEF T
  <1>10. Unbroken(a \o left)
    BY <1>4, <1>9, UnbrokenJoin
  <1> QED BY <1>5, <1>10 DEF a

\* A run taken leaves the log and the runs ahead as they follow each other.
LEMMA TimedSteady ==
  ASSUME SamplesInv, SteadyInv, Timed
  PROVE  /\ Steady(slog')
         /\ Unbroken(RunsIn(slog') \o todo')
  <1> DEFINE h == Head(todo)
             row == [run |-> h, ok |-> OutputOk(h), session |-> session]
             rest == Tail(todo)
             S == Range(slog) \cup {row}
             R == {x.run : x \in S} \cup Range(todo)
             a == RunsIn(slog)
  <1>1. pc = "timed" /\ todo # <<>> /\ todo' = rest
    BY DEF Timed, InPhase, Going
  <1>2. slog' = Append(slog, row)
    BY <1>1 DEF Timed, Append1, SamplesInv, Splitting
  <1>3. row # Garbled /\ row.run = h
    <2>1. DOMAIN row = {"run", "ok", "session"} /\ DOMAIN Garbled = {"garbled"}
      BY DEF Garbled
    <2>2. "run" \notin {"garbled"}
      OBVIOUS
    <2>3. row # Garbled
      BY <2>1, <2>2
    <2> QED BY <2>3
  <1>4. slog \in Seq(Range(slog)) /\ todo \in Seq(Range(todo))
    BY <1>1 DEF SamplesInv, RowsInRange, IsLog
  <1>5. h \in R /\ rest \in Seq(R) /\ todo = <<h>> \o rest
    <2>1. h \in Range(todo)
      BY <1>1, <1>4 DEF Range
    <2>2. rest \in Seq(Range(todo))
      BY <1>1, <1>4
    <2>3. todo = <<h>> \o rest
      BY <1>1, <1>4
    <2> HIDE DEF h, rest
    <2> QED BY <2>1, <2>2, <2>3
  <1> HIDE DEF row, rest, h
  <1>6. slog \in Seq(S) /\ <<row>> \in Seq(S)
    BY <1>4
  <1>7. slog' = slog \o <<row>> /\ Range(slog') = Range(slog) \cup {row}
    <2>1. Append(slog, row) = slog \o <<row>>
      BY <1>6
    <2>2. row \in S
      OBVIOUS
    <2> HIDE DEF S
    <2>3. Range(Append(slog, row)) = Range(slog) \cup {row}
      BY <1>6, <2>2, AppendElements
    <2> QED BY <1>2, <2>1, <2>3
  <1>8. RunsIn(<<row>>) = <<h>>
    BY <1>3 DEF RunsIn
  <1> DEFINE Q == {x.run : x \in S}
  <1>9. RunsIn(slog \o <<row>>) = a \o RunsIn(<<row>>) /\ a \in Seq(Q)
    <2> HIDE DEF S
    <2>1. \A p, q \in Seq(S) : /\ RunsIn(p) \in Seq({x.run : x \in S})
                               /\ RunsIn(p \o q) = RunsIn(p) \o RunsIn(q)
      BY RunsJoin
    <2> QED BY <1>6, <2>1
  <1>10. a \in Seq(R) /\ <<h>> \in Seq(R)
    <2>1. Q \subseteq R
      OBVIOUS
    <2>2. <<h>> \in Seq(R)
      BY <1>5
    <2> HIDE DEF R, Q, a
    <2> QED BY <1>9, <2>1, <2>2
  <1> DEFINE b == a \o <<h>>
  <1>11. RunsIn(slog') = b
    BY <1>7, <1>8, <1>9
  <1> HIDE DEF R, S, Q, a
  <1>12. b \in Seq(R) /\ b \o rest = a \o (<<h>> \o rest)
    BY <1>5, <1>10, ConcatProperties, ConcatAssociative
  <1>13. Unbroken(b \o rest)
    <2>1. Unbroken(a \o todo)
      BY <1>1 DEF SteadyInv, a
    <2> HIDE DEF b
    <2> QED BY <2>1, <1>5, <1>12
  <1> HIDE DEF b
  <1>14. Unbroken(b)
    BY <1>5, <1>12, <1>13, UnbrokenJoin
  <1>15. Garbled \notin Range(slog')
    BY <1>3, <1>7 DEF SteadyInv, Steady
  <1> QED BY <1>1, <1>11, <1>13, <1>14, <1>15 DEF Steady

\* No step breaks the log.
LEMMA NextSteady ==
  ASSUME SamplesInv, OrderInv, SteadyInv, [Next]_vars
  PROVE  SteadyInv'
  <1>1. ASSUME UNCHANGED <<slog, pc, todo, keep>> PROVE SteadyInv'
    BY <1>1 DEF SteadyInv, Steady
  <1>2. ASSUME slog' = slog, pc' \notin {"trimming", "dropping", "timed"} PROVE SteadyInv'
    BY <1>2 DEF SteadyInv, Steady
  <1>3. ASSUME NEW b \in AllBuilds, Claim(b) \/ Spawn(b) \/ Built(b) \/ Terminate(b) PROVE SteadyInv'
    BY <1>3, <1>1 DEF Claim, Spawn, Built, Terminate, disk
  <1>4. ASSUME NEW b \in AllBuilds, Record(b) \/ LinkBuild(b) \/ Raised(b) PROVE SteadyInv'
    <2>1. pc' \in {"building", "stopping"} /\ slog' = slog
      BY <1>4 DEF Record, LinkBuild, Raised, Recorded, InPhase, Going, disk
    <2> QED BY <2>1, <1>2
  <1>5. CASE Open \/ ReadBuilds \/ RewriteBuilds \/ OpenReference \/ Finished \/ Stopped
    <2>1. /\ slog' = slog
          /\ pc' \in {"opening", "building", "splitting", "stopping", "leaving", "writing"}
      BY <1>5 DEF Open, ReadBuilds, RewriteBuilds, OpenReference, Finished, Stopped, InPhase, Going, disk
    <2> QED BY <2>1, <1>2
  <1>6. CASE SplitRounds
    <2>1. slog' = slog /\ pc' \in {"trimming", "leaving"}
      BY <1>6 DEF SplitRounds
    <2>2. pc' # "leaving" => Steady(keep')
      BY <1>6, KeptSteady
    <2> QED BY <2>1, <2>2 DEF SteadyInv, Steady
  <1>16. CASE OpenDropped
    <2>1. UNCHANGED <<slog, keep>> /\ pc = "trimming" /\ pc' \in {"reference", "dropping", "leaving"}
      BY <1>16 DEF OpenDropped, InPhase, Going
    <2> QED BY <2>1 DEF SteadyInv, Steady
  <1>7. CASE DropRow
    <2>1. UNCHANGED <<slog, keep, pc>> /\ pc = "dropping"
      BY <1>7 DEF DropRow, InPhase, Going
    <2> QED BY <2>1 DEF SteadyInv, Steady
  <1>8. CASE RewriteSamples
    <2>1. slog' = keep /\ pc = "dropping" /\ pc' = "reference"
      BY <1>8 DEF RewriteSamples, InPhase, Going
    <2> QED BY <2>1 DEF SteadyInv, Steady
  <1>9. CASE HaveReference
    <2>1. slog' = slog /\ pc' = "timed"
      BY <1>9 DEF HaveReference
    <2>2. Unbroken(RunsIn(slog) \o todo')
      BY <1>9, AheadSteady
    <2> QED BY <2>1, <2>2 DEF SteadyInv, Steady
  <1>10. CASE Timed
    <2>1. pc' \in {"timed", "leaving"}
      BY <1>10 DEF Timed
    <2>2. Steady(slog') /\ Unbroken(RunsIn(slog') \o todo')
      BY <1>10, TimedSteady
    <2> QED BY <2>1, <2>2 DEF SteadyInv, Steady
  <1>11. CASE Empty \/ Interrupt
    BY <1>11, <1>1 DEF Empty, Interrupt, driver, disk
  <1>12. CASE Leave
    BY <1>12, <1>2 DEF Leave, Gone
  <1>17. CASE Interrupted \/ Crash
    <2>1. pc' \in {"idle", "stopping", "leaving"}
      BY <1>17 DEF Interrupted, Crash, Gone
    <2>2. IsLog(slog) /\ IsCut(slog', slog)
      <3>1. \E took : Cutting(took)
        BY <1>17, CutLogs DEF SamplesInv, RowsInRange
      <3> QED BY <3>1 DEF Cutting, SamplesInv, RowsInRange
    <2>3. Steady(slog')
      BY <2>2, CutSteady DEF SteadyInv
    <2> QED BY <2>1, <2>3 DEF SteadyInv
  <1>13. ASSUME NEW l \in SeedLists, Run(l) \/ Resume(l) PROVE SteadyInv'
    <2>1. slog' = slog /\ pc' = "opened"
      BY <1>13 DEF Run, Resume, Begin
    <2> QED BY <2>1, <1>2
  <1>14. CASE UNCHANGED vars
    BY <1>14, <1>1 DEF vars, driver, disk
  <1>15. CASE Next
    BY <1>15, <1>3, <1>4, <1>5, <1>6, <1>7, <1>8, <1>9, <1>10, <1>11, <1>12, <1>13,
       <1>16, <1>17 DEF Next, Step, Start
  <1> QED BY <1>14, <1>15

\* It starts empty.
LEMMA InitSteady ==
  Init => SteadyInv
  <1> SUFFICES ASSUME Init PROVE SteadyInv
    OBVIOUS
  <1>1. slog = <<>> /\ pc = "idle"
    BY DEF Init, Idle
  <1>2. Range(<<>>) = {} /\ RunsIn(<<>>) = <<>> /\ Unbroken(<<>>)
    BY DEF Range, RunsIn, Unbroken
  <1>3. Steady(slog)
    BY <1>1, <1>2 DEF Steady
  <1> QED BY <1>1, <1>3 DEF SteadyInv

\* A round has its runs and no other.
LEMMA RoundRange ==
  ASSUME NEW r, NEW seed, NEW k \in Nat, NEW reps \in Nat
  PROVE  Range(RoundRuns(r, seed, k, reps)) = RunsFor(r, seed, k, reps)
  <1> DEFINE run(rep, pos) == [round |-> r, seed |-> seed, rep |-> rep, pos |-> pos,
                               arm |-> RoundOrders(r, k, reps)[rep][pos]]
             S == {run(rep, pos) : rep \in 1 .. reps, pos \in 1 .. k}
             order(rep) == [pos \in 1 .. k |-> run(rep, pos)]
             ss == [rep \in 1 .. reps |-> order(rep)]
  <1>1. RoundRuns(r, seed, k, reps) = FlattenSeq(ss)
    BY Zenon DEF RoundRuns
  <1>2. \A rep \in 1 .. reps : DOMAIN order(rep) = 1 .. k /\ \A pos \in 1 .. k : order(rep)[pos] = run(rep, pos)
    OBVIOUS
  <1>3. \A rep \in 1 .. reps : order(rep) \in Seq(S)
    <2> SUFFICES ASSUME NEW rep \in 1 .. reps PROVE order(rep) \in Seq(S)
      OBVIOUS
    <2>1. \A pos \in 1 .. k : run(rep, pos) \in S
      OBVIOUS
    <2> HIDE DEF S, run
    <2>2. order(rep) \in [1 .. k -> S]
      BY <2>1
    <2> QED BY <2>2
  <1>4. S = RunsFor(r, seed, k, reps)
    BY DEF RunsFor
  <1>5. \A x : x \in S <=> \E rep \in 1 .. reps : \E pos \in 1 .. k : x = run(rep, pos)
    OBVIOUS
  <1> HIDE DEF run, S, order
  <1>6. ss \in Seq(Seq(S)) /\ DOMAIN ss = 1 .. reps /\ \A rep \in 1 .. reps : ss[rep] = order(rep)
    <2>1. ss \in [1 .. reps -> Seq(S)]
      BY <1>3
    <2> QED BY <2>1
  <1> HIDE DEF ss
  <1>7. Range(FlattenSeq(ss)) = UNION {Range(ss[i]) : i \in DOMAIN ss}
    BY <1>6, FlattenElements
  <1>8. ASSUME NEW x PROVE x \in S <=> \E i \in DOMAIN ss : x \in Range(ss[i])
    <2>1. \A i \in 1 .. reps : x \in Range(ss[i]) <=> \E pos \in 1 .. k : x = run(i, pos)
      BY <1>2, <1>6 DEF Range
    <2> QED BY <2>1, <1>5, <1>6
  <1>9. UNION {Range(ss[i]) : i \in DOMAIN ss} = S
    BY <1>8
  <1> QED BY <1>1, <1>4, <1>7, <1>9

\* A log that has each run of N rounds once.
HoldsRounds(log, N) ==
  /\ \A j \in DOMAIN log :
       /\ log[j].run.round \in 0 .. N - 1 /\ log[j].run.rep \in 1 .. Reps /\ log[j].run.pos \in 1 .. K
       /\ log[j].run.arm = RoundOrders(log[j].run.round, K, Reps)[log[j].run.rep][log[j].run.pos]
  /\ \A i, j \in DOMAIN log :
       /\ log[i].run.round = log[j].run.round /\ log[i].run.rep = log[j].run.rep
       /\ log[i].run.pos = log[j].run.pos
       => i = j
  /\ \A r \in 0 .. N - 1, rep \in 1 .. Reps, pos \in 1 .. K :
       \E j \in DOMAIN log : log[j].run.round = r /\ log[j].run.rep = rep /\ log[j].run.pos = pos

\* It does when a session reports success.
LEMMA DoneHolds ==
  ASSUME SamplesInv, PromiseInv, OrderInv, SteadyInv, why = "done"
  PROVE  HoldsRounds(slog, Len(seeds)) /\ seeds \in Seq(Int) /\ IsLog(slog)
  <1> DEFINE N == Len(seeds)
  <1>1. /\ meta # None /\ meta.seeds = seeds /\ seeds \in SeedLists /\ IsLog(slog)
        /\ \A r \in Rounds(seeds) : FinishedIn(slog, r)
    <2>1. None # "done"
      BY SessionAssumption DEF Outcomes
    <2> QED BY <2>1 DEF SamplesInv, MetaOk, RowsInRange, PromiseInv, OrderInv
  <1>2. seeds \in Seq(Int) /\ K \in Nat \ {0} /\ Reps \in Nat \ {0} /\ N \in Nat /\ K \in Nat /\ Reps \in Nat
    BY <1>1, SessionAssumption DEF K
  <1>3. Rounds(seeds) = 0 .. N - 1
    BY DEF Rounds
  <1> HIDE DEF N
  <1>4. ASSUME NEW r \in Rounds(seeds)
        PROVE  /\ RowsGood(slog, r)
               /\ {slog[j].run : j \in RowsAt(slog, r)} = RunsFor(r, seeds[r + 1], K, Reps)
    <2> DEFINE rows == RowsOf(slog, r)
               seed == seeds[r + 1]
    <2>1. RowsGood(slog, r)
      BY <1>1, FinishedIsWhole DEF Whole
    <2>2. RunsIn(rows) = RoundRuns(r, seed, K, Reps)
      BY <1>1 DEF OrderInv, InOrder
    <2>3. Range(rows) = {slog[j] : j \in RowsAt(slog, r)}
      BY <1>1, RowsAreLog
    <2> HIDE DEF rows, seed
    <2>4. Range(RoundRuns(r, seed, K, Reps)) = RunsFor(r, seed, K, Reps)
      BY <1>2, RoundRange
    <2>5. Range(RunsIn(rows)) = {x.run : x \in Range(rows)}
      BY DEF RunsIn, Range
    <2>6. {x.run : x \in Range(rows)} = {slog[j].run : j \in RowsAt(slog, r)}
      BY <2>3
    <2> QED BY <2>1, <2>2, <2>4, <2>5, <2>6 DEF seed
  <1>5. ASSUME NEW r, NEW rep \in 1 .. Reps, NEW pos \in 1 .. K, NEW seed
        PROVE  [round |-> r, seed |-> seed, rep |-> rep, pos |-> pos,
                arm |-> RoundOrders(r, K, Reps)[rep][pos]] \in RunsFor(r, seed, K, Reps)
    BY DEF RunsFor
  <1>6. ASSUME NEW r, NEW seed, NEW x \in RunsFor(r, seed, K, Reps)
        PROVE  /\ x.round = r /\ x.rep \in 1 .. Reps /\ x.pos \in 1 .. K
               /\ x.arm = RoundOrders(r, K, Reps)[x.rep][x.pos]
    BY DEF RunsFor
  <1>7. ASSUME NEW j \in DOMAIN slog
        PROVE  /\ slog[j].run.round \in Rounds(seeds) /\ j \in RowsAt(slog, slog[j].run.round)
    <2>1. slog[j] # Garbled
      BY DEF SteadyInv, Steady, Range
    <2>2. slog[j] \in Samples(slog)
      BY <2>1 DEF Samples
    <2> QED BY <1>1, <2>1, <2>2 DEF SamplesInv, RowsInRange, RowsAt
  <1>8. ASSUME NEW j \in DOMAIN slog
        PROVE  slog[j].run \in RunsFor(slog[j].run.round, seeds[slog[j].run.round + 1], K, Reps)
    <2> DEFINE r == slog[j].run.round
    <2>1. r \in Rounds(seeds) /\ j \in RowsAt(slog, r)
      BY <1>7
    <2>2. slog[j].run \in {slog[i].run : i \in RowsAt(slog, r)}
      BY <2>1
    <2> HIDE DEF r
    <2>3. slog[j].run \in RunsFor(r, seeds[r + 1], K, Reps)
      BY <1>4, <2>1, <2>2
    <2> QED BY <2>3 DEF r
  <1>9. ASSUME NEW j \in DOMAIN slog
        PROVE  /\ slog[j].run.rep \in 1 .. Reps /\ slog[j].run.pos \in 1 .. K
               /\ slog[j].run.arm = RoundOrders(slog[j].run.round, K, Reps)[slog[j].run.rep][slog[j].run.pos]
    <2> DEFINE x == slog[j].run
               r == x.round
               seed == seeds[r + 1]
    <2>1. x \in RunsFor(r, seed, K, Reps)
      BY <1>8
    <2> HIDE DEF x, r, seed
    <2>2. x.rep \in 1 .. Reps /\ x.pos \in 1 .. K /\ x.arm = RoundOrders(r, K, Reps)[x.rep][x.pos]
      BY <1>6, <2>1
    <2> QED BY <2>2 DEF x, r
  <1>10. ASSUME NEW i \in DOMAIN slog, NEW j \in DOMAIN slog,
                slog[i].run.round = slog[j].run.round, slog[i].run.rep = slog[j].run.rep,
                slog[i].run.pos = slog[j].run.pos
         PROVE  i = j
    <2> DEFINE r == slog[i].run.round
    <2>1. r \in Rounds(seeds) /\ i \in RowsAt(slog, r) /\ j \in RowsAt(slog, r)
      BY <1>7, <1>10
    <2>2. slog[i].run.arm = slog[j].run.arm
      BY <1>9, <1>10
    <2> HIDE DEF r
    <2>3. RowsGood(slog, r)
      BY <1>4, <2>1
    <2> QED BY <1>10, <2>1, <2>2, <2>3 DEF RowsGood
  <1>11. ASSUME NEW r \in Rounds(seeds), NEW rep \in 1 .. Reps, NEW pos \in 1 .. K
         PROVE  \E j \in DOMAIN slog : slog[j].run.round = r /\ slog[j].run.rep = rep /\ slog[j].run.pos = pos
    <2> DEFINE x == [round |-> r, seed |-> seeds[r + 1], rep |-> rep, pos |-> pos,
                     arm |-> RoundOrders(r, K, Reps)[rep][pos]]
    <2>1. x.round = r /\ x.rep = rep /\ x.pos = pos
      OBVIOUS
    <2>2. x \in RunsFor(r, seeds[r + 1], K, Reps)
      BY <1>5
    <2> HIDE DEF x
    <2>3. PICK j \in RowsAt(slog, r) : slog[j].run = x
      BY <1>4, <2>2
    <2> QED BY <2>1, <2>3 DEF RowsAt
  <1>12. HoldsRounds(slog, N)
    BY <1>3, <1>7, <1>9, <1>10, <1>11 DEF HoldsRounds
  <1> QED BY <1>1, <1>2, <1>12 DEF N

\* Rounds by cycle and row.
LEMMA CycleAndRow ==
  ASSUME NEW n \in Nat \ {0}, NEW Q \in Nat
  PROVE  /\ \A r \in 0 .. Q * n - 1 :
              r \div n \in 0 .. Q - 1 /\ r % n \in 0 .. n - 1 /\ r = n * (r \div n) + (r % n)
         /\ \A c \in 0 .. Q - 1, m \in 0 .. n - 1 :
              c * n + m \in 0 .. Q * n - 1 /\ (c * n + m) \div n = c /\ (c * n + m) % n = m
  <1>1. ASSUME NEW x \in Nat
        PROVE  x \div n \in Nat /\ x % n \in 0 .. n - 1 /\ x = n * (x \div n) + (x % n)
    OBVIOUS
  <1>2. ASSUME NEW d \in Int, d >= 1 PROVE n * d >= n
    BY <1>2
  <1>3. ASSUME NEW r \in 0 .. Q * n - 1 PROVE r \div n \in 0 .. Q - 1
    <2> DEFINE q == r \div n
    <2>1. r \in Nat /\ r < Q * n
      OBVIOUS
    <2>2. q \in Nat /\ r % n \in 0 .. n - 1 /\ r = n * q + (r % n)
      BY <1>1, <2>1
    <2> HIDE DEF q
    <2>3. ASSUME q >= Q PROVE FALSE
      <3>1. n * (q - Q) >= 0
        BY <2>2, <2>3
      <3>2. n * (q - Q) = n * q - n * Q /\ n * Q = Q * n
        BY <2>2
      <3> QED BY <2>1, <2>2, <3>1, <3>2
    <2> QED BY <2>2, <2>3 DEF q
  <1>4. ASSUME NEW c \in 0 .. Q - 1, NEW m \in 0 .. n - 1
        PROVE  c * n + m \in 0 .. Q * n - 1 /\ (c * n + m) \div n = c /\ (c * n + m) % n = m
    <2> DEFINE x == c * n + m
               q == x \div n
               t == x % n
    <2>1. c * n \in Nat /\ x \in Nat
      OBVIOUS
    <2>2. q \in Nat /\ t \in 0 .. n - 1 /\ x = n * q + t
      BY <1>1, <2>1
    <2>3. x = n * c + m
      OBVIOUS
    <2>4. x < Q * n
      <3>1. n * (Q - c) >= n
        BY <1>2
      <3>2. n * (Q - c) = Q * n - n * c
        OBVIOUS
      <3> HIDE DEF x
      <3> QED BY <2>1, <2>3, <3>1, <3>2
    <2> HIDE DEF q, t, x
    <2>5. n * (c - q) = t - m /\ n * (q - c) = m - t
      BY <2>2, <2>3
    <2>6. ~(c - q >= 1) /\ ~(q - c >= 1)
      BY <1>2, <2>2, <2>5
    <2>7. q = c
      BY <2>2, <2>6
    <2>8. t = m
      BY <2>2, <2>3, <2>7
    <2> QED BY <2>1, <2>4, <2>7, <2>8 DEF x, q, t
  <1>5. \A r \in 0 .. Q * n - 1 : r \in Nat
    OBVIOUS
  <1> QED BY <1>1, <1>3, <1>4, <1>5

\* An order of a round, by its row of the square.
LEMMA OrderAt ==
  ASSUME NEW r \in Nat, NEW k \in Nat \ {0}, NEW reps \in Nat, NEW rep \in 1 .. reps, NEW p \in 1 .. k,
         NEW i, i = (r % Cycle(k)) + 1
  PROVE  RoundOrders(r, k, reps)[rep][p]
           = IF rep % 2 = 1 THEN Williams(k)[i][p] ELSE Williams(k)[i][(k - p) + 1]
  <1> DEFINE w == Williams(k)[i]
  <1>1. \A m \in Nat : \A n \in 1 .. m :
          RoundOrders(r, k, m)[n] = IF n % 2 = 1 THEN w ELSE Reverse(w)
    BY DEF RoundOrders
  <1> HIDE DEF w
  <1>2. RoundOrders(r, k, 1)[1] = w
    BY <1>1
  <1>3. IsOrder(k, w)
    <2>1. 1 \in Nat /\ 1 \in 1 .. 1
      OBVIOUS
    <2>2. IsOrder(k, RoundOrders(r, k, 1)[1])
      BY <2>1, RoundOrdersAreOrders
    <2> QED BY <1>2, <2>2
  <1>4. w \in [1 .. k -> 0 .. k - 1]
    BY <1>3 DEF IsOrder
  <1>5. Len(w) = k
    BY <1>4
  <1>6. Reverse(w)[p] = w[(k - p) + 1]
    <2>1. Reverse(w) = [q \in 1 .. k |-> w[(k - q) + 1]]
      BY <1>5 DEF Reverse
    <2> QED BY <2>1
  <1>7. RoundOrders(r, k, reps)[rep] = IF rep % 2 = 1 THEN w ELSE Reverse(w)
    BY <1>1
  <1> QED BY <1>6, <1>7 DEF w

\* The orders of Q cycles of rounds, by cycle and replicate: those that read
\* their row forwards, and those that read it backwards.
Orders(Q) == (0 .. Q - 1) \X (1 .. Reps)
Forwards(Q) == {x \in Orders(Q) : x[2] % 2 = 1}
Backwards(Q) == {x \in Orders(Q) : x[2] % 2 # 1}
Spots(Q, H, G) == (Forwards(Q) \X H) \cup (Backwards(Q) \X G)

\* As many of each make as many.
LEMMA SpotsCount ==
  ASSUME NEW Q \in Nat, NEW H, IsFiniteSet(H), NEW G, IsFiniteSet(G), NEW n, Cardinality(H) = n, Cardinality(G) = n
  PROVE  /\ IsFiniteSet(Spots(Q, H, G))
         /\ Cardinality(Spots(Q, H, G)) = Cardinality(Forwards(Q)) * n + Cardinality(Backwards(Q)) * n
  <1> DEFINE A == Forwards(Q)
             B == Backwards(Q)
  <1>1. IsFiniteSet(A) /\ IsFiniteSet(B) /\ A \cap B = {}
    <2> DEFINE C == 0 .. Q - 1
               D == 1 .. Reps
    <2>1. IsFiniteSet(C) /\ IsFiniteSet(D)
      BY SessionAssumption, FS_Interval
    <2> HIDE DEF C, D
    <2>2. IsFiniteSet(C \X D)
      BY <2>1, FS_Product
    <2>3. IsFiniteSet(Orders(Q))
      BY <2>2 DEF Orders, C, D
    <2>4. A \in SUBSET Orders(Q) /\ B \in SUBSET Orders(Q) /\ A \cap B = {}
      BY DEF Forwards, Backwards
    <2> HIDE DEF A, B
    <2> QED BY <2>3, <2>4, FS_Subset
  <1> HIDE DEF A, B
  <1>2. /\ IsFiniteSet(A \X H) /\ Cardinality(A \X H) = Cardinality(A) * n
        /\ IsFiniteSet(B \X G) /\ Cardinality(B \X G) = Cardinality(B) * n
    BY <1>1, FS_Product
  <1> DEFINE X == A \X H
             Y == B \X G
  <1>3. X \cap Y = {}
    BY <1>1
  <1> HIDE DEF X, Y
  <1>4. /\ IsFiniteSet(X \cup Y)
        /\ Cardinality(X \cup Y) = Cardinality(X) + Cardinality(Y) - Cardinality(X \cap Y)
    BY <1>2, FS_Union DEF X, Y
  <1>5. Cardinality({}) = 0
    BY FS_EmptySet
  <1>6. Cardinality(X) \in Nat /\ Cardinality(Y) \in Nat
    BY <1>2, FS_CardinalityType DEF X, Y
  <1>7. Cardinality(X \cup Y) = Cardinality(X) + Cardinality(Y)
    <2> DEFINE x == Cardinality(X)
               y == Cardinality(Y)
    <2>1. Cardinality(X \cap Y) = 0
      BY <1>3, <1>5
    <2>2. Cardinality(X \cup Y) = x + y - Cardinality(X \cap Y) /\ x \in Nat /\ y \in Nat
      BY <1>4, <1>6
    <2> HIDE DEF x, y
    <2>3. Cardinality(X \cup Y) = x + y
      BY <2>1, <2>2
    <2> QED BY <2>3 DEF x, y
  <1>8. Spots(Q, H, G) = X \cup Y
    BY DEF Spots, X, Y, A, B
  <1> QED BY <1>2, <1>4, <1>7, <1>8 DEF X, Y, A, B

\* A function that is onto, and takes no value twice, counts.
LEMMA CountBy ==
  ASSUME NEW S, NEW T, IsFiniteSet(T), NEW f, f \in [S -> T],
         \A x, y \in S : f[x] = f[y] => x = y, \A t \in T : \E x \in S : f[x] = t
  PROVE  Cardinality(S) = Cardinality(T)
  <1>1. f \in Injection(S, T)
    BY DEF Injection, IsInjective
  <1>2. f \in Surjection(S, T)
    BY DEF Surjection
  <1> QED BY <1>1, <1>2, FS_Injection

\* Where the log has arm a at position p, and where it has b right after a.
HoldersOf(log, a, p) == {i \in DOMAIN log : log[i].run.arm = a /\ log[i].run.pos = p}
FollowersOf(log, a, b) ==
  {i \in 2 .. Len(log) : log[i - 1].run.arm = a /\ log[i].run.arm = b /\ log[i].run.pos # 1}
ShareOf(Q) == Cardinality(Forwards(Q)) * (Cycle(K) \div K) + Cardinality(Backwards(Q)) * (Cycle(K) \div K)

\* The round, the cycle and the row of a row of the log.
LEMMA RowOfSample ==
  ASSUME NEW log, NEW Q \in Nat, HoldsRounds(log, Q * Cycle(K)), NEW j \in DOMAIN log
  PROVE  /\ K \in Nat \ {0} /\ Cycle(K) \in Nat \ {0} /\ DOMAIN Williams(K) = 1 .. Cycle(K)
         /\ log[j].run.rep \in 1 .. Reps /\ log[j].run.pos \in 1 .. K
         /\ log[j].run.round \div Cycle(K) \in 0 .. Q - 1
         /\ (log[j].run.round % Cycle(K)) + 1 \in 1 .. Cycle(K)
         /\ log[j].run.round = Cycle(K) * (log[j].run.round \div Cycle(K)) + (log[j].run.round % Cycle(K))
         /\ \A p \in 1 .. K :
              RoundOrders(log[j].run.round, K, Reps)[log[j].run.rep][p]
                = IF log[j].run.rep % 2 = 1
                  THEN Williams(K)[(log[j].run.round % Cycle(K)) + 1][p]
                  ELSE Williams(K)[(log[j].run.round % Cycle(K)) + 1][(K - p) + 1]
         /\ log[j].run.arm = RoundOrders(log[j].run.round, K, Reps)[log[j].run.rep][log[j].run.pos]
  <1> DEFINE x == log[j].run
             r == x.round
             rep == x.rep
             C == Cycle(K)
             i == (r % C) + 1
  <1>1. K \in Nat \ {0} /\ Reps \in Nat
    BY SessionAssumption DEF K
  <1>2. C \in Nat \ {0} /\ DOMAIN Williams(K) = 1 .. C
    <2>1. C \in Nat \ {0}
      BY <1>1 DEF Cycle
    <2> QED BY <1>1, <2>1, WilliamsRows
  <1>3. /\ r \in 0 .. Q * C - 1 /\ rep \in 1 .. Reps /\ x.pos \in 1 .. K
        /\ x.arm = RoundOrders(r, K, Reps)[rep][x.pos]
    BY DEF HoldsRounds
  <1> HIDE DEF x, r, rep, C
  <1>4. r \div C \in 0 .. Q - 1 /\ r % C \in 0 .. C - 1 /\ r = C * (r \div C) + (r % C)
    BY <1>2, <1>3, CycleAndRow
  <1>5. r \in Nat
    BY <1>3
  <1>6. i \in 1 .. C
    <2> DEFINE m == r % C
    <2>1. m \in 0 .. C - 1 /\ i = m + 1
      BY <1>4
    <2> HIDE DEF m, i
    <2> QED BY <1>2, <2>1
  <1>7. \A p \in 1 .. K :
          RoundOrders(r, K, Reps)[rep][p]
            = IF rep % 2 = 1 THEN Williams(K)[i][p] ELSE Williams(K)[i][(K - p) + 1]
    <2> SUFFICES ASSUME NEW p \in 1 .. K
                 PROVE  RoundOrders(r, K, Reps)[rep][p]
                          = IF rep % 2 = 1 THEN Williams(K)[i][p] ELSE Williams(K)[i][(K - p) + 1]
      OBVIOUS
    <2>1. i = (r % Cycle(K)) + 1
      BY DEF C
    <2> HIDE DEF i
    <2> QED BY <1>1, <1>3, <1>5, <2>1, OrderAt
  <1> QED BY <1>1, <1>2, <1>3, <1>4, <1>6, <1>7, Zenon DEF x, r, rep, C

\* Each arm is at a position as often as any other.
LEMMA HoldersCount ==
  ASSUME NEW log, NEW Q \in Nat, HoldsRounds(log, Q * Cycle(K)), NEW a \in Arms, NEW p \in 1 .. K
  PROVE  Cardinality(HoldersOf(log, a, p)) = ShareOf(Q)
  <1> DEFINE C == Cycle(K)
             w == Williams(K)
             q == (K - p) + 1
             H == HeldIn(K, a, p)
             G == HeldIn(K, a, q)
             T == Spots(Q, H, G)
             S == HoldersOf(log, a, p)
             spot(j) == <<<<log[j].run.round \div C, log[j].run.rep>>, (log[j].run.round % C) + 1>>
             f == [j \in S |-> spot(j)]
  <1>1. K \in Nat \ {0} /\ C \in Nat \ {0} /\ DOMAIN w = 1 .. C /\ q \in 1 .. K /\ a \in 0 .. K - 1
    <2>1. K \in Nat \ {0}
      BY SessionAssumption DEF K
    <2>2. C \in Nat \ {0}
      BY <2>1 DEF Cycle
    <2>3. q \in 1 .. K
      BY <2>1
    <2> QED BY <2>1, <2>2, <2>3, WilliamsRows DEF Arms
  <1>2. /\ H = {i \in 1 .. C : w[i][p] = a} /\ G = {i \in 1 .. C : w[i][q] = a}
    BY <1>1 DEF HeldIn
  <1>3. Cardinality(H) = C \div K /\ Cardinality(G) = C \div K
    <2> HIDE DEF q
    <2> QED BY <1>1, HoldsShare
  <1>4. IsFiniteSet(H) /\ IsFiniteSet(G)
    <2> HIDE DEF C, w, q
    <2>1. IsFiniteSet(1 .. C)
      BY <1>1, FS_Interval
    <2> DEFINE D == 1 .. C
    <2>2. H \in SUBSET D /\ G \in SUBSET D
      BY <1>2
    <2> HIDE DEF H, G, D
    <2>3. IsFiniteSet(D)
      BY <2>1 DEF D
    <2> QED BY <2>2, <2>3, FS_Subset
  <1>5. \A j \in DOMAIN log :
          /\ log[j].run.rep \in 1 .. Reps
          /\ log[j].run.round \div C \in 0 .. Q - 1 /\ (log[j].run.round % C) + 1 \in 1 .. C
          /\ log[j].run.round = C * (log[j].run.round \div C) + (log[j].run.round % C)
          /\ log[j].run.arm = RoundOrders(log[j].run.round, K, Reps)[log[j].run.rep][log[j].run.pos]
          /\ RoundOrders(log[j].run.round, K, Reps)[log[j].run.rep][p]
               = IF log[j].run.rep % 2 = 1
                 THEN w[(log[j].run.round % C) + 1][p] ELSE w[(log[j].run.round % C) + 1][q]
    BY RowOfSample
  <1>6. /\ \A i, j \in DOMAIN log :
             /\ log[i].run.round = log[j].run.round /\ log[i].run.rep = log[j].run.rep
             /\ log[i].run.pos = log[j].run.pos
             => i = j
        /\ \A r \in 0 .. Q * C - 1, rep \in 1 .. Reps, pos \in 1 .. K :
             \E j \in DOMAIN log : log[j].run.round = r /\ log[j].run.rep = rep /\ log[j].run.pos = pos
    BY DEF HoldsRounds
  <1>7. \A j \in S : j \in DOMAIN log /\ log[j].run.arm = a /\ log[j].run.pos = p
    BY DEF HoldersOf
  <1>8. \A j \in DOMAIN log : log[j].run.arm = a /\ log[j].run.pos = p => j \in S
    BY DEF HoldersOf
  <1> HIDE DEF C, w, q, H, G, S
  <1>9. \A j \in S : spot(j) \in T
    <2> SUFFICES ASSUME NEW j \in S PROVE spot(j) \in T
      OBVIOUS
    <2> DEFINE x == <<log[j].run.round \div C, log[j].run.rep>>
               i == (log[j].run.round % C) + 1
    <2>1. /\ log[j].run.rep \in 1 .. Reps /\ log[j].run.round \div C \in 0 .. Q - 1 /\ i \in 1 .. C
          /\ a = IF log[j].run.rep % 2 = 1 THEN w[i][p] ELSE w[i][q]
      BY <1>5, <1>7
    <2>2. x \in Orders(Q) /\ x[2] = log[j].run.rep
      BY <2>1 DEF Orders
    <2> HIDE DEF i
    <2>3. CASE log[j].run.rep % 2 = 1
      <3>1. i \in H
        BY <1>2, <2>1, <2>3
      <3>2. x \in Forwards(Q)
        BY <2>2, <2>3 DEF Forwards
      <3> HIDE DEF x
      <3>3. <<x, i>> \in T
        BY <3>1, <3>2 DEF Spots
      <3> QED BY <3>3 DEF x, i
    <2>4. CASE log[j].run.rep % 2 # 1
      <3>1. i \in G
        BY <1>2, <2>1, <2>4
      <3>2. x \in Backwards(Q)
        BY <2>2, <2>4 DEF Backwards
      <3> HIDE DEF x
      <3>3. <<x, i>> \in T
        BY <3>1, <3>2 DEF Spots
      <3> QED BY <3>3 DEF x, i
    <2> QED BY <2>3, <2>4
  <1>10. ASSUME NEW i \in S, NEW j \in S, spot(i) = spot(j) PROVE i = j
    <2>1. /\ log[i].run.round \div C = log[j].run.round \div C /\ log[i].run.rep = log[j].run.rep
          /\ (log[i].run.round % C) + 1 = (log[j].run.round % C) + 1
      BY <1>10
    <2> DEFINE x == log[i].run
               y == log[j].run
    <2>2. /\ (x.round % C) + 1 \in 1 .. C /\ (y.round % C) + 1 \in 1 .. C
          /\ x.round = C * (x.round \div C) + (x.round % C)
          /\ y.round = C * (y.round \div C) + (y.round % C)
      BY <1>5, <1>7
    <2> DEFINE u == x.round % C
               v == y.round % C
    <2>3. u = v
      <3>1. u \in Int /\ v \in Int
        <4>1. \A j1 \in DOMAIN log : log[j1].run.round \in 0 .. Q * C - 1
          BY DEF HoldsRounds, C
        <4>2. x.round \in Int /\ y.round \in Int
          BY <1>7, <4>1
        <4> HIDE DEF x, y
        <4> QED BY <4>2, <1>1
      <3>2. u + 1 = v + 1
        BY <2>1
      <3> HIDE DEF u, v
      <3> QED BY <3>1, <3>2
    <2>4. x.round = y.round
      BY <2>1, <2>2, <2>3
    <2> QED BY <1>6, <1>7, <2>1, <2>4
  <1>11. ASSUME NEW t \in T PROVE \E j \in S : spot(j) = t
    <2>1. \/ t \in Forwards(Q) \X H
          \/ t \in Backwards(Q) \X G
      BY DEF Spots
    <2> DEFINE c == t[1][1]
               rep == t[1][2]
               i == t[2]
    <2>2. /\ c \in 0 .. Q - 1 /\ rep \in 1 .. Reps /\ t = <<<<c, rep>>, i>> /\ i \in 1 .. C
          /\ a = IF rep % 2 = 1 THEN w[i][p] ELSE w[i][q]
      <3>1. CASE t \in Forwards(Q) \X H
        <4>1. t[1] \in Orders(Q) /\ rep % 2 = 1 /\ i \in H /\ t = <<t[1], t[2]>>
          BY <3>1 DEF Forwards
        <4>2. c \in 0 .. Q - 1 /\ rep \in 1 .. Reps /\ t[1] = <<c, rep>>
          BY <4>1 DEF Orders
        <4>3. i \in 1 .. C /\ w[i][p] = a
          BY <1>2, <4>1
        <4> HIDE DEF c, rep, i
        <4> QED BY <4>1, <4>2, <4>3 DEF i
      <3>2. CASE t \in Backwards(Q) \X G
        <4>1. t[1] \in Orders(Q) /\ rep % 2 # 1 /\ i \in G /\ t = <<t[1], t[2]>>
          BY <3>2 DEF Backwards
        <4>2. c \in 0 .. Q - 1 /\ rep \in 1 .. Reps /\ t[1] = <<c, rep>>
          BY <4>1 DEF Orders
        <4>3. i \in 1 .. C /\ w[i][q] = a
          BY <1>2, <4>1
        <4> HIDE DEF c, rep, i
        <4> QED BY <4>1, <4>2, <4>3 DEF i
      <3> QED BY <2>1, <3>1, <3>2
    <2> HIDE DEF c, rep, i
    <2> DEFINE m == i - 1
               r == c * C + m
    <2>3. m \in 0 .. C - 1 /\ m + 1 = i
      BY <1>1, <2>2
    <2> HIDE DEF m
    <2>4. r \in 0 .. Q * C - 1 /\ r \div C = c /\ r % C = m
      BY <1>1, <2>2, <2>3, CycleAndRow
    <2> HIDE DEF r
    <2>5. PICK j \in DOMAIN log : log[j].run.round = r /\ log[j].run.rep = rep /\ log[j].run.pos = p
      BY <1>6, <2>2, <2>4
    <2>6. spot(j) = t
      BY <2>2, <2>3, <2>4, <2>5
    <2>7. log[j].run.arm = a
      BY <1>5, <2>2, <2>3, <2>4, <2>5
    <2> QED BY <1>8, <2>5, <2>6, <2>7
  <1>12. IsFiniteSet(T) /\ Cardinality(T) = ShareOf(Q)
    <2> DEFINE n == C \div K
    <2> HIDE DEF n
    <2>1. Cardinality(H) = n /\ Cardinality(G) = n
      BY <1>3 DEF n
    <2>2. IsFiniteSet(T) /\ Cardinality(T) = Cardinality(Forwards(Q)) * n + Cardinality(Backwards(Q)) * n
      BY <1>4, <2>1, SpotsCount
    <2> QED BY <2>2 DEF ShareOf, n, C
  <1>13. f \in [S -> T] /\ (\A x, y \in S : f[x] = f[y] => x = y) /\ \A t \in T : \E x \in S : f[x] = t
    <2>1. \A j \in S : f[j] = spot(j)
      OBVIOUS
    <2>2. f \in [S -> T]
      <3> HIDE DEF spot, T
      <3> QED BY <1>9
    <2> HIDE DEF f, T, spot
    <2> QED BY <1>10, <1>11, <2>1, <2>2
  <1> HIDE DEF f, T
  <1>14. Cardinality(S) = Cardinality(T)
    BY <1>12, <1>13, CountBy
  <1> QED BY <1>12, <1>14 DEF S

\* Each arm comes right after another as often as any arm after any other.
LEMMA FollowersCount ==
  ASSUME NEW log, IsLog(log), Unbroken(RunsIn(log)), NEW Q \in Nat, HoldsRounds(log, Q * Cycle(K)),
         NEW a \in Arms, NEW b \in Arms, a # b
  PROVE  Cardinality(FollowersOf(log, a, b)) = ShareOf(Q)
  <1> DEFINE C == Cycle(K)
             w == Williams(K)
             L == 1 .. K - 1
             H == FollowedIn(K, a, b)
             G == FollowedIn(K, b, a)
             T == Spots(Q, H, G)
             S == FollowersOf(log, a, b)
             place(j) == IF log[j].run.rep % 2 = 1 THEN log[j].run.pos - 1 ELSE (K - log[j].run.pos) + 1
             spot(j) == <<<<log[j].run.round \div C, log[j].run.rep>>,
                          <<(log[j].run.round % C) + 1, place(j)>>>>
             f == [j \in S |-> spot(j)]
  <1>1. K \in Nat \ {0} /\ C \in Nat \ {0} /\ DOMAIN w = 1 .. C /\ a \in 0 .. K - 1 /\ b \in 0 .. K - 1
    <2>1. K \in Nat \ {0}
      BY SessionAssumption DEF K
    <2>2. C \in Nat \ {0}
      BY <2>1 DEF Cycle
    <2> QED BY <2>1, <2>2, WilliamsRows DEF Arms
  <1>2. /\ H = {x \in (1 .. C) \X L : w[x[1]][x[2]] = a /\ w[x[1]][x[2] + 1] = b}
        /\ G = {x \in (1 .. C) \X L : w[x[1]][x[2]] = b /\ w[x[1]][x[2] + 1] = a}
    BY <1>1 DEF FollowedIn
  <1>3. Cardinality(H) = C \div K /\ Cardinality(G) = C \div K
    BY <1>1, FollowsShare
  <1>4. IsFiniteSet(H) /\ IsFiniteSet(G)
    <2> DEFINE B == 1 .. C
    <2> HIDE DEF C, w, H, G
    <2>1. IsFiniteSet(B) /\ IsFiniteSet(L)
      BY <1>1, FS_Interval
    <2>2. H \in SUBSET (B \X L) /\ G \in SUBSET (B \X L)
      BY <1>2
    <2> HIDE DEF B, L
    <2>3. IsFiniteSet(B \X L)
      BY <2>1, FS_Product
    <2> QED BY <2>2, <2>3, FS_Subset
  <1>5. \A j \in DOMAIN log :
          /\ log[j].run.rep \in 1 .. Reps /\ log[j].run.pos \in 1 .. K
          /\ log[j].run.round \div C \in 0 .. Q - 1 /\ (log[j].run.round % C) + 1 \in 1 .. C
          /\ log[j].run.round = C * (log[j].run.round \div C) + (log[j].run.round % C)
          /\ \A p \in 1 .. K :
               RoundOrders(log[j].run.round, K, Reps)[log[j].run.rep][p]
                 = IF log[j].run.rep % 2 = 1
                   THEN w[(log[j].run.round % C) + 1][p] ELSE w[(log[j].run.round % C) + 1][(K - p) + 1]
          /\ log[j].run.arm = RoundOrders(log[j].run.round, K, Reps)[log[j].run.rep][log[j].run.pos]
    BY RowOfSample
  <1>6. /\ \A i, j \in DOMAIN log :
             /\ log[i].run.round = log[j].run.round /\ log[i].run.rep = log[j].run.rep
             /\ log[i].run.pos = log[j].run.pos
             => i = j
        /\ \A r \in 0 .. Q * C - 1, rep \in 1 .. Reps, pos \in 1 .. K :
             \E j \in DOMAIN log : log[j].run.round = r /\ log[j].run.rep = rep /\ log[j].run.pos = pos
        /\ \A j \in DOMAIN log : log[j].run.round \in 0 .. Q * C - 1
    BY DEF HoldsRounds
  \* The row before one that is not the first of its order.
  <1>7. ASSUME NEW j \in DOMAIN log, log[j].run.pos # 1
        PROVE  /\ j \in 2 .. Len(log) /\ j - 1 \in DOMAIN log
               /\ log[j].run.pos \in 2 .. K
               /\ log[j - 1].run.round = log[j].run.round /\ log[j - 1].run.rep = log[j].run.rep
               /\ log[j - 1].run.pos = log[j].run.pos - 1
    <2>1. Len(log) \in Nat /\ DOMAIN log = 1 .. Len(log)
      BY DEF IsLog
    <2> DEFINE q == RunsIn(log)
    <2>2. DOMAIN q = DOMAIN log /\ \A i \in DOMAIN log : q[i] = log[i].run
      BY DEF RunsIn
    <2>3. Unbroken(q)
      OBVIOUS
    <2> HIDE DEF q
    <2>4. q[j] = log[j].run
      BY <2>2
    <2>5. j # 1 /\ q[j - 1].round = q[j].round /\ q[j - 1].rep = q[j].rep /\ q[j - 1].pos = q[j].pos - 1
      BY <1>7, <2>2, <2>3, <2>4 DEF Unbroken
    <2>6. j - 1 \in DOMAIN log /\ j \in 2 .. Len(log)
      BY <2>1, <2>5
    <2>7. q[j - 1] = log[j - 1].run
      BY <2>2, <2>6
    <2>8. log[j].run.pos \in 2 .. K
      BY <1>1, <1>5, <1>7
    <2> QED BY <2>4, <2>5, <2>6, <2>7, <2>8
  \* What it takes for b to come right after a there, in terms of the square.
  <1>8. ASSUME NEW j \in DOMAIN log, log[j].run.pos # 1
        PROVE  /\ place(j) \in L
               /\ log[j].run.rep % 2 = 1 =>
                    /\ log[j - 1].run.arm = w[(log[j].run.round % C) + 1][place(j)]
                    /\ log[j].run.arm = w[(log[j].run.round % C) + 1][place(j) + 1]
               /\ log[j].run.rep % 2 # 1 =>
                    /\ log[j - 1].run.arm = w[(log[j].run.round % C) + 1][place(j) + 1]
                    /\ log[j].run.arm = w[(log[j].run.round % C) + 1][place(j)]
    <2> DEFINE x == log[j].run
               y == log[j - 1].run
               pos == x.pos
               rep == x.rep
               row == w[(x.round % C) + 1]
               order == RoundOrders(x.round, K, Reps)[rep]
    <2>1. /\ j - 1 \in DOMAIN log /\ pos \in 2 .. K
          /\ y.round = x.round /\ y.rep = rep /\ y.pos = pos - 1
      BY <1>7, <1>8
    <2>2. x.arm = order[pos] /\ \A p \in 1 .. K : order[p] = IF rep % 2 = 1 THEN row[p] ELSE row[(K - p) + 1]
      BY <1>5
    <2>3. y.arm = RoundOrders(y.round, K, Reps)[y.rep][y.pos]
      BY <1>5, <2>1
    <2>4. y.arm = order[pos - 1]
      BY <2>1, <2>3
    <2>5. place(j) = IF rep % 2 = 1 THEN pos - 1 ELSE (K - pos) + 1
      OBVIOUS
    <2> HIDE DEF x, y, pos, rep, row, order, place
    <2>6. pos - 1 \in L /\ (K - pos) + 1 \in L /\ pos - 1 \in 1 .. K /\ pos \in 1 .. K
      BY <1>1, <2>1
    <2>7. CASE rep % 2 = 1
      <3>1. place(j) = pos - 1 /\ place(j) + 1 = pos /\ place(j) \in L
        BY <2>1, <2>5, <2>6, <2>7
      <3>2. order[pos] = row[pos] /\ order[pos - 1] = row[pos - 1]
        BY <2>2, <2>6, <2>7
      <3> QED BY <2>2, <2>4, <2>7, <3>1, <3>2 DEF x, y, rep, row
    <2>8. CASE rep % 2 # 1
      <3>1. place(j) = (K - pos) + 1 /\ place(j) + 1 = (K - (pos - 1)) + 1 /\ place(j) \in L
        BY <1>1, <2>1, <2>5, <2>6, <2>8
      <3>2. order[pos] = row[(K - pos) + 1] /\ order[pos - 1] = row[(K - (pos - 1)) + 1]
        BY <2>2, <2>6, <2>8
      <3> QED BY <2>2, <2>4, <2>8, <3>1, <3>2 DEF x, y, rep, row
    <2> QED BY <2>7, <2>8
  <1>9. \A j \in S : j \in DOMAIN log /\ log[j - 1].run.arm = a /\ log[j].run.arm = b /\ log[j].run.pos # 1
    <2>1. Len(log) \in Nat /\ DOMAIN log = 1 .. Len(log)
      BY DEF IsLog
    <2> QED BY <2>1 DEF FollowersOf
  <1>10. \A j \in DOMAIN log : log[j].run.pos # 1 /\ log[j - 1].run.arm = a /\ log[j].run.arm = b => j \in S
    BY <1>7 DEF FollowersOf
  <1> HIDE DEF C, w, H, G, S, L
  <1>11. ASSUME NEW j \in S PROVE spot(j) \in T
    <2> DEFINE x == <<log[j].run.round \div C, log[j].run.rep>>
               i == (log[j].run.round % C) + 1
               at == <<i, place(j)>>
    <2>1. /\ log[j].run.rep \in 1 .. Reps /\ log[j].run.round \div C \in 0 .. Q - 1 /\ i \in 1 .. C
          /\ place(j) \in L
          /\ log[j].run.rep % 2 = 1 => w[i][place(j)] = a /\ w[i][place(j) + 1] = b
          /\ log[j].run.rep % 2 # 1 => w[i][place(j)] = b /\ w[i][place(j) + 1] = a
      <3> HIDE DEF place
      <3> QED BY <1>5, <1>8, <1>9
    <2>2. x \in Orders(Q) /\ x[2] = log[j].run.rep
      BY <2>1 DEF Orders
    <2> HIDE DEF i, place
    <2>3. at \in (1 .. C) \X L /\ at[1] = i /\ at[2] = place(j)
      BY <2>1
    <2> HIDE DEF at
    <2>4. CASE log[j].run.rep % 2 = 1
      <3>1. at \in H
        BY <1>2, <2>1, <2>3, <2>4
      <3>2. x \in Forwards(Q)
        BY <2>2, <2>4 DEF Forwards
      <3> HIDE DEF x
      <3>3. <<x, at>> \in T
        BY <3>1, <3>2 DEF Spots
      <3> QED BY <3>3 DEF x, i, at
    <2>5. CASE log[j].run.rep % 2 # 1
      <3>1. at \in G
        BY <1>2, <2>1, <2>3, <2>5
      <3>2. x \in Backwards(Q)
        BY <2>2, <2>5 DEF Backwards
      <3> HIDE DEF x
      <3>3. <<x, at>> \in T
        BY <3>1, <3>2 DEF Spots
      <3> QED BY <3>3 DEF x, i, at
    <2> QED BY <2>4, <2>5
  <1>12. ASSUME NEW i \in S, NEW j \in S, spot(i) = spot(j) PROVE i = j
    <2> DEFINE x == log[i].run
               y == log[j].run
               u == x.round % C
               v == y.round % C
    <2>1. x.round \div C = y.round \div C /\ x.rep = y.rep /\ u + 1 = v + 1 /\ place(i) = place(j)
      <3> HIDE DEF place
      <3> QED BY <1>12
    <2>2. x.round = C * (x.round \div C) + u /\ y.round = C * (y.round \div C) + v
      BY <1>5, <1>9
    <2>3. u \in Int /\ v \in Int
      <3>1. x.round \in Int /\ y.round \in Int
        BY <1>6, <1>9
      <3> HIDE DEF x, y
      <3> QED BY <3>1, <1>1
    <2>4. x.pos \in 1 .. K /\ y.pos \in 1 .. K
      BY <1>5, <1>9
    <2>5. x.pos = y.pos
      <3>1. CASE x.rep % 2 = 1
        <4>1. place(i) = x.pos - 1 /\ place(j) = y.pos - 1
          BY <2>1, <3>1
        <4>2. x.pos - 1 = y.pos - 1
          BY <2>1, <4>1
        <4> HIDE DEF x, y
        <4> QED BY <2>4, <4>2
      <3>2. CASE x.rep % 2 # 1
        <4>1. place(i) = (K - x.pos) + 1 /\ place(j) = (K - y.pos) + 1
          BY <2>1, <3>2
        <4>2. (K - x.pos) + 1 = (K - y.pos) + 1
          BY <2>1, <4>1
        <4> HIDE DEF x, y
        <4> QED BY <1>1, <2>4, <4>2
      <3> QED BY <3>1, <3>2
    <2>6. u = v
      <3> HIDE DEF u, v
      <3> QED BY <2>1, <2>3
    <2>7. x.round = y.round
      BY <2>1, <2>2, <2>6
    <2> QED BY <1>6, <1>9, <2>1, <2>5, <2>7
  <1>13. ASSUME NEW t \in T PROVE \E j \in S : spot(j) = t
    <2>1. \/ t \in Forwards(Q) \X H
          \/ t \in Backwards(Q) \X G
      BY DEF Spots
    <2> DEFINE c == t[1][1]
               rep == t[1][2]
               i == t[2][1]
               p == t[2][2]
    <2>2. /\ c \in 0 .. Q - 1 /\ rep \in 1 .. Reps /\ t = <<<<c, rep>>, <<i, p>>>> /\ i \in 1 .. C /\ p \in L
          /\ rep % 2 = 1 => w[i][p] = a /\ w[i][p + 1] = b
          /\ rep % 2 # 1 => w[i][p] = b /\ w[i][p + 1] = a
      <3>1. CASE t \in Forwards(Q) \X H
        <4>1. t[1] \in Orders(Q) /\ rep % 2 = 1 /\ t[2] \in H /\ t = <<t[1], t[2]>>
          BY <3>1 DEF Forwards
        <4>2. c \in 0 .. Q - 1 /\ rep \in 1 .. Reps /\ t[1] = <<c, rep>>
          BY <4>1 DEF Orders
        <4>3. i \in 1 .. C /\ p \in L /\ t[2] = <<i, p>> /\ w[i][p] = a /\ w[i][p + 1] = b
          BY <1>2, <4>1
        <4> HIDE DEF c, rep, i, p
        <4> QED BY <4>1, <4>2, <4>3
      <3>2. CASE t \in Backwards(Q) \X G
        <4>1. t[1] \in Orders(Q) /\ rep % 2 # 1 /\ t[2] \in G /\ t = <<t[1], t[2]>>
          BY <3>2 DEF Backwards
        <4>2. c \in 0 .. Q - 1 /\ rep \in 1 .. Reps /\ t[1] = <<c, rep>>
          BY <4>1 DEF Orders
        <4>3. i \in 1 .. C /\ p \in L /\ t[2] = <<i, p>> /\ w[i][p] = b /\ w[i][p + 1] = a
          BY <1>2, <4>1
        <4> HIDE DEF c, rep, i, p
        <4> QED BY <4>1, <4>2, <4>3
      <3> QED BY <2>1, <3>1, <3>2
    <2> HIDE DEF c, rep, i, p
    <2> DEFINE m == i - 1
               r == c * C + m
               pos == IF rep % 2 = 1 THEN p + 1 ELSE (K - p) + 1
    <2>3. m \in 0 .. C - 1 /\ m + 1 = i
      BY <1>1, <2>2
    <2> HIDE DEF m
    <2>4. r \in 0 .. Q * C - 1 /\ r \div C = c /\ r % C = m
      BY <1>1, <2>2, <2>3, CycleAndRow
    <2>5. p \in 1 .. K - 1 /\ p \in Int
      BY <2>2 DEF L
    <2>6. pos \in 1 .. K /\ pos # 1
      BY <1>1, <2>5
    <2>7. p = IF rep % 2 = 1 THEN pos - 1 ELSE (K - pos) + 1
      BY <1>1, <2>5
    <2> HIDE DEF r, pos
    <2>8. PICK j \in DOMAIN log : log[j].run.round = r /\ log[j].run.rep = rep /\ log[j].run.pos = pos
      BY <1>6, <2>2, <2>4, <2>6
    <2>9. place(j) = p /\ (log[j].run.round % C) + 1 = i
      BY <2>3, <2>4, <2>7, <2>8
    <2>10. spot(j) = t
      <3> HIDE DEF place
      <3> QED BY <2>2, <2>4, <2>8, <2>9
    <2>11. log[j - 1].run.arm = a /\ log[j].run.arm = b
      <3> HIDE DEF place
      <3> QED BY <1>8, <2>2, <2>6, <2>8, <2>9
    <2>12. j \in S
      BY <1>10, <2>6, <2>8, <2>11
    <2> QED BY <2>10, <2>12
  <1>14. IsFiniteSet(T) /\ Cardinality(T) = ShareOf(Q)
    <2> DEFINE n == C \div K
    <2> HIDE DEF n
    <2>1. Cardinality(H) = n /\ Cardinality(G) = n
      BY <1>3 DEF n
    <2>2. IsFiniteSet(T) /\ Cardinality(T) = Cardinality(Forwards(Q)) * n + Cardinality(Backwards(Q)) * n
      BY <1>4, <2>1, SpotsCount
    <2> QED BY <2>2 DEF ShareOf, n, C
  <1>15. f \in [S -> T] /\ (\A x, y \in S : f[x] = f[y] => x = y) /\ \A t \in T : \E x \in S : f[x] = t
    <2>1. \A j \in S : f[j] = spot(j)
      OBVIOUS
    <2>2. f \in [S -> T]
      <3> HIDE DEF spot, T
      <3> QED BY <1>11
    <2> HIDE DEF f, T, spot
    <2> QED BY <1>12, <1>13, <2>1, <2>2
  <1> HIDE DEF f, T
  <1>16. Cardinality(S) = Cardinality(T)
    BY <1>14, <1>15, CountBy
  <1> QED BY <1>14, <1>16 DEF S

\* What success promises of the positions.
LEMMA DoneIsBalanced ==
  ASSUME SamplesInv, PromiseInv, OrderInv, SteadyInv
  PROVE  PositionsBalanced
  <1> SUFFICES ASSUME why = "done", Len(seeds) % Cycle(K) = 0
               PROVE  /\ \A a, b \in Arms, p \in 1 .. K :
                           Cardinality(HoldersOf(slog, a, p)) = Cardinality(HoldersOf(slog, b, p))
                      /\ \A a, b, c, d \in Arms :
                           a # b /\ c # d =>
                             Cardinality(FollowersOf(slog, a, b)) = Cardinality(FollowersOf(slog, c, d))
    BY Zenon DEF PositionsBalanced, HoldersOf, FollowersOf
  <1> DEFINE C == Cycle(K)
             Q == Len(seeds) \div C
  <1>1. HoldsRounds(slog, Len(seeds)) /\ seeds \in Seq(Int) /\ IsLog(slog)
    BY DoneHolds
  <1>2. C \in Nat \ {0} /\ Len(seeds) \in Nat
    <2>1. K \in Nat \ {0}
      BY SessionAssumption DEF K
    <2> QED BY <1>1, <2>1 DEF Cycle
  <1>3. Q \in Nat /\ Len(seeds) = Q * C
    <2> DEFINE n == Len(seeds)
    <2>1. n % C = 0
      OBVIOUS
    <2>2. n \in Nat
      BY <1>2
    <2> HIDE DEF C, n
    <2>3. n \div C \in Nat /\ n = C * (n \div C) + (n % C)
      BY <1>2, <2>2
    <2>4. n = (n \div C) * C
      BY <1>2, <2>1, <2>2, <2>3
    <2> QED BY <2>3, <2>4 DEF n
  <1> HIDE DEF Q
  <1>4. HoldsRounds(slog, Q * Cycle(K)) /\ Unbroken(RunsIn(slog))
    BY <1>1, <1>3 DEF C, SteadyInv, Steady
  <1>5. \A a \in Arms, p \in 1 .. K : Cardinality(HoldersOf(slog, a, p)) = ShareOf(Q)
    BY <1>3, <1>4, HoldersCount
  <1>6. \A a, b \in Arms : a # b => Cardinality(FollowersOf(slog, a, b)) = ShareOf(Q)
    BY <1>1, <1>3, <1>4, FollowersCount
  <1> QED BY <1>5, <1>6

\* Over a full cycle of rounds the samples kept hold every arm at every
\* position, and right after every other arm, equally often, however many
\* sessions they were taken in (schedule.williams, round_orders).
THEOREM PositionsAreBalanced == Spec => []PositionsBalanced
  <1>1. Init => SamplesInv
    BY InitSamples
  <1>2. Init => PromiseInv /\ OrderInv
    BY InitOrder
  <1>3. Init => SteadyInv
    BY InitSteady
  <1>4. SamplesInv /\ [Next]_vars => SamplesInv'
    BY NextSamples
  <1>5. SamplesInv /\ PromiseInv /\ [Next]_vars => PromiseInv'
    BY NextPromise
  <1>6. SamplesInv /\ PromiseInv /\ OrderInv /\ [Next]_vars => OrderInv'
    BY NextOrder
  <1>7. SamplesInv /\ OrderInv /\ SteadyInv /\ [Next]_vars => SteadyInv'
    BY NextSteady
  <1>8. SamplesInv /\ PromiseInv /\ OrderInv /\ SteadyInv => PositionsBalanced
    BY DoneIsBalanced
  <1> QED BY <1>1, <1>2, <1>3, <1>4, <1>5, <1>6, <1>7, <1>8, PTL DEF Spec
==============================================================================
