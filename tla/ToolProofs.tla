------------------------------ MODULE ToolProofs ------------------------------
(***************************************************************************)
(* Proofs about three of the tools that MCTools checks.  Of the selection  *)
(* of a placement policy (Selection), for any number of items, p-values    *)
(* and any level: Holm's test is the closed test, and an arm that is not   *)
(* eligible has no say in the choice.  Of the files of a generated matrix  *)
(* (MatrixFiles), for any cells, any edits and any kills: after a run that *)
(* was not cut short, cells are judged as meant.  Of the placement of a    *)
(* build (Placement), for any hash, programs, sizes and phases: a probe    *)
(* moves no function but the probed one.                                   *)
(***************************************************************************)
EXTENDS Selection, MatrixFiles, Placement, LeastElements, SequenceTheorems

(* Among any items there is one no other of them is tested before: what is *)
(* tested before an item is also tested before those tested after it.      *)
LEMMA FirstTested ==
    ASSUME NEW D \in SUBSET Int, IsFiniteSet(D), NEW ps \in [D -> Int],
           NEW group \in SUBSET D, group # {}
    PROVE  \E i \in group : \A j \in group : j \notin before(ps, i)
<1> DEFINE ahead == {before(ps, i) : i \in group}
<1>1. DOMAIN ps = D
  OBVIOUS
<1>2. IsWellFoundedOn(StrictSubsetOrdering(D), FiniteSubsetsOf(D))
  BY FS_StrictSubsetOrderingWellFounded
<1>3. \A i \in group : before(ps, i) \in SUBSET D
  BY <1>1 DEF before
<1>4. ahead \subseteq FiniteSubsetsOf(D) /\ ahead # {}
  <2>1. \A T \in SUBSET D : IsFiniteSet(T)
    BY FS_Subset
  <2>2. \A i \in group : before(ps, i) \in FiniteSubsetsOf(D)
    BY <1>3, <2>1 DEF FiniteSubsetsOf
  <2> QED BY <2>2
<1>5. PICK first \in ahead : \A other \in ahead : ~(<<other, first>> \in StrictSubsetOrdering(D))
  <2> HIDE DEF ahead
  <2> QED BY <1>2, <1>4, WFMin
<1>6. PICK i \in group : first = before(ps, i)
  BY <1>5
<1>7. ASSUME NEW j \in group \cap before(ps, i) PROVE FALSE
  <2>1. before(ps, j) \subseteq before(ps, i)
    <3> SUFFICES ASSUME NEW l \in before(ps, j) PROVE l \in before(ps, i)
      OBVIOUS
    <3>1. i \in D /\ j \in D /\ l \in D
      BY <1>1, <1>7 DEF before
    <3>2. ps[i] \in Int /\ ps[j] \in Int /\ ps[l] \in Int /\ i \in Int /\ j \in Int /\ l \in Int
      BY <3>1
    <3>3. ps[l] < ps[j] \/ (ps[l] = ps[j] /\ l < j)
      BY DEF before
    <3>4. ps[j] < ps[i] \/ (ps[j] = ps[i] /\ j < i)
      BY <1>7 DEF before
    <3>5. ps[l] < ps[i] \/ (ps[l] = ps[i] /\ l < i)
      BY <3>2, <3>3, <3>4
    <3> QED BY <1>1, <3>1, <3>5 DEF before
  <2>2. j \in before(ps, i) /\ j \notin before(ps, j)
    <3>1. j \in D /\ ps[j] \in Int /\ j \in Int
      BY <1>1
    <3> QED BY <1>7, <3>1 DEF before
  <2>3. <<before(ps, j), first>> \in StrictSubsetOrdering(D)
    BY <1>3, <1>6, <2>1, <2>2 DEF StrictSubsetOrdering
  <2> QED BY <1>5, <2>3
<1> QED BY <1>7

(* An item holds before its own threshold what the rest of its group, with *)
(* none tested before it, would be held against together, and vice versa.  *)
LEMMA Thresholds ==
    ASSUME NEW D, IsFiniteSet(D), NEW ps \in [D -> Nat], NEW i \in D
    PROVE  LET rest == D \ before(ps, i)
           IN /\ IsFiniteSet(rest)
              /\ Cardinality(rest) \in Nat
              /\ Cardinality(rest) = Cardinality(DOMAIN ps) - Cardinality(before(ps, i))
<1>1. before(ps, i) \subseteq D /\ DOMAIN ps = D
  BY DEF before
<1>2. D \cap before(ps, i) = before(ps, i)
  BY <1>1
<1> QED BY <1>1, <1>2, FS_Difference, FS_CardinalityType

(* Of two items the one tested first has the smaller p-value, if any.      *)
LEMMA TestedInOrder ==
    ASSUME NEW D \in SUBSET Int, NEW ps \in [D -> Nat], NEW i \in D, NEW j \in D, j \notin before(ps, i)
    PROVE  ps[i] <= ps[j] /\ (i = j \/ i \in before(ps, j))
<1>1. ps[i] \in Nat /\ ps[j] \in Nat /\ i \in Int /\ j \in Int
  OBVIOUS
<1>2. ~(ps[j] < ps[i]) /\ ~(ps[j] = ps[i] /\ j < i)
  BY DEF before
<1>3. ps[i] <= ps[j] /\ (i = j \/ ps[i] < ps[j] \/ (ps[i] = ps[j] /\ i < j))
  BY <1>1, <1>2
<1> QED BY <1>3 DEF before

\* Products of naturals grow with their factors.
LEMMA ProductsGrow ==
    ASSUME NEW a \in Nat, NEW b \in Nat, NEW c \in Nat, NEW d \in Nat, a <= b, c <= d
    PROVE  a * c <= b * d /\ a * c \in Nat /\ b * d \in Nat
<1>1. PICK e \in Nat : b = a + e
  <2>1. b - a \in Nat /\ b = a + (b - a)
    OBVIOUS
  <2> QED BY <2>1
<1>2. PICK f \in Nat : d = c + f
  <2>1. d - c \in Nat /\ d = c + (d - c)
    OBVIOUS
  <2> QED BY <2>1
<1>3. b * d = a * c + (a * f + e * c + e * f)
  BY <1>1, <1>2
<1>4. a * c \in Nat /\ a * f \in Nat /\ e * c \in Nat /\ e * f \in Nat
  BY SMT
<1> QED BY <1>3, <1>4

(* Holm's step-down test (stats_core.holm) is the closed test, for any     *)
(* finite set of items, any p-values and any level.  One way: of a group   *)
(* with a rejected item the first tested is within its threshold, and no   *)
(* more items are left than when it is tested.  The other: for an item     *)
(* tested up to the rejected one, the group of those not tested before it. *)
THEOREM HolmIsClosedTest ==
    ASSUME NEW D \in SUBSET Int, IsFiniteSet(D), NEW ps \in [D -> Nat], NEW alpha \in Nat
    PROVE  holm(ps, alpha) = ClosedTest(ps, alpha)
<1>0. DOMAIN ps = D
  OBVIOUS
<1>1. ASSUME NEW i \in holm(ps, alpha), NEW group \in SUBSET D, i \in group
      PROVE  \E j \in group : ps[j] * Cardinality(group) <= alpha
  <2>1. PICK j \in group : \A l \in group : l \notin before(ps, j)
    <3>1. group # {}
      BY <1>1
    <3> QED BY <3>1, FirstTested
  <2>2. i \notin before(ps, j) /\ i \in D /\ j \in D
    BY <1>1, <2>1
  <2>3. j \in {i} \cup before(ps, i)
    BY <2>2, TestedInOrder
  <2>4. within(ps, j, alpha)
    BY <1>1, <2>3 DEF holm
  <2> DEFINE rest == D \ before(ps, j)
  <2>5. IsFiniteSet(rest) /\ Cardinality(rest) \in Nat /\ ps[j] * Cardinality(rest) <= alpha
    BY <2>2, <2>4, Thresholds DEF within
  <2>6. group \in SUBSET rest
    BY <2>1
  <2>7. Cardinality(group) \in Nat /\ Cardinality(group) <= Cardinality(rest)
    <3> HIDE DEF rest
    <3> QED BY <2>5, <2>6, FS_Subset, FS_CardinalityType
  <2>8. ps[j] \in Nat
    BY <2>2
  <2>9. ps[j] * Cardinality(group) <= ps[j] * Cardinality(rest)
        /\ ps[j] * Cardinality(group) \in Nat /\ ps[j] * Cardinality(rest) \in Nat
    <3> HIDE DEF rest
    <3> DEFINE p == ps[j]  g == Cardinality(group)  r == Cardinality(rest)
    <3>1. p \in Nat /\ g \in Nat /\ r \in Nat /\ p <= p /\ g <= r
      BY <2>5, <2>7, <2>8
    <3> HIDE DEF p, g, r
    <3>2. p * g <= p * r /\ p * g \in Nat /\ p * r \in Nat
      BY <3>1, ProductsGrow
    <3> QED BY <3>2 DEF p, g, r
  <2>10. ps[j] * Cardinality(group) <= alpha
    <3> HIDE DEF rest
    <3> DEFINE pg == ps[j] * Cardinality(group)  pr == ps[j] * Cardinality(rest)
    <3>1. pg <= pr /\ pg \in Nat /\ pr \in Nat /\ pr <= alpha
      BY <2>5, <2>9
    <3> HIDE DEF pg, pr
    <3>2. pg <= alpha
      BY <3>1
    <3> QED BY <3>2 DEF pg
  <2> QED BY <2>10
<1>2. ASSUME NEW i \in ClosedTest(ps, alpha), NEW l \in {i} \cup before(ps, i)
      PROVE  within(ps, l, alpha)
  <2>1. i \in D /\ l \in D
    BY <1>0, <1>2 DEF ClosedTest, before
  <2> DEFINE rest == D \ before(ps, l)
  <2>2. i \in rest
    <3>1. ps[i] \in Nat /\ ps[l] \in Nat /\ i \in Int /\ l \in Int
      BY <2>1
    <3>2. ~(ps[i] < ps[l] \/ (ps[i] = ps[l] /\ i < l))
      BY <1>2, <3>1 DEF before
    <3> QED BY <2>1, <3>2 DEF before
  <2>3. PICK j \in rest : ps[j] * Cardinality(rest) <= alpha
    BY <1>0, <1>2, <2>2 DEF ClosedTest
  <2>4. ps[l] <= ps[j] /\ ps[l] \in Nat /\ ps[j] \in Nat
    BY <2>1, <2>3, TestedInOrder
  <2>5. Cardinality(rest) \in Nat /\ Cardinality(rest) = Cardinality(DOMAIN ps) - Cardinality(before(ps, l))
    BY <2>1, Thresholds
  <2>6. ps[l] * Cardinality(rest) <= alpha
    <3> HIDE DEF rest
    <3> DEFINE p == ps[l]  q == ps[j]  r == Cardinality(rest)
    <3>1. p \in Nat /\ q \in Nat /\ r \in Nat /\ p <= q /\ r <= r /\ q * r <= alpha
      BY <2>3, <2>4, <2>5
    <3> HIDE DEF p, q, r
    <3>2. p * r <= q * r /\ p * r \in Nat /\ q * r \in Nat
      BY <3>1, ProductsGrow
    <3> DEFINE pr == p * r  qr == q * r
    <3>3. pr <= qr /\ pr \in Nat /\ qr \in Nat /\ qr <= alpha
      BY <3>1, <3>2
    <3> HIDE DEF pr, qr
    <3>4. pr <= alpha
      BY <3>3
    <3> QED BY <3>4 DEF pr, p, r
  <2> QED BY <2>5, <2>6 DEF within
<1>3. holm(ps, alpha) \subseteq ClosedTest(ps, alpha)
  BY <1>0, <1>1 DEF holm, ClosedTest
<1>4. ClosedTest(ps, alpha) \subseteq holm(ps, alpha)
  BY <1>0, <1>2 DEF holm, ClosedTest
<1> QED BY <1>3, <1>4

---------------------------------------------------------------------------
(* The rows of the table with every arm and with the eligible ones only    *)
(* differ in the base's seeds alone, which hold those of every other row.  *)
LEMMA RowsAgree ==
    ASSUME NEW d, NEW arms, Base \notin arms
    PROVE  LET listed == Candidates(d, arms)
               only == Candidates(d, {a \in arms : eligible(d.arms[a])})
           IN /\ DOMAIN listed = DOMAIN only
              /\ \A a \in DOMAIN listed :
                   /\ listed[a].geomean = only[a].geomean
                   /\ listed[a].text = only[a].text
                   /\ listed[a].variance = only[a].variance
              /\ \A a, b \in DOMAIN listed :
                   a # b => listed[a].seeds \cap listed[b].seeds = only[a].seeds \cap only[b].seeds
<1> DEFINE others == {a \in arms : eligible(d.arms[a])}
           listed == Candidates(d, arms)
           only == Candidates(d, others)
           every == UNION {d.arms[a].seeds : a \in {b \in arms : RanEvery(d.arms[b])}}
           theirs == UNION {d.arms[a].seeds : a \in {b \in others : RanEvery(d.arms[b])}}
<1>1. {a \in others : eligible(d.arms[a])} = others
  OBVIOUS
<1>2. DOMAIN listed = {Base} \cup others /\ DOMAIN only = {Base} \cup others
  BY <1>1 DEF Candidates
<1>3. listed[Base] = [geomean |-> 0, seeds |-> every, text |-> BaseText, variance |-> d.base]
      /\ only[Base] = [geomean |-> 0, seeds |-> theirs, text |-> BaseText, variance |-> d.base]
  BY <1>1 DEF Candidates
<1>4. ASSUME NEW a \in others
      PROVE  /\ listed[a] = [geomean |-> d.arms[a].geomean, seeds |-> d.arms[a].seeds,
                           text |-> d.arms[a].text, variance |-> d.arms[a].variance]
             /\ only[a] = listed[a]
             /\ d.arms[a].seeds \subseteq every /\ d.arms[a].seeds \subseteq theirs
  <2>1. a # Base /\ RanEvery(d.arms[a])
    BY <1>4 DEF eligible
  <2>2. d.arms[a].seeds \subseteq every /\ d.arms[a].seeds \subseteq theirs
    BY <2>1
  <2> QED BY <1>1, <2>1, <2>2 DEF Candidates
<1>5. \A a \in others : listed[a].seeds = d.arms[a].seeds /\ only[a].seeds = d.arms[a].seeds
  BY <1>1, <1>2, <1>4 DEF Candidates
<1>6. \A a \in DOMAIN listed :
        listed[a].geomean = only[a].geomean /\ listed[a].text = only[a].text /\ listed[a].variance = only[a].variance
  <2> HIDE DEF listed, only, every, theirs, others
  <2> QED BY <1>2, <1>3, <1>4
<1>7. ASSUME NEW a \in DOMAIN listed, NEW b \in DOMAIN listed, a # b
      PROVE  listed[a].seeds \cap listed[b].seeds = only[a].seeds \cap only[b].seeds
  <2> HIDE DEF listed, only, every, theirs, others
  <2>1. CASE a \in others /\ b \in others
    BY <2>1, <1>4
  <2>2. CASE a = Base /\ b \in others
    <3>1. listed[a].seeds = every /\ only[a].seeds = theirs
      BY <1>3, <2>2
    <3>2. listed[b].seeds = d.arms[b].seeds /\ only[b].seeds = d.arms[b].seeds
      BY <1>5, <2>2
    <3> QED BY <1>4, <2>2, <3>1, <3>2
  <2>3. CASE b = Base /\ a \in others
    <3>1. listed[b].seeds = every /\ only[b].seeds = theirs
      BY <1>3, <2>3
    <3>2. listed[a].seeds = d.arms[a].seeds /\ only[a].seeds = d.arms[a].seeds
      BY <1>5, <2>3
    <3> QED BY <1>4, <2>3, <3>1, <3>2
  <2> QED BY <1>2, <1>7, <2>1, <2>2, <2>3
<1>8. DOMAIN listed = DOMAIN only
  BY <1>2
<1> HIDE DEF listed, only
<1> QED BY <1>6, <1>7, <1>8 DEF listed, only

(* The choice is the same among all arms and among the eligible ones.      *)
THEOREM OnlyTheEligible ==
    ASSUME NEW d, NEW arms \in SUBSET Int, IsFiniteSet(arms), Base \notin arms,
           \A a \in arms : d.arms[a].geomean \in Int
    PROVE  Chosen(d, arms) = Chosen(d, {a \in arms : eligible(d.arms[a])})
<1> DEFINE others == {a \in arms : eligible(d.arms[a])}
           listed == Candidates(d, arms)
           only == Candidates(d, others)
           all == DOMAIN listed
<1>1. DOMAIN only = all
  BY RowsAgree
<1>2. \A a \in all : listed[a].geomean = only[a].geomean /\ listed[a].text = only[a].text
                     /\ listed[a].variance = only[a].variance
  BY RowsAgree
<1>3. \A a, b \in all : a # b => listed[a].seeds \cap listed[b].seeds = only[a].seeds \cap only[b].seeds
  BY RowsAgree
<1>4. all \in SUBSET Int /\ IsFiniteSet(all) /\ all # {}
  <2>1. all = {Base} \cup others
    BY DEF Candidates
  <2>2. IsFiniteSet(others) /\ IsFiniteSet({Base})
    BY FS_Subset, FS_Singleton
  <2>3. IsFiniteSet({Base} \cup others)
    <3> HIDE DEF others
    <3> QED BY <2>2, FS_Union
  <2>4. others \subseteq arms /\ arms \in SUBSET Int
    OBVIOUS
  <2>5. Base \in Int
    BY DEF Base
  <2> HIDE DEF all, others
  <2> QED BY <2>1, <2>3, <2>4, <2>5
<1>5. \A a \in all : listed[a].geomean \in Int
  <2>1. all = {Base} \cup others
    BY DEF Candidates
  <2>2. listed[Base].geomean = 0
    BY DEF Candidates
  <2>3. \A a \in others : a # Base /\ listed[a].geomean = d.arms[a].geomean
    BY DEF Candidates
  <2>4. \A a \in others : d.arms[a].geomean \in Int
    OBVIOUS
  <2> HIDE DEF all, others, listed
  <2> QED BY <2>1, <2>2, <2>3, <2>4
<1> DEFINE best == FirstLeast(all, LAMBDA a : listed[a].geomean)
           fastest == FirstLeast(DOMAIN only, LAMBDA a : only[a].geomean)
<1>6. best \in all
  <2> DEFINE times == [a \in all |-> listed[a].geomean]
  <2>1. times \in [all -> Int]
    BY <1>5
  <2>2. PICK first \in all : \A a \in all : a \notin before(times, first)
    <3> HIDE DEF all, times
    <3>1. all \in SUBSET all
      OBVIOUS
    <3> QED BY <1>4, <2>1, <3>1, FirstTested
  <2>3. \A a \in all : listed[first].geomean < listed[a].geomean
                       \/ (listed[first].geomean = listed[a].geomean /\ first <= a)
    <3> SUFFICES ASSUME NEW a \in all
                 PROVE  listed[first].geomean < listed[a].geomean
                        \/ (listed[first].geomean = listed[a].geomean /\ first <= a)
      OBVIOUS
    <3>1. ~(times[a] < times[first] \/ (times[a] = times[first] /\ a < first))
      <4> HIDE DEF all
      <4> QED BY <2>2 DEF before
    <3>2. times[a] = listed[a].geomean /\ times[first] = listed[first].geomean
      BY <2>2
    <3>3. listed[a].geomean \in Int /\ listed[first].geomean \in Int /\ a \in Int /\ first \in Int
      <4> HIDE DEF all, listed
      <4> QED BY <1>4, <1>5
    <3> HIDE DEF times, listed
    <3> QED BY <3>1, <3>2, <3>3
  <2> HIDE DEF all, listed
  <2> QED BY <2>2, <2>3 DEF FirstLeast
<1>7. fastest = best
  <2> HIDE DEF all, listed, only
  <2> QED BY <1>1, <1>2 DEF FirstLeast
<1> DEFINE tied == {a \in all : a = best \/ _tie(d, listed, best, a)}
           level == {a \in DOMAIN only : a = fastest \/ _tie(d, only, fastest, a)}
<1>8. level = tied
  <2> HIDE DEF all, listed, only, best, fastest
  <2>1. \A a \in all : a # best => (_tie(d, only, best, a) <=> _tie(d, listed, best, a))
    BY <1>3, <1>6 DEF _tie
  <2> QED BY <1>1, <1>7, <2>1
<1>9. \A a \in tied : pooled_spread(d, only[a]) = pooled_spread(d, listed[a]) /\ only[a].text = listed[a].text
  <2> HIDE DEF all, listed, only, best
  <2> QED BY <1>2 DEF pooled_spread
<1> DEFINE spread == [a \in tied |-> pooled_spread(d, listed[a])]
           steady == IF Cardinality(tied) > 1 /\ \A a \in tied : spread[a] # Unknown
                     THEN {a \in tied : \A b \in tied : spread[a] <= spread[b]} ELSE tied
<1>10. Chosen(d, arms) = FirstLeast(steady, LAMBDA a : listed[a].text)
  BY DEF Chosen
<1>11. [a \in level |-> pooled_spread(d, only[a])] = spread
  <2> HIDE DEF level, tied, listed, only
  <2> QED BY <1>8, <1>9
<1>12. Chosen(d, others) = FirstLeast(steady, LAMBDA a : only[a].text)
  <2>1. Chosen(d, others) =
          LET s == [a \in level |-> pooled_spread(d, only[a])]
              st == IF Cardinality(level) > 1 /\ \A a \in level : s[a] # Unknown
                    THEN {a \in level : \A b \in level : s[a] <= s[b]} ELSE level
          IN FirstLeast(st, LAMBDA a : only[a].text)
    BY DEF Chosen
  <2> HIDE DEF level, tied, listed, only, spread
  <2> QED BY <1>8, <1>11, <2>1
<1>13. steady \subseteq tied
  <2> HIDE DEF tied
  <2> QED OBVIOUS
<1> HIDE DEF steady, tied, listed, only
<1>14. FirstLeast(steady, LAMBDA a : only[a].text) = FirstLeast(steady, LAMBDA a : listed[a].text)
  BY <1>9, <1>13 DEF FirstLeast
<1> QED BY <1>10, <1>12, <1>14 DEF others

---------------------------------------------------------------------------
\* What was measured is of the arms there are, and does not change.
MeasuredArms == data.arms \in [1..Others -> Measured]

\* What selection ranks are measurements, at every step.
LEMMA MeasuredArmsAlways == SelectSpec => []MeasuredArms
<1>1. SelectInit => MeasuredArms
  BY DEF SelectInit, MeasuredArms
<1>2. MeasuredArms /\ [SelectNext]_selecting => MeasuredArms'
  BY DEF MeasuredArms, SelectNext, Select, selecting
<1> QED BY <1>1, <1>2, PTL DEF SelectSpec

(* In every state of the selection the arms that are slower on some item   *)
(* are those the closed test finds, whatever was measured of them.         *)
THEOREM HolmIsClosedAlways == SelectSpec => []HolmIsClosed
<1>1. MeasuredArms => HolmIsClosed
  <2> SUFFICES ASSUME MeasuredArms, NEW a \in Arms
               PROVE  slower_items(data.arms[a]) = ClosedTest(Tested(data.arms[a]), Alpha)
    BY DEF HolmIsClosed
  <2> DEFINE m == data.arms[a]
             D == {j \in DOMAIN m.p : m.p[j] \notin {NotRun, NoSeed}}
  <2>1. m.p \in Seq({NotRun, NoSeed, Unknown} \cup Nat)
    BY MeasuredAssumption DEF MeasuredArms, Arms
  <2>2. Len(m.p) \in Nat /\ DOMAIN m.p = 1..Len(m.p)
        /\ \A j \in DOMAIN m.p : m.p[j] \in {NotRun, NoSeed, Unknown} \cup Nat
    <3> HIDE DEF m
    <3> QED BY <2>1
  <2>3. D \in SUBSET Int /\ IsFiniteSet(D)
    <3>1. IsFiniteSet(1..Len(m.p))
      BY <2>2, FS_Interval
    <3>2. D \in SUBSET (1..Len(m.p))
      BY <2>2
    <3>3. 1..Len(m.p) \in SUBSET Int
      BY <2>2
    <3> HIDE DEF D, m
    <3>4. IsFiniteSet(D)
      BY <3>1, <3>2, FS_Subset
    <3> QED BY <3>2, <3>3, <3>4
  <2>4. Alpha \in Nat /\ One \in Nat
    BY NumbersAssumption DEF One
  <2>5. Tested(m) \in [D -> Nat]
    <3> HIDE DEF m
    <3> QED BY <2>2, <2>4 DEF Tested
  <2> HIDE DEF D, m
  <2> QED BY <2>3, <2>4, <2>5, HolmIsClosedTest DEF slower_items, m
<1> QED BY <1>1, MeasuredArmsAlways, PTL

(* Once made, the choice of an arm is the one made had the arms that are   *)
(* not eligible never been measured (whether the data decides is not: it   *)
(* counts the seeds of every arm).                                         *)
THEOREM IneligibleNeverMatter == SelectSpec => []IneligibleDoNotMatter
<1>1. SelectInit => IneligibleDoNotMatter
  BY DEF SelectInit, NoVerdict, IneligibleDoNotMatter
<1>2. MeasuredArms /\ IneligibleDoNotMatter /\ [SelectNext]_selecting => IneligibleDoNotMatter'
  <2> SUFFICES ASSUME MeasuredArms, IneligibleDoNotMatter, [SelectNext]_selecting
               PROVE  IneligibleDoNotMatter'
    OBVIOUS
  <2>1. CASE Select
    <3>1. DOMAIN data.arms = 1..Others /\ \A a \in DOMAIN data.arms : data.arms[a].geomean \in Int
      BY MeasuredAssumption DEF MeasuredArms
    <3>2. Arms \in SUBSET Int /\ IsFiniteSet(Arms) /\ Base \notin Arms
      <4>1. Others \in Nat
        BY NumbersAssumption
      <4> QED BY <3>1, <4>1, FS_Interval DEF Arms, Base
    <3>3. \A a \in Arms : data.arms[a].geomean \in Int
      BY <3>1 DEF Arms
    <3>4. Chosen(data, Arms) = Chosen(data, {a \in Arms : eligible(data.arms[a])})
      BY <3>2, <3>3, OnlyTheEligible
    <3>5. data' = data /\ verdict'.selected = Chosen(data, Arms)
      BY <2>1 DEF Select
    <3> QED BY <3>4, <3>5 DEF IneligibleDoNotMatter, Arms
  <2>2. CASE UNCHANGED selecting
    BY <2>2 DEF IneligibleDoNotMatter, selecting, Arms
  <2> QED BY <2>1, <2>2 DEF SelectNext
<1> QED BY <1>1, <1>2, MeasuredArmsAlways, PTL DEF SelectSpec

---------------------------------------------------------------------------
(***************************************************************************)
(* The files of a generated matrix.                                        *)
(***************************************************************************)

Contents == {None, Torn} \cup {Text(o) : o \in Outputs} \cup Entries
Items == Cells \X Exts \X Contents

\* The table wants this content of a file, the run has yet to reconcile
\* it, and it has that content.
Owed(w) == \E j \in 1 .. Len(Wanted(w[1], table[w[1]])) : Wanted(w[1], table[w[1]])[j] = w
Ahead(w) == \E j \in 1 .. Len(todo) : todo[j] = w
OnDisk(w) == disk[w[1]][w[2]] = w[3]

\* While a run is on, all that the table wants is yet to be reconciled or
\* is on disk, unless a check has reported something; what is to be
\* reconciled is what the table wants, and after the run it is all on disk.
FilesInv ==
    /\ table \in [Cells -> Entries]
    /\ disk \in [Cells -> [Exts -> Contents]]
    /\ todo \in Seq(Items)
    /\ opened \in BOOLEAN
    /\ opened => gen = "writing" /\ todo # <<>>
    /\ Idle => todo = <<>>
    /\ \A w \in Items : Ahead(w) => Owed(w)
    /\ ~Idle => \A w \in Items : Owed(w) => OnDisk(w) \/ Ahead(w) \/ (gen = "checking" /\ changed # {})
    /\ gen \in {"written", "current"} => \A w \in Items : Owed(w) => OnDisk(w)

\* The kinds of cell there are, which differ.
LEMMA EntryKinds ==
  /\ Absent[1] = "absent"
  /\ \A x, y : ValueCell(x, y)[1] = "value" /\ ValueCell(x, y)[2] = x /\ ValueCell(x, y)[3] = y
  /\ \A x : ErrorCell(x)[1] = "error" /\ ErrorCell(x)[2] = x
  /\ \A x : Text(x) # None
<1> QED BY DEF Absent, ValueCell, ErrorCell, Text, None

\* What main reconciles of a cell, by the kind of cell.
LEMMA WantedByKind ==
  ASSUME NEW c
  PROVE  /\ Wanted(c, Absent) = <<>>
         /\ \A x, y : Wanted(c, ValueCell(x, y)) =
              <<<<c, "bn", ValueCell(x, y)>>, <<c, "expected", Text(x)>>,
                <<c, "override", IF y # x THEN Text(y) ELSE None>>>>
         /\ \A x : Wanted(c, ErrorCell(x)) = <<<<c, "bn", ErrorCell(x)>>, <<c, "error", Text(x)>>>>
<1>1. Wanted(c, Absent) = <<>>
  BY EntryKinds DEF Wanted
<1>2. ASSUME NEW x, NEW y
      PROVE  Wanted(c, ValueCell(x, y)) =
              <<<<c, "bn", ValueCell(x, y)>>, <<c, "expected", Text(x)>>,
                <<c, "override", IF y # x THEN Text(y) ELSE None>>>>
  <2> DEFINE e == ValueCell(x, y)
  <2>1. e[1] = "value" /\ e[2] = x /\ e[3] = y /\ e # Absent
    BY EntryKinds
  <2> HIDE DEF e
  <2>2. Wanted(c, e) = <<<<c, "bn", e>>, <<c, "expected", Text(x)>>,
                         <<c, "override", IF y # x THEN Text(y) ELSE None>>>>
    BY <2>1 DEF Wanted
  <2> QED BY <2>2 DEF e
<1>3. ASSUME NEW x
      PROVE  Wanted(c, ErrorCell(x)) = <<<<c, "bn", ErrorCell(x)>>, <<c, "error", Text(x)>>>>
  <2> DEFINE e == ErrorCell(x)
  <2>1. e[1] = "error" /\ e[2] = x /\ e # Absent
    BY EntryKinds
  <2> HIDE DEF e
  <2>2. Wanted(c, e) = <<<<c, "bn", e>>, <<c, "error", Text(x)>>>>
    BY <2>1 DEF Wanted
  <2> QED BY <2>2 DEF e
<1> QED BY <1>1, <1>2, <1>3

\* The files of a cell: each is of the cell, and named once.
FilesOf(s, c) ==
  /\ s \in Seq(Items)
  /\ \A j \in 1 .. Len(s) : s[j][1] = c
  /\ \A j, k \in 1 .. Len(s) : s[j][2] = s[k][2] => s[j] = s[k]

LEMMA WantedFiles ==
  ASSUME NEW c \in Cells, NEW entry \in Entries
  PROVE  FilesOf(Wanted(c, entry), c)
<1>1. entry \in Contents /\ None \in Contents /\ \A x \in Outputs : Text(x) \in Contents
  BY DEF Contents
<1>2. CASE entry = Absent
  <2>1. Wanted(c, entry) = <<>>
    BY <1>2, WantedByKind
  <2> QED BY <2>1 DEF FilesOf
<1>3. ASSUME NEW x \in Outputs, NEW y \in Outputs, entry = ValueCell(x, y)
      PROVE  FilesOf(Wanted(c, entry), c)
  <2> DEFINE third == IF y # x THEN Text(y) ELSE None
             a == <<c, "bn", entry>>
             b == <<c, "expected", Text(x)>>
             d == <<c, "override", third>>
  <2>1. Wanted(c, entry) = <<a, b, d>>
    BY <1>3, WantedByKind
  <2>2. third \in Contents
    BY <1>1
  <2>3. a \in Items /\ b \in Items /\ d \in Items
    <3> HIDE DEF third
    <3> QED BY <1>1, <2>2 DEF Items, Exts
  <2>4. a[1] = c /\ b[1] = c /\ d[1] = c /\ a[2] = "bn" /\ b[2] = "expected" /\ d[2] = "override"
    <3> HIDE DEF third
    <3> QED OBVIOUS
  <2> HIDE DEF a, b, d, third
  <2> QED BY <2>1, <2>3, <2>4 DEF FilesOf
<1>4. ASSUME NEW x \in Outputs, entry = ErrorCell(x)
      PROVE  FilesOf(Wanted(c, entry), c)
  <2> DEFINE a == <<c, "bn", entry>>
             b == <<c, "error", Text(x)>>
  <2>1. Wanted(c, entry) = <<a, b>>
    BY <1>4, WantedByKind
  <2>3. a \in Items /\ b \in Items
    BY <1>1 DEF Items, Exts
  <2>4. a[1] = c /\ b[1] = c /\ a[2] = "bn" /\ b[2] = "error"
    OBVIOUS
  <2> HIDE DEF a, b
  <2> QED BY <2>1, <2>3, <2>4 DEF FilesOf
<1> QED BY <1>2, <1>3, <1>4 DEF Entries

\* Order lists every cell.
LEMMA OrderListsAll ==
  /\ Cardinality(Cells) \in Nat
  /\ Order \in [1 .. Cardinality(Cells) -> Cells]
  /\ \A c \in Cells : \E i \in 1 .. Cardinality(Cells) : Order[i] = c
<1> DEFINE n == Cardinality(Cells)
           Lists(s) == \A c \in Cells : \E i \in DOMAIN s : s[i] = c
<1>1. n \in Nat /\ ExistsBijection(1 .. n, Cells)
  BY CellsAssumption, FS_CardinalityType
<1>2. \E s \in [1 .. n -> Cells] : Lists(s)
  <2>1. PICK s \in Bijection(1 .. n, Cells) : TRUE
    BY <1>1 DEF ExistsBijection
  <2>2. s \in [1 .. n -> Cells] /\ \A c \in Cells : \E i \in 1 .. n : s[i] = c
    BY <2>1 DEF Bijection, Surjection
  <2> HIDE DEF n
  <2>3. DOMAIN s = 1 .. n
    BY <2>2
  <2> QED BY <2>2, <2>3
<1>3. Order \in [1 .. n -> Cells] /\ Lists(Order)
  <2>1. Order = CHOOSE s \in [1 .. n -> Cells] : Lists(s)
    BY DEF Order
  <2> HIDE DEF n, Lists
  <2> QED BY <1>2, <2>1
<1> HIDE DEF n
<1>4. DOMAIN Order = 1 .. n
  BY <1>3
<1> QED BY <1>1, <1>3, <1>4 DEF n

\* The elements of a sequence.
Members(s) == {s[i] : i \in 1 .. Len(s)}

LEMMA JoinMembers ==
  ASSUME NEW S
  PROVE  \A s, t \in Seq(S) : s \o t \in Seq(S) /\ Members(s \o t) = Members(s) \cup Members(t)
<1> SUFFICES ASSUME NEW s \in Seq(S), NEW t \in Seq(S)
             PROVE  s \o t \in Seq(S) /\ Members(s \o t) = Members(s) \cup Members(t)
  OBVIOUS
<1> DEFINE u == s \o t
           m == Len(s)
           n == Len(t)
<1>1. u \in Seq(S) /\ Len(u) = m + n /\ m \in Nat /\ n \in Nat
  OBVIOUS
<1>2. \A i \in 1 .. m + n : u[i] = IF i <= m THEN s[i] ELSE t[i - m]
  OBVIOUS
<1> HIDE DEF u, m, n
<1>3. ASSUME NEW i \in 1 .. m + n PROVE u[i] \in Members(s) \cup Members(t)
  <2>1. CASE i <= m
    <3>1. i \in 1 .. m
      BY <1>1, <2>1
    <3> QED BY <3>1, <2>1, <1>1, <1>2 DEF Members, m
  <2>2. CASE ~(i <= m)
    <3>1. i - m \in 1 .. n
      BY <1>1, <2>2
    <3> QED BY <3>1, <2>2, <1>1, <1>2 DEF Members, n
  <2> QED BY <2>1, <2>2
<1>4. ASSUME NEW i \in 1 .. m PROVE s[i] \in Members(u)
  <2>1. i \in 1 .. m + n /\ i <= m
    BY <1>1
  <2> QED BY <2>1, <1>1, <1>2 DEF Members
<1>5. ASSUME NEW i \in 1 .. n PROVE t[i] \in Members(u)
  <2>1. i + m \in 1 .. m + n /\ ~(i + m <= m) /\ (i + m) - m = i
    BY <1>1
  <2>2. u[i + m] = t[i]
    BY <2>1, <1>2
  <2> QED BY <2>1, <2>2, <1>1 DEF Members
<1>6. Members(u) = Members(s) \cup Members(t)
  <2>1. Members(u) = {u[i] : i \in 1 .. m + n} /\ Members(s) = {s[i] : i \in 1 .. m}
        /\ Members(t) = {t[i] : i \in 1 .. n}
    BY <1>1 DEF Members, m, n
  <2>2. Members(u) \subseteq Members(s) \cup Members(t)
    BY <2>1, <1>3
  <2>3. Members(s) \subseteq Members(u) /\ Members(t) \subseteq Members(u)
    BY <2>1, <1>4, <1>5
  <2> QED BY <2>2, <2>3
<1> QED BY <1>1, <1>6 DEF u

\* The function AllOfKind is defined by, which joins the files of the cells
\* in turn.
KindSteps(kind, f) ==
  f = [i \in 0 .. Cardinality(Cells) |-> IF i = 0 THEN <<>> ELSE f[i - 1] \o OfKind(kind, i)]

\* A list of what the table wants, with all of it for these cells.
ListFor(s, cells) ==
  /\ s \in Seq(Items)
  /\ \A w \in Items : w \in Members(s) <=> w[1] \in cells /\ w \in Members(Wanted(w[1], table[w[1]]))

\* The function exists.
LEMMA KindDefined ==
  ASSUME table \in [Cells -> Entries], NEW kind
  PROVE  \E f : KindSteps(kind, f)
<1> DEFINE n == Cardinality(Cells)
           V == Seq(Items)
           G == [i \in 1 .. n |-> [s \in V |-> s \o OfKind(kind, i)]]
           z == <<>>
<1>1. n \in Nat /\ Order \in [1 .. n -> Cells]
  BY OrderListsAll
<1>2. ASSUME NEW i \in 1 .. n PROVE OfKind(kind, i) \in V
  <2>1. Order[i] \in Cells /\ table[Order[i]] \in Entries
    BY <1>1
  <2>2. Wanted(Order[i], table[Order[i]]) \in V
    BY <2>1, WantedFiles DEF FilesOf
  <2>3. <<>> \in V
    OBVIOUS
  <2> HIDE DEF V
  <2> QED BY <2>2, <2>3 DEF OfKind
<1>3. G \in [1 .. n -> [V -> V]]
  <2>1. ASSUME NEW i \in 1 .. n, NEW s \in V
        PROVE  s \o OfKind(kind, i) \in V
    BY <1>2
  <2> QED BY <2>1
<1>4. Stepwise(n, V, z, G)
  <2>1. z \in V
    OBVIOUS
  <2> HIDE DEF n, V, G, z
  <2> QED BY <1>1, <1>3, <2>1, StepByStep
<1>5. PICK f \in [0 .. n -> V] : f[0] = z /\ \A i \in 1 .. n : f[i] = G[i][f[i - 1]]
  <2> HIDE DEF n, V, G, z
  <2> QED BY <1>4 DEF Stepwise
<1>6. ASSUME NEW i \in 0 .. n
      PROVE  f[i] = IF i = 0 THEN <<>> ELSE f[i - 1] \o OfKind(kind, i)
  <2>1. CASE i = 0
    BY <2>1, <1>5
  <2>2. CASE i # 0
    <3>1. i \in 1 .. n /\ i - 1 \in 0 .. n
      BY <1>1, <2>2
    <3>2. f[i] = G[i][f[i - 1]] /\ f[i - 1] \in V
      <4> HIDE DEF G, V, n
      <4> QED BY <3>1, <1>5
    <3>3. G[i][f[i - 1]] = f[i - 1] \o OfKind(kind, i)
      <4> HIDE DEF V, n
      <4> QED BY <3>1, <3>2
    <3> QED BY <2>2, <3>2, <3>3
  <2> QED BY <2>1, <2>2
<1>7. f = [i \in 0 .. n |-> IF i = 0 THEN <<>> ELSE f[i - 1] \o OfKind(kind, i)]
  <2>1. f = [i \in 0 .. n |-> f[i]]
    <3> HIDE DEF n, V, G, z
    <3> QED BY <1>5
  <2> QED BY <2>1, <1>6
<1> QED BY <1>7 DEF KindSteps

\* It lists the files of the cells of the kind.
LEMMA KindLists ==
  ASSUME table \in [Cells -> Entries], NEW kind
  PROVE  ListFor(AllOfKind(kind), {c \in Cells : table[c][1] = kind})
<1> DEFINE n == Cardinality(Cells)
           g == CHOOSE f : KindSteps(kind, f)
           Of(k) == {Order[i] : i \in 1 .. k}
           Right(k) == ListFor(g[k], {c \in Of(k) : table[c][1] = kind})
           T == {k \in 0 .. n : ~Right(k)}
<1>1. n \in Nat /\ Order \in [1 .. n -> Cells] /\ \A c \in Cells : \E i \in 1 .. n : Order[i] = c
  BY OrderListsAll
<1>2. AllOfKind(kind) = g[n]
  BY Zenon DEF AllOfKind, KindSteps
<1>3. KindSteps(kind, g)
  BY KindDefined, Zenon
<1> HIDE DEF g
<1>4. \A i \in 0 .. n : g[i] = IF i = 0 THEN <<>> ELSE g[i - 1] \o OfKind(kind, i)
  <2> DEFINE h == [i \in 0 .. n |-> IF i = 0 THEN <<>> ELSE g[i - 1] \o OfKind(kind, i)]
  <2>1. g = h
    BY <1>3 DEF KindSteps
  <2>2. \A i \in 0 .. n : h[i] = IF i = 0 THEN <<>> ELSE g[i - 1] \o OfKind(kind, i)
    OBVIOUS
  <2> HIDE DEF h
  <2> QED BY <2>1, <2>2
<1> HIDE DEF n
<1>5. Right(0)
  <2>1. g[0] = <<>>
    BY <1>1, <1>4
  <2>2. Members(<<>>) = {} /\ <<>> \in Seq(Items)
    BY DEF Members
  <2>3. Of(0) = {}
    OBVIOUS
  <2> HIDE DEF Of
  <2> QED BY <2>1, <2>2, <2>3 DEF ListFor
<1>6. ASSUME NEW k \in 1 .. n, Right(k - 1) PROVE Right(k)
  <2> DEFINE c == Order[k]
             s == g[k - 1]
             t == OfKind(kind, k)
             old == {d \in Of(k - 1) : table[d][1] = kind}
             new == {d \in Of(k) : table[d][1] = kind}
  <2>1. g[k] = s \o t
    <3>1. k \in 0 .. n /\ k # 0
      BY <1>1
    <3> QED BY <3>1, <1>4, Zenon
  <2>2. c \in Cells /\ table[c] \in Entries
    BY <1>1
  <2>3. FilesOf(Wanted(c, table[c]), c)
    BY <2>2, WantedFiles
  <2>4. Of(k) = Of(k - 1) \cup {c}
    <3>1. 1 .. k = (1 .. k - 1) \cup {k}
      BY <1>1
    <3> QED BY <3>1
  <2>5. t = IF table[c][1] = kind THEN Wanted(c, table[c]) ELSE <<>>
    BY DEF OfKind
  <2>6. ListFor(s, old)
    BY <1>6
  <2> HIDE DEF s, t, c, Of
  <2>7. t \in Seq(Items)
    BY <2>3, <2>5 DEF FilesOf
  <2>8. s \in Seq(Items)
    BY <2>6 DEF ListFor
  <2>9. s \o t \in Seq(Items) /\ Members(s \o t) = Members(s) \cup Members(t)
    BY <2>7, <2>8, JoinMembers
  <2>10. CASE table[c][1] = kind
    <3>1. t = Wanted(c, table[c]) /\ new = old \cup {c}
      BY <2>4, <2>5, <2>10
    <3>2. ASSUME NEW w \in Members(t) PROVE w[1] = c
      BY <3>1, <2>3 DEF FilesOf, Members
    <3> HIDE DEF old, new
    <3>3. ASSUME NEW w \in Items
          PROVE  w \in Members(s \o t) <=> w[1] \in new /\ w \in Members(Wanted(w[1], table[w[1]]))
      <4>1. w \in Members(s) <=> w[1] \in old /\ w \in Members(Wanted(w[1], table[w[1]]))
        BY <2>6 DEF ListFor
      <4>2. w \in Members(t) <=> w[1] = c /\ w \in Members(Wanted(w[1], table[w[1]]))
        BY <3>1, <3>2
      <4> QED BY <2>9, <3>1, <4>1, <4>2
    <3> QED BY <2>1, <2>9, <3>3 DEF ListFor, new
  <2>11. CASE table[c][1] # kind
    <3>1. t = <<>> /\ new = old
      BY <2>4, <2>5, <2>11
    <3>2. Members(t) = {}
      BY <3>1 DEF Members
    <3> HIDE DEF old, new
    <3>3. ASSUME NEW w \in Items
          PROVE  w \in Members(s \o t) <=> w[1] \in new /\ w \in Members(Wanted(w[1], table[w[1]]))
      BY <2>6, <2>9, <3>1, <3>2 DEF ListFor
    <3> QED BY <2>1, <2>9, <3>3 DEF ListFor, new
  <2> QED BY <2>10, <2>11
<1>7. Right(n)
  <2> SUFFICES ASSUME n \in T PROVE FALSE
    BY <1>1
  <2>1. PICK k \in T : \A m \in T : k <= m
    <3>1. T \in SUBSET Nat
      BY <1>1
    <3> HIDE DEF T
    <3> QED BY <3>1, LeastNatural
  <2> HIDE DEF Right
  <2>2. k \in 0 .. n /\ ~Right(k)
    OBVIOUS
  <2>3. k # 0
    BY <1>5, <2>2
  <2>4. k \in 1 .. n /\ k - 1 \in 0 .. n /\ ~(k <= k - 1)
    BY <1>1, <2>2, <2>3
  <2>5. Right(k - 1)
    <3>1. k - 1 \notin T
      <4> HIDE DEF T
      <4> QED BY <2>1, <2>4
    <3> QED BY <3>1, <2>4
  <2> QED BY <1>6, <2>2, <2>4, <2>5
<1>8. Of(n) = Cells
  BY <1>1
<1> HIDE DEF Of
<1> QED BY <1>2, <1>7, <1>8

\* Main reconciles all that the table wants, and nothing else.
LEMMA PlanIsOwed ==
  ASSUME table \in [Cells -> Entries]
  PROVE  Plan \in Seq(Items) /\ \A w \in Items : w \in Members(Plan) <=> Owed(w)
<1> DEFINE p == AllOfKind("value")
           q == AllOfKind("error")
<1>1. ListFor(p, {c \in Cells : table[c][1] = "value"})
  BY KindLists
<1>2. ListFor(q, {c \in Cells : table[c][1] = "error"})
  BY KindLists
<1>3. Plan = p \o q
  BY DEF Plan
<1> HIDE DEF p, q
<1>4. p \in Seq(Items) /\ q \in Seq(Items)
  BY <1>1, <1>2 DEF ListFor
<1>5. p \o q \in Seq(Items) /\ Members(p \o q) = Members(p) \cup Members(q)
  BY <1>4, JoinMembers
<1>6. ASSUME NEW w \in Items
      PROVE  w \in Members(p \o q) <=> Owed(w)
  <2> DEFINE want == Wanted(w[1], table[w[1]])
  <2>1. w[1] \in Cells /\ table[w[1]] \in Entries
    BY DEF Items
  <2>2. Owed(w) <=> w \in Members(want)
    BY DEF Owed, Members
  <2>3. ASSUME w \in Members(want)
        PROVE  table[w[1]][1] = "value" \/ table[w[1]][1] = "error"
    <3>1. table[w[1]] # Absent
      <4>1. Members(<<>>) = {}
        BY DEF Members
      <4> QED BY <2>3, <4>1, WantedByKind
    <3> QED BY <2>1, <3>1, EntryKinds DEF Entries
  <2>4. w \in Members(p) <=> table[w[1]][1] = "value" /\ w \in Members(want)
    BY <1>1, <2>1 DEF ListFor
  <2>5. w \in Members(q) <=> table[w[1]][1] = "error" /\ w \in Members(want)
    BY <1>2, <2>1 DEF ListFor
  <2> HIDE DEF want
  <2> QED BY <1>5, <2>2, <2>3, <2>4, <2>5
<1> QED BY <1>3, <1>5, <1>6

\* The table wants one content of a file.
LEMMA OwedOnce ==
  ASSUME table \in [Cells -> Entries], NEW v \in Items, NEW w \in Items, Owed(v), Owed(w),
         v[1] = w[1], v[2] = w[2]
  PROVE  v = w
<1> DEFINE c == v[1]
           want == Wanted(c, table[c])
<1>1. c \in Cells /\ table[c] \in Entries
  BY DEF Items
<1>2. FilesOf(want, c)
  BY <1>1, WantedFiles
<1>3. PICK j \in 1 .. Len(want) : want[j] = v
  BY DEF Owed
<1>4. PICK k \in 1 .. Len(want) : want[k] = w
  BY DEF Owed
<1> HIDE DEF c, want
<1>5. want[j] = want[k]
  BY <1>2, <1>3, <1>4 DEF FilesOf
<1> QED BY <1>3, <1>4, <1>5

\* What is left of a list after its head.
LEMMA AfterHead ==
  ASSUME NEW S
  PROVE  \A s \in Seq(S) : s # <<>> =>
           /\ s[1] \in S
           /\ SubSeq(s, 2, Len(s)) \in Seq(S)
           /\ \A w : (\E j \in 1 .. Len(s) : s[j] = w) <=>
                     w = s[1] \/ \E j \in 1 .. Len(SubSeq(s, 2, Len(s))) : SubSeq(s, 2, Len(s))[j] = w
<1> SUFFICES ASSUME NEW s \in Seq(S), s # <<>>
             PROVE  /\ s[1] \in S
                    /\ SubSeq(s, 2, Len(s)) \in Seq(S)
                    /\ \A w : (\E j \in 1 .. Len(s) : s[j] = w) <=>
                       w = s[1] \/ \E j \in 1 .. Len(SubSeq(s, 2, Len(s))) : SubSeq(s, 2, Len(s))[j] = w
  OBVIOUS
<1> DEFINE n == Len(s)
           t == SubSeq(s, 2, n)
<1>1. n \in Nat /\ n >= 1 /\ s[1] \in S
  OBVIOUS
<1>2. t \in Seq(S) /\ Len(t) = n - 1 /\ \A j \in 1 .. n - 1 : t[j] = s[j + 1]
  OBVIOUS
<1> HIDE DEF t, n
<1>3. ASSUME NEW k \in 1 .. n PROVE s[k] = s[1] \/ \E j \in 1 .. n - 1 : t[j] = s[k]
  <2>1. CASE k = 1
    BY <2>1
  <2>2. CASE k # 1
    <3>1. k - 1 \in 1 .. n - 1 /\ (k - 1) + 1 = k
      BY <1>1, <2>2
    <3>2. t[k - 1] = s[k]
      BY <3>1, <1>2
    <3> QED BY <3>1, <3>2
  <2> QED BY <2>1, <2>2
<1>4. ASSUME NEW j \in 1 .. n - 1 PROVE j + 1 \in 1 .. n /\ t[j] = s[j + 1]
  BY <1>1, <1>2
<1>5. 1 \in 1 .. n
  BY <1>1
<1>6. \A w : (\E j \in 1 .. n : s[j] = w) <=> w = s[1] \/ \E j \in 1 .. n - 1 : t[j] = w
  BY <1>3, <1>4, <1>5
<1> QED BY <1>1, <1>2, <1>6 DEF t, n

\* Before the first run there is nothing to do and nothing promised.
LEMMA FilesStart == FilesInit => FilesInv
<1> SUFFICES ASSUME FilesInit PROVE FilesInv
  OBVIOUS
<1>1. table \in [Cells -> Entries]
  BY DEF FilesInit, Entries
<1>2. disk \in [Cells -> [Exts -> Contents]]
  <2>1. None \in Contents
    BY DEF Contents
  <2> QED BY <2>1 DEF FilesInit
<1>3. todo = <<>> /\ opened = FALSE /\ gen = "idle"
  BY DEF FilesInit
<1>4. \A w \in Items : ~Ahead(w)
  BY <1>3 DEF Ahead
<1>5. ~opened /\ opened \in BOOLEAN
  BY <1>3
<1>6. Idle /\ todo \in Seq(Items)
  BY <1>3 DEF Idle
<1> QED BY <1>1, <1>2, <1>3, <1>4, <1>5, <1>6 DEF FilesInv

\* Someone edits the table or a file: nothing is promised until the next
\* run.
LEMMA EditsKeep ==
  ASSUME FilesInv, EditTable \/ EditFile
  PROVE  FilesInv'
<1>1. gen' = "idle" /\ todo' = todo /\ opened' = opened /\ Idle
  BY DEF EditTable, EditFile
<1>2. todo = <<>> /\ opened = FALSE
  BY <1>1 DEF FilesInv, Idle
<1>3. table' \in [Cells -> Entries]
  BY DEF FilesInv, EditTable, EditFile
<1>4. disk' \in [Cells -> [Exts -> Contents]]
  <2>1. CASE EditTable
    BY <2>1 DEF EditTable, FilesInv
  <2>2. CASE EditFile
    <3>1. PICK c \in Cells, e \in Exts, t \in {None} \cup {Text(o) : o \in Outputs} :
            disk' = [disk EXCEPT ![c][e] = t]
      BY <2>2 DEF EditFile
    <3>2. t \in Contents
      BY DEF Contents
    <3> QED BY <3>1, <3>2 DEF FilesInv
  <2> QED BY <2>1, <2>2
<1>5. opened' = FALSE /\ todo' = <<>> /\ Idle'
  BY <1>1, <1>2 DEF Idle
<1>6. \A w \in Items : ~Ahead(w)'
  BY <1>5 DEF Ahead
<1>7. opened' \in BOOLEAN /\ ~opened'
  BY <1>5
<1>8. todo' \in Seq(Items)
  BY <1>5
<1> QED BY <1>1, <1>3, <1>4, <1>5, <1>6, <1>7, <1>8 DEF FilesInv

\* A run has all that the table wants before it.
LEMMA StartKeeps ==
  ASSUME FilesInv, StartRun
  PROVE  FilesInv'
<1>1. gen' \in {"checking", "writing"} /\ todo' = Plan /\ opened' = opened /\ table' = table /\ disk' = disk /\ Idle
  BY DEF StartRun
<1>2. opened = FALSE /\ table \in [Cells -> Entries] /\ disk \in [Cells -> [Exts -> Contents]]
  BY <1>1 DEF FilesInv, Idle
<1>3. Plan \in Seq(Items) /\ \A w \in Items : w \in Members(Plan) <=> Owed(w)
  BY <1>2, PlanIsOwed
<1>4. \A w : Owed(w)' <=> Owed(w)
  BY <1>1 DEF Owed
<1>5. \A w : Ahead(w)' <=> w \in Members(Plan)
  BY <1>1 DEF Ahead, Members
<1>7. \A w \in Items : Ahead(w)' => Owed(w)'
  BY <1>3, <1>4, <1>5
<1>8. \A w \in Items : Owed(w)' => Ahead(w)'
  BY <1>3, <1>4, <1>5
<1>9. ~Idle'
  BY <1>1 DEF Idle
<1>10. gen' \notin {"written", "current"}
  BY <1>1
<1>11. ~opened' /\ opened' \in BOOLEAN
  BY <1>1, <1>2
<1> QED BY <1>1, <1>2, <1>3, <1>7, <1>8, <1>9, <1>10, <1>11 DEF FilesInv

\* The next file, when one is left: what is on disk stays there, and what
\* is ahead stays ahead but for this file.
LEMMA NextFile ==
  ASSUME FilesInv, todo # <<>>
  PROVE  /\ todo[1] \in Items /\ Owed(todo[1]) /\ ~Idle
         /\ SubSeq(todo, 2, Len(todo)) \in Seq(Items)
         /\ \A w \in Items : Ahead(w) => Owed(w)
         /\ \A w : Ahead(w) <=> w = todo[1] \/ w \in Members(SubSeq(todo, 2, Len(todo)))
<1> DEFINE rest == SubSeq(todo, 2, Len(todo))
<1>1. todo \in Seq(Items) /\ ~Idle /\ \A w \in Items : Ahead(w) => Owed(w)
  BY DEF FilesInv
<1>3. /\ todo[1] \in Items
      /\ rest \in Seq(Items)
      /\ \A w : (\E j \in 1 .. Len(todo) : todo[j] = w) <=>
                w = todo[1] \/ \E j \in 1 .. Len(rest) : rest[j] = w
  BY <1>1, AfterHead
<1> HIDE DEF rest
<1>5. \A w : Ahead(w) <=> w = todo[1] \/ w \in Members(rest)
  BY <1>3 DEF Ahead, Members
<1> QED BY <1>1, <1>3, <1>5 DEF rest

\* _sync of a file: it is as the table wants it, or it is reported, or it
\* is about to be written.
LEMMA SyncKeeps ==
  ASSUME FilesInv, Sync
  PROVE  FilesInv'
<1> DEFINE v == todo[1]
           rest == SubSeq(todo, 2, Len(todo))
           differs == disk[v[1]][v[2]] # v[3]
           writes == gen = "writing" /\ differs
<1>1. /\ gen \in {"checking", "writing"} /\ todo # <<>> /\ ~opened
      /\ changed' = IF differs THEN changed \cup {<<v[1], v[2]>>} ELSE changed
      /\ opened' = (writes /\ v[3] # None)
      /\ disk' = IF writes THEN [disk EXCEPT ![v[1]][v[2]] = IF v[3] = None THEN None ELSE Torn] ELSE disk
      /\ todo' = IF writes /\ v[3] # None THEN todo ELSE rest
      /\ table' = table /\ gen' = gen
  BY DEF Sync
<1>2. /\ v \in Items /\ Owed(v) /\ ~Idle
      /\ rest \in Seq(Items)
      /\ \A w \in Items : Ahead(w) => Owed(w)
      /\ \A w : Ahead(w) <=> w = v \/ w \in Members(rest)
  <2>1. \A w \in Items : Ahead(w) => Owed(w)
    BY DEF FilesInv
  <2>2. /\ todo[1] \in Items /\ Owed(todo[1]) /\ ~Idle
        /\ SubSeq(todo, 2, Len(todo)) \in Seq(Items)
        /\ \A w : Ahead(w) <=> w = todo[1] \/ w \in Members(SubSeq(todo, 2, Len(todo)))
    BY <1>1, NextFile
  <2> QED BY <2>1, <2>2
<1> HIDE DEF v, rest
<1>3. v[1] \in Cells /\ v[2] \in Exts /\ v[3] \in Contents
  BY <1>2 DEF Items
<1>4. table \in [Cells -> Entries] /\ disk \in [Cells -> [Exts -> Contents]] /\ todo \in Seq(Items)
  BY DEF FilesInv
<1>5. disk' \in [Cells -> [Exts -> Contents]]
  <2>1. None \in Contents /\ Torn \in Contents
    BY DEF Contents
  <2> QED BY <1>1, <1>3, <1>4, <2>1
<1>6. todo' \in Seq(Items)
  BY <1>1, <1>2, <1>4
<1>7. \A w : Owed(w)' <=> Owed(w)
  BY <1>1 DEF Owed
<1>8. \A w \in Items : Owed(w) => OnDisk(w) \/ Ahead(w) \/ (gen = "checking" /\ changed # {})
  BY <1>2 DEF FilesInv
<1>9. ~Idle' /\ gen' \notin {"written", "current"}
  BY <1>1 DEF Idle
\* Another file is left alone.
<1>10. ASSUME NEW w \in Items, Owed(w), w # v
       PROVE  OnDisk(w)' <=> OnDisk(w)
  <2>1. w[1] # v[1] \/ w[2] # v[2]
    BY <1>2, <1>4, <1>10, OwedOnce
  <2>2. w[1] \in Cells /\ w[2] \in Exts
    BY DEF Items
  <2>3. disk'[w[1]][w[2]] = disk[w[1]][w[2]]
    BY <1>1, <1>3, <1>4, <2>1, <2>2
  <2> QED BY <2>3 DEF OnDisk
<1>11. CASE writes /\ v[3] # None
  <2>1. todo' = todo /\ opened' = TRUE /\ gen = "writing"
    BY <1>1, <1>11
  <2>2. \A w : Ahead(w)' <=> Ahead(w)
    BY <2>1 DEF Ahead
  <2>3. \A w \in Items : Ahead(w)' => Owed(w)'
    BY <1>2, <1>7, <2>2
  <2>4. \A w \in Items : Owed(w)' => OnDisk(w)' \/ Ahead(w)'
    BY <1>2, <1>7, <1>8, <1>10, <2>1, <2>2
  <2>5. opened' \in BOOLEAN /\ (opened' => gen' = "writing" /\ todo' # <<>>)
    BY <1>1, <2>1
  <2> QED BY <1>1, <1>4, <1>5, <1>6, <1>9, <2>3, <2>4, <2>5 DEF FilesInv
<1>12. CASE ~(writes /\ v[3] # None)
  <2>1. todo' = rest /\ ~opened' /\ opened' \in BOOLEAN
    <3>1. opened' = FALSE
      BY <1>1, <1>12
    <3> QED BY <1>1, <1>12, <3>1
  <2>2. \A w : Ahead(w)' <=> w \in Members(rest)
    BY <2>1 DEF Ahead, Members
  <2>3. \A w \in Items : Ahead(w)' => Owed(w)'
    BY <1>2, <1>7, <2>2
  <2>4. disk'[v[1]][v[2]] = v[3] \/ (gen = "checking" /\ changed' # {})
    <3>1. CASE writes
      <4>1. v[3] = None
        BY <1>12, <3>1
      <4>2. disk'[v[1]][v[2]] = None
        BY <1>1, <1>3, <1>4, <3>1, <4>1
      <4>3. disk'[v[1]][v[2]] = v[3]
        BY <4>1, <4>2
      <4> QED BY <4>3
    <3>2. CASE ~writes /\ differs
      BY <1>1, <3>2
    <3>3. CASE ~writes /\ ~differs
      <4>1. disk' = disk
        BY <1>1, <3>3
      <4>2. disk'[v[1]][v[2]] = v[3]
        BY <3>3, <4>1
      <4> QED BY <4>2
    <3> QED BY <3>1, <3>2, <3>3
  <2>5. changed # {} => changed' # {}
    BY <1>1
  <2>6. ASSUME NEW w \in Items, Owed(w)
        PROVE  OnDisk(w)' \/ Ahead(w)' \/ (gen' = "checking" /\ changed' # {})
    <3>1. CASE w = v
      <4>1. disk'[w[1]][w[2]] = w[3] \/ (gen = "checking" /\ changed' # {})
        BY <3>1, <2>4
      <4> QED BY <4>1, <1>1 DEF OnDisk
    <3>2. CASE w # v
      BY <3>2, <2>6, <1>1, <1>2, <1>8, <1>10, <2>2, <2>5
    <3> QED BY <3>1, <3>2
  <2> QED BY <1>1, <1>4, <1>5, <1>6, <1>7, <1>9, <2>1, <2>3, <2>6 DEF FilesInv
<1> QED BY <1>11, <1>12

\* The write: the file is as the table wants it.
LEMMA WriteKeeps ==
  ASSUME FilesInv, WriteFile
  PROVE  FilesInv'
<1> DEFINE v == todo[1]
           rest == SubSeq(todo, 2, Len(todo))
<1>1. /\ gen = "writing" /\ todo # <<>>
      /\ disk' = [disk EXCEPT ![v[1]][v[2]] = v[3]]
      /\ opened' = FALSE /\ todo' = rest /\ table' = table /\ gen' = gen
  BY DEF WriteFile, FilesInv
<1>2. /\ v \in Items /\ Owed(v)
      /\ rest \in Seq(Items)
      /\ \A w : Ahead(w) <=> w = v \/ w \in Members(rest)
  BY <1>1, NextFile
<1> HIDE DEF v, rest
<1>3. v[1] \in Cells /\ v[2] \in Exts /\ v[3] \in Contents
  BY <1>2 DEF Items
<1>4. table \in [Cells -> Entries] /\ disk \in [Cells -> [Exts -> Contents]]
  BY DEF FilesInv
<1>5. disk' \in [Cells -> [Exts -> Contents]]
  BY <1>1, <1>3, <1>4
<1>6. \A w : Owed(w)' <=> Owed(w)
  BY <1>1 DEF Owed
<1>7. \A w : Ahead(w)' <=> w \in Members(rest)
  BY <1>1 DEF Ahead, Members
<1>8. \A w \in Items : Ahead(w) => Owed(w)
  BY DEF FilesInv
<1>9. \A w \in Items : Ahead(w)' => Owed(w)'
  BY <1>2, <1>6, <1>7, <1>8
<1>10. \A w \in Items : Owed(w) => OnDisk(w) \/ Ahead(w)
  BY <1>1 DEF FilesInv, Idle
<1>11. ASSUME NEW w \in Items, Owed(w)
       PROVE  OnDisk(w)' \/ Ahead(w)'
  <2>1. w[1] \in Cells /\ w[2] \in Exts
    BY DEF Items
  <2>2. CASE w = v
    <3>1. disk'[w[1]][w[2]] = w[3]
      BY <1>1, <1>3, <1>4, <2>2
    <3> QED BY <3>1 DEF OnDisk
  <2>3. CASE w # v
    <3>1. w[1] # v[1] \/ w[2] # v[2]
      BY <1>2, <1>4, <1>11, <2>3, OwedOnce
    <3>2. disk'[w[1]][w[2]] = disk[w[1]][w[2]]
      BY <1>1, <1>3, <1>4, <2>1, <3>1
    <3>3. OnDisk(w) => OnDisk(w)'
      BY <3>2 DEF OnDisk
    <3> QED BY <1>2, <1>7, <1>10, <1>11, <2>3, <3>3
  <2> QED BY <2>2, <2>3
<1>12. \A w \in Items : Owed(w)' => OnDisk(w)' \/ Ahead(w)'
  BY <1>6, <1>11
<1>13. ~Idle' /\ gen' \notin {"written", "current"}
  BY <1>1 DEF Idle
<1>14. ~opened' /\ opened' \in BOOLEAN
  BY <1>1
<1>15. todo' \in Seq(Items)
  BY <1>1, <1>2
<1> QED BY <1>1, <1>4, <1>5, <1>9, <1>12, <1>13, <1>14, <1>15 DEF FilesInv

\* A run ends with nothing ahead, or is killed and promises nothing.
LEMMA EndKeeps ==
  ASSUME FilesInv, EndRun \/ Kill
  PROVE  FilesInv'
<1>1. /\ gen \in {"checking", "writing"} /\ todo' = <<>>
      /\ table' = table /\ disk' = disk
      /\ gen' \in {"written", "current", "stale", "idle"}
  BY DEF EndRun, Kill
<1>2. ~opened' /\ opened' \in BOOLEAN
  <2>1. CASE EndRun
    <3>1. todo = <<>> /\ opened' = opened
      BY <2>1 DEF EndRun
    <3> QED BY <3>1 DEF FilesInv
  <2>2. CASE Kill
    <3>1. opened' = FALSE
      BY <2>2 DEF Kill
    <3> QED BY <3>1
  <2> QED BY <2>1, <2>2
<1>3. table' \in [Cells -> Entries] /\ disk' \in [Cells -> [Exts -> Contents]]
  BY <1>1 DEF FilesInv
<1>a. todo' = <<>>
  BY <1>1
<1>4. \A w \in Items : ~Ahead(w)'
  BY <1>a DEF Ahead
<1>b. todo' \in Seq(Items)
  BY <1>a
<1>5. Idle' /\ todo' \in Seq(Items)
  BY <1>1, <1>b DEF Idle
<1>6. ASSUME gen' \in {"written", "current"}
      PROVE  \A w \in Items : Owed(w)' => OnDisk(w)'
  <2>1. EndRun
    BY <1>6 DEF Kill
  <2>2. todo = <<>> /\ (gen = "checking" => changed = {})
    BY <1>6, <2>1 DEF EndRun
  <2>3. \A w \in Items : Owed(w) => OnDisk(w) \/ Ahead(w)
    BY <1>1, <2>2 DEF FilesInv, Idle
  <2>4. \A w \in Items : ~Ahead(w)
    BY <2>2 DEF Ahead
  <2>5. \A w : (Owed(w)' <=> Owed(w)) /\ (OnDisk(w)' <=> OnDisk(w))
    BY <1>1 DEF Owed, OnDisk
  <2> QED BY <2>3, <2>4, <2>5
<1> QED BY <1>2, <1>3, <1>4, <1>5, <1>6, <1>1 DEF FilesInv

LEMMA FilesKeep ==
  ASSUME FilesInv, [FilesNext]_files
  PROVE  FilesInv'
<1>1. CASE EditTable \/ EditFile
  BY <1>1, EditsKeep
<1>2. CASE StartRun
  BY <1>2, StartKeeps
<1>3. CASE Sync
  BY <1>3, SyncKeeps
<1>4. CASE WriteFile
  BY <1>4, WriteKeeps
<1>5. CASE EndRun \/ Kill
  BY <1>5, EndKeeps
<1>6. CASE UNCHANGED files
  BY <1>6 DEF files, FilesInv, Idle, Owed, Ahead, OnDisk
<1> QED BY <1>1, <1>2, <1>3, <1>4, <1>5, <1>6 DEF FilesNext

(* What the table wants is on disk or yet to be reconciled, as FilesInv    *)
(* says, at every step of every run of the generator.                      *)
THEOREM FilesInvHolds == FilesSpec => []FilesInv
<1>1. FilesInv /\ [FilesNext]_files => FilesInv'
  BY FilesKeep
<1> QED BY FilesStart, <1>1, PTL DEF FilesSpec

\* A file the table wants is on disk after a run that was not cut short.
LEMMA AsWanted ==
  ASSUME FilesInv, gen \in {"written", "current"}, NEW c \in Cells,
         NEW j \in 1 .. Len(Wanted(c, table[c]))
  PROVE  /\ Wanted(c, table[c])[j][1] = c
         /\ disk[c][Wanted(c, table[c])[j][2]] = Wanted(c, table[c])[j][3]
<1> DEFINE want == Wanted(c, table[c])
           w == want[j]
<1>1. table[c] \in Entries
  BY DEF FilesInv
<1>2. FilesOf(want, c)
  BY <1>1, WantedFiles
<1>3. \A i \in Items : Owed(i) => OnDisk(i)
  BY DEF FilesInv
<1>a. j \in 1 .. Len(want)
  OBVIOUS
<1> HIDE DEF want
<1>4. w \in Items /\ w[1] = c
  BY <1>a, <1>2 DEF FilesOf
<1>5. Owed(w)
  <2>1. \E k \in 1 .. Len(want) : want[k] = w
    BY DEF want
  <2>2. want = Wanted(w[1], table[w[1]])
    BY <1>4 DEF want
  <2> HIDE DEF w
  <2> QED BY <2>1, <2>2 DEF Owed
<1>6. disk[w[1]][w[2]] = w[3]
  BY <1>3, <1>4, <1>5 DEF OnDisk
<1> QED BY <1>4, <1>6 DEF want

\* The files of a cell that run.sh looks at, once they are as wanted.
LEMMA OutputOnDisk ==
  ASSUME FilesInv, gen \in {"written", "current"}, NEW c \in Cells,
         NEW x \in Outputs, NEW y \in Outputs, table[c] = ValueCell(x, y)
  PROVE  /\ disk[c]["bn"] = table[c] /\ disk[c]["expected"] = Text(x)
         /\ disk[c]["override"] = IF y # x THEN Text(y) ELSE None
<1> DEFINE want == Wanted(c, table[c])
           third == IF y # x THEN Text(y) ELSE None
<1>1. want = <<<<c, "bn", table[c]>>, <<c, "expected", Text(x)>>, <<c, "override", third>>>>
  BY WantedByKind
<1> HIDE DEF third
<1>2. Len(want) = 3 /\ want[1] = <<c, "bn", table[c]>> /\ want[2] = <<c, "expected", Text(x)>>
      /\ want[3] = <<c, "override", third>>
  <2> HIDE DEF want
  <2> QED BY <1>1
<1>3. \A j \in 1 .. Len(want) : disk[c][want[j][2]] = want[j][3]
  BY AsWanted
<1> HIDE DEF want
<1>4. 1 \in 1 .. Len(want) /\ 2 \in 1 .. Len(want) /\ 3 \in 1 .. Len(want)
  BY <1>2
<1>5. disk[c][want[1][2]] = want[1][3] /\ disk[c][want[2][2]] = want[2][3] /\ disk[c][want[3][2]] = want[3][3]
  BY <1>3, <1>4
<1> QED BY <1>2, <1>5 DEF third

LEMMA ErrorOnDisk ==
  ASSUME FilesInv, gen \in {"written", "current"}, NEW c \in Cells,
         NEW x \in Outputs, table[c] = ErrorCell(x)
  PROVE  disk[c]["bn"] = table[c] /\ disk[c]["error"] = Text(x)
<1> DEFINE want == Wanted(c, table[c])
<1>1. want = <<<<c, "bn", table[c]>>, <<c, "error", Text(x)>>>>
  BY WantedByKind
<1>2. Len(want) = 2 /\ want[1] = <<c, "bn", table[c]>> /\ want[2] = <<c, "error", Text(x)>>
  <2> HIDE DEF want
  <2> QED BY <1>1
<1>3. \A j \in 1 .. Len(want) : disk[c][want[j][2]] = want[j][3]
  BY AsWanted
<1> HIDE DEF want
<1>a. Len(want) = 2
  BY <1>2
<1>4. 1 \in 1 .. Len(want) /\ 2 \in 1 .. Len(want)
  BY <1>a
<1>5. disk[c][want[1][2]] = want[1][3] /\ disk[c][want[2][2]] = want[2][3]
  BY <1>3, <1>4
<1> QED BY <1>2, <1>5

(* Once a run has written the matrix or found it up to date, each cell is  *)
(* judged on every target by what the generator means, for any cells,      *)
(* whatever was edited and however earlier runs were cut short; but for    *)
(* those marked as known failures and those left with an .error.           *)
THEOREM JudgedAsMeantAlways == FilesSpec => []JudgedAsMeant
<1>1. FilesInv => JudgedAsMeant
  <2> SUFFICES ASSUME FilesInv, gen \in {"written", "current"}, NEW c \in Cells,
                      table[c] # Absent, disk[c]["xfail"] = None,
                      table[c][1] = "error" \/ disk[c]["error"] = None
               PROVE  /\ disk[c]["bn"] = table[c]
                      /\ \A ilp32 \in BOOLEAN : Judged(disk[c], ilp32) = Meant(table[c], ilp32)
    BY DEF JudgedAsMeant
  <2> DEFINE d == disk[c]
             entry == table[c]
  <2>1. \/ \E x, y \in Outputs : entry = ValueCell(x, y)
        \/ \E x \in Outputs : entry = ErrorCell(x)
    <3>1. entry \in Entries /\ entry # Absent
      BY DEF FilesInv
    <3> QED BY <3>1 DEF Entries
  <2>2. ASSUME NEW x \in Outputs, NEW y \in Outputs, entry = ValueCell(x, y)
        PROVE  /\ disk[c]["bn"] = table[c]
               /\ \A ilp32 \in BOOLEAN : Judged(disk[c], ilp32) = Meant(table[c], ilp32)
    <3>1. /\ d["bn"] = entry /\ d["expected"] = Text(x)
          /\ d["override"] = IF y # x THEN Text(y) ELSE None
      BY <2>2, OutputOnDisk
    <3>2. entry[1] = "value" /\ entry[2] = x /\ entry[3] = y
      <4> HIDE DEF entry
      <4> QED BY <2>2, EntryKinds
    <3>3. Text(x) # None /\ Text(y) # None
      BY EntryKinds
    <3>4. d["xfail"] = None /\ d["error"] = None
      BY <3>2
    <3> HIDE DEF d, entry
    <3>5. Judged(d, TRUE) = <<"output", Text(y)>> /\ Judged(d, FALSE) = <<"output", Text(x)>>
      <4>1. CASE y = x
        BY <4>1, <3>1, <3>3, <3>4 DEF Judged
      <4>2. CASE y # x
        BY <4>2, <3>1, <3>3, <3>4 DEF Judged
      <4> QED BY <4>1, <4>2
    <3>6. Meant(entry, TRUE) = <<"output", Text(y)>> /\ Meant(entry, FALSE) = <<"output", Text(x)>>
      BY <3>2 DEF Meant
    <3>7. \A ilp32 \in BOOLEAN : Judged(d, ilp32) = Meant(entry, ilp32)
      BY <3>5, <3>6
    <3> QED BY <3>1, <3>7 DEF d, entry
  <2>3. ASSUME NEW x \in Outputs, entry = ErrorCell(x)
        PROVE  /\ disk[c]["bn"] = table[c]
               /\ \A ilp32 \in BOOLEAN : Judged(disk[c], ilp32) = Meant(table[c], ilp32)
    <3>1. d["bn"] = entry /\ d["error"] = Text(x)
      BY <2>3, ErrorOnDisk
    <3>2. entry[1] = "error" /\ entry[2] = x /\ Text(x) # None
      <4> HIDE DEF entry
      <4> QED BY <2>3, EntryKinds
    <3>3. d["xfail"] = None
      OBVIOUS
    <3> HIDE DEF d, entry
    <3>4. \A ilp32 \in BOOLEAN : Judged(d, ilp32) = Meant(entry, ilp32)
      BY <3>1, <3>2, <3>3 DEF Judged, Meant
    <3> QED BY <3>1, <3>4 DEF d, entry
  <2> HIDE DEF entry
  <2> QED BY <2>1, <2>2, <2>3
<1> QED BY FilesInvHolds, <1>1, PTL

(***************************************************************************)
(* Placement: a probe moves no function but the probed one.  First, what   *)
(* aligning and the formulas of the filler give.                           *)
(***************************************************************************)
\* A quotient and a remainder in range are the quotient and the remainder.
LEMMA Quotient ==
  ASSUME NEW u \in Nat \ {0}, NEW q \in Int, NEW r \in 0 .. u - 1
  PROVE  (q * u + r) \div u = q /\ (q * u + r) % u = r
  OBVIOUS

LEMMA Quotients ==
  ASSUME NEW u \in Nat \ {0}, NEW x \in Int
  PROVE  x \div u \in Int /\ x % u \in 0 .. u - 1 /\ x = (x \div u) * u + (x % u)
  OBVIOUS

\* Multiples.
LEMMA MultipleIs ==
  ASSUME NEW u \in Nat \ {0}, NEW x \in Int, x % u = 0
  PROVE  \E k \in Int : x = k * u
  <1> DEFINE q == x \div u
             r == x % u
  <1>1. q \in Int /\ r = 0 /\ x = q * u + r
    BY Quotients
  <1> HIDE DEF q, r
  <1>2. q * u \in Int
    BY <1>1
  <1>3. x = q * u
    BY <1>1, <1>2
  <1> QED BY <1>1, <1>3

LEMMA IsMultiple ==
  ASSUME NEW u \in Nat \ {0}, NEW x \in Int, NEW k \in Int, x = k * u
  PROVE  x % u = 0
  <1>1. 0 \in 0 .. u - 1 /\ k * u + 0 = x
    OBVIOUS
  <1> QED BY <1>1, Quotient

LEMMA MultiplesAdd ==
  ASSUME NEW u \in Nat \ {0}, NEW x \in Int, NEW y \in Int, x % u = 0, y % u = 0
  PROVE  (x + y) % u = 0 /\ (x - y) % u = 0
  <1>1. PICK k \in Int : x = k * u
    BY MultipleIs
  <1>2. PICK l \in Int : y = l * u
    BY MultipleIs
  <1>3. x + y = (k + l) * u /\ x - y = (k - l) * u
    BY <1>1, <1>2
  <1>4. x + y \in Int /\ x - y \in Int /\ k + l \in Int /\ k - l \in Int
    OBVIOUS
  <1> QED BY <1>3, <1>4, IsMultiple

LEMMA AlignIs ==
  ASSUME NEW u \in Nat \ {0}, NEW x \in Nat
  PROVE  /\ AlignUp(x, u) \in Nat /\ x <= AlignUp(x, u) /\ AlignUp(x, u) < x + u
         /\ AlignUp(x, u) % u = 0
  <1> DEFINE y == x + u - 1
             q == y \div u
             r == y % u
  <1>1. y \in Nat
    OBVIOUS
  <1>2. q \in Int /\ r \in 0 .. u - 1 /\ y = q * u + r
    <2> HIDE DEF y
    <2> QED BY <1>1, Quotients
  <1>3. AlignUp(x, u) = q * u
    BY DEF AlignUp
  <1> HIDE DEF q, r
  <1>4. q * u \in Int
    BY <1>2
  <1>5. q * u = y - r
    BY <1>2, <1>4
  <1>6. (q * u) % u = 0
    BY <1>2, <1>4, IsMultiple
  <1> QED BY <1>2, <1>3, <1>4, <1>5, <1>6

\* The least multiple.
LEMMA AlignLeast ==
  ASSUME NEW u \in Nat \ {0}, NEW x \in Nat, NEW a \in Int, x <= a, a < x + u, a % u = 0
  PROVE  AlignUp(x, u) = a
  <1>1. PICK k \in Int : a = k * u
    BY MultipleIs
  <1> DEFINE r == x + u - 1 - a
  <1>2. r \in 0 .. u - 1 /\ x + u - 1 = k * u + r
    BY <1>1
  <1>3. (x + u - 1) \div u = k
    <2> HIDE DEF r
    <2> QED BY <1>2, Quotient
  <1> QED BY <1>1, <1>3 DEF AlignUp

LEMMA AlignPast ==
  ASSUME NEW u \in Nat \ {0}, NEW x \in Nat, NEW f \in Nat, f % u = 0
  PROVE  AlignUp(x + f, u) = AlignUp(x, u) + f
  <1> DEFINE a == AlignUp(x, u)
  <1>1. a \in Nat /\ x <= a /\ a < x + u /\ a % u = 0
    BY AlignIs
  <1> HIDE DEF a
  <1>2. (a + f) % u = 0
    <2>1. a \in Int /\ f \in Int
      BY <1>1
    <2> QED BY <2>1, <1>1, MultiplesAdd
  <1>3. AlignUp(x + f, u) = a + f
    <2> DEFINE z == x + f
               c == a + f
    <2>1. z \in Nat /\ c \in Int /\ z <= c /\ c < z + u /\ c % u = 0
      BY <1>1, <1>2
    <2> HIDE DEF z, c
    <2>2. AlignUp(z, u) = c
      BY <2>1, AlignLeast
    <2> QED BY <2>2 DEF z, c
  <1> QED BY <1>3 DEF a

\* A multiple of the unit is a phase modulo the span.
LEMMA PhaseIs ==
  ASSUME NEW x \in Int, x % Unit = 0
  PROVE  x % Span \in Phases
  <1> DEFINE q == x \div Span
             r == x % Span
  <1>1. Span \in Nat \ {0} /\ Unit \in Nat \ {0}
    BY SpanAssumption
  <1>2. q \in Int /\ r \in 0 .. Span - 1 /\ x = q * Span + r
    BY <1>1, Quotients
  <1> HIDE DEF q
  <1>3. q * Span \in Int /\ (q * Span) % Unit = 0
    <2>1. PICK k \in Int : Span = k * Unit
      <3>1. Span \in Int /\ Span % Unit = 0
        BY SpanAssumption
      <3> QED BY <3>1, <1>1, MultipleIs
    <2>2. q * Span = (q * k) * Unit /\ q * k \in Int /\ q * Span \in Int
      BY <2>1, <1>1, <1>2
    <2> QED BY <2>2, <1>1, IsMultiple
  <1>4. r % Unit = 0
    <2> HIDE DEF r
    <2>1. r = x - q * Span /\ r \in Int
      BY <1>1, <1>2, <1>3
    <2> QED BY <2>1, <1>1, <1>3, MultiplesAdd
  <1> HIDE DEF r
  <1>5. r \in Phases
    BY <1>2, <1>4 DEF Phases
  <1> QED BY <1>5 DEF r

(***************************************************************************)
(* The text of an object, by its end and by its items that are not of the  *)
(* probed function.                                                        *)
(***************************************************************************)
TextItems == [a : Nat, n : Nat, c : {"CODE", "FILL", "GAP", "PAD"},
              of : {"body", "alias", "copy", "package", "none"} \X (Names \cup {NoProbe})]
OtherCode(text, probe) == {text[j] : j \in {m \in DOMAIN text : text[m].c = "CODE" /\ text[m].of[2] # probe}}

LEMMA EndIs ==
  ASSUME NEW text \in Seq(TextItems)
  PROVE  EndOf(text) \in Nat
  <1>1. CASE text = <<>>
    BY <1>1 DEF EndOf
  <1>2. CASE text # <<>>
    <2>1. Last(text) = text[Len(text)] /\ Len(text) \in 1 .. Len(text)
      BY <1>2 DEF Last
    <2>2. Last(text) \in TextItems
      BY <2>1
    <2> QED BY <1>2, <2>2 DEF EndOf, TextItems
  <1> QED BY <1>1, <1>2

\* One item more.
LEMMA AppendedIs ==
  ASSUME NEW text \in Seq(TextItems), NEW it \in TextItems, NEW probe
  PROVE  /\ Append(text, it) \in Seq(TextItems) /\ EndOf(Append(text, it)) = it.a + it.n
         /\ OtherCode(Append(text, it), probe) =
              OtherCode(text, probe) \cup (IF it.c = "CODE" /\ it.of[2] # probe THEN {it} ELSE {})
  <1> DEFINE t == Append(text, it)
             n == Len(text)
  <1>1. /\ t \in Seq(TextItems) /\ n \in Nat /\ Len(t) = n + 1 /\ t[n + 1] = it
        /\ \A i \in 1 .. n : t[i] = text[i]
    BY AppendProperties
  <1>2. DOMAIN t = 1 .. n + 1 /\ DOMAIN text = 1 .. n /\ t # <<>>
    <2>1. DOMAIN t = 1 .. Len(t) /\ DOMAIN text = 1 .. n
      BY <1>1
    <2> QED BY <1>1, <2>1
  <1> HIDE DEF t, n
  <1>3. EndOf(t) = it.a + it.n
    BY <1>1, <1>2 DEF EndOf, Last
  <1>4. \A i \in 1 .. n + 1 : i \in 1 .. n \/ i = n + 1
    BY <1>1
  <1>5. \A i \in 1 .. n : i \in 1 .. n + 1
    BY <1>1
  <1>6. n + 1 \in 1 .. n + 1
    BY <1>1
  <1>7. OtherCode(t, probe) = OtherCode(text, probe) \cup (IF it.c = "CODE" /\ it.of[2] # probe THEN {it} ELSE {})
    BY <1>1, <1>2, <1>4, <1>5, <1>6 DEF OtherCode
  <1> QED BY <1>1, <1>3, <1>7 DEF t

\* Bytes that are no code change the end only.
LEMMA PutIs ==
  ASSUME NEW text \in Seq(TextItems), NEW n \in Nat, NEW c \in {"FILL", "GAP", "PAD"}, NEW probe
  PROVE  /\ Put(text, n, c, Nothing) \in Seq(TextItems)
         /\ EndOf(Put(text, n, c, Nothing)) = EndOf(text) + n
         /\ OtherCode(Put(text, n, c, Nothing), probe) = OtherCode(text, probe)
  <1>1. EndOf(text) \in Nat
    BY EndIs
  <1>2. CASE n = 0
    <2>1. Put(text, n, c, Nothing) = text
      BY <1>2 DEF Put
    <2> QED BY <1>1, <1>2, <2>1
  <1>3. CASE n # 0 /\ text # <<>> /\ Last(text).c = c
    <2> DEFINE k == Len(text)
               t == [text EXCEPT ![k].n = @ + n]
    <2>1. Put(text, n, c, Nothing) = t
      BY <1>3 DEF Put
    <2>2. k \in Nat \ {0} /\ k \in 1 .. k /\ DOMAIN text = 1 .. k /\ Last(text) = text[k] /\ text[k] \in TextItems
      BY <1>3 DEF Last
    <2> DEFINE old == text[k]
               it == [old EXCEPT !.n = @ + n]
    <2>3. it \in TextItems /\ it.a = text[k].a /\ it.n = text[k].n + n /\ it.c = c
      <3>1. old \in TextItems /\ old.c = c
        BY <1>3, <2>2
      <3> HIDE DEF old
      <3>2. it = [a |-> old.a, n |-> old.n + n, c |-> old.c, of |-> old.of]
        BY <3>1 DEF TextItems
      <3>3. old.a \in Nat /\ old.n \in Nat /\ old.n + n \in Nat
        BY <3>1 DEF TextItems
      <3>4. it \in TextItems /\ it.a = old.a /\ it.n = old.n + n /\ it.c = c
        BY <3>1, <3>2, <3>3 DEF TextItems
      <3> QED BY <3>4 DEF old
    <2>4. t = [text EXCEPT ![k] = it]
      OBVIOUS
    <2>5. t \in Seq(TextItems) /\ Len(t) = k /\ DOMAIN t = 1 .. k /\ t[k] = it
          /\ \A i \in 1 .. k : i # k => t[i] = text[i]
      <3> HIDE DEF it
      <3> QED BY <2>2, <2>3, <2>4
    <2> HIDE DEF it, t, k
    <2>6. t # <<>> /\ Last(t) = it
      BY <2>2, <2>5 DEF Last
    <2>7. EndOf(t) = EndOf(text) + n
      <3>1. EndOf(text) = text[k].a + text[k].n
        BY <1>3, <2>2 DEF EndOf
      <3>2. EndOf(t) = it.a + it.n
        BY <2>6 DEF EndOf
      <3>3. text[k].a \in Nat /\ text[k].n \in Nat
        BY <2>2 DEF TextItems
      <3> QED BY <2>3, <3>1, <3>2, <3>3
    <2>8. OtherCode(t, probe) = OtherCode(text, probe)
      <3>1. t[k].c # "CODE" /\ text[k].c # "CODE"
        BY <1>3, <2>2, <2>3, <2>5
      <3> QED BY <2>2, <2>5, <3>1 DEF OtherCode
    <2> QED BY <2>1, <2>5, <2>7, <2>8
  <1>4. CASE n # 0 /\ ~(text # <<>> /\ Last(text).c = c)
    <2> DEFINE it == Item(EndOf(text), n, c, Nothing)
    <2>1. Put(text, n, c, Nothing) = Append(text, it)
      BY <1>4 DEF Put
    <2>2. it \in TextItems /\ it.a = EndOf(text) /\ it.n = n /\ it.c = c /\ c # "CODE"
      BY <1>1 DEF Item, TextItems, Nothing
    <2> HIDE DEF it
    <2>3. /\ Append(text, it) \in Seq(TextItems) /\ EndOf(Append(text, it)) = it.a + it.n
          /\ OtherCode(Append(text, it), probe) =
               OtherCode(text, probe) \cup (IF it.c = "CODE" /\ it.of[2] # probe THEN {it} ELSE {})
      BY <2>2, AppendedIs
    <2>4. ~(it.c = "CODE" /\ it.of[2] # probe)
      BY <2>2
    <2>5. OtherCode(Append(text, it), probe) = OtherCode(text, probe)
      BY <2>3, <2>4
    <2> QED BY <2>1, <2>2, <2>3, <2>5
  <1> QED BY <1>2, <1>3, <1>4

LEMMA AlignedIs ==
  ASSUME NEW text \in Seq(TextItems), NEW probe
  PROVE  /\ Aligned(text) \in Seq(TextItems) /\ EndOf(Aligned(text)) = AlignUp(EndOf(text), Unit)
         /\ OtherCode(Aligned(text), probe) = OtherCode(text, probe)
  <1> DEFINE e == EndOf(text)
             up == AlignUp(e, Unit)
             n == up - e
  <1>1. e \in Nat
    BY EndIs
  <1>2. up \in Nat /\ e <= up
    <2> HIDE DEF e
    <2> QED BY <1>1, AlignIs, SpanAssumption
  <1> HIDE DEF e, up
  <1>3. n \in Nat /\ e + n = up
    BY <1>1, <1>2
  <1>4. Aligned(text) = Put(text, n, "PAD", Nothing)
    BY DEF Aligned, n, e, up
  <1> HIDE DEF n
  <1>5. EndOf(Aligned(text)) = e + n
    BY <1>3, <1>4, PutIs DEF e
  <1>6. Aligned(text) \in Seq(TextItems) /\ OtherCode(Aligned(text), probe) = OtherCode(text, probe)
    BY <1>3, <1>4, PutIs
  <1> QED BY <1>3, <1>5, <1>6 DEF e, up

\* One text after another.
LEMMA JoinedIs ==
  ASSUME NEW s \in Seq(TextItems), NEW t \in Seq(TextItems), NEW probe
  PROVE  /\ s \o t \in Seq(TextItems)
         /\ EndOf(s \o t) = IF t = <<>> THEN EndOf(s) ELSE EndOf(t)
         /\ OtherCode(s \o t, probe) = OtherCode(s, probe) \cup OtherCode(t, probe)
  <1> DEFINE j == s \o t
             m == Len(s)
             n == Len(t)
  <1>1. /\ j \in Seq(TextItems) /\ Len(j) = m + n /\ m \in Nat /\ n \in Nat
        /\ \A i \in 1 .. m : j[i] = s[i]
        /\ \A i \in 1 .. n : j[m + i] = t[i]
    BY ConcatProperties
  <1>2. DOMAIN j = 1 .. m + n /\ DOMAIN s = 1 .. m /\ DOMAIN t = 1 .. n
    <2>1. DOMAIN j = 1 .. Len(j) /\ DOMAIN s = 1 .. Len(s) /\ DOMAIN t = 1 .. Len(t)
      BY <1>1
    <2> QED BY <1>1, <2>1
  <1>3. CASE t = <<>>
    <2>1. j = s
      BY <1>3
    <2>2. OtherCode(t, probe) = {}
      BY <1>3 DEF OtherCode
    <2> QED BY <1>3, <2>1, <2>2
  <1>4. CASE t # <<>>
    <2>1. n # 0
      BY <1>4
    <2> HIDE DEF j, m, n
    <2>2. n \in 1 .. n /\ m + n # 0
      BY <1>1, <2>1
    <2>3. j # <<>> /\ j[m + n] = t[n]
      <3>1. j[m + n] = t[n]
        BY <1>1, <2>2
      <3>2. m + n \in DOMAIN j
        BY <1>1, <1>2, <2>1
      <3> QED BY <3>1, <3>2
    <2>4. EndOf(j) = EndOf(t)
      BY <1>1, <1>4, <2>3 DEF EndOf, Last, n
    <2>5. \A i \in 1 .. m + n : i \in 1 .. m \/ \E k \in 1 .. n : i = m + k
      <3> SUFFICES ASSUME NEW i \in 1 .. m + n, i \notin 1 .. m PROVE \E k \in 1 .. n : i = m + k
        OBVIOUS
      <3>1. i - m \in 1 .. n /\ i = m + (i - m)
        BY <1>1
      <3> QED BY <3>1
    <2>6. \A i \in 1 .. m : i \in 1 .. m + n
      BY <1>1
    <2>7. \A i \in 1 .. n : m + i \in 1 .. m + n
      BY <1>1
    <2>8. OtherCode(j, probe) = OtherCode(s, probe) \cup OtherCode(t, probe)
      <3> DEFINE Own(x) == x.c = "CODE" /\ x.of[2] # probe
      <3>1. /\ \A x : x \in OtherCode(j, probe) <=> \E i \in 1 .. m + n : x = j[i] /\ Own(j[i])
            /\ \A x : x \in OtherCode(s, probe) <=> \E i \in 1 .. m : x = s[i] /\ Own(s[i])
            /\ \A x : x \in OtherCode(t, probe) <=> \E i \in 1 .. n : x = t[i] /\ Own(t[i])
        BY <1>2 DEF OtherCode
      <3> HIDE DEF Own
      <3>2. ASSUME NEW x \in OtherCode(j, probe) PROVE x \in OtherCode(s, probe) \cup OtherCode(t, probe)
        <4>1. PICK i \in 1 .. m + n : x = j[i] /\ Own(j[i])
          BY <3>1
        <4>2. CASE i \in 1 .. m
          <5>1. j[i] = s[i]
            BY <4>2, <1>1
          <5>2. x \in OtherCode(s, probe)
            BY <3>1, <4>1, <4>2, <5>1
          <5> QED BY <5>2
        <4>3. CASE \E k \in 1 .. n : i = m + k
          <5>1. PICK k \in 1 .. n : i = m + k
            BY <4>3
          <5>2. j[i] = t[k]
            BY <5>1, <1>1
          <5>3. x \in OtherCode(t, probe)
            BY <3>1, <4>1, <5>2
          <5> QED BY <5>3
        <4> QED BY <4>2, <4>3, <2>5
      <3>3. ASSUME NEW x \in OtherCode(s, probe) PROVE x \in OtherCode(j, probe)
        BY <3>1, <2>6, <1>1
      <3>4. ASSUME NEW x \in OtherCode(t, probe) PROVE x \in OtherCode(j, probe)
        BY <3>1, <2>7, <1>1
      <3> QED BY <3>2, <3>3, <3>4
    <2> QED BY <1>1, <1>4, <2>4, <2>8 DEF j
  <1> QED BY <1>3, <1>4, <1>1

\* The code of a function, from where it starts.
Lead(fn) == IF fn.name \in Exported THEN <<AliasOf(fn.name)>> ELSE <<>>
Parts(fn) == Lead(fn) \o [i \in 1 .. fn.size |-> BodyOf(fn.name)]
CodeAt(b, e, fn) ==
  [i \in DOMAIN Parts(fn) |-> Item(e + (i - 1) * Insn(b), Insn(b), "CODE", Parts(fn)[i])]
Functions == [name : Names, size : Nat]

LEMMA PartsAre ==
  ASSUME NEW fn \in Functions
  PROVE  /\ Parts(fn) \in Seq({BodyOf(fn.name), AliasOf(fn.name)})
         /\ Len(Parts(fn)) \in Nat /\ DOMAIN Parts(fn) = 1 .. Len(Parts(fn))
         /\ \A i \in DOMAIN Parts(fn) : Parts(fn)[i] \in {BodyOf(fn.name), AliasOf(fn.name)}
  <1> DEFINE S == {BodyOf(fn.name), AliasOf(fn.name)}
             lead == Lead(fn)
             rest == [i \in 1 .. fn.size |-> BodyOf(fn.name)]
  <1>1. lead \in Seq(S)
    <2>1. AliasOf(fn.name) \in S
      OBVIOUS
    <2> HIDE DEF S
    <2> QED BY <2>1 DEF Lead
  <1>2. rest \in Seq(S)
    <2>1. fn.size \in Nat /\ BodyOf(fn.name) \in S
      BY DEF Functions
    <2> HIDE DEF S
    <2> QED BY <2>1
  <1> HIDE DEF S, lead, rest
  <1>3. lead \o rest \in Seq(S)
    BY <1>1, <1>2
  <1>4. Parts(fn) = lead \o rest
    BY DEF Parts, lead, rest
  <1>5. Parts(fn) \in Seq(S)
    BY <1>3, <1>4
  <1>6. Len(Parts(fn)) \in Nat /\ DOMAIN Parts(fn) = 1 .. Len(Parts(fn))
    BY <1>5
  <1>7. \A i \in DOMAIN Parts(fn) : Parts(fn)[i] \in S
    BY <1>5, <1>6
  <1> QED BY <1>5, <1>6, <1>7 DEF S

LEMMA CodeAtIs ==
  ASSUME NEW b, NEW e \in Nat, NEW fn \in Functions, NEW probe
  PROVE  /\ CodeAt(b, e, fn) \in Seq(TextItems)
         /\ CodeAt(b, e, fn) # <<>> => EndOf(CodeAt(b, e, fn)) = e + Len(Parts(fn)) * Insn(b)
         /\ CodeAt(b, e, fn) = <<>> => Len(Parts(fn)) = 0
         /\ fn.name = probe => OtherCode(CodeAt(b, e, fn), probe) = {}
  <1> DEFINE k == Len(Parts(fn))
             u == Insn(b)
             t == CodeAt(b, e, fn)
  <1>1. k \in Nat /\ DOMAIN Parts(fn) = 1 .. k
    BY PartsAre
  <1>2. u \in Nat \ {0}
    BY SpanAssumption DEF Insn
  <1> HIDE DEF k, u
  <1>3. \A i \in 1 .. k : Parts(fn)[i] \in {BodyOf(fn.name), AliasOf(fn.name)}
    BY <1>1, PartsAre
  <1>4. t = [i \in 1 .. k |-> Item(e + (i - 1) * u, u, "CODE", Parts(fn)[i])]
    BY <1>1 DEF CodeAt, u
  <1>5. \A i \in 1 .. k : (i - 1) * u \in Nat /\ e + (i - 1) * u \in Nat
    <2> SUFFICES ASSUME NEW i \in 1 .. k PROVE (i - 1) * u \in Nat /\ e + (i - 1) * u \in Nat
      OBVIOUS
    <2> DEFINE h == i - 1
    <2>1. h \in Nat
      BY <1>1
    <2> HIDE DEF h
    <2>2. h * u \in Nat
      BY <2>1, <1>2
    <2>3. e + h * u \in Nat
      BY <2>2
    <2> QED BY <2>2, <2>3 DEF h
  <1>6. \A i \in 1 .. k : t[i] \in TextItems /\ t[i].a = e + (i - 1) * u /\ t[i].n = u
                          /\ t[i].c = "CODE" /\ t[i].of[2] = fn.name
    <2> SUFFICES ASSUME NEW i \in 1 .. k
                 PROVE  t[i] \in TextItems /\ t[i].a = e + (i - 1) * u /\ t[i].n = u
                        /\ t[i].c = "CODE" /\ t[i].of[2] = fn.name
      OBVIOUS
    <2> DEFINE x == e + (i - 1) * u
               p == Parts(fn)[i]
    <2>1. x \in Nat
      BY <1>5
    <2>2. t[i] = Item(x, u, "CODE", p)
      BY <1>4
    <2>3. p \in {"body", "alias"} \X Names /\ p[2] = fn.name
      BY <1>3 DEF BodyOf, AliasOf, Functions
    <2> HIDE DEF x, p
    <2>4. t[i] = [a |-> x, n |-> u, c |-> "CODE", of |-> p]
      BY <2>2 DEF Item
    <2>5. p \in {"body", "alias", "copy", "package", "none"} \X (Names \cup {NoProbe})
      BY <2>3
    <2>6. t[i] \in TextItems
      BY <2>1, <2>4, <2>5, <1>2 DEF TextItems
    <2> QED BY <2>3, <2>4, <2>6 DEF x
  <1>7. DOMAIN t = 1 .. k
    BY <1>4
  <1>8. t \in Seq(TextItems) /\ Len(t) = k
    <2>1. t \in [1 .. k -> TextItems]
      BY <1>4, <1>6, <1>7
    <2> HIDE DEF t
    <2> QED BY <2>1, <1>1
  <1>9. ASSUME t # <<>> PROVE EndOf(t) = e + k * u
    <2> HIDE DEF t
    <2>1. k # 0
      BY <1>8, <1>9
    <2>2. k \in 1 .. k /\ Last(t) = t[k]
      BY <2>1, <1>1, <1>8 DEF Last
    <2>3. EndOf(t) = (e + (k - 1) * u) + u
      BY <1>9, <2>2, <1>6 DEF EndOf
    <2>4. (k - 1) * u = k * u - u /\ k * u \in Int
      BY <1>1, <1>2
    <2> QED BY <2>3, <2>4, <1>1, <1>2
  <1>10. t = <<>> => k = 0
    <2> HIDE DEF t
    <2> QED BY <1>8
  <1>11. fn.name = probe => OtherCode(t, probe) = {}
    <2> HIDE DEF t
    <2> QED BY <1>6, <1>7 DEF OtherCode
  <1> QED BY <1>8, <1>9, <1>10, <1>11 DEF k, u

LEMMA CodeIs ==
  ASSUME NEW b, NEW text \in Seq(TextItems), NEW fn \in Functions, NEW probe
  PROVE  /\ Code(b, text, fn) \in Seq(TextItems)
         /\ EndOf(Code(b, text, fn)) = EndOf(text) + Len(Parts(fn)) * Insn(b)
         /\ OtherCode(Code(b, text, fn), probe) =
              OtherCode(text, probe) \cup OtherCode(CodeAt(b, EndOf(text), fn), probe)
  <1> DEFINE e == EndOf(text)
             t == CodeAt(b, e, fn)
  <1>1. e \in Nat
    BY EndIs
  <1>2. Code(b, text, fn) = text \o t
    BY DEF Code, CodeAt, Parts, Lead
  <1>3. t \in Seq(TextItems)
        /\ (t # <<>> => EndOf(t) = e + Len(Parts(fn)) * Insn(b))
        /\ (t = <<>> => Len(Parts(fn)) = 0)
    BY <1>1, CodeAtIs
  <1> HIDE DEF t, e
  <1>4. /\ text \o t \in Seq(TextItems)
        /\ EndOf(text \o t) = IF t = <<>> THEN EndOf(text) ELSE EndOf(t)
        /\ OtherCode(text \o t, probe) = OtherCode(text, probe) \cup OtherCode(t, probe)
    BY <1>3, JoinedIs
  <1>5. CASE t = <<>>
    <2>1. Len(Parts(fn)) * Insn(b) = 0
      <3>1. Len(Parts(fn)) = 0 /\ Insn(b) \in Nat
        BY <1>3, <1>5, SpanAssumption DEF Insn
      <3> QED BY <3>1
    <2>2. EndOf(text \o t) = e + Len(Parts(fn)) * Insn(b)
      BY <1>1, <1>4, <1>5, <2>1 DEF e
    <2> QED BY <1>2, <1>4, <2>2 DEF e, t
  <1>6. CASE t # <<>>
    <2>1. EndOf(text \o t) = e + Len(Parts(fn)) * Insn(b)
      BY <1>3, <1>4, <1>6
    <2> QED BY <1>2, <1>4, <2>1 DEF e, t
  <1> QED BY <1>5, <1>6

(***************************************************************************)
(* Two builds that differ in the phase of the probe.                       *)
(***************************************************************************)
AnyBuild == [arch : Archs, seed : {0, 1}, mode : {"shift", "phase"}, hash : Hashes,
             probe : Probes \cup {NoProbe}, phase : Phases]
SameButPhase(b, c) ==
  /\ b.arch = c.arch /\ b.seed = c.seed /\ b.mode = c.mode /\ b.hash = c.hash /\ b.probe = c.probe

LEMMA FillIs ==
  ASSUME NEW b \in AnyBuild, NEW name \in Names, NEW off \in Nat
  PROVE  FillBefore(b, name, off) \in Phases
  <1> DEFINE a == AlignUp(off, Unit)
             p == EntryPhase(b, name)
  <1>1. b.hash \in [Names -> Phases] /\ b.phase \in Phases
    BY HashesAssumption DEF AnyBuild
  <1>2. p \in Phases
    BY <1>1 DEF EntryPhase
  <1>3. Span \in Nat \ {0} /\ Unit \in Nat \ {0}
    BY SpanAssumption
  <1>4. a \in Nat /\ a % Unit = 0
    BY <1>3, AlignIs
  <1> HIDE DEF a, p
  <1>5. (p - a) % Span \in Phases
    <2>1. p \in Int /\ p % Unit = 0 /\ a \in Int
      BY <1>2, <1>4 DEF Phases
    <2>2. (p - a) % Unit = 0 /\ p - a \in Int
      <3>1. p - a \in Int
        BY <2>1
      <3> QED BY <3>1, <2>1, <1>3, <1>4, MultiplesAdd, Zenon
    <2> QED BY <2>2, PhaseIs
  <1>6. 0 \in Phases
    <2>1. 0 % Unit = 0 /\ 0 \in 0 .. Span - 1
      BY <1>3
    <2> QED BY <2>1 DEF Phases
  <1> QED BY <1>2, <1>5, <1>6 DEF FillBefore, a, p

LEMMA OtherPhaseIs ==
  ASSUME NEW b \in AnyBuild
  PROVE  OtherPhase(b) \in AnyBuild /\ SameButPhase(b, OtherPhase(b))
  <1> DEFINE q == (b.phase + Unit) % Span
  <1>1. b.phase \in Int /\ b.phase % Unit = 0 /\ Unit \in Nat \ {0}
    BY SpanAssumption DEF AnyBuild, Phases
  <1>2. Unit % Unit = 0
    <2>1. Unit = 1 * Unit
      BY <1>1
    <2> QED BY <2>1, <1>1, IsMultiple
  <1>3. b.phase + Unit \in Int /\ (b.phase + Unit) % Unit = 0
    BY <1>1, <1>2, MultiplesAdd
  <1>4. q \in Phases
    BY <1>3, PhaseIs
  <1> HIDE DEF q
  <1>5. OtherPhase(b) = [b EXCEPT !.phase = q]
    BY DEF OtherPhase, q
  <1> QED BY <1>4, <1>5 DEF AnyBuild, SameButPhase

\* The text t adds the items of more to those of s.
Adds(t, s, more, probe) == OtherCode(t, probe) = OtherCode(s, probe) \cup OtherCode(more, probe)

\* A function as a sound backend writes it.
LEMMA EmittedIs ==
  ASSUME NEW b \in AnyBuild, NEW text \in Seq(TextItems), NEW fn \in Functions,
         NEW f, f = FillBefore(b, fn.name, EndOf(text)),
         NEW entry, entry = AlignUp(EndOf(text) + f, Unit),
         NEW t, t = EmitFunc(b, text, fn, "none")
  PROVE  /\ t \in Seq(TextItems) /\ entry \in Nat
         /\ EndOf(t) = (entry + Len(Parts(fn)) * Insn(b)) + FillAfter(b, fn.name, f)
         /\ Adds(t, text, CodeAt(b, entry, fn), b.probe)
  <1> DEFINE filled == Put(text, f, "FILL", Nothing)
             led == Aligned(filled)
             code == Code(b, led, fn)
             post == FillAfter(b, fn.name, f)
  <1>1. EndOf(text) \in Nat /\ fn.name \in Names
    BY EndIs DEF Functions
  <1>2. f \in Nat /\ f <= Span - 1 /\ Span \in Nat
    <2>1. f \in Phases
      BY <1>1, FillIs
    <2> QED BY <2>1, SpanAssumption DEF Phases
  <1>3. post \in Nat
    BY <1>2 DEF FillAfter
  <1>4. t = Put(code, post, "FILL", Nothing)
    <2>1. EmitFunc(b, text, fn, "none") = Put(code, post, "FILL", Nothing)
      BY DEF EmitFunc
    <2> QED BY <2>1
  <1>5. /\ filled \in Seq(TextItems) /\ EndOf(filled) = EndOf(text) + f
        /\ OtherCode(filled, b.probe) = OtherCode(text, b.probe)
    BY <1>2, PutIs
  <1> HIDE DEF filled, post
  <1>6. /\ led \in Seq(TextItems) /\ EndOf(led) = entry
        /\ OtherCode(led, b.probe) = OtherCode(text, b.probe)
    BY <1>5, AlignedIs
  <1> HIDE DEF led
  <1>7. entry \in Nat
    BY <1>6, EndIs
  <1>8. /\ code \in Seq(TextItems) /\ EndOf(code) = entry + Len(Parts(fn)) * Insn(b)
        /\ OtherCode(code, b.probe) = OtherCode(text, b.probe) \cup OtherCode(CodeAt(b, entry, fn), b.probe)
    BY <1>6, CodeIs
  <1> HIDE DEF code
  <1>9. /\ t \in Seq(TextItems) /\ EndOf(t) = EndOf(code) + post
        /\ OtherCode(t, b.probe) = OtherCode(code, b.probe)
    <2>1. "FILL" \in {"FILL", "GAP", "PAD"}
      OBVIOUS
    <2>2. /\ Put(code, post, "FILL", Nothing) \in Seq(TextItems)
          /\ EndOf(Put(code, post, "FILL", Nothing)) = EndOf(code) + post
          /\ OtherCode(Put(code, post, "FILL", Nothing), b.probe) = OtherCode(code, b.probe)
      <3>1. code \in Seq(TextItems) /\ post \in Nat
        BY <1>3, <1>8
      <3> QED BY ONLY <3>1, <2>1, PutIs
    <2> QED BY <1>4, <2>2, Zenon
  <1> QED BY <1>7, <1>8, <1>9 DEF post, Adds

\* Texts that end at one offset and hold the same items of other functions.
Alike(probe, t, u) ==
  /\ t \in Seq(TextItems) /\ u \in Seq(TextItems)
  /\ EndOf(t) = EndOf(u)
  /\ OtherCode(t, probe) = OtherCode(u, probe)

\* The probed function takes the same room whatever its phase; what other
\* functions take does not depend on it.
LEMMA EmitAlike ==
  ASSUME NEW b \in AnyBuild, NEW c \in AnyBuild, SameButPhase(b, c), NEW fn \in Functions,
         NEW t, NEW u, Alike(b.probe, t, u)
  PROVE  Alike(b.probe, EmitFunc(b, t, fn, "none"), EmitFunc(c, u, fn, "none"))
  <1> DEFINE e == EndOf(t)
             f == FillBefore(b, fn.name, e)
             g == FillBefore(c, fn.name, e)
             p == AlignUp(e + f, Unit)
             q == AlignUp(e + g, Unit)
             room == Len(Parts(fn)) * Insn(b)
             x == EmitFunc(b, t, fn, "none")
             y == EmitFunc(c, u, fn, "none")
  <1>1. t \in Seq(TextItems) /\ u \in Seq(TextItems) /\ EndOf(u) = e /\ e \in Nat
        /\ OtherCode(t, b.probe) = OtherCode(u, b.probe)
    BY EndIs DEF Alike
  <1>2. b.probe = c.probe /\ Insn(b) = Insn(c) /\ fn.name \in Names
    BY DEF SameButPhase, Insn, Functions
  <1>3. /\ x \in Seq(TextItems) /\ p \in Nat
        /\ EndOf(x) = (p + room) + FillAfter(b, fn.name, f)
        /\ Adds(x, t, CodeAt(b, p, fn), b.probe)
    <2>1. t \in Seq(TextItems) /\ f = FillBefore(b, fn.name, EndOf(t)) /\ p = AlignUp(EndOf(t) + f, Unit)
          /\ x = EmitFunc(b, t, fn, "none")
      BY <1>1
    <2> HIDE DEF f, p, x, e, room
    <2>2. /\ x \in Seq(TextItems) /\ p \in Nat
          /\ EndOf(x) = (p + Len(Parts(fn)) * Insn(b)) + FillAfter(b, fn.name, f)
          /\ Adds(x, t, CodeAt(b, p, fn), b.probe)
      <3>1. b \in AnyBuild /\ fn \in Functions
        OBVIOUS
      <3> QED BY ONLY <2>1, <3>1, EmittedIs
    <2> QED BY <2>2, Zenon DEF room
  <1>4. /\ y \in Seq(TextItems) /\ q \in Nat
        /\ EndOf(y) = (q + room) + FillAfter(c, fn.name, g)
        /\ Adds(y, u, CodeAt(c, q, fn), b.probe)
    <2>1. u \in Seq(TextItems) /\ g = FillBefore(c, fn.name, EndOf(u)) /\ q = AlignUp(EndOf(u) + g, Unit)
          /\ y = EmitFunc(c, u, fn, "none")
      BY <1>1
    <2> HIDE DEF g, q, y, e, room
    <2>2. /\ y \in Seq(TextItems) /\ q \in Nat
          /\ EndOf(y) = (q + Len(Parts(fn)) * Insn(c)) + FillAfter(c, fn.name, g)
          /\ Adds(y, u, CodeAt(c, q, fn), c.probe)
      <3>1. c \in AnyBuild /\ fn \in Functions
        OBVIOUS
      <3> QED BY ONLY <2>1, <3>1, EmittedIs
    <2> QED BY <2>2, <1>2, Zenon DEF room
  <1>5. f \in Phases /\ g \in Phases
    <2> HIDE DEF e
    <2> QED BY <1>1, <1>2, FillIs
  <1>6. CASE fn.name # b.probe
    <2>1. f = g
      BY <1>2, <1>6 DEF FillBefore, IsProbe, EntryPhase, SameButPhase
    <2>2. FillAfter(b, fn.name, f) = 0 /\ FillAfter(c, fn.name, g) = 0
      BY <1>2, <1>6 DEF FillAfter, IsProbe
    <2>3. p = q /\ CodeAt(b, p, fn) = CodeAt(c, q, fn)
      BY <2>1, <1>2 DEF CodeAt
    <2> HIDE DEF x, y, f, g, p, q, e
    <2> QED BY <1>1, <1>3, <1>4, <2>2, <2>3 DEF Alike, Adds, x, y
  <1>7. CASE fn.name = b.probe
    <2>1. f \in Nat /\ g \in Nat /\ f % Unit = 0 /\ g % Unit = 0 /\ Span \in Nat /\ Unit \in Nat \ {0}
      BY <1>5, SpanAssumption DEF Phases
    <2> HIDE DEF f, g, e
    <2>2. p = AlignUp(e, Unit) + f /\ q = AlignUp(e, Unit) + g /\ AlignUp(e, Unit) \in Nat
      BY <1>1, <2>1, AlignPast, AlignIs
    <2>3. FillAfter(b, fn.name, f) = Span - f /\ FillAfter(c, fn.name, g) = Span - g
      BY <1>2, <1>7 DEF FillAfter, IsProbe
    <2>4. OtherCode(CodeAt(b, p, fn), b.probe) = {} /\ OtherCode(CodeAt(c, q, fn), b.probe) = {}
      <3> HIDE DEF p, q
      <3> QED BY <1>3, <1>4, <1>7, CodeAtIs
    <2>5. room \in Nat
      <3>1. Len(Parts(fn)) \in Nat /\ Insn(b) \in Nat
        BY PartsAre, SpanAssumption DEF Insn
      <3> QED BY <3>1
    <2> HIDE DEF p, q, room, x, y
    <2>6. EndOf(x) = EndOf(y)
      <3> DEFINE a == AlignUp(e, Unit)
      <3>1. EndOf(x) = ((a + f) + room) + (Span - f) /\ EndOf(y) = ((a + g) + room) + (Span - g)
        BY <1>3, <1>4, <2>2, <2>3
      <3>2. a \in Nat
        BY <2>2
      <3> HIDE DEF a
      <3> QED BY ONLY <3>1, <3>2, <2>1, <2>5
    <2>7. OtherCode(x, b.probe) = OtherCode(y, b.probe)
      BY <1>1, <1>3, <1>4, <2>4 DEF Adds
    <2> QED BY <1>3, <1>4, <2>6, <2>7 DEF Alike, x, y
  <1> QED BY <1>6, <1>7

\* The functions of an object, one after the other.
ObjectSteps(b, fns, at, f) ==
  f = [i \in 0 .. Len(fns) |->
         IF i = 0 THEN <<>> ELSE EmitFunc(b, f[i - 1], fns[i], IF i = at THEN "none" ELSE "none")]
ObjectRule(b, fns, at, g) ==
  /\ EmitObject(b, fns, "none", at) = Put(Aligned(g[Len(fns)]), Insn(b), "CODE", Descriptor)
  /\ g[0] = <<>>
  /\ \A i \in 1 .. Len(fns) : g[i] = EmitFunc(b, g[i - 1], fns[i], "none")

LEMMA ObjectDefined ==
  ASSUME NEW b \in AnyBuild, NEW fns \in Seq(Functions), NEW at
  PROVE  \E g : ObjectRule(b, fns, at, g)
  <1> DEFINE N == Len(fns)
             V == Seq(TextItems)
             e == <<>>
             G == [i \in 1 .. N |-> [t \in V |-> EmitFunc(b, t, fns[i], "none")]]
  <1>1. N \in Nat /\ e \in V /\ \A i \in 1 .. N : fns[i] \in Functions
    OBVIOUS
  <1>2. ASSUME NEW i \in 1 .. N, NEW t \in V PROVE EmitFunc(b, t, fns[i], "none") \in V
    BY <1>1, EmittedIs
  <1>3. G \in [1 .. N -> [V -> V]]
    <2> HIDE DEF V
    <2> QED BY <1>2
  <1>4. \E f \in [0 .. N -> V] : f[0] = e /\ \A i \in 1 .. N : f[i] = G[i][f[i - 1]]
    <2> HIDE DEF N, V, e, G
    <2>1. Stepwise(N, V, e, G)
      BY <1>1, <1>3, StepByStep
    <2> QED BY <2>1 DEF Stepwise
  <1> HIDE DEF N, V
  <1>5. PICK f \in [0 .. N -> V] : f[0] = e /\ \A i \in 1 .. N : f[i] = G[i][f[i - 1]]
    BY <1>4
  <1>6. ASSUME NEW i \in 1 .. N PROVE i - 1 \in 0 .. N /\ f[i] = EmitFunc(b, f[i - 1], fns[i], "none")
    <2>1. i - 1 \in 0 .. N
      BY <1>1
    <2>2. f[i - 1] \in V /\ f[i] = G[i][f[i - 1]]
      BY <2>1, <1>5
    <2>3. G[i][f[i - 1]] = EmitFunc(b, f[i - 1], fns[i], "none")
      BY <2>2
    <2> QED BY <2>1, <2>2, <2>3
  <1>7. \A i \in 0 .. N : i = 0 \/ i \in 1 .. N
    BY <1>1
  <1>8. ObjectSteps(b, fns, at, f)
    <2> HIDE DEF G
    <2>1. f = [i \in 0 .. N |->
                 IF i = 0 THEN <<>> ELSE EmitFunc(b, f[i - 1], fns[i], IF i = at THEN "none" ELSE "none")]
      BY <1>5, <1>6, <1>7
    <2> QED BY <2>1 DEF ObjectSteps, N
  <1> DEFINE g == CHOOSE h : ObjectSteps(b, fns, at, h)
  <1>9. EmitObject(b, fns, "none", at) = Put(Aligned(g[N]), Insn(b), "CODE", Descriptor)
    BY Zenon DEF EmitObject, ObjectSteps, N
  <1>10. ObjectSteps(b, fns, at, g)
    BY <1>8, Zenon
  <1> HIDE DEF g, G
  <1>11. /\ g[0] = <<>>
         /\ \A i \in 1 .. N : g[i] = EmitFunc(b, g[i - 1], fns[i], "none")
    <2>1. g = [i \in 0 .. N |->
                 IF i = 0 THEN <<>> ELSE EmitFunc(b, g[i - 1], fns[i], IF i = at THEN "none" ELSE "none")]
      BY <1>10, Zenon DEF ObjectSteps, N
    <2>2. \A i \in 0 .. N :
            g[i] = IF i = 0 THEN <<>> ELSE EmitFunc(b, g[i - 1], fns[i], IF i = at THEN "none" ELSE "none")
      BY <2>1, Zenon
    <2>3. 0 \in 0 .. N /\ \A i \in 1 .. N : i \in 0 .. N /\ i # 0
      BY <1>1
    <2> QED BY <2>2, <2>3
  <1>12. ObjectRule(b, fns, at, g)
    BY <1>9, <1>11 DEF ObjectRule, N
  <1> QED BY <1>12

\* The objects of two builds that differ in the phase of the probe.
LEMMA ObjectAlike ==
  ASSUME NEW b \in AnyBuild, NEW c \in AnyBuild, SameButPhase(b, c), NEW fns \in Seq(Functions), NEW k, NEW l
  PROVE  Alike(b.probe, EmitObject(b, fns, "none", k), EmitObject(c, fns, "none", l))
  <1> DEFINE N == Len(fns)
             probe == b.probe
  <1>1. PICK g : ObjectRule(b, fns, k, g)
    BY ObjectDefined
  <1>2. PICK h : ObjectRule(c, fns, l, h)
    BY ObjectDefined
  <1>3. N \in Nat /\ \A i \in 1 .. N : fns[i] \in Functions
    OBVIOUS
  <1>4. \A i \in 0 .. N : Alike(probe, g[i], h[i])
    <2> DEFINE T == {i \in 0 .. N : ~Alike(probe, g[i], h[i])}
    <2> SUFFICES ASSUME NEW x \in T PROVE FALSE
      OBVIOUS
    <2>1. PICK m \in T : \A i \in T : m <= i
      <3>1. T \in SUBSET Nat
        BY <1>3
      <3> HIDE DEF T
      <3> QED BY <3>1, LeastNatural
    <2>2. m # 0
      <3>1. <<>> \in Seq(TextItems)
        OBVIOUS
      <3>2. g[0] = <<>> /\ h[0] = <<>>
        BY <1>1, <1>2 DEF ObjectRule
      <3> QED BY <3>1, <3>2 DEF Alike
    <2>3. m \in 1 .. N /\ m - 1 \in 0 .. N /\ ~(m <= m - 1)
      BY <2>2, <1>3
    <2>4. Alike(probe, g[m - 1], h[m - 1])
      BY <2>1, <2>3
    <2>5. /\ g[m] = EmitFunc(b, g[m - 1], fns[m], "none")
          /\ h[m] = EmitFunc(c, h[m - 1], fns[m], "none")
      BY <2>3, <1>1, <1>2 DEF ObjectRule
    <2>6. Alike(probe, g[m], h[m])
      BY <2>3, <2>4, <2>5, <1>3, EmitAlike
    <2> QED BY <2>6
  <1> DEFINE s == Aligned(g[N])
             t == Aligned(h[N])
  <1>5. Alike(probe, s, t)
    <2>1. Alike(probe, g[N], h[N])
      BY <1>3, <1>4
    <2>2. /\ g[N] \in Seq(TextItems) /\ h[N] \in Seq(TextItems) /\ EndOf(g[N]) = EndOf(h[N])
          /\ OtherCode(g[N], probe) = OtherCode(h[N], probe)
      BY <2>1 DEF Alike
    <2>3. /\ s \in Seq(TextItems) /\ EndOf(s) = AlignUp(EndOf(g[N]), Unit)
          /\ OtherCode(s, probe) = OtherCode(g[N], probe)
      BY <2>2, AlignedIs
    <2>4. /\ t \in Seq(TextItems) /\ EndOf(t) = AlignUp(EndOf(h[N]), Unit)
          /\ OtherCode(t, probe) = OtherCode(h[N], probe)
      BY <2>2, AlignedIs
    <2> HIDE DEF s, t
    <2> QED BY <2>2, <2>3, <2>4 DEF Alike
  <1> DEFINE n == Insn(b)
             it == Item(EndOf(s), n, "CODE", Descriptor)
  <1>6. n \in Nat \ {0} /\ Insn(c) = n
    BY SpanAssumption DEF Insn, SameButPhase
  <1>7. /\ EmitObject(b, fns, "none", k) = Put(s, n, "CODE", Descriptor)
        /\ EmitObject(c, fns, "none", l) = Put(t, n, "CODE", Descriptor)
    BY <1>1, <1>2, <1>6 DEF ObjectRule
  <1> HIDE DEF s, t, n, probe, N
  <1>8. /\ s \in Seq(TextItems) /\ t \in Seq(TextItems) /\ EndOf(s) = EndOf(t)
        /\ OtherCode(s, probe) = OtherCode(t, probe) /\ EndOf(s) \in Nat
    BY <1>5, EndIs DEF Alike
  <1>9. Put(s, n, "CODE", Descriptor) = Append(s, it) /\ Put(t, n, "CODE", Descriptor) = Append(t, it)
    BY <1>6, <1>8 DEF Put
  <1>10. it \in TextItems
    <2>1. Descriptor \in {"body", "alias", "copy", "package", "none"} \X (Names \cup {NoProbe})
      BY DEF Descriptor
    <2> HIDE DEF s
    <2> QED BY <2>1, <1>6, <1>8 DEF Item, TextItems
  <1> HIDE DEF it
  <1> DEFINE own == IF it.c = "CODE" /\ it.of[2] # probe THEN {it} ELSE {}
  <1>11. /\ Append(s, it) \in Seq(TextItems) /\ EndOf(Append(s, it)) = it.a + it.n
         /\ OtherCode(Append(s, it), probe) = OtherCode(s, probe) \cup own
    BY <1>8, <1>10, AppendedIs
  <1>12. /\ Append(t, it) \in Seq(TextItems) /\ EndOf(Append(t, it)) = it.a + it.n
         /\ OtherCode(Append(t, it), probe) = OtherCode(t, probe) \cup own
    BY <1>8, <1>10, AppendedIs
  <1> HIDE DEF own
  <1>13. Alike(probe, Append(s, it), Append(t, it))
    BY <1>8, <1>11, <1>12 DEF Alike
  <1> QED BY <1>7, <1>9, <1>13 DEF probe

\* The objects of a sound build are like those of one with another phase.
PlacedInv ==
  /\ build \in AnyBuild /\ program \in Seq(Seq(Names)) /\ plan \in Seq(Functions)
  /\ \E S : objects \in Seq(S) /\ twin \in Seq(S)
  /\ Len(twin) = Len(objects)
  /\ flaw = Sound => \A i \in 1 .. Len(objects) : Alike(build.probe, objects[i], twin[i])

LEMMA PlacedStart == PlaceInit => PlacedInv
  <1> SUFFICES ASSUME PlaceInit PROVE PlacedInv
    OBVIOUS
  <1>1. build \in AnyBuild
    BY DEF PlaceInit, Builds, AnyBuild
  <1>2. program \in Seq(Seq(Names))
    BY ProgramsAssumption DEF PlaceInit
  <1>3. objects = <<>> /\ twin = <<>> /\ plan = <<>>
    BY DEF PlaceInit
  <1>4. objects \in Seq({}) /\ twin \in Seq({}) /\ plan \in Seq(Functions) /\ Len(objects) = 0 /\ Len(twin) = 0
    BY <1>3
  <1>5. \A i \in 1 .. Len(objects) : FALSE
    BY <1>4
  <1> QED BY <1>1, <1>2, <1>4, <1>5 DEF PlacedInv

LEMMA PlacedAdd == PlacedInv /\ AddFunction => PlacedInv'
  <1> SUFFICES ASSUME PlacedInv, AddFunction PROVE PlacedInv'
    OBVIOUS
  <1>1. PICK size \in Sizes : plan' = Append(plan, [name |-> Module[Len(plan) + 1], size |-> size])
    BY DEF AddFunction
  <1>2. Len(objects) \in Nat
    BY DEF PlacedInv
  <1>3. Module \in Seq(Names)
    <2>1. Len(objects) + 1 \in 1 .. Len(program)
      BY <1>2 DEF AddFunction, PlacedInv
    <2>2. program \in Seq(Seq(Names))
      BY DEF PlacedInv
    <2> HIDE DEF PlacedInv
    <2> QED BY <2>1, <2>2 DEF Module
  <1>4. plan \in Seq(Functions) /\ Len(plan) \in Nat
    BY DEF PlacedInv
  <1>5. Module[Len(plan) + 1] \in Names
    <2>1. Len(plan) + 1 \in 1 .. Len(Module)
      BY <1>3, <1>4 DEF AddFunction
    <2> QED BY <2>1, <1>3
  <1> DEFINE fn == [name |-> Module[Len(plan) + 1], size |-> size]
  <1>6. fn \in Functions
    BY <1>5, ProgramsAssumption DEF Functions
  <1> HIDE DEF fn
  <1>7. plan' \in Seq(Functions)
    BY <1>1, <1>4, <1>6 DEF fn
  <1>8. UNCHANGED <<build, program, objects, twin, flaw, rows>>
    BY DEF AddFunction
  <1> QED BY <1>7, <1>8 DEF PlacedInv

LEMMA PlacedWrite == PlacedInv /\ WriteObject => PlacedInv'
  <1> SUFFICES ASSUME PlacedInv, WriteObject PROVE PlacedInv'
    OBVIOUS
  <1>1. PICK kind \in {"none", "nofill", "zeros", "nopost"}, at \in DOMAIN plan :
          /\ objects' = Append(objects, EmitObject(build, plan, kind, at))
          /\ flaw' = IF objects'[Len(objects')] = EmitObject(build, plan, "none", at) THEN flaw
                     ELSE [kind |-> kind, object |-> Len(objects) + 1, index |-> at,
                           masked |-> Masked(kind, at)]
    BY DEF WriteObject
  <1>2. /\ twin' = Append(twin, EmitObject(OtherPhase(build), plan, "none", 1)) /\ plan' = <<>>
        /\ build' = build /\ program' = program
    BY DEF WriteObject
  <1> DEFINE x == EmitObject(build, plan, kind, at)
             y == EmitObject(OtherPhase(build), plan, "none", 1)
             n == Len(objects)
  <1>3. build \in AnyBuild /\ plan \in Seq(Functions)
    BY DEF PlacedInv
  <1>4. Alike(build.probe, EmitObject(build, plan, "none", at), y)
    BY <1>3, OtherPhaseIs, ObjectAlike
  <1>5. PICK S : objects \in Seq(S) /\ twin \in Seq(S)
    BY DEF PlacedInv
  <1> HIDE DEF x, y
  <1>6. objects' = Append(objects, x) /\ twin' = Append(twin, y)
    BY <1>1, <1>2 DEF x, y
  <1>7. /\ objects' \in Seq(S \cup {x, y}) /\ Len(objects') = n + 1 /\ n \in Nat
        /\ objects'[n + 1] = x /\ \A i \in 1 .. n : objects'[i] = objects[i]
    <2> DEFINE X == S \cup {x, y}
    <2>1. objects \in Seq(X) /\ x \in X
      BY <1>5
    <2> HIDE DEF X
    <2> QED BY <2>1, <1>6, AppendProperties DEF X
  <1>8. /\ twin' \in Seq(S \cup {x, y}) /\ Len(twin') = n + 1
        /\ twin'[n + 1] = y /\ \A i \in 1 .. n : twin'[i] = twin[i]
    <2> DEFINE X == S \cup {x, y}
    <2>1. twin \in Seq(X) /\ y \in X /\ Len(twin) = n
      BY <1>5 DEF PlacedInv
    <2> HIDE DEF X
    <2> QED BY <2>1, <1>6, AppendProperties DEF X
  <1> HIDE DEF n
  <1>9. ASSUME flaw' = Sound, NEW i \in 1 .. n + 1 PROVE Alike(build.probe, objects'[i], twin'[i])
    <2>1. x = EmitObject(build, plan, "none", at) /\ flaw = Sound
      <3>1. objects'[Len(objects')] = x
        BY <1>7
      <3>2. CASE x = EmitObject(build, plan, "none", at)
        BY <1>1, <1>9, <3>1, <3>2
      <3>3. CASE x # EmitObject(build, plan, "none", at)
        <4>1. kind # "none"
          BY <3>3 DEF x
        <4>2. flaw'.kind = kind
          BY <1>1, <3>1, <3>3
        <4>3. Sound.kind = "none"
          BY DEF Sound
        <4> QED BY <4>1, <4>2, <4>3, <1>9
      <3> QED BY <3>2, <3>3
    <2>2. CASE i = n + 1
      BY <2>1, <2>2, <1>4, <1>7, <1>8
    <2>3. CASE i # n + 1
      <3>1. i \in 1 .. n
        BY <2>3, <1>7
      <3>2. Alike(build.probe, objects[i], twin[i])
        BY <2>1, <3>1 DEF PlacedInv, n
      <3> QED BY <3>1, <3>2, <1>7, <1>8
    <2> QED BY <2>2, <2>3
  <1>10. plan' \in Seq(Functions) /\ build' \in AnyBuild /\ program' \in Seq(Seq(Names))
    BY <1>2 DEF PlacedInv
  <1>11. \E X : objects' \in Seq(X) /\ twin' \in Seq(X)
    BY <1>7, <1>8
  <1>12. Len(twin') = Len(objects')
    BY <1>7, <1>8
  <1>13. flaw' = Sound => \A i \in 1 .. Len(objects') : Alike(build'.probe, objects'[i], twin'[i])
    BY <1>2, <1>7, <1>9
  <1> QED BY <1>10, <1>11, <1>12, <1>13 DEF PlacedInv

LEMMA PlacedHolds == PlaceSpec => []PlacedInv
  <1>1. PlaceInit => PlacedInv
    BY PlacedStart
  <1>2. PlacedInv /\ [PlaceNext]_vars => PlacedInv'
    <2> SUFFICES ASSUME PlacedInv, [PlaceNext]_vars PROVE PlacedInv'
      OBVIOUS
    <2>1. CASE AddFunction
      BY <2>1, PlacedAdd
    <2>2. CASE WriteObject
      BY <2>2, PlacedWrite
    <2>3. CASE Check \/ UNCHANGED vars
      <3>1. UNCHANGED <<build, program, objects, twin, plan, flaw>>
        BY <2>3 DEF Check, vars
      <3> QED BY <3>1 DEF PlacedInv
    <2> QED BY <2>1, <2>2, <2>3 DEF PlaceNext
  <1> QED BY <1>1, <1>2, PTL DEF PlaceSpec

\* Whatever the hash, the programs, the sizes of the functions and the two
\* phases, a probe moves no function but the probed one (fill_before,
\* fill_after).
THEOREM ProbeIsNeutral == PlaceSpec => []ProbeNeutral
  <1>1. PlacedInv => ProbeNeutral
    <2> SUFFICES ASSUME PlacedInv, flaw = Sound, NEW i \in DOMAIN objects
                 PROVE  OtherCode(objects[i], build.probe) = OtherCode(twin[i], build.probe)
      BY DEF ProbeNeutral, OtherCode
    <2>1. DOMAIN objects = 1 .. Len(objects)
      BY DEF PlacedInv
    <2> QED BY <2>1 DEF PlacedInv, Alike
  <1> QED BY <1>1, PlacedHolds, PTL
=============================================================================
