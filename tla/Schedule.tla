------------------------------ MODULE Schedule ------------------------------
(***************************************************************************)
(* perf/placement/schedule.py: which arm of a placement A/B experiment     *)
(* runs when inside a round.  Arms and rounds are numbered from 0, as in   *)
(* the code; the positions of a sequence from 1.                           *)
(***************************************************************************)
EXTENDS Integers, Sequences, FiniteSets, SequencesExt

\* The Williams square's first row: 0, 1, k-1, 2, k-2, ...
FirstRow(k) == [p \in 1..k |-> IF p % 2 = 0 THEN p \div 2 ELSE (k - (p - 1) \div 2) % k]

\* Row i adds i modulo k; an odd k > 1 also gets every row reversed.
Williams(k) ==
    LET row(i) == [p \in 1..k |-> (FirstRow(k)[p] + i) % k]
        rows == [i \in 1..k |-> row(i - 1)]
    IN IF k % 2 = 1 /\ k > 1 THEN rows \o [i \in 1..k |-> Reverse(rows[i])] ELSE rows

Cycle(k) == IF k % 2 = 1 /\ k > 1 THEN 2 * k ELSE k

\* Over a cycle every arm holds every position, and directly follows every
\* other arm, the same number of times (the module's claim for its rows).
Balanced(k) ==
    LET rows == Williams(k)
        share == Cycle(k) \div k
        holds(a, p) == {i \in DOMAIN rows : rows[i][p + 1] = a}
        follows(a, b) == {at \in (DOMAIN rows) \X (1..(k - 1)) :
                            rows[at[1]][at[2]] = a /\ rows[at[1]][at[2] + 1] = b}
        arms == 0..(k - 1)
    IN /\ Len(rows) = Cycle(k)
       /\ \A a, p \in arms : Cardinality(holds(a, p)) = share
       /\ \A a, b \in arms : a # b => Cardinality(follows(a, b)) = share

ASSUME WilliamsBalanced == \A k \in 1..7 : Balanced(k)

\* Every round the same row.
RoundOrdersFixed(r, k, reps) ==
    [i \in 1..reps |-> IF i % 2 = 1 THEN Williams(k)[1] ELSE Reverse(Williams(k)[1])]

\* The order of each replicate of round r: its row, then alternately the
\* reverse and the row itself.
RoundOrders(r, k, reps) ==
    LET row == Williams(k)[(r % Cycle(k)) + 1]
    IN [i \in 1..reps |-> IF i % 2 = 1 THEN row ELSE Reverse(row)]

\* Every timed run of an experiment, in order.
TimedPlan(seeds, k, reps) ==
    LET ofOrder(r, rep) ==
          [pos \in 1..k |-> [round |-> r, seed |-> seeds[r + 1], rep |-> rep, pos |-> pos,
                             arm |-> RoundOrders(r, k, reps)[rep][pos]]]
        ofRound(r) == FlattenSeq([rep \in 1..reps |-> ofOrder(r, rep)])
    IN FlattenSeq([i \in 1..Len(seeds) |-> ofRound(i - 1)])
=============================================================================
