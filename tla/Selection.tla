------------------------------ MODULE Selection ------------------------------
(***************************************************************************)
(* What stats.py makes of an A/B experiment (perf/placement/stats_select): *)
(* the arms that are eligible, and the placement policy to adopt.  The     *)
(* numbers of the experiment - p-values, bootstrap intervals, variances -  *)
(* are inputs, integers on scales of their own; the tests made with them   *)
(* are the program's.                                                      *)
(***************************************************************************)
EXTENDS Integers, Sequences, FiniteSets

CONSTANTS
    Others,     \* how many arms there are besides the base
    Measured,   \* what may have been measured of an arm
    Variances,  \* the base's placement variance, summed over the items
    BaseText,   \* the base's text bytes, summed over the items
    Budget,     \* TEXT_BUDGET_PCT
    Alpha,      \* SLOWER_ALPHA, on the scale of the p-values
    MinSeeds,   \* MIN_SEEDS
    NotRun,     \* of an item: the arm has no sample
    NoSeed,     \* of an item: no seed has samples of the arm and of the base
    Unknown     \* a number that could not be computed

ASSUME NumbersAssumption ==
    /\ BaseText \in Nat \ {0}
    /\ {Others, Budget, Alpha, MinSeeds} \subseteq Nat

ASSUME MeasuredAssumption ==
    \A m \in Measured : m.p \in Seq({NotRun, NoSeed, Unknown} \cup Nat) /\ m.geomean \in Int

VARIABLES
    data,     \* what was measured
    verdict   \* the last lines of the selection table

selecting == <<data, verdict>>

---------------------------------------------------------------------------
(* The base is arm 0, the others follow in order.  Of each of them:        *)
(*   native    its placement is randomized                                 *)
(*   p         for each item the p-value of "not slower", Unknown with one *)
(*             seed, or NotRun or NoSeed                                   *)
(*   seeds     the seeds every item has samples of, for it and the base    *)
(*   geomean   the geometric mean time against the base                    *)
(*   high      the upper end of its interval                               *)
(*   text      its text bytes, or Unknown                                  *)
(*   variance  its placement variance summed over the items, or Unknown    *)
(* data.apart has the pairs of arms whose per-seed difference has an       *)
(* interval that does not cover 0; data.whole says that the items are the  *)
(* workload of the rule, its benchmarks and the self-compile.              *)

Base == 0
Arms == DOMAIN data.arms

\* A certain p-value: no threshold reaches it.
One == 100 * Alpha

\* The p-values of the items the arm was measured on.
Tested(m) ==
    [i \in {j \in DOMAIN m.p : m.p[j] \notin {NotRun, NoSeed}} |-> IF m.p[i] = Unknown THEN One ELSE m.p[i]]

\* The items tested before this one: in increasing order, and in theirs.
before(ps, i) == {j \in DOMAIN ps : ps[j] < ps[i] \/ (ps[j] = ps[i] /\ j < i)}

\* The k-th smallest of m, k from 0, is at most alpha / (m - k).
within(ps, i, alpha) == ps[i] * (Cardinality(DOMAIN ps) - Cardinality(before(ps, i))) <= alpha

\* Every item is held against its own threshold, and nothing stops the test.
HolmUnstopped(ps, alpha) == {i \in DOMAIN ps : within(ps, i, alpha)}

\* Rejected in that order for as long as they are within their thresholds.
holm(ps, alpha) == {i \in DOMAIN ps : \A j \in {i} \cup before(ps, i) : within(ps, j, alpha)}

slower_items(m) == holm(Tested(m), Alpha)

\* geomean is None for an arm with an item it has no sample of.
RanEvery(m) == \A i \in DOMAIN m.p : m.p[i] # NotRun

\* The growth of the text in percent is at most the budget.
WithinBudget(m) == 100 * (m.text - BaseText) <= Budget * BaseText

eligible(m) ==
    /\ m.native
    /\ RanEvery(m)
    /\ slower_items(m) = {}
    /\ m.text # Unknown
    /\ WithinBudget(m) \/ m.high < 0

\* Every arm that has a row may be chosen.
EveryRow(d, arms) ==
    LET every == UNION {d.arms[a].seeds : a \in {b \in arms : RanEvery(d.arms[b])}}
        base == [geomean |-> 0, seeds |-> every, text |-> BaseText, variance |-> d.base]
    IN [a \in {Base} \cup {b \in arms : RanEvery(d.arms[b]) /\ d.arms[b].text # Unknown} |->
          IF a = Base THEN base
          ELSE LET m == d.arms[a] IN [geomean |-> m.geomean, seeds |-> m.seeds, text |-> m.text, variance |-> m.variance]]

\* The rows that may be chosen when only these arms are in the table: the
\* base, which differs by 0 for every seed some arm ran, and the eligible.
Candidates(d, arms) ==
    LET every == UNION {d.arms[a].seeds : a \in {b \in arms : RanEvery(d.arms[b])}}
        base == [geomean |-> 0, seeds |-> every, text |-> BaseText, variance |-> d.base]
    IN [a \in {Base} \cup {b \in arms : eligible(d.arms[b])} |->
          IF a = Base THEN base
          ELSE LET m == d.arms[a] IN [geomean |-> m.geomean, seeds |-> m.seeds, text |-> m.text, variance |-> m.variance]]

\* The spread against the base's, as its square times the base's variance.
pooled_spread(d, row) ==
    IF d.base = Unknown \/ row.variance = Unknown THEN Unknown
    ELSE IF d.base <= 0 THEN Unknown
    ELSE IF row.variance > 0 THEN row.variance ELSE 0

\* The interval of the difference covers 0, or there is none.
_tie(d, rows, a, b) == Cardinality(rows[a].seeds \cap rows[b].seeds) < 2 \/ {a, b} \notin d.apart

\* The first of the arms for which f is least, as Python's min takes it.
FirstLeast(arms, f(_)) == CHOOSE a \in arms : \A b \in arms : f(a) < f(b) \/ (f(a) = f(b) /\ a <= b)

Chosen(d, arms) ==
    LET rows == Candidates(d, arms)
        best == FirstLeast(DOMAIN rows, LAMBDA a : rows[a].geomean)
        tied == {a \in DOMAIN rows : a = best \/ _tie(d, rows, best, a)}
        spread == [a \in tied |-> pooled_spread(d, rows[a])]
        by_spread == Cardinality(tied) > 1 /\ \A a \in tied : spread[a] # Unknown
        steady == IF by_spread THEN {a \in tied : \A b \in tied : spread[a] <= spread[b]} ELSE tied
    IN FirstLeast(steady, LAMBDA a : rows[a].text)

\* The data does not fall short.  The seeds are the least any arm of the
\* table has, eligible or not.
Decided(d) ==
    LET ran == {a \in DOMAIN d.arms : RanEvery(d.arms[a])}
    IN d.whole /\ ran # {} /\ \A a \in ran : Cardinality(d.arms[a].seeds) >= MinSeeds

---------------------------------------------------------------------------
NoVerdict == [made |-> FALSE, selected |-> Base, decided |-> FALSE]

\* load and the estimators: an item without a common seed leaves none that
\* every item has, and an arm measured on every item has a variance.
SelectInit ==
    /\ data \in [base : Variances, arms : [1..Others -> Measured],
                 apart : SUBSET {pair \in SUBSET (0..Others) : Cardinality(pair) = 2}, whole : BOOLEAN]
    /\ verdict = NoVerdict

\* An arm that ran every item has a row with the geometric mean over the
\* seeds they share.
Select ==
    /\ verdict = NoVerdict
    /\ \A a \in Arms : RanEvery(data.arms[a]) => data.arms[a].seeds # {}
    /\ verdict' = [made |-> TRUE, selected |-> Chosen(data, Arms), decided |-> Decided(data)]
    /\ UNCHANGED data

SelectNext == Select
SelectSpec == SelectInit /\ [][SelectNext]_selecting

---------------------------------------------------------------------------
(* Properties                                                              *)

\* Every group of items an item is in has one below its share of the level.
ClosedTest(ps, alpha) ==
    {i \in DOMAIN ps :
       \A group \in SUBSET DOMAIN ps :
         i \in group => \E j \in group : ps[j] * Cardinality(group) <= alpha}

(* Holm's step-down test rejects what the closed test does, whose chance   *)
(* to reject any neutral arm is the level's (stats_core.holm).             *)
HolmIsClosed == \A a \in Arms : slower_items(data.arms[a]) = ClosedTest(Tested(data.arms[a]), Alpha)

(* An arm that is not eligible changes nothing about which arm is chosen:  *)
(* the others would be compared the same without it (selection).           *)
IneligibleDoNotMatter ==
    verdict.made => verdict.selected = Chosen(data, {a \in Arms : eligible(data.arms[a])})
=============================================================================
