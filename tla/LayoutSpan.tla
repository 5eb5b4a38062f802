----------------------------- MODULE LayoutSpan -----------------------------
(***************************************************************************)
(* The span of one function in linked text, as perf/placement/layout.py    *)
(* reads it (layout_span.py): from its disassembled items to the NOP runs  *)
(* that are executed and to the function's own body.  Addresses are the    *)
(* indexes of the items: sizes do not matter here.  Every symbol inside    *)
(* the span is a block label of the function; one that is not, which may   *)
(* start data and cut the span there (_resolve_others), is left out.       *)
(***************************************************************************)
EXTENDS Integers, Sequences, FiniteSets, FiniteSetsExt

CONSTANTS
    Items,      \* the items a disassembled span may hold
    SpanLength  \* how many items a span has

\* The classes of items.
Classes == {"CODE", "FILL", "NOP", "PAD", "GAP", "DATA"}

\* cls is the class the decoder gave, never PAD; ft: may fall through; tgt: the
\* index a direct branch goes to, 0 if it is none; call: it is a call; lbl: a
\* block label is at it.  What is no code is given ft and no target.  A span without items has no block.
ASSUME ItemsAssumption ==
    /\ SpanLength \in Nat \ {0}
    /\ Items \subseteq [cls : Classes \ {"PAD"}, ft : BOOLEAN, tgt : Nat, call : BOOLEAN, lbl : BOOLEAN]
    /\ \A r \in Items : r.cls # "CODE" => r.ft /\ r.tgt = 0 /\ ~r.call

---------------------------------------------------------------------------
IsCode(r) == r.cls = "CODE"
BranchTo(r) == IF r.call THEN 0 ELSE r.tgt

Labelled(span) == {i \in DOMAIN span : span[i].lbl}

\* Where execution is taken to enter: the span's start, block labels (starts
\* whether or not anything branches there) and branch targets.
Entered(span) ==
    {1} \cup Labelled(span) \cup {BranchTo(span[i]) : i \in {j \in DOMAIN span : IsCode(span[j])}}

\* The last item before i that is not of class c, 0 if there is none.
Before(span, i, c) ==
    LET js == {j \in 1..(i - 1) : span[j].cls # c} IN IF js = {} THEN 0 ELSE Max(js)

After(span, i, c) ==
    LET js == {j \in (i + 1)..Len(span) : span[j].cls # c} IN IF js = {} THEN 0 ELSE Min(js)

\* Mutant of ClassifyNops: a run that starts a block counts as pad.
ClassifyNopsInline(span) ==
    LET Inline(i) ==
          LET p == Before(span, i, "NOP")
              n == After(span, i, "NOP")
          IN /\ p # 0 /\ IsCode(span[p]) /\ span[p].ft
             /\ n # 0 /\ IsCode(span[n]) /\ n \notin Entered(span)
    IN [i \in DOMAIN span |->
          IF span[i].cls = "NOP"
          THEN [span[i] EXCEPT !.cls = IF Inline(i) THEN "CODE" ELSE "PAD"] ELSE span[i]]

\* A run of NOPs is executed code when straight-line code runs into it and
\* out of it, or when something enters at its first NOP; else it is pad.
ClassifyNops(span) ==
    LET NopClass(i) ==
          LET p == Before(span, i, "NOP")
              n == After(span, i, "NOP")
              inline == /\ p # 0 /\ IsCode(span[p]) /\ span[p].ft
                        /\ n # 0 /\ IsCode(span[n]) /\ n \notin Entered(span)
              entered == p + 1 \in Entered(span)
          IN IF inline \/ entered THEN "CODE" ELSE "PAD"
    IN [i \in DOMAIN span |->
          IF span[i].cls = "NOP" THEN [span[i] EXCEPT !.cls = NopClass(i)] ELSE span[i]]

\* What is reached from the nodes of S along next, in at most bound steps.
Closure(S, next, bound) ==
    LET reach[k \in 0..bound] ==
          IF k = 0 THEN S
          ELSE LET got == reach[k - 1] IN got \cup UNION {next[x] : x \in got}
    IN reach[bound]

\* The code item fall-through reaches from item i, across pad.
FallsTo(span, i) ==
    LET j == After(span, i, "PAD")
    IN IF span[i].ft /\ j # 0 /\ IsCode(span[j]) THEN {j} ELSE {}

JumpsTo(span, i) ==
    LET t == BranchTo(span[i]) IN IF t \in DOMAIN span /\ IsCode(span[t]) THEN {t} ELSE {}

\* The items up to the first code item past everything the function reaches
\* from its entry and from its labels.
OwnedEnd(span) ==
    LET next == [i \in DOMAIN span |-> FallsTo(span, i) \cup JumpsTo(span, i)]
        seen == Closure({1} \cup {i \in Labelled(span) : IsCode(span[i])}, next, Len(span))
        past == {k \in (Max(seen) + 1)..Len(span) : IsCode(span[k])}
    IN IF ~IsCode(span[1]) THEN Len(span)
       ELSE IF past = {} THEN Len(span) ELSE Min(past) - 1

\* The function's own body: what it reaches, without the trailing material.
Body(span) ==
    LET owned == SubSeq(span, 1, OwnedEnd(span))
        kept == {i \in DOMAIN owned : owned[i].cls \notin {"FILL", "PAD", "GAP"}}
    IN IF kept = {} THEN <<>> ELSE SubSeq(owned, 1, Max(kept))

\* No branch or label enters a run of NOPs past its first one: the backends put their
\* pad before a block's first instruction.
Emitted(span) ==
    \A t \in Entered(span) \cap 2..SpanLength : span[t].cls = "NOP" => span[t - 1].cls # "NOP"
=============================================================================
