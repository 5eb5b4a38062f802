------------------------------ MODULE MCLayout ------------------------------
(***************************************************************************)
(* A finite instance of the two analyses of perf/placement/layout.py: a    *)
(* run of it checks the placement of one build (Placement) or reads the    *)
(* loops of one function (FlowGraph), so one of the two stays idle.        *)
(***************************************************************************)
EXTENDS Placement, FlowGraph

CONSTANTS f1, f2, f3

MCNames == {f1, f2, f3}
MCProbes == {f1, f3}
MCExported == {f3}

\* What the hash gives: distinct phases, one of them 0 or none.
MCHashes == {[x \in MCNames |-> CASE x = f1 -> 2 [] x = f2 -> 6 [] x = f3 -> 4],
             [x \in MCNames |-> CASE x = f1 -> 4 [] x = f2 -> 0 [] x = f3 -> 2]}

\* Functions that follow one another, copies of the probed function first in
\* their object, between functions, after another copy, and unprobed copies.
MCPrograms == {<<<<f1, f2, f3>>>>, <<<<f1>>, <<f1, f2>>>>, <<<<f2>>, <<f1, f2, f3>>>>, <<<<f1>>, <<f2, f1, f3>>>>,
               <<<<f2, f1>>, <<f2, f1, f3>>>>, <<<<f3>>, <<f2, f3>>>>}

---------------------------------------------------------------------------
\* Filler, NOPs, instructions that fall through or not, branches that do or
\* do not, and a call of the function itself; and NOPs and instructions with a label.
MCItems ==
    LET I(cls, ft, tgt, call) == [cls |-> cls, ft |-> ft, tgt |-> tgt, call |-> call, lbl |-> FALSE]
        L(cls, ft) == [I(cls, ft, 0, FALSE) EXCEPT !.lbl = TRUE]
    IN {I("NOP", TRUE, 0, FALSE), I("FILL", TRUE, 0, FALSE),
        I("CODE", TRUE, 0, FALSE), I("CODE", FALSE, 0, FALSE), I("CODE", TRUE, 1, TRUE),
        L("NOP", TRUE), L("CODE", TRUE), L("CODE", FALSE)}
         \cup {I("CODE", ft, tgt, FALSE) : ft \in BOOLEAN, tgt \in 1..4}

\* A span of filler, which no function runs.
NoGraph ==
    /\ recs = <<[cls |-> "FILL", ft |-> TRUE, tgt |-> 0, call |-> FALSE, lbl |-> FALSE]>>
    /\ body = <<>> /\ succ = <<>> /\ rpo = <<>> /\ idom = <<>>
    /\ at = 0 /\ refined = FALSE /\ done = FALSE
NoBuild ==
    /\ build = (CHOOSE b \in Builds : TRUE) /\ program = <<>> /\ objects = <<>> /\ twin = <<>> /\ plan = <<>>
    /\ rows = NotChecked /\ flaw = Sound

ToolInit == (PlaceInit /\ NoGraph) \/ (GraphInit /\ NoBuild)
ToolNext == (program # <<>> /\ PlaceNext /\ UNCHANGED flow) \/ (program = <<>> /\ GraphNext /\ UNCHANGED vars)
ToolSpec == ToolInit /\ [][ToolNext]_<<vars, flow>>
=============================================================================
