------------------------------- MODULE MCTools -------------------------------
(***************************************************************************)
(* Finite instances of four small tools, one at a time and the others      *)
(* idle: the generated matrices and the backends they judge (Conformance), *)
(* the reconciling of a matrix's files (MatrixFiles), the selection of an  *)
(* arm (Selection), and the two analyses of a layout (MCLayout).  For the  *)
(* matrices the register has 12 bits and the one sub-word type 8, so that  *)
(* a product fits TLC's integers and every sum of two sub-word values a    *)
(* register; the floats have 5 and 9 bits of mantissa, less than the       *)
(* integers they are converted from and to, as f32 and f64 have.           *)
(***************************************************************************)
EXTENDS Conformance, MatrixFiles, Selection, MCLayout

MCMant == [f32 |-> 5, f64 |-> 9]

Arm(native, p, common, geomean, high, text, variance) ==
    [native |-> native, p |-> p, seeds |-> common, geomean |-> geomean, high |-> high, text |-> text, variance |-> variance]

\* Three items whose p-values are at the thresholds and beyond, and arms not
\* measured on all of them.
MCGuarded ==
    {Arm(TRUE, <<p, q, r>>, {1, 2, 3}, -1, 1, 100, 1) : p \in {2, 3, 6, 7}, q \in {2, 3, 6}, r \in {6, Unknown}}
      \cup {Arm(TRUE, <<2, 7, NoSeed>>, {}, -1, 1, 100, 1), Arm(TRUE, <<7, NotRun, 3>>, {1, 2, 3}, -2, 1, 100, Unknown)}
\* Arms slower on none that differ in time, text and spread, and arms that
\* lack something or share one seed only.
MCRanked ==
    {Arm(TRUE, <<7, 7, 7>>, {1, 2, 3}, g, 1, t, v) : g \in {-2, -1, 1}, t \in {99, 100}, v \in {-1, 1, 3}}
      \cup {Arm(n, <<7, 7, 7>>, {3}, -2, h, t, 1) : n \in BOOLEAN, h \in {-1, 0}, t \in {100, 103, Unknown}}
MCMeasured == MCGuarded \cup MCRanked

NothingJudged ==
    coord = NoCell /\ seed = 0 /\ cell = {} /\ ran = FALSE /\ flaws = {} /\ failing = {}
NoFiles ==
    /\ table = [c \in Cells |-> Absent] /\ disk = <<>> /\ gen = "none" /\ todo = <<>>
    /\ opened = FALSE /\ changed = {} /\ edits = 0 /\ kills = 0
NothingMeasured == data = [base |-> Unknown, arms |-> <<>>, apart |-> {}, whole |-> FALSE] /\ verdict = NoVerdict

VARIABLE tool  \* the one that runs

tools == <<tool, judged, files, selecting, vars, flow>>

ToolsInit ==
    \/ tool = "judge" /\ Init /\ NoFiles /\ NothingMeasured /\ NoBuild /\ NoGraph
    \/ tool = "generate" /\ NothingJudged /\ FilesInit /\ NothingMeasured /\ NoBuild /\ NoGraph
    \/ tool = "select" /\ NothingJudged /\ NoFiles /\ SelectInit /\ NoBuild /\ NoGraph
    \/ tool = "layout" /\ NothingJudged /\ NoFiles /\ NothingMeasured /\ ToolInit
ToolsNext ==
    /\ \/ tool = "judge" /\ Next /\ UNCHANGED <<files, selecting, vars, flow>>
       \/ tool = "generate" /\ FilesNext /\ UNCHANGED <<judged, selecting, vars, flow>>
       \/ tool = "select" /\ SelectNext /\ UNCHANGED <<judged, files, vars, flow>>
       \/ tool = "layout" /\ ToolNext /\ UNCHANGED <<judged, files, selecting>>
    /\ UNCHANGED tool
ToolsSpec == ToolsInit /\ [][ToolsNext]_tools
=============================================================================
