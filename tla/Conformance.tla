---------------------------- MODULE Conformance ----------------------------
(***************************************************************************)
(* The generated conformance matrices (conformance/gen-*.py) and the       *)
(* backends they judge: a generator emits the cell of some coordinate, a   *)
(* backend compiles and runs it, and what it prints is held against        *)
(* .expected.  The backend conforms, or has flaws the generators say the   *)
(* cell is there to show.                                                  *)
(***************************************************************************)
EXTENDS ScalarCells

RC == INSTANCE RefcountCells
ABI == INSTANCE AbiCells
TA == INSTANCE AssertCells
MV == INSTANCE MoveCells

VARIABLES
    coord,    \* the coordinate generated: a matrix and a coordinate in it
    seed,     \* what its strings hash to
    cell,     \* the cell: what it asserts
    ran,      \* has a backend run it?
    flaws,    \* the flaws of that backend
    failing   \* what it failed of the cell

judged == <<coord, seed, cell, ran, flaws, failing>>

NoCell == At("none", NoCoord)

\* all_cells of the generators.
Coordinates ==
    ScalarCoords
      \cup {At("refcount", c) : c \in RC!RefcountCoords}
      \cup {At("abi", [shape |-> f]) : f \in ABI!Shapes}
      \cup {At("type-assert", [name |-> n]) : n \in DOMAIN TA!AssertCellOf}
      \cup {At("move", c) : c \in MV!MoveCoords}

CellOf(at, s) ==
    CASE at.matrix = "refcount" -> {RC!RefcountCell(at.c)}
      [] at.matrix = "abi" -> DOMAIN at.c.shape
      [] at.matrix = "type-assert" -> {TA!AssertCellOf[at.c.name]}
      [] at.matrix = "move" -> MV!MoveCell(at.c)
      [] OTHER -> TuplesOf(at, s)

Claims(at) ==
    LET one(claimed) == {{f} : f \in claimed}
    IN CASE at.matrix = "refcount" -> RC!RefcountClaims(at.c)
         [] at.matrix = "abi" -> one(ABI!AbiClaims(at.c.shape))
         [] at.matrix = "type-assert" -> one(TA!AssertClaims(at.c.name))
         [] at.matrix = "move" -> one(MV!MoveClaims(at.c))
         [] OTHER -> one(ScalarClaims(at))

\* Does the backend print what the line wants?
Passes(fs, iw, at, line) ==
    LET flaw == IF fs = {} THEN "none" ELSE CHOOSE f \in fs : TRUE
    IN CASE at.matrix = "refcount" -> RC!Prints(fs, line.value, line.program) = line.want
         [] at.matrix = "abi" -> ABI!FieldHolds(flaw, at.c.shape, line)
         [] at.matrix = "type-assert" -> TA!LinesOf(flaw, line.checks) = line.want
         [] at.matrix = "move" -> MV!MoveHolds(fs, at.c, line)
         [] OTHER -> LineHolds(flaw, iw, at, line)

Init ==
    /\ coord = NoCell
    /\ seed = 0
    /\ cell = {}
    /\ ran = FALSE
    /\ flaws = {}
    /\ failing = {}

\* Only the operands of the differential matrix are sampled.
Generate ==
    /\ coord = NoCell
    /\ \E at \in Coordinates, s \in Seeds :
         /\ at.matrix # "diff" => s = CHOOSE x \in Seeds : TRUE
         /\ coord' = at
         /\ seed' = s
         /\ cell' = CellOf(at, s)
    /\ UNCHANGED <<ran, flaws, failing>>

RunCell ==
    /\ coord # NoCell
    /\ ~ran
    /\ \E fs \in {{}} \cup Claims(coord), iw \in {WideInt, NarrowInt} :
         /\ flaws' = fs
         /\ failing' = {line \in cell : ~Passes(fs, iw, coord, line)}
    /\ ran' = TRUE
    /\ UNCHANGED <<coord, seed, cell>>

Next == Generate \/ RunCell
Spec == Init /\ [][Next]_judged

---------------------------------------------------------------------------
(* Properties                                                              *)

(* A backend that conforms to the language passes every cell, whatever the *)
(* sample and on a 32-bit as on a 64-bit int: what the generators compute, *)
(* the overrides for ILP32 targets included, is what the language does.    *)
OracleIsTheLanguage == ran /\ flaws = {} => failing = {}

(* A cell fails on a backend with a flaw it is there to show, whatever the *)
(* sample: something it prints shows the flaw.                             *)
FlawsSeen == ran /\ flaws \in Claims(coord) => failing # {}
=============================================================================
