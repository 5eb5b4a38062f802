----------------------------- MODULE MatrixFiles -----------------------------
(***************************************************************************)
(* The files of a generated matrix: what a run of a generator's main does  *)
(* to them, file by file, and which of them conformance/run.sh judges a    *)
(* cell by.  The driver is that of gen-operator-matrix.py, whose cells     *)
(* expect output, with an override where an ILP32 target prints otherwise, *)
(* or expect an error; the other generators do a part of it.  A run may be *)
(* killed between any two steps, and inside a write; the table of cells    *)
(* and the files change by hand between runs.                              *)
(***************************************************************************)
EXTENDS Integers, Sequences, FiniteSets

CONSTANTS
    Cells,     \* coordinates
    Outputs,   \* what cells may print, or the error they expect
    EditBound, \* edits by hand, of the table or of the files
    KillBound  \* runs killed

\* The cells are listed in the generator.
ASSUME CellsAssumption == IsFiniteSet(Cells)

None == <<>>                   \* a file that does not exist
Torn == <<"torn">>             \* what an open for writing leaves until the write
Text(o) == <<"text", o>>
Absent == <<"absent">>         \* no such cell
ValueCell(o64, o32) == <<"value", o64, o32>>
ErrorCell(o) == <<"error", o>>
Entries == {Absent} \cup {ValueCell(x, y) : x, y \in Outputs} \cup {ErrorCell(o) : o \in Outputs}

Exts == {"bn", "expected", "override", "error", "xfail"}
Owned == {"bn", "expected", "override", "error"}

VARIABLES
    table,        \* the generator's cells
    disk,         \* the files
    gen,          \* the run: idle, running, or how it ended
    todo,         \* the files it has yet to reconcile
    opened,       \* is the first of them open for writing?
    changed,      \* the files it reports
    edits, kills

files == <<table, disk, gen, todo, opened, changed, edits, kills>>

---------------------------------------------------------------------------
(* What a run does.                                                        *)

\* Mutant of Wanted: an override that is not needed is not looked at.
WantedKeepsOverride(c, entry) ==
    CASE entry = Absent -> <<>>
      [] entry[1] = "value" ->
           <<<<c, "bn", entry>>, <<c, "expected", Text(entry[2])>>>>
             \o (IF entry[3] # entry[2] THEN <<<<c, "override", Text(entry[3])>>>> ELSE <<>>)
      [] entry[1] = "error" -> <<<<c, "bn", entry>>, <<c, "error", Text(entry[2])>>>>

\* The files of a cell in the order main reconciles them, each with the
\* content it is to have; an override only where the target prints
\* otherwise, else none.
Wanted(c, entry) ==
    CASE entry = Absent -> <<>>
      [] entry[1] = "value" ->
           <<<<c, "bn", entry>>, <<c, "expected", Text(entry[2])>>,
             <<c, "override", IF entry[3] # entry[2] THEN Text(entry[3]) ELSE None>>>>
      [] entry[1] = "error" -> <<<<c, "bn", entry>>, <<c, "error", Text(entry[2])>>>>

\* all_cells, then error_cells.
Order == CHOOSE s \in [1..Cardinality(Cells) -> Cells] : \A c \in Cells : \E i \in DOMAIN s : s[i] = c
OfKind(kind, i) == IF table[Order[i]][1] = kind THEN Wanted(Order[i], table[Order[i]]) ELSE <<>>
AllOfKind(kind) ==
    LET upto[i \in 0..Cardinality(Cells)] == IF i = 0 THEN <<>> ELSE upto[i - 1] \o OfKind(kind, i)
    IN upto[Cardinality(Cells)]
Plan == AllOfKind("value") \o AllOfKind("error")

Idle == gen \notin {"checking", "writing"}

FilesInit ==
    /\ table = [c \in Cells |-> Absent]
    /\ disk = [c \in Cells |-> [e \in Exts |-> None]]
    /\ gen = "idle"
    /\ todo = <<>>
    /\ opened = FALSE
    /\ changed = {}
    /\ edits = 0
    /\ kills = 0

\* The table is edited.
EditTable ==
    /\ Idle
    /\ edits < EditBound
    /\ \E c \in Cells : \E e \in Entries \ {table[c]} : table' = [table EXCEPT ![c] = e]
    /\ gen' = "idle"
    /\ edits' = edits + 1
    /\ UNCHANGED <<disk, todo, opened, changed, kills>>

\* A file is edited or deleted, or a cell marked as a known failure.
EditFile ==
    /\ Idle
    /\ edits < EditBound
    /\ \E c \in Cells, e \in Exts, t \in {None} \cup {Text(o) : o \in Outputs} :
         /\ disk[c][e] # t
         /\ e \in Owned => disk[c][e] # None
         /\ disk' = [disk EXCEPT ![c][e] = t]
    /\ gen' = "idle"
    /\ edits' = edits + 1
    /\ UNCHANGED <<table, todo, opened, changed, kills>>

StartRun ==
    /\ Idle
    /\ \E how \in {"checking", "writing"} : gen' = how
    /\ todo' = Plan
    /\ changed' = {}
    /\ UNCHANGED <<table, disk, opened, edits, kills>>

\* _sync of the next file: a write opens it first, a removal is one step.
Sync ==
    /\ gen \in {"checking", "writing"} /\ todo # <<>> /\ ~opened
    /\ LET c == todo[1][1]
           e == todo[1][2]
           content == todo[1][3]
           differs == disk[c][e] # content
           writes == gen = "writing" /\ differs
       IN /\ changed' = IF differs THEN changed \cup {<<c, e>>} ELSE changed
          /\ opened' = (writes /\ content # None)
          /\ disk' = IF writes THEN [disk EXCEPT ![c][e] = IF content = None THEN None ELSE Torn] ELSE disk
          /\ todo' = IF writes /\ content # None THEN todo ELSE SubSeq(todo, 2, Len(todo))
    /\ UNCHANGED <<table, gen, edits, kills>>

WriteFile ==
    /\ opened
    /\ disk' = [disk EXCEPT ![todo[1][1]][todo[1][2]] = todo[1][3]]
    /\ opened' = FALSE
    /\ todo' = SubSeq(todo, 2, Len(todo))
    /\ UNCHANGED <<table, gen, changed, edits, kills>>

EndRun ==
    /\ gen \in {"checking", "writing"} /\ todo = <<>>
    /\ gen' = IF gen = "writing" THEN "written" ELSE IF changed = {} THEN "current" ELSE "stale"
    /\ UNCHANGED <<table, disk, todo, opened, changed, edits, kills>>

Kill ==
    /\ gen \in {"checking", "writing"}
    /\ kills < KillBound
    /\ gen' = "idle"
    /\ todo' = <<>>
    /\ opened' = FALSE
    /\ changed' = {}
    /\ kills' = kills + 1
    /\ UNCHANGED <<table, disk, edits>>

FilesNext == EditTable \/ EditFile \/ StartRun \/ Sync \/ WriteFile \/ EndRun \/ Kill
FilesSpec == FilesInit /\ [][FilesNext]_files

---------------------------------------------------------------------------
(* run.sh.                                                                 *)

\* What run.sh holds a cell against on a target, if it is not marked as a
\* known failure: an error, if there is a file for one, else output, that
\* of the mode first.
Judged(d, ilp32) ==
    IF d["xfail"] # None THEN <<"skipped">>
    ELSE IF d["error"] # None THEN <<"error", d["error"]>>
    ELSE IF ilp32 /\ d["override"] # None THEN <<"output", d["override"]>>
    ELSE IF d["expected"] # None THEN <<"output", d["expected"]>>
    ELSE <<"skipped">>

Meant(entry, ilp32) ==
    IF entry[1] = "error" THEN <<"error", Text(entry[2])>>
    ELSE <<"output", Text(IF ilp32 THEN entry[3] ELSE entry[2])>>

(* Once a run has written the matrix, or has found it up to date, run.sh   *)
(* runs the program the generator makes for each of its cells and judges   *)
(* it by what the generator means, on every target: whatever was edited,   *)
(* and however earlier runs were cut short.  Left out are the cells marked *)
(* as known failures, which no run touches, and a cell that expected an    *)
(* error once and now expects output: no generator removes its .error, and *)
(* run.sh takes that first.                                                *)
JudgedAsMeant ==
    gen \in {"written", "current"} =>
        \A c \in Cells : table[c] # Absent /\ disk[c]["xfail"] = None /\ (table[c][1] = "error" \/ disk[c]["error"] = None) =>
            disk[c]["bn"] = table[c] /\ \A ilp32 \in BOOLEAN : Judged(disk[c], ilp32) = Meant(table[c], ilp32)
=============================================================================
