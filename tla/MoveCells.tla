------------------------------ MODULE MoveCells ------------------------------
(***************************************************************************)
(* The cells about values that move, without reference counts:             *)
(* gen-aggregate-matrix.py (every lane of a plain value survives a form of *)
(* movement), gen-addr-aggregate-matrix.py (both words of a function or    *)
(* interface value), gen-nested-index-matrix.py (elements and fields       *)
(* through an index), and gen-loop-leak-matrix.py (a construct repeated    *)
(* until what it leaves on the stack would overflow it).                   *)
(***************************************************************************)
EXTENDS Integers, Sequences
LOCAL INSTANCE SequencesExt

---------------------------------------------------------------------------
(* A program moves a value of some lanes from place to place; each move    *)
(* names its site, so that a backend may go wrong there.                   *)

\* The value a cell is about has a lane i for each i; a place holds zeroes
\* before it is stored to.
Whole(n) == [i \in 1..n |-> i]
Zeroed(n) == [i \in 1..n |-> 0]

Literal(site, x) == <<[site |-> site, to |-> x, from |-> "literal"]>>
Initial(x) == <<[site |-> "init", to |-> x, from |-> "zero"]>>
Move(site, x, y) == <<[site |-> site, to |-> x, from |-> y]>>

\* What arrives at a site: the move is lost, only the first lane moves, or
\* the lanes arrive in the opposite order.
Arrives(flaws, site, new, old) ==
    CASE <<"lost", site>> \in flaws -> old
      [] <<"first", site>> \in flaws -> <<new[1]>> \o Tail(old)
      [] <<"swapped", site>> \in flaws -> Reverse(new)
      [] OTHER -> new

\* What the place x holds after the program.
HeldBy(flaws, n, program, x) ==
    LET places == {s.to : s \in ToSet(program)}
        value(m, y) == CASE y = "literal" -> Whole(n) [] y = "zero" -> Zeroed(n) [] OTHER -> m[y]
        step(m, s) == [m EXCEPT ![s.to] = Arrives(flaws, s.site, value(m, s.from), @)]
    IN FoldLeft(step, [p \in places |-> Zeroed(n)], program)[x]

---------------------------------------------------------------------------
(* gen-aggregate-matrix.py.                                                *)

KINDS ==
    [scalar_int |-> [shape |-> "scalar", lanes |-> 1], scalar_float |-> [shape |-> "scalar", lanes |-> 1],
     array_int |-> [shape |-> "array", lanes |-> 3], array_float |-> [shape |-> "array", lanes |-> 3],
     struct_int |-> [shape |-> "struct", lanes |-> 3], struct_float |-> [shape |-> "struct", lanes |-> 3]]

\* The movement under test, and the place whose lanes are then checked.
FORMS ==
    [decl_init |-> [program |-> Literal("literal", "a"), read |-> "a"],
     assign |-> [program |-> Initial("a") \o Literal("assign", "a"), read |-> "a"],
     copy |-> [program |-> Initial("a") \o Literal("literal", "b") \o Move("copy", "a", "b"), read |-> "a"],
     deref |-> [program |-> Initial("a") \o Literal("deref", "a"), read |-> "a"],
     global |-> [program |-> Literal("global", "g"), read |-> "g"],
     param |-> [program |-> Literal("literal", "a") \o Move("param", "x", "a"), read |-> "x"],
     return |-> [program |-> Literal("literal", "b") \o Move("return", "res", "b") \o Move("init", "a", "res"), read |-> "a"],
     field |-> [program |-> Literal("field", "w"), read |-> "w"]]

AggregateCoords ==
    {[axis |-> "aggregate", of |-> f, kind |-> k] :
       <<f, k>> \in {x \in (DOMAIN FORMS) \X (DOMAIN KINDS) : x[1] = "field" => KINDS[x[2]].shape # "scalar"}}

\* One line per lane.
AggregateCell(c) ==
    {[n |-> KINDS[c.kind].lanes, program |-> FORMS[c.of].program, read |-> FORMS[c.of].read, lanes |-> {i}] :
       i \in 1..KINDS[c.kind].lanes}

---------------------------------------------------------------------------
(* gen-addr-aggregate-matrix.py: the value is called where it arrives,     *)
(* which takes both its words.                                             *)

Words == 2
mkv == Literal("return", "res")
OPERATIONS ==
    [direct |-> [program |-> Literal("literal", "v"), read |-> "v"],
     copy |-> [program |-> Literal("literal", "v") \o Move("copy", "w", "v"), read |-> "w"],
     return |-> [program |-> mkv \o Move("init", "v", "res"), read |-> "v"],
     arg |-> [program |-> Literal("literal", "v") \o Move("param", "w", "v"), read |-> "w"],
     return_arg |-> [program |-> mkv \o Move("param", "w", "res"), read |-> "w"],
     field |-> [program |-> Literal("literal", "v") \o Move("field", "lit", "v") \o Move("copy", "s", "lit"), read |-> "s"],
     array_elem |-> [program |-> Literal("literal", "v") \o Move("elem", "arr", "v"), read |-> "arr"],
     global |-> [program |-> mkv \o Move("global", "gv", "res"), read |-> "gv"]]

AddrCell(op) ==
    {[n |-> Words, program |-> OPERATIONS[op].program, read |-> OPERATIONS[op].read, lanes |-> 1..Words]}

---------------------------------------------------------------------------
(* gen-nested-index-matrix.py: what is written through one index, or       *)
(* through two, to an element or to a field of it, is read back.           *)

Through(write, read) == Literal(write, "a") \o Move(read, "out", "a")
INDEXED ==
    [field_single_value_struct |-> [program |-> Through("index.field", "index.field"), fields |-> 2],
     field_single_managed_ptr |-> [program |-> Through("index", "index.field"), fields |-> 1],
     field_nested_value_struct |-> [program |-> Through("nested.field", "nested.field"), fields |-> 2],
     field_nested_managed_ptr |-> [program |-> Through("nested", "nested.field"), fields |-> 1],
     whole_nested_value_struct |-> [program |-> Literal("literal", "w") \o Move("nested", "a", "w") \o Move("nested", "out", "a"),
                                    fields |-> 1],
     scalar_nested |-> [program |-> Through("nested", "nested"), fields |-> 1]]

IndexedCell(shape) ==
    LET s == INDEXED[shape] IN {[n |-> s.fields, program |-> s.program, read |-> "out", lanes |-> {i}] : i \in 1..s.fields}

---------------------------------------------------------------------------
(* gen-loop-leak-matrix.py.                                                *)

StackBytes == 8388608  \* the common 8 MB

\* What one iteration leaves on the stack when its slot is not hoisted, and
\* the number of iterations; 0 for the controls, which leave nothing.
CONSTRUCTS ==
    LET leak(bytes, iters) == [bytes |-> bytes, iters |-> iters]
    IN [const_nil_mslice |-> leak(32, 420000), const_nil_nested_mslice |-> leak(32, 420000),
        const_nil_funcval |-> leak(16, 840000), const_nil_iface |-> leak(16, 840000),
        raw_multiret_ptr |-> leak(16, 840000),
        alloc_bigstruct |-> leak(2048, 6500), alloc_bigarray |-> leak(2048, 6500),
        rodata_array |-> leak(64, 210000), rodata_array_assign |-> leak(64, 210000), rodata_array_arg |-> leak(64, 210000),
        cast_struct_retype |-> leak(2048, 6500), unsafe_cast_array_retype |-> leak(2048, 6500),
        control_make_slice |-> leak(0, 200000), control_string_mslice |-> leak(0, 200000)]

\* The loop comes to its end, and 42 is printed.
Survives(flaws, c) == <<"unhoisted", "loop">> \in flaws => c.bytes * c.iters <= StackBytes

---------------------------------------------------------------------------
(* The coordinates, and the flaws their cells are there to show.           *)

MoveCoords ==
    LET along(axis, names) == {[axis |-> axis, of |-> x, kind |-> "any"] : x \in names}
    IN AggregateCoords \cup along("addr-aggregate", DOMAIN OPERATIONS) \cup along("nested-index", DOMAIN INDEXED)
         \cup along("loop-leak", DOMAIN CONSTRUCTS)

MoveCell(c) ==
    CASE c.axis = "aggregate" -> AggregateCell(c)
      [] c.axis = "addr-aggregate" -> AddrCell(c.of)
      [] c.axis = "nested-index" -> IndexedCell(c.of)
      [] c.axis = "loop-leak" -> {CONSTRUCTS[c.of]}

MoveHolds(flaws, c, line) ==
    IF c.axis = "loop-leak" THEN Survives(flaws, line)
    ELSE LET held == HeldBy(flaws, line.n, line.program, line.read) IN \A i \in line.lanes : held[i] = i

\* A move lost at any site of the cell; where a value of several lanes moves
\* whole, also one of which only the first arrives, or all in another order.
MoveClaims(c) ==
    IF c.axis = "loop-leak" THEN {<<"unhoisted", "loop">> : x \in {y \in {CONSTRUCTS[c.of]} : y.bytes > 0}}
    ELSE LET line == CHOOSE x \in MoveCell(c) : TRUE
             sites == {s.site : s \in {x \in ToSet(line.program) : x.from # "zero"}}
         IN ({"lost"} \cup (IF c.axis # "nested-index" /\ line.n > 1 THEN {"first", "swapped"} ELSE {})) \X sites
=============================================================================
