---------------------------- MODULE ScalarMatrix ----------------------------
(***************************************************************************)
(* The curated scalar cells: conformance/gen-scalar-matrix.py, the         *)
(* operators of gen-operator-matrix.py, gen-shift-typepair-matrix.py and   *)
(* the integer constants of gen-const-matrix.py.  They print values, so a  *)
(* target whose int is narrower may need an .expected of its own: each     *)
(* tuple has what a target of each width of int is to print.               *)
(***************************************************************************)
EXTENDS TwosComplement, FiniteSets

CONSTANTS
    WideInt,    \* bits of int on an LP64 target
    NarrowInt,  \* and on an ILP32 one
    Lane        \* bits of a printed lane of a constant

ASSUME IntAssumption == Lane < NarrowInt /\ NarrowInt < WideInt /\ WideInt <= Reg

Value(do, a, b, raw, c) ==
    [do |-> do, a |-> a, b |-> b, want |-> CastInt(raw, c.w, c.sign, WideInt),
     want32 |-> CastInt(raw, c.w, c.sign, NarrowInt)]
Outcome(do, a, b, res) == [do |-> do, a |-> a, b |-> b, want |-> res, want32 |-> res]

\* arith_cell: an overflowing result, shifted right without a variable
\* between.
CuratedArithCell(c) ==
    LET m == 2^c.w
        half == m \div 2
        product == (3 * 2^(c.w \div 2)) \div 2
        ab == IF c.sign = "unsigned"
              THEN CASE c.op = "add" -> <<m - 64, m - 64>> [] c.op = "mul" -> <<product, product>>
                     [] c.op = "sub" -> <<m \div 4, (3 * m) \div 4>>
              ELSE CASE c.op = "add" -> <<half - 8, half - 8>> [] c.op = "mul" -> <<product, product>>
                     [] c.op = "sub" -> <<-half + 4, 100>>
        t == ArithWrapExpected(c.op, ab[1], ab[2], c.w, c.sign)
    IN {Value(Consumed[c.op], ab[1], ab[2], (t \div 2^(c.w \div 2)) % m, c)}

\* divrem_cell: a dividend with the high bit set.
CuratedDivRemCell(c) ==
    LET a == 2^(c.w - 1) + 13 - (IF c.sign = "signed" THEN 2^c.w ELSE 0)
        q == TruncDiv(a, 7)
    IN {Value(c.op, a, 7, (IF c.op = "div" THEN q ELSE a - q * 7) % 2^c.w, c)}

\* int_to_float_cell and float_to_int_cell: the top two bits set.
CuratedFloatCell(c, wide) ==
    LET y == 3 * 2^(c.w - 2)
    IN {[do |-> IF c.op = "int-to-float" THEN "sign" ELSE "roundtrip", a |-> y, b |-> 0, f |-> wide,
         rel |-> ">", want |-> IF c.op = "int-to-float" THEN 1 ELSE y]}

\* shift_cell: a count of the width.
OvershiftCell(c) ==
    LET m == 2^c.w
    IN IF c.op = "shl" THEN {Outcome("shl", 1, c.w, 0)}
       ELSE IF c.sign = "unsigned" THEN {Outcome("shr", m - 1, c.w, 0)}
       ELSE {Outcome("shr", -(m \div 2), c.w, -1)}

\* Unary operators of gen-operator-matrix.py on X.
X == 5
CuratedUnaryCell(c) == {Value(c.op, X, 0, (IF c.op = "neg" THEN -X ELSE 2^c.w - 1 - X) % 2^c.w, c)}

\* compound_cells: a count over the width on each form of lvalue; for a
\* uint32 it is 40, the right shift of 256.
LValues == {"ident", "field", "index"}
CompoundCell(c) ==
    LET over == c.w + c.w \div 4
    IN {[do |-> c.op, a |-> IF c.op = "shl" THEN 1 ELSE 2^(c.w \div 4), b |-> over, lv |-> lv,
         want |-> 0, want32 |-> 0] : lv \in LValues}

\* binary_rel_cells: a literal left or right of a signed operand.
Literal == 5
RelCell ==
    LET result(rel, left) == IF (IF left THEN Holds(rel, Literal, -1) ELSE Holds(rel, -1, Literal)) THEN 1 ELSE 0
    IN {[do |-> rel, a |-> IF left THEN Literal ELSE -1, b |-> IF left THEN -1 ELSE Literal, left |-> left,
         want |-> result(rel, left), want32 |-> result(rel, left)] :
            rel \in {"<", ">", "<=", ">="}, left \in BOOLEAN}

\* gen-shift-typepair-matrix.py: a count of each type of width cw, in range
\* and of the value's own width.
TypepairCell(c, countWidths) ==
    LET over == IF c.op = "shl" THEN <<1, 0>> ELSE IF c.sign = "signed" THEN <<-1, -1>> ELSE <<2^c.w - 1, 0>>
        in == IF c.op = "shl" THEN <<3, 12>> ELSE <<12, 3>>
        tuple(cw, x, n, want) == [do |-> c.op, a |-> x, b |-> n, cw |-> cw, want |-> want]
    IN UNION {{tuple(cw, in[1], 2, in[2]), tuple(cw, over[1], c.w, over[2])} : cw \in countWidths}

\* gen-const-matrix.py: the lanes of a constant's pattern, low one first.
Constants(c) == IF c.sign = "signed" THEN {-1, -(2^(c.w - 1)), 2^(c.w - 2) + 2} ELSE {2^c.w - 1, 2^(c.w - 1)}
LaneCell(c) ==
    {[do |-> "lane", a |-> v, b |-> i, want |-> (UVal(v, c.w) \div 2^(Lane * i)) % 2^Lane,
      want32 |-> (UVal(v, c.w) \div 2^(Lane * i)) % 2^Lane] :
        v \in Constants(c), i \in 0..(IF c.w <= Lane THEN 0 ELSE c.w \div Lane - 1)}
=============================================================================
