----------------------------- MODULE ScalarDiff -----------------------------
(***************************************************************************)
(* conformance/gen-diff-scalar.py: the cells of the differential scalar    *)
(* matrix, their oracle, and what a backend prints for them.  The widths,  *)
(* the significands and the generator of the sample are parameters: what   *)
(* the cells must show does not depend on them.  The cells are sets of     *)
(* tuples, each with what its line of .expected says.                      *)
(***************************************************************************)
EXTENDS TwosComplement, Sequences, FiniteSets

CONSTANTS
    Widths,  \* WIDTHS: the widths of the integer types; Reg is the widest
    Mant,    \* MANT: the significand bits of each float type
    Seeds,   \* what a coordinate may hash to
    Literals \* TRUNC_LITERALS, in quarters

ASSUME WidthsAssumption == Reg \in Widths /\ \A w \in Widths : w <= Reg

Signs == {"unsigned", "signed"}
Floats == DOMAIN Mant

---------------------------------------------------------------------------
(* The sample: a linear congruential generator, its high bits used.        *)

LcgStates == 0..(2^14 - 1)
LcgNext(s) == (s * 5 + 3) % 2^14
Draw(s, n) == LET state[k \in 0..n] == IF k = 0 THEN s ELSE LcgNext(state[k - 1]) IN state[n] \div 4
Below(s, n, bound) == Draw(s, n) % bound
InRange(s, n, lo, hi) == lo + Below(s, n, hi - lo + 1)

Low(w, sign) == IF sign = "signed" THEN -(2^(w - 1)) ELSE 0
High(w, sign) == IF sign = "signed" THEN 2^(w - 1) - 1 ELSE 2^w - 1

\* The boundaries of a type and the n-th draw of the sample.
Operands(w, sign, s, n) ==
    IF sign = "unsigned"
    THEN {0, 1, 2^w - 1, 2^(w - 1), 2^(w - 1) - 1, Below(s, n, 2^w)}
    ELSE {0, 1, -1, 2^(w - 1) - 1, -(2^(w - 1)), InRange(s, n, Low(w, sign), High(w, sign))}

---------------------------------------------------------------------------
(* Cells: tuples [do, a, b, type, want, ...].                              *)

Coord(op, w, sign) == [op |-> op, w |-> w, sign |-> sign]
Tuple(do, a, b, want) == [do |-> do, a |-> a, b |-> b, want |-> want]

ShiftCounts(w, s) ==
    LET fixed == <<0, 1, w \div 2, w - 1, w, w + 1, w + 2, 2 * w, 2 * w + 3>>
        drawn == Below(s, 1, 2 * w + 1)
    IN IF \E i \in DOMAIN fixed : fixed[i] = drawn THEN fixed ELSE Append(fixed, drawn)

\* Each count gets operands, and a draw, of its own.
ShiftCell(c, s) ==
    LET counts == ShiftCounts(c.w, s)
        want(x, n) == IF c.op = "shl" THEN ShlExpected(x, n, c.w, c.sign) ELSE ShrExpected(x, n, c.w, c.sign)
    IN UNION {{Tuple(c.op, x, counts[i], want(x, counts[i])) : x \in Operands(c.w, c.sign, s, i + 1)} :
                i \in DOMAIN counts}

\* Pairs whose result overflows; for div and rem no zero and no min by -1.
ArithPairs(c, s) ==
    LET half == 2^(c.w \div 2)
        mx == High(c.w, c.sign)
        mn == Low(c.w, c.sign)
        any(n) == InRange(s, n, mn, mx)
    IN IF c.op \in {"div", "rem"} THEN
         IF c.sign = "unsigned"
         THEN {<<2^(c.w - 1) + 13, 7>>, <<2^(c.w - 1) + 13, 3>>, <<mx, 2>>, <<5, 7>>, <<0, 9>>,
               <<any(1), InRange(s, 2, 1, mx)>>}
         ELSE {p \in {<<mn + 13, 7>>, <<mn + 13, -7>>, <<-100, 7>>, <<mx, -3>>, <<7, 11>>,
                      <<any(1), InRange(s, 2, 1, mx) * (IF Below(s, 3, 2) = 1 THEN 1 ELSE -1)>>} :
                 p # <<mn, -1>>}
       ELSE IF c.sign = "unsigned"
         THEN {<<mx, mx>>, <<mx, 2>>, <<2^(c.w - 1), 2^(c.w - 1)>>, <<half + 5, half + 5>>, <<mx - 3, 9>>,
               <<0, 0>>, <<any(1), any(2)>>}
         ELSE {<<mx, mx>>, <<mn, mn>>, <<mx, 2>>, <<mn, -3>>, <<-half + 1, -half + 1>>, <<mx, mn>>,
               <<any(1), any(2)>>}

\* Each result compared, and for add, sub and mul also consumed by a shift.
ArithCell(c, s) ==
    IF c.op \in {"div", "rem"}
    THEN {Tuple(c.op, p[1], p[2], DivRemExpected(c.op, p[1], p[2], c.w, c.sign)) : p \in ArithPairs(c, s)}
    ELSE LET e(p) == ArithWrapExpected(c.op, p[1], p[2], c.w, c.sign)
         IN {Tuple(c.op, p[1], p[2], e(p)) : p \in ArithPairs(c, s)}
              \cup {Tuple(Consumed[c.op], p[1], p[2], ShrExpected(e(p), c.w \div 2, c.w, c.sign)) :
                      p \in ArithPairs(c, s)}

Printed(bool) == IF bool THEN 1 ELSE 0

CmpCell(c, s) ==
    LET vs == Operands(c.w, c.sign, s, 1)
    IN {Tuple(rel, a, b, Printed(Holds(rel, a, b))) : rel \in RelOps, a \in vs, b \in vs}

\* For the unsigned types an alternating pattern replaces max/2.
BitValues(w, sign, s) ==
    LET alternating[i \in 0..w] == IF i = 0 THEN 0 ELSE 2 * alternating[i - 1] + (i % 2)
    IN IF sign = "unsigned" THEN {0, 1, 2^w - 1, 2^(w - 1), alternating[w], Below(s, 1, 2^w)}
       ELSE Operands(w, sign, s, 1)

\* Mutant of UnaryCell: the result is compared but not consumed by a shift.
UnaryCellUnconsumed(c, s) ==
    {Tuple(c.op, v, 0, Reinterp(UVal(IF c.op = "not" THEN -v - 1 ELSE -v, c.w), c.w, c.sign)) :
       v \in BitValues(c.w, c.sign, s)}

UnaryCell(c, s) ==
    LET e(v) == Reinterp(UVal(IF c.op = "not" THEN -v - 1 ELSE -v, c.w), c.w, c.sign)
    IN {Tuple(c.op, v, 0, e(v)) : v \in BitValues(c.w, c.sign, s)}
         \cup {Tuple(Consumed[c.op], v, 0, ShrExpected(e(v), c.w \div 2, c.w, c.sign)) :
                 v \in BitValues(c.w, c.sign, s)}

BitwiseCell(c, s) ==
    LET vs == BitValues(c.w, c.sign, s)
    IN {Tuple(c.op, a, b, BitwiseExpected(c.op, a, b, c.w, c.sign)) : a \in vs, b \in vs}

IntCastCell(c, s) ==
    {[do |-> "cast", a |-> v, b |-> 0, dw |-> dw, dsign |-> dsign, want |-> CastExpected(v, dw, dsign)] :
       v \in Operands(c.w, c.sign, s, 1), dw \in Widths, dsign \in Signs}

---------------------------------------------------------------------------
(* Floats: a finite value counts quarters, exactly.                        *)

Fin(q) == [kind |-> "fin", q |-> q]
Zero == Fin(0)
Special(kind) == [kind |-> kind, q |-> 0]
Inf == Special("inf")
NegInf == Special("ninf")
NaN == Special("nan")
NegZero == Special("nz")

\* Python's comparison of floats, which is IEEE's.
FHolds(rel, x, y) ==
    LET big == 2^(2 * Reg)
        key(v) == CASE v.kind = "inf" -> big [] v.kind = "ninf" -> -big [] OTHER -> v.q
    IN IF NaN \in {x, y} THEN rel = "!=" ELSE Holds(rel, key(x), key(y))

FcmpCell ==
    LET vals == {Zero, NegZero, Fin(4), Fin(-4), Inf, NegInf, NaN}
    IN {[do |-> rel, x |-> x, y |-> y, want |-> Printed(FHolds(rel, x, y))] : rel \in RelOps, x \in vals, y \in vals}

\* The sign of the float, and the round trip where it is exact.
ItfCell(c, s) ==
    LET vs == IF c.sign = "signed" THEN Operands(c.w, c.sign, s, 1)
              ELSE {0, 1, 2^c.w - 1, 2^(c.w - 1), 2^(c.w - 1) + 1, Below(s, 1, 2^c.w)}
        rel(v) == IF v > 0 THEN ">" ELSE IF v < 0 THEN "<" ELSE "=="
    IN {[do |-> "sign", a |-> v, b |-> 0, f |-> f, rel |-> rel(v), want |-> 1] : v \in vs, f \in Floats}
         \cup {[do |-> "roundtrip", a |-> vf[1], b |-> 0, f |-> vf[2], want |-> vf[1]] :
                 vf \in {x \in vs \X Floats : Magnitude(x[1]) < 2^Mant[x[2]]}}

TruncTowardZero(q) == IF q < 0 THEN -((-q) \div 4) ELSE q \div 4

SaturateToInt(x, w, sign) ==
    LET lo == Low(w, sign)
        hi == High(w, sign)
        t == TruncTowardZero(x.q)
    IN CASE x = NaN -> 0 [] x = Inf -> hi [] x = NegInf -> lo
         [] OTHER -> IF t < lo THEN lo ELSE IF t > hi THEN hi ELSE t

FtiCell(c) ==
    LET sg == c.sign = "signed"
        thr == IF sg THEN 2^(c.w - 1) ELSE 2^c.w
        y == IF sg THEN -(2^(c.w - 1)) ELSE 2^(c.w - 1)
        mags == Literals \cup (IF sg THEN {-q : q \in Literals} ELSE {})
        finite == IF sg THEN {thr, 2 * thr, -thr, -2 * thr} ELSE {thr, 2 * thr, -1, -thr}
        conv(x, e) == {[do |-> "convert", x |-> x, f |-> f, want |-> e] : f \in Floats}
    IN UNION {conv(Fin(q), TruncTowardZero(q)) : q \in mags}
         \cup {[do |-> "roundtrip", a |-> y, b |-> 0, f |-> f, want |-> y] : f \in Floats}
         \cup UNION {conv(Fin(4 * v), SaturateToInt(Fin(4 * v), c.w, c.sign)) : v \in finite}
         \cup UNION {conv(x, SaturateToInt(x, c.w, c.sign)) : x \in {Inf, NegInf, NaN}}

\* Widening is exact; narrowing rounds to nearest, ties to even.
FloatCastCell(narrow) ==
    LET m == Mant[narrow]
    IN {[do |-> "widen", a |-> v, b |-> 0, f |-> narrow, want |-> v] :
          v \in {0, 1, -1, 100 % 2^m, -(100 % 2^m), 2^(m - 1) - 1, -(2^(m - 1))}}
         \cup {[do |-> "narrow", a |-> p[1], b |-> 0, f |-> narrow, want |-> p[2]] :
                 p \in {<<2^m + 1, 2^m>>, <<2^m + 3, 2^m + 4>>}}

---------------------------------------------------------------------------
(* all_cells                                                               *)

NoCoord == Coord("none", 0, "unsigned")
Arith == {"add", "sub", "mul", "div", "rem"}
IntOps == {"shl", "shr", "int-to-float", "float-to-int", "int-cast", "cmp", "and", "or", "xor", "not", "neg"}
            \cup Arith
Coords == {Coord(op, w, sign) : op \in IntOps, w \in Widths, sign \in Signs}
            \cup {Coord("fcmp", Reg, "signed"), Coord("float-cast", Reg, "signed")}

Cell(c, s) ==
    CASE c.op \in {"shl", "shr"} -> ShiftCell(c, s)
      [] c.op \in Arith -> ArithCell(c, s)
      [] c.op = "cmp" -> CmpCell(c, s)
      [] c.op \in {"and", "or", "xor"} -> BitwiseCell(c, s)
      [] c.op \in {"not", "neg"} -> UnaryCell(c, s)
      [] c.op = "int-cast" -> IntCastCell(c, s)
      [] c.op = "int-to-float" -> ItfCell(c, s)
      [] c.op = "float-to-int" -> FtiCell(c)
      [] c.op = "fcmp" -> FcmpCell
      [] c.op = "float-cast" -> FloatCastCell(CHOOSE f \in Floats : \A g \in Floats : Mant[f] <= Mant[g])
=============================================================================
