---------------------------- MODULE ScalarCells ----------------------------
(***************************************************************************)
(* The scalar cells on a backend: which coordinates have a cell, what a    *)
(* backend prints for its tuples, held against .expected (or against the   *)
(* .expected.<mode> of an ILP32 target), and the flaws the generators say  *)
(* the cell is there to show.                                              *)
(***************************************************************************)
EXTENDS ScalarDiff, ScalarMatrix

At(matrix, c) == [matrix |-> matrix, c |-> c]

CuratedOps == {"add", "sub", "mul", "div", "rem", "shl", "shr"}
OperatorOps == {"neg", "not", "compound-shl", "compound-shr"}
ScalarCoords ==
    {At("diff", c) : c \in Coords}
      \cup {At("scalar", Coord(op, w, sign)) : op \in CuratedOps, w \in Widths, sign \in Signs}
      \cup {At("scalar", Coord(op, w, "unsigned")) : op \in {"int-to-float", "float-to-int"}, w \in Widths}
      \cup {At("operator", Coord(op, w, sign)) : op \in {"neg", "not"}, w \in Widths, sign \in Signs}
      \cup {At("operator", Coord(op, w, "unsigned")) : op \in {"compound-shl", "compound-shr"}, w \in Widths}
      \cup {At("operator", Coord("rel", w, "signed")) : w \in Widths}
      \cup {At("typepair", Coord(op, w, sign)) : op \in {"shl", "shr"}, w \in Widths, sign \in Signs}
      \cup {At("const", Coord("lanes", w, sign)) : w \in Widths, sign \in Signs}

WideFloat == CHOOSE f \in Floats : \A g \in Floats : Mant[g] <= Mant[f]
NarrowFloat == CHOOSE f \in Floats : \A g \in Floats : Mant[f] <= Mant[g]

TuplesOf(at, s) ==
    LET c == at.c
    IN CASE at.matrix = "diff" -> Cell(c, s)
         [] at.matrix = "const" -> LaneCell(c)
         [] at.matrix = "typepair" -> TypepairCell(c, Widths)
         [] c.op \in {"add", "sub", "mul"} -> CuratedArithCell(c)
         [] c.op \in {"div", "rem"} -> CuratedDivRemCell(c)
         [] c.op \in {"shl", "shr"} -> OvershiftCell(c)
         [] c.op \in {"int-to-float", "float-to-int"} -> CuratedFloatCell(c, WideFloat)
         [] c.op \in {"neg", "not"} -> CuratedUnaryCell(c)
         [] c.op \in {"compound-shl", "compound-shr"} ->
              CompoundCell([c EXCEPT !.op = IF c.op = "compound-shl" THEN "shl" ELSE "shr"])
         [] c.op = "rel" -> RelCell

---------------------------------------------------------------------------
(* The floats of a backend: integers rounded to nearest even.              *)

RoundTo(flaw, v, m) ==
    LET mag == Magnitude(v)
        e == CHOOSE n \in 0..(2 * Reg) : mag < 2^(m + n) /\ \A k \in 0..(n - 1) : mag >= 2^(m + k)
        q == mag \div 2^e
        r == mag % 2^e
        up == flaw # "truncates" /\ (2 * r > 2^e \/ (2 * r = 2^e /\ q % 2 = 1))
        res == (IF up THEN q + 1 ELSE q) * 2^e
    IN IF v < 0 THEN -res ELSE res

\* The value a conversion reads in the register r.
ReadInt(flaw, r, sign) ==
    IF (sign = "signed" \/ flaw = "signed_to_float") /\ Negative(r) THEN r - 2^Reg ELSE r

\* The register a conversion from the float x leaves.  A signed one gives
\* the indefinite pattern, only its top bit set, for what is out of range.
WriteInt(flaw, x, w, sign) ==
    LET t == TruncTowardZero(x.q)
        unrepresentable == x.kind \in {"inf", "ninf", "nan"} \/ t >= 2^(Reg - 1) \/ t < -(2^(Reg - 1))
        clamped == IF x = NaN THEN 0
                   ELSE IF x = Inf \/ (x # NegInf /\ t > High(w, sign)) THEN High(w, sign)
                   ELSE IF x = NegInf \/ t < Low(w, sign) THEN Low(w, sign) ELSE t
    IN IF flaw = "no_saturate" \/ (flaw = "signed_to_int" /\ sign = "unsigned")
       THEN Narrow(IF unrepresentable THEN 2^(Reg - 1) ELSE Pattern(t), w, sign)
       ELSE Narrow(Pattern(clamped), w, sign)

FloatHolds(flaw, rel, x, y) ==
    CASE flaw = "bit_equality" /\ rel \in {"==", "!="} -> (x = y) = (rel = "==")
      [] flaw = "ordered_ne" /\ rel = "!=" -> NaN \notin {x, y} /\ FHolds(rel, x, y)
      [] OTHER -> FHolds(rel, x, y)

---------------------------------------------------------------------------
(* What a backend with a flaw, on a target with an int of iw bits, prints. *)

Load(v, c) == Narrow(Pattern(v), c.w, c.sign)

\* The register holding an integer tuple's result.
ResultOf(flaw, c, t) ==
    LET x == Load(t.a, c)
        y == Load(t.b, c)
        guarded == IF flaw = "unguarded_lvalue" /\ "lv" \in DOMAIN t /\ t.lv # "ident" THEN "masked_count" ELSE flaw
    IN IF \E op \in DOMAIN Consumed : t.do = Consumed[op]
       THEN LET op == CHOOSE o \in DOMAIN Consumed : t.do = Consumed[o]
            IN Execute(flaw, "shr", Execute(flaw, op, x, y, c.w, c.sign), c.w \div 2, c.w, c.sign)
       ELSE Execute(guarded, t.do, x, y, c.w, c.sign)

RelationOf(flaw, c, t) ==
    LET x == Load(t.a, c)
        y == Load(t.b, c)
        other == flaw = "other_sign_compare" \/ (flaw = "untyped_literal" /\ t.left)
        signed == (c.sign = "signed") # other
        less == LessThan(x, y, signed)
    IN CASE t.do = "==" -> x = y [] t.do = "!=" -> x # y [] t.do = "<" -> less
         [] t.do = "<=" -> less \/ x = y [] t.do = ">" -> ~less /\ x # y [] t.do = ">=" -> ~less

\* Does the line print what a tuple's int, float or cast should be?
ConversionHolds(flaw, c, t) ==
    LET x == Load(t.a, c)
        float(m) == RoundTo(flaw, ReadInt(flaw, x, c.sign), m)
        back(v) == WriteInt(flaw, Fin(4 * v), c.w, c.sign)
    IN CASE t.do = "sign" -> Holds(t.rel, float(Mant[t.f]), 0)
         [] t.do = "roundtrip" -> back(float(Mant[t.f])) = x
         [] t.do = "convert" -> WriteInt(flaw, t.x, c.w, c.sign) = Load(t.want, c)
         [] t.do = "widen" -> RoundTo(flaw, RoundTo(flaw, t.a, Mant[t.f]), Mant[WideFloat]) = t.want
         [] t.do = "narrow" -> RoundTo(flaw, RoundTo(flaw, t.a, Mant[WideFloat]), Mant[t.f]) = t.want
         [] t.do = "cast" ->
              LET r == IF flaw = "zero_extend" THEN t.a % 2^c.w ELSE x
              IN Narrow(r, t.dw, t.dsign) = Narrow(Pattern(t.want), t.dw, t.dsign)

Signed(r, iw) == IF Bit(r, iw - 1) = 1 THEN (r % 2^iw) - 2^iw ELSE r % 2^iw

\* Is the tuple's line as expected?  Comparing or printing a result reads
\* only its own bits.
LineHolds(flaw, iw, at, t) ==
    LET c == at.c
        wanted == IF iw = WideInt THEN t.want ELSE t.want32
    IN IF t.do \in {"sign", "roundtrip", "convert", "widen", "narrow", "cast"} THEN ConversionHolds(flaw, c, t)
       ELSE IF c.op = "fcmp" THEN Printed(FloatHolds(flaw, t.do, t.x, t.y)) = t.want
       ELSE IF t.do \in RelOps THEN Printed(RelationOf(flaw, c, t)) = t.want
       ELSE IF t.do = "lane" THEN (Pattern(Load(t.a, c)) \div 2^(Lane * t.b)) % 2^Lane = wanted
       ELSE IF at.matrix \in {"diff", "typepair"} THEN Narrow(ResultOf(flaw, c, t), c.w, c.sign) = Load(t.want, c)
       ELSE Signed(Narrow(ResultOf(flaw, c, t), c.w, c.sign), iw) = wanted

---------------------------------------------------------------------------
(* The flaws a cell is there to show, by what its generator says of it.    *)

Word(c) == c.w = Reg
ScalarClaims(at) ==
    LET c == at.c
        curated == at.matrix = "scalar"
        diff == at.matrix = "diff"
        If(cond, flaws) == IF cond THEN flaws ELSE {}
    IN If((diff \/ curated) /\ c.op \in {"shl", "shr"}, {"masked_count"})
         \cup If(diff /\ c.op = "shr" /\ c.sign = "signed", {"zero_fill"})
         \cup If(((curated /\ c.op \in {"add", "sub", "mul"}) \/ (diff /\ c.op \in {"add", "mul", "neg"})
                     \/ (diff /\ <<c.op, c.sign>> \in {<<"sub", "signed">>, <<"not", "unsigned">>})) /\ ~Word(c), {"dirty_upper"})
         \cup If((diff \/ curated) /\ c.op \in {"div", "rem"} /\ (Word(c) \/ c.sign = "signed"), {"other_sign_div"})
         \cup If((diff \/ curated) /\ c.op = "int-to-float" /\ c.sign = "unsigned" /\ Word(c), {"signed_to_float"})
         \cup If((diff \/ curated) /\ c.op = "float-to-int" /\ c.sign = "unsigned" /\ Word(c), {"signed_to_int"})
         \cup If(diff /\ c.op = "float-to-int", {"no_saturate"})
         \cup If(diff /\ c.op = "int-cast" /\ c.sign = "signed" /\ ~Word(c), {"zero_extend"})
         \cup If(diff /\ c.op = "cmp" /\ (Word(c) \/ c.sign = "signed"), {"other_sign_compare"})
         \cup If(c.op = "fcmp", {"ordered_ne", "bit_equality"})
         \cup If(c.op = "float-cast", {"truncates"})
         \cup If(c.op \in {"compound-shl", "compound-shr"}, {"unguarded_lvalue"})
         \cup If(at.matrix = "typepair" /\ <<c.op, c.sign>> # <<"shr", "signed">>, {"masked_count"})
         \cup If(c.op = "rel", {"untyped_literal"})
=============================================================================
