--------------------------- MODULE TwosComplement ---------------------------
(***************************************************************************)
(* The scalar oracle of the conformance generators and a machine to hold   *)
(* against it.  The oracle (conformance/gen-diff-scalar.py) computes with  *)
(* mathematical integers and reduces at the end; the machine keeps bit     *)
(* patterns in registers of Reg bits, as the code of a backend does.       *)
(***************************************************************************)
EXTENDS Integers

CONSTANT Reg   \* bits of a machine register, the widest integer type

ASSUME RegAssumption == Reg \in Nat \ {0}

---------------------------------------------------------------------------
(* The oracle.                                                             *)

UVal(v, w) == v % 2^w
SVal(v, w) == IF UVal(v, w) >= 2^(w - 1) THEN UVal(v, w) - 2^w ELSE UVal(v, w)

Reinterp(u, w, sign) == IF sign = "signed" THEN SVal(u, w) ELSE u

CastExpected(v, dw, dsign) == Reinterp(UVal(v, dw), dw, dsign)

\* Mutant of ShlExpected: the count taken modulo the width.
ShlExpectedMasked(x, c, w, sign) == Reinterp(UVal(UVal(x, w) * 2^(c % w), w), w, sign)

ShlExpected(x, c, w, sign) == Reinterp(IF c < w THEN UVal(UVal(x, w) * 2^c, w) ELSE 0, w, sign)

\* Flooring division by 2^c is the sign fill.
ShrExpected(x, c, w, sign) ==
    IF sign = "unsigned" THEN IF c < w THEN UVal(x, w) \div 2^c ELSE 0
    ELSE SVal(x, w) \div 2^c

ArithWrapExpected(op, a, b, w, sign) ==
    Reinterp(UVal(CASE op = "add" -> a + b [] op = "sub" -> a - b [] op = "mul" -> a * b, w), w, sign)

Magnitude(v) == IF v < 0 THEN -v ELSE v
TruncDiv(a, b) ==
    LET q == Magnitude(a) \div Magnitude(b) IN IF (a < 0) # (b < 0) THEN -q ELSE q
DivRemExpected(op, a, b, w, sign) ==
    LET q == TruncDiv(a, b) IN Reinterp(UVal(IF op = "div" THEN q ELSE a - q * b, w), w, sign)

Bit(u, i) == (u \div 2^i) % 2
\* The bits of u and v below n, combined one by one.
BitsOf(op, u, v, n) ==
    LET one(i) == CASE op = "and" -> Bit(u, i) * Bit(v, i)
                    [] op = "or" -> IF Bit(u, i) + Bit(v, i) > 0 THEN 1 ELSE 0
                    [] op = "xor" -> (Bit(u, i) + Bit(v, i)) % 2
        sum[i \in 0..n] == IF i = 0 THEN 0 ELSE sum[i - 1] + one(i - 1) * 2^(i - 1)
    IN sum[n]
BitwiseExpected(op, a, b, w, sign) == Reinterp(BitsOf(op, UVal(a, w), UVal(b, w), w), w, sign)

\* The name of an operator whose result a shift consumes.
Consumed == [add |-> "add>>", sub |-> "sub>>", mul |-> "mul>>", not |-> "not>>", neg |-> "neg>>"]

RelOps == {"==", "!=", "<", "<=", ">", ">="}
Holds(rel, a, b) ==
    CASE rel = "==" -> a = b [] rel = "!=" -> a # b [] rel = "<" -> a < b
      [] rel = "<=" -> a <= b [] rel = ">" -> a > b [] rel = ">=" -> a >= b

\* What testing.Println(cast(int, v)) prints of the width-bit pattern raw
\* where int has iw bits.
CastInt(raw, w, sign, iw) ==
    LET pat == IF w >= iw THEN raw % 2^iw
               ELSE IF sign = "signed" /\ raw >= 2^(w - 1) THEN (raw - 2^w) % 2^iw
               ELSE raw
    IN IF pat >= 2^(iw - 1) THEN pat - 2^iw ELSE pat

---------------------------------------------------------------------------
(* The machine: what a backend's code leaves in a register for an operator *)
(* on two registers of the type of width w, and the flaws it may have.     *)

Pattern(v) == v % 2^Reg
Negative(r) == Bit(r, Reg - 1) = 1
Negated(r) == Pattern(2^Reg - r)
Absolute(r) == IF Negative(r) THEN Negated(r) ELSE r

\* The low w bits of r, extended to the register.
Narrow(r, w, sign) ==
    LET low == r % 2^w
    IN IF sign = "signed" /\ Bit(low, w - 1) = 1 THEN low + (2^Reg - 2^w) ELSE low

\* A shift instruction masks its count: it needs a compare and a select.
ShiftLeft(flaw, r, c, w) ==
    IF c < w THEN Pattern(r * 2^c)
    ELSE IF flaw = "masked_count" THEN Pattern(r * 2^(c % w)) ELSE 0
ShiftRight(flaw, r, c, w, sign) ==
    LET fills == sign = "signed" /\ Negative(r) /\ flaw # "zero_fill"
        by(n) == r \div 2^n + (IF fills THEN 2^Reg - 2^(Reg - n) ELSE 0)
    IN IF c < w THEN by(c)
       ELSE IF flaw = "masked_count" THEN by(c % w)
       ELSE IF fills THEN 2^Reg - 1 ELSE 0

Quotient(r, s, signed) ==
    IF ~signed THEN r \div s
    ELSE LET q == Absolute(r) \div Absolute(s) IN IF Negative(r) # Negative(s) THEN Negated(q) ELSE q

\* With the sign bit flipped, patterns compare as signed numbers.
LessThan(r, s, signed) ==
    LET key(x) == IF signed THEN Pattern(x + 2^(Reg - 1)) ELSE x IN key(r) < key(s)

\* The code of an operator: its result keeps to the width unless the flaw
\* leaves the register as the instruction did.
Execute(flaw, op, r, s, w, sign) ==
    LET signed == (sign = "signed") # (flaw = "other_sign_div")
        raw == CASE op = "add" -> Pattern(r + s)
                 [] op = "sub" -> Pattern(r + 2^Reg - s)
                 [] op = "mul" -> Pattern(r * s)
                 [] op = "div" -> Quotient(r, s, signed)
                 [] op = "rem" -> Pattern(r + 2^Reg - Pattern(Quotient(r, s, signed) * s))
                 [] op \in {"and", "or", "xor"} -> BitsOf(op, r, s, Reg)
                 [] op = "not" -> 2^Reg - 1 - r
                 [] op = "neg" -> Negated(r)
                 [] op = "shl" -> ShiftLeft(flaw, r, s, w)
                 [] op = "shr" -> ShiftRight(flaw, r, s, w, sign)
    IN IF flaw = "dirty_upper" THEN raw ELSE Narrow(raw, w, sign)
=============================================================================
