------------------------------ MODULE AbiCells ------------------------------
(***************************************************************************)
(* The value cells of gen-abi-matrix.py: a struct, or the components of a  *)
(* multi-return, cross a call as bytes, and each field is printed on the   *)
(* other side.  The shapes are the generator's; a backend lays the fields  *)
(* out with natural alignment and copies the bytes, or goes wrong as the   *)
(* generator says backends have.                                           *)
(***************************************************************************)
EXTENDS Integers, Sequences
LOCAL INSTANCE SequencesExt

Word8 == 8   \* bytes of a register
SizeOf == [int |-> 8, f64 |-> 8, uint32 |-> 4, uint16 |-> 2, uint8 |-> 1]
Field(type, v) == [type |-> type, v |-> v]

STRUCTS ==
    [two_int |-> <<Field("int", 10), Field("int", 20)>>,
     three_int |-> <<Field("int", 10), Field("int", 20), Field("int", 30)>>,
     three_u32 |-> <<Field("uint32", 100), Field("uint32", 200), Field("uint32", 300)>>,
     u16_int |-> <<Field("uint16", 7), Field("int", 1000)>>,
     int_u8 |-> <<Field("int", 1000), Field("uint8", 9)>>,
     five_u8 |-> [i \in 1..5 |-> Field("uint8", i)]]

MR_TYPES == {"int", "uint16", "f64"}
MR_ARITIES == 2..5
Results(type, arity) == [i \in 1..arity |-> Field(type, i * (IF type = "int" THEN 10 ELSE 100))]

Shapes == {STRUCTS[n] : n \in DOMAIN STRUCTS} \cup {Results(t, n) : t \in MR_TYPES, n \in MR_ARITIES}

---------------------------------------------------------------------------
(* The boundary.                                                           *)

AlignTo(n, size) == ((n + size - 1) \div size) * size

\* Where each field starts, and in an extra last place where the data ends.
Offsets(fields, align(_, _)) ==
    FoldLeft(LAMBDA offs, i :
               LET end == IF i = 1 THEN 0 ELSE offs[i - 1] + SizeOf[fields[i - 1].type]
               IN Append(offs, IF i > Len(fields) THEN end ELSE align(end, SizeOf[fields[i].type])),
             <<>>, [i \in 1..(Len(fields) + 1) |-> i])
Natural(fields) == Offsets(fields, AlignTo)
Packed(fields) == Offsets(fields, LAMBDA n, size : n)
DataSize(fields) == Natural(fields)[Len(fields) + 1]

\* How many of the bytes a backend with the flaw carries across, and where
\* it reads the fields then.
Carried(flaw, fields) ==
    CASE flaw = "drops_tail" -> (DataSize(fields) \div Word8) * Word8
      [] flaw = "two_words" -> 2 * Word8
      [] flaw = "pointer" -> 0
      [] OTHER -> DataSize(fields)
ReadAt(flaw, fields) ==
    CASE flaw = "unpadded" -> Packed(fields)
      [] flaw = "word_each" -> [i \in 1..(Len(fields) + 1) |-> (i - 1) * Word8]
      [] OTHER -> Natural(fields)

\* The byte at an address before the crossing: no value exceeds two bytes.
ByteAt(fields, a) ==
    LET at == Natural(fields)
        of == {i \in DOMAIN fields : at[i] <= a /\ a < at[i] + SizeOf[fields[i].type]}
    IN IF of = {} THEN 0
       ELSE LET i == CHOOSE j \in of : TRUE
            IN IF a - at[i] > 1 THEN 0 ELSE (fields[i].v \div 256^(a - at[i])) % 256

\* What prints for field i: the bytes it reads, or none of its own.
FieldRead(flaw, fields, i) ==
    LET from == ReadAt(flaw, fields)[i]
        byte(k) == IF k < SizeOf[fields[i].type] /\ from + k < Carried(flaw, fields) THEN ByteAt(fields, from + k) ELSE 0
    IN IF \E k \in 2..7 : byte(k) # 0 THEN -1 ELSE byte(0) + 256 * byte(1)

FieldHolds(flaw, fields, i) == FieldRead(flaw, fields, i) = fields[i].v

\* What a shape is there to show, by the comments at STRUCTS and MR_TYPES.
AbiClaims(fields) ==
    LET n == Len(fields)
        when(cond, flaw) == IF cond THEN {flaw} ELSE {}
    IN {"pointer"}
         \cup when(DataSize(fields) % Word8 # 0, "drops_tail")
         \cup when(DataSize(fields) > 2 * Word8, "two_words")
         \cup when(Natural(fields) # Packed(fields), "unpadded")
         \cup when(\E i \in 2..n : Natural(fields)[i] # (i - 1) * Word8, "word_each")
=============================================================================
