----------------------------- MODULE TupleCodec -----------------------------
(***************************************************************************)
(* Tuples and schemas (wackdb_tuple): values laid out as a bitmap of       *)
(* NULLs, a part with a fixed size for each column, and the bytes of the   *)
(* strings, which the fixed part points to with two numbers of 16 bits.    *)
(*                                                                         *)
(* A value is <<type, contents>>.  A string is its length: "x", "xx" and   *)
(* so on, which compare as their lengths do.  DDL declares every column    *)
(* NOT NULL and INSERT parses no NULL, so values are never NULL.           *)
(***************************************************************************)
EXTENDS Bytes, Sequences, SequencesExt

Column(name, type) == [name |-> name, type |-> type]

Width(type) == IF type = "boolean" THEN 1 ELSE 4

BitmapSize(schema) == (Len(schema) + 7) \div 8

(* Place of the i-th column's fixed part.                                  *)
FieldAt(schema, i) ==
    LET at[n \in 1 .. Len(schema) + 1] ==
            IF n = 1 THEN BitmapSize(schema) ELSE at[n - 1] + Width(schema[n - 1].type)
    IN  at[i]

(* Bytes of the strings before the i-th value, of all with i = Len + 1.    *)
TextBefore(values, i) ==
    LET TextLength(value) == IF value[1] = "varchar" THEN value[2] ELSE 0
        before[n \in 1 .. Len(values) + 1] ==
            IF n = 1 THEN 0 ELSE before[n - 1] + TextLength(values[n - 1])
    IN  before[i]

VarBase(schema) == FieldAt(schema, Len(schema) + 1)

(* A number that 16 bits do not hold is stored as 0.                       *)
OrZero(n) == IF n < 65536 THEN n ELSE 0

(* Mutant: offsets stay relative to the strings.                           *)
PointerRelative(schema, values, i) ==
    <<"pointer", OrZero(TextBefore(values, i)), OrZero(values[i][2])>>

Pointer(schema, values, i) ==
    <<"pointer", U16(OrZero(TextBefore(values, i)) + VarBase(schema)), OrZero(values[i][2])>>

(* Tuple::from_values *)
FromValues(schema, values) ==
    LET Fixed(i) == IF values[i][1] = "varchar" THEN Pointer(schema, values, i) ELSE values[i]
        texts == { i \in DOMAIN values : values[i][1] = "varchar" /\ values[i][2] > 0 }
    IN  [bytes |->
            {Piece(0, BitmapSize(schema), <<"bitmap">>)}
            \union { Piece(FieldAt(schema, i), Width(schema[i].type), Fixed(i))
                       : i \in DOMAIN schema }
            \union { Piece(VarBase(schema) + TextBefore(values, i), values[i][2], values[i])
                       : i \in texts },
         len |-> VarBase(schema) + TextBefore(values, Len(values) + 1)]

-----------------------------------------------------------------------------
(* Tuple::to_values, one column at a time.                                 *)

Malformed == <<"malformed">>    \* a DeserializationError

TextOf(tuple, offset, length) ==
    IF offset + length > tuple.len THEN Malformed
    ELSE IF length = 0 THEN <<"varchar", 0>>
    ELSE Read(tuple.bytes, offset, length)

ValueOf(schema, tuple, i) ==
    LET type == schema[i].type
        cell == Read(tuple.bytes, FieldAt(schema, i), Width(type))
    IN  IF FieldAt(schema, i) + Width(type) > tuple.len THEN Malformed
        ELSE IF type # "varchar" THEN cell
        ELSE IF cell[1] = "pointer" THEN TextOf(tuple, cell[2], cell[3])
        ELSE Garbage

ToValues(schema, tuple) == [i \in 1 .. Len(schema) |-> ValueOf(schema, tuple, i)]
=============================================================================
