-------------------------- MODULE HeapTableProofs ---------------------------
(***************************************************************************)
(* Proofs about a table down to its bytes, for every size of a page, every *)
(* schema and all rows whose tuples an INSERT can add up, and all          *)
(* conditions on columns that exist.  From the bottom: regions of bytes;   *)
(* the layout of a tuple, and that it is read back; the layout of a page,  *)
(* and what insert_record and mark_deleted leave of it; what a scan        *)
(* collects from a page and from all of them; what the loop over the       *)
(* conditions computes; and the invariant of the statements, HeapInv.      *)
(***************************************************************************)
EXTENDS HeapTable, SubsequencesProofs

(***************************************************************************)
(* Bytes.  A region of a run of bytes holds some pieces: they are the ones *)
(* that touch it, and they lie in it.                                      *)
(***************************************************************************)
Lies(e, at, len) ==
    /\ e = Piece(e.at, e.len, e.what)
    /\ e.at \in Int /\ e.len \in Int
    /\ at <= e.at /\ e.at + e.len <= at + len

Region(b, at, len, pieces) ==
    /\ Touched(b, at, len) = pieces
    /\ \A e \in pieces : Lies(e, at, len)

LEMMA WrittenRegion ==
    ASSUME NEW b, NEW at \in Int, NEW len \in Int, len > 0, NEW what
    PROVE  Region(Write(b, at, len, what), at, len, {Piece(at, len, what)})
<1>1. ~Apart(Piece(at, len, what), at, len)
  BY DEF Apart, Piece
<1>2. Lies(Piece(at, len, what), at, len)
  BY DEF Lies, Piece
<1>3. \A e \in b \ Touched(b, at, len) : Apart(e, at, len)
  BY DEF Touched
<1>4. Touched(Write(b, at, len, what), at, len) = {Piece(at, len, what)}
  BY <1>1, <1>3 DEF Write, Touched
<1> QED
  BY <1>2, <1>4 DEF Region

(* What is written elsewhere leaves a region alone. *)
LEMMA RegionBeside ==
    ASSUME NEW b, NEW at \in Int, NEW len \in Int, NEW pieces, Region(b, at, len, pieces),
           NEW a \in Int, NEW l \in Int, a + l <= at \/ at + len <= a,
           NEW news, \A e \in news : Lies(e, a, l)
    PROVE  Region((b \ Touched(b, a, l)) \union news, at, len, pieces)
<1>1. \A e \in pieces : e \in b /\ Apart(e, a, l)
  BY DEF Region, Lies, Apart, Touched
<1>2. \A e \in news : Apart(e, at, len)
  BY DEF Lies, Apart
<1>3. Touched((b \ Touched(b, a, l)) \union news, at, len) = pieces
  BY <1>1, <1>2 DEF Touched, Region
<1> QED
  BY <1>3 DEF Region

LEMMA RegionKept ==
    ASSUME NEW b, NEW at \in Int, NEW len \in Int, NEW pieces, Region(b, at, len, pieces),
           NEW a \in Int, NEW l \in Int, a + l <= at \/ at + len <= a, NEW what
    PROVE  Region(Write(b, a, l, what), at, len, pieces)
<1>1. \A e \in {Piece(a, l, what)} : Lies(e, a, l)
  BY DEF Lies, Piece
<1> QED
  BY <1>1, RegionBeside DEF Write

(* A run of bytes whose pieces take room and lie in it. *)
Run(pieces, len) == \A e \in pieces : Lies(e, 0, len) /\ e.len > 0

Moved(pieces, at) == { Piece(e.at + at, e.len, e.what) : e \in pieces }

LEMMA MovedLie ==
    ASSUME NEW at \in Int, NEW len \in Int, NEW source, Run(source, len)
    PROVE  \A e \in Moved(source, at) : Lies(e, at, len) /\ e.len > 0
<1> SUFFICES ASSUME NEW f \in source
             PROVE  LET e == Piece(f.at + at, f.len, f.what) IN Lies(e, at, len) /\ e.len > 0
  BY DEF Moved
<1> QED
  BY DEF Run, Lies, Piece

LEMMA CopiedRegion ==
    ASSUME NEW b, NEW at \in Int, NEW len \in Int, NEW source, Run(source, len)
    PROVE  Region(Copy(b, at, len, source), at, len, Moved(source, at))
<1>1. \A e \in Moved(source, at) : Lies(e, at, len) /\ ~Apart(e, at, len)
  BY MovedLie DEF Lies, Apart
<1>2. \A e \in b \ Touched(b, at, len) : Apart(e, at, len)
  BY DEF Touched
<1>3. Touched(Copy(b, at, len, source), at, len) = Moved(source, at)
  BY <1>1, <1>2 DEF Copy, Touched, Moved
<1> QED
  BY <1>1, <1>3 DEF Region

LEMMA RegionKeptByCopy ==
    ASSUME NEW b, NEW at \in Int, NEW len \in Int, NEW pieces, Region(b, at, len, pieces),
           NEW a \in Int, NEW l \in Int, a + l <= at \/ at + len <= a,
           NEW source, Run(source, l)
    PROVE  Region(Copy(b, a, l, source), at, len, pieces)
<1>1. \A e \in Moved(source, a) : Lies(e, a, l)
  BY MovedLie
<1> QED
  BY <1>1, RegionBeside DEF Copy, Moved

(* Reading a region with one piece that fills it. *)
LEMMA ReadRegion ==
    ASSUME NEW b, NEW at, NEW len, NEW what, Region(b, at, len, {Piece(at, len, what)})
    PROVE  Read(b, at, len) = what
<1> DEFINE e == Piece(at, len, what)
           found == Touched(b, at, len)
<1>1. found = {e} /\ e.what = what
  BY DEF Region, Piece
<1>2. (CHOOSE x \in found : TRUE) = e
  BY <1>1
<1>3. found # {} /\ \E x \in found : found = {Piece(at, len, x.what)}
  BY <1>1
<1> HIDE DEF e, found
<1>4. Read(b, at, len) = (CHOOSE x \in found : TRUE).what
  BY <1>3 DEF Read, found
<1> QED
  BY <1>1, <1>2, <1>4

(* A copied run is read back as it was. *)
LEMMA SliceOfMoved ==
    ASSUME NEW b, NEW at \in Int, NEW len \in Int, NEW source, Run(source, len),
           Region(b, at, len, Moved(source, at))
    PROVE  Slice(b, at, len) = source
<1> DEFINE Back(e) == Piece(e.at - at, e.len, IF Within(e, at, len) THEN e.what ELSE Garbage)
           Forth(e) == Piece(e.at + at, e.len, e.what)
<1>1. Slice(b, at, len) = { Back(e) : e \in Moved(source, at) }
  BY DEF Slice, Region
<1>2. \A e \in source : Back(Forth(e)) = e
  <2> TAKE e \in source
  <2>1. e = Piece(e.at, e.len, e.what) /\ e.at \in Int /\ e.len \in Int
        /\ 0 <= e.at /\ e.at + e.len <= len
    BY DEF Run, Lies
  <2>2. Forth(e).at = e.at + at /\ Forth(e).len = e.len /\ Forth(e).what = e.what
    BY DEF Piece
  <2>3. Within(Forth(e), at, len)
    BY <2>1, <2>2 DEF Within
  <2>4. Back(Forth(e)) = Piece((e.at + at) - at, e.len, e.what)
    BY <2>2, <2>3
  <2>5. (e.at + at) - at = e.at
    BY <2>1
  <2> QED BY <2>1, <2>4, <2>5
<1> HIDE DEF Back
<1>3. Moved(source, at) = { Forth(e) : e \in source }
  BY DEF Moved
<1> HIDE DEF Forth
<1> QED
  BY <1>1, <1>2, <1>3

-----------------------------------------------------------------------------
(***************************************************************************)
(* Sums over a sequence, as the codec computes its offsets.                *)
(***************************************************************************)
IsSum(f, m, a, d) ==
    f = [n \in 1 .. m + 1 |-> IF n = 1 THEN a ELSE f[n - 1] + d[n - 1]]

LEMMA SumExists ==
    ASSUME NEW m \in Nat, NEW a, NEW d
    PROVE  \E f : IsSum(f, m, a, d)
<1> DEFINE S == { n \in Nat : \E f : IsSum(f, n, a, d) }
<1>1. 0 \in S
  <2> DEFINE f == [n \in 1 .. 1 |-> a]
  <2>1. IsSum(f, 0, a, d)
    BY DEF IsSum
  <2> QED BY <2>1
<1>2. ASSUME NEW n \in S PROVE n + 1 \in S
  <2>0. n \in Nat
    OBVIOUS
  <2>1. PICK f : IsSum(f, n, a, d)
    OBVIOUS
  <2> DEFINE x == [i \in 1 .. (n + 1) + 1 |-> IF i = n + 2 THEN f[n + 1] + d[n + 1] ELSE f[i]]
  <2>2. \A i \in 1 .. n + 1 : x[i] = f[i]
    OBVIOUS
  <2>3. \A i \in 1 .. n + 1 : f[i] = IF i = 1 THEN a ELSE f[i - 1] + d[i - 1]
    BY <2>1 DEF IsSum
  <2>4. ASSUME NEW i \in 1 .. (n + 1) + 1
        PROVE  x[i] = IF i = 1 THEN a ELSE x[i - 1] + d[i - 1]
    <3>1. CASE i = n + 2
      <4>1. x[i] = f[n + 1] + d[n + 1] /\ i - 1 = n + 1 /\ i # 1 /\ n + 1 \in 1 .. n + 1
        BY <2>0, <3>1
      <4> QED BY <4>1, <2>2
    <3>2. CASE i \in 1 .. n + 1 /\ i # 1
      <4>1. i - 1 \in 1 .. n + 1
        BY <2>0, <3>2
      <4> QED BY <4>1, <3>2, <2>2, <2>3
    <3>3. CASE i = 1
      <4>1. 1 \in 1 .. n + 1
        BY <2>0
      <4> QED BY <4>1, <3>3, <2>2, <2>3
    <3> QED BY <3>1, <3>2, <3>3
  <2>5. IsSum(x, n + 1, a, d)
    <3>1. x = [i \in 1 .. (n + 1) + 1 |-> x[i]]
      OBVIOUS
    <3> HIDE DEF x
    <3> QED BY <3>1, <2>4 DEF IsSum
  <2> QED BY <2>0, <2>5
<1>3. S = Nat
  <2> HIDE DEF S
  <2>1. S \in SUBSET Nat
    BY DEF S
  <2> QED BY <1>1, <1>2, <2>1, EveryRound
<1> QED
  BY <1>3

LEMMA SumGrows ==
    ASSUME NEW m \in Nat, NEW a \in Nat, NEW d, \A n \in 1 .. m : d[n] \in Nat,
           NEW f, IsSum(f, m, a, d)
    PROVE  /\ f[1] = a
           /\ \A n \in 1 .. m + 1 : f[n] \in Nat
           /\ \A n \in 1 .. m : f[n + 1] = f[n] + d[n]
           /\ \A i, j \in 1 .. m + 1 : i < j => f[i] + d[i] <= f[j]
           /\ \A i \in 1 .. m + 1 : a <= f[i]
<1>1. /\ f[1] = a
      /\ \A n \in 1 .. m : f[n + 1] = f[n] + d[n]
  BY DEF IsSum
<1> DEFINE S == { n \in Nat : n <= m =>
                     /\ \A i \in 1 .. n + 1 : f[i] \in Nat /\ a <= f[i]
                     /\ \A i \in 1 .. n : f[i] + d[i] <= f[n + 1] }
<1>2. 0 \in S
  BY <1>1
<1>3. ASSUME NEW n \in S PROVE n + 1 \in S
  <2>0. n \in Nat
    OBVIOUS
  <2> SUFFICES ASSUME n + 1 <= m
               PROVE  /\ \A i \in 1 .. (n + 1) + 1 : f[i] \in Nat /\ a <= f[i]
                      /\ \A i \in 1 .. n + 1 : f[i] + d[i] <= f[(n + 1) + 1]
    BY <2>0
  <2>1. /\ \A i \in 1 .. n + 1 : f[i] \in Nat /\ a <= f[i]
        /\ \A i \in 1 .. n : f[i] + d[i] <= f[n + 1]
    BY <2>0
  <2>2. /\ n + 1 \in 1 .. m /\ d[n + 1] \in Nat /\ f[(n + 1) + 1] = f[n + 1] + d[n + 1]
        /\ f[n + 1] \in Nat /\ a <= f[n + 1]
    BY <2>0, <2>1, <1>1
  <2>3. f[(n + 1) + 1] \in Nat /\ f[n + 1] <= f[(n + 1) + 1] /\ a <= f[(n + 1) + 1]
    BY <2>2
  <2>4. ASSUME NEW i \in 1 .. n + 1 PROVE f[i] + d[i] <= f[(n + 1) + 1]
    <3>1. CASE i = n + 1
      BY <3>1, <2>2
    <3>2. CASE i \in 1 .. n
      <4>1. f[i] + d[i] <= f[n + 1] /\ f[i] \in Nat
        BY <3>2, <2>1, <2>0
      <4>2. i \in 1 .. m /\ d[i] \in Nat
        BY <3>2, <2>2, <2>0
      <4> QED BY <4>1, <4>2, <2>2, <2>3
    <3> QED BY <2>0, <3>1, <3>2
  <2>5. ASSUME NEW i \in 1 .. (n + 1) + 1 PROVE f[i] \in Nat /\ a <= f[i]
    <3>1. i = (n + 1) + 1 \/ i \in 1 .. n + 1
      BY <2>0
    <3> QED BY <3>1, <2>1, <2>3
  <2> QED BY <2>4, <2>5
<1>4. S = Nat
  <2> HIDE DEF S
  <2>1. S \in SUBSET Nat
    BY DEF S
  <2> QED BY <1>2, <1>3, <2>1, EveryRound
<1>5. \A n \in 1 .. m + 1 : n - 1 \in S /\ n - 1 <= m /\ (n - 1) + 1 = n
  <2> HIDE DEF S
  <2> QED BY <1>4
<1>6. ASSUME NEW n \in 1 .. m + 1
      PROVE  f[n] \in Nat /\ a <= f[n] /\ \A i \in 1 .. n - 1 : f[i] + d[i] <= f[n]
  <2>1. n - 1 <= m /\ n - 1 \in Nat /\ (n - 1) + 1 = n /\ n \in 1 .. n /\ n - 1 \in S
    BY <1>5
  <2>2. /\ \A i \in 1 .. n : f[i] \in Nat /\ a <= f[i]
        /\ \A i \in 1 .. n - 1 : f[i] + d[i] <= f[n]
    BY <2>1
  <2> QED BY <2>1, <2>2
<1> HIDE DEF S
<1> QED
  BY <1>1, <1>6

-----------------------------------------------------------------------------
(***************************************************************************)
(* Tuples.                                                                 *)
(***************************************************************************)
Types == {"integer", "boolean", "varchar"}

(* A schema, and a row of it. *)
IsSchema(schema) ==
    /\ IsSequence(schema) /\ schema # <<>>
    /\ \A i \in DOMAIN schema : schema[i].type \in Types

IsRow(schema, row) ==
    /\ IsSequence(row) /\ Len(row) = Len(schema)
    /\ \A i \in DOMAIN row : HasType(row[i], schema[i].type)

TextLen(value) == IF value[1] = "varchar" THEN value[2] ELSE 0

LEMMA SequenceParts ==
    ASSUME NEW s, IsSequence(s)
    PROVE  Len(s) \in Nat /\ DOMAIN s = 1 .. Len(s) /\ s = [i \in 1 .. Len(s) |-> s[i]]
BY DEF IsSequence

(* Where the fixed parts are. *)
LEMMA Fields ==
    ASSUME NEW schema, IsSchema(schema)
    PROVE  /\ Len(schema) \in Nat /\ Len(schema) >= 1
           /\ BitmapSize(schema) \in Nat /\ BitmapSize(schema) >= 1
           /\ FieldAt(schema, 1) = BitmapSize(schema)
           /\ \A i \in 1 .. Len(schema) + 1 :
                 FieldAt(schema, i) \in Nat /\ BitmapSize(schema) <= FieldAt(schema, i)
           /\ \A i \in 1 .. Len(schema), j \in 1 .. Len(schema) + 1 :
                 i < j => FieldAt(schema, i) + Width(schema[i].type) <= FieldAt(schema, j)
           /\ \A i \in 1 .. Len(schema) : Width(schema[i].type) \in {1, 4}
           /\ VarBase(schema) = FieldAt(schema, Len(schema) + 1)
<1> DEFINE m == Len(schema)
           a == BitmapSize(schema)
           d == [n \in 1 .. m |-> Width(schema[n].type)]
           Is(f) == f = [n \in 1 .. Len(schema) + 1 |->
                            IF n = 1 THEN BitmapSize(schema)
                            ELSE f[n - 1] + Width(schema[n - 1].type)]
           at == CHOOSE f : Is(f)
<1>1. m \in Nat /\ m >= 1 /\ DOMAIN schema = 1 .. m
  BY SequenceParts DEF IsSchema
<1>2. a \in Nat /\ a >= 1
  BY <1>1 DEF BitmapSize
<1>3. \A n \in 1 .. m : Width(schema[n].type) \in {1, 4} /\ d[n] = Width(schema[n].type)
  BY DEF Width
<1>4. \A f : IsSum(f, m, a, d) <=> Is(f)
  <2> TAKE f
  <2>1. [n \in 1 .. m + 1 |-> IF n = 1 THEN a ELSE f[n - 1] + d[n - 1]]
          = [n \in 1 .. m + 1 |-> IF n = 1 THEN a ELSE f[n - 1] + Width(schema[n - 1].type)]
    <3>1. \A n \in 1 .. m + 1 : n # 1 => n - 1 \in 1 .. m
      BY <1>1
    <3> HIDE DEF d, m
    <3> QED BY <3>1, <1>3
  <2> QED BY <2>1 DEF IsSum
<1>5. \E f : Is(f)
  <2> HIDE DEF Is, m, a, d
  <2> QED BY <1>1, <1>4, SumExists
<1>6. Is(at)
  BY <1>5
<1>7. \A i : FieldAt(schema, i) = at[i]
  BY DEF FieldAt
<1>8. IsSum(at, m, a, d) /\ \A n \in 1 .. m : d[n] \in Nat
  <2> HIDE DEF Is, m, a, d, at
  <2> QED BY <1>3, <1>4, <1>6
<1> HIDE DEF Is, m, a, d, at
<1>9. /\ at[1] = a
      /\ \A n \in 1 .. m + 1 : at[n] \in Nat
      /\ \A i, j \in 1 .. m + 1 : i < j => at[i] + d[i] <= at[j]
      /\ \A i \in 1 .. m + 1 : a <= at[i]
  BY <1>1, <1>2, <1>8, SumGrows
<1>10. \A i \in 1 .. m : i \in 1 .. m + 1
  BY <1>1
<1> QED
  BY <1>1, <1>2, <1>3, <1>7, <1>9, <1>10 DEF VarBase, m, a

(* Where the strings are, counted from the first one. *)
LEMMA Texts ==
    ASSUME NEW schema, IsSchema(schema), NEW row, IsRow(schema, row)
    PROVE  /\ \A i \in 1 .. Len(row) + 1 : TextBefore(row, i) \in Nat
           /\ \A i \in 1 .. Len(row), j \in 1 .. Len(row) + 1 :
                 i < j => TextBefore(row, i) + TextLen(row[i]) <= TextBefore(row, j)
           /\ \A i \in 1 .. Len(row) : TextLen(row[i]) \in Nat
<1> DEFINE m == Len(row)
           d == [n \in 1 .. m |-> TextLen(row[n])]
           Is(f) == f = [n \in 1 .. Len(row) + 1 |->
                            IF n = 1 THEN 0 ELSE f[n - 1] + TextLen(row[n - 1])]
           before == CHOOSE f : Is(f)
<1>1. m \in Nat /\ DOMAIN row = 1 .. m
  BY SequenceParts DEF IsRow
<1>3. \A n \in 1 .. m : TextLen(row[n]) \in Nat /\ d[n] = TextLen(row[n])
  BY <1>1 DEF TextLen, IsRow, HasType
<1>4. \A f : IsSum(f, m, 0, d) <=> Is(f)
  <2> TAKE f
  <2>1. [n \in 1 .. m + 1 |-> IF n = 1 THEN 0 ELSE f[n - 1] + d[n - 1]]
          = [n \in 1 .. m + 1 |-> IF n = 1 THEN 0 ELSE f[n - 1] + TextLen(row[n - 1])]
    <3>1. \A n \in 1 .. m + 1 : n # 1 => n - 1 \in 1 .. m
      BY <1>1
    <3> HIDE DEF d, m
    <3> QED BY <3>1, <1>3
  <2> QED BY <2>1 DEF IsSum
<1>5. \E f : Is(f)
  <2> HIDE DEF Is, m, d
  <2> QED BY <1>1, <1>4, SumExists
<1>6. Is(before)
  BY <1>5
<1>7. \A i : TextBefore(row, i) = before[i]
  BY DEF TextBefore, TextLen
<1>8. IsSum(before, m, 0, d) /\ \A n \in 1 .. m : d[n] \in Nat
  <2> HIDE DEF Is, m, d, before
  <2> QED BY <1>3, <1>4, <1>6
<1> HIDE DEF Is, m, d, before
<1>9. /\ \A n \in 1 .. m + 1 : before[n] \in Nat
      /\ \A i, j \in 1 .. m + 1 : i < j => before[i] + d[i] <= before[j]
  BY <1>1, <1>8, SumGrows
<1>10. \A i \in 1 .. m : i \in 1 .. m + 1
  BY <1>1
<1> QED
  BY <1>1, <1>3, <1>7, <1>9, <1>10 DEF m

-----------------------------------------------------------------------------
(* The pieces of a tuple. *)
BitmapPiece(schema) == Piece(0, BitmapSize(schema), <<"bitmap">>)

FixedPart(schema, row, i) == IF row[i][1] = "varchar" THEN Pointer(schema, row, i) ELSE row[i]

FieldPiece(schema, row, i) ==
    Piece(FieldAt(schema, i), Width(schema[i].type), FixedPart(schema, row, i))

TextPiece(schema, row, i) ==
    Piece(VarBase(schema) + TextBefore(row, i), row[i][2], row[i])

TextColumns(row) == { i \in DOMAIN row : row[i][1] = "varchar" /\ row[i][2] > 0 }

LEMMA TuplePieces ==
    ASSUME NEW schema, NEW row
    PROVE  FromValues(schema, row) =
              [bytes |-> {BitmapPiece(schema)}
                         \union { FieldPiece(schema, row, i) : i \in DOMAIN schema }
                         \union { TextPiece(schema, row, i) : i \in TextColumns(row) },
               len |-> VarBase(schema) + TextBefore(row, Len(row) + 1)]
BY DEF FromValues, BitmapPiece, FieldPiece, TextPiece, TextColumns, FixedPart

(* What is where. *)
LEMMA TuplePlaces ==
    ASSUME NEW schema, IsSchema(schema), NEW row, IsRow(schema, row)
    PROVE  LET t == FromValues(schema, row) IN
           /\ t.len \in Nat /\ t.len > 0
           /\ VarBase(schema) \in Nat /\ VarBase(schema) <= t.len
           /\ Len(schema) \in Nat /\ Len(row) = Len(schema)
           /\ DOMAIN schema = 1 .. Len(schema) /\ DOMAIN row = 1 .. Len(schema)
           /\ \A i \in 1 .. Len(schema) :
                 /\ FieldAt(schema, i) \in Nat /\ Width(schema[i].type) \in {1, 4}
                 /\ BitmapSize(schema) <= FieldAt(schema, i)
                 /\ FieldAt(schema, i) + Width(schema[i].type) <= VarBase(schema)
                 /\ \A j \in 1 .. Len(schema) :
                       i < j => FieldAt(schema, i) + Width(schema[i].type) <= FieldAt(schema, j)
                 /\ row[i] = <<schema[i].type, row[i][2]>>
           /\ \A i \in 1 .. Len(schema) : row[i][1] = "varchar" =>
                 /\ TextBefore(row, i) \in Nat /\ row[i][2] \in Nat
                 /\ VarBase(schema) + TextBefore(row, i) + row[i][2] <= t.len
                 /\ \A j \in 1 .. Len(schema) :
                       i < j => TextBefore(row, i) + row[i][2] <= TextBefore(row, j)
           /\ BitmapSize(schema) \in Nat /\ BitmapSize(schema) >= 1
           /\ BitmapSize(schema) <= VarBase(schema)
<1> DEFINE m == Len(schema)
           end == TextBefore(row, m + 1)
           t == FromValues(schema, row)
<1>1. /\ m \in Nat /\ m >= 1
      /\ Len(row) = m /\ DOMAIN schema = 1 .. m /\ DOMAIN row = 1 .. m
  BY SequenceParts, Fields DEF IsSchema, IsRow
<1>2. t.len = VarBase(schema) + end
  BY <1>1 DEF FromValues
<1>3. m + 1 \in 1 .. m + 1 /\ \A i \in 1 .. m : i \in 1 .. m + 1 /\ i < m + 1
  BY <1>1
<1>4. /\ \A i \in 1 .. m + 1 : TextBefore(row, i) \in Nat
      /\ \A i \in 1 .. m, j \in 1 .. m + 1 :
            i < j => TextBefore(row, i) + TextLen(row[i]) <= TextBefore(row, j)
      /\ \A i \in 1 .. m : TextLen(row[i]) \in Nat
  BY <1>1, Texts
<1>5. \A i \in 1 .. m : row[i] = <<schema[i].type, row[i][2]>>
  BY <1>1 DEF IsRow, HasType
<1> HIDE DEF m, t
<1>6. /\ BitmapSize(schema) \in Nat /\ BitmapSize(schema) >= 1
      /\ \A i \in 1 .. m + 1 :
            FieldAt(schema, i) \in Nat /\ BitmapSize(schema) <= FieldAt(schema, i)
      /\ \A i \in 1 .. m, j \in 1 .. m + 1 :
            i < j => FieldAt(schema, i) + Width(schema[i].type) <= FieldAt(schema, j)
      /\ \A i \in 1 .. m : Width(schema[i].type) \in {1, 4}
      /\ VarBase(schema) = FieldAt(schema, m + 1)
  BY Fields DEF m
<1>7. \A i \in 1 .. m :
         /\ FieldAt(schema, i) \in Nat /\ Width(schema[i].type) \in {1, 4}
         /\ BitmapSize(schema) <= FieldAt(schema, i)
         /\ FieldAt(schema, i) + Width(schema[i].type) <= VarBase(schema)
         /\ \A j \in 1 .. m :
               i < j => FieldAt(schema, i) + Width(schema[i].type) <= FieldAt(schema, j)
  BY <1>3, <1>6
<1>8. /\ VarBase(schema) \in Nat /\ BitmapSize(schema) <= VarBase(schema)
      /\ end \in Nat /\ t.len \in Nat /\ t.len > 0 /\ VarBase(schema) <= t.len
  BY <1>2, <1>3, <1>4, <1>6
<1>9. ASSUME NEW i \in 1 .. m, row[i][1] = "varchar"
      PROVE  /\ TextBefore(row, i) \in Nat /\ row[i][2] \in Nat
             /\ VarBase(schema) + TextBefore(row, i) + row[i][2] <= t.len
             /\ \A j \in 1 .. m :
                   i < j => TextBefore(row, i) + row[i][2] <= TextBefore(row, j)
  <2>1. TextLen(row[i]) = row[i][2]
    BY <1>9 DEF TextLen
  <2>2. TextBefore(row, i) + row[i][2] <= end
    BY <1>3, <1>4, <2>1
  <2>3. TextBefore(row, i) \in Nat /\ row[i][2] \in Nat
    BY <1>3, <1>4, <2>1
  <2>4. VarBase(schema) + TextBefore(row, i) + row[i][2] <= t.len
    BY <2>2, <2>3, <1>2, <1>8
  <2>5. \A j \in 1 .. m : i < j => TextBefore(row, i) + row[i][2] <= TextBefore(row, j)
    BY <1>3, <1>4, <2>1
  <2> QED BY <2>3, <2>4, <2>5
<1> QED
  BY <1>1, <1>5, <1>6, <1>7, <1>8, <1>9 DEF m, t

LEMMA TupleIsRun ==
    ASSUME NEW schema, IsSchema(schema), NEW row, IsRow(schema, row)
    PROVE  LET t == FromValues(schema, row) IN
           /\ Run(t.bytes, t.len) /\ t.len \in Nat /\ t.len > 0
           /\ t = [bytes |-> t.bytes, len |-> t.len]
<1> DEFINE t == FromValues(schema, row)
<1>1. t.bytes = {BitmapPiece(schema)}
                   \union { FieldPiece(schema, row, i) : i \in DOMAIN schema }
                   \union { TextPiece(schema, row, i) : i \in TextColumns(row) }
      /\ t = [bytes |-> t.bytes, len |-> t.len]
  BY TuplePieces
<1>2. t.len \in Nat /\ t.len > 0
  BY TuplePlaces
<1> HIDE DEF t
<1>3. Lies(BitmapPiece(schema), 0, t.len) /\ BitmapPiece(schema).len > 0
  BY TuplePlaces DEF Lies, BitmapPiece, Piece, t
<1>4. ASSUME NEW i \in DOMAIN schema
      PROVE  Lies(FieldPiece(schema, row, i), 0, t.len) /\ FieldPiece(schema, row, i).len > 0
  <2>1. /\ FieldAt(schema, i) \in Nat /\ Width(schema[i].type) \in {1, 4}
        /\ FieldAt(schema, i) + Width(schema[i].type) <= t.len
    BY <1>2, TuplePlaces DEF t
  <2> QED BY <2>1, <1>2 DEF Lies, FieldPiece, Piece
<1>5. ASSUME NEW i \in TextColumns(row)
      PROVE  Lies(TextPiece(schema, row, i), 0, t.len) /\ TextPiece(schema, row, i).len > 0
  <2>1. i \in DOMAIN row /\ row[i][1] = "varchar" /\ row[i][2] > 0
    BY DEF TextColumns
  <2>2. /\ TextBefore(row, i) \in Nat /\ row[i][2] \in Nat /\ VarBase(schema) \in Nat
        /\ VarBase(schema) + TextBefore(row, i) + row[i][2] <= t.len
    BY <2>1, TuplePlaces DEF t
  <2> QED BY <2>1, <2>2, <1>2 DEF Lies, TextPiece, Piece
<1>6. Run(t.bytes, t.len)
  BY <1>1, <1>3, <1>4, <1>5 DEF Run
<1> QED
  BY <1>1, <1>2, <1>6 DEF t

LEMMA FieldRead ==
    ASSUME NEW schema, IsSchema(schema), NEW row, IsRow(schema, row),
           NEW i \in 1 .. Len(schema)
    PROVE  Read(FromValues(schema, row).bytes, FieldAt(schema, i), Width(schema[i].type))
              = FixedPart(schema, row, i)
<1> DEFINE b == FromValues(schema, row).bytes
           at == FieldAt(schema, i)
           len == Width(schema[i].type)
           e == FieldPiece(schema, row, i)
<1>1. b = {BitmapPiece(schema)}
             \union { FieldPiece(schema, row, j) : j \in DOMAIN schema }
             \union { TextPiece(schema, row, j) : j \in TextColumns(row) }
  BY TuplePieces
<1>2. /\ at \in Nat /\ len \in {1, 4} /\ BitmapSize(schema) <= at
      /\ at + len <= VarBase(schema) /\ VarBase(schema) \in Nat
      /\ BitmapSize(schema) \in Nat /\ DOMAIN schema = 1 .. Len(schema) /\ i \in DOMAIN schema
  BY TuplePlaces
<1>3. e = Piece(at, len, FixedPart(schema, row, i))
  BY DEF FieldPiece
<1> HIDE DEF b, at, len, e
<1>4. ~Apart(e, at, len) /\ Lies(e, at, len)
  BY <1>2, <1>3 DEF Apart, Lies, Piece
<1>5. Apart(BitmapPiece(schema), at, len)
  BY <1>2 DEF Apart, BitmapPiece, Piece
<1>6. ASSUME NEW j \in DOMAIN schema, j # i PROVE Apart(FieldPiece(schema, row, j), at, len)
  <2>1. /\ FieldAt(schema, j) \in Nat /\ Width(schema[j].type) \in {1, 4}
        /\ \/ FieldAt(schema, j) + Width(schema[j].type) <= at
           \/ at + len <= FieldAt(schema, j)
    <3>1. i \in 1 .. Len(schema) /\ j \in 1 .. Len(schema) /\ (j < i \/ i < j)
      BY <1>2, <1>6
    <3> QED BY <3>1, TuplePlaces DEF at, len
  <2> QED BY <2>1, <1>2 DEF Apart, FieldPiece, Piece
<1>7. ASSUME NEW j \in TextColumns(row) PROVE Apart(TextPiece(schema, row, j), at, len)
  <2>1. TextBefore(row, j) \in Nat /\ row[j][2] \in Nat
    BY TuplePlaces DEF TextColumns
  <2> QED BY <2>1, <1>2 DEF Apart, TextPiece, Piece
<1>8. e \in b
  BY <1>1, <1>2 DEF e
<1>9. Touched(b, at, len) = {e}
  <2>1. \A x \in b : x = e \/ Apart(x, at, len)
    BY <1>1, <1>5, <1>6, <1>7 DEF e
  <2> QED BY <2>1, <1>4, <1>8 DEF Touched
<1>10. Region(b, at, len, {Piece(at, len, FixedPart(schema, row, i))})
  BY <1>3, <1>4, <1>9 DEF Region
<1> QED
  BY <1>10, ReadRegion DEF b, at, len

LEMMA TextRead ==
    ASSUME NEW schema, IsSchema(schema), NEW row, IsRow(schema, row),
           NEW i \in TextColumns(row)
    PROVE  Read(FromValues(schema, row).bytes, VarBase(schema) + TextBefore(row, i), row[i][2])
              = row[i]
<1> DEFINE b == FromValues(schema, row).bytes
           at == VarBase(schema) + TextBefore(row, i)
           len == row[i][2]
           e == TextPiece(schema, row, i)
<1>1. b = {BitmapPiece(schema)}
             \union { FieldPiece(schema, row, j) : j \in DOMAIN schema }
             \union { TextPiece(schema, row, j) : j \in TextColumns(row) }
  BY TuplePieces
<1>2. /\ TextBefore(row, i) \in Nat /\ len \in Nat /\ len > 0
      /\ VarBase(schema) \in Nat /\ BitmapSize(schema) <= VarBase(schema)
      /\ BitmapSize(schema) \in Nat /\ DOMAIN schema = 1 .. Len(schema)
      /\ DOMAIN row = 1 .. Len(schema) /\ i \in 1 .. Len(schema) /\ row[i][1] = "varchar"
  BY TuplePlaces DEF TextColumns
<1>3. e = Piece(at, len, row[i]) /\ at \in Nat /\ VarBase(schema) <= at
  BY <1>2 DEF TextPiece
<1> HIDE DEF b, len, e
<1>4. ~Apart(e, at, len) /\ Lies(e, at, len)
  BY <1>2, <1>3 DEF Apart, Lies, Piece
<1>5. Apart(BitmapPiece(schema), at, len)
  BY <1>2, <1>3 DEF Apart, BitmapPiece, Piece
<1>6. ASSUME NEW j \in DOMAIN schema PROVE Apart(FieldPiece(schema, row, j), at, len)
  <2>1. /\ FieldAt(schema, j) \in Nat /\ Width(schema[j].type) \in {1, 4}
        /\ FieldAt(schema, j) + Width(schema[j].type) <= VarBase(schema)
    BY <1>2, TuplePlaces
  <2> QED BY <2>1, <1>2, <1>3 DEF Apart, FieldPiece, Piece
<1>7. ASSUME NEW j \in TextColumns(row), j # i PROVE Apart(TextPiece(schema, row, j), at, len)
  <2>1. /\ j \in 1 .. Len(schema) /\ row[j][1] = "varchar"
        /\ TextBefore(row, j) \in Nat /\ row[j][2] \in Nat
    BY <1>2, TuplePlaces DEF TextColumns
  <2>2. \/ TextBefore(row, j) + row[j][2] <= TextBefore(row, i)
        \/ TextBefore(row, i) + len <= TextBefore(row, j)
    <3>1. j < i \/ i < j
      BY <1>2, <1>7, <2>1
    <3> QED BY <3>1, <1>2, <2>1, TuplePlaces DEF len
  <2>3. \/ (VarBase(schema) + TextBefore(row, j)) + row[j][2] <= at
        \/ at + len <= VarBase(schema) + TextBefore(row, j)
    BY <1>2, <2>1, <2>2
  <2> QED BY <2>3 DEF Apart, TextPiece, Piece
<1>8. e \in b
  BY <1>1 DEF e
<1>9. Touched(b, at, len) = {e}
  <2>1. \A x \in b : x = e \/ Apart(x, at, len)
    BY <1>1, <1>5, <1>6, <1>7 DEF e
  <2> QED BY <2>1, <1>4, <1>8 DEF Touched
<1>10. Region(b, at, len, {Piece(at, len, row[i])})
  BY <1>3, <1>4, <1>9 DEF Region
<1> QED
  BY <1>10, ReadRegion DEF b, len

LEMMA SmallSum ==
    ASSUME NEW a \in Nat, NEW b \in Nat, NEW c \in Nat, NEW d \in Nat, a + b + c <= d, d < 65536
    PROVE  (b + a) % 65536 = a + b
OBVIOUS

(* What the codec lays out for a row it reads back: every value, texts and *)
(* the pointers to them included, for every schema and every row whose     *)
(* tuple is short enough for offsets of 16 bits (tuple.rs).                *)
THEOREM RoundTrip ==
    ASSUME NEW schema, IsSchema(schema), NEW row, IsRow(schema, row),
           FromValues(schema, row).len < 65536
    PROVE  ToValues(schema, FromValues(schema, row)) = row
<1> DEFINE t == FromValues(schema, row)
<1>1. /\ DOMAIN row = 1 .. Len(schema) /\ Len(row) = Len(schema)
      /\ row = [i \in 1 .. Len(schema) |-> row[i]]
  BY TuplePlaces, SequenceParts DEF IsRow
<1>2. ASSUME NEW i \in 1 .. Len(schema) PROVE ValueOf(schema, t, i) = row[i]
  <2> DEFINE cell == Read(t.bytes, FieldAt(schema, i), Width(schema[i].type))
             type == schema[i].type
  <2>1. cell = FixedPart(schema, row, i)
    BY FieldRead
  <2>2. /\ FieldAt(schema, i) \in Nat /\ Width(type) \in {1, 4} /\ t.len \in Nat
        /\ FieldAt(schema, i) + Width(type) <= VarBase(schema)
        /\ VarBase(schema) \in Nat /\ VarBase(schema) <= t.len
        /\ row[i] = <<type, row[i][2]>>
    BY TuplePlaces
  <2> HIDE DEF t, cell
  <2>3. ~(FieldAt(schema, i) + Width(type) > t.len)
    BY <2>2
  <2>4. CASE type # "varchar"
    <3>1. cell = row[i]
      BY <2>1, <2>2, <2>4 DEF FixedPart
    <3> QED BY <3>1, <2>3, <2>4 DEF ValueOf, cell
  <2>5. CASE type = "varchar"
    <3>1. row[i][1] = "varchar" /\ row[i] = <<"varchar", row[i][2]>>
      BY <2>2, <2>5
    <3>2. /\ TextBefore(row, i) \in Nat /\ row[i][2] \in Nat
          /\ VarBase(schema) + TextBefore(row, i) + row[i][2] <= t.len
      BY <3>1, TuplePlaces DEF t
    <3>3. t.len < 65536
      BY DEF t
    <3>4. cell = <<"pointer", VarBase(schema) + TextBefore(row, i), row[i][2]>>
      <4>1. OrZero(TextBefore(row, i)) = TextBefore(row, i) /\ OrZero(row[i][2]) = row[i][2]
        BY <2>2, <3>2, <3>3 DEF OrZero
      <4>2. (TextBefore(row, i) + VarBase(schema)) % 65536 = VarBase(schema) + TextBefore(row, i)
        <5> DEFINE a == VarBase(schema)
                   b == TextBefore(row, i)
                   c == row[i][2]
                   d == t.len
        <5>1. /\ a \in Nat /\ b \in Nat /\ c \in Nat /\ d \in Nat
              /\ a + b + c <= d /\ d < 65536
          BY <2>2, <3>2, <3>3
        <5> HIDE DEF a, b, c, d
        <5>2. (b + a) % 65536 = a + b
          BY <5>1, SmallSum
        <5> QED BY <5>2 DEF a, b
      <4>3. U16(OrZero(TextBefore(row, i)) + VarBase(schema)) = VarBase(schema) + TextBefore(row, i)
        BY <4>1, <4>2 DEF U16
      <4>4. cell = Pointer(schema, row, i)
        BY <2>1, <3>1 DEF FixedPart
      <4> QED BY <4>1, <4>3, <4>4 DEF Pointer
    <3>5. ValueOf(schema, t, i) = TextOf(t, VarBase(schema) + TextBefore(row, i), row[i][2])
      BY <2>3, <2>5, <3>4 DEF ValueOf, cell
    <3>6. CASE row[i][2] = 0
      BY <3>1, <3>2, <3>5, <3>6, <2>2 DEF TextOf
    <3>7. CASE row[i][2] # 0
      <4>1. i \in TextColumns(row)
        BY <1>1, <3>1, <3>2, <3>7 DEF TextColumns
      <4>2. Read(t.bytes, VarBase(schema) + TextBefore(row, i), row[i][2]) = row[i]
        BY <4>1, TextRead DEF t
      <4> QED BY <3>2, <3>5, <3>7, <4>2, <2>2 DEF TextOf
    <3> QED BY <3>6, <3>7
  <2> QED BY <2>4, <2>5
<1> HIDE DEF t
<1>3. ToValues(schema, t) = [i \in 1 .. Len(schema) |-> row[i]]
  BY <1>2 DEF ToValues
<1> QED
  BY <1>1, <1>3 DEF t

-----------------------------------------------------------------------------
(***************************************************************************)
(* Pages.                                                                  *)
(***************************************************************************)
TupleFor(row) == FromValues(Schema, row)

RoomOf(row) == TupleHeaderSize + TupleFor(row).len

LEMMA SchemaIsSchema == IsSchema(Schema)
BY SchemaAssumption DEF IsSchema, Types

LEMMA RowIsRow ==
    ASSUME NEW row \in Tuples
    PROVE  IsRow(Schema, row)
BY RowAssumption DEF IsRow

LEMMA TupleFacts ==
    ASSUME NEW row \in Tuples
    PROVE  /\ Run(TupleFor(row).bytes, TupleFor(row).len)
           /\ TupleFor(row).len \in Nat /\ TupleFor(row).len > 0 /\ TupleFor(row).len < 65516
           /\ TupleFor(row) = [bytes |-> TupleFor(row).bytes, len |-> TupleFor(row).len]
           /\ ToValues(Schema, TupleFor(row)) = row
<1>1. TupleFor(row).len < 65516
  BY LengthAssumption DEF TupleFor, TupleHeaderSize, SlotSize
<1>2. IsSchema(Schema) /\ IsRow(Schema, row)
  BY SchemaIsSchema, RowIsRow
<1>3. /\ Run(TupleFor(row).bytes, TupleFor(row).len)
      /\ TupleFor(row).len \in Nat /\ TupleFor(row).len > 0
      /\ TupleFor(row) = [bytes |-> TupleFor(row).bytes, len |-> TupleFor(row).len]
  BY <1>2, TupleIsRun DEF TupleFor
<1>4. TupleFor(row).len < 65536
  BY <1>1, <1>3
<1>5. ToValues(Schema, TupleFor(row)) = row
  BY <1>2, <1>4, RoundTrip DEF TupleFor
<1> QED
  BY <1>1, <1>3, <1>5

(* The regions of a page: its header, and of the i-th record the slot, the *)
(* header of the tuple and the tuple.                                      *)
HeaderRegion(page, n, upper) ==
    Region(page, 0, PageHeaderSize,
           {Piece(0, PageHeaderSize, <<"page", n, SlotAt(n), upper>>)})

SlotRegion(page, i, offset, row) ==
    Region(page, SlotAt(i - 1), SlotSize,
           {Piece(SlotAt(i - 1), SlotSize, <<"slot", offset, RoomOf(row)>>)})

MarkRegion(page, offset, mark) ==
    Region(page, offset, TupleHeaderSize, {Piece(offset, TupleHeaderSize, <<"tuple", mark>>)})

TupleRegion(page, offset, row) ==
    Region(page, offset + TupleHeaderSize, TupleFor(row).len,
           Moved(TupleFor(row).bytes, offset + TupleHeaderSize))

(* Records are back to back from the end of the page, in the order of      *)
(* their slots; the directory ends before them.                            *)
BackToBack(n, off, rows) ==
    /\ n \in Nat /\ off \in [0 .. n -> Nat] /\ rows \in [1 .. n -> Tuples]
    /\ off[0] = PAGE_SIZE /\ SlotAt(n) <= off[n]
    /\ \A i \in 1 .. n : off[i] + RoomOf(rows[i]) = off[i - 1]
    /\ \A i \in 1 .. n, j \in 0 .. n : j < i => off[i] + RoomOf(rows[i]) <= off[j]

PageHas(page, n, off, rows, marks) ==
    /\ BackToBack(n, off, rows)
    /\ marks \in [1 .. n -> {0, 999}]
    /\ HeaderRegion(page, n, off[n])
    /\ \A i \in 1 .. n :
          /\ SlotRegion(page, i, off[i], rows[i])
          /\ MarkRegion(page, off[i], marks[i])
          /\ TupleRegion(page, off[i], rows[i])

LEMMA RoomFacts ==
    ASSUME NEW row \in Tuples
    PROVE  /\ RoomOf(row) \in Nat /\ RoomOf(row) > TupleHeaderSize /\ RoomOf(row) < 65532
           /\ TupleFor(row).len \in Nat /\ RoomOf(row) = 16 + TupleFor(row).len
BY TupleFacts DEF RoomOf, TupleHeaderSize

LEMMA Sizes == PAGE_SIZE \in Nat /\ 16 <= PAGE_SIZE /\ PAGE_SIZE < 65536
BY PageAssumption DEF PageHeaderSize

(* Where things are is within 16 bits. *)
LEMMA Offsets ==
    ASSUME NEW n, NEW off, NEW rows, BackToBack(n, off, rows)
    PROVE  /\ \A i \in 0 .. n : off[i] \in Nat /\ off[i] <= PAGE_SIZE
           /\ \A i \in 0 .. n : off[n] <= off[i]
           /\ SlotAt(n) \in Nat /\ SlotAt(n) <= off[n] /\ off[n] < 65536
<1>1. \A i \in 1 .. n : RoomOf(rows[i]) \in Nat
  BY RoomFacts DEF BackToBack
<1>2. \A i \in 0 .. n : off[i] \in Nat /\ off[i] <= PAGE_SIZE
  <2> SUFFICES ASSUME NEW i \in 0 .. n PROVE off[i] \in Nat /\ off[i] <= PAGE_SIZE
    OBVIOUS
  <2>1. CASE i = 0
    BY <2>1, Sizes DEF BackToBack
  <2>2. CASE i # 0
    <3>1. i \in 1 .. n /\ 0 \in 0 .. n /\ 0 < i
      BY <2>2 DEF BackToBack
    <3>2. off[i] + RoomOf(rows[i]) <= off[0] /\ off[0] = PAGE_SIZE /\ off[i] \in Nat
      BY <3>1 DEF BackToBack
    <3> QED BY <1>1, <3>1, <3>2, Sizes
  <2> QED BY <2>1, <2>2
<1>3. \A i \in 0 .. n : off[n] <= off[i]
  <2> SUFFICES ASSUME NEW i \in 0 .. n PROVE off[n] <= off[i]
    OBVIOUS
  <2>1. CASE i = n
    BY <2>1, <1>2
  <2>2. CASE i # n
    <3>1. n \in 1 .. n /\ i < n /\ n \in Nat
      BY <2>2 DEF BackToBack
    <3>2. off[n] + RoomOf(rows[n]) <= off[i]
      BY <3>1 DEF BackToBack
    <3>3. off[n] \in Nat /\ off[i] \in Nat /\ RoomOf(rows[n]) \in Nat
      BY <1>1, <1>2, <3>1
    <3> QED BY <3>2, <3>3
  <2> QED BY <2>1, <2>2
<1>4. n \in Nat /\ SlotAt(n) \in Nat /\ SlotAt(n) <= off[n]
  BY DEF BackToBack, SlotAt, PageHeaderSize, SlotSize
<1> QED
  BY <1>2, <1>3, <1>4, Sizes

(* What is read from such a page. *)
LEMMA PageReads ==
    ASSUME NEW page, NEW n, NEW off, NEW rows, NEW marks, PageHas(page, n, off, rows, marks)
    PROVE  /\ Header(page) = [total_slots |-> n, lower |-> SlotAt(n), upper |-> off[n]]
           /\ TotalSlots(page) = n
           /\ \A i \in 1 .. n :
                 /\ Slot(page, i - 1) = [offset |-> off[i], length |-> RoomOf(rows[i])]
                 /\ HasRecord(page, i - 1) <=> marks[i] = 0
                 /\ Record(page, i - 1) = TupleFor(rows[i])
                 /\ ValuesAt(page, i - 1) = rows[i]
<1>1. Header(page) = [total_slots |-> n, lower |-> SlotAt(n), upper |-> off[n]]
  <2>1. Read(page, 0, PageHeaderSize) = <<"page", n, SlotAt(n), off[n]>>
    BY ReadRegion DEF PageHas, HeaderRegion
  <2> QED BY <2>1 DEF Header
<1>2. TotalSlots(page) = n
  BY <1>1 DEF TotalSlots
<1>3. ASSUME NEW i \in 1 .. n
      PROVE  /\ Slot(page, i - 1) = [offset |-> off[i], length |-> RoomOf(rows[i])]
             /\ HasRecord(page, i - 1) <=> marks[i] = 0
             /\ Record(page, i - 1) = TupleFor(rows[i])
             /\ ValuesAt(page, i - 1) = rows[i]
  <2>1. Read(page, SlotAt(i - 1), SlotSize) = <<"slot", off[i], RoomOf(rows[i])>>
    <3>1. SlotRegion(page, i, off[i], rows[i])
      BY DEF PageHas
    <3> QED BY <3>1, ReadRegion DEF SlotRegion
  <2>2. Slot(page, i - 1) = [offset |-> off[i], length |-> RoomOf(rows[i])]
    BY <2>1 DEF Slot
  <2>3. Read(page, off[i], TupleHeaderSize) = <<"tuple", marks[i]>>
    <3>1. MarkRegion(page, off[i], marks[i])
      BY DEF PageHas
    <3> QED BY <3>1, ReadRegion DEF MarkRegion
  <2>4. /\ i \in Nat /\ n \in Nat /\ rows[i] \in Tuples /\ off[i] \in Nat
        /\ marks[i] \in {0, 999}
    <3>1. i \in 0 .. n
      BY DEF PageHas, BackToBack
    <3> QED BY <3>1 DEF PageHas, BackToBack
  <2>5. RoomOf(rows[i]) \in Nat /\ RoomOf(rows[i]) # 0
        /\ RoomOf(rows[i]) - TupleHeaderSize = TupleFor(rows[i]).len
    BY <2>4, RoomFacts DEF TupleHeaderSize
  <2>6. HasRecord(page, i - 1) <=> marks[i] = 0
    <3>1. i - 1 < n
      BY <2>4
    <3>2. <<"tuple", marks[i]>> = <<"tuple", 0>> <=> marks[i] = 0
      OBVIOUS
    <3> QED BY <1>2, <2>2, <2>3, <2>5, <3>1, <3>2 DEF HasRecord
  <2>7. Record(page, i - 1) = TupleFor(rows[i])
    <3>1. Slice(page, off[i] + TupleHeaderSize, TupleFor(rows[i]).len) = TupleFor(rows[i]).bytes
      <4>1. off[i] + TupleHeaderSize \in Int /\ TupleFor(rows[i]).len \in Int
        BY <2>4, TupleFacts DEF TupleHeaderSize
      <4>2. TupleRegion(page, off[i], rows[i])
        BY DEF PageHas
      <4>3. Run(TupleFor(rows[i]).bytes, TupleFor(rows[i]).len)
        BY <2>4, TupleFacts
      <4> QED BY <4>1, <4>2, <4>3, SliceOfMoved DEF TupleRegion
    <3>2. Record(page, i - 1) = [bytes |-> TupleFor(rows[i]).bytes, len |-> TupleFor(rows[i]).len]
      BY <2>2, <2>5, <3>1 DEF Record
    <3> QED BY <2>4, <3>2, TupleFacts
  <2>8. ValuesAt(page, i - 1) = rows[i]
    BY <2>4, <2>7, TupleFacts DEF ValuesAt
  <2> QED BY <2>2, <2>6, <2>7, <2>8
<1> QED
  BY <1>1, <1>2, <1>3

LEMMA EmptyPageHas ==
    PageHas(EmptyPage, 0, [i \in 0 .. 0 |-> PAGE_SIZE], [i \in 1 .. 0 |-> <<>>], [i \in 1 .. 0 |-> 0])
<1> DEFINE off == [i \in 0 .. 0 |-> PAGE_SIZE]
           rows == [i \in 1 .. 0 |-> <<>>]
<1>1. off[0] = PAGE_SIZE /\ SlotAt(0) = 16 /\ off \in [0 .. 0 -> Nat] /\ rows \in [1 .. 0 -> Tuples]
  BY Sizes DEF SlotAt, PageHeaderSize, SlotSize
<1>2. BackToBack(0, off, rows)
  <2> HIDE DEF off, rows
  <2> QED BY <1>1, Sizes DEF BackToBack
<1>3. HeaderRegion(EmptyPage, 0, off[0])
  <2>1. U16(PAGE_SIZE) = PAGE_SIZE
    BY Sizes DEF U16
  <2>2. EmptyPage = Write({}, 0, PageHeaderSize, <<"page", 0, SlotAt(0), off[0]>>)
    BY <1>1, <2>1 DEF EmptyPage, WithHeader, PageHeaderSize
  <2> HIDE DEF off
  <2> QED BY <2>2, WrittenRegion DEF HeaderRegion, PageHeaderSize
<1> HIDE DEF off, rows
<1> QED
  BY <1>2, <1>3 DEF PageHas, off, rows

-----------------------------------------------------------------------------
(* insert_record as four writes. *)
LEMMA InsertWrites ==
    ASSUME NEW page, NEW n, NEW off, NEW rows, NEW marks, PageHas(page, n, off, rows, marks),
           NEW row \in Tuples, HasRoom(page, TupleFor(row).len)
    PROVE  \E x, a, b, c :
              /\ x = off[n] - RoomOf(row) /\ x \in Nat
              /\ n \in Nat /\ off[n] \in Nat
              /\ SlotAt(n + 1) <= x /\ SlotAt(n + 1) = SlotAt(n) + 4 /\ SlotAt(n) \in Nat
              /\ 16 <= SlotAt(n)
              /\ a = Write(page, x, 16, <<"tuple", 0>>)
              /\ b = Copy(a, x + 16, TupleFor(row).len, TupleFor(row).bytes)
              /\ c = Write(b, 0, 16, <<"page", n + 1, SlotAt(n + 1), x>>)
              /\ InsertRecord(page, TupleFor(row)) =
                    Write(c, SlotAt(n), 4, <<"slot", x, RoomOf(row)>>)
<1> DEFINE x == off[n] - RoomOf(row)
           h == Header(page)
           t == TupleFor(row)
<1>1. h = [total_slots |-> n, lower |-> SlotAt(n), upper |-> off[n]]
  BY PageReads
<1>2. /\ n \in Nat /\ off[n] \in Nat /\ SlotAt(n) \in Nat
      /\ SlotAt(n) <= off[n] /\ off[n] < 65536
  <2>1. BackToBack(n, off, rows)
    BY DEF PageHas
  <2>2. n \in 0 .. n /\ n \in Nat
    BY <2>1 DEF BackToBack
  <2> QED BY <2>1, <2>2, Offsets
<1>3. SlotAt(n + 1) = SlotAt(n) + 4 /\ 16 <= SlotAt(n) /\ SlotAt(n) + SlotSize = SlotAt(n + 1)
  BY <1>2 DEF SlotAt, PageHeaderSize, SlotSize
<1>4. t.len \in Nat /\ t.len < 65516 /\ RoomOf(row) = 16 + t.len /\ TupleHeaderSize + t.len = RoomOf(row)
  BY TupleFacts DEF RoomOf, TupleHeaderSize
<1> HIDE DEF t, h
<1>5. off[n] - SlotAt(n) >= RoomOf(row) + 4
  <2>1. h.upper - h.lower = off[n] - SlotAt(n)
    BY <1>1
  <2>2. U16(off[n] - SlotAt(n)) = off[n] - SlotAt(n)
    BY <1>2 DEF U16
  <2>3. U16(TupleHeaderSize + t.len + SlotSize) = RoomOf(row) + 4
    BY <1>4 DEF U16, SlotSize, TupleHeaderSize
  <2> QED BY <2>1, <2>2, <2>3 DEF HasRoom, FreeSpace, h, t
<1>6. x \in Nat /\ SlotAt(n + 1) <= x
  BY <1>2, <1>3, <1>4, <1>5
<1>7. U16(h.upper - (TupleHeaderSize + t.len)) = x
  BY <1>1, <1>2, <1>4, <1>6 DEF U16
<1>8. InsertRecord(page, t) =
         Write(Write(Copy(Write(page, x, 16, <<"tuple", 0>>), x + 16, t.len, t.bytes),
                     0, 16, <<"page", n + 1, SlotAt(n + 1), x>>),
               SlotAt(n), 4, <<"slot", x, RoomOf(row)>>)
  <2> DEFINE y == U16(h.upper - (TupleHeaderSize + t.len))
  <2>1. InsertRecord(page, t) =
           Write(Write(Copy(Write(page, y, 16, <<"tuple", 0>>), y + 16, t.len, t.bytes),
                       0, 16, <<"page", h.total_slots + 1, h.lower + SlotSize, y>>),
                 SlotAt(h.total_slots), 4, <<"slot", y, TupleHeaderSize + t.len>>)
    BY DEF InsertRecord, WithHeader, TupleHeaderSize, PageHeaderSize, SlotSize, h
  <2>2. y = x
    BY <1>7
  <2> HIDE DEF x, y
  <2> QED BY <1>1, <1>3, <1>4, <2>1, <2>2
<1> HIDE DEF x
<1>9. x = off[n] - RoomOf(row)
  BY DEF x
<1> QED
  BY <1>2, <1>3, <1>6, <1>8, <1>9 DEF t

(* The page after an insert_record: one record more, below the others. *)
LEMMA InsertedPage ==
    ASSUME NEW page, NEW n, NEW off, NEW rows, NEW marks, PageHas(page, n, off, rows, marks),
           NEW row \in Tuples, HasRoom(page, TupleFor(row).len)
    PROVE  PageHas(InsertRecord(page, TupleFor(row)), n + 1,
                   [i \in 0 .. n + 1 |-> IF i = n + 1 THEN off[n] - RoomOf(row) ELSE off[i]],
                   [i \in 1 .. n + 1 |-> IF i = n + 1 THEN row ELSE rows[i]],
                   [i \in 1 .. n + 1 |-> IF i = n + 1 THEN 0 ELSE marks[i]])
<1>1. PICK x, a, b, c :
              /\ x = off[n] - RoomOf(row) /\ x \in Nat
              /\ n \in Nat /\ off[n] \in Nat
              /\ SlotAt(n + 1) <= x /\ SlotAt(n + 1) = SlotAt(n) + 4 /\ SlotAt(n) \in Nat
              /\ 16 <= SlotAt(n)
              /\ a = Write(page, x, 16, <<"tuple", 0>>)
              /\ b = Copy(a, x + 16, TupleFor(row).len, TupleFor(row).bytes)
              /\ c = Write(b, 0, 16, <<"page", n + 1, SlotAt(n + 1), x>>)
              /\ InsertRecord(page, TupleFor(row)) =
                    Write(c, SlotAt(n), 4, <<"slot", x, RoomOf(row)>>)
  BY InsertWrites
<1> DEFINE off2 == [i \in 0 .. n + 1 |-> IF i = n + 1 THEN off[n] - RoomOf(row) ELSE off[i]]
           rows2 == [i \in 1 .. n + 1 |-> IF i = n + 1 THEN row ELSE rows[i]]
           marks2 == [i \in 1 .. n + 1 |-> IF i = n + 1 THEN 0 ELSE marks[i]]
           d == InsertRecord(page, TupleFor(row))
<1>2. BackToBack(n, off, rows)
  BY DEF PageHas
<1>3. /\ \A i \in 0 .. n : off[i] \in Nat /\ off[i] <= PAGE_SIZE /\ off[n] <= off[i]
  BY <1>2, Offsets
<1>4. RoomOf(row) = 16 + TupleFor(row).len /\ TupleFor(row).len \in Nat /\ RoomOf(row) \in Nat
      /\ Run(TupleFor(row).bytes, TupleFor(row).len)
  BY RoomFacts, TupleFacts
<1>5. /\ \A i \in 0 .. n : off2[i] = off[i]
      /\ \A i \in 1 .. n : rows2[i] = rows[i] /\ marks2[i] = marks[i]
      /\ off2[n + 1] = x /\ rows2[n + 1] = row /\ marks2[n + 1] = 0
  BY <1>1
<1>6. /\ off2 \in [0 .. n + 1 -> Nat] /\ rows2 \in [1 .. n + 1 -> Tuples]
      /\ marks2 \in [1 .. n + 1 -> {0, 999}]
  <2>1. /\ \A i \in 0 .. n + 1 : i = n + 1 \/ i \in 0 .. n
        /\ \A i \in 1 .. n + 1 : i = n + 1 \/ i \in 1 .. n
    BY <1>1
  <2>2. rows \in [1 .. n -> Tuples] /\ marks \in [1 .. n -> {0, 999}]
    BY <1>2 DEF PageHas, BackToBack
  <2> QED BY <1>1, <1>3, <2>1, <2>2
<1> HIDE DEF off2, rows2, marks2, d
<1>7. BackToBack(n + 1, off2, rows2)
  <2>1. off2[0] = PAGE_SIZE /\ SlotAt(n + 1) <= off2[n + 1] /\ n + 1 \in Nat
    BY <1>1, <1>2, <1>5 DEF BackToBack
  <2>2. ASSUME NEW i \in 1 .. n + 1 PROVE off2[i] + RoomOf(rows2[i]) = off2[i - 1]
    <3>1. CASE i = n + 1
      <4>1. i - 1 = n /\ n \in 0 .. n
        BY <1>1, <3>1
      <4> QED BY <1>1, <1>4, <1>5, <3>1, <4>1
    <3>2. CASE i \in 1 .. n
      <4>1. i \in 0 .. n /\ i - 1 \in 0 .. n
        BY <1>1, <3>2
      <4> QED BY <1>2, <1>5, <3>2, <4>1 DEF BackToBack
    <3> QED BY <1>1, <3>1, <3>2
  <2>3. ASSUME NEW i \in 1 .. n + 1, NEW j \in 0 .. n + 1, j < i
        PROVE  off2[i] + RoomOf(rows2[i]) <= off2[j]
    <3>1. CASE i = n + 1
      <4>1. j \in 0 .. n
        BY <1>1, <2>3, <3>1
      <4>2. off2[i] + RoomOf(rows2[i]) = off[n]
        BY <1>1, <1>4, <1>5, <3>1
      <4> QED BY <1>3, <1>5, <4>1, <4>2
    <3>2. CASE i \in 1 .. n
      <4>1. i \in 0 .. n /\ j \in 0 .. n
        BY <1>1, <2>3, <3>2
      <4> QED BY <1>2, <1>5, <2>3, <3>2, <4>1 DEF BackToBack
    <3> QED BY <1>1, <3>1, <3>2
  <2> QED BY <1>6, <2>1, <2>2, <2>3 DEF BackToBack
<1>8. d = Write(c, SlotAt(n), 4, <<"slot", x, RoomOf(row)>>)
  BY <1>1 DEF d
<1>9. HeaderRegion(d, n + 1, off2[n + 1])
  <2>1. Region(c, 0, 16, {Piece(0, 16, <<"page", n + 1, SlotAt(n + 1), x>>)})
    BY <1>1, WrittenRegion
  <2>2. 0 + 16 <= SlotAt(n)
    BY <1>1
  <2>3. Region(d, 0, 16, {Piece(0, 16, <<"page", n + 1, SlotAt(n + 1), x>>)})
    BY <1>1, <1>8, <2>1, <2>2, RegionKept
  <2> QED BY <1>5, <2>3 DEF HeaderRegion, PageHeaderSize
<1>10. SlotRegion(d, n + 1, x, row)
  <2>1. Region(d, SlotAt(n), 4, {Piece(SlotAt(n), 4, <<"slot", x, RoomOf(row)>>)})
    BY <1>1, <1>8, WrittenRegion
  <2>2. (n + 1) - 1 = n
    BY <1>1
  <2> QED BY <2>1, <2>2 DEF SlotRegion, SlotSize
<1>11. MarkRegion(d, x, 0)
  <2>1. Region(a, x, 16, {Piece(x, 16, <<"tuple", 0>>)})
    BY <1>1, WrittenRegion
  <2>2. Region(b, x, 16, {Piece(x, 16, <<"tuple", 0>>)})
    BY <1>1, <1>4, <2>1, RegionKeptByCopy
  <2>3. 0 + 16 <= x /\ SlotAt(n) + 4 <= x
    BY <1>1
  <2>4. Region(c, x, 16, {Piece(x, 16, <<"tuple", 0>>)})
    BY <1>1, <2>2, <2>3, RegionKept
  <2>5. Region(d, x, 16, {Piece(x, 16, <<"tuple", 0>>)})
    BY <1>1, <1>8, <2>3, <2>4, RegionKept
  <2> QED BY <2>5 DEF MarkRegion, TupleHeaderSize
<1>12. TupleRegion(d, x, row)
  <2> DEFINE at == x + 16
             len == TupleFor(row).len
             source == Moved(TupleFor(row).bytes, at)
  <2>1. at \in Int /\ 0 + 16 <= at /\ SlotAt(n) + 4 <= at
    BY <1>1
  <2>2. Region(b, at, len, source)
    BY <1>1, <1>4, <2>1, CopiedRegion
  <2> HIDE DEF at, len, source
  <2>3. len \in Int
    BY <1>4 DEF len
  <2>4. Region(c, at, len, source)
    BY <1>1, <2>1, <2>2, <2>3, RegionKept
  <2>5. Region(d, at, len, source)
    BY <1>1, <1>8, <2>1, <2>3, <2>4, RegionKept
  <2> QED BY <2>5 DEF TupleRegion, TupleHeaderSize, at, len, source
<1>13. ASSUME NEW at \in Int, NEW len \in Int, NEW pieces, Region(page, at, len, pieces),
              16 <= at, x + RoomOf(row) <= at \/ at + len <= x,
              SlotAt(n) + 4 <= at \/ at + len <= SlotAt(n), len >= 0
       PROVE  Region(d, at, len, pieces)
  <2> DEFINE slot == SlotAt(n)
             head == <<"page", n + 1, SlotAt(n + 1), x>>
             entry == <<"slot", x, RoomOf(row)>>
  <2>1. /\ c = Write(b, 0, 16, head) /\ d = Write(c, slot, 4, entry)
        /\ slot \in Nat /\ (slot + 4 <= at \/ at + len <= slot)
    BY <1>1, <1>8, <1>13
  <2> HIDE DEF slot, head, entry
  <2>2. x + 16 <= at \/ at + len <= x
    BY <1>1, <1>4, <1>13
  <2>3. (x + 16) + TupleFor(row).len <= at \/ at + len <= x + 16
    BY <1>1, <1>4, <1>13
  <2>4. Region(a, at, len, pieces)
    BY <1>1, <1>13, <2>2, RegionKept
  <2>5. Region(b, at, len, pieces)
    BY <1>1, <1>4, <1>13, <2>3, <2>4, RegionKeptByCopy
  <2>6. Region(c, at, len, pieces)
    BY <1>13, <2>1, <2>5, RegionKept
  <2> QED BY <1>13, <2>1, <2>6, RegionKept
<1>14. ASSUME NEW i \in 1 .. n
       PROVE  /\ SlotRegion(d, i, off[i], rows[i])
              /\ MarkRegion(d, off[i], marks[i])
              /\ TupleRegion(d, off[i], rows[i])
  <2>1. /\ SlotRegion(page, i, off[i], rows[i])
        /\ MarkRegion(page, off[i], marks[i])
        /\ TupleRegion(page, off[i], rows[i])
    BY DEF PageHas
  <2>2. i \in 0 .. n /\ i \in Nat /\ rows[i] \in Tuples /\ n \in Nat /\ i <= n /\ 1 <= i
    BY <1>1, <1>2 DEF BackToBack
  <2>3. /\ SlotAt(i - 1) \in Int /\ 16 <= SlotAt(i - 1)
        /\ SlotAt(i - 1) + 4 <= SlotAt(n) /\ SlotAt(n) + 4 <= x
        /\ off[i] \in Nat /\ x + RoomOf(row) <= off[i]
    <3>1. SlotAt(i - 1) \in Int /\ 16 <= SlotAt(i - 1) /\ SlotAt(i - 1) + 4 <= SlotAt(n)
      BY <2>2 DEF SlotAt, PageHeaderSize, SlotSize
    <3>2. x + RoomOf(row) <= off[i] /\ off[i] \in Nat
      BY <1>1, <1>3, <1>4, <2>2
    <3> QED BY <1>1, <3>1, <3>2
  <2>4. TupleFor(rows[i]).len \in Nat
    BY <2>2, TupleFacts
  <2>5. SlotRegion(d, i, off[i], rows[i])
    <3> DEFINE at == SlotAt(i - 1)
               len == SlotSize
               pieces == {Piece(at, len, <<"slot", off[i], RoomOf(rows[i])>>)}
    <3>1. /\ Region(page, at, len, pieces) /\ len \in Int /\ len >= 0
          /\ at \in Int /\ 16 <= at /\ at + len <= x /\ at + len <= SlotAt(n)
      <4>1. Region(page, at, len, pieces)
        BY <2>1 DEF SlotRegion
      <4>2. len = 4 /\ at = SlotAt(i - 1)
        BY DEF SlotSize
      <4> HIDE DEF at, len, pieces
      <4> QED BY <1>1, <2>3, <4>1, <4>2
    <3> HIDE DEF at, len, pieces
    <3>2. Region(d, at, len, pieces)
      BY <1>13, <3>1
    <3> QED BY <3>2 DEF SlotRegion, at, len, pieces
  <2>6. MarkRegion(d, off[i], marks[i])
    <3> DEFINE at == off[i]
               len == TupleHeaderSize
               pieces == {Piece(at, len, <<"tuple", marks[i]>>)}
    <3>1. /\ Region(page, at, len, pieces) /\ len \in Int /\ len >= 0
          /\ at \in Int /\ 16 <= at /\ SlotAt(n) + 4 <= at /\ x + RoomOf(row) <= at
      BY <1>1, <1>4, <2>1, <2>3 DEF MarkRegion, TupleHeaderSize
    <3> HIDE DEF at, len, pieces
    <3>2. Region(d, at, len, pieces)
      BY <1>13, <3>1
    <3> QED BY <3>2 DEF MarkRegion, at, len, pieces
  <2>7. TupleRegion(d, off[i], rows[i])
    <3> DEFINE at == off[i] + 16
               len == TupleFor(rows[i]).len
               source == Moved(TupleFor(rows[i]).bytes, at)
    <3>1. /\ Region(page, at, len, source)
          /\ at \in Int /\ 16 <= at /\ SlotAt(n) + 4 <= at /\ x + RoomOf(row) <= at
      BY <1>1, <1>4, <2>1, <2>3 DEF TupleRegion, TupleHeaderSize
    <3> HIDE DEF at, len, source
    <3>2. len \in Int /\ len >= 0
      BY <2>4 DEF len
    <3>3. Region(d, at, len, source)
      BY <1>13, <3>1, <3>2
    <3> QED BY <3>3 DEF TupleRegion, TupleHeaderSize, at, len, source
  <2> QED BY <2>5, <2>6, <2>7
<1>15. \A i \in 1 .. n + 1 :
          /\ SlotRegion(d, i, off2[i], rows2[i])
          /\ MarkRegion(d, off2[i], marks2[i])
          /\ TupleRegion(d, off2[i], rows2[i])
  <2> TAKE i \in 1 .. n + 1
  <2>1. CASE i = n + 1
    BY <1>5, <1>10, <1>11, <1>12, <2>1
  <2>2. CASE i \in 1 .. n
    <3>1. i \in 0 .. n
      BY <1>1, <2>2
    <3> QED BY <1>5, <1>14, <2>2, <3>1
  <2> QED BY <1>1, <2>1, <2>2
<1>16. PageHas(d, n + 1, off2, rows2, marks2)
  BY <1>6, <1>7, <1>9, <1>15 DEF PageHas
<1> QED
  BY <1>16 DEF d, off2, rows2, marks2

-----------------------------------------------------------------------------
(* mark_deleted writes over the header of one tuple. *)
LEMMA MarkedPage ==
    ASSUME NEW page, NEW n, NEW off, NEW rows, NEW marks, PageHas(page, n, off, rows, marks),
           NEW k \in 1 .. n
    PROVE  PageHas(MarkDeleted(page, k - 1, 999), n, off, rows, [marks EXCEPT ![k] = 999])
<1> DEFINE d == MarkDeleted(page, k - 1, 999)
           marks2 == [marks EXCEPT ![k] = 999]
           x == off[k]
<1>1. BackToBack(n, off, rows) /\ marks \in [1 .. n -> {0, 999}]
  BY DEF PageHas
<1>2. n \in Nat /\ k \in Nat /\ k - 1 < n /\ k \in 0 .. n
  BY <1>1 DEF BackToBack
<1>3. \A i \in 1 .. n : RoomOf(rows[i]) \in Nat /\ RoomOf(rows[i]) > 16
                        /\ RoomOf(rows[i]) = 16 + TupleFor(rows[i]).len /\ TupleFor(rows[i]).len \in Nat
  <2>1. \A i \in 1 .. n : rows[i] \in Tuples
    BY <1>1 DEF BackToBack
  <2> QED BY <2>1, RoomFacts DEF TupleHeaderSize
<1>4. d = Write(page, x, TupleHeaderSize, <<"tuple", 999>>)
  <2>1. TotalSlots(page) = n /\ Slot(page, k - 1) = [offset |-> x, length |-> RoomOf(rows[k])]
    BY PageReads
  <2>2. RoomOf(rows[k]) # 0
    BY <1>3
  <2> QED BY <1>2, <2>1, <2>2 DEF MarkDeleted
<1>5. /\ \A i \in 0 .. n : off[i] \in Nat /\ off[n] <= off[i]
      /\ SlotAt(n) \in Nat /\ SlotAt(n) <= off[n] /\ 16 <= SlotAt(n)
  <2>1. 16 <= SlotAt(n)
    BY <1>2 DEF SlotAt, PageHeaderSize, SlotSize
  <2> QED BY <1>1, <2>1, Offsets
<1>6. x \in Nat /\ SlotAt(n) <= x /\ 16 <= x
  BY <1>2, <1>5
<1>7. /\ marks2 \in [1 .. n -> {0, 999}] /\ marks2[k] = 999
      /\ \A i \in 1 .. n : i # k => marks2[i] = marks[i]
  BY <1>1
<1>8. \A i \in 1 .. n : off[i] \in Nat /\ (i < k => x + RoomOf(rows[k]) <= off[i])
                                       /\ (k < i => off[i] + RoomOf(rows[i]) <= x)
  <2>1. \A i \in 1 .. n : i \in 0 .. n
    BY <1>2
  <2>2. \A i \in 1 .. n, j \in 0 .. n : j < i => off[i] + RoomOf(rows[i]) <= off[j]
    BY <1>1 DEF BackToBack
  <2> QED BY <1>2, <1>5, <2>1, <2>2
<1> HIDE DEF d, marks2, x
<1>9. HeaderRegion(d, n, off[n])
  <2> DEFINE len == PageHeaderSize
             pieces == {Piece(0, len, <<"page", n, SlotAt(n), off[n]>>)}
  <2>1. Region(page, 0, len, pieces) /\ len = 16
    BY DEF PageHas, HeaderRegion, PageHeaderSize
  <2> HIDE DEF len, pieces
  <2>2. Region(d, 0, len, pieces)
    <3>1. 0 + len <= x
      BY <1>6, <2>1
    <3> QED BY <1>4, <1>6, <2>1, <3>1, RegionKept DEF TupleHeaderSize
  <2> QED BY <2>2 DEF HeaderRegion, len, pieces
<1>10. ASSUME NEW i \in 1 .. n
       PROVE  /\ SlotRegion(d, i, off[i], rows[i])
              /\ MarkRegion(d, off[i], marks2[i])
              /\ TupleRegion(d, off[i], rows[i])
  <2>1. /\ SlotRegion(page, i, off[i], rows[i])
        /\ MarkRegion(page, off[i], marks[i])
        /\ TupleRegion(page, off[i], rows[i])
    BY DEF PageHas
  <2>2. SlotRegion(d, i, off[i], rows[i])
    <3> DEFINE at == SlotAt(i - 1)
               len == SlotSize
               pieces == {Piece(at, len, <<"slot", off[i], RoomOf(rows[i])>>)}
    <3>1. Region(page, at, len, pieces) /\ len \in Int
      BY <2>1 DEF SlotRegion, SlotSize
    <3>2. at \in Int /\ at + len <= SlotAt(n)
      BY <1>2 DEF SlotAt, PageHeaderSize, SlotSize
    <3> HIDE DEF at, len, pieces
    <3>3. at + len <= x
      BY <1>5, <1>6, <3>1, <3>2
    <3>4. Region(d, at, len, pieces)
      BY <1>4, <1>6, <3>1, <3>2, <3>3, RegionKept DEF TupleHeaderSize
    <3> QED BY <3>4 DEF SlotRegion, at, len, pieces
  <2>3. MarkRegion(d, off[i], marks2[i])
    <3>1. CASE i = k
      <4>1. Region(d, x, TupleHeaderSize, {Piece(x, TupleHeaderSize, <<"tuple", 999>>)})
        BY <1>4, <1>6, WrittenRegion DEF TupleHeaderSize
      <4> QED BY <1>7, <3>1, <4>1 DEF MarkRegion, x
    <3>2. CASE i # k
      <4> DEFINE at == off[i]
                 len == TupleHeaderSize
                 pieces == {Piece(at, len, <<"tuple", marks[i]>>)}
      <4>1. Region(page, at, len, pieces) /\ len \in Int /\ at \in Int /\ len = 16
        BY <1>8, <2>1 DEF MarkRegion, TupleHeaderSize
      <4>2. x + 16 <= at \/ at + 16 <= x
        <5>1. i < k \/ k < i
          BY <1>2, <3>2
        <5> QED BY <1>3, <1>6, <1>8, <5>1
      <4> HIDE DEF at, len, pieces
      <4>3. Region(d, at, len, pieces)
        <5> DEFINE l == 16
                   what == <<"tuple", 999>>
        <5>1. d = Write(page, x, l, what)
          BY <1>4 DEF TupleHeaderSize
        <5>2. l \in Int /\ x \in Int /\ (x + l <= at \/ at + len <= x)
          BY <1>6, <4>1, <4>2
        <5> HIDE DEF l, what
        <5>3. Region(Write(page, x, l, what), at, len, pieces)
          BY <4>1, <5>2, RegionKept
        <5> QED BY <5>1, <5>3
      <4>4. Region(d, off[i], TupleHeaderSize, {Piece(off[i], TupleHeaderSize, <<"tuple", marks[i]>>)})
        BY <4>3 DEF at, len, pieces
      <4>5. marks2[i] = marks[i]
        BY <1>7, <3>2
      <4> QED BY <4>4, <4>5 DEF MarkRegion
    <3> QED BY <3>1, <3>2
  <2>4. TupleRegion(d, off[i], rows[i])
    <3> DEFINE at == off[i] + TupleHeaderSize
               len == TupleFor(rows[i]).len
               pieces == Moved(TupleFor(rows[i]).bytes, at)
    <3>1. Region(page, at, len, pieces) /\ at = off[i] + 16
      BY <2>1 DEF TupleRegion, TupleHeaderSize
    <3>2. len \in Nat /\ at \in Nat /\ RoomOf(rows[i]) = 16 + len /\ RoomOf(rows[k]) > 16
          /\ RoomOf(rows[k]) \in Nat
      BY <1>3, <1>8, <3>1
    <3>3. x + 16 <= at \/ at + len <= x
      <4>1. CASE i = k
        BY <1>6, <3>1, <4>1 DEF x
      <4>2. CASE i < k
        BY <1>6, <1>8, <3>1, <3>2, <4>2
      <4>3. CASE k < i
        <5>1. off[i] + (16 + len) <= x /\ off[i] \in Nat
          BY <1>8, <3>2, <4>3
        <5> HIDE DEF at, len
        <5> QED BY <1>6, <3>1, <3>2, <5>1
      <4> QED BY <1>2, <4>1, <4>2, <4>3
    <3> HIDE DEF at, len, pieces
    <3>4. Region(d, at, len, pieces)
      BY <1>4, <1>6, <3>1, <3>2, <3>3, RegionKept DEF TupleHeaderSize
    <3> QED BY <3>4 DEF TupleRegion, at, len, pieces
  <2> QED BY <2>2, <2>3, <2>4
<1>11. PageHas(d, n, off, rows, marks2)
  BY <1>1, <1>7, <1>9, <1>10 DEF PageHas
<1> QED
  BY <1>11 DEF d, marks2

(* The loop of a DELETE over the slots of a page. *)
IsMarking(f, m, page, slots) ==
    f = [n \in 0 .. m |->
            IF n = 0 THEN page
            ELSE IF n - 1 \in slots THEN MarkDeleted(f[n - 1], n - 1, 999)
            ELSE f[n - 1]]

LEMMA MarkingExists ==
    ASSUME NEW m \in Nat, NEW page, NEW slots
    PROVE  \E f : IsMarking(f, m, page, slots)
<1> DEFINE Round(n, v) == IF n - 1 \in slots THEN MarkDeleted(v, n - 1, 999) ELSE v
           S == { n \in Nat : \E f : IsMarking(f, n, page, slots) }
<1>0. ASSUME NEW f, NEW n \in Nat
      PROVE  IsMarking(f, n, page, slots) <=>
                f = [i \in 0 .. n |-> IF i = 0 THEN page ELSE Round(i, f[i - 1])]
  BY DEF IsMarking
<1> HIDE DEF Round
<1>1. 0 \in S
  <2> DEFINE f == [n \in 0 .. 0 |-> page]
  <2>1. f = [i \in 0 .. 0 |-> IF i = 0 THEN page ELSE Round(i, f[i - 1])]
    OBVIOUS
  <2> QED BY <1>0, <2>1
<1>2. ASSUME NEW n \in S PROVE n + 1 \in S
  <2>0. n \in Nat
    OBVIOUS
  <2>1. PICK f : IsMarking(f, n, page, slots)
    OBVIOUS
  <2> DEFINE x == [i \in 0 .. n + 1 |-> IF i = n + 1 THEN Round(n + 1, f[n]) ELSE f[i]]
  <2>2. \A i \in 0 .. n : x[i] = f[i]
    OBVIOUS
  <2>3. \A i \in 0 .. n : f[i] = IF i = 0 THEN page ELSE Round(i, f[i - 1])
    BY <1>0, <2>0, <2>1
  <2>4. ASSUME NEW i \in 0 .. n + 1
        PROVE  x[i] = IF i = 0 THEN page ELSE Round(i, x[i - 1])
    <3>1. CASE i = n + 1
      <4>1. x[i] = Round(n + 1, f[n]) /\ i - 1 = n /\ i # 0 /\ n \in 0 .. n
        BY <2>0, <3>1
      <4> QED BY <3>1, <4>1, <2>2
    <3>2. CASE i \in 0 .. n /\ i # 0
      <4>1. i - 1 \in 0 .. n
        BY <2>0, <3>2
      <4> QED BY <4>1, <3>2, <2>2, <2>3
    <3>3. CASE i = 0
      <4>1. 0 \in 0 .. n
        BY <2>0
      <4> QED BY <4>1, <3>3, <2>2, <2>3
    <3> QED BY <2>0, <3>1, <3>2, <3>3
  <2>5. IsMarking(x, n + 1, page, slots)
    <3>1. x = [i \in 0 .. n + 1 |-> x[i]]
      OBVIOUS
    <3> HIDE DEF x
    <3>2. x = [i \in 0 .. n + 1 |-> IF i = 0 THEN page ELSE Round(i, x[i - 1])]
      BY <3>1, <2>4
    <3> QED BY <1>0, <2>0, <3>2
  <2> QED BY <2>0, <2>5
<1>3. S = Nat
  <2> HIDE DEF S
  <2>1. S \in SUBSET Nat
    BY DEF S
  <2> QED BY <1>1, <1>2, <2>1, EveryRound
<1> QED
  BY <1>3

MarksAfter(n, m, slots, marks) ==
    [k \in 1 .. n |-> IF k <= m /\ k - 1 \in slots THEN 999 ELSE marks[k]]

LEMMA ExceptAt ==
    ASSUME NEW f, NEW D, NEW x, DOMAIN f = D, NEW c
    PROVE  [f EXCEPT ![x] = c] = [k \in D |-> IF k = x THEN c ELSE f[k]]
OBVIOUS

LEMMA OneMoreMarked ==
    ASSUME NEW n \in Nat, NEW m \in Nat, m + 1 \in 1 .. n, NEW slots, m \in slots,
           NEW marks \in [1 .. n -> {0, 999}]
    PROVE  [MarksAfter(n, m, slots, marks) EXCEPT ![m + 1] = 999] = MarksAfter(n, m + 1, slots, marks)
<1> DEFINE f == MarksAfter(n, m, slots, marks)
           g == MarksAfter(n, m + 1, slots, marks)
           h == [f EXCEPT ![m + 1] = 999]
<1>1. f = [k \in 1 .. n |-> IF k <= m /\ k - 1 \in slots THEN 999 ELSE marks[k]]
  BY DEF MarksAfter
<1>2. g = [k \in 1 .. n |-> IF k <= m + 1 /\ k - 1 \in slots THEN 999 ELSE marks[k]]
  BY DEF MarksAfter
<1> HIDE DEF f, g
<1>3. DOMAIN f = 1 .. n
  BY <1>1
<1>4. h = [k \in 1 .. n |-> IF k = m + 1 THEN 999 ELSE f[k]]
  <2> DEFINE D == 1 .. n
             x == m + 1
             c == 999
  <2> HIDE DEF D, x, c
  <2>1. [f EXCEPT ![x] = c] = [k \in D |-> IF k = x THEN c ELSE f[k]]
    <3>1. DOMAIN f = D
      BY <1>3 DEF D
    <3> QED BY <3>1, ExceptAt
  <2> QED BY <2>1 DEF D, x, c
<1>5. ASSUME NEW k \in 1 .. n
      PROVE  (IF k = m + 1 THEN 999 ELSE f[k]) =
                (IF k <= m + 1 /\ k - 1 \in slots THEN 999 ELSE marks[k])
  <2>1. CASE k = m + 1
    <3>1. k <= m + 1 /\ k - 1 = m
      BY <2>1
    <3> QED BY <2>1, <3>1
  <2>2. CASE k # m + 1
    <3>1. k <= m + 1 <=> k <= m
      BY <2>2
    <3>2. f[k] = IF k <= m /\ k - 1 \in slots THEN 999 ELSE marks[k]
      BY <1>1
    <3> QED BY <2>2, <3>1, <3>2
  <2> QED BY <2>1, <2>2
<1> HIDE DEF h
<1>6. h = g
  BY <1>2, <1>4, <1>5
<1> QED
  BY <1>6 DEF f, g, h

LEMMA WithoutSlotsPage ==
    ASSUME NEW page, NEW n, NEW off, NEW rows, NEW marks, PageHas(page, n, off, rows, marks),
           NEW slots
    PROVE  PageHas(WithoutSlots(page, slots), n, off, rows,
                   [k \in 1 .. n |-> IF k - 1 \in slots THEN 999 ELSE marks[k]])
<1> DEFINE Is(f) == f = [i \in 0 .. TotalSlots(page) |->
                            IF i = 0 THEN page
                            ELSE IF i - 1 \in slots THEN MarkDeleted(f[i - 1], i - 1, 999)
                            ELSE f[i - 1]]
           marked == CHOOSE f : Is(f)
           After(m) == MarksAfter(n, m, slots, marks)
           S == { m \in Nat : m <= n => PageHas(marked[m], n, off, rows, After(m)) }
<1>1. n \in Nat /\ TotalSlots(page) = n /\ marks \in [1 .. n -> {0, 999}]
  BY PageReads DEF PageHas, BackToBack
<1>2. \A f : Is(f) <=> IsMarking(f, n, page, slots)
  BY <1>1 DEF IsMarking
<1>3. \E f : Is(f)
  BY <1>1, <1>2, MarkingExists
<1>4. Is(marked)
  BY <1>3
<1>5. IsMarking(marked, n, page, slots)
  <2> HIDE DEF Is, marked
  <2> QED BY <1>2, <1>4
<1>6. WithoutSlots(page, slots) = marked[n]
  BY <1>1 DEF WithoutSlots
<1> HIDE DEF Is, marked
<1>7. /\ marked[0] = page
      /\ \A i \in 1 .. n : marked[i] = IF i - 1 \in slots THEN MarkDeleted(marked[i - 1], i - 1, 999)
                                       ELSE marked[i - 1]
  BY <1>1, <1>5 DEF IsMarking
<1>8. 0 \in S
  <2>1. After(0) = marks
    BY <1>1 DEF MarksAfter
  <2> HIDE DEF After
  <2> QED BY <1>7, <2>1
<1>9. ASSUME NEW m \in S PROVE m + 1 \in S
  <2>0. m \in Nat
    OBVIOUS
  <2> SUFFICES ASSUME m + 1 <= n PROVE PageHas(marked[m + 1], n, off, rows, After(m + 1))
    BY <2>0
  <2>1. PageHas(marked[m], n, off, rows, After(m))
    BY <1>1, <2>0
  <2>2. m + 1 \in 1 .. n /\ (m + 1) - 1 = m
    BY <1>1, <2>0
  <2>3. CASE m \in slots
    <3>1. marked[m + 1] = MarkDeleted(marked[m], m, 999)
      BY <1>7, <2>2, <2>3
    <3>2. PageHas(MarkDeleted(marked[m], m, 999), n, off, rows, [After(m) EXCEPT ![m + 1] = 999])
      <4> HIDE DEF After
      <4>1. PageHas(MarkDeleted(marked[m], (m + 1) - 1, 999), n, off, rows,
                    [After(m) EXCEPT ![m + 1] = 999])
        BY <2>1, <2>2, MarkedPage
      <4> QED BY <2>2, <4>1
    <3>3. [After(m) EXCEPT ![m + 1] = 999] = After(m + 1)
      <4> HIDE DEF S
      <4> QED BY <1>1, <2>0, <2>2, <2>3, OneMoreMarked
    <3> HIDE DEF After
    <3> QED BY <3>1, <3>2, <3>3
  <2>4. CASE m \notin slots
    <3>1. marked[m + 1] = marked[m]
      BY <1>7, <2>2, <2>4
    <3>2. After(m + 1) = After(m)
      <4>1. \A k \in 1 .. n : k <= m + 1 <=> k <= m \/ k = m + 1
        BY <1>1, <2>0
      <4> QED BY <2>2, <2>4, <4>1 DEF MarksAfter
    <3> HIDE DEF After
    <3> QED BY <2>1, <3>1, <3>2
  <2> QED BY <2>3, <2>4
<1>10. S = Nat
  <2> HIDE DEF S
  <2>1. S \in SUBSET Nat
    BY DEF S
  <2> QED BY <1>8, <1>9, <2>1, EveryRound
<1>11. PageHas(marked[n], n, off, rows, After(n))
  <2>1. n \in S
    <3> HIDE DEF S
    <3> QED BY <1>1, <1>10
  <2>2. n <= n
    BY <1>1
  <2> HIDE DEF After
  <2> QED BY <2>1, <2>2
<1>12. After(n) = [k \in 1 .. n |-> IF k - 1 \in slots THEN 999 ELSE marks[k]]
  BY <1>1 DEF MarksAfter
<1> HIDE DEF After
<1> QED
  BY <1>6, <1>11, <1>12

LEMMA SoundPageWellFormed ==
    ASSUME NEW page, NEW n, NEW off, NEW rows, NEW marks, PageHas(page, n, off, rows, marks)
    PROVE  WellFormed(page)
<1>1. BackToBack(n, off, rows)
  BY DEF PageHas
<1>2. /\ Header(page) = [total_slots |-> n, lower |-> SlotAt(n), upper |-> off[n]]
      /\ \A i \in 1 .. n : Slot(page, i - 1) = [offset |-> off[i], length |-> RoomOf(rows[i])]
  BY PageReads
<1>3. \A i \in 1 .. n : RoomOf(rows[i]) \in Nat /\ RoomOf(rows[i]) > TupleHeaderSize
  BY <1>1, RoomFacts DEF BackToBack
<1>4. /\ n \in Nat /\ \A i \in 0 .. n : off[i] \in Nat
      /\ off[0] = PAGE_SIZE /\ SlotAt(n) <= off[n]
      /\ \A i \in 1 .. n : off[i] + RoomOf(rows[i]) = off[i - 1]
  BY <1>1 DEF BackToBack
<1>5. ASSUME NEW i \in 0 .. n - 1
      PROVE  /\ Slot(page, i).offset + Slot(page, i).length =
                   (IF i = 0 THEN PAGE_SIZE ELSE Slot(page, i - 1).offset)
             /\ (Slot(page, i).offset + Slot(page, i).length) - Slot(page, i).offset > TupleHeaderSize
  <2>1. i + 1 \in 1 .. n /\ (i + 1) - 1 = i /\ i \in 0 .. n /\ i + 1 \in 0 .. n
    BY <1>4
  <2>2. Slot(page, i) = [offset |-> off[i + 1], length |-> RoomOf(rows[i + 1])]
    BY <1>2, <2>1
  <2>3. off[i + 1] + RoomOf(rows[i + 1]) = off[i] /\ off[i + 1] \in Nat
    BY <1>4, <2>1
  <2>4. i # 0 => Slot(page, i - 1).offset = off[i]
    <3> SUFFICES ASSUME i # 0 PROVE Slot(page, i - 1).offset = off[i]
      OBVIOUS
    <3>1. i \in 1 .. n
      BY <1>4
    <3>2. Slot(page, i - 1) = [offset |-> off[i], length |-> RoomOf(rows[i])]
      BY <1>2, <3>1
    <3> QED BY <3>2
  <2>5. RoomOf(rows[i + 1]) \in Nat /\ RoomOf(rows[i + 1]) > TupleHeaderSize
    BY <1>3, <2>1
  <2> QED BY <1>4, <2>2, <2>3, <2>4, <2>5
<1>6. off[n] = IF n = 0 THEN PAGE_SIZE ELSE Slot(page, n - 1).offset
  <2>1. CASE n = 0
    BY <1>4, <2>1
  <2>2. CASE n # 0
    <3>1. n \in 1 .. n
      BY <1>4, <2>2
    <3>2. Slot(page, n - 1) = [offset |-> off[n], length |-> RoomOf(rows[n])]
      BY <1>2, <3>1
    <3> QED BY <2>2, <3>2
  <2> QED BY <2>1, <2>2
<1> QED
  BY <1>2, <1>4, <1>5, <1>6 DEF WellFormed

-----------------------------------------------------------------------------
(***************************************************************************)
(* What a scan reads from one page.                                        *)
(***************************************************************************)

LEMMA MappedInSeq ==
    ASSUME NEW T, NEW U, NEW s \in Seq(T), NEW f, \A x \in T : f[x] \in U
    PROVE  /\ Mapped(s, f) \in Seq(U) /\ Len(Mapped(s, f)) = Len(s) /\ Len(s) \in Nat
           /\ \A k \in 1 .. Len(s) : Mapped(s, f)[k] = f[s[k]] /\ s[k] \in T
<1>1. DOMAIN s = 1 .. Len(s) /\ Len(s) \in Nat /\ \A k \in 1 .. Len(s) : s[k] \in T
  OBVIOUS
<1>2. Mapped(s, f) = [k \in 1 .. Len(s) |-> f[s[k]]]
  BY <1>1 DEF Mapped
<1>3. \A k \in 1 .. Len(s) : f[s[k]] \in U
  BY <1>1
<1> QED
  BY <1>1, <1>2, <1>3

LEMMA MappedConcat ==
    ASSUME NEW T, NEW s \in Seq(T), NEW u \in Seq(T), NEW f
    PROVE  Mapped(s \o u, f) = Mapped(s, f) \o Mapped(u, f)
<1> DEFINE U == { f[x] : x \in T }
<1>0. \A x \in T : f[x] \in U
  OBVIOUS
<1> HIDE DEF U
<1> DEFINE a == Mapped(s, f)
           b == Mapped(u, f)
           v == s \o u
           c == Mapped(v, f)
<1>1. /\ a \in Seq(U) /\ Len(a) = Len(s) /\ Len(s) \in Nat
      /\ \A k \in 1 .. Len(s) : a[k] = f[s[k]] /\ s[k] \in T
  BY <1>0, MappedInSeq
<1>2. /\ b \in Seq(U) /\ Len(b) = Len(u) /\ Len(u) \in Nat
      /\ \A k \in 1 .. Len(u) : b[k] = f[u[k]]
  BY <1>0, MappedInSeq
<1>3. /\ v \in Seq(T) /\ Len(v) = Len(s) + Len(u)
      /\ \A i \in 1 .. Len(s) : v[i] = s[i]
      /\ \A i \in 1 .. Len(s) + Len(u) :
            i \in 1 .. Len(s) \/ (i - Len(s) \in 1 .. Len(u) /\ v[i] = u[i - Len(s)])
  BY ConcatEntries
<1> HIDE DEF v
<1>4. /\ c \in Seq(U) /\ Len(c) = Len(v)
      /\ \A k \in 1 .. Len(v) : c[k] = f[v[k]]
  <2>1. v \in Seq(T)
    BY <1>3
  <2> QED BY <1>0, <2>1, MappedInSeq
<1> HIDE DEF a, b, c
<1>5. /\ a \o b \in Seq(U) /\ Len(a \o b) = Len(a) + Len(b)
      /\ \A i \in 1 .. Len(a) : (a \o b)[i] = a[i]
      /\ \A i \in 1 .. Len(a) + Len(b) :
            i \in 1 .. Len(a) \/ (i - Len(a) \in 1 .. Len(b) /\ (a \o b)[i] = b[i - Len(a)])
  <2>1. a \in Seq(U) /\ b \in Seq(U)
    BY <1>1, <1>2
  <2> QED BY <2>1, ConcatEntries
<1>6. \A i \in 1 .. Len(c) : c[i] = (a \o b)[i]
  <2> SUFFICES ASSUME NEW i \in 1 .. Len(c) PROVE c[i] = (a \o b)[i]
    OBVIOUS
  <2>1. i \in 1 .. Len(v) /\ i \in 1 .. Len(s) + Len(u)
    BY <1>3, <1>4
  <2>2. c[i] = f[v[i]]
    BY <1>4, <2>1
  <2>3. CASE i \in 1 .. Len(s)
    BY <2>2, <2>3, <1>1, <1>3, <1>5
  <2>4. CASE i \notin 1 .. Len(s)
    <3>1. i - Len(s) \in 1 .. Len(u) /\ v[i] = u[i - Len(s)] /\ (a \o b)[i] = b[i - Len(s)]
      BY <2>1, <2>4, <1>1, <1>2, <1>3, <1>5
    <3> QED BY <3>1, <2>2, <1>2
  <2> QED BY <2>3, <2>4
<1>7. c = a \o b
  <2>1. Len(c) = Len(a \o b)
    BY <1>1, <1>2, <1>3, <1>4, <1>5
  <2> QED BY <1>4, <1>5, <1>6, <2>1, SameEntries
<1> QED
  BY <1>7 DEF a, b, c, v

(* The rounds of FlattenSeq. *)
IsFlattening(f, m, seqs) ==
    f = [i \in 1 .. m |-> IF i = 1 THEN seqs[i] ELSE f[i - 1] \o seqs[i]]

LEMMA FlatteningExists ==
    ASSUME NEW m \in Nat, NEW seqs
    PROVE  \E f : IsFlattening(f, m, seqs)
<1> DEFINE S == { k \in Nat : \E f : IsFlattening(f, k, seqs) }
<1>1. 0 \in S
  <2> DEFINE f == [i \in 1 .. 0 |-> <<>>]
  <2>1. f = [i \in 1 .. 0 |-> IF i = 1 THEN seqs[i] ELSE f[i - 1] \o seqs[i]]
    OBVIOUS
  <2> HIDE DEF f
  <2>2. IsFlattening(f, 0, seqs)
    BY <2>1 DEF IsFlattening
  <2> QED BY <2>2
<1>2. ASSUME NEW k \in S PROVE k + 1 \in S
  <2>1. PICK f : IsFlattening(f, k, seqs)
    OBVIOUS
  <2>2. k \in Nat
    OBVIOUS
  <2> DEFINE x == [i \in 1 .. k + 1 |->
                     IF i = k + 1 THEN (IF i = 1 THEN seqs[i] ELSE f[k] \o seqs[i]) ELSE f[i]]
  <2>3. \A i \in 1 .. k : x[i] = f[i]
    BY <2>2
  <2>4. x[k + 1] = IF k + 1 = 1 THEN seqs[k + 1] ELSE f[k] \o seqs[k + 1]
    BY <2>2
  <2>5. x = [i \in 1 .. k + 1 |-> x[i]]
    OBVIOUS
  <2> HIDE DEF x
  <2>6. \A i \in 1 .. k : f[i] = IF i = 1 THEN seqs[i] ELSE f[i - 1] \o seqs[i]
    BY <2>1 DEF IsFlattening
  <2>7. ASSUME NEW i \in 1 .. k + 1
        PROVE  x[i] = IF i = 1 THEN seqs[i] ELSE x[i - 1] \o seqs[i]
    <3>1. CASE i = k + 1 /\ i # 1
      <4>1. k \in 1 .. k /\ i - 1 = k
        BY <2>2, <3>1
      <4> QED BY <3>1, <4>1, <2>3, <2>4
    <3>2. CASE i = k + 1 /\ i = 1
      BY <3>2, <2>4
    <3>3. CASE i # k + 1 /\ i # 1
      <4>1. i \in 1 .. k /\ i - 1 \in 1 .. k
        BY <2>2, <3>3
      <4> QED BY <3>3, <4>1, <2>3, <2>6
    <3>4. CASE i # k + 1 /\ i = 1
      <4>1. i \in 1 .. k
        BY <2>2, <3>4
      <4> QED BY <3>4, <4>1, <2>3, <2>6
    <3> QED BY <3>1, <3>2, <3>3, <3>4
  <2>8. IsFlattening(x, k + 1, seqs)
    BY <2>5, <2>7 DEF IsFlattening
  <2> QED BY <2>2, <2>8
<1>3. S = Nat
  <2> HIDE DEF S
  <2>1. S \in SUBSET Nat
    BY DEF S
  <2> QED BY <1>1, <1>2, <2>1, EveryRound
<1>4. m \in S
  BY <1>3
<1> QED
  BY <1>4

LEMMA FlattenRounds ==
    ASSUME NEW seqs, Len(seqs) \in Nat, Len(seqs) # 0
    PROVE  \E f : /\ f[1] = seqs[1]
                  /\ \A i \in 2 .. Len(seqs) : f[i] = f[i - 1] \o seqs[i]
                  /\ FlattenSeq(seqs) = f[Len(seqs)]
<1> DEFINE f == CHOOSE x : IsFlattening(x, Len(seqs), seqs)
<1>1. IsFlattening(f, Len(seqs), seqs)
  BY FlatteningExists
<1>2. FlattenSeq(seqs) = f[Len(seqs)]
  BY DEF FlattenSeq, IsFlattening
<1> HIDE DEF f
<1>3. \A i \in 1 .. Len(seqs) : f[i] = IF i = 1 THEN seqs[i] ELSE f[i - 1] \o seqs[i]
  BY <1>1 DEF IsFlattening
<1>4. f[1] = seqs[1]
  BY <1>3
<1>5. \A i \in 2 .. Len(seqs) : f[i] = f[i - 1] \o seqs[i]
  <2> TAKE i \in 2 .. Len(seqs)
  <2>1. i \in 1 .. Len(seqs) /\ i # 1
    OBVIOUS
  <2> QED BY <1>3, <2>1
<1> QED
  BY <1>2, <1>4, <1>5

-----------------------------------------------------------------------------
(* The rows on a page. *)
Encodings == { TupleFor(row) : row \in Tuples }
Decoding == [t \in Encodings |-> ToValues(Schema, t)]

RowsOn(page) == Mapped(RecordsOn(page), Decoding)

LiveRows(rows, marks) == Picked(rows, { i \in DOMAIN rows : marks[i] = 0 })

LEMMA DecodingFacts ==
    /\ Decoding \in [Encodings -> Tuples]
    /\ \A row \in Tuples : TupleFor(row) \in Encodings /\ Decoding[TupleFor(row)] = row
    /\ \A t \in Encodings : Decoding[t] = ToValues(Schema, t)
<1>1. \A row \in Tuples : TupleFor(row) \in Encodings
  BY DEF Encodings
<1>2. \A t \in Encodings : Decoding[t] = ToValues(Schema, t)
  BY DEF Decoding
<1>3. \A row \in Tuples : Decoding[TupleFor(row)] = row
  BY <1>1, <1>2, TupleFacts
<1>4. \A t \in Encodings : Decoding[t] \in Tuples
  BY <1>3 DEF Encodings
<1>5. Decoding = [t \in Encodings |-> Decoding[t]]
  BY DEF Decoding
<1> QED
  BY <1>1, <1>2, <1>3, <1>4, <1>5

LEMMA RowsOfPage ==
    ASSUME NEW page, NEW n, NEW off, NEW rows, NEW marks, PageHas(page, n, off, rows, marks)
    PROVE  /\ RecordsOn(page) \in Seq(Encodings)
           /\ RowsOn(page) = LiveRows(rows, marks)
           /\ rows \in Seq(Tuples) /\ Len(rows) = n /\ n \in Nat
           /\ RowsOn(page) \in Seq(Tuples)
<1>1. n \in Nat /\ rows \in [1 .. n -> Tuples]
  BY DEF PageHas, BackToBack
<1>2. rows \in Seq(Tuples) /\ Len(rows) = n /\ DOMAIN rows = 1 .. n
  BY <1>1
<1>3. /\ TotalSlots(page) = n
      /\ \A i \in 1 .. n : /\ HasRecord(page, i - 1) <=> marks[i] = 0
                           /\ Record(page, i - 1) = TupleFor(rows[i])
  <2>1. /\ TotalSlots(page) = n
        /\ \A i \in 1 .. n :
              /\ Slot(page, i - 1) = [offset |-> off[i], length |-> RoomOf(rows[i])]
              /\ HasRecord(page, i - 1) <=> marks[i] = 0
              /\ Record(page, i - 1) = TupleFor(rows[i])
              /\ ValuesAt(page, i - 1) = rows[i]
    BY PageReads
  <2> QED BY <2>1
<1> DEFINE numbers == [i \in 1 .. n |-> i - 1]
           P == { i \in 1 .. n : HasRecord(page, i - 1) }
           slots == Picked(numbers, P)
           f == [j \in 0 .. n - 1 |-> Record(page, j)]
           tuples == [i \in 1 .. n |-> TupleFor(rows[i])]
<1>4. RecordsOn(page) = [k \in DOMAIN slots |-> Record(page, slots[k])]
  BY <1>3 DEF RecordsOn
<1>5. numbers \in Seq(0 .. n - 1) /\ Len(numbers) = n /\ \A i \in 1 .. n : numbers[i] = i - 1
  BY <1>1
<1>6. f \in [0 .. n - 1 -> Encodings]
  <2>1. ASSUME NEW j \in 0 .. n - 1 PROVE Record(page, j) \in Encodings
    <3>1. j + 1 \in 1 .. n /\ (j + 1) - 1 = j
      BY <1>1
    <3>2. Record(page, j) = TupleFor(rows[j + 1]) /\ rows[j + 1] \in Tuples
      BY <1>1, <1>3, <3>1
    <3> QED BY <3>2 DEF Encodings
  <2> QED BY <2>1
<1>7. slots \in Seq(0 .. n - 1) /\ \A k \in DOMAIN slots : slots[k] \in 0 .. n - 1
  <2> DEFINE T == 0 .. n - 1
  <2>0. numbers \in Seq(T)
    BY <1>5
  <2> HIDE DEF numbers, P, T
  <2>1. slots \in Seq(T)
    BY <2>0, PickedPlaces
  <2> HIDE DEF slots
  <2>2. \A k \in DOMAIN slots : slots[k] \in T
    BY <2>1
  <2> QED BY <2>1, <2>2 DEF T
<1>8. RecordsOn(page) = Mapped(slots, f)
  <2>1. \A k \in DOMAIN slots : f[slots[k]] = Record(page, slots[k])
    BY <1>7
  <2> HIDE DEF slots, f
  <2>2. [k \in DOMAIN slots |-> Record(page, slots[k])] = [k \in DOMAIN slots |-> f[slots[k]]]
    BY <2>1
  <2> QED BY <1>4, <2>2 DEF Mapped
<1>9. tuples = Mapped(numbers, f)
  <2>1. \A i \in 1 .. n : f[numbers[i]] = TupleFor(rows[i])
    <3> TAKE i \in 1 .. n
    <3>1. numbers[i] = i - 1 /\ i - 1 \in 0 .. n - 1
      BY <1>1, <1>5
    <3>2. f[i - 1] = Record(page, i - 1)
      BY <3>1
    <3> HIDE DEF f, numbers
    <3> QED BY <3>1, <3>2, <1>3
  <2>2. DOMAIN numbers = 1 .. n
    OBVIOUS
  <2> HIDE DEF f, numbers
  <2> QED BY <2>1, <2>2 DEF Mapped
<1>10. tuples \in Seq(Encodings) /\ DOMAIN tuples = 1 .. n /\ \A i \in 1 .. n : tuples[i] = TupleFor(rows[i])
  BY <1>1 DEF Encodings
<1> HIDE DEF numbers, f, tuples
<1>11. RecordsOn(page) = Picked(tuples, P)
  <2> DEFINE T == 0 .. n - 1
  <2>1. numbers \in Seq(T) /\ f \in [T -> Encodings]
    BY <1>5, <1>6
  <2> HIDE DEF P, T
  <2>2. Mapped(Picked(numbers, P), f) = Picked(Mapped(numbers, f), P)
    BY <2>1, PickedMapped
  <2> QED BY <1>8, <1>9, <2>2
<1>12. RecordsOn(page) \in Seq(Encodings)
  <2> HIDE DEF P
  <2> QED BY <1>10, <1>11, PickedPlaces
<1>13. RowsOn(page) = Picked(Mapped(tuples, Decoding), P)
  <2>1. Decoding \in [Encodings -> Tuples] /\ tuples \in Seq(Encodings)
    BY <1>10, DecodingFacts
  <2> HIDE DEF P
  <2>2. Mapped(Picked(tuples, P), Decoding) = Picked(Mapped(tuples, Decoding), P)
    BY <2>1, PickedMapped
  <2> QED BY <1>11, <2>2 DEF RowsOn
<1>14. Mapped(tuples, Decoding) = rows
  <2>1. \A i \in 1 .. n : Decoding[tuples[i]] = rows[i]
    BY <1>1, <1>10, DecodingFacts
  <2>2. rows = [i \in 1 .. n |-> rows[i]]
    BY <1>1
  <2> QED BY <1>10, <2>1, <2>2 DEF Mapped
<1>15. P = { i \in DOMAIN rows : marks[i] = 0 }
  BY <1>2, <1>3
<1>16. RowsOn(page) = LiveRows(rows, marks)
  BY <1>13, <1>14, <1>15 DEF LiveRows
<1>17. RowsOn(page) \in Seq(Tuples)
  <2>1. \A x \in Encodings : Decoding[x] \in Tuples
    BY DecodingFacts
  <2> QED BY <2>1, <1>12, MappedInSeq DEF RowsOn
<1> QED
  BY <1>1, <1>2, <1>12, <1>16, <1>17

-----------------------------------------------------------------------------
(***************************************************************************)
(* What a scan reads from all pages.                                       *)
(***************************************************************************)

LEMMA FlattenWalk ==
    ASSUME NEW T, NEW seqs, Len(seqs) \in Nat, Len(seqs) # 0,
           \A i \in 1 .. Len(seqs) : seqs[i] \in Seq(T)
    PROVE  \E f : /\ f[0] = <<>>
                  /\ \A i \in 1 .. Len(seqs) : f[i] = f[i - 1] \o seqs[i]
                  /\ FlattenSeq(seqs) = f[Len(seqs)]
<1>1. PICK h : /\ h[1] = seqs[1]
               /\ \A i \in 2 .. Len(seqs) : h[i] = h[i - 1] \o seqs[i]
               /\ FlattenSeq(seqs) = h[Len(seqs)]
  BY FlattenRounds
<1> DEFINE f == [i \in 0 .. Len(seqs) |-> IF i = 0 THEN <<>> ELSE h[i]]
<1>2. f[0] = <<>> /\ \A i \in 1 .. Len(seqs) : f[i] = h[i]
  OBVIOUS
<1> HIDE DEF f
<1>3. ASSUME NEW i \in 1 .. Len(seqs) PROVE f[i] = f[i - 1] \o seqs[i]
  <2>1. CASE i = 1
    <3>1. seqs[1] \in Seq(T)
      BY <2>1
    <3>2. <<>> \o seqs[1] = seqs[1]
      BY <3>1
    <3>3. 1 \in 1 .. Len(seqs) /\ i - 1 = 0
      BY <2>1
    <3> QED BY <1>1, <1>2, <2>1, <3>2, <3>3
  <2>2. CASE i # 1
    <3>1. i \in 2 .. Len(seqs) /\ i - 1 \in 1 .. Len(seqs)
      BY <2>2
    <3> QED BY <1>1, <1>2, <3>1
  <2> QED BY <2>1, <2>2
<1>4. FlattenSeq(seqs) = f[Len(seqs)]
  <2>1. Len(seqs) \in 1 .. Len(seqs)
    OBVIOUS
  <2> QED BY <1>1, <1>2, <2>1
<1> QED
  BY <1>2, <1>3, <1>4

Sound(page) == \E n, off, rows, marks : PageHas(page, n, off, rows, marks)

LEMMA SoundHasRows ==
    ASSUME NEW page, Sound(page)
    PROVE  RecordsOn(page) \in Seq(Encodings) /\ RowsOn(page) \in Seq(Tuples)
BY RowsOfPage DEF Sound

(* The rows of the first pages. *)
Gathering(g, ps) ==
    /\ g[0] = <<>>
    /\ \A i \in 1 .. Len(ps) : g[i] = g[i - 1] \o RowsOn(ps[i])

Gathers(ps, s) == \E g : Gathering(g, ps) /\ g[Len(ps)] = s

LEMMA GatheredRows ==
    ASSUME NEW ps, Len(ps) \in Nat, \A i \in 1 .. Len(ps) : Sound(ps[i]),
           NEW g, Gathering(g, ps)
    PROVE  \A i \in 0 .. Len(ps) : g[i] \in Seq(Tuples)
<1> DEFINE S == { i \in Nat : i <= Len(ps) => g[i] \in Seq(Tuples) }
<1>1. 0 \in S
  <2>1. g[0] = <<>> /\ <<>> \in Seq(Tuples)
    BY DEF Gathering
  <2> QED BY <2>1
<1>2. ASSUME NEW i \in S PROVE i + 1 \in S
  <2> SUFFICES ASSUME i + 1 <= Len(ps) PROVE g[i + 1] \in Seq(Tuples)
    OBVIOUS
  <2>1. i \in Nat /\ i + 1 \in 1 .. Len(ps) /\ (i + 1) - 1 = i /\ g[i] \in Seq(Tuples)
    OBVIOUS
  <2>2. g[i + 1] = g[i] \o RowsOn(ps[i + 1])
    BY <2>1 DEF Gathering
  <2>3. RowsOn(ps[i + 1]) \in Seq(Tuples)
    BY <2>1, SoundHasRows
  <2> DEFINE a == g[i]
             b == RowsOn(ps[i + 1])
  <2> HIDE DEF a, b, S
  <2>4. a \o b \in Seq(Tuples)
    <3>1. a \in Seq(Tuples) /\ b \in Seq(Tuples)
      BY <2>1, <2>3 DEF a, b
    <3> QED BY <3>1
  <2> QED BY <2>2, <2>4 DEF a, b
<1>3. S = Nat
  <2> HIDE DEF S
  <2>1. S \in SUBSET Nat
    BY DEF S
  <2> QED BY <1>1, <1>2, <2>1, EveryRound
<1> QED
  BY <1>3

(* A page that was never written has no record. *)
LEMMA NothingOnZeros == RecordsOn({}) = <<>>
<1>1. Touched({}, 0, PageHeaderSize) = {}
  BY DEF Touched
<1>2. Read({}, 0, PageHeaderSize) = <<"zero">>
  BY <1>1 DEF Read, Zero
<1>3. TotalSlots({}) = 0
  <2>1. Read({}, 0, PageHeaderSize)[1] # "page"
    BY <1>2
  <2> QED BY <2>1 DEF TotalSlots, Header
<1> DEFINE s == [i \in 1 .. 0 |-> i - 1]
<1>4. s = <<>>
  OBVIOUS
<1>5. RecordsOn({}) = [k \in DOMAIN Picked(s, { i \in 1 .. 0 : HasRecord({}, i - 1) })
                         |-> Record({}, Picked(s, { i \in 1 .. 0 : HasRecord({}, i - 1) })[k])]
  BY <1>3 DEF RecordsOn
<1>6. Picked(s, { i \in 1 .. 0 : HasRecord({}, i - 1) }) = <<>>
  BY <1>4, PickedEmpty
<1> QED
  BY <1>5, <1>6

LEMMA ScanFinds ==
    ASSUME NEW ps, Len(ps) \in Nat, \A i \in 1 .. Len(ps) : Sound(ps[i]),
           NEW s, Gathers(ps, s),
           NEW t, t.schema = Schema, t.pages = ps
    PROVE  Rows(SeqScan(t, Len(ps))) = s
<1> DEFINE m == Len(ps)
           seqs == [n \in 1 .. m + 1 |-> RecordsOn(PageOf(t, n - 1))]
<1>1. PICK g : Gathering(g, ps) /\ g[m] = s
  BY DEF Gathers
<1>2. /\ Len(seqs) = m + 1 /\ m \in Nat
      /\ \A i \in 1 .. m : seqs[i] = RecordsOn(ps[i])
      /\ seqs[m + 1] = <<>>
  <2>1. Len(seqs) = m + 1
    OBVIOUS
  <2>2. ASSUME NEW i \in 1 .. m PROVE seqs[i] = RecordsOn(ps[i])
    <3>1. i - 1 < m /\ (i - 1) + 1 = i /\ i \in 1 .. m + 1
      OBVIOUS
    <3>2. PageOf(t, i - 1) = ps[i]
      BY <3>1 DEF PageOf
    <3> QED BY <3>1, <3>2
  <2>3. seqs[m + 1] = RecordsOn(PageOf(t, m))
    <3>1. m + 1 \in 1 .. m + 1 /\ (m + 1) - 1 = m
      OBVIOUS
    <3> QED BY <3>1
  <2>4. PageOf(t, m) = {}
    BY DEF PageOf
  <2> QED BY <2>1, <2>2, <2>3, <2>4, NothingOnZeros
<1>3. SeqScan(t, m) = [schema |-> Schema, tuples |-> FlattenSeq(seqs), ok |-> TRUE]
  BY DEF SeqScan, Executor
<1> HIDE DEF seqs
<1>4. \A i \in 1 .. Len(seqs) : seqs[i] \in Seq(Encodings)
  <2> TAKE i \in 1 .. Len(seqs)
  <2>1. CASE i \in 1 .. m
    BY <2>1, <1>2, SoundHasRows
  <2>2. CASE i = m + 1
    <3>1. <<>> \in Seq(Encodings)
      OBVIOUS
    <3> QED BY <2>2, <3>1, <1>2
  <2> QED BY <2>1, <2>2, <1>2
<1>5. PICK f : /\ f[0] = <<>>
               /\ \A i \in 1 .. Len(seqs) : f[i] = f[i - 1] \o seqs[i]
               /\ FlattenSeq(seqs) = f[Len(seqs)]
  <2>1. Len(seqs) \in Nat /\ Len(seqs) # 0
    BY <1>2
  <2> QED BY <2>1, <1>4, FlattenWalk
<1> DEFINE S == { i \in Nat : i <= m => f[i] \in Seq(Encodings) /\ Mapped(f[i], Decoding) = g[i] }
<1>6. 0 \in S
  <2>1. f[0] = <<>> /\ g[0] = <<>> /\ <<>> \in Seq(Encodings)
    BY <1>1, <1>5 DEF Gathering
  <2>2. Mapped(<<>>, Decoding) = <<>>
    BY DEF Mapped
  <2> QED BY <2>1, <2>2
<1>7. ASSUME NEW i \in S PROVE i + 1 \in S
  <2> SUFFICES ASSUME i + 1 <= m
               PROVE  f[i + 1] \in Seq(Encodings) /\ Mapped(f[i + 1], Decoding) = g[i + 1]
    OBVIOUS
  <2>1. /\ i \in Nat /\ i + 1 \in 1 .. m /\ (i + 1) - 1 = i /\ i + 1 \in 1 .. m + 1
        /\ f[i] \in Seq(Encodings) /\ Mapped(f[i], Decoding) = g[i]
    BY <1>2
  <2> HIDE DEF S
  <2> DEFINE a == f[i]
             b == RecordsOn(ps[i + 1])
  <2>2. f[i + 1] = a \o b
    BY <2>1, <1>2, <1>5
  <2>3. g[i + 1] = g[i] \o RowsOn(ps[i + 1])
    BY <2>1, <1>1 DEF Gathering
  <2>4. a \in Seq(Encodings) /\ b \in Seq(Encodings)
    BY <2>1, SoundHasRows
  <2> HIDE DEF a, b
  <2>5. a \o b \in Seq(Encodings)
    BY <2>4
  <2>6. Mapped(a \o b, Decoding) = Mapped(a, Decoding) \o Mapped(b, Decoding)
    BY <2>4, MappedConcat
  <2>7. Mapped(b, Decoding) = RowsOn(ps[i + 1]) /\ Mapped(a, Decoding) = g[i]
    BY <2>1 DEF a, b, RowsOn
  <2> QED BY <2>2, <2>3, <2>5, <2>6, <2>7
<1>8. S = Nat
  <2> HIDE DEF S
  <2>1. S \in SUBSET Nat
    BY DEF S
  <2> QED BY <1>6, <1>7, <2>1, EveryRound
<1>9. f[m] \in Seq(Encodings) /\ Mapped(f[m], Decoding) = s
  BY <1>1, <1>2, <1>8
<1>10. FlattenSeq(seqs) = f[m]
  <2>1. f[m + 1] = f[m] \o <<>>
    <3>1. m + 1 \in 1 .. Len(seqs) /\ (m + 1) - 1 = m
      BY <1>2
    <3> QED BY <3>1, <1>2, <1>5
  <2> DEFINE a == f[m]
  <2> HIDE DEF a, S
  <2>2. a \o <<>> = a
    BY <1>9, ConcatEmpty DEF a
  <2> QED BY <2>1, <2>2, <1>2, <1>5 DEF a
<1>11. Rows(SeqScan(t, m)) = Mapped(f[m], Decoding)
  <2> DEFINE a == f[m]
  <2> HIDE DEF a, S, m
  <2>1. \A k \in DOMAIN a : a[k] \in Encodings
    BY <1>9 DEF a
  <2>2. \A k \in DOMAIN a : Decoding[a[k]] = ToValues(Schema, a[k])
    BY <2>1, DecodingFacts
  <2>3. Rows(SeqScan(t, m)) = [k \in DOMAIN a |-> ToValues(Schema, a[k])]
    BY <1>3, <1>10 DEF a, Rows
  <2>4. Mapped(a, Decoding) = [k \in DOMAIN a |-> ToValues(Schema, a[k])]
    BY <2>2 DEF Mapped
  <2> QED BY <2>3, <2>4 DEF a
<1> QED
  BY <1>9, <1>11

-----------------------------------------------------------------------------
(***************************************************************************)
(* Conditions.                                                             *)
(***************************************************************************)

(* What a loop over the numbers has found after the first i: whether all   *)
(* since the last end are good, whether all of the group that e ends are,  *)
(* and whether a group has ended all of whose numbers are.                 *)
OpenGood(i, Ends, Good) == \A j \in 1 .. i : (\A l \in j .. i : l \notin Ends) => j \in Good

AllGood(e, Ends, Good) ==
    \A j \in 1 .. e : (\A l \in j .. e - 1 : l \notin Ends) => j \in Good

EndedGood(i, Ends, Good) == \E e \in 1 .. i : e \in Ends /\ AllGood(e, Ends, Good)

LEMMA NextNumber ==
    ASSUME NEW i \in Nat, NEW Ends, NEW Good
    PROVE  /\ AllGood(i + 1, Ends, Good) <=> OpenGood(i, Ends, Good) /\ i + 1 \in Good
           /\ i + 1 \in Ends => OpenGood(i + 1, Ends, Good)
           /\ i + 1 \notin Ends => (OpenGood(i + 1, Ends, Good) <=> AllGood(i + 1, Ends, Good))
           /\ EndedGood(i + 1, Ends, Good) <=>
                 EndedGood(i, Ends, Good) \/ (i + 1 \in Ends /\ AllGood(i + 1, Ends, Good))
           /\ GoodFromEnd(i + 1, Ends, Good) <=>
                 EndedGood(i, Ends, Good) \/ AllGood(i + 1, Ends, Good)
<1>1. (i + 1) - 1 = i
  OBVIOUS
<1>2. AllGood(i + 1, Ends, Good) => OpenGood(i, Ends, Good) /\ i + 1 \in Good
  <2> SUFFICES ASSUME AllGood(i + 1, Ends, Good) PROVE OpenGood(i, Ends, Good) /\ i + 1 \in Good
    OBVIOUS
  <2>1. \A j \in 1 .. i + 1 : (\A l \in j .. i : l \notin Ends) => j \in Good
    BY <1>1 DEF AllGood
  <2>2. OpenGood(i, Ends, Good)
    BY <2>1 DEF OpenGood
  <2>3. i + 1 \in 1 .. i + 1 /\ \A l \in i + 1 .. i : l \notin Ends
    OBVIOUS
  <2>4. i + 1 \in Good
    BY <2>1, <2>3
  <2> QED BY <2>2, <2>4
<1>3. OpenGood(i, Ends, Good) /\ i + 1 \in Good => AllGood(i + 1, Ends, Good)
  <2> SUFFICES ASSUME OpenGood(i, Ends, Good), i + 1 \in Good, NEW j \in 1 .. i + 1,
                      \A l \in j .. i : l \notin Ends
               PROVE  j \in Good
    BY <1>1 DEF AllGood
  <2>1. j = i + 1 \/ j \in 1 .. i
    OBVIOUS
  <2> QED BY <2>1 DEF OpenGood
<1>4. i + 1 \in Ends => OpenGood(i + 1, Ends, Good)
  <2> SUFFICES ASSUME i + 1 \in Ends, NEW j \in 1 .. i + 1, \A l \in j .. i + 1 : l \notin Ends
               PROVE  j \in Good
    BY DEF OpenGood
  <2>1. i + 1 \in j .. i + 1
    OBVIOUS
  <2> QED BY <2>1
<1>5. ASSUME i + 1 \notin Ends, NEW j \in 1 .. i + 1
      PROVE  (\A l \in j .. i + 1 : l \notin Ends) <=> (\A l \in j .. i : l \notin Ends)
  <2>1. \A l \in j .. i + 1 : l = i + 1 \/ l \in j .. i
    OBVIOUS
  <2>2. \A l \in j .. i : l \in j .. i + 1
    OBVIOUS
  <2> QED BY <1>5, <2>1, <2>2
<1>6. i + 1 \notin Ends => (OpenGood(i + 1, Ends, Good) <=> AllGood(i + 1, Ends, Good))
  BY <1>1, <1>5 DEF OpenGood, AllGood
<1>7. \A e \in 1 .. i + 1 : e \in 1 .. i \/ e = i + 1
  OBVIOUS
<1>8. \A e \in 1 .. i : e \in 1 .. i + 1 /\ e # i + 1
  OBVIOUS
<1>9. i + 1 \in 1 .. i + 1
  OBVIOUS
<1>10. EndedGood(i + 1, Ends, Good) <=>
          EndedGood(i, Ends, Good) \/ (i + 1 \in Ends /\ AllGood(i + 1, Ends, Good))
  BY <1>7, <1>8, <1>9 DEF EndedGood
<1>11. GoodFromEnd(i + 1, Ends, Good) <=>
          \E e \in 1 .. i + 1 : (e \in Ends \/ e = i + 1) /\ AllGood(e, Ends, Good)
  BY DEF GoodFromEnd, AllGood
<1>12. GoodFromEnd(i + 1, Ends, Good) <=>
          EndedGood(i, Ends, Good) \/ AllGood(i + 1, Ends, Good)
  BY <1>7, <1>8, <1>9, <1>11 DEF EndedGood
<1> QED
  BY <1>2, <1>3, <1>4, <1>6, <1>10, <1>12

-----------------------------------------------------------------------------
EndsOf(where) == { i \in 1 .. Len(where) : where[i].next = "or" }

MetBy(schema, row, where) ==
    { i \in 1 .. Len(where) :
        Matches(row[Position(schema, where[i].column)], where[i].operator, where[i].right) }

(* One round of the loop. *)
Round(where, schema, values, so_far, i) ==
    LET group == /\ so_far.group
                 /\ Matches(values[Position(schema, where[i].column)],
                            where[i].operator, where[i].right)
        final == so_far.final \/ group
    IN  IF ~Has(schema, where[i].column) THEN so_far
        ELSE IF where[i].next = "or" THEN [final |-> final, group |-> TRUE]
        ELSE IF i = Len(where) THEN [final |-> final, group |-> group]
        ELSE [so_far EXCEPT !.group = group]

IsLoop(a, m, where, schema, values) ==
    a = [i \in 0 .. m |-> IF i = 0 THEN [final |-> FALSE, group |-> TRUE]
                          ELSE Round(where, schema, values, a[i - 1], i)]

LEMMA LoopExists ==
    ASSUME NEW m \in Nat, NEW where, NEW schema, NEW values
    PROVE  \E a : IsLoop(a, m, where, schema, values)
<1> DEFINE S == { k \in Nat : \E a : IsLoop(a, k, where, schema, values) }
           Start == [final |-> FALSE, group |-> TRUE]
<1>1. 0 \in S
  <2> DEFINE a == [i \in 0 .. 0 |-> Start]
  <2>1. a = [i \in 0 .. 0 |-> IF i = 0 THEN Start ELSE Round(where, schema, values, a[i - 1], i)]
    OBVIOUS
  <2> HIDE DEF a
  <2>2. IsLoop(a, 0, where, schema, values)
    BY <2>1 DEF IsLoop
  <2> QED BY <2>2
<1>2. ASSUME NEW k \in S PROVE k + 1 \in S
  <2>1. PICK a : IsLoop(a, k, where, schema, values)
    OBVIOUS
  <2>2. k \in Nat
    OBVIOUS
  <2> DEFINE x == [i \in 0 .. k + 1 |->
                     IF i = k + 1 THEN Round(where, schema, values, a[k], i) ELSE a[i]]
  <2>3. (\A i \in 0 .. k : x[i] = a[i]) /\ x[k + 1] = Round(where, schema, values, a[k], k + 1)
    BY <2>2
  <2>4. x = [i \in 0 .. k + 1 |-> x[i]]
    OBVIOUS
  <2> HIDE DEF x, Start
  <2>5. \A i \in 0 .. k : a[i] = IF i = 0 THEN Start ELSE Round(where, schema, values, a[i - 1], i)
    BY <2>1 DEF IsLoop, Start
  <2>6. ASSUME NEW i \in 0 .. k + 1
        PROVE  x[i] = IF i = 0 THEN Start ELSE Round(where, schema, values, x[i - 1], i)
    <3>1. CASE i = k + 1
      <4>1. k \in 0 .. k /\ i - 1 = k /\ i # 0
        BY <2>2, <3>1
      <4> QED BY <3>1, <4>1, <2>3
    <3>2. CASE i # k + 1 /\ i # 0
      <4>1. i \in 0 .. k /\ i - 1 \in 0 .. k
        BY <2>2, <3>2
      <4> QED BY <3>2, <4>1, <2>3, <2>5
    <3>3. CASE i # k + 1 /\ i = 0
      <4>1. i \in 0 .. k
        BY <2>2, <3>3
      <4> QED BY <3>3, <4>1, <2>3, <2>5
    <3> QED BY <3>1, <3>2, <3>3
  <2>7. x = [i \in 0 .. k + 1 |-> IF i = 0 THEN Start ELSE Round(where, schema, values, x[i - 1], i)]
    BY <2>4, <2>6
  <2>8. IsLoop(x, k + 1, where, schema, values)
    BY <2>7 DEF IsLoop, Start
  <2> QED BY <2>2, <2>8
<1>3. S = Nat
  <2> HIDE DEF S
  <2>1. S \in SUBSET Nat
    BY DEF S
  <2> QED BY <1>1, <1>2, <2>1, EveryRound
<1>4. m \in S
  BY <1>3
<1> QED
  BY <1>4

LEMMA LoopRounds ==
    ASSUME NEW where, Len(where) \in Nat, NEW schema, NEW values
    PROVE  \E a : /\ a[0] = [final |-> FALSE, group |-> TRUE]
                  /\ \A i \in 1 .. Len(where) : a[i] = Round(where, schema, values, a[i - 1], i)
                  /\ EvaluateWhereClause(where, schema, values) <=>
                        where = <<>> \/ a[Len(where)].final
<1> DEFINE a == CHOOSE x : IsLoop(x, Len(where), where, schema, values)
<1>1. IsLoop(a, Len(where), where, schema, values)
  BY LoopExists
<1>2. EvaluateWhereClause(where, schema, values) <=> where = <<>> \/ a[Len(where)].final
  BY DEF EvaluateWhereClause, IsLoop, Round
<1> HIDE DEF a
<1>3. \A i \in 0 .. Len(where) :
         a[i] = IF i = 0 THEN [final |-> FALSE, group |-> TRUE]
                ELSE Round(where, schema, values, a[i - 1], i)
  BY <1>1 DEF IsLoop
<1>4. a[0] = [final |-> FALSE, group |-> TRUE]
  BY <1>3
<1>5. \A i \in 1 .. Len(where) : a[i] = Round(where, schema, values, a[i - 1], i)
  <2> TAKE i \in 1 .. Len(where)
  <2>1. i \in 0 .. Len(where) /\ i # 0
    OBVIOUS
  <2> QED BY <1>3, <2>1
<1> QED
  BY <1>2, <1>4, <1>5

-----------------------------------------------------------------------------
LEMMA OneRound ==
    ASSUME NEW where, NEW schema, NEW values, NEW b, NEW i, Has(schema, where[i].column),
           b = [final |-> b.final, group |-> b.group],
           NEW c, c = Round(where, schema, values, b, i),
           NEW met, met <=> Matches(values[Position(schema, where[i].column)],
                                    where[i].operator, where[i].right)
    PROVE  /\ where[i].next = "or" \/ i = Len(where) =>
                 (c.final <=> b.final \/ (b.group /\ met))
           /\ where[i].next # "or" /\ i # Len(where) => (c.final <=> b.final)
           /\ where[i].next = "or" => c.group
           /\ where[i].next # "or" => (c.group <=> b.group /\ met)
           /\ c = [final |-> c.final, group |-> c.group]
<1> DEFINE M == Matches(values[Position(schema, where[i].column)],
                        where[i].operator, where[i].right)
           group == b.group /\ M
           final == b.final \/ group
<1>1. c = IF where[i].next = "or" THEN [final |-> final, group |-> TRUE]
          ELSE IF i = Len(where) THEN [final |-> final, group |-> group]
          ELSE [b EXCEPT !.group = group]
  BY DEF Round
<1>2. M <=> met
  OBVIOUS
<1> HIDE DEF M
<1>3. CASE where[i].next = "or"
  <2>1. c = [final |-> final, group |-> TRUE]
    BY <1>1, <1>3
  <2>2. c.final = final /\ c.group = TRUE
    BY <2>1
  <2> QED BY <1>2, <1>3, <2>1, <2>2
<1>4. CASE where[i].next # "or" /\ i = Len(where)
  <2>1. c = [final |-> final, group |-> group]
    BY <1>1, <1>4
  <2>2. c.final = final /\ c.group = group
    BY <2>1
  <2> QED BY <1>2, <1>4, <2>1, <2>2
<1>5. CASE where[i].next # "or" /\ i # Len(where)
  <2>1. c = [b EXCEPT !.group = group]
    BY <1>1, <1>5
  <2>2. c = [final |-> b.final, group |-> group]
    BY <2>1
  <2>3. c.final = b.final /\ c.group = group
    BY <2>2
  <2> QED BY <1>2, <1>5, <2>2, <2>3
<1> QED
  BY <1>3, <1>4, <1>5

LEMMA LoopFinds ==
    ASSUME NEW where, Len(where) \in Nat, NEW schema, NEW values,
           \A i \in 1 .. Len(where) : Has(schema, where[i].column)
    PROVE  EvaluateWhereClause(where, schema, values) <=>
              where = <<>> \/ (Len(where) # 0 /\ GoodFromEnd(Len(where), EndsOf(where), MetBy(schema, values, where)))
<1> DEFINE n == Len(where)
           Ends == EndsOf(where)
           Good == MetBy(schema, values, where)
<1>1. PICK a : /\ a[0] = [final |-> FALSE, group |-> TRUE]
               /\ \A i \in 1 .. n : a[i] = Round(where, schema, values, a[i - 1], i)
               /\ EvaluateWhereClause(where, schema, values) <=> where = <<>> \/ a[n].final
  BY LoopRounds
<1> DEFINE Found(i) == /\ a[i] = [final |-> a[i].final, group |-> a[i].group]
                       /\ a[i].final <=> EndedGood(i, Ends, Good)
                       /\ a[i].group <=> OpenGood(i, Ends, Good)
           S == { i \in Nat : i < n => Found(i) }
<1>2. ASSUME NEW i \in Nat, i + 1 <= n, Found(i)
      PROVE  /\ i + 1 < n => Found(i + 1)
             /\ i + 1 = n => (a[n].final <=> GoodFromEnd(n, Ends, Good))
  <2> DEFINE k == i + 1
             b == a[i]
             c == a[k]
             met == Matches(values[Position(schema, where[k].column)],
                            where[k].operator, where[k].right)
  <2>1. k \in 1 .. n /\ k - 1 = i
    BY <1>2
  <2>2. c = Round(where, schema, values, b, k)
    BY <1>1, <2>1
  <2>3. /\ k \in Ends <=> where[k].next = "or"
        /\ k \in Good <=> met
    BY <2>1 DEF EndsOf, MetBy
  <2>4. /\ b = [final |-> b.final, group |-> b.group]
        /\ b.final <=> EndedGood(i, Ends, Good)
        /\ b.group <=> OpenGood(i, Ends, Good)
    BY <1>2
  <2>5. Has(schema, where[k].column)
    BY <2>1
  <2>6. /\ AllGood(k, Ends, Good) <=> OpenGood(i, Ends, Good) /\ k \in Good
        /\ k \in Ends => OpenGood(k, Ends, Good)
        /\ k \notin Ends => (OpenGood(k, Ends, Good) <=> AllGood(k, Ends, Good))
        /\ EndedGood(k, Ends, Good) <=>
              EndedGood(i, Ends, Good) \/ (k \in Ends /\ AllGood(k, Ends, Good))
        /\ GoodFromEnd(k, Ends, Good) <=>
              EndedGood(i, Ends, Good) \/ AllGood(k, Ends, Good)
    <3> HIDE DEF Ends, Good
    <3> QED BY NextNumber
  <2>8. k < n \/ k = n
    BY <1>2
  <2>9. k < n => k # n
    BY <2>1
  <2> HIDE DEF k, b, c, met, Ends, Good, n
  <2>7. /\ where[k].next = "or" \/ k = n => (c.final <=> b.final \/ (b.group /\ met))
        /\ where[k].next # "or" /\ k # n => (c.final <=> b.final)
        /\ where[k].next = "or" => c.group
        /\ where[k].next # "or" => (c.group <=> b.group /\ met)
        /\ c = [final |-> c.final, group |-> c.group]
    <3>1. met <=> Matches(values[Position(schema, where[k].column)],
                          where[k].operator, where[k].right)
      BY DEF met
    <3> QED BY <3>1, <2>2, <2>4, <2>5, OneRound DEF n
  <2>10. k < n => /\ c = [final |-> c.final, group |-> c.group]
                  /\ c.final <=> EndedGood(k, Ends, Good)
                  /\ c.group <=> OpenGood(k, Ends, Good)
    BY <2>3, <2>4, <2>6, <2>7, <2>9
  <2>11. k = n => (c.final <=> GoodFromEnd(k, Ends, Good))
    BY <2>3, <2>4, <2>6, <2>7
  <2> QED BY <2>10, <2>11 DEF k, c
<1>3. n > 0 => Found(0)
  <2>1. a[0].final = FALSE /\ a[0].group = TRUE /\ a[0] = [final |-> a[0].final, group |-> a[0].group]
    BY <1>1
  <2>2. ~ EndedGood(0, Ends, Good) /\ OpenGood(0, Ends, Good)
    BY DEF EndedGood, OpenGood
  <2> QED BY <2>1, <2>2
<1> HIDE DEF Ends, Good
<1>4. S = Nat
  <2>1. 0 \in S
    BY <1>3
  <2>2. ASSUME NEW i \in S PROVE i + 1 \in S
    <3>1. i \in Nat /\ (i < n => Found(i))
      OBVIOUS
    <3> HIDE DEF Found
    <3>2. i + 1 < n => i < n /\ i + 1 <= n
      BY <3>1
    <3>3. i + 1 < n => Found(i + 1)
      BY <3>1, <3>2, <1>2
    <3> QED BY <3>1, <3>3
  <2>3. S \in SUBSET Nat
    OBVIOUS
  <2> HIDE DEF S
  <2> QED BY <2>1, <2>2, <2>3, EveryRound
<1>5. n # 0 => (a[n].final <=> GoodFromEnd(n, Ends, Good))
  <2> SUFFICES ASSUME n # 0 PROVE a[n].final <=> GoodFromEnd(n, Ends, Good)
    OBVIOUS
  <2>1. n - 1 \in Nat /\ n - 1 < n /\ (n - 1) + 1 = n
    OBVIOUS
  <2>2. n - 1 \in S
    <3> HIDE DEF S, n
    <3> QED BY <1>4, <2>1
  <2>3. Found(n - 1)
    <3> HIDE DEF Found
    <3> QED BY <2>1, <2>2
  <2>4. (n - 1) + 1 <= n
    BY <2>1
  <2> HIDE DEF Found, S, n
  <2> QED BY <1>2, <2>1, <2>3, <2>4
<1>6. n = 0 => (where = <<>> \/ a[n].final <=> where = <<>>)
  <2>1. a[0].final = FALSE
    BY <1>1
  <2> QED BY <2>1
<1> HIDE DEF n
<1>7. EvaluateWhereClause(where, schema, values) <=> where = <<>> \/ (n # 0 /\ GoodFromEnd(n, Ends, Good))
  BY <1>1, <1>5, <1>6
<1> QED
  BY <1>7 DEF n, Ends, Good

LEMMA GroupsFound ==
    ASSUME NEW schema, NEW row, NEW where, Len(where) \in Nat, DOMAIN where = 1 .. Len(where)
    PROVE  (\E group \in Groups(where) : \A i \in group :
               Matches(row[Position(schema, where[i].column)], where[i].operator, where[i].right))
             <=> GoodFromStart(Len(where), EndsOf(where), MetBy(schema, row, where))
<1> DEFINE n == Len(where)
           Ends == EndsOf(where)
           Good == MetBy(schema, row, where)
           Met(i) == Matches(row[Position(schema, where[i].column)],
                             where[i].operator, where[i].right)
           Starts == { i \in 1 .. n : i = 1 \/ where[i - 1].next = "or" }
           GroupOf(s) == { i \in s .. n : \A j \in s .. i - 1 : where[j].next # "or" }
<1>1. Groups(where) = { GroupOf(s) : s \in Starts }
  BY DEF Groups
<1>2. \A i \in 1 .. n : (i \in Ends <=> where[i].next = "or") /\ (i \in Good <=> Met(i))
  BY DEF EndsOf, MetBy
<1>3. \A s \in 1 .. n : s \in Starts <=> s = 1 \/ s - 1 \in Ends
  <2> TAKE s \in 1 .. n
  <2>1. CASE s = 1
    BY <2>1
  <2>2. CASE s # 1
    <3>1. s - 1 \in 1 .. n
      BY <2>2
    <3> HIDE DEF Ends, Good, Met
    <3> QED BY <2>2, <3>1, <1>2
  <2> QED BY <2>1, <2>2
<1>4. ASSUME NEW s \in 1 .. n, NEW i \in s .. n
      PROVE  i \in GroupOf(s) <=> \A j \in s .. i - 1 : j \notin Ends
  <2>1. \A j \in s .. i - 1 : j \in 1 .. n
    OBVIOUS
  <2> HIDE DEF Ends, Good, Met
  <2> QED BY <2>1, <1>2
<1>5. \A s \in Starts : s \in 1 .. n /\ \A i \in GroupOf(s) : i \in s .. n /\ i \in 1 .. n
  OBVIOUS
<1>6. \A s \in 1 .. n : \A i \in s .. n : i \in 1 .. n
  OBVIOUS
<1> HIDE DEF Ends, Good, Met, Starts, GroupOf, n
<1>7. (\E s \in Starts : \A i \in GroupOf(s) : Met(i)) <=> GoodFromStart(n, Ends, Good)
  <2>1. ASSUME NEW s \in Starts
        PROVE  (\A i \in GroupOf(s) : Met(i)) <=>
                  \A i \in s .. n : (\A j \in s .. i - 1 : j \notin Ends) => i \in Good
    BY <1>2, <1>4, <1>5, <1>6
  <2> QED BY <2>1, <1>3, <1>5 DEF GoodFromStart
<1>8. (\E group \in Groups(where) : \A i \in group : Met(i)) <=> GoodFromStart(n, Ends, Good)
  BY <1>1, <1>7
<1> QED
  BY <1>8 DEF n, Ends, Good, Met

(* The loop over the conditions of a WHERE, with the two flags it keeps,   *)
(* computes what they mean: some group of conditions between ORs of which  *)
(* all are met; for every list of conditions on columns that exist         *)
(* (predicate.rs, evaluate_where_clause).                                  *)
THEOREM ConditionsAreEvaluated ==
    ASSUME NEW where, Len(where) \in Nat, DOMAIN where = 1 .. Len(where), NEW schema, NEW row,
           \A i \in 1 .. Len(where) : Has(schema, where[i].column)
    PROVE  EvaluateWhereClause(where, schema, row) <=> Meets(schema, row, where)
<1> DEFINE n == Len(where)
           Ends == EndsOf(where)
           Good == MetBy(schema, row, where)
<1>1. EvaluateWhereClause(where, schema, row) <=>
         where = <<>> \/ (n # 0 /\ GoodFromEnd(n, Ends, Good))
  BY LoopFinds
<1>2. Meets(schema, row, where) <=> where = <<>> \/ GoodFromStart(n, Ends, Good)
  BY GroupsFound DEF Meets
<1>3. n \in Nat
  OBVIOUS
<1>4. GoodFromStart(n, Ends, Good) => n # 0
  BY <1>3 DEF GoodFromStart
<1> HIDE DEF n, Ends, Good
<1> QED
  BY <1>1, <1>2, <1>3, <1>4, GroupsFromTheirEnds

-----------------------------------------------------------------------------
(***************************************************************************)
(* What the statements do to one page.                                     *)
(***************************************************************************)

(* The record of a row is at a slot. *)
Holds(page, slot, row) == HasRecord(page, slot) /\ ValuesAt(page, slot) = row

LEMMA SlotsOfPage ==
    ASSUME NEW page, NEW n, NEW off, NEW rows, NEW marks, PageHas(page, n, off, rows, marks)
    PROVE  /\ TotalSlots(page) = n /\ n \in Nat
           /\ \A slot \in Nat : slot < n =>
                 /\ HasRecord(page, slot) <=> marks[slot + 1] = 0
                 /\ ValuesAt(page, slot) = rows[slot + 1]
                 /\ rows[slot + 1] \in Tuples
           /\ \A slot \in Nat : ~ (slot < n) => ~ HasRecord(page, slot)
<1>1. /\ TotalSlots(page) = n
      /\ \A i \in 1 .. n :
            /\ Slot(page, i - 1) = [offset |-> off[i], length |-> RoomOf(rows[i])]
            /\ HasRecord(page, i - 1) <=> marks[i] = 0
            /\ Record(page, i - 1) = TupleFor(rows[i])
            /\ ValuesAt(page, i - 1) = rows[i]
  BY PageReads
<1>2. n \in Nat /\ rows \in [1 .. n -> Tuples]
  BY DEF PageHas, BackToBack
<1>3. ASSUME NEW slot \in Nat, slot < n
      PROVE  /\ HasRecord(page, slot) <=> marks[slot + 1] = 0
             /\ ValuesAt(page, slot) = rows[slot + 1]
             /\ rows[slot + 1] \in Tuples
  <2>1. slot + 1 \in 1 .. n /\ (slot + 1) - 1 = slot
    BY <1>2, <1>3
  <2> QED BY <1>1, <1>2, <2>1
<1>4. \A slot \in Nat : ~ (slot < n) => ~ HasRecord(page, slot)
  BY <1>1 DEF HasRecord
<1> QED
  BY <1>1, <1>2, <1>3, <1>4

LEMMA InsertedRows ==
    ASSUME NEW page, Sound(page), NEW row \in Tuples, HasRoom(page, TupleFor(row).len),
           NEW ins, ins = InsertRecord(page, TupleFor(row))
    PROVE  /\ Sound(ins)
           /\ RowsOn(ins) = Append(RowsOn(page), row)
           /\ TotalSlots(page) \in Nat
           /\ Holds(ins, TotalSlots(page), row)
           /\ \A slot \in Nat, held \in Tuples : Holds(page, slot, held) => Holds(ins, slot, held)
<1>1. PICK n, off, rows, marks : PageHas(page, n, off, rows, marks)
  BY DEF Sound
<1>2. n \in Nat /\ rows \in [1 .. n -> Tuples] /\ marks \in [1 .. n -> {0, 999}]
  BY <1>1 DEF PageHas, BackToBack
<1> DEFINE off2 == [i \in 0 .. n + 1 |-> IF i = n + 1 THEN off[n] - RoomOf(row) ELSE off[i]]
           rows2 == [i \in 1 .. n + 1 |-> IF i = n + 1 THEN row ELSE rows[i]]
           marks2 == [i \in 1 .. n + 1 |-> IF i = n + 1 THEN 0 ELSE marks[i]]
<1>3. PageHas(ins, n + 1, off2, rows2, marks2)
  BY <1>1, InsertedPage
<1>4. /\ rows2[n + 1] = row /\ marks2[n + 1] = 0
      /\ \A i \in 1 .. n : rows2[i] = rows[i] /\ marks2[i] = marks[i]
      /\ DOMAIN rows2 = 1 .. n + 1
  BY <1>2
<1>5. rows2 = Append(rows, row)
  <2>1. rows \in Seq(Tuples) /\ Len(rows) = n
    BY <1>2
  <2>2. /\ Append(rows, row) \in Seq(Tuples) /\ Len(Append(rows, row)) = n + 1
        /\ \A i \in 1 .. n : Append(rows, row)[i] = rows[i]
        /\ Append(rows, row)[n + 1] = row
    BY <2>1, AppendEntries
  <2>3. rows2 \in Seq(Tuples) /\ Len(rows2) = n + 1
    BY <1>2
  <2>4. \A i \in 1 .. n + 1 : rows2[i] = Append(rows, row)[i]
    <3>1. \A i \in 1 .. n + 1 : i \in 1 .. n \/ i = n + 1
      BY <1>2
    <3> HIDE DEF rows2
    <3> QED BY <3>1, <2>2, <1>4
  <2> DEFINE y == Append(rows, row)
  <2> HIDE DEF rows2, y
  <2> QED BY <2>2, <2>3, <2>4, SameEntries DEF y
<1> HIDE DEF off2, rows2, marks2
<1>6. RowsOn(ins) = LiveRows(rows2, marks2) /\ RowsOn(page) = LiveRows(rows, marks)
  BY <1>1, <1>3, RowsOfPage
<1>7. LiveRows(rows2, marks2) = Append(LiveRows(rows, marks), row)
  <2> DEFINE P == { i \in DOMAIN rows2 : marks2[i] = 0 }
             Q == { i \in DOMAIN rows : marks[i] = 0 }
  <2>1. rows \in Seq(Tuples) /\ Len(rows) = n /\ DOMAIN rows = 1 .. n
    BY <1>2
  <2>2. Len(rows) + 1 \in P
    BY <1>2, <1>4, <2>1
  <2>3. \A i \in 1 .. Len(rows) : i \in P <=> i \in Q
    BY <1>2, <1>4, <2>1
  <2> HIDE DEF P, Q
  <2>4. Picked(rows, P) = Picked(rows, Q)
    BY <2>1, <2>3, PickedAgree
  <2>5. Picked(Append(rows, row), P) = Append(Picked(rows, P), row)
    BY <2>1, <2>2, PickedAppend
  <2> QED BY <1>5, <2>4, <2>5 DEF LiveRows, P, Q
<1>8. /\ TotalSlots(page) = n
      /\ \A slot \in Nat : slot < n =>
            /\ HasRecord(page, slot) <=> marks[slot + 1] = 0
            /\ ValuesAt(page, slot) = rows[slot + 1]
            /\ rows[slot + 1] \in Tuples
      /\ \A slot \in Nat : ~ (slot < n) => ~ HasRecord(page, slot)
  BY <1>1, SlotsOfPage
<1>9. \A slot \in Nat : slot < n + 1 =>
            /\ HasRecord(ins, slot) <=> marks2[slot + 1] = 0
            /\ ValuesAt(ins, slot) = rows2[slot + 1]
            /\ rows2[slot + 1] \in Tuples
  BY <1>3, SlotsOfPage
<1>10. Holds(ins, n, row)
  <2>1. n < n + 1
    BY <1>2
  <2> QED BY <1>2, <1>4, <1>9, <2>1 DEF Holds
<1>11. ASSUME NEW slot \in Nat, NEW held \in Tuples, Holds(page, slot, held)
       PROVE  Holds(ins, slot, held)
  <2>1. slot < n
    BY <1>8, <1>11 DEF Holds
  <2>2. slot < n + 1 /\ slot + 1 \in 1 .. n
    BY <1>2, <2>1
  <2> QED BY <1>4, <1>8, <1>9, <1>11, <2>1, <2>2 DEF Holds
<1>12. Sound(ins)
  BY <1>3 DEF Sound
<1> QED
  BY <1>2, <1>6, <1>7, <1>8, <1>10, <1>11, <1>12

LEMMA EmptySound == Sound(EmptyPage) /\ RowsOn(EmptyPage) = <<>> /\ TotalSlots(EmptyPage) = 0
<1> DEFINE off == [i \in 0 .. 0 |-> PAGE_SIZE]
           rows == [i \in 1 .. 0 |-> <<>>]
           marks == [i \in 1 .. 0 |-> 0]
<1>1. PageHas(EmptyPage, 0, off, rows, marks)
  BY EmptyPageHas
<1>2. rows = <<>>
  OBVIOUS
<1> HIDE DEF off, rows, marks
<1>3. RowsOn(EmptyPage) = LiveRows(rows, marks)
  BY <1>1, RowsOfPage
<1>4. LiveRows(rows, marks) = <<>>
  BY <1>2, PickedEmpty DEF LiveRows
<1>5. TotalSlots(EmptyPage) = 0
  BY <1>1, SlotsOfPage
<1> QED
  BY <1>1, <1>3, <1>4, <1>5 DEF Sound

(* No page has more room than an empty one. *)
LEMMA RoomIsFree ==
    ASSUME NEW page, NEW n, NEW off, NEW rows, NEW marks, PageHas(page, n, off, rows, marks),
           NEW row \in Tuples
    PROVE  /\ HasRoom(page, TupleFor(row).len) <=>
                 off[n] - SlotAt(n) >= TupleHeaderSize + TupleFor(row).len + SlotSize
           /\ off[n] \in Nat /\ SlotAt(n) \in Nat /\ off[n] <= PAGE_SIZE /\ 16 <= SlotAt(n)
           /\ SlotAt(n) <= off[n]
<1>1. BackToBack(n, off, rows)
  BY DEF PageHas
<1>2. /\ \A i \in 0 .. n : off[i] \in Nat /\ off[i] <= PAGE_SIZE
      /\ SlotAt(n) \in Nat /\ SlotAt(n) <= off[n] /\ off[n] < 65536
  BY <1>1, Offsets
<1>3. n \in 0 .. n /\ 16 <= SlotAt(n)
  BY <1>1 DEF BackToBack, SlotAt, PageHeaderSize, SlotSize
<1>4. Header(page) = [total_slots |-> n, lower |-> SlotAt(n), upper |-> off[n]]
  BY PageReads
<1> DEFINE len == TupleFor(row).len
           free == off[n] - SlotAt(n)
<1>5. len \in Nat /\ len < 65516
  BY TupleFacts
<1>6. free \in Nat /\ free < 65536
  BY <1>2, <1>3
<1>7. U16(free) = free
  <2> HIDE DEF free
  <2> QED BY <1>6 DEF U16
<1>8. U16(TupleHeaderSize + len + SlotSize) = TupleHeaderSize + len + SlotSize
  <2> HIDE DEF len
  <2> QED BY <1>5 DEF U16, TupleHeaderSize, SlotSize
<1>9. FreeSpace(page) = free
  BY <1>4, <1>7 DEF FreeSpace
<1> QED
  BY <1>2, <1>3, <1>8, <1>9 DEF HasRoom

LEMMA EmptyHasMostRoom ==
    ASSUME NEW page, Sound(page), NEW row \in Tuples, HasRoom(page, TupleFor(row).len)
    PROVE  HasRoom(EmptyPage, TupleFor(row).len)
<1>1. PICK n, off, rows, marks : PageHas(page, n, off, rows, marks)
  BY DEF Sound
<1> DEFINE off0 == [i \in 0 .. 0 |-> PAGE_SIZE]
           rows0 == [i \in 1 .. 0 |-> <<>>]
           marks0 == [i \in 1 .. 0 |-> 0]
<1>2. PageHas(EmptyPage, 0, off0, rows0, marks0) /\ off0[0] = PAGE_SIZE /\ SlotAt(0) = 16
  BY EmptyPageHas DEF SlotAt, PageHeaderSize, SlotSize
<1> HIDE DEF off0, rows0, marks0
<1>3. HasRoom(EmptyPage, TupleFor(row).len) <=>
         PAGE_SIZE - 16 >= TupleHeaderSize + TupleFor(row).len + SlotSize
  BY <1>2, RoomIsFree
<1>4. /\ off[n] - SlotAt(n) >= TupleHeaderSize + TupleFor(row).len + SlotSize
      /\ off[n] \in Nat /\ SlotAt(n) \in Nat /\ off[n] <= PAGE_SIZE /\ 16 <= SlotAt(n)
  BY <1>1, RoomIsFree
<1>5. TupleFor(row).len \in Nat /\ PAGE_SIZE \in Nat
  BY TupleFacts, Sizes
<1> DEFINE need == TupleHeaderSize + TupleFor(row).len + SlotSize
<1>6. need \in Nat
  BY <1>5 DEF TupleHeaderSize, SlotSize
<1> HIDE DEF need
<1>7. off[n] - SlotAt(n) <= PAGE_SIZE - 16
  BY <1>4, <1>5
<1>8. PAGE_SIZE - 16 >= need
  <2>1. off[n] - SlotAt(n) >= need
    BY <1>4 DEF need
  <2> QED BY <2>1, <1>4, <1>5, <1>6, <1>7
<1> QED
  BY <1>3, <1>8 DEF need

-----------------------------------------------------------------------------
(* The rows that stay. *)
Staying(where) == { row \in Tuples : ~ Meets(Schema, row, where) }

LEMMA WhereEvaluated ==
    ASSUME NEW where \in Wheres, NEW row \in Tuples
    PROVE  EvaluateWhereClause(where, Schema, row) <=> row \notin Staying(where)
<1>1. IsSequence(where) /\ \A i \in DOMAIN where : Has(Schema, where[i].column)
  BY WhereAssumption
<1>2. Len(where) \in Nat /\ DOMAIN where = 1 .. Len(where)
  BY <1>1 DEF IsSequence
<1>3. EvaluateWhereClause(where, Schema, row) <=> Meets(Schema, row, where)
  BY <1>1, <1>2, ConditionsAreEvaluated
<1> QED
  BY <1>3 DEF Staying

LEMMA WithoutRows ==
    ASSUME NEW page, Sound(page), NEW where \in Wheres,
           NEW w, w = WithoutSlots(page, SlotsToDelete(page, where))
    PROVE  /\ Sound(w)
           /\ RowsOn(w) = Only(RowsOn(page), Staying(where))
           /\ \A slot \in Nat, held \in Staying(where) : Holds(page, slot, held) => Holds(w, slot, held)
<1>1. PICK n, off, rows, marks : PageHas(page, n, off, rows, marks)
  BY DEF Sound
<1>2. n \in Nat /\ rows \in [1 .. n -> Tuples] /\ marks \in [1 .. n -> {0, 999}]
  BY <1>1 DEF PageHas, BackToBack
<1> DEFINE slots == SlotsToDelete(page, where)
           K == Staying(where)
           marks2 == [k \in 1 .. n |-> IF k - 1 \in slots THEN 999 ELSE marks[k]]
<1>3. PageHas(w, n, off, rows, marks2)
  BY <1>1, WithoutSlotsPage
<1>4. /\ TotalSlots(page) = n
      /\ \A slot \in Nat : slot < n =>
            /\ HasRecord(page, slot) <=> marks[slot + 1] = 0
            /\ ValuesAt(page, slot) = rows[slot + 1]
            /\ rows[slot + 1] \in Tuples
      /\ \A slot \in Nat : ~ (slot < n) => ~ HasRecord(page, slot)
  BY <1>1, SlotsOfPage
<1>5. \A k \in 1 .. n : k - 1 \in slots <=> marks[k] = 0 /\ rows[k] \notin K
  <2> TAKE k \in 1 .. n
  <2>1. k - 1 \in Nat /\ k - 1 < n /\ (k - 1) + 1 = k /\ k - 1 \in 0 .. n - 1
    BY <1>2
  <2>2. /\ HasRecord(page, k - 1) <=> marks[k] = 0
        /\ ValuesAt(page, k - 1) = rows[k] /\ rows[k] \in Tuples
    BY <1>4, <2>1
  <2>3. EvaluateWhereClause(where, Schema, rows[k]) <=> rows[k] \notin K
    <3> HIDE DEF K
    <3> QED BY <2>2, WhereEvaluated DEF K
  <2>4. k - 1 \in LiveSlots(page) <=> HasRecord(page, k - 1)
    BY <1>4, <2>1 DEF LiveSlots
  <2> QED BY <2>2, <2>3, <2>4 DEF SlotsToDelete
<1>6. \A k \in 1 .. n : marks2[k] = 0 <=> marks[k] = 0 /\ rows[k] \in K
  <2> HIDE DEF slots, K
  <2> QED BY <1>2, <1>5
<1> HIDE DEF slots, K, marks2
<1>7. RowsOn(w) = LiveRows(rows, marks2) /\ RowsOn(page) = LiveRows(rows, marks)
  BY <1>1, <1>3, RowsOfPage
<1>8. LiveRows(rows, marks2) = Only(LiveRows(rows, marks), K)
  <2> DEFINE P == { i \in DOMAIN rows : marks[i] = 0 }
             Q == { i \in DOMAIN rows : marks2[i] = 0 }
             R == PlacesIn(rows, P, K)
  <2>1. rows \in Seq(Tuples) /\ DOMAIN rows = 1 .. n
    BY <1>2
  <2>2. Q = R
    BY <1>6, <2>1 DEF PlacesIn
  <2> HIDE DEF P, Q
  <2>3. Only(Picked(rows, P), K) = Picked(rows, R)
    BY <2>1, PickedOnly
  <2> QED BY <2>2, <2>3 DEF LiveRows, P, Q
<1>9. \A slot \in Nat : slot < n =>
            /\ HasRecord(w, slot) <=> marks2[slot + 1] = 0
            /\ ValuesAt(w, slot) = rows[slot + 1]
            /\ rows[slot + 1] \in Tuples
  BY <1>3, SlotsOfPage
<1>10. ASSUME NEW slot \in Nat, NEW held \in K, Holds(page, slot, held)
       PROVE  Holds(w, slot, held)
  <2>1. slot < n
    BY <1>4, <1>10 DEF Holds
  <2>2. slot + 1 \in 1 .. n
    BY <1>2, <2>1
  <2> QED BY <1>4, <1>6, <1>9, <1>10, <2>1, <2>2 DEF Holds
<1>11. Sound(w)
  BY <1>3 DEF Sound
<1> QED
  BY <1>7, <1>8, <1>10, <1>11 DEF K

(* The rows of a page are those at its slots. *)
LEMMA RowsAtSlots ==
    ASSUME NEW page, Sound(page), NEW row
    PROVE  (\E k \in 1 .. Len(RowsOn(page)) : RowsOn(page)[k] = row)
              <=> \E slot \in LiveSlots(page) : ValuesAt(page, slot) = row
<1>1. PICK n, off, rows, marks : PageHas(page, n, off, rows, marks)
  BY DEF Sound
<1>2. n \in Nat /\ rows \in Seq(Tuples) /\ Len(rows) = n /\ DOMAIN rows = 1 .. n
  BY <1>1 DEF PageHas, BackToBack
<1> DEFINE P == { i \in DOMAIN rows : marks[i] = 0 }
           v == RowsOn(page)
<1>3. v = Picked(rows, P)
  <2>1. v = LiveRows(rows, marks)
    BY <1>1, RowsOfPage
  <2> QED BY <2>1 DEF LiveRows
<1>4. /\ TotalSlots(page) = n
      /\ \A slot \in Nat : slot < n =>
            /\ HasRecord(page, slot) <=> marks[slot + 1] = 0
            /\ ValuesAt(page, slot) = rows[slot + 1]
            /\ rows[slot + 1] \in Tuples
      /\ \A slot \in Nat : ~ (slot < n) => ~ HasRecord(page, slot)
  BY <1>1, SlotsOfPage
<1>5. \A i : i \in P <=> i \in 1 .. n /\ marks[i] = 0
  BY <1>2
<1> HIDE DEF P, v
<1>6. PICK at \in [1 .. Len(v) -> 1 .. Len(rows)] :
         /\ \A k \in 1 .. Len(v) : at[k] \in P /\ v[k] = rows[at[k]]
         /\ \A i \in 1 .. Len(rows) : i \in P => \E k \in 1 .. Len(v) : at[k] = i
  <2>1. rows \in Seq(Tuples)
    BY <1>2
  <2>2. /\ Picked(rows, P) \in Seq(Tuples)
        /\ \E at \in [1 .. Len(Picked(rows, P)) -> 1 .. Len(rows)] :
              /\ \A k \in 1 .. Len(Picked(rows, P)) :
                    at[k] \in P /\ Picked(rows, P)[k] = rows[at[k]]
              /\ \A i \in 1 .. Len(rows) : i \in P =>
                    \E k \in 1 .. Len(Picked(rows, P)) : at[k] = i
              /\ \A k, l \in 1 .. Len(Picked(rows, P)) : at[k] = at[l] => k = l
    BY <2>1, PickedPlaces
  <2> QED BY <1>3, <2>2
<1>7. ASSUME NEW k \in 1 .. Len(v), v[k] = row
      PROVE  \E slot \in LiveSlots(page) : ValuesAt(page, slot) = row
  <2>1. at[k] \in 1 .. n /\ marks[at[k]] = 0 /\ rows[at[k]] = row
    BY <1>5, <1>6, <1>7
  <2> DEFINE slot == at[k] - 1
  <2>2. slot \in Nat /\ slot < n /\ slot + 1 = at[k] /\ slot \in 0 .. n - 1
    BY <1>2, <2>1
  <2> HIDE DEF slot
  <2>3. HasRecord(page, slot) /\ ValuesAt(page, slot) = row
    BY <1>4, <2>1, <2>2
  <2>4. slot \in LiveSlots(page)
    BY <1>4, <2>2, <2>3 DEF LiveSlots
  <2> QED BY <2>3, <2>4
<1>8. ASSUME NEW slot \in LiveSlots(page), ValuesAt(page, slot) = row
      PROVE  \E k \in 1 .. Len(v) : v[k] = row
  <2>1. slot \in 0 .. n - 1 /\ HasRecord(page, slot)
    BY <1>4 DEF LiveSlots
  <2>2. slot \in Nat /\ slot < n /\ slot + 1 \in 1 .. n
    BY <1>2, <2>1
  <2>3. marks[slot + 1] = 0 /\ rows[slot + 1] = row
    BY <1>4, <1>8, <2>1, <2>2
  <2>4. slot + 1 \in P /\ slot + 1 \in 1 .. Len(rows)
    BY <1>2, <1>5, <2>2, <2>3
  <2>5. PICK k \in 1 .. Len(v) : at[k] = slot + 1
    BY <1>6, <2>4
  <2> QED BY <1>6, <2>3, <2>5
<1> QED
  BY <1>7, <1>8 DEF v

-----------------------------------------------------------------------------
(***************************************************************************)
(* What happens to the rows of all pages when one of them changes.         *)
(***************************************************************************)

LEMMA AnySequence ==
    ASSUME NEW m \in Nat, NEW s, s = [i \in 1 .. m |-> s[i]]
    PROVE  IsSequence(s) /\ Len(s) = m /\ DOMAIN s = 1 .. m
<1>1. DOMAIN s = 1 .. m
  OBVIOUS
<1>2. \A i \in 1 .. m : s[i] \in ToSet(s)
  BY <1>1 DEF ToSet
<1> DEFINE T == ToSet(s)
<1> HIDE DEF T
<1>3. s \in Seq(T) /\ Len(s) = m
  BY <1>2 DEF T
<1> QED
  BY <1>1, <1>3 DEF IsSequence, T

LEMMA SequenceIsFunction ==
    ASSUME NEW T, NEW s \in Seq(T)
    PROVE  s = [i \in 1 .. Len(s) |-> s[i]]
OBVIOUS

LEMMA SequenceFacts ==
    ASSUME NEW s, IsSequence(s)
    PROVE  Len(s) \in Nat /\ DOMAIN s = 1 .. Len(s) /\ s = [i \in 1 .. Len(s) |-> s[i]]
<1> DEFINE T == ToSet(s)
<1>1. s \in Seq(T)
  BY DEF IsSequence
<1> HIDE DEF T
<1> QED
  BY <1>1

LastReplaced(t, s, x) ==
    /\ IsSequence(t) /\ Len(t) = Len(s) /\ t[Len(s)] = x
    /\ \A i \in 1 .. Len(s) : i # Len(s) => t[i] = s[i]

LEMMA ReplacedLastPage ==
    ASSUME NEW s, IsSequence(s), Len(s) # 0, NEW x
    PROVE  LastReplaced([s EXCEPT ![Len(s)] = x], s, x)
<1> DEFINE t == [s EXCEPT ![Len(s)] = x]
<1>1. Len(s) \in Nat /\ DOMAIN s = 1 .. Len(s)
  BY SequenceFacts
<1> DEFINE m == Len(s)
<1>2. /\ t = [i \in 1 .. m |-> t[i]] /\ t[m] = x
      /\ \A i \in 1 .. m : i # m => t[i] = s[i]
  <2>1. t = [i \in 1 .. m |-> IF i = m THEN x ELSE s[i]]
    BY <1>1
  <2>2. m \in 1 .. m
    BY <1>1
  <2> HIDE DEF m
  <2> QED BY <2>1, <2>2
<1> HIDE DEF m, t
<1>3. IsSequence(t) /\ Len(t) = m
  BY <1>1, <1>2, AnySequence DEF m
<1>4. LastReplaced(t, s, x)
  BY <1>2, <1>3 DEF m, LastReplaced
<1> QED
  BY <1>4 DEF t

OneMore(t, s, x) ==
    /\ IsSequence(t) /\ Len(t) = Len(s) + 1 /\ t[Len(s) + 1] = x
    /\ \A i \in 1 .. Len(s) : t[i] = s[i]

LEMMA AppendedPage ==
    ASSUME NEW s, IsSequence(s), NEW x
    PROVE  OneMore(Append(s, x), s, x)
<1> DEFINE t == Append(s, x)
<1> DEFINE T == ToSet(s) \union {x}
<1>1. s \in Seq(ToSet(s))
  BY DEF IsSequence
<1>2. s \in Seq(T) /\ x \in T
  <2> DEFINE S == ToSet(s)
  <2> HIDE DEF S
  <2>1. s \in Seq(S)
    BY <1>1 DEF S
  <2>2. \A i \in 1 .. Len(s) : s[i] \in S \union {x}
    BY <2>1
  <2>3. s \in Seq(S \union {x})
    BY <2>1, <2>2
  <2> QED BY <2>3 DEF S
<1> HIDE DEF T
<1>3. /\ t \in Seq(T) /\ Len(t) = Len(s) + 1 /\ Len(s) \in Nat
      /\ \A i \in 1 .. Len(s) : t[i] = s[i]
      /\ t[Len(s) + 1] = x
  BY <1>2, AppendEntries
<1> HIDE DEF t
<1>4. t = [i \in 1 .. Len(s) + 1 |-> t[i]]
  <2>1. t = [i \in 1 .. Len(t) |-> t[i]]
    BY <1>3, SequenceIsFunction
  <2> QED BY <1>3, <2>1
<1>5. Len(s) + 1 \in Nat
  BY <1>3
<1>6. IsSequence(t)
  <2> DEFINE m == Len(s) + 1
  <2> HIDE DEF m
  <2> QED BY <1>4, <1>5, AnySequence DEF m
<1>7. OneMore(t, s, x)
  BY <1>3, <1>6 DEF OneMore
<1> QED
  BY <1>7 DEF t

-----------------------------------------------------------------------------
(* What the operations do to the rows of all pages. *)
In(s, row) == \E k \in 1 .. Len(s) : s[k] = row

(* One row more on the last page. *)
LEMMA GatheredOneMore ==
    ASSUME NEW ps, Len(ps) \in Nat, Len(ps) # 0, \A i \in 1 .. Len(ps) : Sound(ps[i]),
           NEW s, Gathers(ps, s),
           NEW qs, Len(qs) = Len(ps),
           \A i \in 1 .. Len(ps) : i # Len(ps) => qs[i] = ps[i],
           NEW row \in Tuples, RowsOn(qs[Len(ps)]) = Append(RowsOn(ps[Len(ps)]), row)
    PROVE  Gathers(qs, Append(s, row))
<1> DEFINE m == Len(ps)
<1>1. PICK g : Gathering(g, ps) /\ g[m] = s
  BY DEF Gathers
<1>2. \A i \in 0 .. m : g[i] \in Seq(Tuples)
  BY <1>1, GatheredRows
<1> DEFINE h == [i \in 0 .. m |-> IF i = m THEN Append(s, row) ELSE g[i]]
<1>3. h[m] = Append(s, row) /\ \A i \in 0 .. m : i # m => h[i] = g[i]
  OBVIOUS
<1>4. m \in Nat /\ m # 0 /\ m - 1 \in 0 .. m /\ m - 1 # m /\ m \in 1 .. m
  OBVIOUS
<1> HIDE DEF h
<1>5. h[0] = <<>>
  <2>1. 0 \in 0 .. m /\ 0 # m
    BY <1>4
  <2> QED BY <1>1, <1>3, <2>1 DEF Gathering
<1>6. ASSUME NEW i \in 1 .. m PROVE h[i] = h[i - 1] \o RowsOn(qs[i])
  <2>1. CASE i # m
    <3>1. i \in 0 .. m /\ i - 1 \in 0 .. m /\ i - 1 # m
      BY <1>4
    <3>2. g[i] = g[i - 1] \o RowsOn(ps[i])
      BY <1>1 DEF Gathering
    <3> QED BY <2>1, <3>1, <3>2, <1>3
  <2>2. CASE i = m
    <3> DEFINE a == g[m - 1]
               b == RowsOn(ps[m])
    <3>1. a \in Seq(Tuples)
      BY <1>2, <1>4
    <3>2. b \in Seq(Tuples)
      BY <1>4, SoundHasRows
    <3>3. s = a \o b
      BY <1>1, <1>4 DEF Gathering
    <3>4. h[m - 1] = a
      BY <1>3, <1>4
    <3> HIDE DEF a, b
    <3>5. a \o Append(b, row) = Append(a \o b, row)
      BY <3>1, <3>2, ConcatAppend
    <3> QED BY <1>3, <2>2, <3>3, <3>4, <3>5 DEF b
  <2> QED BY <2>1, <2>2
<1>7. Gathering(h, qs)
  BY <1>5, <1>6 DEF Gathering
<1> QED
  BY <1>3, <1>7 DEF Gathers

(* One more page. *)
LEMMA GatheredNewPage ==
    ASSUME NEW ps, Len(ps) \in Nat, NEW s, Gathers(ps, s),
           NEW qs, Len(qs) = Len(ps) + 1, \A i \in 1 .. Len(ps) : qs[i] = ps[i]
    PROVE  Gathers(qs, s \o RowsOn(qs[Len(ps) + 1]))
<1> DEFINE m == Len(ps)
           u == s \o RowsOn(qs[m + 1])
<1>1. PICK g : Gathering(g, ps) /\ g[m] = s
  BY DEF Gathers
<1> DEFINE h == [i \in 0 .. m + 1 |-> IF i = m + 1 THEN u ELSE g[i]]
<1>2. h[m + 1] = u /\ \A i \in 0 .. m : h[i] = g[i]
  OBVIOUS
<1> HIDE DEF h
<1>3. h[0] = <<>>
  BY <1>1, <1>2 DEF Gathering
<1>4. ASSUME NEW i \in 1 .. m + 1 PROVE h[i] = h[i - 1] \o RowsOn(qs[i])
  <2>1. CASE i \in 1 .. m
    <3>1. i \in 0 .. m /\ i - 1 \in 0 .. m
      BY <2>1
    <3>2. g[i] = g[i - 1] \o RowsOn(ps[i])
      BY <1>1, <2>1 DEF Gathering
    <3> QED BY <2>1, <3>1, <3>2, <1>2
  <2>2. CASE i = m + 1
    <3>1. m \in 0 .. m /\ i - 1 = m
      BY <2>2
    <3> QED BY <2>2, <3>1, <1>1, <1>2
  <2> QED BY <2>1, <2>2
<1>5. Gathering(h, qs)
  BY <1>3, <1>4 DEF Gathering
<1> QED
  BY <1>2, <1>5 DEF Gathers

(* Rows that are not in a set go from every page. *)
LEMMA GatheredOnly ==
    ASSUME NEW ps, Len(ps) \in Nat, \A i \in 1 .. Len(ps) : Sound(ps[i]),
           NEW s, Gathers(ps, s), NEW K,
           NEW qs, Len(qs) = Len(ps),
           \A i \in 1 .. Len(ps) : RowsOn(qs[i]) = Only(RowsOn(ps[i]), K)
    PROVE  Gathers(qs, Only(s, K))
<1> DEFINE m == Len(ps)
<1>1. PICK g : Gathering(g, ps) /\ g[m] = s
  BY DEF Gathers
<1>2. \A i \in 0 .. m : g[i] \in Seq(Tuples)
  BY <1>1, GatheredRows
<1> DEFINE h == [i \in 0 .. m |-> Only(g[i], K)]
<1>3. \A i \in 0 .. m : h[i] = Only(g[i], K)
  OBVIOUS
<1> HIDE DEF h
<1>4. h[0] = <<>>
  <2>1. g[0] = <<>> /\ 0 \in 0 .. m
    BY <1>1 DEF Gathering
  <2> QED BY <1>3, <2>1, OnlyEmpty
<1>5. ASSUME NEW i \in 1 .. m PROVE h[i] = h[i - 1] \o RowsOn(qs[i])
  <2> DEFINE a == g[i - 1]
             b == RowsOn(ps[i])
  <2>1. i \in 0 .. m /\ i - 1 \in 0 .. m
    OBVIOUS
  <2>2. g[i] = a \o b
    BY <1>1 DEF Gathering
  <2>3. a \in Seq(Tuples)
    BY <1>2, <2>1
  <2>4. b \in Seq(Tuples)
    BY SoundHasRows
  <2> HIDE DEF a, b
  <2>5. Only(a \o b, K) = Only(a, K) \o Only(b, K)
    BY <2>3, <2>4, OnlyConcat
  <2>6. h[i] = Only(a \o b, K) /\ h[i - 1] = Only(a, K)
    BY <1>3, <2>1, <2>2 DEF a
  <2> QED BY <2>5, <2>6 DEF b
<1>6. Gathering(h, qs)
  BY <1>4, <1>5 DEF Gathering
<1>7. h[m] = Only(s, K)
  BY <1>1, <1>3
<1> QED
  BY <1>6, <1>7 DEF Gathers

LEMMA InConcat ==
    ASSUME NEW T, NEW a \in Seq(T), NEW b \in Seq(T), NEW row
    PROVE  In(a \o b, row) <=> In(a, row) \/ In(b, row)
<1> DEFINE c == a \o b
<1>1. /\ Len(c) = Len(a) + Len(b)
      /\ \A i \in 1 .. Len(a) : c[i] = a[i]
      /\ \A i \in 1 .. Len(b) : c[Len(a) + i] = b[i]
      /\ \A i \in 1 .. Len(a) + Len(b) :
            i \in 1 .. Len(a) \/ (i - Len(a) \in 1 .. Len(b) /\ c[i] = b[i - Len(a)])
      /\ Len(a) \in Nat /\ Len(b) \in Nat
  BY ConcatEntries
<1> HIDE DEF c
<1>2. In(c, row) => In(a, row) \/ In(b, row)
  BY <1>1 DEF In
<1>3. In(a, row) => In(c, row)
  <2> SUFFICES ASSUME NEW k \in 1 .. Len(a), a[k] = row PROVE In(c, row)
    BY DEF In
  <2>1. k \in 1 .. Len(c)
    BY <1>1
  <2> QED BY <1>1, <2>1 DEF In
<1>4. In(b, row) => In(c, row)
  <2> SUFFICES ASSUME NEW k \in 1 .. Len(b), b[k] = row PROVE In(c, row)
    BY DEF In
  <2>1. Len(a) + k \in 1 .. Len(c)
    BY <1>1
  <2> QED BY <1>1, <2>1 DEF In
<1> QED
  BY <1>2, <1>3, <1>4 DEF c

LEMMA GatheredFrom ==
    ASSUME NEW ps, Len(ps) \in Nat, \A i \in 1 .. Len(ps) : Sound(ps[i]),
           NEW s, Gathers(ps, s), NEW row
    PROVE  In(s, row) <=> \E i \in 1 .. Len(ps) : In(RowsOn(ps[i]), row)
<1>1. PICK g : Gathering(g, ps) /\ g[Len(ps)] = s
  BY DEF Gathers
<1>2. \A i \in 0 .. Len(ps) : g[i] \in Seq(Tuples)
  BY <1>1, GatheredRows
<1> DEFINE S == { m \in Nat : m <= Len(ps) =>
                     (In(g[m], row) <=> \E i \in 1 .. m : In(RowsOn(ps[i]), row)) }
<1>3. 0 \in S
  <2>1. g[0] = <<>>
    BY <1>1 DEF Gathering
  <2>2. ~ In(<<>>, row)
    BY DEF In
  <2> QED BY <2>1, <2>2
<1>4. ASSUME NEW m \in S PROVE m + 1 \in S
  <2> SUFFICES ASSUME m + 1 <= Len(ps)
               PROVE  In(g[m + 1], row) <=> \E i \in 1 .. m + 1 : In(RowsOn(ps[i]), row)
    OBVIOUS
  <2>1. /\ m \in Nat /\ m + 1 \in 1 .. Len(ps) /\ (m + 1) - 1 = m /\ m \in 0 .. Len(ps)
        /\ In(g[m], row) <=> \E i \in 1 .. m : In(RowsOn(ps[i]), row)
    OBVIOUS
  <2> DEFINE a == g[m]
             b == RowsOn(ps[m + 1])
  <2>2. g[m + 1] = a \o b
    BY <1>1, <2>1 DEF Gathering
  <2>3. a \in Seq(Tuples)
    BY <1>2, <2>1
  <2>4. b \in Seq(Tuples)
    BY <2>1, SoundHasRows
  <2>5. \A i \in 1 .. m + 1 : i \in 1 .. m \/ i = m + 1
    BY <2>1
  <2>6. m + 1 \in 1 .. m + 1 /\ \A i \in 1 .. m : i \in 1 .. m + 1
    BY <2>1
  <2> HIDE DEF a, b, S
  <2>7. In(a \o b, row) <=> In(a, row) \/ In(b, row)
    BY <2>3, <2>4, InConcat
  <2> QED BY <2>1, <2>2, <2>5, <2>6, <2>7 DEF a, b
<1>5. S = Nat
  <2> HIDE DEF S
  <2>1. S \in SUBSET Nat
    BY DEF S
  <2> QED BY <1>3, <1>4, <2>1, EveryRound
<1> QED
  BY <1>1, <1>5

-----------------------------------------------------------------------------
(***************************************************************************)
(* The statements.                                                         *)
(***************************************************************************)

LEMMA InIsToSet ==
    ASSUME NEW s, DOMAIN s = 1 .. Len(s), NEW row
    PROVE  row \in ToSet(s) <=> In(s, row)
BY DEF ToSet, In

(* The inductive invariant: every page has the layout of a page; its live  *)
(* records, page after page, are the stored rows; the index has their keys *)
(* and the refused ones; and the CTID it has for a row is where the record *)
(* of the row is.                                                          *)
PagesInv == IsSequence(pages) /\ \A i \in 1 .. Len(pages) : Sound(pages[i])

RowsInv == stored \in Seq(Tuples) /\ Gathers(pages, stored)

StoredKeys == { KeyOf(row) : row \in ToSet(stored) }

KeysInv ==
    /\ DOMAIN index = StoredKeys \union refused
    /\ refused \subseteq Keys /\ StoredKeys \intersect refused = {}
    /\ \A row, other \in ToSet(stored) : KeyOf(row) = KeyOf(other) => row = other

HeldAt(ps, ctid, row) == Holds(ps[ctid[1] + 1], ctid[2], row)

IsPlace(ps, ctid) == ctid[1] \in 0 .. Len(ps) - 1 /\ ctid[2] \in Nat

PlacesInv ==
    /\ \A k \in DOMAIN index : IsPlace(pages, index[k])
    /\ \A row \in ToSet(stored) : HeldAt(pages, index[KeyOf(row)], row)

HeapInv == PagesInv /\ RowsInv /\ KeysInv /\ PlacesInv

LEMMA InvInit == Init => HeapInv
<1> SUFFICES ASSUME Init PROVE HeapInv
  OBVIOUS
<1>1. /\ pages = <<>> /\ stored = <<>> /\ refused = {}
      /\ index = [k \in {} |-> <<0, 0>>]
  BY DEF Init
<1>2. Len(pages) = 0 /\ Len(stored) = 0 /\ DOMAIN index = {} /\ stored \in Seq(Tuples)
  BY <1>1
<1>3. ToSet(stored) = {}
  BY <1>1 DEF ToSet
<1>4. PagesInv
  <2>1. pages = [i \in 1 .. 0 |-> pages[i]]
    BY <1>1
  <2>2. IsSequence(pages)
    BY <2>1, AnySequence
  <2> QED BY <1>2, <2>2 DEF PagesInv
<1>5. RowsInv
  <2> DEFINE g == [i \in 0 .. 0 |-> <<>>]
  <2>1. g[0] = <<>>
    OBVIOUS
  <2> HIDE DEF g
  <2>2. Gathering(g, pages)
    BY <1>2, <2>1 DEF Gathering
  <2> QED BY <1>1, <1>2, <2>1, <2>2 DEF RowsInv, Gathers
<1>6. KeysInv
  <2>1. StoredKeys = {}
    BY <1>3 DEF StoredKeys
  <2> QED BY <1>1, <1>2, <1>3, <2>1 DEF KeysInv
<1>7. PlacesInv
  BY <1>2, <1>3 DEF PlacesInv
<1> QED
  BY <1>4, <1>5, <1>6, <1>7 DEF HeapInv

-----------------------------------------------------------------------------
(* What an INSERT does to the pages. *)
LEMMA NewPageRows ==
    ASSUME NEW row \in Tuples, NEW p, p = NewPageWith(TupleFor(row))
    PROVE  /\ Sound(p)
           /\ Fits(row) => RowsOn(p) = Append(<<>>, row) /\ Holds(p, 0, row)
           /\ ~ Fits(row) => RowsOn(p) = <<>>
<1>1. Sound(EmptyPage) /\ RowsOn(EmptyPage) = <<>> /\ TotalSlots(EmptyPage) = 0
  BY EmptySound
<1>2. Fits(row) <=> HasRoom(EmptyPage, TupleFor(row).len)
  BY DEF Fits, TupleFor
<1>3. CASE Fits(row)
  <2>1. p = InsertRecord(EmptyPage, TupleFor(row))
    BY <1>2, <1>3 DEF NewPageWith
  <2> DEFINE e == EmptyPage
  <2>2. Sound(e) /\ HasRoom(e, TupleFor(row).len) /\ p = InsertRecord(e, TupleFor(row))
    BY <1>1, <1>2, <1>3, <2>1
  <2> HIDE DEF e
  <2>3. Sound(p) /\ RowsOn(p) = Append(RowsOn(e), row) /\ Holds(p, TotalSlots(e), row)
    BY <2>2, InsertedRows
  <2> QED BY <1>1, <1>3, <2>3 DEF e
<1>4. CASE ~ Fits(row)
  <2>1. p = EmptyPage
    BY <1>2, <1>4 DEF NewPageWith
  <2> QED BY <1>1, <1>4, <2>1
<1> QED
  BY <1>3, <1>4

LEMMA WrittenRows ==
    ASSUME PagesInv, RowsInv, NEW row \in Tuples, WriteTuple(TupleFor(row)),
           stored' = IF Fits(row) THEN Append(stored, row) ELSE stored,
           NEW ctid, ctid = CTIDFor(TupleFor(row))
    PROVE  /\ PagesInv' /\ RowsInv'
           /\ Len(pages) \in Nat /\ Len(pages') \in Nat /\ Len(pages) <= Len(pages')
           /\ IsPlace(pages', ctid)
           /\ Fits(row) => HeldAt(pages', ctid, row)
           /\ \A n \in 0 .. Len(pages) - 1, slot \in Nat, held \in Tuples :
                 Holds(pages[n + 1], slot, held) => Holds(pages'[n + 1], slot, held)
<1> DEFINE m == Len(pages)
           tuple == TupleFor(row)
<1>1. IsSequence(pages) /\ \A i \in 1 .. m : Sound(pages[i])
  BY DEF PagesInv
<1>2. m \in Nat /\ stored \in Seq(Tuples) /\ Gathers(pages, stored)
  BY <1>1, SequenceFacts DEF RowsInv
<1>3. stored' \in Seq(Tuples)
  BY <1>2
<1>4. CASE InLastPage(tuple)
  <2> DEFINE last == pages[m]
             ins == InsertRecord(last, tuple)
  <2>1. pages # <<>> /\ HasRoom(last, tuple.len)
    BY <1>4 DEF InLastPage
  <2>2. m # 0
    BY <1>1, <2>1, SequenceFacts
  <2>3. m \in 1 .. m /\ m - 1 \in 0 .. m - 1 /\ (m - 1) + 1 = m
    BY <1>2, <2>2
  <2>4. Sound(last)
    BY <1>1, <2>3
  <2>5. Fits(row)
    <3> HIDE DEF last
    <3>1. HasRoom(EmptyPage, TupleFor(row).len)
      BY <2>1, <2>4, EmptyHasMostRoom
    <3> QED BY <3>1 DEF Fits, TupleFor
  <2>6. pages' = [pages EXCEPT ![m] = ins]
    BY <1>4 DEF WriteTuple
  <2>7. /\ IsSequence(pages') /\ Len(pages') = m /\ pages'[m] = ins
        /\ \A i \in 1 .. m : i # m => pages'[i] = pages[i]
    <3>1. IsSequence(pages) /\ Len(pages) # 0
      BY <1>1, <2>2
    <3> HIDE DEF ins
    <3>2. LastReplaced([pages EXCEPT ![Len(pages)] = ins], pages, ins)
      BY <3>1, ReplacedLastPage
    <3>3. LastReplaced(pages', pages, ins)
      BY <2>6, <3>2
    <3> QED BY <3>3 DEF LastReplaced
  <2>8. /\ Sound(ins)
        /\ RowsOn(ins) = Append(RowsOn(last), row)
        /\ TotalSlots(last) \in Nat
        /\ Holds(ins, TotalSlots(last), row)
        /\ \A slot \in Nat, held \in Tuples : Holds(last, slot, held) => Holds(ins, slot, held)
    <3> HIDE DEF last
    <3> QED BY <2>1, <2>4, InsertedRows
  <2>9. ctid = <<m - 1, TotalSlots(last)>>
    BY <1>4 DEF CTIDFor
  <2> HIDE DEF last, ins
  <2>10. PagesInv'
    <3>1. \A i \in 1 .. m : Sound(pages'[i])
      BY <1>1, <2>7, <2>8
    <3> QED BY <2>7, <3>1 DEF PagesInv
  <2>11. Gathers(pages', Append(stored, row))
    <3> DEFINE qs == pages'
    <3>1. /\ Len(qs) = m /\ RowsOn(qs[m]) = Append(RowsOn(pages[m]), row)
          /\ \A i \in 1 .. m : i # m => qs[i] = pages[i]
      BY <2>7, <2>8 DEF last
    <3> HIDE DEF qs
    <3>2. Gathers(qs, Append(stored, row))
      BY <1>1, <1>2, <2>2, <3>1, GatheredOneMore
    <3> QED BY <3>2 DEF qs
  <2>12. RowsInv'
    BY <1>3, <2>5, <2>11 DEF RowsInv
  <2>13. ctid[1] = m - 1 /\ ctid[2] = TotalSlots(last)
    BY <2>9
  <2>14. IsPlace(pages', ctid)
    BY <2>3, <2>7, <2>8, <2>13 DEF IsPlace
  <2>15. HeldAt(pages', ctid, row)
    BY <2>3, <2>7, <2>8, <2>13 DEF HeldAt
  <2>16. ASSUME NEW n \in 0 .. m - 1, NEW slot \in Nat, NEW held \in Tuples,
                Holds(pages[n + 1], slot, held)
         PROVE  Holds(pages'[n + 1], slot, held)
    <3>1. n + 1 \in 1 .. m
      BY <1>2
    <3>2. CASE n + 1 = m
      BY <2>7, <2>8, <2>16, <3>2 DEF last
    <3>3. CASE n + 1 # m
      BY <2>7, <2>16, <3>1, <3>3
    <3> QED BY <3>2, <3>3
  <2>17. Len(pages) \in Nat /\ Len(pages') \in Nat /\ Len(pages) <= Len(pages')
    BY <1>2, <2>7
  <2> HIDE DEF m
  <2>18. \A n \in 0 .. Len(pages) - 1, slot \in Nat, held \in Tuples :
            Holds(pages[n + 1], slot, held) => Holds(pages'[n + 1], slot, held)
    BY <2>16 DEF m
  <2> QED BY <2>10, <2>12, <2>14, <2>15, <2>17, <2>18
<1>5. CASE ~ InLastPage(tuple)
  <2> DEFINE p == NewPageWith(tuple)
  <2>1. pages' = Append(pages, p)
    BY <1>5 DEF WriteTuple
  <2>2. /\ Sound(p)
        /\ Fits(row) => RowsOn(p) = Append(<<>>, row) /\ Holds(p, 0, row)
        /\ ~ Fits(row) => RowsOn(p) = <<>>
    BY NewPageRows
  <2> HIDE DEF p
  <2>3. /\ IsSequence(pages') /\ Len(pages') = m + 1 /\ pages'[m + 1] = p
        /\ \A i \in 1 .. m : pages'[i] = pages[i]
    <3>1. OneMore(Append(pages, p), pages, p)
      BY <1>1, AppendedPage
    <3> QED BY <2>1, <3>1 DEF OneMore
  <2>4. ctid = <<m, 0>>
    BY <1>5 DEF CTIDFor
  <2>5. \A i \in 1 .. m + 1 : i \in 1 .. m \/ i = m + 1
    BY <1>2
  <2>6. PagesInv'
    <3>1. \A i \in 1 .. m + 1 : Sound(pages'[i])
      BY <1>1, <2>2, <2>3, <2>5
    <3> QED BY <2>3, <3>1 DEF PagesInv
  <2>7. Gathers(pages', stored \o RowsOn(p))
    <3> DEFINE qs == pages'
    <3>1. Len(qs) = m + 1 /\ qs[m + 1] = p /\ \A i \in 1 .. m : qs[i] = pages[i]
      BY <2>3
    <3> HIDE DEF qs
    <3>2. Gathers(qs, stored \o RowsOn(qs[m + 1]))
      BY <1>2, <3>1, GatheredNewPage
    <3> QED BY <3>1, <3>2 DEF qs
  <2>8. stored' = stored \o RowsOn(p)
    <3>1. CASE Fits(row)
      <4>1. <<>> \in Seq(Tuples)
        OBVIOUS
      <4>2. stored \o Append(<<>>, row) = Append(stored \o <<>>, row) /\ stored \o <<>> = stored
        BY <1>2, <4>1, ConcatAppend, ConcatEmpty
      <4> QED BY <2>2, <3>1, <4>2
    <3>2. CASE ~ Fits(row)
      <4>1. stored \o <<>> = stored
        BY <1>2, ConcatEmpty
      <4> QED BY <2>2, <3>2, <4>1
    <3> QED BY <3>1, <3>2
  <2>9. RowsInv'
    BY <1>3, <2>7, <2>8 DEF RowsInv
  <2>10. ctid[1] = m /\ ctid[2] = 0
    BY <2>4
  <2>11. IsPlace(pages', ctid)
    BY <1>2, <2>3, <2>10 DEF IsPlace
  <2>12. Fits(row) => HeldAt(pages', ctid, row)
    BY <2>2, <2>3, <2>10 DEF HeldAt
  <2>13. ASSUME NEW n \in 0 .. m - 1, NEW slot \in Nat, NEW held \in Tuples,
                Holds(pages[n + 1], slot, held)
         PROVE  Holds(pages'[n + 1], slot, held)
    <3>1. n + 1 \in 1 .. m
      BY <1>2
    <3> QED BY <2>3, <2>13, <3>1
  <2> QED BY <1>2, <2>3, <2>6, <2>9, <2>11, <2>12, <2>13
<1> QED
  BY <1>4, <1>5

-----------------------------------------------------------------------------
LEMMA AppendedSet ==
    ASSUME NEW s \in Seq(Tuples), NEW row \in Tuples
    PROVE  ToSet(Append(s, row)) = ToSet(s) \union {row}
<1> DEFINE t == Append(s, row)
<1>1. /\ t \in Seq(Tuples) /\ Len(t) = Len(s) + 1 /\ Len(s) \in Nat
      /\ \A i \in 1 .. Len(s) : t[i] = s[i]
      /\ t[Len(s) + 1] = row
  BY AppendEntries
<1> HIDE DEF t
<1>2. ToSet(t) = { t[i] : i \in 1 .. Len(s) + 1 } /\ ToSet(s) = { s[i] : i \in 1 .. Len(s) }
  <2>1. DOMAIN t = 1 .. Len(t) /\ DOMAIN s = 1 .. Len(s)
    BY <1>1
  <2> QED BY <1>1, <2>1 DEF ToSet
<1>3. \A i \in 1 .. Len(s) + 1 : i \in 1 .. Len(s) \/ i = Len(s) + 1
  BY <1>1
<1>4. Len(s) + 1 \in 1 .. Len(s) + 1 /\ \A i \in 1 .. Len(s) : i \in 1 .. Len(s) + 1
  BY <1>1
<1>5. ToSet(t) = ToSet(s) \union {row}
  BY <1>1, <1>2, <1>3, <1>4
<1> QED
  BY <1>5 DEF t

LEMMA StoredAreTuples ==
    ASSUME RowsInv
    PROVE  /\ \A row \in ToSet(stored) : row \in Tuples
           /\ \A row : row \in ToSet(stored) <=> In(stored, row)
           /\ DOMAIN stored = 1 .. Len(stored) /\ Len(stored) \in Nat
<1>1. stored \in Seq(Tuples)
  BY DEF RowsInv
<1>2. DOMAIN stored = 1 .. Len(stored) /\ Len(stored) \in Nat /\ \A i \in 1 .. Len(stored) : stored[i] \in Tuples
  BY <1>1
<1> QED
  BY <1>2, InIsToSet DEF ToSet

LEMMA InsertKeepsInv ==
    ASSUME HeapInv, NEW row \in Tuples, Insert(row)
    PROVE  HeapInv'
<1> DEFINE key == KeyOf(row)
           ctid == CTIDFor(TupleFor(row))
<1>1. /\ key \notin DOMAIN index
      /\ WriteTuple(TupleFor(row))
      /\ index' = [k \in DOMAIN index \union {key} |-> IF k = key THEN ctid ELSE index[k]]
      /\ stored' = IF Fits(row) THEN Append(stored, row) ELSE stored
      /\ refused' = IF Fits(row) THEN refused ELSE refused \union {key}
  BY DEF Insert, TupleFor
<1>2. PagesInv /\ RowsInv /\ KeysInv /\ PlacesInv
  BY DEF HeapInv
<1> HIDE DEF ctid
<1>3. /\ PagesInv' /\ RowsInv'
      /\ Len(pages) \in Nat /\ Len(pages') \in Nat /\ Len(pages) <= Len(pages')
      /\ IsPlace(pages', ctid)
      /\ Fits(row) => HeldAt(pages', ctid, row)
      /\ \A n \in 0 .. Len(pages) - 1, slot \in Nat, held \in Tuples :
            Holds(pages[n + 1], slot, held) => Holds(pages'[n + 1], slot, held)
  BY <1>1, <1>2, WrittenRows DEF ctid
<1> HIDE DEF key
<1>4. key \in Keys
  BY DEF key, Keys
<1>5. ToSet(stored') = IF Fits(row) THEN ToSet(stored) \union {row} ELSE ToSet(stored)
  <2>1. stored \in Seq(Tuples)
    BY <1>2 DEF RowsInv
  <2> QED BY <1>1, <2>1, AppendedSet
<1>6. StoredKeys' = IF Fits(row) THEN StoredKeys \union {key} ELSE StoredKeys
  BY <1>5 DEF StoredKeys, key, KeyOf
<1>7. /\ DOMAIN index = StoredKeys \union refused
      /\ refused \subseteq Keys /\ StoredKeys \intersect refused = {}
      /\ \A r, q \in ToSet(stored) : KeyOf(r) = KeyOf(q) => r = q
  BY <1>2 DEF KeysInv
<1>8. /\ DOMAIN index' = DOMAIN index \union {key}
      /\ index'[key] = ctid
      /\ \A k \in DOMAIN index : index'[k] = index[k]
  BY <1>1
<1>9. \A r \in ToSet(stored) : KeyOf(r) \in DOMAIN index /\ KeyOf(r) # key
  BY <1>1, <1>7 DEF StoredKeys
<1>10. KeysInv'
  <2>1. (DOMAIN index = StoredKeys \union refused)'
    BY <1>1, <1>6, <1>7, <1>8
  <2>2. refused' \subseteq Keys /\ StoredKeys' \intersect refused' = {}
    BY <1>1, <1>4, <1>6, <1>7
  <2>3. \A r, q \in ToSet(stored') : KeyOf(r) = KeyOf(q) => r = q
    BY <1>5, <1>7, <1>9 DEF key
  <2> QED BY <2>1, <2>2, <2>3 DEF KeysInv, KeyOf
<1>11. PlacesInv'
  <2>1. ASSUME NEW k \in DOMAIN index' PROVE IsPlace(pages', index'[k])
    <3>1. CASE k = key
      BY <1>3, <1>8, <3>1 DEF IsPlace
    <3>2. CASE k # key
      <4>1. k \in DOMAIN index /\ index'[k] = index[k]
        BY <1>8, <3>2
      <4>2. index[k][1] \in 0 .. Len(pages) - 1 /\ index[k][2] \in Nat
        BY <1>2, <4>1 DEF PlacesInv, IsPlace
      <4>3. index[k][1] \in 0 .. Len(pages') - 1
        BY <1>3, <4>2
      <4> QED BY <4>1, <4>2, <4>3 DEF IsPlace
    <3> QED BY <3>1, <3>2
  <2>2. ASSUME NEW r \in ToSet(stored') PROVE HeldAt(pages', index'[KeyOf(r)], r)
    <3>1. CASE r \in ToSet(stored)
      <4>1. KeyOf(r) \in DOMAIN index /\ index'[KeyOf(r)] = index[KeyOf(r)]
        BY <1>8, <1>9, <3>1
      <4> DEFINE place == index[KeyOf(r)]
      <4>2. place[1] \in 0 .. Len(pages) - 1 /\ place[2] \in Nat
        BY <1>2, <4>1 DEF PlacesInv, IsPlace
      <4>3. Holds(pages[place[1] + 1], place[2], r)
        BY <1>2, <3>1 DEF PlacesInv, HeldAt
      <4>4. r \in Tuples
        BY <1>2, <3>1, StoredAreTuples
      <4> HIDE DEF place
      <4>5. Holds(pages'[place[1] + 1], place[2], r)
        BY <1>3, <4>2, <4>3, <4>4
      <4> QED BY <4>1, <4>5 DEF HeldAt, place, KeyOf
    <3>2. CASE r = row /\ Fits(row)
      BY <1>3, <1>8, <3>2 DEF HeldAt, key, KeyOf
    <3> QED BY <1>5, <3>1, <3>2
  <2> QED BY <2>1, <2>2 DEF PlacesInv
<1> QED
  BY <1>3, <1>10, <1>11 DEF HeapInv

-----------------------------------------------------------------------------
LEMMA GoneKeys ==
    ASSUME PagesInv, RowsInv, NEW where \in Wheres, NEW k
    PROVE  k \in DeletedKeys(where) <=>
              \E row \in ToSet(stored) : row \notin Staying(where) /\ KeyOf(row) = k
<1> DEFINE K == Staying(where)
<1>1. IsSequence(pages) /\ \A i \in 1 .. Len(pages) : Sound(pages[i])
  BY DEF PagesInv
<1>2. Len(pages) \in Nat /\ DOMAIN pages = 1 .. Len(pages)
  BY <1>1, SequenceFacts
<1>3. ASSUME NEW row
      PROVE  row \in ToSet(stored) <=>
                \E i \in DOMAIN pages : \E slot \in LiveSlots(pages[i]) : ValuesAt(pages[i], slot) = row
  <2>1. In(stored, row) <=> \E i \in 1 .. Len(pages) : In(RowsOn(pages[i]), row)
    BY <1>1, <1>2, GatheredFrom DEF RowsInv
  <2>2. ASSUME NEW i \in 1 .. Len(pages)
        PROVE  In(RowsOn(pages[i]), row) <=>
                  \E slot \in LiveSlots(pages[i]) : ValuesAt(pages[i], slot) = row
    <3>1. Sound(pages[i])
      BY <1>1
    <3> QED BY <3>1, RowsAtSlots DEF In
  <2>3. row \in ToSet(stored) <=> In(stored, row)
    BY StoredAreTuples
  <2> QED BY <1>2, <2>1, <2>2, <2>3
<1>4. ASSUME NEW i \in DOMAIN pages, NEW slot \in LiveSlots(pages[i])
      PROVE  slot \in SlotsToDelete(pages[i], where) <=> ValuesAt(pages[i], slot) \notin K
  <2>1. ValuesAt(pages[i], slot) \in ToSet(stored)
    BY <1>3
  <2>2. ValuesAt(pages[i], slot) \in Tuples
    BY <2>1, StoredAreTuples
  <2> DEFINE row == ValuesAt(pages[i], slot)
  <2> HIDE DEF row
  <2>3. EvaluateWhereClause(where, Schema, row) <=> row \notin K
    BY <2>2, WhereEvaluated DEF row
  <2> QED BY <2>3 DEF row, SlotsToDelete
<1>5. \A i \in DOMAIN pages : SlotsToDelete(pages[i], where) \subseteq LiveSlots(pages[i])
  BY DEF SlotsToDelete
<1> HIDE DEF K
<1>6. k \in DeletedKeys(where) <=>
         \E i \in DOMAIN pages : \E slot \in SlotsToDelete(pages[i], where) : k = KeyOf(ValuesAt(pages[i], slot))
  BY DEF DeletedKeys
<1> QED
  BY <1>3, <1>4, <1>5, <1>6 DEF K

LEMMA DeleteKeepsInv ==
    ASSUME HeapInv, NEW where \in Wheres, Delete(where)
    PROVE  HeapInv'
<1> DEFINE K == Staying(where)
           gone == DeletedKeys(where)
           m == Len(pages)
<1>1. /\ pages' = [n \in DOMAIN pages |->
                      WithoutSlots(pages[n], SlotsToDelete(pages[n], where))]
      /\ index' = [k \in DOMAIN index \ gone |-> index[k]]
      /\ stored' = Picked(stored, { i \in DOMAIN stored : ~ Meets(Schema, stored[i], where) })
      /\ refused' = refused
  BY DEF Delete
<1>2. PagesInv /\ RowsInv /\ KeysInv /\ PlacesInv
  BY DEF HeapInv
<1>3. IsSequence(pages) /\ (\A i \in 1 .. m : Sound(pages[i]))
      /\ m \in Nat /\ DOMAIN pages = 1 .. m /\ stored \in Seq(Tuples) /\ Gathers(pages, stored)
  BY <1>2, SequenceFacts DEF PagesInv, RowsInv
<1>4. /\ \A row \in ToSet(stored) : row \in Tuples
      /\ \A row : row \in ToSet(stored) <=> In(stored, row)
      /\ DOMAIN stored = 1 .. Len(stored) /\ Len(stored) \in Nat
  BY <1>2, StoredAreTuples
<1>5. stored' = Only(stored, K)
  <2>1. \A i \in DOMAIN stored : ~ Meets(Schema, stored[i], where) <=> stored[i] \in K
    BY <1>4 DEF Staying, ToSet
  <2>2. { i \in DOMAIN stored : ~ Meets(Schema, stored[i], where) } =
           { i \in DOMAIN stored : stored[i] \in K }
    BY <2>1
  <2> QED BY <1>1, <2>2 DEF Only
<1>6. ASSUME NEW row \in Tuples PROVE row \in K \/ Meets(Schema, row, where)
  BY DEF Staying
<1> HIDE DEF K, gone, m
<1>7. \A k : k \in gone <=> \E row \in ToSet(stored) : row \notin K /\ KeyOf(row) = k
  BY <1>2, GoneKeys DEF gone, K
<1>8. stored' \in Seq(Tuples) /\ \A row : row \in ToSet(stored') <=> row \in K /\ row \in ToSet(stored)
  <2>0. stored \in Seq(Tuples)
    BY <1>3
  <2>1. /\ Only(stored, K) \in Seq(Tuples)
        /\ \A e : (\E i \in 1 .. Len(Only(stored, K)) : Only(stored, K)[i] = e)
                 <=> (e \in K /\ \E i \in 1 .. Len(stored) : stored[i] = e)
    BY <2>0, OnlyInSeq
  <2> DEFINE t == Only(stored, K)
  <2> HIDE DEF t
  <2>2. DOMAIN t = 1 .. Len(t)
    BY <2>1 DEF t
  <2>3. \A row : row \in ToSet(t) <=> In(t, row)
    BY <2>2, InIsToSet
  <2> QED BY <1>4, <1>5, <2>1, <2>3 DEF In, t
<1>9. ASSUME NEW i \in 1 .. m
      PROVE  /\ Sound(pages'[i])
             /\ RowsOn(pages'[i]) = Only(RowsOn(pages[i]), K)
             /\ \A slot \in Nat, held \in K : Holds(pages[i], slot, held) => Holds(pages'[i], slot, held)
  <2> DEFINE page == pages[i]
             w == pages'[i]
  <2>1. w = WithoutSlots(page, SlotsToDelete(page, where))
    BY <1>1, <1>3
  <2>2. Sound(page)
    BY <1>3
  <2> HIDE DEF page, w
  <2>3. /\ Sound(w)
        /\ RowsOn(w) = Only(RowsOn(page), Staying(where))
        /\ \A slot \in Nat, held \in Staying(where) : Holds(page, slot, held) => Holds(w, slot, held)
    BY <2>1, <2>2, WithoutRows
  <2> QED BY <2>3 DEF page, w, K
<1>10. IsSequence(pages') /\ Len(pages') = m
  <2>1. pages' = [i \in 1 .. m |-> pages'[i]]
    BY <1>1, <1>3
  <2> DEFINE t == pages'
  <2> HIDE DEF t
  <2>2. t = [i \in 1 .. m |-> t[i]]
    BY <2>1 DEF t
  <2>3. IsSequence(t) /\ Len(t) = m
    BY <1>3, <2>2, AnySequence
  <2> QED BY <2>3 DEF t
<1>11. PagesInv'
  BY <1>9, <1>10 DEF PagesInv
<1>12. RowsInv'
  <2> DEFINE qs == pages'
  <2>1. Len(qs) = Len(pages) /\ \A i \in 1 .. Len(pages) : RowsOn(qs[i]) = Only(RowsOn(pages[i]), K)
    BY <1>9, <1>10 DEF m
  <2>2. Len(pages) \in Nat /\ \A i \in 1 .. Len(pages) : Sound(pages[i])
    BY <1>3 DEF m
  <2> HIDE DEF qs
  <2>3. Gathers(qs, Only(stored, K))
    BY <1>3, <2>1, <2>2, GatheredOnly
  <2> QED BY <1>5, <1>8, <2>3 DEF qs, RowsInv
<1>13. /\ DOMAIN index = StoredKeys \union refused
       /\ refused \subseteq Keys /\ StoredKeys \intersect refused = {}
       /\ \A r, q \in ToSet(stored) : KeyOf(r) = KeyOf(q) => r = q
  BY <1>2 DEF KeysInv
<1>14. DOMAIN index' = DOMAIN index \ gone /\ \A k \in DOMAIN index' : index'[k] = index[k]
  BY <1>1
<1>15. \A k : k \in StoredKeys <=> \E row \in ToSet(stored) : KeyOf(row) = k
  BY DEF StoredKeys
<1>16. \A k : k \in StoredKeys' <=> \E row \in ToSet(stored') : KeyOf(row) = k
  BY DEF StoredKeys, KeyOf
<1>17. \A k : k \in StoredKeys' <=> k \in StoredKeys /\ k \notin gone
  BY <1>7, <1>8, <1>13, <1>15, <1>16
<1>18. \A k \in gone : k \in StoredKeys
  BY <1>7, <1>15
<1>19. KeysInv'
  <2>1. (DOMAIN index = StoredKeys \union refused)'
    BY <1>1, <1>13, <1>14, <1>17, <1>18
  <2>2. refused' \subseteq Keys /\ StoredKeys' \intersect refused' = {}
    BY <1>1, <1>13, <1>17
  <2>3. \A r, q \in ToSet(stored') : KeyOf(r) = KeyOf(q) => r = q
    BY <1>8, <1>13
  <2> QED BY <2>1, <2>2, <2>3 DEF KeysInv, KeyOf
<1>20. PlacesInv'
  <2>1. ASSUME NEW k \in DOMAIN index' PROVE IsPlace(pages', index'[k])
    <3>1. k \in DOMAIN index /\ index'[k] = index[k]
      BY <1>14
    <3>2. index[k][1] \in 0 .. m - 1 /\ index[k][2] \in Nat
      BY <1>2, <3>1 DEF PlacesInv, IsPlace, m
    <3> QED BY <1>10, <3>1, <3>2 DEF IsPlace
  <2>2. ASSUME NEW r \in ToSet(stored') PROVE HeldAt(pages', index'[KeyOf(r)], r)
    <3>1. r \in ToSet(stored) /\ r \in K
      BY <1>8
    <3>2. KeyOf(r) \in DOMAIN index /\ KeyOf(r) \in DOMAIN index'
      BY <1>7, <1>13, <1>14, <1>15, <3>1
    <3> DEFINE place == index[KeyOf(r)]
    <3>3. index'[KeyOf(r)] = place
      BY <1>14, <3>2
    <3>4. place[1] \in 0 .. m - 1 /\ place[2] \in Nat
      BY <1>2, <3>2 DEF PlacesInv, IsPlace, m
    <3>5. Holds(pages[place[1] + 1], place[2], r)
      BY <1>2, <3>1 DEF PlacesInv, HeldAt
    <3> HIDE DEF place
    <3>6. place[1] + 1 \in 1 .. m
      BY <1>3, <3>4
    <3>7. Holds(pages'[place[1] + 1], place[2], r)
      BY <1>9, <3>1, <3>4, <3>5, <3>6
    <3> QED BY <3>3, <3>7 DEF HeldAt, KeyOf
  <2> QED BY <2>1, <2>2 DEF PlacesInv
<1> QED
  BY <1>11, <1>12, <1>19, <1>20 DEF HeapInv

LEMMA HeapInvHolds == Spec => []HeapInv
<1>1. HeapInv /\ [Next]_vars => HeapInv'
  <2> SUFFICES ASSUME HeapInv, [Next]_vars PROVE HeapInv'
    OBVIOUS
  <2>1. CASE UNCHANGED vars
    BY <2>1 DEF vars, HeapInv, PagesInv, RowsInv, KeysInv, PlacesInv, StoredKeys, HeldAt, IsPlace
  <2>2. CASE Next
    BY <2>2, InsertKeepsInv, DeleteKeepsInv DEF Next
  <2> QED BY <2>1, <2>2
<1> QED
  BY <1>1, InvInit, PTL DEF Spec

-----------------------------------------------------------------------------
(* Slots and records of a page never run into each other and lie back to   *)
(* back, whatever is inserted and deleted, and index entries name pages    *)
(* that exist (page.rs, insert_record).                                    *)
THEOREM LayoutSound == Spec => []LayoutIsSound
<1>1. HeapInv => LayoutIsSound
  <2> SUFFICES ASSUME HeapInv PROVE LayoutIsSound
    OBVIOUS
  <2>1. PagesInv /\ RowsInv /\ KeysInv /\ PlacesInv
    BY DEF HeapInv
  <2>2. DOMAIN pages = 1 .. Len(pages)
    BY <2>1, SequenceFacts DEF PagesInv
  <2>3. ASSUME NEW n \in DOMAIN pages PROVE WellFormed(pages[n])
    <3>1. Sound(pages[n])
      BY <2>1, <2>2 DEF PagesInv
    <3> QED BY <3>1, SoundPageWellFormed DEF Sound
  <2>4. ToSet(stored) \subseteq Tuples
    BY <2>1, StoredAreTuples
  <2>5. StoredKeys \subseteq Keys
    BY <2>4 DEF StoredKeys, Keys
  <2>6. DOMAIN index \subseteq Keys /\ refused \subseteq Keys
    BY <2>1, <2>5 DEF KeysInv
  <2>7. \A k \in DOMAIN index : index[k][1] \in 0 .. Len(pages) - 1
    BY <2>1 DEF PlacesInv, IsPlace
  <2> QED BY <2>3, <2>4, <2>6, <2>7 DEF LayoutIsSound
<1> QED
  BY <1>1, HeapInvHolds, PTL

(* A scan returns the rows that were inserted and not deleted, each once,  *)
(* in the order of their insertion and with the values that were inserted; *)
(* the index has the record of each of them, and no other keys but those   *)
(* whose tuple no page took (dml.rs, seq_scan.rs, tuple.rs).               *)
THEOREM RowsFound == Spec => []RowsAreFound
<1>1. HeapInv => RowsAreFound
  <2> SUFFICES ASSUME HeapInv PROVE RowsAreFound
    OBVIOUS
  <2>1. PagesInv /\ RowsInv /\ KeysInv /\ PlacesInv
    BY DEF HeapInv
  <2>2. Rows(SeqScan(Table, Len(pages))) = stored
    <3>1. Len(pages) \in Nat /\ \A i \in 1 .. Len(pages) : Sound(pages[i])
      BY <2>1, SequenceFacts DEF PagesInv
    <3>2. Gathers(pages, stored)
      BY <2>1 DEF RowsInv
    <3>3. Table.schema = Schema /\ Table.pages = pages
      BY DEF Table
    <3> QED BY <3>1, <3>2, <3>3, ScanFinds
  <2>3. DOMAIN index = { KeyOf(row) : row \in ToSet(stored) } \union refused
    BY <2>1 DEF KeysInv, StoredKeys
  <2>4. \A row \in ToSet(stored) :
           HasRecord(pages[index[KeyOf(row)][1] + 1], index[KeyOf(row)][2])
             /\ ValuesAt(pages[index[KeyOf(row)][1] + 1], index[KeyOf(row)][2]) = row
    BY <2>1 DEF PlacesInv, HeldAt, Holds
  <2> QED BY <2>2, <2>3, <2>4 DEF RowsAreFound
<1> QED
  BY <1>1, HeapInvHolds, PTL

-----------------------------------------------------------------------------
(***************************************************************************)
(* Pages that are full.                                                    *)
(***************************************************************************)

(* Header, slots and records of a page, added up slot by slot. *)
IsByteSum(f, m, page) ==
    f = [n \in 0 .. m |->
            IF n = 0 THEN PageHeaderSize ELSE f[n - 1] + SlotSize + Slot(page, n - 1).length]

BytesTo(n, off) == [i \in 0 .. n |-> SlotAt(i) + PAGE_SIZE - off[i]]

LEMMA ByteSumSteps ==
    ASSUME NEW page, NEW n, NEW off, NEW rows, NEW marks, PageHas(page, n, off, rows, marks)
    PROVE  /\ SlotAt(0) + PAGE_SIZE - off[0] = PageHeaderSize
           /\ \A i \in 1 .. n : SlotAt(i) + PAGE_SIZE - off[i] =
                 (SlotAt(i - 1) + PAGE_SIZE - off[i - 1]) + SlotSize + Slot(page, i - 1).length
<1>1. BackToBack(n, off, rows)
  BY DEF PageHas
<1>2. off[0] = PAGE_SIZE /\ PAGE_SIZE \in Nat /\ n \in Nat
  BY <1>1, Sizes DEF BackToBack
<1>3. SlotAt(0) = PageHeaderSize /\ SlotAt(0) \in Nat
  BY DEF SlotAt, PageHeaderSize, SlotSize
<1>4. ASSUME NEW i \in 1 .. n PROVE Slot(page, i - 1).length = RoomOf(rows[i])
  <2>1. Slot(page, i - 1) = [offset |-> off[i], length |-> RoomOf(rows[i])]
    BY PageReads
  <2> QED BY <2>1
<1>5. ASSUME NEW i \in 1 .. n
      PROVE  SlotAt(i) + PAGE_SIZE - off[i] =
                (SlotAt(i - 1) + PAGE_SIZE - off[i - 1]) + SlotSize + Slot(page, i - 1).length
  <2>1. off[i] + RoomOf(rows[i]) = off[i - 1] /\ rows[i] \in Tuples /\ off[i] \in Nat
    BY <1>1 DEF BackToBack
  <2>2. RoomOf(rows[i]) \in Nat
    BY <2>1, RoomFacts
  <2>3. Slot(page, i - 1).length = RoomOf(rows[i])
    BY <1>4
  <2>4. SlotAt(i) = SlotAt(i - 1) + SlotSize /\ SlotAt(i - 1) \in Nat
    BY <1>2 DEF SlotAt, PageHeaderSize, SlotSize
  <2>5. SlotSize \in Nat
    BY DEF SlotSize
  <2> QED BY <1>2, <2>1, <2>2, <2>3, <2>4, <2>5
<1> QED
  BY <1>2, <1>3, <1>5

LEMMA BytesInPage ==
    ASSUME NEW page, NEW n, NEW off, NEW rows, NEW marks, PageHas(page, n, off, rows, marks)
    PROVE  BytesIn(page) = SlotAt(n) + PAGE_SIZE - off[n]
<1> DEFINE Is(f) == f = [i \in 0 .. TotalSlots(page) |->
                            IF i = 0 THEN PageHeaderSize
                            ELSE f[i - 1] + SlotSize + Slot(page, i - 1).length]
           sum == CHOOSE f : Is(f)
           g == BytesTo(n, off)
           S == { i \in Nat : i <= n => sum[i] = g[i] }
<1>1. TotalSlots(page) = n /\ n \in Nat
  BY PageReads DEF PageHas, BackToBack
<1>2. \A f : Is(f) <=> IsByteSum(f, n, page)
  BY <1>1 DEF IsByteSum
<1>3. /\ g[0] = PageHeaderSize
      /\ \A i \in 1 .. n : g[i] = g[i - 1] + SlotSize + Slot(page, i - 1).length
      /\ g = [i \in 0 .. n |-> g[i]]
  <2>1. \A i \in 0 .. n : g[i] = SlotAt(i) + PAGE_SIZE - off[i]
    BY DEF BytesTo
  <2>2. 0 \in 0 .. n /\ \A i \in 1 .. n : i \in 0 .. n /\ i - 1 \in 0 .. n
    BY <1>1
  <2>3. g = [i \in 0 .. n |-> g[i]]
    BY DEF BytesTo
  <2> HIDE DEF g
  <2> QED BY <2>1, <2>2, <2>3, ByteSumSteps
<1> HIDE DEF g
<1>4. IsByteSum(g, n, page)
  <2>1. ASSUME NEW i \in 0 .. n
        PROVE  g[i] = IF i = 0 THEN PageHeaderSize
                      ELSE g[i - 1] + SlotSize + Slot(page, i - 1).length
    <3>1. i # 0 => i \in 1 .. n
      BY <1>1
    <3> QED BY <1>3, <3>1
  <2> QED BY <1>3, <2>1 DEF IsByteSum
<1>5. \E f : Is(f)
  <2> HIDE DEF Is
  <2> QED BY <1>2, <1>4
<1>6. Is(sum)
  BY <1>5
<1>7. IsByteSum(sum, n, page)
  <2> HIDE DEF Is, sum
  <2> QED BY <1>2, <1>6
<1>8. BytesIn(page) = sum[n]
  BY <1>1 DEF BytesIn
<1> HIDE DEF Is, sum
<1>9. /\ sum[0] = PageHeaderSize
      /\ \A i \in 1 .. n : sum[i] = sum[i - 1] + SlotSize + Slot(page, i - 1).length
  BY <1>1, <1>7 DEF IsByteSum
<1>10. 0 \in S
  BY <1>3, <1>9
<1>11. ASSUME NEW i \in S PROVE i + 1 \in S
  <2>1. i \in Nat /\ (i <= n => sum[i] = g[i])
    OBVIOUS
  <2>2. i + 1 <= n => i <= n /\ i + 1 \in 1 .. n /\ (i + 1) - 1 = i
    BY <1>1, <2>1
  <2>3. i + 1 <= n => sum[i + 1] = g[i + 1]
    BY <1>3, <1>9, <2>1, <2>2
  <2> QED BY <2>1, <2>3
<1>12. S = Nat
  <2>1. S \in SUBSET Nat
    OBVIOUS
  <2> HIDE DEF S
  <2> QED BY <1>10, <1>11, <2>1, EveryRound
<1>13. n \in S
  <2> HIDE DEF S
  <2> QED BY <1>1, <1>12
<1>14. sum[n] = g[n]
  BY <1>1, <1>13
<1>15. g[n] = SlotAt(n) + PAGE_SIZE - off[n]
  BY <1>1 DEF g, BytesTo
<1> QED
  BY <1>8, <1>14, <1>15

LEMMA FullPage ==
    ASSUME NEW page, Sound(page), NEW row \in Tuples, ~ HasRoom(page, TupleFor(row).len)
    PROVE  BytesIn(page) + TupleHeaderSize + SlotSize + TupleFor(row).len > PAGE_SIZE
<1>1. PICK n, off, rows, marks : PageHas(page, n, off, rows, marks)
  BY DEF Sound
<1> DEFINE len == TupleFor(row).len
           o == off[n]
           at == SlotAt(n)
<1>2. /\ ~ (o - at >= TupleHeaderSize + len + SlotSize)
      /\ o \in Nat /\ at \in Nat
  BY <1>1, RoomIsFree
<1>3. BytesIn(page) = at + PAGE_SIZE - o
  BY <1>1, BytesInPage
<1>4. len \in Nat /\ PAGE_SIZE \in Nat /\ TupleHeaderSize = 16 /\ SlotSize = 4
  BY TupleFacts, Sizes DEF TupleHeaderSize, SlotSize
<1> HIDE DEF len, o, at
<1>5. BytesIn(page) + TupleHeaderSize + SlotSize + len > PAGE_SIZE
  BY <1>2, <1>3, <1>4
<1> QED
  BY <1>5 DEF len

LEMMA SameRange ==
    ASSUME NEW a \in Nat, NEW b \in Nat, 1 .. a = 1 .. b
    PROVE  a = b
<1>1. a \in 1 .. a \/ a = 0
  OBVIOUS
<1>2. b \in 1 .. b \/ b = 0
  OBVIOUS
<1> QED
  BY <1>1, <1>2

(* A page is added only for a tuple that the bytes left on the last page,  *)
(* counted from what it holds, cannot take (dml.rs, write_tuple_to_heap).  *)
THEOREM PagesFilled == Spec => PagesAreFilled
<1> DEFINE Filled == Len(pages') > Len(pages) /\ pages # <<>> /\ stored' # stored =>
                        BytesIn(pages[Len(pages)]) + TupleHeaderSize + SlotSize
                            + FromValues(Schema, Last(stored')).len > PAGE_SIZE
<1>1. HeapInv /\ [Next]_vars => [Filled]_vars
  <2> SUFFICES ASSUME HeapInv, Next, Len(pages') > Len(pages), pages # <<>>, stored' # stored
               PROVE  BytesIn(pages[Len(pages)]) + TupleHeaderSize + SlotSize
                          + FromValues(Schema, Last(stored')).len > PAGE_SIZE
    OBVIOUS
  <2>1. /\ Len(pages) \in Nat /\ DOMAIN pages = 1 .. Len(pages)
        /\ \A i \in 1 .. Len(pages) : Sound(pages[i])
        /\ stored \in Seq(Tuples)
    BY SequenceFacts DEF HeapInv, PagesInv, RowsInv
  <2>2. CASE \E where \in Wheres : Delete(where)
    <3>1. HeapInv'
      BY <2>2, DeleteKeepsInv
    <3>2. Len(pages') \in Nat /\ DOMAIN pages' = 1 .. Len(pages')
      BY <3>1, SequenceFacts DEF HeapInv, PagesInv
    <3>3. DOMAIN pages' = DOMAIN pages
      BY <2>2 DEF Delete
    <3>4. Len(pages') = Len(pages)
      <4> DEFINE a == Len(pages')
                 b == Len(pages)
      <4>1. a \in Nat /\ b \in Nat /\ 1 .. a = 1 .. b
        BY <2>1, <3>2, <3>3
      <4> HIDE DEF a, b
      <4>2. a = b
        BY <4>1, SameRange
      <4> QED BY <4>2 DEF a, b
    <3> QED BY <2>1, <3>4
  <2>3. CASE \E row \in Tuples : Insert(row)
    <3>1. PICK row \in Tuples : Insert(row)
      BY <2>3
    <3>2. /\ WriteTuple(TupleFor(row))
          /\ stored' = IF Fits(row) THEN Append(stored, row) ELSE stored
      BY <3>1 DEF Insert, TupleFor
    <3>3. stored' = Append(stored, row)
      BY <3>2
    <3>4. Last(stored') = row
      <4>1. Len(stored') = Len(stored) + 1 /\ stored'[Len(stored) + 1] = row
        BY <2>1, <3>3, AppendEntries
      <4> QED BY <4>1 DEF Last
    <3>5. ~ InLastPage(TupleFor(row))
      <4> SUFFICES ASSUME InLastPage(TupleFor(row)) PROVE FALSE
        OBVIOUS
      <4> DEFINE p == InsertRecord(pages[Len(pages)], TupleFor(row))
      <4>1. pages' = [pages EXCEPT ![Len(pages)] = p]
        BY <3>2 DEF WriteTuple
      <4>2. IsSequence(pages) /\ Len(pages) # 0
        <5>1. IsSequence(pages)
          BY DEF HeapInv, PagesInv
        <5> QED BY <5>1, SequenceFacts
      <4> HIDE DEF p
      <4>3. LastReplaced([pages EXCEPT ![Len(pages)] = p], pages, p)
        BY <4>2, ReplacedLastPage
      <4>4. Len(pages') = Len(pages)
        BY <4>1, <4>3 DEF LastReplaced
      <4> QED BY <2>1, <4>4
    <3>6. Len(pages) \in 1 .. Len(pages)
      <4>1. IsSequence(pages)
        BY DEF HeapInv, PagesInv
      <4>2. Len(pages) # 0
        BY <4>1, SequenceFacts
      <4> QED BY <2>1, <4>2
    <3> DEFINE page == pages[Len(pages)]
    <3>7. Sound(page) /\ ~ HasRoom(page, TupleFor(row).len)
      BY <2>1, <3>5, <3>6 DEF InLastPage
    <3> HIDE DEF page
    <3>8. BytesIn(page) + TupleHeaderSize + SlotSize + TupleFor(row).len > PAGE_SIZE
      BY <3>7, FullPage
    <3> QED BY <3>4, <3>8 DEF page, TupleFor
  <2> QED BY <2>2, <2>3 DEF Next
<1>2. Spec => [][Filled]_vars
  BY <1>1, HeapInvHolds, PTL DEF Spec
<1> QED
  BY <1>2 DEF PagesAreFilled
=============================================================================
