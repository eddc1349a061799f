------------------------------- MODULE Bytes --------------------------------
(***************************************************************************)
(* Runs of bytes, as the pieces that were written into them.  A piece      *)
(* [at, len, what] says that `what` was written at offset `at`, where it   *)
(* takes `len` bytes, and that nothing was written over any of them since. *)
(* Bytes that were never written are zero.  What is written and read are   *)
(* tuples whose first element says what they are.                          *)
(***************************************************************************)
EXTENDS Integers

(* A number in 16 bits. *)
U16(n) == n % 65536

Zero == <<"zero">>
Garbage == <<"garbage">>        \* parts of one thing or of several

Piece(at, len, what) == [at |-> at, len |-> len, what |-> what]

Apart(e, at, len) == e.at + e.len <= at \/ at + len <= e.at

Within(e, at, len) == at <= e.at /\ e.at + e.len <= at + len

Touched(b, at, len) == { e \in b : ~Apart(e, at, len) }

Write(b, at, len, what) == (b \ Touched(b, at, len)) \union {Piece(at, len, what)}

(* Reading returns what was written, if that is exactly what is there.     *)
Read(b, at, len) ==
    LET found == Touched(b, at, len)
    IN  IF found = {} THEN Zero
        ELSE IF \E e \in found : found = {Piece(at, len, e.what)}
        THEN (CHOOSE e \in found : TRUE).what
        ELSE Garbage

(* The bytes [at .. at + len] as a run of its own, and such a run copied   *)
(* to another place.                                                       *)
Slice(b, at, len) ==
    { Piece(e.at - at, e.len, IF Within(e, at, len) THEN e.what ELSE Garbage)
        : e \in Touched(b, at, len) }

Copy(b, at, len, source) ==
    (b \ Touched(b, at, len)) \union { Piece(e.at + at, e.len, e.what) : e \in source }
=============================================================================
