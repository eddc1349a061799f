---------------------------- MODULE MCHeapTable -----------------------------
(* Instances of the table for TLC. *)
EXTENDS HeapTable

Columns == <<Column("id", "integer"), Column("flag", "boolean"), Column("name", "varchar")>>
RightColumns == <<Column("ref", "integer"), Column("seen", "boolean"), Column("word", "varchar")>>

(* A page has 8176 bytes for tuples and their slots, a row takes 30 and its *)
(* string: an empty string, two halves of a page to the byte and one byte   *)
(* more, a whole page to the byte, and one byte too many.                   *)
Row(id, flag, n) == <<<<"integer", id>>, <<"boolean", flag>>, <<"varchar", n>>>>

Offered == {Row(0, FALSE, 0), Row(MinInt, TRUE, 4058), Row(MaxInt, FALSE, 4058),
            Row(0, TRUE, 4059), Row(1, TRUE, 8146), Row(1, TRUE, 8147)}

Condition(column, operator, right, next) ==
    [column |-> column, operator |-> operator, right |-> right, next |-> next]

Int_(n) == <<"integer", n>>
Text(n) == <<"varchar", n>>

OnId(operator, n) == <<Condition("id", operator, Int_(n), "none")>>

Statements ==
    {<<>>}
    \union { OnId(op, n) : op \in {"=", "!=", ">", ">=", "<", "<="}, n \in {MinInt, 0, MaxInt} }
    \union { <<Condition("id", "=", Text(1), "none")>>,
             <<Condition("flag", "=", <<"boolean", TRUE>>, "none")>>,
             <<Condition("flag", ">", <<"boolean", FALSE>>, "none")>>,
             <<Condition("name", ">=", Text(4058), "and"), Condition("id", ">", Int_(0), "none")>>,
             <<Condition("id", "=", Int_(0), "or"), Condition("flag", "=", <<"boolean", TRUE>>, "and"),
               Condition("name", "<", Text(4059), "none")>> }

OverBoth ==
    {<<>>,
     <<Condition("word", "=", Text(4058), "and"), Condition("id", "<=", Int_(0), "none")>>,
     <<Condition("id", ">", Int_(0), "or"), Condition("seen", "=", <<"boolean", TRUE>>, "none")>>}

OnEither == {<<"id", "ref">>, <<"name", "word">>, <<"flag", "seen">>}
=============================================================================
