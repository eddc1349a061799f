----------------------------- MODULE SqlParser -----------------------------
(***************************************************************************)
(* parse_sql (wackdb_sql, parser.rs): from the text of a statement to its  *)
(* Ast, by searching the text for keywords and separators.                 *)
(*                                                                         *)
(* A text is a sequence of symbols: words (keywords, names and numbers,    *)
(* ASCII and of one case), " ", line breaks "\n", quotes, punctuation,     *)
(* operators and "--".  The names and values of an Ast are such texts.     *)
(***************************************************************************)
EXTENDS Integers, Sequences

Refused == [kind |-> "refused"] \* Err(...)
Panic == [kind |-> "panic"]     \* a slice that ends before it begins

-----------------------------------------------------------------------------
(* Texts: what the methods of str do. *)

White == {" ", "\n"}

IsAt(text, i, pattern) ==
    i + Len(pattern) - 1 <= Len(text) /\ SubSeq(text, i, i + Len(pattern) - 1) = pattern
StartsWith(text, pattern) == IsAt(text, 1, pattern)

(* find, from a position on; 0 where the code has None.                    *)
Find(text, pattern, from) ==
    LET hits == { i \in from .. Len(text) : IsAt(text, i, pattern) } IN
    IF hits = {} THEN 0 ELSE CHOOSE i \in hits : \A j \in hits : i <= j

Rest(text, i) == SubSeq(text, i, Len(text))

(* trim, trim_matches: without the symbols of a set at its ends.           *)
TrimOf(symbols, text) ==
    LET kept == { i \in DOMAIN text : text[i] \notin symbols } IN
    IF kept = {} THEN <<>>
    ELSE SubSeq(text, CHOOSE i \in kept : \A j \in kept : i <= j,
                      CHOOSE i \in kept : \A j \in kept : i >= j)

Trim(text) == TrimOf(White, text)
TrimQuotes(text) == TrimOf({"'"}, text)

RECURSIVE TrimStart(_, _), TrimEnd(_, _), Split(_, _)
TrimStart(symbol, text) ==
    IF StartsWith(text, <<symbol>>) THEN TrimStart(symbol, Rest(text, 2)) ELSE text

TrimEnd(symbol, text) ==
    IF text # <<>> /\ text[Len(text)] = symbol
    THEN TrimEnd(symbol, SubSeq(text, 1, Len(text) - 1)) ELSE text

(* split at a symbol *)
Split(text, symbol) ==
    LET i == Find(text, <<symbol>>, 1) IN
    IF i = 0 THEN <<text>>
    ELSE <<SubSeq(text, 1, i - 1)>> \o Split(Rest(text, i + 1), symbol)

Words(text) == SelectSeq(Split(text, " "), LAMBDA piece : piece # <<>>)

(* split('.').next_back(): the name behind its qualifier.                  *)
AfterDot(text) == LET pieces == Split(text, ".") IN pieces[Len(pieces)]

-----------------------------------------------------------------------------
(* normalize_sql: comments go, white space outside of quotes becomes one   *)
(* space.                                                                  *)

Blank(s) == IF s.space THEN s ELSE [s EXCEPT !.out = Append(@, " "), !.space = TRUE]
Keep(s, c) == [s EXCEPT !.out = Append(@, c), !.space = FALSE]

(* Mutant: the line break at the end of a comment goes with it. *)
NormalizeStepJoinsLines(s, c) ==
    IF s.comment THEN [s EXCEPT !.comment = c # "\n"]
    ELSE IF c = "--" /\ ~s.quotes THEN [s EXCEPT !.comment = TRUE]
    ELSE IF c = "'" THEN [Keep(s, c) EXCEPT !.quotes = ~@]
    ELSE IF c \in White /\ ~s.quotes THEN Blank(s)
    ELSE Keep(s, c)

NormalizeStep(s, c) ==
    IF s.comment THEN IF c = "\n" THEN [Blank(s) EXCEPT !.comment = FALSE] ELSE s
    ELSE IF c = "--" /\ ~s.quotes THEN [s EXCEPT !.comment = TRUE]
    ELSE IF c = "'" THEN [Keep(s, c) EXCEPT !.quotes = ~@]
    ELSE IF c \in White /\ ~s.quotes THEN Blank(s)
    ELSE Keep(s, c)

NormalizeSql(text) ==
    LET f[n \in 0 .. Len(text)] ==
            IF n = 0 THEN [out |-> <<>>, quotes |-> FALSE, comment |-> FALSE, space |-> FALSE]
            ELSE NormalizeStep(f[n - 1], text[n]) IN
    Trim(f[Len(text)].out)

-----------------------------------------------------------------------------
(* WHERE *)

Spaced(word) == <<" ", word, " ">>

(* The conditions as texts, cut at the words between them, wherever these  *)
(* are.                                                                    *)
RECURSIVE RawConditions(_, _)
RawConditions(text, i) ==
    LET cut(next) == <<[text |-> SubSeq(text, 1, i - 1), next |-> next]>>
                        \o RawConditions(Rest(text, i + 3), 1) IN
    IF i > Len(text) THEN <<[text |-> text, next |-> "none"]>>
    ELSE IF IsAt(text, i, Spaced("and")) THEN cut("and")
    ELSE IF IsAt(text, i, Spaced("or")) THEN cut("or")
    ELSE RawConditions(text, i + 1)

Operators == <<">=", "<=", "!=", ">", "<", "=">>

(* Which operator a condition has: the first of this list it contains.     *)
OperatorOf(text) ==
    LET in == { n \in DOMAIN Operators : Find(text, <<Operators[n]>>, 1) # 0 } IN
    IF in = {} THEN "none" ELSE Operators[CHOOSE n \in in : \A m \in in : n <= m]

Condition(raw, qualified) ==
    LET text == Trim(raw.text)
        at == Find(text, <<OperatorOf(text)>>, 1)
        left == Trim(SubSeq(text, 1, at - 1)) IN
    [left_col |-> IF qualified THEN AfterDot(left) ELSE left,
     operator |-> OperatorOf(text),
     right_val |-> TrimQuotes(Trim(Rest(text, at + 1))),
     next_logic |-> raw.next]

(* One without an operator is left out, with the word that follows it.     *)
(* SELECT removes qualifiers of columns, DELETE does not.                  *)
WhereClause(text, qualified) ==
    LET HasOperator(raw) == OperatorOf(Trim(raw.text)) # "none"
        raws == SelectSeq(RawConditions(text, 1), HasOperator) IN
    [i \in DOMAIN raws |-> Condition(raws[i], qualified)]

-----------------------------------------------------------------------------
(* SELECT *)

OrderBy == <<" ", "order", " ", "by", " ">>

(* JOIN clauses, then WHERE, then ORDER BY, from a position of the text    *)
(* behind FROM on.  A clause that is out of this order is part of the one  *)
(* before it.                                                              *)
RECURSIVE Clauses(_, _, _)
Clauses(rest, pos, ast) ==
    LET j == Find(rest, Spaced("join"), pos)
        w == Find(rest, Spaced("where"), pos)
        o == Find(rest, OrderBy, pos)
        end == Len(rest) + 1
        on == Find(rest, Spaced("on"), j)
        nextJoin == Find(rest, Spaced("join"), on)
        onEnd == IF nextJoin # 0 THEN nextJoin ELSE IF w # 0 THEN w ELSE IF o # 0 THEN o ELSE end
        whereEnd == IF o # 0 THEN o ELSE end
        names == Words(SubSeq(rest, j + 3, on - 1))
        sides == Split(SubSeq(rest, on + 3, onEnd - 1), "=")
        joins == j # 0 /\ IF w # 0 THEN j < w ELSE o # 0 => j < o IN
    IF pos >= end THEN ast
    ELSE IF joins
    THEN IF on = 0 THEN Refused
         ELSE IF on < j + 3 \/ onEnd < on + 3 THEN Panic
         ELSE IF names = <<>> \/ Len(sides) < 2 THEN Refused
         ELSE Clauses(rest, onEnd, [ast EXCEPT !.join = Append(@,
                  [table |-> names[1], alias |-> IF Len(names) > 1 THEN names[2] ELSE <<>>,
                   left_col |-> AfterDot(Trim(sides[1])),
                   right_col |-> AfterDot(Trim(sides[2]))])])
    ELSE IF w # 0 /\ (o = 0 \/ w < o)
    THEN IF whereEnd < w + 3 THEN Panic
         ELSE Clauses(rest, whereEnd, [ast EXCEPT !.where_clause =
                  @ \o WhereClause(Trim(SubSeq(rest, w + 3, whereEnd - 1)), TRUE)])
    ELSE IF o # 0 THEN [ast EXCEPT !.order_by = Trim(Rest(rest, o + 5))]
    ELSE ast

ParseSelect(sql) ==
    LET from == Find(sql, Spaced("from"), 1)
        columns == Split(Trim(SubSeq(sql, 3, from - 1)), ",")
        rest == Trim(Rest(sql, from + 3))
        ends == << Find(rest, Spaced("join"), 1), Find(rest, Spaced("where"), 1),
                   Find(rest, OrderBy, 1), Len(rest) + 1 >>
        tableEnd == ends[CHOOSE n \in 1 .. 4 : ends[n] # 0 /\ \A m \in 1 .. n - 1 : ends[m] = 0]
        names == Words(SubSeq(rest, 1, tableEnd - 1)) IN
    IF from = 0 THEN Refused
    ELSE IF from < 3 THEN Panic
    ELSE IF names = <<>> THEN Refused
    ELSE Clauses(rest, tableEnd,
             [kind |-> "select",
              columns |-> [i \in DOMAIN columns |-> AfterDot(Trim(columns[i]))],
              table |-> names[1], alias |-> IF Len(names) > 1 THEN names[2] ELSE <<>>,
              join |-> <<>>, where_clause |-> <<>>, order_by |-> <<>>])

-----------------------------------------------------------------------------
(* The other statements *)

ParseInsert(sql) ==
    LET v == Find(sql, Spaced("values"), 1)
        list == TrimEnd(")", TrimStart("(", Trim(Rest(sql, v + 3))))
        values == Split(list, ",") IN
    IF v = 0 THEN Refused
    ELSE IF v < 5 THEN Panic
    ELSE [kind |-> "insert", table |-> Trim(SubSeq(sql, 5, v - 1)),
          values |-> [i \in DOMAIN values |-> TrimQuotes(Trim(values[i]))]]

IfNotExists == <<"if", " ", "not", " ", "exists", " ">>
IfExists == <<"if", " ", "exists", " ">>

(* A column without a type is left out. *)
ParseCreate(sql) ==
    LET rest == Trim(Rest(sql, 5))
        part == Trim(IF StartsWith(rest, IfNotExists) THEN Rest(rest, 7) ELSE rest)
        paren == Find(part, <<"(">>, 1)
        list == Split(TrimEnd(")", Trim(Rest(part, paren + 1))), ",")
        typed == SelectSeq(list, LAMBDA column : Len(Words(column)) >= 2) IN
    [kind |-> "create",
     table |-> IF paren # 0 THEN Trim(SubSeq(part, 1, paren - 1))
               ELSE IF Words(part) = <<>> THEN <<>> ELSE Words(part)[1],
     columns |-> IF paren = 0 THEN <<>>
                 ELSE [i \in DOMAIN typed |-> [name |-> Words(typed[i])[1],
                                               data_type |-> Words(typed[i])[2]]],
     if_not_exists |-> StartsWith(rest, IfNotExists)]

ParseDrop(sql) ==
    LET rest == Rest(sql, 5) IN
    [kind |-> "drop",
     table |-> Trim(IF StartsWith(rest, IfExists) THEN Rest(Trim(rest), 5) ELSE rest),
     if_exists |-> StartsWith(rest, IfExists)]

ParseDelete(sql) ==
    LET rest == Trim(Rest(sql, 5))
        w == Find(rest, Spaced("where"), 1) IN
    [kind |-> "delete",
     table |-> Trim(IF w = 0 THEN rest ELSE SubSeq(rest, 1, w - 1)),
     where_clause |-> IF w = 0 THEN <<>>
                      ELSE WhereClause(Trim(Rest(rest, w + 3)), FALSE)]

ParseSql(raw) ==
    LET sql == NormalizeSql(TrimEnd(";", Trim(raw))) IN
    IF StartsWith(sql, <<"select", " ">>) THEN ParseSelect(sql)
    ELSE IF StartsWith(sql, <<"insert", " ", "into", " ">>) THEN ParseInsert(sql)
    ELSE IF StartsWith(sql, <<"create", " ", "table", " ">>) THEN ParseCreate(sql)
    ELSE IF StartsWith(sql, <<"drop", " ", "table", " ">>) THEN ParseDrop(sql)
    ELSE IF StartsWith(sql, <<"delete", " ", "from", " ">>) THEN ParseDelete(sql)
    ELSE Refused

=============================================================================
