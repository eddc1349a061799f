----------------------------- MODULE QueryPlan ------------------------------
(***************************************************************************)
(* SELECT (wackdb_cli, commands/query.rs) and the executors it is built    *)
(* from (wackdb_query).  Executors are pulled one tuple at a time, but     *)
(* nothing changes under a statement, so an executor is the sequence of    *)
(* the tuples it would return, with its schema; `ok` is FALSE if it would  *)
(* return an error.                                                        *)
(*                                                                         *)
(* A table is its schema, its pages and its index, a function from keys to *)
(* CTIDs <<page, slot>> (what BTree.tla shows the index to be).  The value *)
(* on the right of a condition is what it parses to, as in TupleCodec.     *)
(***************************************************************************)
EXTENDS SlottedPage, TupleCodec, Subsequences, TLC

MaxInt == 2147483647
MinInt == -2147483647 - 1

Executor(schema, tuples, ok) == [schema |-> schema, tuples |-> tuples, ok |-> ok]

(* The first column with a name, or 0.                                     *)
Position(schema, name) ==
    LET named == { i \in DOMAIN schema : schema[i].name = name }
    IN  IF named = {} THEN 0 ELSE CHOOSE i \in named : \A j \in named : i <= j

Has(schema, name) == Position(schema, name) # 0

-----------------------------------------------------------------------------
(* evaluate_where_clause *)

(* A condition on a value of another type is false, and so is a boolean    *)
(* compared by order.                                                      *)
Matches(value, operator, right) ==
    /\ value[1] = right[1]
    /\ LET v == value[2]
           r == right[2]
       IN  \/ operator = "=" /\ v = r
           \/ operator = "!=" /\ v # r
           \/ /\ value[1] # "boolean"
              /\ \/ operator = ">" /\ v > r
                 \/ operator = ">=" /\ v >= r
                 \/ operator = "<" /\ v < r
                 \/ operator = "<=" /\ v <= r

(* A condition on a column that is not in the schema is skipped, with what *)
(* connects it to the next one.                                            *)
EvaluateWhereClause(where, schema, values) ==
    LET Step(so_far, i) ==
            LET group == /\ so_far.group
                         /\ Matches(values[Position(schema, where[i].column)],
                                    where[i].operator, where[i].right)
                final == so_far.final \/ group
            IN  IF ~Has(schema, where[i].column) THEN so_far
                ELSE IF where[i].next = "or" THEN [final |-> final, group |-> TRUE]
                ELSE IF i = Len(where) THEN [final |-> final, group |-> group]
                ELSE [so_far EXCEPT !.group = group]
        after[i \in 0 .. Len(where)] ==
            IF i = 0 THEN [final |-> FALSE, group |-> TRUE] ELSE Step(after[i - 1], i)
    IN  where = <<>> \/ after[Len(where)].final

-----------------------------------------------------------------------------
(* Scans *)

(* A page that was never allocated reads as zeros.                         *)
PageOf(table, n) == IF n < Len(table.pages) THEN table.pages[n + 1] ELSE {}

RecordsOn(page) ==
    LET slots == Picked([i \in 1 .. TotalSlots(page) |-> i - 1],
                        { i \in 1 .. TotalSlots(page) : HasRecord(page, i - 1) })
    IN  [k \in DOMAIN slots |-> Record(page, slots[k])]

SeqScan(table, max_pages) ==
    Executor(table.schema,
             FlattenSeq([n \in 1 .. max_pages + 1 |-> RecordsOn(PageOf(table, n - 1))]),
             TRUE)

(* The CTIDs come in the order of the keys; one without a record is an     *)
(* error.                                                                  *)
IndexScan(table, start, end) ==
    LET keys == SortSeq(SetToSeq({ k \in DOMAIN table.index : start <= k /\ k <= end }), <)
        Page(k) == PageOf(table, table.index[k][1])
        SlotOf(k) == table.index[k][2]
    IN  Executor(table.schema,
                 [n \in DOMAIN keys |-> Record(Page(keys[n]), SlotOf(keys[n]))],
                 \A k \in ToSet(keys) : HasRecord(Page(k), SlotOf(k)))

SaturatingSucc(v) == IF v = MaxInt THEN v ELSE v + 1
SaturatingPred(v) == IF v = MinInt THEN v ELSE v - 1

Bounds(operator, v) ==
    CASE operator = "=" -> <<v, v>>
      [] operator = ">" -> <<SaturatingSucc(v), MaxInt>>
      [] operator = ">=" -> <<v, MaxInt>>
      [] operator = "<" -> <<MinInt, SaturatingPred(v)>>
      [] operator = "<=" -> <<MinInt, v>>

(* The index is used for a single condition on a column called id; it is   *)
(* there as soon as the first row was inserted.                            *)
UsesIndex(table, where) ==
    /\ table.pages # <<>>
    /\ Len(where) = 1
    /\ where[1].column = "id"
    /\ where[1].right[1] = "integer"
    /\ where[1].operator # "!="

BasePipeline(table, where) ==
    IF UsesIndex(table, where)
    THEN LET bounds == Bounds(where[1].operator, where[1].right[2])
         IN  IndexScan(table, bounds[1], bounds[2])
    ELSE SeqScan(table, IF table.pages = <<>> THEN 0 ELSE Len(table.pages) - 1)

-----------------------------------------------------------------------------
(* Filter, projection and joins *)

Filter(child, where) ==
    [child EXCEPT !.tuples = SelectSeq(@,
        LAMBDA t : EvaluateWhereClause(where, child.schema, ToValues(child.schema, t)))]

(* Columns that are not in the schema are left out.                        *)
Project(child, columns) ==
    LET known == SelectSeq(columns, LAMBDA c : Has(child.schema, c))
        Pick(s) == [k \in DOMAIN known |-> s[Position(child.schema, known[k])]]
    IN  Executor(Pick(child.schema),
                 [n \in DOMAIN child.tuples |->
                     FromValues(Pick(child.schema), Pick(ToValues(child.schema, child.tuples[n])))],
                 child.ok)

FieldOf(child, t, column) == ToValues(child.schema, t)[Position(child.schema, column)]

Combined(left, lt, right, rt) ==
    FromValues(left.schema \o right.schema,
               ToValues(left.schema, lt) \o ToValues(right.schema, rt))

(* The right side is put into a table by the value of its column; a column *)
(* that is not there is an error.                                          *)
HashJoin(left, right, left_col, right_col) ==
    LET Key(t) == FieldOf(right, t, right_col)
        bucket == [v \in { Key(t) : t \in ToSet(right.tuples) } |->
                      SelectSeq(right.tuples, LAMBDA t : Key(t) = v)]
        Matched(lt) ==
            LET v == FieldOf(left, lt, left_col)
                found == IF v \in DOMAIN bucket THEN bucket[v] ELSE <<>>
            IN  [k \in DOMAIN found |-> Combined(left, lt, right, found[k])]
        named == Has(right.schema, right_col)
                    /\ (Has(left.schema, left_col) \/ left.tuples = <<>>)
    IN  Executor(left.schema \o right.schema,
                 IF named THEN FlattenSeq([n \in DOMAIN left.tuples |-> Matched(left.tuples[n])])
                 ELSE <<>>,
                 left.ok /\ right.ok /\ named)

(* Every pair of tuples is compared; a column that is not there matches    *)
(* nothing.                                                                *)
NestedLoopJoin(left, right, left_col, right_col) ==
    LET named == Has(left.schema, left_col) /\ Has(right.schema, right_col)
        Equal(lt, rt) ==
            named /\ FieldOf(left, lt, left_col) = FieldOf(right, rt, right_col)
        RowsFor(lt) ==
            LET found == SelectSeq(right.tuples, LAMBDA rt : Equal(lt, rt))
            IN  [k \in DOMAIN found |-> Combined(left, lt, right, found[k])]
    IN  Executor(left.schema \o right.schema,
                 FlattenSeq([n \in DOMAIN left.tuples |-> RowsFor(left.tuples[n])]),
                 left.ok /\ right.ok)

-----------------------------------------------------------------------------
(* ExternalMergeSort *)

Rank(value) == IF value[1] = "boolean" THEN (IF value[2] THEN 1 ELSE 0) ELSE value[2]

(* Value of column number c, as a number.                                  *)
SortKey(schema, c, t) == Rank(ToValues(schema, t)[c])

(* sort_by is stable.                                                      *)
SortBuffer(tuples, schema, c) ==
    LET key == [i \in DOMAIN tuples |-> SortKey(schema, c, tuples[i])]
        order == SortSeq([i \in DOMAIN tuples |-> i],
                         LAMBDA i, j : key[i] < key[j] \/ (key[i] = key[j] /\ i < j))
    IN  [n \in DOMAIN tuples |-> tuples[order[n]]]

(* The chunks of the input, each sorted and spilled to a file.             *)
SortedRuns(tuples, size, schema, c) ==
    [r \in 1 .. (Len(tuples) + size - 1) \div size |->
        SortBuffer(SubSeq(tuples, (r - 1) * size + 1,
                          IF r * size < Len(tuples) THEN r * size ELSE Len(tuples)),
                   schema, c)]

(* The least of the runs' heads is next, the first run's among equals.     *)
MergeRuns(runs, schema, c) ==
    LET merged[at \in [DOMAIN runs -> Nat]] ==
            LET open == { r \in DOMAIN runs : at[r] <= Len(runs[r]) }
                key == [r \in open |-> SortKey(schema, c, runs[r][at[r]])]
                best == CHOOSE r \in open : \A other \in open :
                            key[r] < key[other] \/ (key[r] = key[other] /\ r <= other)
            IN  IF open = {} THEN <<>>
                ELSE <<runs[best][at[best]]>> \o merged[[at EXCEPT ![best] = @ + 1]]
    IN  merged[[r \in DOMAIN runs |-> 1]]

ExternalMergeSort(child, column, chunk_size) ==
    LET c == Position(child.schema, column)
        size == IF chunk_size = 0 THEN 1 ELSE chunk_size
    IN  IF c = 0 THEN [child EXCEPT !.ok = FALSE]
        ELSE [child EXCEPT !.tuples =
                 IF Len(@) < size THEN SortBuffer(@, child.schema, c)
                 ELSE MergeRuns(SortedRuns(@, size, child.schema, c), child.schema, c)]

-----------------------------------------------------------------------------
(* execute_query *)

(* Mutant: conditions on the base table are pushed below an OR.            *)
PushedDownAlways(where, schema) ==
    SelectSeq(where, LAMBDA condition : Has(schema, condition.column))

(* Which conditions are evaluated before the joins: those on the base      *)
(* table, unless an OR connects them with others.                          *)
PushedDown(where, schema) ==
    LET OnBase(condition) == Has(schema, condition.column)
        has_or == \E i \in DOMAIN where : where[i].next = "or"
        all_base == \A i \in DOMAIN where : OnBase(where[i])
    IN  IF has_or /\ ~all_base THEN <<>> ELSE SelectSeq(where, OnBase)

Remaining(where, schema) ==
    LET has_or == \E i \in DOMAIN where : where[i].next = "or"
        all_base == \A i \in DOMAIN where : Has(schema, where[i].column)
    IN  IF has_or /\ ~all_base THEN where
        ELSE SelectSeq(where, LAMBDA condition : ~Has(schema, condition.column))

(* A query's join is <<>> or <<right table, left_col, right_col>>, the     *)
(* small tables are those with less than 10000 records.                    *)
Joined(left, join, small) ==
    IF join = <<>> THEN left
    ELSE LET right == BasePipeline(join[1], <<>>)
         IN  IF small THEN HashJoin(left, right, join[2], join[3])
             ELSE NestedLoopJoin(left, right, join[2], join[3])

Select(table, where, join, small) ==
    LET base_where == PushedDown(where, table.schema)
        base == Filter(BasePipeline(table, base_where), base_where)
    IN  Filter(Joined(base, join, small), Remaining(where, table.schema))

Rows(executor) ==
    [n \in DOMAIN executor.tuples |-> ToValues(executor.schema, executor.tuples[n])]
=============================================================================
