----------------------------- MODULE HeapTable ------------------------------
(***************************************************************************)
(* One table down to its bytes: INSERT and DELETE (wackdb_cli, dml.rs)     *)
(* through the tuple codec and the slotted page, and the SELECTs that may  *)
(* be asked between them.  A statement runs alone and to its end; crashes, *)
(* the log and the counters of the catalog are in Engine.tla.              *)
(***************************************************************************)
EXTENDS QueryPlan

CONSTANTS
    Schema,                     \* columns; the first one, the key, is an integer
    RightSchema,                \* of a second table that got the same rows
    Tuples,                     \* rows that INSERTs offer
    MaxInserts,                 \* bound: INSERTs that report success
    MaxDeletes,                 \* bound: DELETEs that remove something
    Wheres,                     \* conditions of statements on the table
    JoinWheres,                 \* conditions of SELECTs with a join
    JoinColumns,                \* pairs of columns that tables are joined on
    ChunkSizes                  \* sort_chunk_size

IsSequence(s) == s \in Seq(ToSet(s))

HasType(value, type) ==
    /\ value = <<type, value[2]>>
    /\ type = "varchar" => value[2] \in Nat

ASSUME SchemaAssumption ==
    /\ IsSequence(Schema) /\ Schema # <<>> /\ Schema[1].type = "integer"
    /\ Len(RightSchema) = Len(Schema)
    /\ \A i \in DOMAIN Schema : Schema[i].type \in {"integer", "boolean", "varchar"}

(* INSERT parses a value of its type for every column (parse_values).      *)
ASSUME RowAssumption ==
    \A row \in Tuples :
        /\ IsSequence(row) /\ Len(row) = Len(Schema)
        /\ \A i \in DOMAIN row : HasType(row[i], Schema[i].type)

(* A longer tuple overflows the arithmetic of insert_record, which panics. *)
ASSUME LengthAssumption ==
    \A row \in Tuples : FromValues(Schema, row).len < 65536 - TupleHeaderSize - SlotSize

ASSUME WhereAssumption ==
    \A where \in Wheres :
        /\ IsSequence(where)
        /\ \A i \in DOMAIN where : Has(Schema, where[i].column)

ASSUME BoundAssumption == MaxInserts \in Nat /\ MaxDeletes \in Nat

VARIABLES
    pages,                      \* of the heap file
    index,                      \* key -> CTID
    stored,                     \* history: the rows a client may expect, in order
    refused,                    \* history: keys whose tuple no page has room for
    inserts, deletes            \* counters of the bounds

vars == <<pages, index, stored, refused, inserts, deletes>>

Init ==
    /\ pages = <<>>
    /\ index = [k \in {} |-> <<0, 0>>]
    /\ stored = <<>> /\ refused = {}
    /\ inserts = 0 /\ deletes = 0

KeyOf(row) == row[1][2]
Keys == { KeyOf(row) : row \in Tuples }

(* What a statement's conditions ask for: a disjunction of conjunctions.   *)
Groups(where) ==
    LET Starts == { i \in DOMAIN where : i = 1 \/ where[i - 1].next = "or" }
        GroupOf(s) == { i \in s .. Len(where) : \A j \in s .. i - 1 : where[j].next # "or" }
    IN  { GroupOf(s) : s \in Starts }

Meets(schema, row, where) ==
    \/ where = <<>>
    \/ \E group \in Groups(where) : \A i \in group :
          Matches(row[Position(schema, where[i].column)], where[i].operator, where[i].right)

Fits(row) == HasRoom(EmptyPage, FromValues(Schema, row).len)

-----------------------------------------------------------------------------
(* write_tuple_to_heap: the last page, or a new one.  A tuple that even a  *)
(* new page refuses gets the CTID of the slot a later tuple will have.     *)
InLastPage(tuple) ==
    /\ pages # <<>>
    /\ HasRoom(pages[Len(pages)], tuple.len)

NewPageWith(tuple) ==
    IF HasRoom(EmptyPage, tuple.len) THEN InsertRecord(EmptyPage, tuple) ELSE EmptyPage

CTIDFor(tuple) ==
    IF InLastPage(tuple) THEN <<Len(pages) - 1, TotalSlots(pages[Len(pages)])>>
    ELSE <<Len(pages), 0>>

WriteTuple(tuple) ==
    pages' = IF InLastPage(tuple) THEN [pages EXCEPT ![Len(pages)] = InsertRecord(@, tuple)]
             ELSE Append(pages, NewPageWith(tuple))

(* INSERT; a key the index has ends it without a change.                   *)
Insert(row) ==
    LET tuple == FromValues(Schema, row)
        key == KeyOf(row)
    IN  /\ inserts < MaxInserts
        /\ key \notin DOMAIN index
        /\ WriteTuple(tuple)
        /\ index' = [k \in DOMAIN index \union {key} |->
                        IF k = key THEN CTIDFor(tuple) ELSE index[k]]
        /\ stored' = IF Fits(row) THEN Append(stored, row) ELSE stored
        /\ refused' = IF Fits(row) THEN refused ELSE refused \union {key}
        /\ inserts' = inserts + 1
        /\ UNCHANGED deletes

-----------------------------------------------------------------------------
(* DELETE: on every page the slots to delete are collected first; each is  *)
(* marked, and its key, read from the bytes that are left, goes out of the *)
(* index.                                                                  *)
ValuesAt(page, i) == ToValues(Schema, Record(page, i))

SlotsToDelete(page, where) ==
    { i \in LiveSlots(page) : EvaluateWhereClause(where, Schema, ValuesAt(page, i)) }

WithoutSlots(page, slots) ==
    LET marked[n \in 0 .. TotalSlots(page)] ==
            IF n = 0 THEN page
            ELSE IF n - 1 \in slots THEN MarkDeleted(marked[n - 1], n - 1, 999)
            ELSE marked[n - 1]
    IN  marked[TotalSlots(page)]

DeletedKeys(where) ==
    UNION { { KeyOf(ValuesAt(pages[n], i)) : i \in SlotsToDelete(pages[n], where) }
              : n \in DOMAIN pages }

Delete(where) ==
    LET gone == DeletedKeys(where)
    IN  /\ deletes < MaxDeletes
        /\ gone # {}
        /\ pages' = [n \in DOMAIN pages |->
                        WithoutSlots(pages[n], SlotsToDelete(pages[n], where))]
        /\ index' = [k \in DOMAIN index \ gone |-> index[k]]
        /\ stored' = Picked(stored, { i \in DOMAIN stored : ~Meets(Schema, stored[i], where) })
        /\ deletes' = deletes + 1
        /\ UNCHANGED <<refused, inserts>>

Next ==
    \/ \E row \in Tuples : Insert(row)
    \/ \E where \in Wheres : Delete(where)

Spec == Init /\ [][Next]_vars

-----------------------------------------------------------------------------
(* Properties *)

Table == [schema |-> Schema, pages |-> pages, index |-> index]
RightTable == [Table EXCEPT !.schema = RightSchema]

(* TypeOK and more: the slots and the records of a page never run into     *)
(* each other, whatever lengths are inserted and deleted, up to the last   *)
(* byte (page.rs, insert_record), and index entries name pages that exist. *)
LayoutIsSound ==
    /\ \A n \in DOMAIN pages : WellFormed(pages[n])
    /\ DOMAIN index \subseteq Keys
    /\ \A k \in DOMAIN index : index[k][1] \in 0 .. Len(pages) - 1
    /\ ToSet(stored) \subseteq Tuples
    /\ refused \subseteq Keys

(* A sequential scan returns the rows that were inserted and not deleted,  *)
(* each once, in the order of their insertion and with the values that     *)
(* were inserted; and the index has the record of each, and nothing else   *)
(* but keys whose tuple no page took (dml.rs, seq_scan.rs, tuple.rs).      *)
RowsAreFound ==
    /\ Rows(SeqScan(Table, Len(pages))) = stored
    /\ DOMAIN index = { KeyOf(row) : row \in ToSet(stored) } \union refused
    /\ \A row \in ToSet(stored) :
          LET page == pages[index[KeyOf(row)][1] + 1]
              slot == index[KeyOf(row)][2]
          IN  HasRecord(page, slot) /\ ValuesAt(page, slot) = row

(* A page is added only for a tuple that the bytes the last page has left, *)
(* counted from what it holds and not from its header, cannot take: a      *)
(* tuple that fills the page to its last byte still goes there.            *)
BytesIn(page) ==
    LET sum[n \in 0 .. TotalSlots(page)] ==
            IF n = 0 THEN PageHeaderSize ELSE sum[n - 1] + SlotSize + Slot(page, n - 1).length
    IN  sum[TotalSlots(page)]

PagesAreFilled ==
    [][ Len(pages') > Len(pages) /\ pages # <<>> /\ stored' # stored =>
           BytesIn(pages[Len(pages)]) + TupleHeaderSize + SlotSize
               + FromValues(Schema, Last(stored')).len > PAGE_SIZE ]_vars

-----------------------------------------------------------------------------
(* What a query should return. *)

(* The same rows, each as often; rows of one table are all different.      *)
SameRows(s, expected) == Len(s) = Len(expected) /\ ToSet(s) = ToSet(expected)

SelectsAreExact ==
    \A where \in Wheres :
        LET result == Select(Table, where, <<>>, TRUE)
        IN  /\ result.ok
            /\ SameRows(Rows(result), SelectSeq(stored, LAMBDA row : Meets(Schema, row, where)))

(* Rows of the two tables that agree on two columns.                       *)
Pairs(columns) ==
    { lr \in ToSet(stored) \X ToSet(stored) :
        lr[1][Position(Schema, columns[1])] = lr[2][Position(RightSchema, columns[2])] }

JoinsAreExact ==
    \A where \in JoinWheres, columns \in JoinColumns :
        LET hashed == Select(Table, where, <<RightTable, columns[1], columns[2]>>, TRUE)
            looped == Select(Table, where, <<RightTable, columns[1], columns[2]>>, FALSE)
            expected == { lr[1] \o lr[2] : lr \in Pairs(columns) }
            met == { row \in expected : Meets(Schema \o RightSchema, row, where) }
        IN  /\ hashed.ok
            /\ ToSet(Rows(hashed)) = met
            /\ Len(hashed.tuples) = Cardinality(met)
            /\ looped = hashed

(* ORDER BY: rows with equal values stay in the order of the scan.         *)
SortsAreStable ==
    \A c \in DOMAIN Schema, chunk_size \in ChunkSizes :
        LET other == Schema[IF c = 1 THEN 2 ELSE 1].name
            child == Project(SeqScan(Table, Len(pages)), <<Schema[c].name, other>>)
            result == ExternalMergeSort(child, Schema[c].name, chunk_size)
        IN  /\ result.ok
            /\ result.tuples = SortBuffer(child.tuples, child.schema, 1)

(* SELECT returns exactly the rows its clauses ask for, whether it scans   *)
(* the index or the heap, whichever side of a join its conditions are      *)
(* evaluated on, with either algorithm of the join, and sorted in memory   *)
(* or from runs of any length (query.rs, executor/).  After an INSERT of a *)
(* tuple that is too long this is no longer so: the index has a CTID that  *)
(* names no record, or that of another row.                                *)
QueriesAreExact ==
    refused = {} => SelectsAreExact /\ JoinsAreExact /\ SortsAreStable
=============================================================================
