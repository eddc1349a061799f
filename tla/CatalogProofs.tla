--------------------------- MODULE CatalogProofs ---------------------------
(***************************************************************************)
(* Proofs about the catalog and its file, for any number of tables, keys,  *)
(* faults, crashes and resets.                                             *)
(***************************************************************************)
EXTENDS Catalog, SubsequencesProofs, FiniteSetTheorems

MetaFields == {"heap_relation_id", "index_relation_id", "root_page_num",
               "num_records", "life"}

MetaOK(m) ==
    /\ DOMAIN m = MetaFields
    /\ m.heap_relation_id \in Nat
    /\ m.index_relation_id \in Nat
    /\ m.heap_relation_id < m.index_relation_id

Apart(m, n) ==
    \/ m.index_relation_id < n.heap_relation_id
    \/ n.index_relation_id < m.heap_relation_id

(* A catalog whose relations are owned, as a value. *)
CatalogOK(c) ==
    /\ DOMAIN c = {"next_relation_id", "tables"}
    /\ c.next_relation_id \in Nat
    /\ \A t \in DOMAIN c.tables :
          /\ MetaOK(c.tables[t])
          /\ c.tables[t].index_relation_id < c.next_relation_id
    /\ \A t, u \in DOMAIN c.tables : t # u => Apart(c.tables[t], c.tables[u])

CatalogsOK ==
    /\ CatalogOK(data)
    /\ CatalogOK(catalog_file.value)
    /\ CatalogOK(temp_file.value)

-----------------------------------------------------------------------------
(* What the statements do to a catalog. *)

LEMMA EmptyOK == CatalogOK(EmptyCatalog)
BY DEF CatalogOK, EmptyCatalog

LEMMA CreatedOK ==
    ASSUME CatalogOK(data), NEW t, t \notin Tables
    PROVE  CatalogOK(Created(t))
<1> DEFINE n == data.next_relation_id
           c == Created(t)
<1>1. n \in Nat
  BY DEF CatalogOK
<1>2. /\ DOMAIN c = {"next_relation_id", "tables"}
      /\ c.next_relation_id = n + 2
      /\ DOMAIN c.tables = Tables \union {t}
      /\ c.tables[t] = NewTable(n, count.create + 1)
      /\ \A u \in Tables : c.tables[u] = data.tables[u]
  BY DEF Created, With
<1>3. /\ MetaOK(NewTable(n, count.create + 1))
      /\ NewTable(n, count.create + 1).heap_relation_id = n
      /\ NewTable(n, count.create + 1).index_relation_id = n + 1
  BY <1>1 DEF MetaOK, MetaFields, NewTable
<1>4. \A u \in Tables : /\ MetaOK(data.tables[u])
                        /\ data.tables[u].index_relation_id < n
  BY DEF CatalogOK, Tables
<1>5. \A u, v \in Tables : u # v => Apart(data.tables[u], data.tables[v])
  BY DEF CatalogOK, Tables
<1>6. \A u \in DOMAIN c.tables : /\ MetaOK(c.tables[u])
                                 /\ c.tables[u].index_relation_id < c.next_relation_id
  BY <1>1, <1>2, <1>3, <1>4 DEF MetaOK
<1>7. \A u, v \in DOMAIN c.tables : u # v => Apart(c.tables[u], c.tables[v])
  BY <1>1, <1>2, <1>3, <1>4, <1>5 DEF Apart
<1> QED
  BY <1>1, <1>2, <1>6, <1>7 DEF CatalogOK

LEMMA DroppedOK ==
    ASSUME CatalogOK(data), NEW t
    PROVE  CatalogOK([data EXCEPT !.tables = Without(t)])
BY DEF CatalogOK, Without, Tables

(* A change that leaves the relations of every table alone. *)
LEMMA SameRelationsOK ==
    ASSUME CatalogOK(data), NEW new,
           DOMAIN new = Tables,
           \A t \in Tables :
              /\ DOMAIN new[t] = DOMAIN data.tables[t]
              /\ new[t].heap_relation_id = data.tables[t].heap_relation_id
              /\ new[t].index_relation_id = data.tables[t].index_relation_id
    PROVE  CatalogOK([data EXCEPT !.tables = new])
<1>1. /\ DOMAIN [data EXCEPT !.tables = new] = {"next_relation_id", "tables"}
      /\ [data EXCEPT !.tables = new].next_relation_id = data.next_relation_id
      /\ [data EXCEPT !.tables = new].tables = new
  BY DEF CatalogOK
<1>2. \A t \in Tables : /\ MetaOK(new[t])
                        /\ new[t].index_relation_id < data.next_relation_id
  BY DEF CatalogOK, Tables, MetaOK
<1>3. \A t, u \in Tables : t # u => Apart(new[t], new[u])
  BY DEF CatalogOK, Tables, Apart
<1> QED
  BY <1>1, <1>2, <1>3 DEF CatalogOK

LEMMA RootedOK ==
    ASSUME CatalogOK(data), NEW root
    PROVE  CatalogOK([data EXCEPT !.tables = Rooted(@, root)])
<1> DEFINE new == Rooted(data.tables, root)
<1>1. DOMAIN new = Tables
  BY DEF Rooted, Tables
<1>2. ASSUME NEW t \in Tables
      PROVE  /\ DOMAIN new[t] = DOMAIN data.tables[t]
             /\ new[t].heap_relation_id = data.tables[t].heap_relation_id
             /\ new[t].index_relation_id = data.tables[t].index_relation_id
  BY <1>2 DEF Rooted, Tables, CatalogOK, MetaOK, MetaFields
<1> HIDE DEF new
<1>3. CatalogOK([data EXCEPT !.tables = new])
  BY <1>1, <1>2, SameRelationsOK
<1> QED
  BY <1>3 DEF new

LEMMA CountedOK ==
    ASSUME CatalogOK(data), NEW t, NEW n
    PROVE  CatalogOK([data EXCEPT !.tables[t].num_records = n])
<1> DEFINE new == [data.tables EXCEPT ![t].num_records = n]
<1>1. DOMAIN new = Tables
  BY DEF Tables
<1>2. ASSUME NEW u \in Tables
      PROVE  /\ DOMAIN new[u] = DOMAIN data.tables[u]
             /\ new[u].heap_relation_id = data.tables[u].heap_relation_id
             /\ new[u].index_relation_id = data.tables[u].index_relation_id
  BY <1>2 DEF Tables, CatalogOK, MetaOK, MetaFields
<1> HIDE DEF new
<1>3. CatalogOK([data EXCEPT !.tables = new])
  BY <1>1, <1>2, SameRelationsOK
<1> QED
  BY <1>3 DEF new

-----------------------------------------------------------------------------
(* Every step keeps the catalogs in memory and in both files sound. *)

LEMMA OpenKeeps ==
    ASSUME CatalogsOK, NEW rest, Open(rest), UNCHANGED saveVars
    PROVE  CatalogsOK'
BY EmptyOK DEF CatalogsOK, Open, Change, saveVars

LEMMA CreateKeeps ==
    ASSUME CatalogsOK, NEW t, NEW rest, CreateThen(t, rest)
    PROVE  CatalogsOK'
BY CreatedOK DEF CatalogsOK, CreateThen, Change, saveVars

LEMMA AddRowsKeeps ==
    ASSUME CatalogsOK, NEW t, NEW ks, NEW rest, AddRows(t, ks, rest)
    PROVE  CatalogsOK'
<1>1. CASE UNCHANGED data
  BY <1>1 DEF CatalogsOK, AddRows, saveVars
<1>2. ASSUME NEW root, data' = [data EXCEPT !.tables = Rooted(@, root)]
      PROVE  CatalogsOK'
  BY <1>2, RootedOK DEF CatalogsOK, AddRows, saveVars
<1> QED
  BY <1>1, <1>2 DEF AddRows, Change

LEMMA SavingKeeps ==
    ASSUME CatalogsOK, WriteTemp \/ WriteTempShort \/ Rename \/ SaveFails
    PROVE  CatalogsOK'
<1>1. CASE WriteTemp
  BY <1>1 DEF CatalogsOK, WriteTemp, Whole
<1>2. CASE WriteTempShort
  BY <1>2, EmptyOK DEF CatalogsOK, WriteTempShort, Torn
<1>3. CASE Rename
  BY <1>3, EmptyOK DEF CatalogsOK, Rename, NoFile
<1>4. CASE SaveFails
  BY <1>4, EmptyOK DEF CatalogsOK, SaveFails, Dead, saveVars
<1> QED
  BY <1>1, <1>2, <1>3, <1>4

LEMMA RecoverKeeps ==
    ASSUME CatalogsOK, Recover
    PROVE  CatalogsOK'
<1>1. CASE UNCHANGED data
  BY <1>1 DEF CatalogsOK, Recover, saveVars
<1>2. ASSUME NEW root, data' = [data EXCEPT !.tables = Rooted(@, root)]
      PROVE  CatalogsOK'
  BY <1>2, RootedOK DEF CatalogsOK, Recover, saveVars
<1> QED
  BY <1>1, <1>2 DEF Recover, Change

LEMMA NextKeepsCatalogs == CatalogsOK /\ [Next]_vars => CatalogsOK'
<1> SUFFICES ASSUME CatalogsOK, [Next]_vars PROVE CatalogsOK'
  OBVIOUS
<1>1. CASE UNCHANGED vars
  BY <1>1 DEF CatalogsOK, vars, saveVars
<1>2. CASE WriteTemp \/ WriteTempShort \/ Rename \/ SaveFails
  BY <1>2, SavingKeeps
<1>3. ASSUME NEW t \in Names, Create(t) PROVE CatalogsOK'
  BY <1>3, CreateKeeps DEF Create
<1>4. ASSUME NEW t \in Names, Drop(t) PROVE CatalogsOK'
  BY <1>4, DroppedOK DEF CatalogsOK, Drop, Change, saveVars
<1>5. ASSUME NEW t \in Names, NEW k \in Keys, Insert(t, k) PROVE CatalogsOK'
  BY <1>5, AddRowsKeeps DEF Insert
<1>6. ASSUME NEW t \in Tables, NEW ks, Delete(t, ks) PROVE CatalogsOK'
  BY <1>6 DEF CatalogsOK, Delete, saveVars
<1>7. CASE Demo
  BY <1>7, CreateKeeps DEF CatalogsOK, Demo, saveVars
<1>8. CASE DemoRows
  BY <1>8, AddRowsKeeps DEF DemoRows
<1>9. CASE Count
  <2>1. PICK t, n : data' = [data EXCEPT !.tables[t].num_records = n]
    BY <1>9 DEF Count, Change
  <2> QED
    BY <1>9, <2>1, CountedOK DEF CatalogsOK, Count, saveVars
<1>10. CASE Commit
  BY <1>10 DEF CatalogsOK, Commit, saveVars
<1>11. CASE Checkpoint
  BY <1>11 DEF CatalogsOK, Checkpoint, saveVars
<1>12. CASE Truncate
  BY <1>12 DEF CatalogsOK, Truncate, saveVars
<1>13. CASE Crash
  BY <1>13, EmptyOK DEF CatalogsOK, Crash, Dead, saveVars
<1>14. CASE Start
  BY <1>14, OpenKeeps DEF Start
<1>15. CASE Recover
  BY <1>15, RecoverKeeps
<1>16. ASSUME NEW kept, Wipe(kept) PROVE CatalogsOK'
  BY <1>16, EmptyOK DEF CatalogsOK, Wipe, NoFile
<1>17. CASE Reopen
  BY <1>17, OpenKeeps DEF Reopen
<1>18. CASE Opened
  BY <1>18 DEF CatalogsOK, Opened, saveVars
<1> QED
  BY <1>1, <1>2, <1>3, <1>4, <1>5, <1>6, <1>7, <1>8, <1>9, <1>10, <1>11, <1>12,
     <1>13, <1>14, <1>15, <1>16, <1>17, <1>18 DEF Next

LEMMA CatalogsInvariant == Spec => []CatalogsOK
<1>1. Init => CatalogsOK
  BY EmptyOK DEF Init, CatalogsOK, NoFile
<1> QED
  BY <1>1, NextKeepsCatalogs, PTL DEF Spec

(***************************************************************************)
(* No two tables ever share a relation, in memory or in a file, and the    *)
(* next number is above all of theirs (catalog.rs                          *)
(* create_table_with_schema).                                              *)
(***************************************************************************)
THEOREM RelationsOwned == Spec => []RelationsAreOwned
<1>1. CatalogsOK => RelationsAreOwned
  BY DEF CatalogsOK, CatalogOK, MetaOK, Apart, RelationsAreOwned, Catalogs
<1> QED
  BY <1>1, CatalogsInvariant, PTL

-----------------------------------------------------------------------------
(* What is between memory and the file at each step of a statement. *)

SaveInv ==
    /\ catalog_file \in {NoFile, Torn} \/ catalog_file = Whole(catalog_file.value)
    /\ pc = "rename" => temp_file = Torn \/ temp_file = Whole(data)
    /\ pc \in {"idle", "continue", "panicked"} =>
          \/ "unsaved" \in damage \/ "torn" \in damage
          \/ catalog_file = Whole(data)

LEMMA OpenSaves ==
    ASSUME SaveInv, NEW rest, Open(rest), UNCHANGED saveVars
    PROVE  SaveInv'
BY DEF SaveInv, Open, Change, saveVars, NoFile, Torn, Whole

LEMMA RenameSaves == ASSUME SaveInv, Rename PROVE SaveInv'
<1>1. temp_file \in {NoFile, Torn} \/ temp_file = Whole(temp_file.value)
  BY DEF SaveInv, Rename, Whole
<1>2. CASE temp_file = Torn
  BY <1>1, <1>2 DEF SaveInv, Rename
<1>3. CASE temp_file = Whole(data)
  BY <1>1, <1>3 DEF SaveInv, Rename
<1> QED
  BY <1>2, <1>3 DEF SaveInv, Rename

LEMMA NextSaves == SaveInv /\ [Next]_vars => SaveInv'
<1> SUFFICES ASSUME SaveInv, [Next]_vars PROVE SaveInv'
  OBVIOUS
<1>1. CASE UNCHANGED vars
  BY <1>1 DEF SaveInv, vars, saveVars, historyVars
<1>2. CASE WriteTemp \/ WriteTempShort
  BY <1>2 DEF SaveInv, WriteTemp, WriteTempShort
<1>3. CASE Rename
  BY <1>3, RenameSaves
<1>4. CASE SaveFails
  BY <1>4 DEF SaveInv, SaveFails, Dead, saveVars
<1>5. ASSUME NEW t, NEW rest, CreateThen(t, rest) PROVE SaveInv'
  BY <1>5 DEF SaveInv, CreateThen, Change, saveVars
<1>6. ASSUME NEW t, Drop(t) PROVE SaveInv'
  BY <1>6 DEF SaveInv, Drop, Change, saveVars
<1>7. ASSUME NEW t, NEW ks, NEW rest, AddRows(t, ks, rest), pc \in {"idle", "continue"}
      PROVE  SaveInv'
  BY <1>7 DEF SaveInv, AddRows, Change, saveVars, historyVars
<1>8. ASSUME NEW t, NEW ks, Delete(t, ks) PROVE SaveInv'
  BY <1>8 DEF SaveInv, Delete, saveVars
<1>9. CASE Demo
  BY <1>5, <1>9 DEF SaveInv, Demo, saveVars, historyVars
<1>10. CASE Count
  BY <1>10 DEF SaveInv, Count, Change, saveVars
<1>11. CASE Commit \/ Checkpoint \/ Truncate \/ Opened
  BY <1>11 DEF SaveInv, Commit, Checkpoint, Truncate, Opened, Doing, saveVars, historyVars
<1>12. CASE Crash
  BY <1>12 DEF SaveInv, Crash, Dead, saveVars
<1>13. CASE Start \/ Reopen
  BY <1>13, OpenSaves DEF Start, Reopen
<1>14. CASE Recover
  BY <1>14 DEF SaveInv, Recover, Doing, Change, saveVars, historyVars
<1>15. ASSUME NEW kept, Wipe(kept) PROVE SaveInv'
  BY <1>15 DEF SaveInv, Wipe
<1> QED
  BY <1>1, <1>2, <1>3, <1>4, <1>5, <1>6, <1>7, <1>8, <1>9, <1>10, <1>11, <1>12,
     <1>13, <1>14, <1>15 DEF Next, Create, Insert, DemoRows, Doing

LEMMA SaveInvariant == Spec => []SaveInv
<1>1. Init => SaveInv
  BY DEF Init, SaveInv
<1> QED
  BY <1>1, NextSaves, PTL DEF Spec

(***************************************************************************)
(* Between statements catalog.json says what memory says, unless the last  *)
(* save was refused or bytes of a save were lost (catalog.rs, every        *)
(* function that changes the catalog flushes it).                          *)
(***************************************************************************)
THEOREM StatementsSaved == Spec => []StatementsAreSaved
<1>1. SaveInv => StatementsAreSaved
  BY DEF SaveInv, StatementsAreSaved
<1> QED
  BY <1>1, SaveInvariant, PTL

-----------------------------------------------------------------------------
(* The refinement of SavedValue. *)

CountsAll == DOMAIN count = Counted

LEMMA CountingType == Spec => []CountsAll
<1>1. Init => CountsAll
  BY DEF Init, CountsAll
<1>2. CountsAll /\ [Next]_vars => CountsAll'
  BY DEF CountsAll, Next, vars, saveVars, relationVars, historyVars, Counting,
     WriteTemp, WriteTempShort, Rename, SaveFails, Create, CreateThen, Drop, Insert,
     AddRows, Delete, Demo, DemoRows, Count, Commit, Checkpoint, Truncate, Crash,
     Start, Recover, Wipe, Reopen, Opened
<1> QED
  BY <1>1, <1>2, PTL DEF Spec

(* A step that leaves the file alone, and is no crash and no reset. *)
FileAlone ==
    /\ UNCHANGED catalog_file
    /\ count'.crash = count.crash
    /\ count'.reset = count.reset

LEMMA OtherStepsLeaveFile ==
    ASSUME CountsAll, Next
    PROVE  Rename \/ Crash \/ (\E kept : Wipe(kept)) \/ FileAlone
<1> USE DEF CountsAll, FileAlone, Counting, Counted, saveVars
<1>1. CASE WriteTemp \/ WriteTempShort \/ SaveFails
  BY <1>1 DEF WriteTemp, WriteTempShort, SaveFails
<1>2. ASSUME NEW t, Create(t) \/ Drop(t) PROVE FileAlone
  BY <1>2 DEF Create, CreateThen, Drop
<1>3. ASSUME NEW t, NEW k, Insert(t, k) PROVE FileAlone
  BY <1>3 DEF Insert, AddRows
<1>4. ASSUME NEW t, NEW ks, Delete(t, ks) PROVE FileAlone
  BY <1>4 DEF Delete
<1>5. CASE Demo \/ DemoRows
  BY <1>5 DEF Demo, CreateThen, DemoRows, AddRows
<1>6. CASE Count \/ Commit \/ Checkpoint \/ Truncate
  BY <1>6 DEF Count, Commit, Checkpoint, Truncate
<1>7. CASE Start \/ Recover \/ Reopen \/ Opened
  BY <1>7 DEF Start, Recover, Reopen, Opened
<1> QED
  BY <1>1, <1>2, <1>3, <1>4, <1>5, <1>6, <1>7 DEF Next

LEMMA StepImplements ==
    ASSUME SaveInv, CountsAll, [Next]_vars, "torn" \notin damage'
    PROVE  [File!Next]_(File!savedVars)
<1>1. CASE UNCHANGED vars
  BY <1>1 DEF vars, saveVars, File!savedVars
<1>2. CASE FileAlone
  BY <1>2 DEF FileAlone, File!Next, File!Change
<1>3. CASE Rename
  <2>1. temp_file = Whole(data)
    BY <1>3 DEF SaveInv, Rename
  <2>2. catalog_file'.value = data
    BY <1>3, <2>1 DEF Rename, Whole
  <2>3. /\ pc = "rename" /\ pc' \notin {"down", "wiped"}
        /\ UNCHANGED <<data, count>>
    BY <1>3 DEF Rename
  <2> QED
    BY <2>2, <2>3 DEF File!Next, File!Save
<1>4. CASE Crash
  BY <1>4 DEF CountsAll, Crash, Dead, Counting, Counted, saveVars, File!Next, File!Lose
<1>5. ASSUME NEW kept, Wipe(kept) PROVE File!Next
  BY <1>5 DEF CountsAll, Wipe, Counted, NoFile, File!Next, File!Erase
<1> QED
  BY <1>1, <1>2, <1>3, <1>4, <1>5, OtherStepsLeaveFile

(***************************************************************************)
(* catalog.json is replaced as a whole, only by what memory has, and a     *)
(* crash falls back to it (catalog.rs flush), until bytes of a save are    *)
(* lost unnoticed.                                                         *)
(***************************************************************************)
THEOREM FileImplementsSavedValue == Spec => ImplementsSavedValue
<1>1. Init => File!Init
  BY DEF Init, File!Init, NoFile, Counted
<1>2. SaveInv /\ CountsAll /\ [Next]_vars
      => ("torn" \notin damage' => [File!Next]_(File!savedVars))
  BY StepImplements
<1> QED
  BY <1>1, <1>2, SaveInvariant, CountingType, PTL DEF Spec, ImplementsSavedValue

-----------------------------------------------------------------------------
(* The type of the state. *)

SlotType == [key : Keys, life : Nat, live : BOOLEAN]
RecordType == [op : {"insert", "delete"}, table : Names, key : Keys, life : Nat]
LeafType == {Zeros} \union [Keys -> Nat]

(* A catalog of tables whose relations exist and whose lives are their own, *)
(* after n of them were created.                                           *)
TablesTyped(c, n) ==
    /\ DOMAIN c.tables \subseteq Names
    /\ c.next_relation_id <= 2 * n
    /\ \A t \in DOMAIN c.tables :
          /\ c.tables[t].heap_relation_id \in Relations
          /\ c.tables[t].index_relation_id \in Relations
          /\ c.tables[t].root_page_num \in BOOLEAN
          /\ c.tables[t].num_records \in Nat
          /\ c.tables[t].life \in 1 .. n
    /\ \A t, u \in DOMAIN c.tables : c.tables[t].life = c.tables[u].life => t = u

Committing(t, ks) == todo = << <<"commit", t, ks>> >>
CountingThen(t, n, ks) == todo = << <<"count", t, n>>, <<"commit", t, ks>> >>

(* Where the process may be with what is left to do. *)
TodoTyped ==
    \/ pc \in {"idle", "down", "wiped", "panicked"} /\ todo = <<>>
    \/ pc \in {"write", "rename"} /\ todo = <<>>
    \/ pc \in {"write", "rename", "continue"}
          /\ todo \in { << <<"recover">> >>, << <<"opened">> >> }
    \/ pc \in {"write", "rename", "continue"}
          /\ todo = << <<"demo", DemoTable>> >> /\ DemoTable \in Tables
    \/ pc = "continue" /\ todo = << <<"truncate">> >>
    \/ pc \in {"write", "rename", "continue"}
          /\ \E t \in Tables, ks \in SUBSET Keys : Committing(t, ks) \/ CountingThen(t, 1, ks)
    \/ pc = "continue" /\ \E t \in Tables, n \in Nat : n > 0 /\ CountingThen(t, -n, {})

TablesAllTyped ==
    /\ TablesTyped(data, count.create)
    /\ TablesTyped(catalog_file.value, count.create)
    /\ TablesTyped(temp_file.value, count.create)

PagesTyped ==
    /\ heap \in [Relations -> Seq(SlotType)] /\ heap_disk \in [Relations -> Seq(SlotType)]
    /\ index \in [Relations -> LeafType] /\ index_disk \in [Relations -> LeafType]

LogsTyped == log_file \in Seq(RecordType) /\ log_buffer \in Seq(RecordType)

CountTyped == count \in [Counted -> Nat] /\ count.create <= MaxCreates

HistoryTyped ==
    /\ promised \in [1 .. MaxCreates -> SUBSET Keys]
    /\ \A l \in 1 .. MaxCreates : l > count.create => promised[l] = {}
    /\ "unsaved" \in damage => "refused" \in damage

TypeInv ==
    /\ CatalogsOK /\ TablesAllTyped
    /\ PagesTyped /\ LogsTyped /\ TodoTyped /\ CountTyped /\ HistoryTyped

-----------------------------------------------------------------------------
(* What is empty where a number has not been given away. *)

FileTables == catalog_file.value.tables

UnusedAreEmpty ==
    Harmless =>
        /\ \A r \in Relations :
              r >= catalog_file.value.next_relation_id => heap[r] = <<>> /\ heap_disk[r] = <<>>
        /\ pc \in {"write", "rename"} =>
              data.next_relation_id >= catalog_file.value.next_relation_id

-----------------------------------------------------------------------------
(* The number of records. *)

Blank ==
    /\ catalog_file.value = EmptyCatalog /\ log_file = <<>>
    /\ heap = Empty /\ heap_disk = Empty

(* What a list of steps is still to add to the number of a table, and the  *)
(* number after it.                                                        *)
Owed(td, t) ==
    IF td # <<>> /\ Head(td)[1] = "count" /\ Head(td)[2] = t THEN Head(td)[3] ELSE 0

After(num, n) == IF n > 0 THEN num + n ELSE Minus(num, -n)

CountsFit(c, td, h) ==
    \A t \in DOMAIN c.tables :
        After(c.tables[t].num_records, Owed(td, t))
            <= Cardinality(Live(h[c.tables[t].heap_relation_id]))

CountInv ==
    count.crash = 0 /\ "leftover" \notin damage =>
        /\ pc \in {"down", "wiped"} \/ Opening => Blank
        /\ pc = "down" \/ Opening => data = EmptyCatalog
        /\ pc # "wiped" => CountsFit(data, todo, heap)

-----------------------------------------------------------------------------
(* The rows. *)

On(r, t, k) == r.table = t /\ r.key = k

Mentions(log, t, k) == \E i \in DOMAIN log : On(log[i], t, k)

EndsInInsert(log, t, k) ==
    \E i \in DOMAIN log :
        /\ On(log[i], t, k) /\ log[i].op = "insert"
        /\ \A j \in DOMAIN log : j > i => ~On(log[j], t, k)

(* The index of a table has the key. *)
FoundIn(m, ix, k) ==
    /\ m.root_page_num
    /\ ix[m.index_relation_id] # Zeros
    /\ ix[m.index_relation_id][k] # 0

(* The key is in the files of a table, in its index or for a rebuild. *)
InFiles(m, ix, h, k) ==
    /\ m.root_page_num
    /\ IF ix[m.index_relation_id] = Zeros
       THEN \E i \in Live(h[m.heap_relation_id]) : h[m.heap_relation_id][i].key = k
       ELSE ix[m.index_relation_id][k] # 0

(* A recovery from that log, and those files, finds the key. *)
Survives(log, t, m, ix, h, k) ==
    EndsInInsert(log, t, k) \/ (~Mentions(log, t, k) /\ InFiles(m, ix, h, k))

(* The entries of a leaf name tuples with their keys. *)
LeafValid(leaf, slots) ==
    leaf # Zeros =>
        \A k \in Keys : leaf[k] # 0 => leaf[k] \in Live(slots) /\ slots[leaf[k]].key = k

LivesAre(slots, l) == \A i \in Live(slots) : slots[i].life = l

RecordsAre(log, t, l) == \A i \in DOMAIN log : log[i].table = t => log[i].life = l

Log == log_file \o log_buffer

(* The entries of an index are right, once there is a root. *)
Valid(m, ix, h) ==
    m.root_page_num => LeafValid(ix[m.index_relation_id], h[m.heap_relation_id])

(* The tuples of a table, in memory and on disk, and its records in the log *)
(* are of its own life.                                                     *)
Own(t, m, h, hd, log) ==
    /\ LivesAre(h[m.heap_relation_id], m.life)
    /\ LivesAre(hd[m.heap_relation_id], m.life)
    /\ RecordsAre(log, t, m.life)

Sound(t, m, h, hd, ix, ixd, log, st) ==
    Valid(m, ix, h) /\ Valid(m, ixd, hd) /\ (t \notin st => Own(t, m, h, hd, log))

(* The keys that a table will have been promised at the end of the steps.  *)
Due(td, t) ==
    IF td # <<>> /\ td[Len(td)][1] = "commit" /\ td[Len(td)][2] = t THEN td[Len(td)][3] ELSE {}

(* What the index has, a crash does not take; what was promised, it has.   *)
Kept(t, m, ix, ixd, hd, log, ks) ==
    /\ \A k \in Keys : FoundIn(m, ix, k) => Survives(log, t, m, ixd, hd, k)
    /\ \A k \in ks : FoundIn(m, ix, k)

(* Memory has what a recovery makes, and is not still to be replayed into. *)
Recovered == todo # << <<"recover">> >> /\ pc \notin {"panicked", "wiped"}

(* A table that is being saved and what the file has of it. *)
Agree(m, f) ==
    /\ m.heap_relation_id = f.heap_relation_id
    /\ m.index_relation_id = f.index_relation_id
    /\ m.life = f.life
    /\ f.root_page_num => m.root_page_num

FilesAgree ==
    pc \in {"write", "rename"} =>
        \A t \in Tables :
            IF t \in DOMAIN FileTables THEN Agree(data.tables[t], FileTables[t])
            ELSE promised[LifeOf(t)] = {}

MemoryIsFiles ==
    /\ pc = "down" \/ todo = << <<"recover">> >> \/ todo = << <<"truncate">> >> =>
          heap = heap_disk /\ index = index_disk /\ log_buffer = <<>>
    /\ pc = "down" => Tables = {}
    /\ pc = "wiped" => DOMAIN FileTables = {}

MemorySound ==
    \A t \in Tables :
        Sound(t, data.tables[t], heap, heap_disk, index, index_disk, Log, stale)

FilesSound ==
    \A t \in DOMAIN FileTables :
        Sound(t, FileTables[t], heap_disk, heap_disk, index_disk, index_disk, Log, stale)

MemoryKept ==
    Recovered =>
        \A t \in Tables \ stale :
            Kept(t, data.tables[t], index, index_disk, heap_disk, Log,
                 promised[LifeOf(t)] \union Due(todo, t))

FilesKept ==
    \A t \in DOMAIN FileTables \ stale : \A k \in promised[FileTables[t].life] :
        Survives(log_file, t, FileTables[t], index_disk, heap_disk, k)

RowsBody ==
    FilesAgree /\ MemoryIsFiles /\ MemorySound /\ FilesSound /\ MemoryKept /\ FilesKept

RowsInv == Harmless => RowsBody

-----------------------------------------------------------------------------
(* What rows do to a store: one tuple *)

StoreTyped(s) ==
    /\ DOMAIN s = {"heap", "index", "index_disk", "root"}
    /\ s.heap \in [Relations -> Seq(SlotType)]
    /\ s.index \in [Relations -> LeafType]
    /\ s.index_disk \in [Relations -> LeafType]
    /\ s.root \in [Tables -> BOOLEAN]

(* The tables in memory have relations of their own. *)
Owned ==
    /\ \A t \in Tables : HeapOf(t) \in Relations /\ IndexOf(t) \in Relations
    /\ \A t, u \in Tables : t # u => HeapOf(t) # HeapOf(u) /\ IndexOf(t) # IndexOf(u)

LEMMA KeysAreNumbers == Keys \subseteq Nat /\ Keys # {}
BY CatalogAssumption DEF Keys

LEMMA ZerosIsNoLeaf == /\ \A f \in [Keys -> Nat] : f # Zeros
                       /\ EmptyLeaf \in [Keys -> Nat] /\ EmptyLeaf # Zeros
<1>1. DOMAIN Zeros = {}
  BY DEF Zeros
<1> QED
  BY <1>1, KeysAreNumbers DEF EmptyLeaf

SameElsewhere(s, z, t) ==
    /\ \A r \in Relations : r # HeapOf(t) => z.heap[r] = s.heap[r]
    /\ \A r \in Relations : r # IndexOf(t) => z.index[r] = s.index[r]
                                              /\ z.index_disk[r] = s.index_disk[r]
    /\ \A u \in Tables : u # t => z.root[u] = s.root[u]

(* What Inserted is made of. *)
InsertedInto(s, z, t, k, life) ==
    LET old == s.heap[HeapOf(t)]
        leaf == s.index[IndexOf(t)]
        page == z.index[IndexOf(t)] IN
    /\ StoreTyped(z)
    /\ SameElsewhere(s, z, t)
    /\ z.heap[HeapOf(t)] = Append(old, [key |-> k, life |-> life, live |-> TRUE])
    /\ Corrupted(s, t) => page = Zeros
    /\ ~Corrupted(s, t) =>
          /\ page \in [Keys -> Nat]
          /\ page[k] = Len(old) + 1
          /\ s.root[t] => \A j \in Keys : j # k => page[j] = leaf[j]
          /\ ~s.root[t] => \A j \in Keys : j # k => page[j] = 0
    /\ s.root[t] => z.index_disk[IndexOf(t)] = s.index_disk[IndexOf(t)]
    /\ ~s.root[t] => z.index_disk[IndexOf(t)] = Zeros
    /\ z.root[t]

LEMMA InsertedParts ==
    ASSUME Owned, NEW s, StoreTyped(s), NEW t \in Tables, NEW k \in Keys, NEW life \in Nat
    PROVE  InsertedInto(s, Inserted(s, t, k, life), t, k, life)
<1> DEFINE z == Inserted(s, t, k, life)
           slot == [key |-> k, life |-> life, live |-> TRUE]
           old == s.heap[HeapOf(t)]
           slots == Append(old, slot)
           leaf == IF s.root[t] THEN s.index[IndexOf(t)] ELSE EmptyLeaf
           page == IF Corrupted(s, t) THEN Zeros ELSE [leaf EXCEPT ![k] = Len(slots)]
<1>1. HeapOf(t) \in Relations /\ IndexOf(t) \in Relations
  BY DEF Owned
<1>2. slots \in Seq(SlotType) /\ Len(slots) = Len(old) + 1 /\ Len(old) \in Nat
  <2>1. slot \in SlotType /\ old \in Seq(SlotType)
    BY <1>1 DEF SlotType, StoreTyped
  <2> HIDE DEF slot, old
  <2> QED BY <2>1, AppendEntries
<1>3. ~Corrupted(s, t) => leaf \in [Keys -> Nat]
  BY <1>1, ZerosIsNoLeaf DEF Corrupted, StoreTyped, LeafType
<1>4. /\ s.root[t] => leaf = s.index[IndexOf(t)]
      /\ ~s.root[t] => \A j \in Keys : leaf[j] = 0
  BY DEF EmptyLeaf
<1> HIDE DEF leaf
<1>5. ~Corrupted(s, t) => /\ page \in [Keys -> Nat]
                          /\ page[k] = Len(old) + 1
                          /\ \A j \in Keys : j # k => page[j] = leaf[j]
  <2> HIDE DEF slots
  <2> QED BY <1>2, <1>3
<1>6. page \in LeafType /\ Zeros \in LeafType /\ (Corrupted(s, t) => page = Zeros)
  <2>1. Corrupted(s, t) => page = Zeros
    OBVIOUS
  <2> HIDE DEF page
  <2> QED BY <1>5, <2>1 DEF LeafType
<1> HIDE DEF slots, page
<1>7. z = [heap |-> [s.heap EXCEPT ![HeapOf(t)] = slots],
           index |-> [s.index EXCEPT ![IndexOf(t)] = page],
           index_disk |-> [s.index_disk EXCEPT ![IndexOf(t)] =
                              IF s.root[t] THEN @ ELSE Zeros],
           root |-> [s.root EXCEPT ![t] = TRUE]]
  BY DEF Inserted, slots, page, leaf
<1>8. /\ DOMAIN z = {"heap", "index", "index_disk", "root"}
      /\ z.heap = [s.heap EXCEPT ![HeapOf(t)] = slots]
      /\ z.index = [s.index EXCEPT ![IndexOf(t)] = page]
      /\ z.index_disk = [s.index_disk EXCEPT ![IndexOf(t)] = IF s.root[t] THEN @ ELSE Zeros]
      /\ z.root = [s.root EXCEPT ![t] = TRUE]
  BY <1>7
<1> HIDE DEF z
<1>9. StoreTyped(z)
  BY <1>1, <1>2, <1>6, <1>8 DEF StoreTyped
<1>10. SameElsewhere(s, z, t)
  BY <1>8 DEF SameElsewhere, StoreTyped
<1>11. /\ z.heap[HeapOf(t)] = slots /\ z.index[IndexOf(t)] = page /\ z.root[t]
       /\ s.root[t] => z.index_disk[IndexOf(t)] = s.index_disk[IndexOf(t)]
       /\ ~s.root[t] => z.index_disk[IndexOf(t)] = Zeros
  BY <1>1, <1>8 DEF StoreTyped
<1>12. z.heap[HeapOf(t)] = Append(s.heap[HeapOf(t)], [key |-> k, life |-> life, live |-> TRUE])
  BY <1>11 DEF slots
<1> HIDE DEF old
<1>13. InsertedInto(s, z, t, k, life)
  BY <1>4, <1>5, <1>6, <1>9, <1>10, <1>11, <1>12 DEF InsertedInto, old
<1> QED
  BY <1>13 DEF z

(* What that is to the table. *)
InsertionKeeps(s, z, t, k, life) ==
    LET old == s.heap[HeapOf(t)]
        new == z.heap[HeapOf(t)] IN
    /\ (s.root[t] => LeafValid(s.index[IndexOf(t)], old))
          => LeafValid(z.index[IndexOf(t)], new)
    /\ LivesAre(old, life) => LivesAre(new, life)
    /\ \A j \in Keys : Found(z, t, j) <=> Found(s, t, j) \/ (j = k /\ ~Corrupted(s, t))
    /\ Corrupted(z, t) <=> Corrupted(s, t)
    /\ Live(new) = Live(old) \union {Len(old) + 1}
    /\ Len(old) \in Nat /\ Live(old) \subseteq 1 .. Len(old)

LEMMA InsertedTable ==
    ASSUME Owned, NEW s, StoreTyped(s), NEW t \in Tables, NEW k \in Keys, NEW life \in Nat,
           NEW z, InsertedInto(s, z, t, k, life)
    PROVE  InsertionKeeps(s, z, t, k, life)
<1> DEFINE old == s.heap[HeapOf(t)]
           slot == [key |-> k, life |-> life, live |-> TRUE]
           new == z.heap[HeapOf(t)]
           leaf == s.index[IndexOf(t)]
           page == z.index[IndexOf(t)]
<1>1. /\ new = Append(old, slot) /\ z.root[t]
      /\ Corrupted(s, t) => page = Zeros
      /\ ~Corrupted(s, t) =>
            /\ page \in [Keys -> Nat]
            /\ page[k] = Len(old) + 1
            /\ s.root[t] => \A j \in Keys : j # k => page[j] = leaf[j]
            /\ ~s.root[t] => \A j \in Keys : j # k => page[j] = 0
  BY DEF InsertedInto
<1>2. old \in Seq(SlotType) /\ slot \in SlotType
  BY DEF StoreTyped, Owned, SlotType
<1>3. slot.key = k /\ slot.life = life /\ slot.live = TRUE
  OBVIOUS
<1> HIDE DEF slot, old, new, page, leaf
<1>4. /\ Len(new) = Len(old) + 1 /\ Len(old) \in Nat
      /\ \A i \in 1 .. Len(old) : new[i] = old[i]
      /\ new[Len(old) + 1] = slot
      /\ DOMAIN new = 1 .. Len(old) + 1 /\ DOMAIN old = 1 .. Len(old)
  <2>1. new \in Seq(SlotType)
    BY <1>1, <1>2, AppendEntries
  <2> QED BY <1>1, <1>2, <2>1, AppendEntries
<1>5. Live(new) = Live(old) \union {Len(old) + 1} /\ Live(old) \subseteq 1 .. Len(old)
  BY <1>3, <1>4 DEF Live
<1>6. ~Corrupted(s, t) => page # Zeros
  BY <1>1, ZerosIsNoLeaf
<1>7. Corrupted(z, t) <=> Corrupted(s, t)
  BY <1>1, <1>6 DEF Corrupted, page
<1>8. \A j \in Keys : Found(z, t, j) <=> Found(s, t, j) \/ (j = k /\ ~Corrupted(s, t))
  <2> TAKE j \in Keys
  <2>1. CASE Corrupted(s, t)
    BY <2>1, <1>7 DEF Found, Corrupted
  <2>2. CASE ~Corrupted(s, t) /\ j = k
    BY <2>2, <1>1, <1>4, <1>6 DEF Found, page
  <2>3. CASE ~Corrupted(s, t) /\ j # k
    <3>1. Found(z, t, j) <=> page[j] # 0
      BY <2>3, <1>1, <1>6 DEF Found, page
    <3>2. CASE s.root[t]
      BY <2>3, <3>1, <3>2, <1>1 DEF Found, leaf, Corrupted
    <3>3. CASE ~s.root[t]
      BY <2>3, <3>1, <3>3, <1>1 DEF Found
    <3> QED BY <3>2, <3>3
  <2> QED BY <2>1, <2>2, <2>3
<1>9. LivesAre(old, life) => LivesAre(new, life)
  BY <1>3, <1>4, <1>5 DEF LivesAre, Live
<1>10. ASSUME s.root[t] => LeafValid(leaf, old)
       PROVE  LeafValid(page, new)
  <2>1. CASE Corrupted(s, t)
    BY <2>1, <1>1 DEF LeafValid
  <2>2. ASSUME ~Corrupted(s, t), NEW j \in Keys, page[j] # 0
        PROVE  page[j] \in Live(new) /\ new[page[j]].key = j
    <3>1. CASE j = k
      BY <3>1, <2>2, <1>1, <1>3, <1>4, <1>5
    <3>2. CASE j # k
      <4>1. s.root[t] /\ page[j] = leaf[j]
        BY <3>2, <2>2, <1>1
      <4>2. leaf[j] \in Live(old) /\ old[leaf[j]].key = j
        BY <4>1, <1>10, <2>2 DEF LeafValid, leaf, Corrupted
      <4> QED BY <4>1, <4>2, <1>4, <1>5 DEF Live
    <3> QED BY <3>1, <3>2
  <2> QED BY <2>1, <2>2 DEF LeafValid
<1> QED
  BY <1>4, <1>5, <1>7, <1>8, <1>9, <1>10 DEF InsertionKeeps, old, new, page, leaf

-----------------------------------------------------------------------------
(* Several of them, and a log *)

Round(adding, t, ks, n, s) ==
    IF adding = 1 THEN Inserted(s, t, ks[n], LifeOf(t)) ELSE ReplayRecord(s, log_file[n])

AreRounds(w, x, adding, t, ks, last) ==
    w = [n \in 0 .. last |-> IF n = 0 THEN x ELSE Round(adding, t, ks, n, w[n - 1])]

LEMMA RoundsExist ==
    ASSUME NEW x, NEW adding, NEW t, NEW ks, NEW last \in Nat
    PROVE  \E w : AreRounds(w, x, adding, t, ks, last)
<1> DEFINE Next1(n, y) == Round(adding, t, ks, n, y)
           Walk(w, m) == w = [n \in 0 .. m |-> IF n = 0 THEN x ELSE Next1(n, w[n - 1])]
           S == { m \in Nat : \E w : Walk(w, m) }
<1> HIDE DEF Next1
<1>1. 0 \in S
  <2> DEFINE w == [n \in 0 .. 0 |-> x]
  <2>1. Walk(w, 0)
    OBVIOUS
  <2> QED BY <2>1
<1>2. ASSUME NEW m \in S PROVE m + 1 \in S
  <2>1. PICK w : Walk(w, m)
    OBVIOUS
  <2> DEFINE z == [n \in 0 .. m + 1 |-> IF n = m + 1 THEN Next1(n, w[m]) ELSE w[n]]
  <2>2. \A n \in 0 .. m : z[n] = w[n]
    OBVIOUS
  <2>3. \A n \in 0 .. m + 1 : z[n] = IF n = 0 THEN x ELSE Next1(n, z[n - 1])
    <3> SUFFICES ASSUME NEW n \in 0 .. m + 1
                 PROVE  z[n] = IF n = 0 THEN x ELSE Next1(n, z[n - 1])
      OBVIOUS
    <3>1. CASE n = m + 1
      <4>1. z[n] = Next1(n, w[m]) /\ n - 1 = m /\ n # 0
        BY <3>1
      <4> QED BY <4>1, <2>2
    <3>2. CASE n \in 0 .. m /\ n # 0
      <4>1. n - 1 \in 0 .. m
        BY <3>2
      <4>2. w[n] = Next1(n, w[n - 1])
        BY <3>2, <2>1
      <4> QED BY <4>1, <4>2, <2>2, <3>2
    <3>3. CASE n = 0
      <4>1. w[0] = x
        BY <2>1
      <4>2. z[0] = w[0]
        BY <2>2
      <4> QED BY <4>1, <4>2, <3>3
    <3> QED BY <3>1, <3>2, <3>3
  <2> HIDE DEF z
  <2>4. z = [n \in 0 .. m + 1 |-> z[n]]
    BY DEF z
  <2>5. Walk(z, m + 1)
    BY <2>3, <2>4
  <2> QED BY <2>5
<1>3. S = Nat
  <2> HIDE DEF S
  <2>1. S \in SUBSET Nat
    BY DEF S
  <2> QED BY <1>1, <1>2, <2>1, EveryRound
<1>4. PICK w : Walk(w, last)
  BY <1>3
<1> QED
  BY <1>4 DEF Next1, AreRounds

LEMMA AddedSteps ==
    ASSUME NEW t, NEW ks, Len(ks) \in Nat
    PROVE  \E w : /\ w[0] = Store
                  /\ \A n \in 1 .. Len(ks) : w[n] = Inserted(w[n - 1], t, ks[n], LifeOf(t))
                  /\ Added(t, ks) = w[Len(ks)]
<1> DEFINE IsIt(w) == w = [n \in 0 .. Len(ks) |->
                             IF n = 0 THEN Store ELSE Inserted(w[n - 1], t, ks[n], LifeOf(t))]
           after == CHOOSE w : IsIt(w)
<1>1. IsIt(after)
  <2>1. PICK w : AreRounds(w, Store, 1, t, ks, Len(ks))
    BY RoundsExist
  <2>2. \A n \in 0 .. Len(ks) : Round(1, t, ks, n, w[n - 1])
                                  = Inserted(w[n - 1], t, ks[n], LifeOf(t))
    BY DEF Round
  <2>3. IsIt(w)
    BY <2>1, <2>2 DEF AreRounds
  <2> QED BY <2>3
<1>2. Added(t, ks) = after[Len(ks)]
  BY DEF Added
<1> HIDE DEF after
<1>3. \A n \in 0 .. Len(ks) :
         after[n] = IF n = 0 THEN Store ELSE Inserted(after[n - 1], t, ks[n], LifeOf(t))
  BY <1>1
<1>4. after[0] = Store
  BY <1>3
<1>5. \A n \in 1 .. Len(ks) : after[n] = Inserted(after[n - 1], t, ks[n], LifeOf(t))
  BY <1>3
<1> QED
  BY <1>2, <1>4, <1>5

LEMMA ReplayedSteps ==
    ASSUME Len(log_file) \in Nat
    PROVE  \E w : /\ w[0] = Rebuilt
                  /\ \A n \in 1 .. Len(log_file) : w[n] = ReplayRecord(w[n - 1], log_file[n])
                  /\ Replayed = w[Len(log_file)]
<1> DEFINE IsIt(w) == w = [n \in 0 .. Len(log_file) |->
                             IF n = 0 THEN Rebuilt ELSE ReplayRecord(w[n - 1], log_file[n])]
           after == CHOOSE w : IsIt(w)
<1>1. IsIt(after)
  <2>1. PICK w : AreRounds(w, Rebuilt, 0, 0, 0, Len(log_file))
    BY RoundsExist
  <2>2. \A n \in 0 .. Len(log_file) : Round(0, 0, 0, n, w[n - 1])
                                        = ReplayRecord(w[n - 1], log_file[n])
    BY DEF Round
  <2>3. IsIt(w)
    BY <2>1, <2>2 DEF AreRounds
  <2> QED BY <2>3
<1>2. Replayed = after[Len(log_file)]
  BY DEF Replayed
<1> HIDE DEF after
<1>3. \A n \in 0 .. Len(log_file) :
         after[n] = IF n = 0 THEN Rebuilt ELSE ReplayRecord(after[n - 1], log_file[n])
  BY <1>1
<1>4. after[0] = Rebuilt
  BY <1>3
<1>5. \A n \in 1 .. Len(log_file) : after[n] = ReplayRecord(after[n - 1], log_file[n])
  BY <1>3
<1> QED
  BY <1>2, <1>4, <1>5

(* What the tuples of some keys are to a store. *)
AddedTo(s, z, t, given) ==
    LET old == s.heap[HeapOf(t)] new == z.heap[HeapOf(t)] IN
    /\ StoreTyped(z)
    /\ SameElsewhere(s, z, t)
    /\ z.root[t] <=> s.root[t] \/ given # {}
    /\ z.index_disk[IndexOf(t)] =
          IF s.root[t] \/ given = {} THEN s.index_disk[IndexOf(t)] ELSE Zeros
    /\ (s.root[t] => LeafValid(s.index[IndexOf(t)], old))
          => (z.root[t] => LeafValid(z.index[IndexOf(t)], new))
    /\ LivesAre(old, LifeOf(t)) => LivesAre(new, LifeOf(t))
    /\ \A j \in Keys : Found(z, t, j) <=> Found(s, t, j) \/ (j \in given /\ ~Corrupted(s, t))
    /\ Corrupted(z, t) <=> Corrupted(s, t)
    /\ Live(old) \subseteq Live(new)

LEMMA InsertedAdds ==
    ASSUME Owned, NEW s, NEW t \in Tables, NEW k \in Keys, LifeOf(t) \in Nat,
           NEW z, NEW given, AddedTo(s, z, t, given)
    PROVE  AddedTo(s, Inserted(z, t, k, LifeOf(t)), t, given \union {k})
<1> DEFINE y == Inserted(z, t, k, LifeOf(t))
<1>0. StoreTyped(z) /\ InsertedInto(z, y, t, k, LifeOf(t))
  BY InsertedParts DEF AddedTo
<1> HIDE DEF y
<1>1. /\ StoreTyped(y) /\ SameElsewhere(z, y, t) /\ y.root[t]
      /\ z.root[t] => y.index_disk[IndexOf(t)] = z.index_disk[IndexOf(t)]
      /\ ~z.root[t] => y.index_disk[IndexOf(t)] = Zeros
  BY <1>0 DEF InsertedInto
<1>2. /\ (z.root[t] => LeafValid(z.index[IndexOf(t)], z.heap[HeapOf(t)]))
            => LeafValid(y.index[IndexOf(t)], y.heap[HeapOf(t)])
      /\ LivesAre(z.heap[HeapOf(t)], LifeOf(t)) => LivesAre(y.heap[HeapOf(t)], LifeOf(t))
      /\ \A j \in Keys : Found(y, t, j) <=> Found(z, t, j) \/ (j = k /\ ~Corrupted(z, t))
      /\ Corrupted(y, t) <=> Corrupted(z, t)
      /\ Live(z.heap[HeapOf(t)]) \subseteq Live(y.heap[HeapOf(t)])
  BY <1>0, InsertedTable DEF InsertionKeeps
<1>3. y.root[t] <=> s.root[t] \/ given \union {k} # {}
  BY <1>1
<1>4. y.index_disk[IndexOf(t)] = IF s.root[t] THEN s.index_disk[IndexOf(t)] ELSE Zeros
  BY <1>1 DEF AddedTo
<1>5. SameElsewhere(s, y, t)
  BY <1>1 DEF AddedTo, SameElsewhere
<1>6. \A j \in Keys : Found(y, t, j) <=>
                         Found(s, t, j) \/ (j \in given \union {k} /\ ~Corrupted(s, t))
  BY <1>2 DEF AddedTo
<1>7. /\ Corrupted(y, t) <=> Corrupted(s, t)
      /\ Live(s.heap[HeapOf(t)]) \subseteq Live(y.heap[HeapOf(t)])
      /\ LivesAre(s.heap[HeapOf(t)], LifeOf(t)) => LivesAre(y.heap[HeapOf(t)], LifeOf(t))
      /\ (s.root[t] => LeafValid(s.index[IndexOf(t)], s.heap[HeapOf(t)]))
            => (y.root[t] => LeafValid(y.index[IndexOf(t)], y.heap[HeapOf(t)]))
  BY <1>2 DEF AddedTo
<1> QED
  BY <1>1, <1>3, <1>4, <1>5, <1>6, <1>7 DEF AddedTo, y

LEMMA AddedStore ==
    ASSUME Owned, StoreTyped(Store), NEW t \in Tables, LifeOf(t) \in Nat, NEW ks \in Seq(Keys)
    PROVE  /\ AddedTo(Store, Added(t, ks), t, { ks[i] : i \in 1 .. Len(ks) })
           /\ Len(ks) = 1 => Added(t, ks) = Inserted(Store, t, ks[1], LifeOf(t))
<1>1. Len(ks) \in Nat /\ \A i \in 1 .. Len(ks) : ks[i] \in Keys
  OBVIOUS
<1>2. PICK w : /\ w[0] = Store
               /\ \A n \in 1 .. Len(ks) : w[n] = Inserted(w[n - 1], t, ks[n], LifeOf(t))
               /\ Added(t, ks) = w[Len(ks)]
  BY <1>1, AddedSteps
<1> DEFINE given(n) == { ks[i] : i \in 1 .. n }
           Holds(n) == n <= Len(ks) => AddedTo(Store, w[n], t, given(n))
           S == { n \in Nat : Holds(n) }
<1>3. 0 \in S
  <2>1. AddedTo(Store, Store, t, {})
    BY DEF AddedTo, SameElsewhere
  <2>2. given(0) = {}
    OBVIOUS
  <2> HIDE DEF given
  <2>3. Holds(0)
    BY <1>2, <2>1, <2>2
  <2> HIDE DEF Holds
  <2> QED BY <2>3
<1>4. ASSUME NEW n \in S PROVE n + 1 \in S
  <2>1. ASSUME n + 1 <= Len(ks) PROVE AddedTo(Store, w[n + 1], t, given(n + 1))
    <3> HIDE DEF given
    <3>1. AddedTo(Store, w[n], t, given(n)) /\ n + 1 \in 1 .. Len(ks)
      BY <1>1, <2>1
    <3>2. w[n + 1] = Inserted(w[n], t, ks[n + 1], LifeOf(t))
      <4>1. (n + 1) - 1 = n
        OBVIOUS
      <4> QED BY <3>1, <4>1, <1>2
    <3>3. given(n + 1) = given(n) \union {ks[n + 1]}
      BY DEF given
    <3> QED BY <1>1, <3>1, <3>2, <3>3, InsertedAdds
  <2>2. Holds(n + 1)
    BY <2>1
  <2> HIDE DEF Holds
  <2> QED BY <2>2
<1>5. S = Nat
  <2> HIDE DEF S
  <2>1. S \in SUBSET Nat
    BY DEF S
  <2> QED BY <1>3, <1>4, <2>1, EveryRound
<1>6. AddedTo(Store, w[Len(ks)], t, given(Len(ks)))
  <2> HIDE DEF given
  <2> QED BY <1>1, <1>5
<1>7. Len(ks) = 1 => w[Len(ks)] = Inserted(Store, t, ks[1], LifeOf(t))
  <2>1. 1 - 1 = 0
    OBVIOUS
  <2> QED BY <1>2, <2>1
<1> QED
  BY <1>2, <1>6, <1>7

(* What the replay of a record is to the store. *)
LEMMA DeletedParts ==
    ASSUME Owned, NEW s, StoreTyped(s), NEW r \in RecordType, r.table \in Tables,
           r.op = "delete", Found(s, r.table, r.key)
    PROVE  LET t == r.table
               z == ReplayRecord(s, r)
               old == s.heap[HeapOf(t)]
               leaf == s.index[IndexOf(t)]
           IN  /\ StoreTyped(z) /\ SameElsewhere(s, z, t)
               /\ leaf \in [Keys -> Nat]
               /\ z.index[IndexOf(t)] = [leaf EXCEPT ![r.key] = 0]
               /\ z.heap[HeapOf(t)] = IF leaf[r.key] \in DOMAIN old
                                      THEN [old EXCEPT ![leaf[r.key]].live = FALSE] ELSE old
               /\ z.index_disk = s.index_disk /\ z.root = s.root
<1> DEFINE t == r.table
           z == ReplayRecord(s, r)
           old == s.heap[HeapOf(t)]
           leaf == s.index[IndexOf(t)]
           new == IF leaf[r.key] \in DOMAIN old
                  THEN [old EXCEPT ![leaf[r.key]].live = FALSE] ELSE old
           page == [leaf EXCEPT ![r.key] = 0]
<1>1. HeapOf(t) \in Relations /\ IndexOf(t) \in Relations /\ r.key \in Keys
  BY DEF Owned, RecordType
<1>2. leaf \in [Keys -> Nat]
  BY <1>1 DEF Found, StoreTyped, LeafType
<1>3. old \in Seq(SlotType)
  BY <1>1 DEF StoreTyped
<1>4. new \in Seq(SlotType)
  <2> HIDE DEF old
  <2>1. CASE leaf[r.key] \in DOMAIN old
    <3> DEFINE at == leaf[r.key]
    <3>1. at \in 1 .. Len(old) /\ old[at] \in SlotType
      BY <2>1, <1>3
    <3>2. [old[at] EXCEPT !.live = FALSE] \in SlotType
      BY <3>1 DEF SlotType
    <3> HIDE DEF at
    <3>3. [old EXCEPT ![at] = [old[at] EXCEPT !.live = FALSE]] \in Seq(SlotType)
      BY <3>1, <3>2, <1>3
    <3>4. new = [old EXCEPT ![at] = [old[at] EXCEPT !.live = FALSE]]
      BY <2>1 DEF at
    <3> QED BY <3>3, <3>4
  <2>2. CASE leaf[r.key] \notin DOMAIN old
    BY <2>2, <1>3
  <2> QED BY <2>1, <2>2
<1>5. page \in LeafType
  <2> HIDE DEF leaf
  <2> QED BY <1>1, <1>2 DEF LeafType
<1>6. z = [s EXCEPT !.index = [s.index EXCEPT ![IndexOf(t)] = page],
                    !.heap = [s.heap EXCEPT ![HeapOf(t)] = new]]
  <2>1. r.op # "insert"
    OBVIOUS
  <2> QED BY <2>1, <1>1 DEF ReplayRecord, StoreTyped
<1> HIDE DEF page, new, z
<1>7. /\ DOMAIN z = {"heap", "index", "index_disk", "root"}
      /\ z.index = [s.index EXCEPT ![IndexOf(t)] = page]
      /\ z.heap = [s.heap EXCEPT ![HeapOf(t)] = new]
      /\ z.index_disk = s.index_disk /\ z.root = s.root
  BY <1>6 DEF StoreTyped
<1>8. StoreTyped(z)
  BY <1>1, <1>4, <1>5, <1>7 DEF StoreTyped
<1>9. SameElsewhere(s, z, t)
  BY <1>7 DEF SameElsewhere, StoreTyped
<1>10. z.index[IndexOf(t)] = page /\ z.heap[HeapOf(t)] = new
  BY <1>1, <1>7 DEF StoreTyped
<1> QED
  BY <1>2, <1>7, <1>8, <1>9, <1>10 DEF page, new, z

ReplaysTo(s, z, r) ==
    LET t == r.table
        old == s.heap[HeapOf(t)] new == z.heap[HeapOf(t)] IN
    /\ StoreTyped(z)
    /\ SameElsewhere(s, z, t)
    /\ s.root[t] => z.root[t]
    /\ z.index_disk[IndexOf(t)] = s.index_disk[IndexOf(t)]
         \/ (~s.root[t] /\ z.index_disk[IndexOf(t)] = Zeros)
    /\ z.root[t] /\ ~s.root[t] => z.index_disk[IndexOf(t)] = Zeros
    /\ z.root[t] => LeafValid(z.index[IndexOf(t)], new)
    /\ LivesAre(old, r.life) => LivesAre(new, r.life)
    /\ \A j \in Keys : j # r.key => (Found(z, t, j) <=> Found(s, t, j))
    /\ r.op = "delete" => ~Found(z, t, r.key)
    /\ r.op = "insert" /\ ~Corrupted(s, t) => Found(z, t, r.key)
    /\ Corrupted(z, t) <=> Corrupted(s, t)

LEMMA ReplayedRecord ==
    ASSUME Owned, NEW s, StoreTyped(s), NEW r \in RecordType, r.table \in Tables,
           s.root[r.table] => LeafValid(s.index[IndexOf(r.table)], s.heap[HeapOf(r.table)])
    PROVE  ReplaysTo(s, ReplayRecord(s, r), r)
<1> DEFINE t == r.table
           z == ReplayRecord(s, r)
<1>1. /\ r.key \in Keys /\ r.life \in Nat /\ r.op \in {"insert", "delete"}
      /\ HeapOf(t) \in Relations /\ IndexOf(t) \in Relations
  BY DEF RecordType, Owned
<1>2. ASSUME r.op = "insert", Found(s, t, r.key)
      PROVE  ReplaysTo(s, z, r)
  <2>1. z = s
    BY <1>2 DEF ReplayRecord
  <2> HIDE DEF z
  <2> QED BY <2>1, <1>2 DEF ReplaysTo, SameElsewhere
<1>3. ASSUME r.op = "delete", ~Found(s, t, r.key)
      PROVE  ReplaysTo(s, z, r)
  <2>1. z = s
    BY <1>3 DEF ReplayRecord
  <2> HIDE DEF z
  <2> QED BY <2>1, <1>3 DEF ReplaysTo, SameElsewhere
<1>4. ASSUME r.op = "insert", ~Found(s, t, r.key)
      PROVE  ReplaysTo(s, z, r)
  <2>1. z = Inserted(s, t, r.key, r.life)
    BY <1>4 DEF ReplayRecord
  <2>0. InsertedInto(s, z, t, r.key, r.life)
    BY <1>1, <2>1, InsertedParts
  <2> HIDE DEF z
  <2>2. /\ StoreTyped(z) /\ SameElsewhere(s, z, t) /\ z.root[t]
        /\ s.root[t] => z.index_disk[IndexOf(t)] = s.index_disk[IndexOf(t)]
        /\ ~s.root[t] => z.index_disk[IndexOf(t)] = Zeros
    BY <2>0 DEF InsertedInto
  <2>3. /\ LeafValid(z.index[IndexOf(t)], z.heap[HeapOf(t)])
        /\ LivesAre(s.heap[HeapOf(t)], r.life) => LivesAre(z.heap[HeapOf(t)], r.life)
        /\ \A j \in Keys : Found(z, t, j) <=> Found(s, t, j) \/ (j = r.key /\ ~Corrupted(s, t))
        /\ Corrupted(z, t) <=> Corrupted(s, t)
    BY <1>1, <2>0, InsertedTable DEF InsertionKeeps
  <2> QED BY <1>1, <1>4, <2>2, <2>3 DEF ReplaysTo
<1>5. ASSUME r.op = "delete", Found(s, t, r.key)
      PROVE  ReplaysTo(s, z, r)
  <2> DEFINE old == s.heap[HeapOf(t)]
             new == z.heap[HeapOf(t)]
             leaf == s.index[IndexOf(t)]
             at == leaf[r.key]
             page == z.index[IndexOf(t)]
  <2>1. /\ StoreTyped(z) /\ SameElsewhere(s, z, t)
        /\ leaf \in [Keys -> Nat]
        /\ page = [leaf EXCEPT ![r.key] = 0]
        /\ new = IF at \in DOMAIN old THEN [old EXCEPT ![at].live = FALSE] ELSE old
        /\ z.index_disk = s.index_disk /\ z.root = s.root
    BY <1>5, DeletedParts
  <2>2. s.root[t] /\ leaf # Zeros /\ at # 0
    BY <1>5 DEF Found
  <2>3. at \in Live(old) /\ old[at].key = r.key
    BY <2>2, <1>1 DEF LeafValid
  <2>4. old \in Seq(SlotType)
    BY <1>1 DEF StoreTyped
  <2> HIDE DEF z, old, new, page, leaf
  <2>5. \A i \in DOMAIN old : DOMAIN old[i] = {"key", "life", "live"}
    <3>1. \A e \in SlotType : DOMAIN e = {"key", "life", "live"}
      BY DEF SlotType
    <3>2. \A i \in DOMAIN old : old[i] \in SlotType
      BY <2>4
    <3> QED BY <3>1, <3>2
  <2>6. at \in DOMAIN old
    BY <2>3 DEF Live
  <2>7. /\ DOMAIN new = DOMAIN old
        /\ \A i \in DOMAIN old : new[i].key = old[i].key /\ new[i].life = old[i].life
        /\ \A i \in DOMAIN old : i # at => new[i] = old[i]
        /\ ~new[at].live
    BY <2>1, <2>5, <2>6
  <2>8. Live(new) = Live(old) \ {at}
    BY <2>6, <2>7 DEF Live
  <2>9. /\ page \in [Keys -> Nat] /\ page # Zeros /\ page[r.key] = 0
        /\ \A j \in Keys : j # r.key => page[j] = leaf[j]
    BY <2>1, <1>1, ZerosIsNoLeaf
  <2>10. LivesAre(old, r.life) => LivesAre(new, r.life)
    BY <2>7, <2>8 DEF LivesAre, Live
  <2>11. LeafValid(page, new)
    <3> SUFFICES ASSUME NEW j \in Keys, page[j] # 0
                 PROVE  page[j] \in Live(new) /\ new[page[j]].key = j
      BY DEF LeafValid
    <3>1. j # r.key /\ page[j] = leaf[j] /\ leaf[j] # 0
      BY <2>9
    <3>2. leaf[j] \in Live(old) /\ old[leaf[j]].key = j
      BY <3>1, <2>2 DEF LeafValid, leaf, old
    <3>3. leaf[j] # at
      BY <3>1, <3>2, <2>3
    <3>4. leaf[j] \in DOMAIN old
      BY <3>2 DEF Live
    <3> QED BY <3>1, <3>2, <3>3, <3>4, <2>7, <2>8
  <2>12. \A j \in Keys : j # r.key => (Found(z, t, j) <=> Found(s, t, j))
    BY <2>1, <2>2, <2>9 DEF Found, page, leaf
  <2>13. ~Found(z, t, r.key)
    BY <2>9 DEF Found, page
  <2>14. ~Corrupted(z, t) /\ ~Corrupted(s, t)
    BY <2>2, <2>9 DEF Corrupted, page, leaf
  <2>15. z.root[t] /\ z.index_disk[IndexOf(t)] = s.index_disk[IndexOf(t)]
    BY <2>1, <2>2
  <2> QED
    BY <2>1, <2>2, <2>10, <2>11, <2>12, <2>13, <2>14, <2>15, <1>5
    DEF ReplaysTo, page, new, old
<1> QED
  BY <1>1, <1>2, <1>3, <1>4, <1>5

-----------------------------------------------------------------------------
(* The rebuild *)

LEMMA RebuiltLeafHolds ==
    ASSUME NEW slots \in Seq(SlotType)
    PROVE  /\ RebuiltLeaf(slots) \in [Keys -> Nat]
           /\ \A k \in Keys : RebuiltLeaf(slots)[k] # 0 <=> \E i \in Live(slots) : slots[i].key = k
           /\ LeafValid(RebuiltLeaf(slots), slots)
<1> DEFINE holds(k) == { i \in Live(slots) : slots[i].key = k }
           First(k) == CHOOSE i \in holds(k) : \A j \in holds(k) : i <= j
<1>1. Live(slots) \subseteq Nat \ {0}
  BY DEF Live
<1>2. ASSUME NEW k \in Keys, holds(k) # {}
      PROVE  First(k) \in holds(k)
  <2>1. holds(k) \in SUBSET Nat
    BY <1>1
  <2> HIDE DEF holds
  <2>2. \E m \in holds(k) : \A n \in holds(k) : m <= n
    <3>1. PICK m \in holds(k) : \A n \in holds(k) : ~ (n < m)
      BY <1>2, <2>1, SmallestNumber
    <3> QED BY <2>1, <3>1
  <2> QED BY <2>2
<1>3. \A k \in Keys : RebuiltLeaf(slots)[k] = IF holds(k) = {} THEN 0 ELSE First(k)
  BY DEF RebuiltLeaf
<1>4. RebuiltLeaf(slots) = [k \in Keys |-> RebuiltLeaf(slots)[k]]
  BY DEF RebuiltLeaf
<1> HIDE DEF First
<1>5. \A k \in Keys : holds(k) # {} => First(k) \in Nat \ {0}
  BY <1>1, <1>2
<1>6. RebuiltLeaf(slots) \in [Keys -> Nat]
  BY <1>3, <1>4, <1>5
<1>7. \A k \in Keys : RebuiltLeaf(slots)[k] # 0 <=> \E i \in Live(slots) : slots[i].key = k
  BY <1>3, <1>5
<1>8. LeafValid(RebuiltLeaf(slots), slots)
  BY <1>2, <1>3 DEF LeafValid
<1> QED
  BY <1>6, <1>7, <1>8

RebuiltFrom(s, t) ==
    LET leaf == index[IndexOf(t)] IN
    /\ s.root[t] = data.tables[t].root_page_num
    /\ s.heap[HeapOf(t)] = heap[HeapOf(t)]
    /\ s.index_disk[IndexOf(t)] = index_disk[IndexOf(t)]
    /\ \A k \in Keys :
          Found(s, t, k) <=>
             /\ data.tables[t].root_page_num
             /\ IF leaf = Zeros THEN \E i \in Live(heap[HeapOf(t)]) : heap[HeapOf(t)][i].key = k
                ELSE leaf[k] # 0
    /\ (data.tables[t].root_page_num => LeafValid(leaf, heap[HeapOf(t)]))
          => (s.root[t] => LeafValid(s.index[IndexOf(t)], s.heap[HeapOf(t)]))

LEMMA RebuiltParts ==
    ASSUME Owned, StoreTyped(Store)
    PROVE  /\ StoreTyped(Rebuilt)
           /\ Rebuilt.heap = heap /\ Rebuilt.index_disk = index_disk /\ Rebuilt.root = Store.root
           /\ \A t \in Tables :
                 Rebuilt.index[IndexOf(t)] =
                    IF Rebuilding(t) THEN RebuiltLeaf(heap[HeapOf(t)]) ELSE index[IndexOf(t)]
<1> DEFINE owners(r) == { t \in Tables : IndexOf(t) = r /\ Rebuilding(t) }
           page(r) == IF owners(r) = {} THEN index[r]
                      ELSE RebuiltLeaf(heap[HeapOf(CHOOSE t \in owners(r) : TRUE)])
<1>1. /\ Store.heap = heap /\ Store.index = index /\ Store.index_disk = index_disk
      /\ DOMAIN Store = {"heap", "index", "index_disk", "root"}
  BY DEF Store
<1>2. Rebuilt = [Store EXCEPT !.index = [r \in Relations |-> page(r)]]
  BY DEF Rebuilt
<1>3. \A r \in Relations : page(r) \in LeafType
  <2> SUFFICES ASSUME NEW r \in Relations PROVE page(r) \in LeafType
    OBVIOUS
  <2>1. CASE owners(r) = {}
    BY <2>1, <1>1 DEF StoreTyped
  <2>2. CASE owners(r) # {}
    <3> DEFINE t == CHOOSE t \in owners(r) : TRUE
    <3>1. t \in Tables
      BY <2>2
    <3>2. page(r) = RebuiltLeaf(heap[HeapOf(t)])
      BY <2>2
    <3> HIDE DEF t, page
    <3>3. heap[HeapOf(t)] \in Seq(SlotType)
      BY <3>1, <1>1 DEF Owned, StoreTyped
    <3>4. RebuiltLeaf(heap[HeapOf(t)]) \in [Keys -> Nat]
      BY <3>3, RebuiltLeafHolds
    <3> QED BY <3>2, <3>4 DEF LeafType
  <2> QED BY <2>1, <2>2
<1>4. \A t \in Tables : page(IndexOf(t)) =
                          IF Rebuilding(t) THEN RebuiltLeaf(heap[HeapOf(t)]) ELSE index[IndexOf(t)]
  <2> SUFFICES ASSUME NEW t \in Tables
               PROVE  page(IndexOf(t)) = IF Rebuilding(t) THEN RebuiltLeaf(heap[HeapOf(t)])
                                         ELSE index[IndexOf(t)]
    OBVIOUS
  <2>1. owners(IndexOf(t)) = IF Rebuilding(t) THEN {t} ELSE {}
    BY DEF Owned
  <2> HIDE DEF owners
  <2> QED BY <2>1
<1> HIDE DEF page
<1>5. /\ DOMAIN Rebuilt = {"heap", "index", "index_disk", "root"}
      /\ Rebuilt.heap = heap /\ Rebuilt.index_disk = index_disk /\ Rebuilt.root = Store.root
      /\ Rebuilt.index = [r \in Relations |-> page(r)]
  BY <1>1, <1>2
<1>6. StoreTyped(Rebuilt)
  BY <1>1, <1>3, <1>5 DEF StoreTyped
<1> QED
  BY <1>4, <1>5, <1>6 DEF Owned

LEMMA RebuiltTable ==
    ASSUME Owned, StoreTyped(Store), NEW t \in Tables
    PROVE  RebuiltFrom(Rebuilt, t)
<1> DEFINE s == Rebuilt
           leaf == index[IndexOf(t)]
           slots == heap[HeapOf(t)]
           page == s.index[IndexOf(t)]
<1>1. /\ s.heap = heap /\ s.index_disk = index_disk /\ s.root = Store.root
      /\ page = IF Rebuilding(t) THEN RebuiltLeaf(slots) ELSE leaf
  BY RebuiltParts
<1>2. Store.root[t] = data.tables[t].root_page_num /\ Store.root[t] \in BOOLEAN
  BY DEF Store, StoreTyped
<1>3. slots \in Seq(SlotType) /\ leaf \in LeafType
  BY DEF Owned, Store, StoreTyped
<1>4. Rebuilding(t) <=> Store.root[t] /\ leaf = Zeros /\ Live(slots) # {}
  BY DEF Rebuilding, Corrupted, Store
<1>5. /\ RebuiltLeaf(slots) \in [Keys -> Nat]
      /\ \A k \in Keys : RebuiltLeaf(slots)[k] # 0 <=> \E i \in Live(slots) : slots[i].key = k
      /\ LeafValid(RebuiltLeaf(slots), slots)
  BY <1>3, RebuiltLeafHolds
<1>6. \A k \in Keys : Found(s, t, k) <=> s.root[t] /\ page # Zeros /\ page[k] # 0
  BY DEF Found
<1> HIDE DEF s, leaf, slots, page
<1>7. \A k \in Keys :
         Found(s, t, k) <=>
            /\ data.tables[t].root_page_num
            /\ IF leaf = Zeros THEN \E i \in Live(slots) : slots[i].key = k ELSE leaf[k] # 0
  <2> TAKE k \in Keys
  <2>1. CASE Rebuilding(t)
    BY <2>1, <1>1, <1>2, <1>4, <1>5, <1>6, ZerosIsNoLeaf
  <2>2. CASE ~Rebuilding(t)
    BY <2>2, <1>1, <1>2, <1>4, <1>6
  <2> QED BY <2>1, <2>2
<1>8. (data.tables[t].root_page_num => LeafValid(leaf, slots))
         => (s.root[t] => LeafValid(page, slots))
  BY <1>1, <1>2, <1>5
<1> QED
  BY <1>1, <1>2, <1>7, <1>8 DEF RebuiltFrom, s, leaf, slots, page

-----------------------------------------------------------------------------
(* The replay *)

LastMention(n, i, t, k) ==
    /\ i \in 1 .. n /\ On(log_file[i], t, k)
    /\ \A j \in 1 .. n : j > i => ~On(log_file[j], t, k)

(* What the first n records have made of a table. *)
ReplayedTo(n, s, t) ==
    LET b == Rebuilt IN
    /\ b.root[t] => s.root[t] /\ s.index_disk[IndexOf(t)] = b.index_disk[IndexOf(t)]
    /\ ~b.root[t] /\ s.root[t] => s.index_disk[IndexOf(t)] = Zeros
    /\ s.root[t] => LeafValid(s.index[IndexOf(t)], s.heap[HeapOf(t)])
    /\ Corrupted(s, t) <=> Corrupted(b, t)
    /\ \A l : /\ LivesAre(b.heap[HeapOf(t)], l)
              /\ \A i \in 1 .. n : log_file[i].table = t => log_file[i].life = l
              => LivesAre(s.heap[HeapOf(t)], l)
    /\ \A k \in Keys :
          /\ (\A i \in 1 .. n : ~On(log_file[i], t, k)) => (Found(s, t, k) <=> Found(b, t, k))
          /\ \A i \in 1 .. n : LastMention(n, i, t, k) =>
                /\ Found(s, t, k) => log_file[i].op = "insert"
                /\ log_file[i].op = "insert" /\ ~Corrupted(b, t) => Found(s, t, k)

LEMMA OtherTableStays ==
    ASSUME Owned, NEW s, NEW z, NEW t \in Tables, SameElsewhere(s, z, t),
           NEW u \in Tables, u # t
    PROVE  /\ z.root[u] = s.root[u]
           /\ z.heap[HeapOf(u)] = s.heap[HeapOf(u)]
           /\ z.index[IndexOf(u)] = s.index[IndexOf(u)]
           /\ z.index_disk[IndexOf(u)] = s.index_disk[IndexOf(u)]
           /\ \A k : Found(z, u, k) <=> Found(s, u, k)
           /\ Corrupted(z, u) <=> Corrupted(s, u)
<1>1. /\ z.root[u] = s.root[u]
      /\ z.heap[HeapOf(u)] = s.heap[HeapOf(u)]
      /\ z.index[IndexOf(u)] = s.index[IndexOf(u)]
      /\ z.index_disk[IndexOf(u)] = s.index_disk[IndexOf(u)]
  BY DEF Owned, SameElsewhere
<1> QED
  BY <1>1 DEF Found, Corrupted

(* The last mention of a key, with one more record. *)
LEMMA MentionedOther ==
    ASSUME NEW n \in Nat, NEW t, NEW k, ~On(log_file[n + 1], t, k), NEW i \in 1 .. n + 1
    PROVE  /\ LastMention(n + 1, i, t, k) <=> i \in 1 .. n /\ LastMention(n, i, t, k)
           /\ (\A j \in 1 .. n + 1 : ~On(log_file[j], t, k))
                 <=> (\A j \in 1 .. n : ~On(log_file[j], t, k))
<1>1. \A j \in 1 .. n + 1 : j \in 1 .. n \/ j = n + 1
  OBVIOUS
<1>2. 1 .. n \subseteq 1 .. n + 1
  OBVIOUS
<1> QED
  BY <1>1, <1>2 DEF LastMention

LEMMA MentionedThis ==
    ASSUME NEW n \in Nat, NEW t, NEW k, On(log_file[n + 1], t, k), NEW i \in 1 .. n + 1
    PROVE  /\ LastMention(n + 1, i, t, k) => i = n + 1
           /\ ~(\A j \in 1 .. n + 1 : ~On(log_file[j], t, k))
<1>1. n + 1 \in 1 .. n + 1 /\ (i # n + 1 => n + 1 > i)
  OBVIOUS
<1> QED
  BY <1>1 DEF LastMention

LEMMA ReplayStepOther ==
    ASSUME Owned, NEW n \in Nat, NEW s, NEW z, NEW t \in Tables, ReplayedTo(n, s, t),
           z.root[t] = s.root[t],
           z.heap[HeapOf(t)] = s.heap[HeapOf(t)],
           z.index[IndexOf(t)] = s.index[IndexOf(t)],
           z.index_disk[IndexOf(t)] = s.index_disk[IndexOf(t)],
           \A k : Found(z, t, k) <=> Found(s, t, k),
           Corrupted(z, t) <=> Corrupted(s, t),
           log_file[n + 1].table # t
    PROVE  ReplayedTo(n + 1, z, t)
<1>1. \A k : ~On(log_file[n + 1], t, k)
  BY DEF On
<1>2. 1 .. n \subseteq 1 .. n + 1
  OBVIOUS
<1>3. ASSUME NEW k \in Keys
      PROVE  /\ (\A i \in 1 .. n + 1 : ~On(log_file[i], t, k))
                   => (Found(z, t, k) <=> Found(Rebuilt, t, k))
             /\ \A i \in 1 .. n + 1 : LastMention(n + 1, i, t, k) =>
                   /\ Found(z, t, k) => log_file[i].op = "insert"
                   /\ log_file[i].op = "insert" /\ ~Corrupted(Rebuilt, t) => Found(z, t, k)
  BY <1>1, <1>2, MentionedOther DEF ReplayedTo
<1>4. ASSUME NEW l, LivesAre(Rebuilt.heap[HeapOf(t)], l),
             \A i \in 1 .. n + 1 : log_file[i].table = t => log_file[i].life = l
      PROVE  LivesAre(z.heap[HeapOf(t)], l)
  BY <1>2, <1>4 DEF ReplayedTo
<1> QED
  BY <1>3, <1>4 DEF ReplayedTo

LEMMA ReplayStepThis ==
    ASSUME Owned, NEW n \in Nat, NEW s, NEW z, NEW r \in RecordType, r = log_file[n + 1],
           NEW t \in Tables, t = r.table, ReplayedTo(n, s, t), ReplaysTo(s, z, r)
    PROVE  ReplayedTo(n + 1, z, t)
<1>1. 1 .. n \subseteq 1 .. n + 1 /\ n + 1 \in 1 .. n + 1 /\ r.key \in Keys
  BY DEF RecordType
<1>2. /\ s.root[t] => z.root[t]
      /\ \/ z.index_disk[IndexOf(t)] = s.index_disk[IndexOf(t)]
         \/ ~s.root[t] /\ z.index_disk[IndexOf(t)] = Zeros
      /\ z.root[t] /\ ~s.root[t] => z.index_disk[IndexOf(t)] = Zeros
      /\ z.root[t] => LeafValid(z.index[IndexOf(t)], z.heap[HeapOf(t)])
      /\ LivesAre(s.heap[HeapOf(t)], r.life) => LivesAre(z.heap[HeapOf(t)], r.life)
      /\ \A j \in Keys : j # r.key => (Found(z, t, j) <=> Found(s, t, j))
      /\ r.op = "delete" => ~Found(z, t, r.key)
      /\ r.op = "insert" /\ ~Corrupted(s, t) => Found(z, t, r.key)
      /\ Corrupted(z, t) <=> Corrupted(s, t)
  BY DEF ReplaysTo
<1>3. ASSUME NEW k \in Keys
      PROVE  /\ (\A i \in 1 .. n + 1 : ~On(log_file[i], t, k))
                   => (Found(z, t, k) <=> Found(Rebuilt, t, k))
             /\ \A i \in 1 .. n + 1 : LastMention(n + 1, i, t, k) =>
                   /\ Found(z, t, k) => log_file[i].op = "insert"
                   /\ log_file[i].op = "insert" /\ ~Corrupted(Rebuilt, t) => Found(z, t, k)
  <2>1. CASE k = r.key
    <3>1. On(log_file[n + 1], t, k)
      BY <2>1 DEF On
    <3>2. r.op \in {"insert", "delete"}
      BY DEF RecordType
    <3>3. Corrupted(s, t) <=> Corrupted(Rebuilt, t)
      BY DEF ReplayedTo
    <3> QED BY <2>1, <3>1, <3>2, <3>3, <1>2, MentionedThis
  <2>2. CASE k # r.key
    <3>1. ~On(log_file[n + 1], t, k)
      BY <2>2 DEF On
    <3>2. Found(z, t, k) <=> Found(s, t, k)
      BY <2>2, <1>2
    <3> QED BY <3>1, <3>2, <1>1, MentionedOther DEF ReplayedTo
  <2> QED BY <2>1, <2>2
<1>4. ASSUME NEW l, LivesAre(Rebuilt.heap[HeapOf(t)], l),
             \A i \in 1 .. n + 1 : log_file[i].table = t => log_file[i].life = l
      PROVE  LivesAre(z.heap[HeapOf(t)], l)
  <2>1. r.life = l
    BY <1>1, <1>4
  <2>2. LivesAre(s.heap[HeapOf(t)], l)
    BY <1>1, <1>4 DEF ReplayedTo
  <2> QED BY <2>1, <2>2, <1>2
<1>5. /\ Rebuilt.root[t] => z.root[t] /\ z.index_disk[IndexOf(t)] = Rebuilt.index_disk[IndexOf(t)]
      /\ ~Rebuilt.root[t] /\ z.root[t] => z.index_disk[IndexOf(t)] = Zeros
      /\ Corrupted(z, t) <=> Corrupted(Rebuilt, t)
  BY <1>2 DEF ReplayedTo
<1> QED
  BY <1>2, <1>3, <1>4, <1>5 DEF ReplayedTo

LEMMA ReplayedStart ==
    ASSUME Owned, StoreTyped(Store), NEW t \in Tables,
           data.tables[t].root_page_num => LeafValid(index[IndexOf(t)], heap[HeapOf(t)])
    PROVE  ReplayedTo(0, Rebuilt, t)
<1>1. RebuiltFrom(Rebuilt, t)
  BY RebuiltTable
<1>2. 1 .. 0 = {}
  OBVIOUS
<1>3. Rebuilt.root[t] => LeafValid(Rebuilt.index[IndexOf(t)], Rebuilt.heap[HeapOf(t)])
  BY <1>1 DEF RebuiltFrom
<1> QED
  BY <1>2, <1>3 DEF ReplayedTo, LastMention

LEMMA ReplayedStore ==
    ASSUME Owned, StoreTyped(Store), log_file \in Seq(RecordType),
           \A t \in Tables :
              data.tables[t].root_page_num => LeafValid(index[IndexOf(t)], heap[HeapOf(t)])
    PROVE  /\ StoreTyped(Replayed)
           /\ \A t \in Tables : ReplayedTo(Len(log_file), Replayed, t)
           /\ \A r \in Relations : (\A t \in Tables : HeapOf(t) # r) => Replayed.heap[r] = heap[r]
<1>1. Len(log_file) \in Nat /\ \A n \in 1 .. Len(log_file) : log_file[n] \in RecordType
  OBVIOUS
<1>2. PICK w : /\ w[0] = Rebuilt
               /\ \A n \in 1 .. Len(log_file) : w[n] = ReplayRecord(w[n - 1], log_file[n])
               /\ Replayed = w[Len(log_file)]
  BY <1>1, ReplayedSteps
<1> DEFINE Good(n) == /\ StoreTyped(w[n])
                      /\ \A t \in Tables : ReplayedTo(n, w[n], t)
                      /\ \A r \in Relations : (\A t \in Tables : HeapOf(t) # r)
                                                 => w[n].heap[r] = heap[r]
           Holds(n) == n <= Len(log_file) => Good(n)
           S == { n \in Nat : Holds(n) }
<1>3. 0 \in S
  <2>1. Good(0)
    <3>1. StoreTyped(Rebuilt) /\ Rebuilt.heap = heap
      BY RebuiltParts
    <3> QED BY <1>2, <3>1, ReplayedStart
  <2> HIDE DEF Good
  <2>2. Holds(0)
    BY <2>1
  <2> HIDE DEF Holds
  <2> QED BY <2>2
<1>4. ASSUME NEW n \in S PROVE n + 1 \in S
  <2>1. ASSUME n + 1 <= Len(log_file) PROVE Good(n + 1)
    <3> DEFINE s == w[n]
               z == w[n + 1]
               r == log_file[n + 1]
    <3>1. Good(n) /\ n + 1 \in 1 .. Len(log_file) /\ r \in RecordType
      <4>1. n <= Len(log_file) /\ n + 1 \in 1 .. Len(log_file) /\ Holds(n)
        BY <1>1, <2>1
      <4> QED BY <1>1, <4>1
    <3>2. z = ReplayRecord(s, r)
      <4>1. (n + 1) - 1 = n
        OBVIOUS
      <4> QED BY <3>1, <4>1, <1>2
    <3>3. /\ StoreTyped(s)
          /\ \A t \in Tables : ReplayedTo(n, s, t)
          /\ \A q \in Relations : (\A t \in Tables : HeapOf(t) # q) => s.heap[q] = heap[q]
      BY <3>1
    <3>4. CASE r.table \notin Tables
      <4>1. z = s
        BY <3>2, <3>4 DEF ReplayRecord
      <4>2. \A t \in Tables : t # r.table
        BY <3>4
      <4> HIDE DEF z, s, Good
      <4>3. \A t \in Tables : ReplayedTo(n + 1, z, t)
        BY <3>3, <4>1, <4>2, ReplayStepOther DEF r
      <4> QED BY <3>3, <4>1, <4>3 DEF Good, z
    <3>5. CASE r.table \in Tables
      <4>1. s.root[r.table] => LeafValid(s.index[IndexOf(r.table)], s.heap[HeapOf(r.table)])
        BY <3>3, <3>5 DEF ReplayedTo
      <4>2. ReplaysTo(s, z, r)
        BY <3>1, <3>2, <3>3, <3>5, <4>1, ReplayedRecord
      <4>3. StoreTyped(z) /\ SameElsewhere(s, z, r.table)
        BY <4>2 DEF ReplaysTo
      <4> HIDE DEF z, s, Good
      <4>4. \A t \in Tables : ReplayedTo(n + 1, z, t)
        <5> TAKE t \in Tables
        <5>1. CASE t = r.table
          BY <5>1, <3>1, <3>3, <4>2, ReplayStepThis DEF r
        <5>2. CASE t # r.table
          <6> HIDE DEF r
          <6>1. /\ z.root[t] = s.root[t]
                /\ z.heap[HeapOf(t)] = s.heap[HeapOf(t)]
                /\ z.index[IndexOf(t)] = s.index[IndexOf(t)]
                /\ z.index_disk[IndexOf(t)] = s.index_disk[IndexOf(t)]
                /\ \A k : Found(z, t, k) <=> Found(s, t, k)
                /\ Corrupted(z, t) <=> Corrupted(s, t)
            BY <5>2, <3>5, <4>3, OtherTableStays
          <6> QED BY <6>1, <5>2, <3>3, ReplayStepOther DEF r
        <5> QED BY <5>1, <5>2
      <4>5. \A q \in Relations : (\A t \in Tables : HeapOf(t) # q) => z.heap[q] = heap[q]
        BY <3>3, <3>5, <4>3 DEF SameElsewhere
      <4> QED BY <4>3, <4>4, <4>5 DEF Good, z
    <3> QED BY <3>4, <3>5
  <2>2. Holds(n + 1)
    BY <2>1
  <2> HIDE DEF Holds
  <2> QED BY <2>2
<1>5. S = Nat
  <2> HIDE DEF S
  <2>1. S \in SUBSET Nat
    BY DEF S
  <2> QED BY <1>3, <1>4, <2>1, EveryRound
<1>6. Good(Len(log_file))
  <2> HIDE DEF Good
  <2> QED BY <1>1, <1>5
<1> QED
  BY <1>2, <1>6

-----------------------------------------------------------------------------
(* Type correctness *)

LEMMA CountFacts ==
    ASSUME TypeInv
    PROVE  /\ \A w \in Counted : count[w] \in Nat
           /\ count.create \in Nat /\ MaxCreates \in Nat /\ count.create <= MaxCreates
           /\ DOMAIN count = Counted
BY CatalogAssumption DEF TypeInv, CountTyped, Counted

LEMMA TypedOwned ==
    ASSUME TypeInv
    PROVE  /\ Owned /\ StoreTyped(Store)
           /\ \A t \in Tables : LifeOf(t) \in 1 .. MaxCreates /\ LifeOf(t) \in Nat /\ t \in Names
           /\ \A t, u \in Tables : LifeOf(t) = LifeOf(u) => t = u
<1>1. /\ \A t \in Tables : /\ HeapOf(t) \in Relations /\ IndexOf(t) \in Relations
                           /\ data.tables[t].root_page_num \in BOOLEAN
                           /\ LifeOf(t) \in 1 .. count.create /\ t \in Names
      /\ \A t, u \in Tables : LifeOf(t) = LifeOf(u) => t = u
  <2>1. TablesTyped(data, count.create)
    BY DEF TypeInv, TablesAllTyped
  <2> QED BY <2>1 DEF TablesTyped, Tables, HeapOf, IndexOf, LifeOf
<1>2. \A t, u \in Tables : t # u => HeapOf(t) # HeapOf(u) /\ IndexOf(t) # IndexOf(u)
  <2>1. CatalogOK(data)
    BY DEF TypeInv, CatalogsOK
  <2>2. /\ \A t \in Tables : /\ HeapOf(t) \in Nat /\ IndexOf(t) \in Nat
                             /\ HeapOf(t) < IndexOf(t)
        /\ \A t, u \in Tables : t # u => IndexOf(t) < HeapOf(u) \/ IndexOf(u) < HeapOf(t)
    BY <2>1 DEF CatalogOK, Apart, MetaOK, Tables, HeapOf, IndexOf
  <2> QED BY <2>2
<1>3. StoreTyped(Store)
  <2>1. [t \in Tables |-> data.tables[t].root_page_num] \in [Tables -> BOOLEAN]
    BY <1>1
  <2>2. /\ DOMAIN Store = {"heap", "index", "index_disk", "root"}
        /\ Store.heap = heap /\ Store.index = index /\ Store.index_disk = index_disk
        /\ Store.root = [t \in Tables |-> data.tables[t].root_page_num]
    BY DEF Store
  <2> QED BY <2>1, <2>2 DEF StoreTyped, TypeInv, PagesTyped
<1>4. \A l \in 1 .. count.create : l \in 1 .. MaxCreates /\ l \in Nat
  BY CountFacts
<1> QED
  BY <1>1, <1>2, <1>3, <1>4 DEF Owned

LEMMA MoreCreated ==
    ASSUME NEW c, NEW n \in Nat, NEW m \in Nat, n <= m, CatalogOK(c), TablesTyped(c, n)
    PROVE  TablesTyped(c, m)
BY DEF TablesTyped, CatalogOK

LEMMA EmptyTyped == ASSUME NEW n \in Nat PROVE TablesTyped(EmptyCatalog, n)
BY DEF TablesTyped, EmptyCatalog

LEMMA CreatedTyped ==
    ASSUME CatalogOK(data), TablesTyped(data, count.create), count.create \in Nat,
           MaxCreates \in Nat, count.create < MaxCreates, NEW t \in Names, t \notin Tables
    PROVE  TablesTyped(Created(t), count.create + 1)
<1> DEFINE n == data.next_relation_id
           c == Created(t)
           m == NewTable(n, count.create + 1)
<1>1. n \in Nat /\ n <= 2 * count.create
  BY DEF CatalogOK, TablesTyped
<1>2. /\ c.next_relation_id = n + 2
      /\ DOMAIN c.tables = Tables \union {t}
      /\ c.tables[t] = m
      /\ \A u \in Tables : c.tables[u] = data.tables[u]
  BY DEF Created, With
<1>3. n \in Relations /\ n + 1 \in Relations
  BY <1>1 DEF Relations
<1>4. /\ m.heap_relation_id \in Relations /\ m.index_relation_id \in Relations
      /\ m.root_page_num \in BOOLEAN /\ m.num_records \in Nat /\ m.life = count.create + 1
  BY <1>3 DEF NewTable
<1>5. \A u \in Tables : data.tables[u].life \in 1 .. count.create
  BY DEF TablesTyped, Tables
<1> HIDE DEF c, m
<1>6. \A u \in DOMAIN c.tables :
          /\ c.tables[u].heap_relation_id \in Relations
          /\ c.tables[u].index_relation_id \in Relations
          /\ c.tables[u].root_page_num \in BOOLEAN
          /\ c.tables[u].num_records \in Nat
          /\ c.tables[u].life \in 1 .. count.create + 1
  BY <1>2, <1>4, <1>5 DEF TablesTyped, Tables
<1>7. \A u, v \in DOMAIN c.tables : c.tables[u].life = c.tables[v].life => u = v
  BY <1>2, <1>4, <1>5 DEF TablesTyped, Tables
<1>8. DOMAIN c.tables \subseteq Names /\ c.next_relation_id <= 2 * (count.create + 1)
  BY <1>1, <1>2 DEF TablesTyped, Tables
<1>9. TablesTyped(c, count.create + 1)
  BY <1>6, <1>7, <1>8 DEF TablesTyped
<1> QED
  BY <1>9 DEF c

LEMMA DroppedTyped ==
    ASSUME CatalogOK(data), TablesTyped(data, count.create), NEW t
    PROVE  TablesTyped([data EXCEPT !.tables = Without(t)], count.create)
<1>1. /\ [data EXCEPT !.tables = Without(t)].next_relation_id = data.next_relation_id
      /\ [data EXCEPT !.tables = Without(t)].tables = Without(t)
  BY DEF CatalogOK
<1>2. DOMAIN Without(t) = Tables \ {t} /\ \A u \in Tables \ {t} : Without(t)[u] = data.tables[u]
  BY DEF Without
<1> QED
  BY <1>1, <1>2 DEF TablesTyped, Tables

(* What Rooted does to a table, and what update_num_records does.          *)
WithRoots(root) == [data EXCEPT !.tables = Rooted(@, root)]
WithCount(t, n) == [data EXCEPT !.tables[t].num_records = n]

LEMMA RootedParts ==
    ASSUME CatalogOK(data), NEW root, NEW c, c = WithRoots(root)
    PROVE  /\ c.next_relation_id = data.next_relation_id
           /\ DOMAIN c.tables = Tables
           /\ \A t \in Tables :
                 /\ c.tables[t].heap_relation_id = HeapOf(t)
                 /\ c.tables[t].index_relation_id = IndexOf(t)
                 /\ c.tables[t].life = LifeOf(t)
                 /\ c.tables[t].num_records = data.tables[t].num_records
                 /\ c.tables[t].root_page_num = root[t]
<1> DEFINE new == Rooted(data.tables, root)
<1>1. c.next_relation_id = data.next_relation_id /\ c.tables = new
  BY DEF CatalogOK, WithRoots
<1>2. DOMAIN new = Tables /\ \A t \in Tables : new[t] = [data.tables[t] EXCEPT !.root_page_num = root[t]]
  BY DEF Rooted, Tables
<1> HIDE DEF new
<1>3. \A t \in Tables : DOMAIN data.tables[t] = MetaFields
  BY DEF CatalogOK, Tables, MetaOK
<1>4. ASSUME NEW t \in Tables
      PROVE  /\ new[t].heap_relation_id = HeapOf(t)
             /\ new[t].index_relation_id = IndexOf(t)
             /\ new[t].life = LifeOf(t)
             /\ new[t].num_records = data.tables[t].num_records
             /\ new[t].root_page_num = root[t]
  BY <1>2, <1>3 DEF MetaFields, HeapOf, IndexOf, LifeOf
<1> QED
  BY <1>1, <1>2, <1>4

LEMMA CountedParts ==
    ASSUME CatalogOK(data), NEW t \in Tables, NEW n, NEW c,
           c = WithCount(t, n)
    PROVE  /\ c.next_relation_id = data.next_relation_id
           /\ DOMAIN c.tables = Tables
           /\ \A u \in Tables :
                 /\ c.tables[u].heap_relation_id = HeapOf(u)
                 /\ c.tables[u].index_relation_id = IndexOf(u)
                 /\ c.tables[u].life = LifeOf(u)
                 /\ c.tables[u].root_page_num = data.tables[u].root_page_num
                 /\ c.tables[u].num_records = IF u = t THEN n ELSE data.tables[u].num_records
<1> DEFINE new == [data.tables EXCEPT ![t].num_records = n]
<1>1. c.next_relation_id = data.next_relation_id /\ c.tables = new
  BY DEF CatalogOK, WithCount
<1>2. \A u \in Tables : DOMAIN data.tables[u] = MetaFields
  BY DEF CatalogOK, Tables, MetaOK
<1>3. /\ DOMAIN new = Tables
      /\ new[t] = [data.tables[t] EXCEPT !.num_records = n]
      /\ \A u \in Tables : u # t => new[u] = data.tables[u]
  BY DEF Tables
<1> HIDE DEF new
<1>4. ASSUME NEW u \in Tables
      PROVE  /\ new[u].heap_relation_id = HeapOf(u)
             /\ new[u].index_relation_id = IndexOf(u)
             /\ new[u].life = LifeOf(u)
             /\ new[u].root_page_num = data.tables[u].root_page_num
             /\ new[u].num_records = IF u = t THEN n ELSE data.tables[u].num_records
  BY <1>2, <1>3 DEF MetaFields, HeapOf, IndexOf, LifeOf
<1> QED
  BY <1>1, <1>3, <1>4

LEMMA RootedTyped ==
    ASSUME CatalogOK(data), TablesTyped(data, count.create),
           NEW root, \A t \in Tables : root[t] \in BOOLEAN,
           NEW c, c = WithRoots(root)
    PROVE  TablesTyped(c, count.create)
<1>1. /\ c.next_relation_id = data.next_relation_id
      /\ DOMAIN c.tables = Tables
      /\ \A t \in Tables :
            /\ c.tables[t].heap_relation_id = HeapOf(t)
            /\ c.tables[t].index_relation_id = IndexOf(t)
            /\ c.tables[t].life = LifeOf(t)
            /\ c.tables[t].num_records = data.tables[t].num_records
            /\ c.tables[t].root_page_num = root[t]
  BY RootedParts
<1> QED
  BY <1>1 DEF TablesTyped, Tables, HeapOf, IndexOf, LifeOf

LEMMA CountedTyped ==
    ASSUME CatalogOK(data), TablesTyped(data, count.create), NEW t \in Tables, NEW n \in Nat,
           NEW c, c = WithCount(t, n)
    PROVE  TablesTyped(c, count.create)
<1>1. /\ c.next_relation_id = data.next_relation_id
      /\ DOMAIN c.tables = Tables
      /\ \A u \in Tables :
            /\ c.tables[u].heap_relation_id = HeapOf(u)
            /\ c.tables[u].index_relation_id = IndexOf(u)
            /\ c.tables[u].life = LifeOf(u)
            /\ c.tables[u].root_page_num = data.tables[u].root_page_num
            /\ c.tables[u].num_records = IF u = t THEN n ELSE data.tables[u].num_records
  BY CountedParts
<1> QED
  BY <1>1 DEF TablesTyped, Tables, HeapOf, IndexOf, LifeOf

-----------------------------------------------------------------------------
(* Every step keeps the types. *)

TypeRest == TablesAllTyped /\ PagesTyped /\ LogsTyped /\ TodoTyped /\ CountTyped /\ HistoryTyped

(* Counting something up keeps the bounds. *)
LEMMA CountingTyped ==
    ASSUME TypeInv, NEW w \in Counted, NEW n \in Nat, Counting(w, n),
           w = "create" => n = MaxCreates
    PROVE  /\ CountTyped'
           /\ count'.create = IF w = "create" THEN count.create + 1 ELSE count.create
           /\ count.create <= count'.create
<1>1. count \in [Counted -> Nat] /\ "create" \in Counted /\ count.create \in Nat
  BY DEF TypeInv, CountTyped, Counted
<1>2. count' = [count EXCEPT ![w] = @ + 1] /\ count[w] < n
  BY DEF Counting
<1>3. count' \in [Counted -> Nat]
  BY <1>1, <1>2
<1>4. count'.create = IF w = "create" THEN count.create + 1 ELSE count.create
  BY <1>1, <1>2
<1>5. count.create <= MaxCreates
  BY DEF TypeInv, CountTyped
<1> QED
  BY <1>1, <1>2, <1>3, <1>4, <1>5 DEF CountTyped

LEMMA CountingOthers ==
    ASSUME TypeInv, NEW w, NEW n, Counting(w, n)
    PROVE  \A v \in Counted : v # w => count'[v] = count[v]
<1>1. count \in [Counted -> Nat]
  BY DEF TypeInv, CountTyped
<1> QED
  BY <1>1 DEF Counting

(* The tables stay typed when more were created. *)
LEMMA SameCatalogsTyped ==
    ASSUME TypeInv, CountTyped', count.create <= count'.create, NEW c,
           c = data \/ c = catalog_file.value \/ c = temp_file.value \/ c = EmptyCatalog
    PROVE  TablesTyped(c, count'.create)
<1>1. count.create \in Nat /\ count'.create \in Nat
  BY DEF TypeInv, CountTyped, Counted
<1> QED
  BY <1>1, MoreCreated, EmptyTyped DEF TypeInv, TablesAllTyped, CatalogsOK

LEMMA WriteTyped == ASSUME TypeInv, WriteTemp PROVE TypeRest'
<1>1. TablesAllTyped'
  BY DEF TypeInv, TablesAllTyped, WriteTemp, Whole
<1>2. TodoTyped'
  BY DEF TypeInv, TodoTyped, WriteTemp, Committing, CountingThen, Tables
<1> QED
  BY <1>1, <1>2 DEF TypeInv, TypeRest, WriteTemp, PagesTyped, LogsTyped, CountTyped, HistoryTyped,
                    relationVars, pageVars, fileVars, historyVars

LEMMA BoundsAreNumbers ==
    /\ MaxCreates \in Nat /\ MaxRows \in Nat /\ MaxDeletes \in Nat /\ MaxCheckpoints \in Nat
    /\ MaxCrashes \in Nat /\ MaxFaults \in Nat /\ MaxResets \in Nat
    /\ "create" \in Counted /\ "row" \in Counted /\ "delete" \in Counted
    /\ "checkpoint" \in Counted /\ "crash" \in Counted /\ "fault" \in Counted
    /\ "reset" \in Counted
BY CatalogAssumption DEF Counted

LEMMA WriteShortTyped == ASSUME TypeInv, WriteTempShort PROVE TypeRest'
<1>1. CountTyped' /\ count'.create = count.create /\ count.create <= count'.create
  BY BoundsAreNumbers, CountingTyped DEF WriteTempShort
<1>2. TablesAllTyped'
  BY <1>1, SameCatalogsTyped DEF TablesAllTyped, WriteTempShort, Torn
<1>3. TodoTyped'
  BY DEF TypeInv, TodoTyped, WriteTempShort, Committing, CountingThen, Tables
<1> QED
  BY <1>1, <1>2, <1>3 DEF TypeInv, TypeRest, WriteTempShort, PagesTyped, LogsTyped, HistoryTyped,
                          relationVars, pageVars, fileVars, historyVars

LEMMA RenameTyped == ASSUME TypeInv, Rename PROVE TypeRest'
<1>1. TablesAllTyped'
  <2>1. CountTyped' /\ count.create <= count'.create
    BY CountFacts DEF TypeInv, CountTyped, Rename
  <2> QED BY <2>1, SameCatalogsTyped DEF TablesAllTyped, Rename, NoFile
<1>2. TodoTyped'
  BY DEF TypeInv, TodoTyped, Rename, Committing, CountingThen, Tables
<1>3. HistoryTyped'
  BY DEF TypeInv, HistoryTyped, Rename
<1> QED
  BY <1>1, <1>2, <1>3 DEF TypeInv, TypeRest, Rename, PagesTyped, LogsTyped, CountTyped,
                    relationVars, pageVars, fileVars

LEMMA DeadTyped == ASSUME TypeInv, Dead, UNCHANGED fileVars PROVE PagesTyped' /\ LogsTyped'
BY DEF TypeInv, Dead, PagesTyped, LogsTyped, fileVars

LEMMA SaveFailsTyped == ASSUME TypeInv, SaveFails PROVE TypeRest'
<1>1. CountTyped' /\ count'.create = count.create /\ count.create <= count'.create
  BY BoundsAreNumbers, CountingTyped DEF SaveFails
<1>2. TablesAllTyped'
  BY <1>1, SameCatalogsTyped DEF TablesAllTyped, SaveFails, Dead, saveVars
<1>3. TodoTyped'
  BY DEF TodoTyped, SaveFails, Dead
<1>4. PagesTyped' /\ LogsTyped'
  <2>1. CASE Dead
    BY <2>1, DeadTyped DEF SaveFails
  <2>2. CASE UNCHANGED <<data, pageVars, log_buffer>>
    BY <2>2 DEF TypeInv, SaveFails, PagesTyped, LogsTyped, pageVars, fileVars
  <2> QED BY <2>1, <2>2 DEF SaveFails
<1>5. HistoryTyped'
  BY <1>1 DEF TypeInv, HistoryTyped, SaveFails
<1> QED
  BY <1>1, <1>2, <1>3, <1>4, <1>5 DEF TypeRest

LEMMA CreateTyped ==
    ASSUME TypeInv, NEW t \in Names, NEW rest, CreateThen(t, rest),
           rest = <<>> \/ (rest = << <<"demo", DemoTable>> >> /\ t = DemoTable)
    PROVE  TypeRest'
<1>1. CountTyped' /\ count'.create = count.create + 1 /\ count.create <= count'.create
  BY BoundsAreNumbers, CountingTyped DEF CreateThen
<1>2. count.create < MaxCreates /\ count.create \in Nat
  BY CountFacts DEF CreateThen, Counting
<1>3. TablesTyped(Created(t), count'.create)
  BY <1>1, <1>2, BoundsAreNumbers, CreatedTyped
     DEF TypeInv, CatalogsOK, TablesAllTyped, CreateThen
<1>4. TablesAllTyped'
  BY <1>1, <1>3, SameCatalogsTyped DEF TablesAllTyped, CreateThen, Change, saveVars
<1>5. TodoTyped'
  BY DEF TodoTyped, CreateThen, Change, Tables, Created, With
<1>6. HistoryTyped'
  BY <1>1, <1>2 DEF TypeInv, HistoryTyped, CreateThen
<1> QED
  BY <1>1, <1>4, <1>5, <1>6 DEF TypeInv, TypeRest, CreateThen, PagesTyped, LogsTyped,
                    relationVars, pageVars, fileVars

LEMMA DropTyped == ASSUME TypeInv, NEW t, Drop(t) PROVE TypeRest'
<1>1. TablesTyped([data EXCEPT !.tables = Without(t)], count.create)
  BY DroppedTyped DEF TypeInv, CatalogsOK, TablesAllTyped
<1>2. TablesAllTyped'
  BY <1>1 DEF TypeInv, TablesAllTyped, Drop, Change, saveVars
<1>3. TodoTyped'
  BY DEF TodoTyped, Drop, Change
<1> QED
  BY <1>2, <1>3 DEF TypeInv, TypeRest, Drop, PagesTyped, LogsTyped, CountTyped, HistoryTyped,
                    relationVars, pageVars, fileVars, historyVars

(* A replay keeps the types whatever the pages hold, and leaves alone what *)
(* is nobody's.                                                            *)
Untouched(s) ==
    \A r \in Relations : (\A t \in Tables : HeapOf(t) # r) => s.heap[r] = heap[r]

LEMMA RecordTyped ==
    ASSUME Owned, NEW s, StoreTyped(s), Untouched(s), NEW r \in RecordType
    PROVE  StoreTyped(ReplayRecord(s, r)) /\ Untouched(ReplayRecord(s, r))
<1> DEFINE z == ReplayRecord(s, r)
<1>1. r.key \in Keys /\ r.life \in Nat /\ r.op \in {"insert", "delete"}
  BY DEF RecordType
<1>2. CASE z = s
  <2> HIDE DEF z
  <2>1. StoreTyped(z) /\ Untouched(z)
    BY <1>2
  <2> QED BY <2>1 DEF z
<1>3. ASSUME r.table \in Tables, StoreTyped(z), SameElsewhere(s, z, r.table)
      PROVE  StoreTyped(z) /\ Untouched(z)
  <2> HIDE DEF z
  <2> QED BY <1>3 DEF Untouched, SameElsewhere
<1>4. ASSUME r.table \in Tables, z # s, r.op = "insert"
      PROVE  StoreTyped(z) /\ SameElsewhere(s, z, r.table)
  <2>1. z = Inserted(s, r.table, r.key, r.life)
    BY <1>4 DEF ReplayRecord
  <2>2. InsertedInto(s, z, r.table, r.key, r.life)
    BY <1>1, <1>4, <2>1, InsertedParts
  <2> QED BY <2>2 DEF InsertedInto
<1>5. ASSUME r.table \in Tables, z # s, r.op = "delete"
      PROVE  StoreTyped(z) /\ SameElsewhere(s, z, r.table)
  <2>1. Found(s, r.table, r.key)
    BY <1>5 DEF ReplayRecord
  <2> QED BY <1>5, <2>1, DeletedParts
<1>6. r.table \notin Tables => z = s
  BY DEF ReplayRecord
<1> QED
  BY <1>1, <1>2, <1>3, <1>4, <1>5, <1>6

LEMMA ReplayTyped ==
    ASSUME TypeInv
    PROVE  StoreTyped(Replayed) /\ Untouched(Replayed)
<1>0. Owned /\ StoreTyped(Store) /\ log_file \in Seq(RecordType)
  BY TypedOwned DEF TypeInv, LogsTyped
<1>1. Len(log_file) \in Nat /\ \A n \in 1 .. Len(log_file) : log_file[n] \in RecordType
  BY <1>0
<1>2. PICK w : /\ w[0] = Rebuilt
               /\ \A n \in 1 .. Len(log_file) : w[n] = ReplayRecord(w[n - 1], log_file[n])
               /\ Replayed = w[Len(log_file)]
  BY <1>1, ReplayedSteps
<1> DEFINE Good(n) == StoreTyped(w[n]) /\ Untouched(w[n])
           Holds(n) == n <= Len(log_file) => Good(n)
           S == { n \in Nat : Holds(n) }
<1>3. 0 \in S
  <2>1. StoreTyped(Rebuilt) /\ Rebuilt.heap = heap
    BY <1>0, RebuiltParts
  <2>2. Holds(0)
    BY <1>2, <2>1 DEF Untouched
  <2> HIDE DEF Holds
  <2> QED BY <2>2
<1>4. ASSUME NEW n \in S PROVE n + 1 \in S
  <2>1. ASSUME n + 1 <= Len(log_file) PROVE Good(n + 1)
    <3>1. n <= Len(log_file) /\ n + 1 \in 1 .. Len(log_file) /\ Holds(n)
      BY <1>1, <2>1
    <3>2. w[n + 1] = ReplayRecord(w[n], log_file[n + 1])
      <4>1. (n + 1) - 1 = n
        OBVIOUS
      <4> QED BY <3>1, <4>1, <1>2
    <3> QED BY <1>0, <1>1, <3>1, <3>2, RecordTyped
  <2>2. Holds(n + 1)
    BY <2>1
  <2> HIDE DEF Holds
  <2> QED BY <2>2
<1>5. S = Nat
  <2> HIDE DEF S
  <2>1. S \in SUBSET Nat
    BY DEF S
  <2> QED BY <1>3, <1>4, <2>1, EveryRound
<1>6. Good(Len(log_file))
  <2> HIDE DEF Good
  <2> QED BY <1>1, <1>5
<1> QED
  BY <1>2, <1>6

(* What AddRows does, in parts. *)
RecordsOf(t, done) == [i \in DOMAIN done |-> Record("insert", t, done[i], LifeOf(t))]

AddsRows(t, ks, done, s, rest) ==
    /\ done \in Seq(Keys)
    /\ done = IF Corrupted(Store, t) THEN SubSeq(ks, 1, 1) ELSE ks
    /\ s = Added(t, done)
    /\ AddedTo(Store, s, t, { done[i] : i \in 1 .. Len(done) })
    /\ heap' = s.heap /\ index' = s.index /\ index_disk' = s.index_disk
    /\ RecordsOf(t, done) \in Seq(RecordType)
    /\ log_buffer' = log_buffer \o RecordsOf(t, done)
    /\ \/ Corrupted(Store, t) /\ pc' = "idle" /\ todo' = <<>> /\ data' = data
       \/ ~Corrupted(Store, t) /\ pc' = "write" /\ todo' = rest /\ data' = WithRoots(s.root)
    /\ UNCHANGED <<saveVars, heap_disk, log_file, historyVars>>

LEMMA AddRowsParts ==
    ASSUME TypeInv, NEW t \in Tables, NEW ks \in Seq(Keys), NEW rest, AddRows(t, ks, rest),
           Corrupted(Store, t) => ks # <<>>
    PROVE  \E done, s : AddsRows(t, ks, done, s, rest)
<1> DEFINE done == IF Corrupted(Store, t) THEN SubSeq(ks, 1, 1) ELSE ks
           s == Added(t, done)
<1>1. done \in Seq(Keys)
  BY DEF Corrupted
<1>2. /\ Owned /\ StoreTyped(Store) /\ LifeOf(t) \in Nat /\ t \in Names
  BY TypedOwned
<1>3. RecordsOf(t, done) \in Seq(RecordType)
  <2> HIDE DEF done
  <2>1. \A i \in 1 .. Len(done) : Record("insert", t, done[i], LifeOf(t)) \in RecordType
    BY <1>1, <1>2 DEF Record, RecordType
  <2>2. DOMAIN done = 1 .. Len(done) /\ Len(done) \in Nat
    BY <1>1
  <2> QED BY <2>1, <2>2 DEF RecordsOf
<1>4. /\ InStore(s)
      /\ log_buffer' = log_buffer \o RecordsOf(t, done)
      /\ IF Corrupted(Store, t) /\ ks # <<>>
         THEN pc' = "idle" /\ todo' = <<>> /\ UNCHANGED data
         ELSE Change(WithRoots(s.root), rest)
      /\ UNCHANGED <<saveVars, heap_disk, log_file, historyVars>>
  BY DEF AddRows, RecordsOf, WithRoots
<1>5. done = IF Corrupted(Store, t) THEN SubSeq(ks, 1, 1) ELSE ks
  OBVIOUS
<1> HIDE DEF done
<1>6. AddedTo(Store, s, t, { done[i] : i \in 1 .. Len(done) })
  BY <1>1, <1>2, AddedStore
<1> HIDE DEF s
<1>7. AddsRows(t, ks, done, s, rest)
  BY <1>1, <1>3, <1>4, <1>5, <1>6 DEF AddsRows, InStore, Change, s
<1> QED
  BY <1>7

LEMMA AddRowsTyped ==
    ASSUME TypeInv, NEW t \in Tables, NEW ks, NEW done, NEW s, NEW rest,
           AddsRows(t, ks, done, s, rest), CountTyped', count'.create = count.create
    PROVE  /\ TablesAllTyped' /\ PagesTyped' /\ LogsTyped' /\ HistoryTyped'
           /\ Tables' = Tables
<1>1. PagesTyped'
  BY DEF TypeInv, AddsRows, AddedTo, StoreTyped, PagesTyped
<1>2. LogsTyped'
  BY DEF TypeInv, AddsRows, LogsTyped
<1>3. HistoryTyped'
  BY DEF TypeInv, AddsRows, HistoryTyped, historyVars
<1>4. \A u \in Tables : s.root[u] \in BOOLEAN
  BY DEF AddsRows, AddedTo, StoreTyped
<1>5. CatalogOK(data) /\ TablesTyped(data, count.create)
  BY DEF TypeInv, CatalogsOK, TablesAllTyped
<1>6. /\ TablesTyped(WithRoots(s.root), count.create)
      /\ DOMAIN WithRoots(s.root).tables = Tables
  BY <1>4, <1>5, RootedTyped, RootedParts
<1>7. TablesAllTyped'
  BY <1>6 DEF TypeInv, AddsRows, TablesAllTyped, saveVars
<1>8. Tables' = Tables
  BY <1>6 DEF AddsRows, Tables
<1> QED
  BY <1>1, <1>2, <1>3, <1>7, <1>8

LEMMA InsertParts ==
    ASSUME TypeInv, NEW t, NEW k \in Keys, Insert(t, k)
    PROVE  /\ pc = "idle" /\ t \in Tables /\ ~Found(Store, t, k)
           /\ CountTyped' /\ count'.create = count.create /\ count'.crash = count.crash
           /\ \E done, s : AddsRows(t, <<k>>, done, s, << <<"count", t, 1>>, <<"commit", t, {k}>> >>)
<1>1. t \in Tables /\ <<k>> \in Seq(Keys) /\ <<k>> # <<>>
  BY DEF Insert
<1>2. AddRows(t, <<k>>, << <<"count", t, 1>>, <<"commit", t, {k}>> >>)
  BY DEF Insert
<1>3. \E done, s : AddsRows(t, <<k>>, done, s, << <<"count", t, 1>>, <<"commit", t, {k}>> >>)
  BY <1>1, <1>2, AddRowsParts
<1>4. CountTyped' /\ count'.create = count.create /\ count'.crash = count.crash
  <2>1. Counting("row", MaxRows)
    BY DEF Insert
  <2>2. CountTyped' /\ count'.create = count.create
    BY <2>1, BoundsAreNumbers, CountingTyped
  <2>3. count'.crash = count.crash
    BY <2>1, BoundsAreNumbers, CountingOthers
  <2> QED BY <2>2, <2>3
<1> QED
  BY <1>3, <1>4 DEF Insert

LEMMA InsertTyped == ASSUME TypeInv, NEW t, NEW k \in Keys, Insert(t, k) PROVE TypeRest'
<1> DEFINE rest == << <<"count", t, 1>>, <<"commit", t, {k}>> >>
<1>1. PICK done, s : AddsRows(t, <<k>>, done, s, rest)
  BY InsertParts
<1>2. t \in Tables /\ CountTyped' /\ count'.create = count.create
  BY InsertParts
<1>3. TablesAllTyped' /\ PagesTyped' /\ LogsTyped' /\ HistoryTyped' /\ Tables' = Tables
  BY <1>1, <1>2, AddRowsTyped
<1>4. (pc' = "write" /\ todo' = rest) \/ (pc' = "idle" /\ todo' = <<>>)
  BY <1>1 DEF AddsRows
<1>5. TodoTyped'
  <2>1. {k} \in SUBSET Keys /\ t \in Tables'
    BY <1>2, <1>3
  <2> QED BY <1>4, <2>1 DEF TodoTyped, CountingThen
<1> QED
  BY <1>2, <1>3, <1>5 DEF TypeRest

(* What a loop takes of the numbers 1 .. n. *)
LEMMA PickedAt ==
    ASSUME NEW T, NEW s \in Seq(T), NEW places
    PROVE  \E ps, at :
              /\ ps = Picked(s, places) /\ ps \in Seq(T)
              /\ at \in [1 .. Len(ps) -> 1 .. Len(s)]
              /\ \A k \in 1 .. Len(ps) : at[k] \in places /\ ps[k] = s[at[k]]
              /\ \A i \in 1 .. Len(s) : i \in places => \E k \in 1 .. Len(ps) : at[k] = i
              /\ \A k, l \in 1 .. Len(ps) : at[k] = at[l] => k = l
<1> DEFINE a == Picked(s, places)
<1>1. /\ a \in Seq(T)
      /\ \E at \in [1 .. Len(a) -> 1 .. Len(s)] :
              /\ \A k \in 1 .. Len(a) : at[k] \in places /\ a[k] = s[at[k]]
              /\ \A i \in 1 .. Len(s) : i \in places => \E k \in 1 .. Len(a) : at[k] = i
              /\ \A k, l \in 1 .. Len(a) : at[k] = at[l] => k = l
  BY PickedPlaces
<1>2. a = Picked(s, places)
  OBVIOUS
<1> HIDE DEF a
<1>3. PICK at \in [1 .. Len(a) -> 1 .. Len(s)] :
              /\ \A k \in 1 .. Len(a) : at[k] \in places /\ a[k] = s[at[k]]
              /\ \A i \in 1 .. Len(s) : i \in places => \E k \in 1 .. Len(a) : at[k] = i
              /\ \A k, l \in 1 .. Len(a) : at[k] = at[l] => k = l
  BY <1>1
<1> WITNESS a, at
<1> QED
  BY <1>1, <1>2, <1>3

LEMMA NumbersPicked ==
    ASSUME NEW n \in Nat, NEW s \in Seq(1 .. n), Len(s) = n, \A i \in 1 .. n : s[i] = i,
           NEW places, NEW ps, ps = Picked(s, places)
    PROVE  /\ ps \in Seq(1 .. n)
           /\ \A k \in 1 .. Len(ps) : ps[k] \in places /\ ps[k] \in 1 .. n
           /\ \A i \in 1 .. n : i \in places => \E k \in 1 .. Len(ps) : ps[k] = i
           /\ \A k, l \in 1 .. Len(ps) : ps[k] = ps[l] => k = l
<1>1. PICK at :
              /\ ps \in Seq(1 .. n)
              /\ at \in [1 .. Len(ps) -> 1 .. Len(s)]
              /\ \A k \in 1 .. Len(ps) : at[k] \in places /\ ps[k] = s[at[k]]
              /\ \A i \in 1 .. Len(s) : i \in places => \E k \in 1 .. Len(ps) : at[k] = i
              /\ \A k, l \in 1 .. Len(ps) : at[k] = at[l] => k = l
  BY PickedAt
<1>2. \A k \in 1 .. Len(ps) : at[k] \in 1 .. n /\ ps[k] = at[k]
  BY <1>1
<1> QED
  BY <1>1, <1>2

LEMMA NumbersUpTo ==
    ASSUME NEW n \in Nat, NEW s, s = [i \in 1 .. n |-> i]
    PROVE  s \in Seq(1 .. n) /\ Len(s) = n /\ \A i \in 1 .. n : s[i] = i
OBVIOUS

LEMMA DemoTyped == ASSUME TypeInv, Demo PROVE TypeRest'
<1>1. CASE CreateThen(DemoTable, << <<"demo", DemoTable>> >>)
  BY <1>1, CreateTyped, CatalogAssumption
<1>2. CASE pc' = "continue"
  <2>1. /\ DemoTable \in Tables
        /\ todo' = << <<"demo", DemoTable>> >>
        /\ UNCHANGED <<data, saveVars, relationVars, count, historyVars>>
    BY <1>2 DEF Demo, CreateThen, Change
  <2>2. TodoTyped'
    BY <1>2, <2>1 DEF TodoTyped, Tables
  <2> QED
    BY <2>1, <2>2 DEF TypeInv, TypeRest, PagesTyped, LogsTyped, CountTyped, HistoryTyped,
                    TablesAllTyped, saveVars, relationVars, pageVars, fileVars, historyVars
<1> QED
  BY <1>1, <1>2 DEF Demo

DemoRest == << <<"commit", DemoTable, 1 .. DemoCount>> >>

LEMMA DemoParts ==
    ASSUME TypeInv, DemoRows
    PROVE  /\ pc = "continue" /\ DemoTable \in Tables
           /\ CountTyped' /\ count'.create = count.create /\ count'.crash = count.crash
           /\ \E ks, done, s :
                 /\ AddsRows(DemoTable, ks, done, s, DemoRest)
                 /\ \A k \in Keys : (\E i \in 1 .. Len(ks) : ks[i] = k)
                       <=> k \in 1 .. DemoCount /\ ~Found(Store, DemoTable, k)
<1> DEFINE lacks == { k \in 1 .. DemoCount : ~Found(Store, DemoTable, k) }
           ks == Picked([i \in 1 .. DemoCount |-> i], lacks)
<1>1. DemoCount \in Nat /\ DemoCount >= 1 /\ 1 .. DemoCount \subseteq Keys
  BY CatalogAssumption DEF Keys
<1>2. /\ ks \in Seq(1 .. DemoCount)
      /\ \A i \in 1 .. Len(ks) : ks[i] \in lacks /\ ks[i] \in 1 .. DemoCount
      /\ \A k \in 1 .. DemoCount : k \in lacks => \E i \in 1 .. Len(ks) : ks[i] = k
  <2> DEFINE s == [i \in 1 .. DemoCount |-> i]
  <2>1. s \in Seq(1 .. DemoCount) /\ Len(s) = DemoCount /\ \A i \in 1 .. DemoCount : s[i] = i
    BY <1>1, NumbersUpTo
  <2>2. ks = Picked(s, lacks)
    OBVIOUS
  <2> HIDE DEF s, ks, lacks
  <2> QED BY <1>1, <2>1, <2>2, NumbersPicked
<1>3. pc = "continue" /\ Head(todo)[1] = "demo"
  BY DEF DemoRows, Doing, TypeInv, TodoTyped
<1>4. DemoTable \in Tables
  BY <1>3 DEF TypeInv, TodoTyped, Committing, CountingThen
<1>5. CountTyped' /\ count'.create = count.create /\ count'.crash = count.crash
  <2>1. Counting("row", MaxRows)
    BY DEF DemoRows
  <2> QED BY <2>1, BoundsAreNumbers, CountingTyped, CountingOthers
<1>6. AddRows(DemoTable, ks, DemoRest)
  BY DEF DemoRows, DemoRest
<1>7. Corrupted(Store, DemoTable) => ks # <<>>
  <2>1. SUFFICES ASSUME Corrupted(Store, DemoTable) PROVE ks # <<>>
    OBVIOUS
  <2>2. 1 \in lacks
    BY <1>1, <2>1 DEF Corrupted, Found
  <2>3. Len(ks) > 0
    <3> HIDE DEF ks, lacks
    <3>1. PICK i \in 1 .. Len(ks) : ks[i] = 1
      BY <1>1, <1>2, <2>2
    <3>2. Len(ks) \in Nat
      BY <1>2
    <3> QED BY <3>1, <3>2
  <2> HIDE DEF ks
  <2> QED BY <2>3
<1>8. \A k \in Keys : (\E i \in 1 .. Len(ks) : ks[i] = k)
                       <=> k \in 1 .. DemoCount /\ ~Found(Store, DemoTable, k)
  <2> HIDE DEF ks
  <2> QED BY <1>2
<1>9. ks \in Seq(Keys)
  <2> HIDE DEF ks
  <2> QED BY <1>1, <1>2
<1> HIDE DEF ks
<1>10. \E done, s : AddsRows(DemoTable, ks, done, s, DemoRest)
  BY <1>4, <1>6, <1>7, <1>9, AddRowsParts
<1> QED
  BY <1>3, <1>4, <1>5, <1>8, <1>10

LEMMA DemoRowsTyped == ASSUME TypeInv, DemoRows PROVE TypeRest'
<1>1. PICK ks, done, s : AddsRows(DemoTable, ks, done, s, DemoRest)
  BY DemoParts
<1>2. DemoTable \in Tables /\ CountTyped' /\ count'.create = count.create
  BY DemoParts
<1>3. TablesAllTyped' /\ PagesTyped' /\ LogsTyped' /\ HistoryTyped' /\ Tables' = Tables
  BY <1>1, <1>2, AddRowsTyped
<1>4. (pc' = "write" /\ todo' = DemoRest) \/ (pc' = "idle" /\ todo' = <<>>)
  BY <1>1 DEF AddsRows
<1>5. TodoTyped'
  <2>1. 1 .. DemoCount \in SUBSET Keys /\ DemoTable \in Tables'
    BY <1>2, <1>3, CatalogAssumption DEF Keys
  <2> QED BY <1>4, <2>1 DEF TodoTyped, Committing, DemoRest
<1> QED
  BY <1>2, <1>3, <1>5 DEF TypeRest

(* What comes after a save, by the step it begins with. *)
LEMMA CountStep ==
    ASSUME TodoTyped, Doing("count")
    PROVE  \E t \in Tables, n \in Int, ks \in SUBSET Keys :
              CountingThen(t, n, ks) /\ (n = 1 \/ (n < 0 /\ ks = {}))
<1>1. pc = "continue" /\ Head(todo)[1] = "count"
  BY DEF Doing
<1>2. CASE \E t \in Tables, ks \in SUBSET Keys : Committing(t, ks) \/ CountingThen(t, 1, ks)
  BY <1>1, <1>2 DEF Committing
<1>3. CASE \E t \in Tables, n \in Nat : n > 0 /\ CountingThen(t, -n, {})
  <2>1. PICK t \in Tables, n \in Nat : n > 0 /\ CountingThen(t, -n, {})
    BY <1>3
  <2>2. -n \in Int /\ -n < 0 /\ {} \in SUBSET Keys
    BY <2>1
  <2> QED BY <2>1, <2>2
<1> QED
  BY <1>1, <1>2, <1>3 DEF TodoTyped

LEMMA CommitStep ==
    ASSUME TodoTyped, Doing("commit")
    PROVE  \E t \in Tables, ks \in SUBSET Keys : Committing(t, ks)
<1>1. pc = "continue" /\ Head(todo)[1] = "commit"
  BY DEF Doing
<1> QED
  BY <1>1 DEF TodoTyped, CountingThen

CountNow(t, n) == After(data.tables[t].num_records, n)

LEMMA CountParts ==
    ASSUME TypeInv, Count
    PROVE  \E t \in Tables, n \in Int, ks \in SUBSET Keys :
              /\ CountingThen(t, n, ks) /\ (n = 1 \/ (n < 0 /\ ks = {}))
              /\ pc = "continue" /\ pc' = "write"
              /\ todo' = << <<"commit", t, ks>> >>
              /\ data' = WithCount(t, CountNow(t, n)) /\ CountNow(t, n) \in Nat
              /\ UNCHANGED <<saveVars, relationVars, count, historyVars>>
<1>1. PICK t \in Tables, n \in Int, ks \in SUBSET Keys :
              CountingThen(t, n, ks) /\ (n = 1 \/ (n < 0 /\ ks = {}))
  BY CountStep DEF TypeInv, Count
<1>2. Head(todo)[2] = t /\ Head(todo)[3] = n /\ Tail(todo) = << <<"commit", t, ks>> >>
  BY <1>1 DEF CountingThen
<1>3. data.tables[t].num_records \in Nat
  BY DEF TypeInv, TablesAllTyped, TablesTyped, Tables
<1>4. CountNow(t, n) \in Nat
  BY <1>1, <1>3 DEF CountNow, After, Minus
<1>5. /\ pc = "continue"
      /\ Change([data EXCEPT !.tables[t].num_records =
                  IF n > 0 THEN @ + n ELSE Minus(@, -n)], << <<"commit", t, ks>> >>)
      /\ UNCHANGED <<saveVars, relationVars, count, historyVars>>
  BY <1>2 DEF Count, Doing
<1>6. [data EXCEPT !.tables[t].num_records = IF n > 0 THEN @ + n ELSE Minus(@, -n)]
          = WithCount(t, CountNow(t, n))
  BY DEF WithCount, CountNow, After
<1> QED
  BY <1>1, <1>4, <1>5, <1>6 DEF Change

LEMMA CountActionTyped == ASSUME TypeInv, Count PROVE TypeRest'
<1>1. PICK t \in Tables, n \in Int, ks \in SUBSET Keys :
              /\ CountingThen(t, n, ks)
              /\ pc' = "write" /\ todo' = << <<"commit", t, ks>> >>
              /\ data' = WithCount(t, CountNow(t, n)) /\ CountNow(t, n) \in Nat
              /\ UNCHANGED <<saveVars, relationVars, count, historyVars>>
  BY CountParts
<1>2. CatalogOK(data) /\ TablesTyped(data, count.create)
  BY DEF TypeInv, CatalogsOK, TablesAllTyped
<1>3. TablesTyped(data', count.create) /\ DOMAIN data'.tables = Tables
  BY <1>1, <1>2, CountedTyped, CountedParts
<1>4. TablesAllTyped'
  BY <1>1, <1>3 DEF TypeInv, TablesAllTyped, saveVars
<1>5. TodoTyped'
  BY <1>1, <1>3 DEF TodoTyped, Committing, Tables
<1> QED
  BY <1>1, <1>4, <1>5 DEF TypeInv, TypeRest, PagesTyped, LogsTyped, CountTyped, HistoryTyped,
                    relationVars, pageVars, fileVars, historyVars

LEMMA CommitParts ==
    ASSUME TypeInv, Commit
    PROVE  \E t \in Tables, ks \in SUBSET Keys :
              /\ Committing(t, ks) /\ pc = "continue" /\ pc' = "idle" /\ todo' = <<>>
              /\ log_file' = log_file \o log_buffer /\ log_buffer' = <<>>
              /\ promised' = [promised EXCEPT ![LifeOf(t)] = @ \union ks]
              /\ UNCHANGED <<data, saveVars, pageVars, heap_disk, index_disk, count, damage, stale>>
<1>1. PICK t \in Tables, ks \in SUBSET Keys : Committing(t, ks)
  BY CommitStep DEF TypeInv, Commit
<1>2. Head(todo)[2] = t /\ Head(todo)[3] = ks
  BY <1>1 DEF Committing
<1> QED
  BY <1>1, <1>2 DEF Commit, Doing

LEMMA CommitTyped == ASSUME TypeInv, Commit PROVE TypeRest'
<1>1. PICK t \in Tables, ks \in SUBSET Keys :
              /\ pc' = "idle" /\ todo' = <<>>
              /\ log_file' = log_file \o log_buffer /\ log_buffer' = <<>>
              /\ promised' = [promised EXCEPT ![LifeOf(t)] = @ \union ks]
              /\ UNCHANGED <<data, saveVars, pageVars, heap_disk, index_disk, count, damage, stale>>
  BY CommitParts
<1>2. LifeOf(t) \in 1 .. count.create
  BY DEF TypeInv, TablesAllTyped, TablesTyped, Tables, LifeOf
<1>3. LifeOf(t) \in 1 .. MaxCreates
  BY TypedOwned
<1>4. HistoryTyped'
  BY <1>1, <1>2, <1>3, CountFacts DEF TypeInv, HistoryTyped
<1>5. LogsTyped'
  BY <1>1 DEF TypeInv, LogsTyped
<1>6. TodoTyped'
  BY <1>1 DEF TodoTyped
<1> QED
  BY <1>1, <1>4, <1>5, <1>6 DEF TypeInv, TypeRest, PagesTyped, CountTyped, TablesAllTyped,
                    saveVars, pageVars

(* What a DELETE does, in parts: hit are the places of the rows deleted,   *)
(* recs their records in the log.                                          *)
DeletesRows(t, ks, hit, recs) ==
    LET old == heap[HeapOf(t)]
        new == heap'[HeapOf(t)]
        leaf == index[IndexOf(t)] IN
    /\ hit = { i \in Live(old) : old[i].key \in ks }
    /\ heap' \in [Relations -> Seq(SlotType)] /\ index' \in [Relations -> LeafType]
    /\ \A r \in Relations : r # HeapOf(t) => heap'[r] = heap[r]
    /\ \A r \in Relations : r # IndexOf(t) => index'[r] = index[r]
    /\ Len(new) = Len(old) /\ Live(new) = Live(old) \ hit
    /\ \A i \in 1 .. Len(old) : new[i].key = old[i].key /\ new[i].life = old[i].life
    /\ index'[IndexOf(t)] = Zeros <=> leaf = Zeros
    /\ \A k \in Keys :
          leaf # Zeros =>
             index'[IndexOf(t)][k] =
                IF (\E j \in ks : Found(Store, t, j)) /\ (\E i \in hit : old[i].key = k)
                THEN 0 ELSE leaf[k]
    /\ recs \in Seq(RecordType) /\ log_buffer' = log_buffer \o recs
    /\ \A j \in 1 .. Len(recs) :
          /\ recs[j].op = "delete" /\ recs[j].table = t
          /\ \E i \in hit : recs[j].key = old[i].key /\ recs[j].life = old[i].life
    /\ \A i \in hit : \E j \in 1 .. Len(recs) : recs[j].key = old[i].key
    /\ IsFiniteSet(hit) /\ Cardinality(hit) = Len(recs)
    /\ pc = "idle" /\ pc' = "continue"
    /\ \/ recs = <<>> /\ todo' = << <<"commit", t, {}>> >>
       \/ Len(recs) > 0 /\ todo' = << <<"count", t, -Len(recs)>>, <<"commit", t, {}>> >>
    /\ promised' = [promised EXCEPT ![LifeOf(t)] = @ \ ks]
    /\ UNCHANGED <<data, saveVars, fileVars, damage, stale>>

(* Slots that are marked. *)
Marked(slots, hit) ==
    [i \in DOMAIN slots |-> [slots[i] EXCEPT !.live = @ /\ i \notin hit]]

LEMMA MarkedParts ==
    ASSUME NEW slots \in Seq(SlotType), NEW hit
    PROVE  /\ Marked(slots, hit) \in Seq(SlotType)
           /\ Len(Marked(slots, hit)) = Len(slots)
           /\ Live(Marked(slots, hit)) = Live(slots) \ hit
           /\ \A i \in 1 .. Len(slots) : /\ Marked(slots, hit)[i].key = slots[i].key
                                         /\ Marked(slots, hit)[i].life = slots[i].life
<1> DEFINE new == Marked(slots, hit)
<1>1. /\ Len(slots) \in Nat /\ DOMAIN slots = 1 .. Len(slots)
      /\ \A i \in 1 .. Len(slots) : slots[i] \in SlotType
  OBVIOUS
<1>2. DOMAIN new = 1 .. Len(slots)
      /\ \A i \in 1 .. Len(slots) : new[i] = [slots[i] EXCEPT !.live = @ /\ i \notin hit]
  BY <1>1 DEF Marked
<1>3. new = [i \in 1 .. Len(slots) |-> new[i]]
  BY <1>1 DEF Marked
<1> HIDE DEF new
<1>4. ASSUME NEW i \in 1 .. Len(slots)
      PROVE  /\ new[i] \in SlotType
             /\ new[i].key = slots[i].key /\ new[i].life = slots[i].life
             /\ new[i].live <=> slots[i].live /\ i \notin hit
  <2>1. DOMAIN slots[i] = {"key", "life", "live"} /\ slots[i].live \in BOOLEAN
    BY <1>1 DEF SlotType
  <2>2. PICK b \in BOOLEAN : b <=> slots[i].live /\ i \notin hit
    OBVIOUS
  <2>3. new[i] = [slots[i] EXCEPT !.live = b]
    BY <1>2, <2>1, <2>2
  <2> QED BY <1>1, <2>1, <2>2, <2>3 DEF SlotType
<1>5. new \in Seq(SlotType) /\ Len(new) = Len(slots)
  BY <1>1, <1>3, <1>4
<1>6. Live(new) = Live(slots) \ hit
  BY <1>1, <1>2, <1>4 DEF Live
<1> QED
  BY <1>4, <1>5, <1>6 DEF new

(* The list of the numbers of a set is as long as the set is big.          *)
LEMMA PickedCount ==
    ASSUME NEW n \in Nat, NEW hit \in SUBSET (1 .. n), NEW ps \in Seq(1 .. n),
           \A k \in 1 .. Len(ps) : ps[k] \in hit,
           \A i \in 1 .. n : i \in hit => \E k \in 1 .. Len(ps) : ps[k] = i,
           \A k, l \in 1 .. Len(ps) : ps[k] = ps[l] => k = l
    PROVE  IsFiniteSet(hit) /\ Cardinality(hit) = Len(ps)
<1>1. Len(ps) \in Nat /\ DOMAIN ps = 1 .. Len(ps)
  OBVIOUS
<1>3. ps \in [1 .. Len(ps) -> hit]
  <2>1. ps = [k \in 1 .. Len(ps) |-> ps[k]]
    BY <1>1
  <2> QED BY <2>1
<1>4. ps \in Bijection(1 .. Len(ps), hit)
  BY <1>1, <1>3 DEF Bijection, Injection, Surjection, IsInjective
<1>5. ExistsBijection(1 .. Len(ps), hit)
  BY <1>4 DEF ExistsBijection
<1>6. Cardinality(hit) = Len(ps)
  BY <1>1, <1>5, FS_CountingElements
<1>7. IsFiniteSet(hit)
  BY <1>1, <1>5, FS_NatBijection
<1> QED
  BY <1>6, <1>7

LEMMA JoinedOnes ==
    ASSUME NEW S, NEW u \in Seq(S), NEW v \in Seq(S), NEW w \in Seq(S)
    PROVE  Len(u) = 1 /\ Len(v) = 1 /\ Len(w) = 2 /\ u[1] = w[1] /\ v[1] = w[2] => u \o v = w
<1>1. /\ u \o v \in Seq(S) /\ Len(u \o v) = Len(u) + Len(v)
      /\ \A i \in 1 .. Len(u) : (u \o v)[i] = u[i]
      /\ \A i \in 1 .. Len(v) : (u \o v)[Len(u) + i] = v[i]
  BY ConcatEntries
<1> HAVE Len(u) = 1 /\ Len(v) = 1 /\ Len(w) = 2 /\ u[1] = w[1] /\ v[1] = w[2]
<1>2. 1 \in 1 .. Len(u) /\ 1 \in 1 .. Len(v) /\ Len(u) + 1 = 2 /\ Len(u) + Len(v) = 2
  OBVIOUS
<1>3. (u \o v)[2] = v[1] /\ (u \o v)[1] = u[1]
  BY <1>1, <1>2
<1>4. \A i \in 1 .. Len(w) : i = 1 \/ i = 2
  OBVIOUS
<1> QED
  BY <1>1, <1>2, <1>3, <1>4, SameEntries

LEMMA OneAfterOther == ASSUME NEW a, NEW b PROVE <<a>> \o <<b>> = <<a, b>>
<1>1. <<a>> \in Seq({a, b}) /\ <<b>> \in Seq({a, b}) /\ <<a, b>> \in Seq({a, b})
  <2> DEFINE S == {a, b}
  <2>1. a \in S /\ b \in S
    OBVIOUS
  <2> HIDE DEF S
  <2>2. <<a>> \in Seq(S)
    BY <2>1
  <2>3. <<b>> \in Seq(S)
    BY <2>1
  <2>4. <<a, b>> \in Seq(S)
    BY <2>1
  <2> QED BY <2>2, <2>3, <2>4 DEF S
<1>2. Len(<<a>>) = 1 /\ <<a>>[1] = a
  OBVIOUS
<1>3. Len(<<b>>) = 1 /\ <<b>>[1] = b
  OBVIOUS
<1>4. Len(<<a, b>>) = 2 /\ <<a, b>>[1] = a /\ <<a, b>>[2] = b
  OBVIOUS
<1> QED
  BY <1>1, <1>2, <1>3, <1>4, JoinedOnes, Zenon

LEMMA DeleteParts ==
    ASSUME TypeInv, NEW t \in Tables, NEW ks \in SUBSET Keys, Delete(t, ks)
    PROVE  /\ CountTyped' /\ count'.create = count.create /\ count'.crash = count.crash
           /\ \E hit, recs : DeletesRows(t, ks, hit, recs)
<1> DEFINE slots == heap[HeapOf(t)]
           leaf == index[IndexOf(t)]
           hit == { i \in Live(slots) : slots[i].key \in ks }
           hits == Picked([i \in DOMAIN slots |-> i], hit)
           rec(i) == Record("delete", t, slots[i].key, slots[i].life)
           recs == [j \in DOMAIN hits |-> rec(hits[j])]
<1>0. CountTyped' /\ count'.create = count.create /\ count'.crash = count.crash
  <2>1. Counting("delete", MaxDeletes)
    BY DEF Delete
  <2> QED BY <2>1, BoundsAreNumbers, CountingTyped, CountingOthers
<1>1. /\ heap \in [Relations -> Seq(SlotType)] /\ index \in [Relations -> LeafType]
      /\ HeapOf(t) \in Relations /\ IndexOf(t) \in Relations /\ t \in Names
  BY TypedOwned DEF TypeInv, PagesTyped, Owned
<1>2. /\ slots \in Seq(SlotType) /\ Len(slots) \in Nat /\ DOMAIN slots = 1 .. Len(slots)
      /\ \A i \in 1 .. Len(slots) : slots[i] \in SlotType
  <2>1. slots \in Seq(SlotType)
    BY <1>1
  <2> HIDE DEF slots
  <2> QED BY <2>1
<1>3. hit \subseteq 1 .. Len(slots) /\ hit \subseteq Live(slots)
  <2> HIDE DEF slots
  <2> QED BY <1>2 DEF Live
<1>4. /\ hits \in Seq(1 .. Len(slots))
      /\ \A k \in 1 .. Len(hits) : hits[k] \in hit /\ hits[k] \in 1 .. Len(slots)
      /\ \A i \in 1 .. Len(slots) : i \in hit => \E k \in 1 .. Len(hits) : hits[k] = i
      /\ \A k, l \in 1 .. Len(hits) : hits[k] = hits[l] => k = l
  <2> DEFINE s == [i \in DOMAIN slots |-> i]
             n == Len(slots)
  <2>1. s = [i \in 1 .. n |-> i]
    BY <1>2
  <2>2. n \in Nat
    BY <1>2
  <2>3. hits = Picked(s, hit)
    OBVIOUS
  <2> HIDE DEF s, n, hits, hit
  <2>4. s \in Seq(1 .. n) /\ Len(s) = n /\ \A i \in 1 .. n : s[i] = i
    BY <2>1, <2>2, NumbersUpTo
  <2>5. /\ hits \in Seq(1 .. n)
        /\ \A k \in 1 .. Len(hits) : hits[k] \in hit /\ hits[k] \in 1 .. n
        /\ \A i \in 1 .. n : i \in hit => \E k \in 1 .. Len(hits) : hits[k] = i
        /\ \A k, l \in 1 .. Len(hits) : hits[k] = hits[l] => k = l
    BY <2>2, <2>3, <2>4, NumbersPicked
  <2> QED BY <2>5 DEF n
<1>5. IsFiniteSet(hit) /\ Cardinality(hit) = Len(hits)
  <2> HIDE DEF slots, hits, hit
  <2>1. hit \in SUBSET (1 .. Len(slots))
    BY <1>3
  <2> QED BY <1>2, <1>4, <2>1, PickedCount
<1>6. /\ recs \in Seq(RecordType) /\ Len(recs) = Len(hits) /\ Len(hits) \in Nat
      /\ \A j \in 1 .. Len(recs) : recs[j] = rec(hits[j])
  <2>1. \A i \in 1 .. Len(slots) : rec(i) \in RecordType
    <3> HIDE DEF slots
    <3> QED BY <1>1, <1>2 DEF SlotType, RecordType, Record
  <2> HIDE DEF rec, slots, hits, hit
  <2>2. Len(hits) \in Nat /\ DOMAIN hits = 1 .. Len(hits)
    BY <1>4
  <2>3. \A j \in 1 .. Len(hits) : rec(hits[j]) \in RecordType
    BY <1>4, <2>1
  <2> QED BY <2>2, <2>3
<1>7. /\ heap' = [heap EXCEPT ![HeapOf(t)] = Marked(slots, hit)]
      /\ index' = IF ~\E k \in ks : Found(Store, t, k) THEN index
                  ELSE [index EXCEPT ![IndexOf(t)] =
                         [k \in Keys |-> IF \E i \in hit : slots[i].key = k THEN 0 ELSE @[k]]]
      /\ log_buffer' = log_buffer \o recs
      /\ pc = "idle" /\ pc' = "continue"
      /\ todo' = IF hits = <<>> THEN << <<"commit", t, {}>> >>
                 ELSE << <<"count", t, -Len(hits)>>, <<"commit", t, {}>> >>
      /\ promised' = [promised EXCEPT ![LifeOf(t)] = @ \ ks]
      /\ UNCHANGED <<data, saveVars, fileVars, damage, stale>>
  <2>1. << <<"count", t, -Len(hits)>> >> \o << <<"commit", t, {}>> >>
           = << <<"count", t, -Len(hits)>>, <<"commit", t, {}>> >>
    BY OneAfterOther
  <2> QED BY <2>1 DEF Delete, Marked
<1>8. /\ Marked(slots, hit) \in Seq(SlotType)
      /\ Len(Marked(slots, hit)) = Len(slots)
      /\ Live(Marked(slots, hit)) = Live(slots) \ hit
      /\ \A i \in 1 .. Len(slots) : /\ Marked(slots, hit)[i].key = slots[i].key
                                    /\ Marked(slots, hit)[i].life = slots[i].life
  <2> HIDE DEF slots, hit
  <2> QED BY <1>2, MarkedParts
<1> DEFINE found == \E k \in ks : Found(Store, t, k)
           cut(k) == \E i \in hit : slots[i].key = k
<1>9. /\ heap' \in [Relations -> Seq(SlotType)]
      /\ heap'[HeapOf(t)] = Marked(slots, hit)
      /\ \A r \in Relations : r # HeapOf(t) => heap'[r] = heap[r]
  <2> HIDE DEF slots, hit
  <2> QED BY <1>1, <1>7, <1>8
<1>10. found => leaf \in [Keys -> Nat] /\ leaf # Zeros
  BY <1>1 DEF Found, Store, LeafType
<1>11. leaf \in LeafType
  BY <1>1
<1>12. /\ index' \in [Relations -> LeafType]
       /\ \A r \in Relations : r # IndexOf(t) => index'[r] = index[r]
       /\ index'[IndexOf(t)] = Zeros <=> leaf = Zeros
       /\ \A k \in Keys : leaf # Zeros =>
              index'[IndexOf(t)][k] = IF found /\ cut(k) THEN 0 ELSE leaf[k]
  <2>1. CASE ~found
    <3>1. index' = index
      BY <1>7, <2>1
    <3> HIDE DEF found, cut
    <3> QED BY <1>1, <2>1, <3>1
  <2>2. CASE found
    <3> DEFINE new == [k \in Keys |-> IF cut(k) THEN 0 ELSE leaf[k]]
    <3>1. index' = [index EXCEPT ![IndexOf(t)] = new]
      BY <1>7, <2>2
    <3> HIDE DEF cut, found
    <3>2. new \in [Keys -> Nat] /\ \A k \in Keys : new[k] = IF cut(k) THEN 0 ELSE leaf[k]
      BY <1>10, <2>2
    <3> HIDE DEF new
    <3>3. new \in LeafType /\ new # Zeros
      BY <3>2, ZerosIsNoLeaf DEF LeafType
    <3> QED BY <1>1, <1>10, <2>2, <3>1, <3>2, <3>3
  <2> QED BY <2>1, <2>2
<1>13. /\ \A j \in 1 .. Len(recs) :
             /\ recs[j].op = "delete" /\ recs[j].table = t
             /\ \E i \in hit : recs[j].key = slots[i].key /\ recs[j].life = slots[i].life
       /\ \A i \in hit : \E j \in 1 .. Len(recs) : recs[j].key = slots[i].key
  <2>1. \A i : /\ rec(i).op = "delete" /\ rec(i).table = t
               /\ rec(i).key = slots[i].key /\ rec(i).life = slots[i].life
    BY DEF Record
  <2> HIDE DEF slots, hit, hits, recs, rec
  <2>2. ASSUME NEW j \in 1 .. Len(recs)
        PROVE  /\ recs[j].op = "delete" /\ recs[j].table = t
               /\ \E i \in hit : recs[j].key = slots[i].key /\ recs[j].life = slots[i].life
    <3>1. hits[j] \in hit /\ recs[j] = rec(hits[j])
      BY <1>4, <1>6
    <3> QED BY <3>1, <2>1
  <2>3. ASSUME NEW i \in hit PROVE \E j \in 1 .. Len(recs) : recs[j].key = slots[i].key
    <3>1. PICK j \in 1 .. Len(hits) : hits[j] = i
      BY <1>3, <1>4
    <3>2. j \in 1 .. Len(recs) /\ recs[j] = rec(i)
      BY <3>1, <1>6
    <3> QED BY <3>2, <2>1
  <2> QED BY <2>2, <2>3
<1>14. \/ recs = <<>> /\ todo' = << <<"commit", t, {}>> >>
       \/ Len(recs) > 0 /\ todo' = << <<"count", t, -Len(recs)>>, <<"commit", t, {}>> >>
  <2> HIDE DEF recs, hits
  <2> QED BY <1>4, <1>6, <1>7
<1> HIDE DEF recs, hits
<1>15. DeletesRows(t, ks, hit, recs)
  BY <1>5, <1>6, <1>7, <1>8, <1>9, <1>12, <1>13, <1>14 DEF DeletesRows
<1> QED
  BY <1>0, <1>15

LEMMA DeleteTyped == ASSUME TypeInv, NEW t \in Tables, NEW ks \in SUBSET Keys, Delete(t, ks) PROVE TypeRest'
<1>0. CountTyped' /\ count'.create = count.create
  BY DeleteParts
<1>1. PICK hit, recs : DeletesRows(t, ks, hit, recs)
  BY DeleteParts
<1>2. TablesAllTyped'
  BY <1>0, <1>1 DEF TypeInv, TablesAllTyped, DeletesRows, saveVars
<1>3. PagesTyped'
  BY <1>1 DEF TypeInv, PagesTyped, DeletesRows, fileVars
<1>4. LogsTyped'
  BY <1>1 DEF TypeInv, LogsTyped, DeletesRows, fileVars
<1>5. HistoryTyped'
  BY <1>0, <1>1 DEF TypeInv, HistoryTyped, DeletesRows
<1>6. TodoTyped'
  <2>1. t \in Tables' /\ pc' = "continue"
    BY <1>1 DEF DeletesRows, Tables
  <2>2. Len(recs) \in Nat
    BY <1>1 DEF DeletesRows
  <2>3. Committing(t, {})' \/ (Len(recs) > 0 /\ CountingThen(t, -Len(recs), {})')
    BY <1>1 DEF DeletesRows, Committing, CountingThen
  <2> QED BY <2>1, <2>2, <2>3 DEF TodoTyped
<1> QED
  BY <1>0, <1>2, <1>3, <1>4, <1>5, <1>6 DEF TypeRest

LEMMA CheckpointTyped == ASSUME TypeInv, Checkpoint PROVE TypeRest'
<1>1. CountTyped' /\ count'.create = count.create
  BY BoundsAreNumbers, CountingTyped DEF Checkpoint
<1>2. TablesAllTyped'
  BY <1>1 DEF TypeInv, TablesAllTyped, Checkpoint, saveVars
<1>3. LogsTyped'
  BY DEF TypeInv, LogsTyped, Checkpoint
<1>4. TodoTyped'
  BY DEF TodoTyped, Checkpoint
<1>5. HistoryTyped'
  BY <1>1 DEF TypeInv, HistoryTyped, Checkpoint, historyVars
<1> QED
  BY <1>1, <1>2, <1>3, <1>4, <1>5 DEF TypeInv, TypeRest, PagesTyped, Checkpoint, pageVars

LEMMA TruncateTyped == ASSUME TypeInv, Truncate PROVE TypeRest'
<1>1. TodoTyped' /\ LogsTyped'
  BY DEF TypeInv, TodoTyped, LogsTyped, Truncate
<1> QED
  BY <1>1 DEF TypeInv, TypeRest, PagesTyped, CountTyped, HistoryTyped, TablesAllTyped, Truncate,
              saveVars, pageVars, historyVars

LEMMA CrashTyped == ASSUME TypeInv, Crash PROVE TypeRest'
<1>1. CountTyped' /\ count'.create = count.create
  BY BoundsAreNumbers, CountingTyped DEF Crash
<1>2. TablesAllTyped'
  <2>1. count.create \in Nat
    BY CountFacts
  <2> QED BY <1>1, <2>1, EmptyTyped DEF TypeInv, TablesAllTyped, Crash, Dead, saveVars
<1>3. PagesTyped' /\ LogsTyped'
  BY DeadTyped DEF Crash
<1>4. TodoTyped'
  BY DEF TodoTyped, Crash, Dead
<1>5. HistoryTyped'
  BY <1>1 DEF TypeInv, HistoryTyped, Crash, historyVars
<1> QED
  BY <1>1, <1>2, <1>3, <1>4, <1>5 DEF TypeRest

LEMMA OpenTyped ==
    ASSUME TypeInv, NEW rest, Open(rest), rest \in { << <<"recover">> >>, << <<"opened">> >> },
           UNCHANGED <<saveVars, relationVars, count, historyVars>>
    PROVE  TypeRest'
<1>1. count.create \in Nat
  BY CountFacts
<1>2. TablesAllTyped'
  BY <1>1, EmptyTyped DEF TypeInv, TablesAllTyped, Open, Change, saveVars
<1>3. TodoTyped'
  BY DEF TodoTyped, Open, Change
<1> QED
  BY <1>2, <1>3 DEF TypeInv, TypeRest, PagesTyped, LogsTyped, CountTyped, HistoryTyped,
                    relationVars, pageVars, fileVars, historyVars

LEMMA OpenedTyped == ASSUME TypeInv, Opened PROVE TypeRest'
<1>1. TodoTyped'
  BY DEF TodoTyped, Opened
<1> QED
  BY <1>1 DEF TypeInv, TypeRest, PagesTyped, LogsTyped, CountTyped, HistoryTyped, TablesAllTyped,
              Opened, saveVars, relationVars, pageVars, fileVars, historyVars

(* What a recovery does, in parts. *)
RecoversRows ==
    /\ heap' = Replayed.heap /\ index' = Replayed.index /\ index_disk' = Replayed.index_disk
    /\ \/ pc' = "idle" /\ todo' = <<>> /\ data' = data /\ Replayed = Rebuilt
       \/ pc' = "write" /\ todo' = << <<"opened">> >> /\ data' = WithRoots(Replayed.root)

LEMMA RecoverParts ==
    ASSUME TypeInv, Recover
    PROVE  /\ pc = "continue" /\ todo = << <<"recover">> >>
           /\ UNCHANGED <<saveVars, heap_disk, log_file, log_buffer, count, historyVars>>
           /\ \/ /\ Panics /\ pc' = "panicked" /\ todo' = <<>>
                 /\ UNCHANGED <<data, pageVars, index_disk>>
              \/ ~Panics /\ RecoversRows
<1>1. pc = "continue" /\ Head(todo)[1] = "recover"
  BY DEF Recover, Doing
<1>2. todo = << <<"recover">> >>
  BY <1>1 DEF TypeInv, TodoTyped, Committing, CountingThen
<1>3. \/ /\ Panics /\ pc' = "panicked" /\ todo' = <<>>
         /\ UNCHANGED <<data, pageVars, index_disk>>
      \/ ~Panics /\ RecoversRows
  BY DEF Recover, InStore, Change, RecoversRows, WithRoots
<1> QED
  BY <1>1, <1>2, <1>3 DEF Recover

LEMMA RecoverTyped == ASSUME TypeInv, Recover PROVE TypeRest'
<1>1. /\ UNCHANGED <<saveVars, heap_disk, log_file, log_buffer, count, historyVars>>
      /\ \/ /\ pc' = "panicked" /\ todo' = <<>>
            /\ UNCHANGED <<data, pageVars, index_disk>>
         \/ RecoversRows
  BY RecoverParts
<1>2. LogsTyped' /\ CountTyped' /\ HistoryTyped'
  BY <1>1 DEF TypeInv, LogsTyped, CountTyped, HistoryTyped, historyVars
<1>3. CASE UNCHANGED <<data, pageVars, index_disk>> /\ pc' = "panicked" /\ todo' = <<>>
  <2>1. TodoTyped'
    BY <1>3 DEF TodoTyped
  <2> QED BY <1>1, <1>2, <1>3, <2>1 DEF TypeInv, TypeRest, PagesTyped, TablesAllTyped, saveVars, pageVars
<1>4. CASE RecoversRows
  <2>1. StoreTyped(Replayed)
    BY ReplayTyped
  <2>2. PagesTyped'
    BY <1>1, <1>4, <2>1 DEF TypeInv, PagesTyped, StoreTyped, RecoversRows
  <2>3. TodoTyped'
    BY <1>4 DEF TodoTyped, RecoversRows
  <2>4. \A t \in Tables : Replayed.root[t] \in BOOLEAN
    BY <2>1 DEF StoreTyped
  <2>5. CatalogOK(data) /\ TablesTyped(data, count.create)
    BY DEF TypeInv, CatalogsOK, TablesAllTyped
  <2>6. TablesTyped(WithRoots(Replayed.root), count.create)
    BY <2>4, <2>5, RootedTyped
  <2>7. TablesAllTyped'
    BY <1>1, <1>4, <2>6 DEF TypeInv, TablesAllTyped, RecoversRows, saveVars
  <2> QED BY <1>2, <2>2, <2>3, <2>7 DEF TypeRest
<1> QED
  BY <1>1, <1>3, <1>4

LEMMA EmptyPagesTyped ==
    Empty \in [Relations -> Seq(SlotType)] /\ NoTrees \in [Relations -> LeafType]
BY DEF Empty, NoTrees, LeafType

LEMMA WipeTyped == ASSUME TypeInv, NEW kept, Wipe(kept) PROVE TypeRest'
<1>1. CountTyped' /\ count'.create = count.create
  <2>1. /\ count \in [Counted -> Nat] /\ count.create <= MaxCreates
        /\ "create" \in Counted /\ "fault" \in Counted /\ "reset" \in Counted
    BY DEF TypeInv, CountTyped, Counted
  <2>2. count' = [count EXCEPT !.reset = @ + 1, !.fault = IF kept = {} THEN @ ELSE @ + 1]
    BY DEF Wipe
  <2>3. ASSUME NEW n \in Nat, NEW m \in Nat, count' = [count EXCEPT !.reset = n, !.fault = m]
        PROVE  count' \in [Counted -> Nat] /\ count'.create = count.create
    BY <2>1, <2>3
  <2>4. count.reset + 1 \in Nat /\ count.fault \in Nat /\ count.fault + 1 \in Nat
    BY <2>1
  <2>5. count' \in [Counted -> Nat] /\ count'.create = count.create
    <3>1. CASE kept = {}
      <4>1. count' = [count EXCEPT !.reset = count.reset + 1, !.fault = count.fault]
        BY <2>1, <2>2, <3>1
      <4> QED BY <2>3, <2>4, <4>1
    <3>2. CASE kept # {}
      <4>1. count' = [count EXCEPT !.reset = count.reset + 1, !.fault = count.fault + 1]
        BY <2>1, <2>2, <3>2
      <4> QED BY <2>3, <2>4, <4>1
    <3> QED BY <3>1, <3>2
  <2> QED BY <2>1, <2>5 DEF CountTyped
<1>2. TablesAllTyped'
  <2>1. count.create \in Nat
    BY CountFacts
  <2> QED BY <1>1, <2>1, EmptyTyped DEF TypeInv, TablesAllTyped, Wipe, NoFile
<1>3. PagesTyped'
  BY EmptyPagesTyped DEF TypeInv, PagesTyped, Wipe
<1>4. LogsTyped'
  BY DEF TypeInv, LogsTyped, Wipe
<1>5. TodoTyped'
  BY DEF TodoTyped, Wipe
<1>6. HistoryTyped'
  BY <1>1 DEF TypeInv, HistoryTyped, Wipe
<1> QED
  BY <1>1, <1>2, <1>3, <1>4, <1>5, <1>6 DEF TypeRest

LEMMA DeletedKeys ==
    ASSUME NEW ks \in { {k} : k \in Keys } \union {Keys} PROVE ks \in SUBSET Keys
OBVIOUS

LEMMA StutterTyped == ASSUME TypeInv, UNCHANGED vars PROVE TypeRest'
<1> USE DEF vars, saveVars, relationVars, pageVars, fileVars, historyVars
<1>1. TodoTyped'
  BY DEF TypeInv, TodoTyped, Committing, CountingThen, Tables
<1>2. TablesAllTyped' /\ PagesTyped' /\ LogsTyped'
  BY DEF TypeInv, TablesAllTyped, PagesTyped, LogsTyped
<1>3. CountTyped' /\ HistoryTyped'
  BY DEF TypeInv, CountTyped, HistoryTyped
<1> QED
  BY <1>1, <1>2, <1>3 DEF TypeRest

LEMMA NextTyped == TypeInv /\ [Next]_vars => TypeInv'
<1> SUFFICES ASSUME TypeInv, [Next]_vars PROVE TypeRest'
  <2>1. TypeInv /\ [Next]_vars => CatalogsOK'
    BY NextKeepsCatalogs DEF TypeInv
  <2>2. CatalogsOK' /\ TypeRest' => TypeInv'
    BY DEF TypeInv, TypeRest
  <2> QED BY <2>1, <2>2
<1>2. CASE WriteTemp \/ WriteTempShort \/ Rename \/ SaveFails
  BY <1>2, WriteTyped, WriteShortTyped, RenameTyped, SaveFailsTyped
<1>3. ASSUME NEW t \in Names, Create(t) \/ Drop(t) PROVE TypeRest'
  BY <1>3, CreateTyped, DropTyped DEF Create
<1>4. ASSUME NEW t \in Names, NEW k \in Keys, Insert(t, k) PROVE TypeRest'
  BY <1>4, InsertTyped
<1>5. ASSUME NEW t \in Tables, NEW ks \in { {k} : k \in Keys } \union {Keys}, Delete(t, ks)
      PROVE  TypeRest'
  BY <1>5, DeletedKeys, DeleteTyped
<1>6. CASE Demo \/ DemoRows \/ Count \/ Commit
  BY <1>6, DemoTyped, DemoRowsTyped, CountActionTyped, CommitTyped
<1>7. CASE Checkpoint \/ Truncate \/ Crash
  BY <1>7, CheckpointTyped, TruncateTyped, CrashTyped
<1>8. CASE Start \/ Reopen
  BY <1>8, OpenTyped DEF Start, Reopen
<1>9. CASE Recover \/ Opened
  BY <1>9, RecoverTyped, OpenedTyped
<1>10. ASSUME NEW kept, Wipe(kept) PROVE TypeRest'
  BY <1>10, WipeTyped
<1> QED
  BY <1>2, <1>3, <1>4, <1>5, <1>6, <1>7, <1>8, <1>9, <1>10, StutterTyped DEF Next

LEMMA InitTyped == Init => TypeInv
<1> SUFFICES ASSUME Init PROVE TypeInv
  OBVIOUS
<1>1. CatalogsOK
  BY EmptyOK DEF Init, CatalogsOK, NoFile
<1>2. count \in [Counted -> Nat] /\ count.create = 0 /\ "create" \in Counted
  BY DEF Init, Counted
<1>3. TablesAllTyped
  BY <1>2, EmptyTyped DEF Init, TablesAllTyped, NoFile
<1>4. PagesTyped
  BY EmptyPagesTyped DEF Init, PagesTyped
<1>5. CountTyped
  BY <1>2, BoundsAreNumbers DEF CountTyped
<1>6. HistoryTyped
  BY DEF Init, HistoryTyped
<1> QED
  BY <1>1, <1>3, <1>4, <1>5, <1>6 DEF Init, TypeInv, LogsTyped, TodoTyped

LEMMA TypeInvariant == Spec => []TypeInv
BY InitTyped, NextTyped, PTL DEF Spec

-----------------------------------------------------------------------------
(* Relations that no table has. *)

(* Harm is never undone. *)
LEMMA HarmStays == ASSUME [Next]_vars, Harmless' PROVE Harmless
BY DEF Harmless, Next, vars, saveVars, relationVars, historyVars,
     WriteTemp, WriteTempShort, Rename, SaveFails, Create, CreateThen, Drop, Insert,
     AddRows, Delete, Demo, DemoRows, Count, Commit, Checkpoint, Truncate, Crash,
     Start, Recover, Wipe, Reopen, Opened

(* When no save is under way memory is what the file has. *)
LEMMA SavedOutside ==
    ASSUME TypeInv, SaveInv, Harmless, pc \in {"idle", "continue", "panicked"}
    PROVE  /\ catalog_file = Whole(data) /\ catalog_file.value = data /\ FileTables = data.tables
           /\ DOMAIN FileTables = Tables
<1>1. "unsaved" \notin damage /\ "torn" \notin damage
  BY DEF TypeInv, HistoryTyped, Harmless
<1> QED
  BY <1>1 DEF SaveInv, Whole, FileTables, Tables

LEMMA OwnedBelowNext ==
    ASSUME TypeInv, NEW t \in Tables
    PROVE  HeapOf(t) < data.next_relation_id /\ data.next_relation_id \in Nat /\ HeapOf(t) \in Nat
<1>1. CatalogOK(data)
  BY DEF TypeInv, CatalogsOK
<1> QED
  BY <1>1 DEF CatalogOK, MetaOK, Tables, HeapOf

UnusedIn(h) == \A r \in Relations : r >= catalog_file.value.next_relation_id => h[r] = <<>>

LEMMA UnusedParts ==
    UnusedAreEmpty <=>
        (Harmless =>
            /\ UnusedIn(heap) /\ UnusedIn(heap_disk)
            /\ pc \in {"write", "rename"} =>
                  data.next_relation_id >= catalog_file.value.next_relation_id)
BY DEF UnusedAreEmpty, UnusedIn

(* A change to the heap of a table is no change to an unused relation. *)
LEMMA HeapChange ==
    ASSUME TypeInv, SaveInv, Harmless, UnusedIn(heap), pc \in {"idle", "continue"},
           UNCHANGED catalog_file, NEW t \in Tables,
           \A r \in Relations : r # HeapOf(t) => heap'[r] = heap[r]
    PROVE  UnusedIn(heap)'
<1>1. catalog_file.value = data /\ HeapOf(t) < data.next_relation_id
      /\ data.next_relation_id \in Nat /\ HeapOf(t) \in Nat
  BY SavedOutside, OwnedBelowNext
<1>2. \A r \in Relations : r >= data.next_relation_id => r # HeapOf(t)
  BY <1>1 DEF Relations
<1> QED
  BY <1>1, <1>2 DEF UnusedIn

LEMMA AddRowsKeepsUnused ==
    ASSUME TypeInv, SaveInv, UnusedAreEmpty, Harmless, pc \in {"idle", "continue"},
           NEW t \in Tables, NEW ks, NEW done, NEW s, NEW rest, AddsRows(t, ks, done, s, rest)
    PROVE  UnusedAreEmpty'
<1>1. UnusedIn(heap) /\ UnusedIn(heap_disk)
  BY UnusedParts
<1>2. /\ \A r \in Relations : r # HeapOf(t) => heap'[r] = heap[r]
      /\ UNCHANGED <<catalog_file, heap_disk>>
  BY DEF AddsRows, AddedTo, SameElsewhere, Store, saveVars
<1>3. UnusedIn(heap)' /\ UnusedIn(heap_disk)'
  BY <1>1, <1>2, HeapChange DEF UnusedIn
<1>4. catalog_file.value = data /\ data.next_relation_id \in Nat /\ CatalogOK(data)
  BY SavedOutside, OwnedBelowNext DEF TypeInv, CatalogsOK
<1>5. data'.next_relation_id = data.next_relation_id
  <2>1. WithRoots(s.root).next_relation_id = data.next_relation_id
    BY <1>4, RootedParts
  <2> QED BY <2>1 DEF AddsRows
<1>6. data'.next_relation_id >= catalog_file'.value.next_relation_id
  BY <1>2, <1>4, <1>5
<1> QED
  BY <1>3, <1>6 DEF UnusedAreEmpty, UnusedIn

LEMMA RecoverKeepsUnused ==
    ASSUME TypeInv, SaveInv, UnusedAreEmpty, Harmless, Recover
    PROVE  UnusedAreEmpty'
<1>1. UnusedIn(heap) /\ UnusedIn(heap_disk)
  BY UnusedParts
<1>2. /\ pc = "continue"
      /\ UNCHANGED <<saveVars, heap_disk>>
      /\ \/ pc' = "panicked" /\ UNCHANGED <<data, pageVars>>
         \/ RecoversRows
  BY RecoverParts
<1>3. catalog_file.value = data /\ CatalogOK(data) /\ data.next_relation_id \in Nat
  BY <1>2, SavedOutside DEF TypeInv, CatalogsOK, CatalogOK
<1>4. data'.next_relation_id = data.next_relation_id
  <2>1. WithRoots(Replayed.root).next_relation_id = data.next_relation_id
    BY <1>3, RootedParts
  <2> QED BY <1>2, <2>1 DEF RecoversRows
<1>5. UnusedIn(heap)'
  <2>1. CASE heap' = heap
    BY <1>1, <1>2, <2>1 DEF UnusedIn, saveVars
  <2>2. CASE heap' = Replayed.heap
    <3>1. Untouched(Replayed)
      BY ReplayTyped
    <3>2. \A r \in Relations : r >= data.next_relation_id => \A t \in Tables : HeapOf(t) # r
      BY OwnedBelowNext DEF Relations
    <3> QED BY <1>1, <1>2, <1>3, <2>2, <3>1, <3>2 DEF UnusedIn, Untouched, saveVars
  <2> QED BY <1>2, <2>1, <2>2 DEF RecoversRows, pageVars
<1>6. UnusedIn(heap_disk)'
  BY <1>1, <1>2 DEF UnusedIn, saveVars
<1>7. data'.next_relation_id >= catalog_file'.value.next_relation_id
  BY <1>2, <1>3, <1>4 DEF saveVars
<1> QED
  BY <1>5, <1>6, <1>7 DEF UnusedAreEmpty, UnusedIn

(* Steps that leave the heaps alone, or copy one onto the other. *)
LEMMA SameHeapsUnused ==
    ASSUME UnusedAreEmpty, Harmless, UNCHANGED catalog_file,
           heap' \in {heap, heap_disk}, heap_disk' \in {heap, heap_disk},
           pc' \in {"write", "rename"} =>
               data'.next_relation_id >= catalog_file.value.next_relation_id
    PROVE  UnusedAreEmpty'
BY DEF UnusedAreEmpty

LEMMA SaveKeepsUnused ==
    ASSUME TypeInv, SaveInv, UnusedAreEmpty, Harmless, Harmless',
           WriteTemp \/ WriteTempShort \/ Rename \/ SaveFails
    PROVE  UnusedAreEmpty'
<1>0. data.next_relation_id \in Nat /\ catalog_file.value.next_relation_id \in Nat
  BY DEF TypeInv, CatalogsOK, CatalogOK
<1>1. CASE WriteTemp \/ WriteTempShort
  BY <1>1 DEF UnusedAreEmpty, WriteTemp, WriteTempShort, relationVars, pageVars, fileVars
<1>2. CASE Rename
  <2>1. temp_file = Whole(data)
    BY <1>2 DEF SaveInv, Rename, Harmless
  <2>2. catalog_file'.value = data /\ data.next_relation_id >= catalog_file.value.next_relation_id
    BY <1>2, <2>1 DEF UnusedAreEmpty, Rename, Whole
  <2>3. UnusedIn(heap) /\ UnusedIn(heap_disk) /\ UNCHANGED <<heap, heap_disk>>
        /\ pc' \in {"idle", "continue"}
    BY <1>2, UnusedParts DEF Rename, relationVars, pageVars, fileVars
  <2> QED BY <1>0, <2>2, <2>3 DEF UnusedAreEmpty, UnusedIn, Relations
<1>3. CASE SaveFails
  BY <1>3 DEF SaveFails, Harmless
<1> QED
  BY <1>1, <1>2, <1>3

LEMMA NextKeepsUnused ==
    TypeInv /\ SaveInv /\ UnusedAreEmpty /\ [Next]_vars => UnusedAreEmpty'
<1> SUFFICES ASSUME TypeInv, SaveInv, UnusedAreEmpty, [Next]_vars, Harmless' PROVE UnusedAreEmpty'
  BY DEF UnusedAreEmpty
<1>0. Harmless
  BY HarmStays
<1>1. pc \in {"idle", "continue"} => catalog_file.value = data
  BY <1>0, SavedOutside
<1>2. data.next_relation_id \in Nat /\ CatalogOK(data)
  BY DEF TypeInv, CatalogsOK, CatalogOK
<1>3. CASE UNCHANGED vars
  BY <1>0, <1>3 DEF UnusedAreEmpty, vars, saveVars, relationVars, pageVars, fileVars
<1>4. CASE WriteTemp \/ WriteTempShort \/ Rename \/ SaveFails
  BY <1>0, <1>4, SaveKeepsUnused
<1>5. ASSUME NEW t, NEW rest, CreateThen(t, rest) PROVE UnusedAreEmpty'
  <2>1. /\ pc = "idle" /\ data' = Created(t)
        /\ UNCHANGED <<catalog_file, heap, heap_disk>>
    BY <1>5 DEF CreateThen, Change, saveVars, relationVars, pageVars, fileVars
  <2>2. Created(t).next_relation_id = data.next_relation_id + 2
    BY DEF Created
  <2>3. data'.next_relation_id >= catalog_file.value.next_relation_id
    BY <1>1, <1>2, <2>1, <2>2
  <2> QED BY <1>0, <2>1, <2>3, SameHeapsUnused
<1>6. ASSUME NEW t, Drop(t) PROVE UnusedAreEmpty'
  <2>1. [data EXCEPT !.tables = Without(t)].next_relation_id = data.next_relation_id
    BY <1>2 DEF CatalogOK
  <2> QED BY <1>0, <1>1, <1>2, <1>6, <2>1, SameHeapsUnused
     DEF Drop, Change, saveVars, relationVars, pageVars, fileVars
<1>7. ASSUME NEW t, NEW k \in Keys, Insert(t, k) PROVE UnusedAreEmpty'
  <2>1. pc = "idle" /\ t \in Tables
    BY <1>7, InsertParts
  <2>2. PICK done, s : AddsRows(t, <<k>>, done, s, << <<"count", t, 1>>, <<"commit", t, {k}>> >>)
    BY <1>7, InsertParts
  <2> QED BY <1>0, <2>1, <2>2, AddRowsKeepsUnused
<1>8. ASSUME NEW t \in Tables, NEW ks \in { {k} : k \in Keys } \union {Keys}, Delete(t, ks)
      PROVE  UnusedAreEmpty'
  <2>1. PICK hit, recs : DeletesRows(t, ks, hit, recs)
    BY <1>8, DeletedKeys, DeleteParts
  <2>2. /\ pc = "idle" /\ pc' = "continue" /\ UNCHANGED <<catalog_file, heap_disk>>
        /\ \A r \in Relations : r # HeapOf(t) => heap'[r] = heap[r]
    BY <2>1 DEF DeletesRows, saveVars, fileVars
  <2>3. UnusedIn(heap)' /\ UnusedIn(heap_disk)'
    BY <1>0, <2>2, HeapChange, UnusedParts DEF UnusedIn
  <2> QED BY <2>2, <2>3 DEF UnusedAreEmpty, UnusedIn
<1>9. CASE Demo
  <2>1. CASE pc' = "continue"
    BY <1>0, <1>9, <2>1, SameHeapsUnused
       DEF Demo, CreateThen, Change, saveVars, relationVars, pageVars, fileVars
  <2> QED BY <1>5, <1>9, <2>1 DEF Demo
<1>10. CASE DemoRows
  <2>1. pc = "continue" /\ DemoTable \in Tables
    BY <1>10, DemoParts
  <2>2. PICK ks, done, s : AddsRows(DemoTable, ks, done, s, DemoRest)
    BY <1>10, DemoParts
  <2> QED BY <1>0, <2>1, <2>2, AddRowsKeepsUnused
<1>11. CASE Count
  <2>1. PICK t \in Tables, n \in Int :
           /\ pc = "continue"
           /\ data' = WithCount(t, CountNow(t, n))
           /\ UNCHANGED <<saveVars, relationVars>>
    BY <1>11, CountParts
  <2>2. data'.next_relation_id = data.next_relation_id
    BY <1>2, <2>1, CountedParts
  <2> QED BY <1>0, <1>1, <1>2, <2>1, <2>2, SameHeapsUnused
             DEF saveVars, relationVars, pageVars, fileVars
<1>12. CASE Commit \/ Checkpoint \/ Truncate \/ Opened \/ Crash
  BY <1>0, <1>12, SameHeapsUnused
     DEF Commit, Checkpoint, Truncate, Opened, Crash, Dead, saveVars, relationVars, pageVars, fileVars
<1>13. CASE Start \/ Reopen
  <2>1. NoFile.value.next_relation_id = 0 /\ EmptyCatalog.next_relation_id = 0
    BY DEF NoFile, EmptyCatalog
  <2> QED BY <1>0, <1>13, <2>1, SameHeapsUnused
     DEF Start, Reopen, Open, Change, saveVars, relationVars, pageVars, fileVars
<1>14. CASE Recover
  BY <1>0, <1>14, RecoverKeepsUnused
<1>15. ASSUME NEW kept, Wipe(kept) PROVE UnusedAreEmpty'
  <2>1. kept = {}
    BY <1>15 DEF Wipe, Harmless
  <2> QED BY <1>15, <2>1 DEF Wipe, UnusedAreEmpty, Empty
<1> QED
  BY <1>3, <1>4, <1>5, <1>6, <1>7, <1>8, <1>9, <1>10, <1>11, <1>12, <1>13, <1>14, <1>15
     DEF Next, Create

LEMMA UnusedInvariant == Spec => []UnusedAreEmpty
<1>1. Init => UnusedAreEmpty
  BY DEF Init, UnusedAreEmpty, Empty
<1> QED
  BY <1>1, NextKeepsUnused, TypeInvariant, SaveInvariant, PTL DEF Spec

(***************************************************************************)
(* A table that is created finds its files empty, as long as no save was   *)
(* refused or lost bytes and every .reset was complete: the numbers above  *)
(* the one in the file were never given to a table that got rows (ddl.rs,  *)
(* catalog.rs create_table_with_schema).                                   *)
(***************************************************************************)
THEOREM NewTablesFindNothing == Spec => []NewTablesAreEmpty
<1>1. UnusedAreEmpty => NewTablesAreEmpty
  BY DEF UnusedAreEmpty, NewTablesAreEmpty
<1> QED
  BY <1>1, UnusedInvariant, PTL

-----------------------------------------------------------------------------
(* The number of records and the rows. *)

LEMMA LiveFinite ==
    ASSUME NEW slots \in Seq(SlotType)
    PROVE  IsFiniteSet(Live(slots)) /\ Cardinality(Live(slots)) \in Nat
<1>1. Len(slots) \in Nat /\ Live(slots) \in SUBSET Nat /\ \A i \in Live(slots) : i <= Len(slots)
  BY DEF Live
<1>2. IsFiniteSet(Live(slots))
  BY <1>1, FS_BoundedSetOfNaturals
<1> QED
  BY <1>2, FS_CardinalityType

LEMMA OwedNothing ==
    ASSUME NEW t
    PROVE  /\ Owed(<<>>, t) = 0
           /\ \A u, ks : Owed(<< <<"commit", u, ks>> >>, t) = 0
           /\ \A u : Owed(<< <<"demo", u>> >>, t) = 0
           /\ Owed(<< <<"truncate">> >>, t) = 0
           /\ Owed(<< <<"recover">> >>, t) = 0
           /\ Owed(<< <<"opened">> >>, t) = 0
BY DEF Owed

LEMMA OwedOne ==
    ASSUME NEW t, NEW u, NEW n, NEW x
    PROVE  Owed(<< <<"count", u, n>>, x >>, t) = IF u = t THEN n ELSE 0
BY DEF Owed

LEMMA AfterNothing == ASSUME NEW num \in Nat PROVE After(num, 0) = num
BY DEF After, Minus

LEMMA AfterFewer ==
    ASSUME NEW num \in Nat, NEW n \in Nat, NEW c \in Nat, num <= c, n <= c
    PROVE  After(num, -n) <= c - n
<1>1. ~(-n > 0) /\ -(-n) = n
  OBVIOUS
<1>2. After(num, -n) = Minus(num, n)
  BY <1>1 DEF After
<1> QED
  BY <1>2 DEF Minus

LEMMA FewerCardinality ==
    ASSUME NEW S, NEW T, T \subseteq S, IsFiniteSet(S), NEW U, U = S \ T,
           NEW n, n = Cardinality(T)
    PROVE  Cardinality(U) = Cardinality(S) - n
<1>1. S \cap T = T
  OBVIOUS
<1>2. Cardinality(S \ T) = Cardinality(S) - Cardinality(S \cap T)
  BY FS_Difference
<1> QED
  BY <1>1, <1>2

(* A catalog none of whose tables is owed anything. *)
NothingOwed(td) == \A t : Owed(td, t) = 0

LEMMA FitsNothingOwed ==
    ASSUME NEW c, NEW td, NEW h, NothingOwed(td),
           \A t \in DOMAIN c.tables : c.tables[t].num_records \in Nat
    PROVE  CountsFit(c, td, h) <=>
              \A t \in DOMAIN c.tables :
                 c.tables[t].num_records <= Cardinality(Live(h[c.tables[t].heap_relation_id]))
BY AfterNothing DEF NothingOwed, CountsFit

LEMMA NumbersTyped ==
    ASSUME TypeInv
    PROVE  /\ \A t \in Tables : data.tables[t].num_records \in Nat
           /\ \A t \in Tables : /\ heap[HeapOf(t)] \in Seq(SlotType)
                                /\ HeapOf(t) = data.tables[t].heap_relation_id
                                /\ HeapOf(t) \in Relations
           /\ CatalogOK(data)
<1>1. TablesTyped(data, count.create) /\ CatalogOK(data)
  BY DEF TypeInv, TablesAllTyped, CatalogsOK
<1> QED
  BY <1>1 DEF TypeInv, PagesTyped, TablesTyped, Tables, HeapOf

CountHyp == count.crash = 0 /\ "leftover" \notin damage

LEMMA CountHypStays == ASSUME TypeInv, [Next]_vars, CountHyp' PROVE CountHyp /\ ~Crash
<1>1. CountsAll /\ count.crash \in Nat
  BY CountFacts DEF CountsAll, Counted
<1>2. "leftover" \notin damage
  BY DEF CountHyp, Next, vars, saveVars, relationVars, historyVars,
     WriteTemp, WriteTempShort, Rename, SaveFails, Create, CreateThen, Drop, Insert,
     AddRows, Delete, Demo, DemoRows, Count, Commit, Checkpoint, Truncate, Crash,
     Start, Recover, Wipe, Reopen, Opened
<1>3. ~Crash
  <2>1. Crash => count'.crash = count.crash + 1
    BY <1>1 DEF CountsAll, Crash, Counting, Counted
  <2> QED BY <1>1, <2>1 DEF CountHyp
<1>4. count'.crash = count.crash
  <2>1. CASE UNCHANGED vars
    BY <2>1 DEF vars
  <2>2. CASE Rename
    BY <2>2 DEF Rename
  <2>3. ASSUME NEW kept, Wipe(kept) PROVE count'.crash = count.crash
    BY <1>1, <2>3 DEF CountsAll, Wipe, Counted
  <2> QED BY <1>1, <1>3, <2>1, <2>2, <2>3, OtherStepsLeaveFile DEF FileAlone
<1> QED
  BY <1>2, <1>3, <1>4 DEF CountHyp

(* The invariant while its premise holds. *)
CountBody ==
    /\ pc \in {"down", "wiped"} \/ Opening => Blank
    /\ pc = "down" \/ Opening => data = EmptyCatalog
    /\ pc # "wiped" => CountsFit(data, todo, heap)

LEMMA CountInvParts == CountInv <=> (CountHyp => CountBody)
BY DEF CountInv, CountHyp, CountBody

(* Steps that change no number and no heap. *)
LEMMA SameCounts ==
    ASSUME TypeInv, CountBody, pc # "wiped", UNCHANGED <<data, heap>>,
           NothingOwed(todo) \/ todo' = todo, NothingOwed(todo') \/ todo' = todo
    PROVE  CountsFit(data, todo, heap)'
<1>1. CASE todo' = todo
  BY <1>1 DEF CountBody
<1>2. CASE NothingOwed(todo) /\ NothingOwed(todo')
  <2>1. \A t \in DOMAIN data.tables : data.tables[t].num_records \in Nat
    BY NumbersTyped DEF Tables
  <2>2. CountsFit(data, todo, heap)
    BY DEF CountBody
  <2>3. CountsFit(data, todo', heap)
    BY <1>2, <2>1, <2>2, FitsNothingOwed
  <2> QED BY <2>3
<1> QED
  BY <1>1, <1>2

LEMMA SaveKeepsCount ==
    ASSUME TypeInv, SaveInv, CountBody, WriteTemp \/ WriteTempShort \/ Rename
    PROVE  CountBody'
<1>1. pc \in {"write", "rename"} /\ UNCHANGED <<data, relationVars, todo>>
  BY DEF WriteTemp, WriteTempShort, Rename
<1>2. pc' \notin {"down", "wiped"}
  BY DEF WriteTemp, WriteTempShort, Rename
<1>3. Opening' <=> Opening
  BY <1>1 DEF Opening
<1>4. CountsFit(data, todo, heap)'
  BY <1>1 DEF CountBody, relationVars, pageVars
<1>5. Opening => Blank'
  <2>1. SUFFICES ASSUME Opening PROVE Blank'
    OBVIOUS
  <2>2. Blank /\ data = EmptyCatalog
    BY <2>1 DEF CountBody
  <2>3. catalog_file'.value = EmptyCatalog
    <3>1. CASE Rename
      <4>1. temp_file = Torn \/ temp_file = Whole(data)
        BY <3>1 DEF SaveInv, Rename
      <4> QED BY <2>2, <3>1, <4>1 DEF Rename, Torn, Whole
    <3>2. CASE catalog_file' = catalog_file
      BY <2>2, <3>2 DEF Blank
    <3> QED BY <3>1, <3>2 DEF WriteTemp, WriteTempShort
  <2> QED BY <1>1, <2>2, <2>3 DEF Blank, relationVars, pageVars, fileVars
<1> QED
  BY <1>1, <1>2, <1>3, <1>4, <1>5 DEF CountBody

LEMMA SaveFailsKeepsCount == ASSUME TypeInv, CountBody, SaveFails PROVE CountBody'
<1>1. pc \in {"write", "rename"} /\ todo' = <<>>
  BY DEF SaveFails
<1>2. CASE Opening
  <2>1. Dead /\ UNCHANGED <<saveVars, fileVars>> /\ Blank
    BY <1>2 DEF SaveFails, CountBody
  <2>2. Blank'
    BY <2>1 DEF Dead, Blank, saveVars, fileVars
  <2>3. CountsFit(EmptyCatalog, <<>>, heap')
    BY DEF CountsFit, EmptyCatalog
  <2> QED BY <1>1, <2>1, <2>2, <2>3 DEF CountBody, Dead, Opening
<1>3. CASE ~Opening
  <2>1. pc' = "idle" /\ UNCHANGED <<data, heap>>
    BY <1>3 DEF SaveFails, pageVars
  <2>2. CountsFit(data, todo, heap)
    BY <1>1 DEF CountBody
  <2>3. ASSUME NEW t \in DOMAIN data.tables
        PROVE  data.tables[t].num_records <= Cardinality(Live(heap[data.tables[t].heap_relation_id]))
    <3>1. Owed(todo, t) = 0 \/ Owed(todo, t) = 1
      BY <1>1, OwedNothing, OwedOne DEF TypeInv, TodoTyped, Committing, CountingThen
    <3>2. data.tables[t].num_records \in Nat
      BY NumbersTyped DEF Tables
    <3>3. After(data.tables[t].num_records, Owed(todo, t)) >= data.tables[t].num_records
      BY <3>1, <3>2 DEF After, Minus
    <3>4. /\ After(data.tables[t].num_records, Owed(todo, t))
                <= Cardinality(Live(heap[data.tables[t].heap_relation_id]))
          /\ After(data.tables[t].num_records, Owed(todo, t)) \in Nat
          /\ Cardinality(Live(heap[data.tables[t].heap_relation_id])) \in Nat
      BY <2>2, <3>1, <3>2, NumbersTyped, LiveFinite DEF CountsFit, After, Minus, Tables
    <3> QED BY <3>2, <3>3, <3>4
  <2>4. CountsFit(data, <<>>, heap)
    <3>1. NothingOwed(<<>>)
      BY OwedNothing DEF NothingOwed
    <3>2. \A t \in DOMAIN data.tables : data.tables[t].num_records \in Nat
      BY NumbersTyped DEF Tables
    <3> QED BY <2>3, <3>1, <3>2, FitsNothingOwed
  <2> QED BY <1>1, <2>1, <2>4 DEF CountBody, Opening
<1> QED
  BY <1>2, <1>3

(* What AddRows leaves of the catalog. *)
LEMMA AddedCatalog ==
    ASSUME TypeInv, NEW t \in Tables, NEW ks, NEW done, NEW s, NEW rest,
           AddsRows(t, ks, done, s, rest)
    PROVE  /\ DOMAIN data'.tables = Tables
           /\ \A u \in Tables :
                 /\ data'.tables[u].num_records = data.tables[u].num_records
                 /\ data'.tables[u].heap_relation_id = HeapOf(u)
                 /\ data'.tables[u].index_relation_id = IndexOf(u)
                 /\ data'.tables[u].life = LifeOf(u)
<1>1. CASE data' = data
  BY <1>1 DEF Tables, HeapOf, IndexOf, LifeOf
<1>2. CASE data' = WithRoots(s.root)
  <2>1. CatalogOK(data)
    BY NumbersTyped
  <2> QED BY <1>2, <2>1, RootedParts
<1> QED
  BY <1>1, <1>2 DEF AddsRows

LEMMA AddedCounts ==
    ASSUME TypeInv, CountBody, pc # "wiped", NothingOwed(todo),
           NEW t \in Tables, NEW ks, NEW done, NEW s, NEW rest,
           AddsRows(t, ks, done, s, rest),
           \/ NothingOwed(todo')
           \/ /\ \A u : Owed(todo', u) = IF u = t THEN 1 ELSE 0
              /\ Len(done) = 1
    PROVE  CountsFit(data', todo', heap')
<1>1. /\ DOMAIN data'.tables = Tables
      /\ \A u \in Tables : /\ data'.tables[u].num_records = data.tables[u].num_records
                           /\ data'.tables[u].heap_relation_id = HeapOf(u)
  BY AddedCatalog
<1>2. \A u \in Tables : /\ data.tables[u].num_records \in Nat
                        /\ heap[HeapOf(u)] \in Seq(SlotType)
                        /\ HeapOf(u) = data.tables[u].heap_relation_id /\ HeapOf(u) \in Relations
  BY NumbersTyped
<1>3. \A u \in Tables : data.tables[u].num_records <= Cardinality(Live(heap[HeapOf(u)]))
  <2>1. CountsFit(data, todo, heap)
    BY DEF CountBody
  <2> QED BY <1>2, <2>1, FitsNothingOwed DEF Tables
<1>4. Owned /\ StoreTyped(Store) /\ LifeOf(t) \in Nat
  BY TypedOwned
<1>5. /\ \A u \in Tables : u # t => heap'[HeapOf(u)] = heap[HeapOf(u)]
      /\ heap' \in [Relations -> Seq(SlotType)]
      /\ Live(heap[HeapOf(t)]) \subseteq Live(heap'[HeapOf(t)])
  <2>1. /\ AddedTo(Store, s, t, { done[i] : i \in 1 .. Len(done) })
        /\ heap' = s.heap /\ Store.heap = heap
    BY DEF AddsRows, Store
  <2>2. /\ \A r \in Relations : r # HeapOf(t) => heap'[r] = heap[r]
        /\ heap' \in [Relations -> Seq(SlotType)]
        /\ Live(heap[HeapOf(t)]) \subseteq Live(heap'[HeapOf(t)])
    BY <2>1 DEF AddedTo, SameElsewhere, StoreTyped
  <2>3. \A u \in Tables : u # t => HeapOf(u) \in Relations /\ HeapOf(u) # HeapOf(t)
    BY <1>2, <1>4 DEF Owned
  <2> QED BY <2>2, <2>3
<1>6. \A u \in Tables : /\ IsFiniteSet(Live(heap[HeapOf(u)])) /\ IsFiniteSet(Live(heap'[HeapOf(u)]))
                        /\ Cardinality(Live(heap[HeapOf(u)])) \in Nat
                        /\ Cardinality(Live(heap'[HeapOf(u)])) \in Nat
  BY <1>2, <1>5, LiveFinite
<1>7. \A u \in Tables : Cardinality(Live(heap[HeapOf(u)])) <= Cardinality(Live(heap'[HeapOf(u)]))
  <2>1. Cardinality(Live(heap[HeapOf(t)])) <= Cardinality(Live(heap'[HeapOf(t)]))
    BY <1>5, <1>6, FS_Subset
  <2> QED BY <1>5, <1>6, <2>1
<1>8. CASE NothingOwed(todo')
  <2>1. \A u \in Tables : data.tables[u].num_records <= Cardinality(Live(heap'[HeapOf(u)]))
    BY <1>2, <1>3, <1>6, <1>7
  <2> QED BY <1>1, <1>2, <1>8, <2>1, FitsNothingOwed
<1>9. CASE (\A u : Owed(todo', u) = IF u = t THEN 1 ELSE 0) /\ Len(done) = 1
  <2>1. Cardinality(Live(heap'[HeapOf(t)])) = Cardinality(Live(heap[HeapOf(t)])) + 1
    <3>1. done \in Seq(Keys) /\ s = Added(t, done) /\ heap' = s.heap
      BY DEF AddsRows
    <3>2. done[1] \in Keys /\ s = Inserted(Store, t, done[1], LifeOf(t))
      <4>0. Len(done) = 1
        BY <1>9
      <4>1. done[1] \in Keys /\ Len(done) = 1
        <5>1. done \in Seq(Keys) /\ 1 \in 1 .. Len(done)
          BY <3>1, <4>0
        <5> QED BY <4>0, <5>1
      <4>2. Added(t, done) = Inserted(Store, t, done[1], LifeOf(t))
        BY <1>4, <3>1, <4>1, AddedStore
      <4> QED BY <3>1, <4>1, <4>2
    <3>3. InsertedInto(Store, s, t, done[1], LifeOf(t))
      BY <1>4, <3>2, InsertedParts
    <3>4. InsertionKeeps(Store, s, t, done[1], LifeOf(t))
      BY <1>4, <3>2, <3>3, InsertedTable
    <3>5. Store.heap = heap
      BY DEF Store
    <3>6. /\ Live(heap'[HeapOf(t)]) = Live(heap[HeapOf(t)]) \union {Len(heap[HeapOf(t)]) + 1}
          /\ Len(heap[HeapOf(t)]) \in Nat
          /\ Live(heap[HeapOf(t)]) \subseteq 1 .. Len(heap[HeapOf(t)])
      BY <3>1, <3>4, <3>5 DEF InsertionKeeps
    <3>7. Len(heap[HeapOf(t)]) + 1 \notin Live(heap[HeapOf(t)])
      BY <3>6
    <3> QED BY <1>6, <3>6, <3>7, FS_AddElement
  <2>2. ASSUME NEW u \in Tables
        PROVE  After(data.tables[u].num_records, Owed(todo', u)) <= Cardinality(Live(heap'[HeapOf(u)]))
    <3>1. CASE u = t
      BY <1>2, <1>3, <1>6, <1>9, <2>1, <3>1 DEF After
    <3>2. CASE u # t
      <4>1. After(data.tables[u].num_records, Owed(todo', u)) = data.tables[u].num_records
        BY <1>2, <1>9, <3>2, AfterNothing
      <4> QED BY <1>3, <1>5, <3>2, <4>1
    <3> QED BY <3>1, <3>2
  <2> QED BY <1>1, <2>2 DEF CountsFit
<1> QED
  BY <1>8, <1>9

LEMMA IdleOwesNothing ==
    ASSUME TypeInv, pc = "idle" \/ Doing("demo") \/ Doing("commit") \/ Doing("truncate")
    PROVE  NothingOwed(todo) /\ ~Opening
<1>1. CASE pc = "idle"
  <2>1. todo = <<>>
    BY <1>1 DEF TypeInv, TodoTyped
  <2> QED BY <2>1, OwedNothing DEF NothingOwed, Opening
<1>2. CASE Doing("demo") \/ Doing("commit") \/ Doing("truncate")
  BY <1>2 DEF Doing, NothingOwed, Owed, Opening
<1> QED
  BY <1>1, <1>2

LEMMA InsertKeepsCount ==
    ASSUME TypeInv, CountBody, NEW t, NEW k \in Keys, Insert(t, k)
    PROVE  CountBody'
<1> DEFINE rest == << <<"count", t, 1>>, <<"commit", t, {k}>> >>
<1>1. pc = "idle" /\ t \in Tables
  BY InsertParts
<1>2. PICK done, s : AddsRows(t, <<k>>, done, s, rest)
  BY InsertParts
<1>3. NothingOwed(todo)
  BY <1>1, IdleOwesNothing
<1>4. \/ todo' = <<>> /\ pc' = "idle"
      \/ todo' = rest /\ pc' = "write" /\ done = <<k>>
  BY <1>2 DEF AddsRows
<1>5. CASE todo' = <<>> /\ pc' = "idle"
  <2>1. NothingOwed(todo') /\ ~Opening'
    BY <1>5, OwedNothing DEF NothingOwed, Opening
  <2>2. CountsFit(data', todo', heap')
    BY <1>1, <1>2, <1>3, <2>1, AddedCounts
  <2> QED BY <1>5, <2>1, <2>2 DEF CountBody
<1>6. CASE todo' = rest /\ pc' = "write" /\ done = <<k>>
  <2>1. (\A u : Owed(todo', u) = IF u = t THEN 1 ELSE 0) /\ Len(done) = 1
    BY <1>6, OwedOne
  <2>2. CountsFit(data', todo', heap')
    BY <1>1, <1>2, <1>3, <2>1, AddedCounts
  <2>3. ~Opening'
    BY <1>6 DEF Opening
  <2> QED BY <1>6, <2>2, <2>3 DEF CountBody
<1> QED
  BY <1>4, <1>5, <1>6

LEMMA DemoRowsKeepsCount == ASSUME TypeInv, CountBody, DemoRows PROVE CountBody'
<1>1. PICK ks, done, s : AddsRows(DemoTable, ks, done, s, DemoRest)
  BY DemoParts
<1>2. pc = "continue" /\ DemoTable \in Tables
  BY DemoParts
<1>3. NothingOwed(todo)
  BY IdleOwesNothing DEF DemoRows
<1>4. \/ todo' = <<>> /\ pc' = "idle"
      \/ todo' = DemoRest /\ pc' = "write"
  BY <1>1 DEF AddsRows
<1>5. NothingOwed(todo') /\ ~Opening'
  BY <1>4, OwedNothing DEF NothingOwed, Opening, DemoRest
<1>6. CountsFit(data', todo', heap')
  BY <1>1, <1>2, <1>3, <1>5, AddedCounts
<1> QED
  BY <1>4, <1>5, <1>6 DEF CountBody

LEMMA CreateKeepsCount ==
    ASSUME TypeInv, CountBody, NEW t, NEW rest, CreateThen(t, rest),
           rest = <<>> \/ rest = << <<"demo", DemoTable>> >>, TypeInv'
    PROVE  CountBody'
<1>1. /\ pc = "idle" /\ pc' = "write" /\ todo' = rest /\ data' = Created(t) /\ heap' = heap
      /\ t \notin Tables
  BY DEF CreateThen, Change, relationVars, pageVars
<1>2. NothingOwed(todo) /\ NothingOwed(todo') /\ ~Opening'
  BY <1>1, IdleOwesNothing, OwedNothing DEF NothingOwed, Opening
<1>3. /\ DOMAIN data'.tables = Tables \union {t}
      /\ data'.tables[t].num_records = 0
      /\ \A u \in Tables : data'.tables[u] = data.tables[u]
  BY <1>1 DEF Created, With, NewTable
<1>4. \A u \in DOMAIN data'.tables :
          /\ data'.tables[u].num_records \in Nat
          /\ heap'[data'.tables[u].heap_relation_id] \in Seq(SlotType)
  BY DEF TypeInv, TablesAllTyped, TablesTyped, PagesTyped
<1>5. \A u \in Tables :
          data.tables[u].num_records <= Cardinality(Live(heap[data.tables[u].heap_relation_id]))
  <2>1. CountsFit(data, todo, heap)
    BY <1>1 DEF CountBody
  <2> QED BY <1>2, <2>1, NumbersTyped, FitsNothingOwed DEF Tables
<1>6. \A u \in DOMAIN data'.tables :
          data'.tables[u].num_records <= Cardinality(Live(heap'[data'.tables[u].heap_relation_id]))
  <2>1. 0 <= Cardinality(Live(heap'[data'.tables[t].heap_relation_id]))
    <3>1. Cardinality(Live(heap'[data'.tables[t].heap_relation_id])) \in Nat
      BY <1>3, <1>4, LiveFinite
    <3> QED BY <3>1
  <2> QED BY <1>1, <1>3, <1>5, <2>1
<1>7. CountsFit(data', todo', heap')
  BY <1>2, <1>4, <1>6, FitsNothingOwed
<1> QED
  BY <1>1, <1>2, <1>7 DEF CountBody

LEMMA DropKeepsCount == ASSUME TypeInv, CountBody, NEW t, Drop(t) PROVE CountBody'
<1>1. /\ pc = "idle" /\ pc' = "write" /\ todo' = <<>> /\ heap' = heap
      /\ data' = [data EXCEPT !.tables = Without(t)]
  BY DEF Drop, Change, relationVars, pageVars
<1>2. NothingOwed(todo) /\ NothingOwed(todo') /\ ~Opening'
  BY <1>1, IdleOwesNothing, OwedNothing DEF NothingOwed, Opening
<1>3. data'.tables = Without(t)
  BY <1>1, NumbersTyped DEF CatalogOK
<1>4. DOMAIN data'.tables \subseteq Tables
      /\ \A u \in DOMAIN data'.tables : data'.tables[u] = data.tables[u]
  BY <1>3 DEF Without
<1>5. CountsFit(data, todo, heap)
  BY <1>1 DEF CountBody
<1>6. CountsFit(data', todo', heap')
  BY <1>1, <1>2, <1>4, <1>5 DEF CountsFit, NothingOwed, Tables
<1> QED
  BY <1>1, <1>2, <1>6 DEF CountBody

LEMMA CountKeepsCount == ASSUME TypeInv, CountBody, Count PROVE CountBody'
<1>1. PICK t \in Tables, n \in Int, ks \in SUBSET Keys :
              /\ CountingThen(t, n, ks) /\ pc = "continue" /\ pc' = "write"
              /\ todo' = << <<"commit", t, ks>> >>
              /\ data' = WithCount(t, CountNow(t, n)) /\ CountNow(t, n) \in Nat
              /\ UNCHANGED <<saveVars, relationVars, count, historyVars>>
  BY CountParts
<1>2. NothingOwed(todo') /\ ~Opening' /\ heap' = heap
  BY <1>1, OwedNothing DEF NothingOwed, Opening, relationVars, pageVars
<1>3. \A u : Owed(todo, u) = IF u = t THEN n ELSE 0
  BY <1>1, OwedOne DEF CountingThen
<1>4. CountsFit(data, todo, heap)
  BY <1>1 DEF CountBody
<1>5. /\ DOMAIN data'.tables = Tables
      /\ \A u \in Tables :
            /\ data'.tables[u].heap_relation_id = HeapOf(u)
            /\ data'.tables[u].num_records = IF u = t THEN CountNow(t, n) ELSE data.tables[u].num_records
  BY <1>1, NumbersTyped, CountedParts
<1>6. \A u \in Tables : /\ data'.tables[u].num_records = After(data.tables[u].num_records, Owed(todo, u))
                        /\ data'.tables[u].num_records \in Nat
  BY <1>1, <1>3, <1>5, NumbersTyped, AfterNothing DEF CountNow
<1>7. \A u \in DOMAIN data'.tables :
          data'.tables[u].num_records <= Cardinality(Live(heap'[data'.tables[u].heap_relation_id]))
  BY <1>2, <1>4, <1>5, <1>6, NumbersTyped DEF CountsFit, Tables
<1>8. CountsFit(data', todo', heap')
  BY <1>2, <1>5, <1>6, <1>7, FitsNothingOwed
<1> QED
  BY <1>1, <1>2, <1>8 DEF CountBody

LEMMA DeleteKeepsCount ==
    ASSUME TypeInv, CountBody, NEW t \in Tables, NEW ks \in SUBSET Keys, Delete(t, ks)
    PROVE  CountBody'
<1>1. PICK hit, recs : DeletesRows(t, ks, hit, recs)
  BY DeleteParts
<1>2. /\ pc = "idle" /\ pc' = "continue" /\ data' = data
      /\ Len(recs) \in Nat /\ IsFiniteSet(hit) /\ Cardinality(hit) = Len(recs)
      /\ Live(heap'[HeapOf(t)]) = Live(heap[HeapOf(t)]) \ hit /\ hit \subseteq Live(heap[HeapOf(t)])
      /\ \A r \in Relations : r # HeapOf(t) => heap'[r] = heap[r]
  BY <1>1 DEF DeletesRows
<1>3. NothingOwed(todo)
  BY <1>2, IdleOwesNothing
<1>4. \A u \in Tables : /\ data.tables[u].num_records \in Nat
                        /\ heap[HeapOf(u)] \in Seq(SlotType)
                        /\ HeapOf(u) = data.tables[u].heap_relation_id /\ HeapOf(u) \in Relations
                        /\ u # t => HeapOf(u) # HeapOf(t)
  BY NumbersTyped, TypedOwned DEF Owned
<1>5. \A u \in Tables : data.tables[u].num_records <= Cardinality(Live(heap[HeapOf(u)]))
  <2>1. CountsFit(data, todo, heap)
    BY <1>2 DEF CountBody
  <2> QED BY <1>3, <1>4, <2>1, FitsNothingOwed DEF Tables
<1>6. IsFiniteSet(Live(heap[HeapOf(t)])) /\ Cardinality(Live(heap[HeapOf(t)])) \in Nat
  BY <1>4, LiveFinite
<1>7. Cardinality(Live(heap'[HeapOf(t)])) = Cardinality(Live(heap[HeapOf(t)])) - Len(recs)
  BY <1>2, <1>6, FewerCardinality
<1>8. Len(recs) <= Cardinality(Live(heap[HeapOf(t)]))
  BY <1>2, <1>6, FS_Subset
<1>9. ~Opening' /\ \A u : Owed(todo', u) = IF u = t THEN -Len(recs) ELSE 0
  <2>1. CASE recs = <<>> /\ todo' = << <<"commit", t, {}>> >>
    BY <2>1, OwedNothing DEF Opening
  <2>2. CASE todo' = << <<"count", t, -Len(recs)>>, <<"commit", t, {}>> >>
    BY <2>2, OwedOne DEF Opening
  <2> QED BY <1>1, <2>1, <2>2 DEF DeletesRows
<1>10. ASSUME NEW u \in Tables
       PROVE  After(data.tables[u].num_records, Owed(todo', u)) <= Cardinality(Live(heap'[HeapOf(u)]))
  <2>1. CASE u = t
    <3> DEFINE num == data.tables[t].num_records
               n == Len(recs)
               c == Cardinality(Live(heap[HeapOf(t)]))
    <3>1. num \in Nat /\ n \in Nat /\ c \in Nat /\ num <= c /\ n <= c
      BY <1>2, <1>4, <1>5, <1>6, <1>8
    <3>2. Cardinality(Live(heap'[HeapOf(t)])) = c - n /\ Owed(todo', t) = -n
      BY <1>7, <1>9
    <3> HIDE DEF num, n, c
    <3>3. After(num, -n) <= c - n
      BY <3>1, AfterFewer
    <3> QED BY <2>1, <3>2, <3>3 DEF num
  <2>2. CASE u # t
    <3>1. heap'[HeapOf(u)] = heap[HeapOf(u)]
      BY <1>2, <1>4, <2>2
    <3>2. After(data.tables[u].num_records, Owed(todo', u)) = data.tables[u].num_records
      BY <1>4, <1>9, <2>2, AfterNothing
    <3> QED BY <1>5, <3>1, <3>2
  <2> QED BY <2>1, <2>2
<1>11. CountsFit(data', todo', heap')
  BY <1>2, <1>4, <1>10 DEF CountsFit, Tables
<1> QED
  BY <1>2, <1>9, <1>11 DEF CountBody

LEMMA NoTablesFit == ASSUME NEW td, NEW h PROVE CountsFit(EmptyCatalog, td, h)
BY DEF CountsFit, EmptyCatalog

(* Steps to and from the rest of a statement that owe nothing. *)
LEMMA RestKeepsCount ==
    ASSUME TypeInv, CountBody,
           Commit \/ Checkpoint \/ Truncate \/ (Demo /\ UNCHANGED <<data, heap>>)
    PROVE  CountBody'
<1>1. NothingOwed(todo) /\ ~Opening /\ pc \in {"idle", "continue"}
  BY IdleOwesNothing DEF Commit, Checkpoint, Truncate, Demo, CreateThen, Doing
<1>2. UNCHANGED <<data, heap>> /\ pc' \in {"idle", "continue", "write"}
  BY DEF Commit, Checkpoint, Truncate, Demo, CreateThen, Change, pageVars
<1>3. todo' \in { <<>>, << <<"truncate">> >>, << <<"demo", DemoTable>> >> }
  BY DEF Commit, Checkpoint, Truncate, Demo, CreateThen, Change
<1>4. NothingOwed(todo') /\ ~Opening'
  BY <1>3, OwedNothing DEF NothingOwed, Opening
<1>5. CountsFit(data, todo, heap)'
  BY <1>1, <1>2, <1>4, SameCounts
<1> QED
  BY <1>2, <1>4, <1>5 DEF CountBody

LEMMA OpenKeepsCount ==
    ASSUME CountBody, pc \in {"down", "wiped"}, NEW rest, Open(rest),
           UNCHANGED <<saveVars, relationVars>>
    PROVE  CountBody'
<1>1. Blank /\ Blank'
  BY DEF CountBody, Blank, saveVars, relationVars, pageVars, fileVars
<1>2. data' = EmptyCatalog /\ pc' \in {"write", "continue"}
  BY <1>1 DEF Open, Change, Blank
<1>3. CountsFit(data', todo', heap')
  BY <1>2, NoTablesFit
<1> QED
  BY <1>1, <1>2, <1>3 DEF CountBody

LEMMA RecoverKeepsCount == ASSUME TypeInv, CountBody, Recover PROVE CountBody'
<1>1. Opening /\ Blank /\ data = EmptyCatalog
  <2>1. todo = << <<"recover">> >>
    BY RecoverParts
  <2> QED BY <2>1 DEF CountBody, Opening
<1>2. Tables = {} /\ log_file = <<>>
  BY <1>1 DEF Tables, EmptyCatalog, Blank
<1>3. ~Panics /\ Replayed = Rebuilt
  <2>1. Len(log_file) = 0 /\ DOMAIN log_file = {}
    BY <1>2
  <2>2. Replayed = Rebuilt
    BY <2>1, ReplayedSteps
  <2> QED BY <2>1, <2>2 DEF Panics
<1>4. pc' = "idle" /\ todo' = <<>> /\ data' = data
  BY <1>3 DEF Recover
<1>5. CountsFit(data', todo', heap')
  BY <1>1, <1>4, NoTablesFit
<1> QED
  BY <1>4, <1>5 DEF CountBody, Opening

LEMMA NextKeepsCount ==
    TypeInv /\ SaveInv /\ TypeInv' /\ CountInv /\ [Next]_vars => CountInv'
<1> SUFFICES ASSUME TypeInv, SaveInv, TypeInv', CountInv, [Next]_vars, CountHyp' PROVE CountBody'
  BY CountInvParts DEF CountInv, CountHyp, CountBody
<1>0. CountBody /\ ~Crash
  BY CountHypStays, CountInvParts
<1>1. CASE UNCHANGED vars
  BY <1>0, <1>1 DEF CountBody, Opening, Blank, vars, saveVars, relationVars, pageVars, fileVars
<1>2. CASE WriteTemp \/ WriteTempShort \/ Rename \/ SaveFails
  BY <1>0, <1>2, SaveKeepsCount, SaveFailsKeepsCount
<1>3. ASSUME NEW t \in Names, Create(t) \/ Drop(t) PROVE CountBody'
  BY <1>0, <1>3, CreateKeepsCount, DropKeepsCount DEF Create
<1>4. ASSUME NEW t \in Names, NEW k \in Keys, Insert(t, k) PROVE CountBody'
  BY <1>0, <1>4, InsertKeepsCount
<1>5. ASSUME NEW t \in Tables, NEW ks \in { {k} : k \in Keys } \union {Keys}, Delete(t, ks)
      PROVE  CountBody'
  BY <1>0, <1>5, DeletedKeys, DeleteKeepsCount
<1>6. CASE Demo
  <2>1. CASE CreateThen(DemoTable, << <<"demo", DemoTable>> >>)
    BY <1>0, <2>1, CreateKeepsCount
  <2>2. CASE UNCHANGED <<data, heap>>
    BY <1>0, <1>6, <2>2, RestKeepsCount
  <2> QED BY <1>6, <2>1, <2>2 DEF Demo, relationVars, pageVars
<1>7. CASE DemoRows \/ Count
  BY <1>0, <1>7, DemoRowsKeepsCount, CountKeepsCount
<1>8. CASE Commit \/ Checkpoint \/ Truncate
  BY <1>0, <1>8, RestKeepsCount
<1>9. CASE Start \/ Reopen
  BY <1>0, <1>9, OpenKeepsCount DEF Start, Reopen
<1>10. CASE Recover
  BY <1>0, <1>10, RecoverKeepsCount
<1>11. CASE Opened
  <2>1. data' = data /\ pc' = "idle" /\ todo' = <<>>
        /\ Head(todo)[1] = "opened" /\ pc = "continue"
    BY <1>11 DEF Opened, Doing
  <2>3. todo # <<>>
    BY <2>1 DEF TypeInv, TodoTyped, Committing, CountingThen
  <2>2. data' = EmptyCatalog
    BY <1>0, <2>1, <2>3 DEF CountBody, Opening
  <2> QED BY <2>1, <2>2, NoTablesFit DEF CountBody, Opening
<1>12. ASSUME NEW kept, Wipe(kept) PROVE CountBody'
  <2>1. kept = {}
    BY <1>12 DEF Wipe, CountHyp
  <2>2. Blank' /\ pc' = "wiped" /\ todo' = <<>>
    BY <1>12, <2>1 DEF Wipe, Blank, NoFile
  <2> QED BY <2>2 DEF CountBody, Opening
<1> QED
  BY <1>0, <1>1, <1>2, <1>3, <1>4, <1>5, <1>6, <1>7, <1>8, <1>9, <1>10, <1>11, <1>12 DEF Next

LEMMA CountInvariant == Spec => []CountInv
<1>1. Init => CountInv
  BY NoTablesFit DEF Init, CountInv, Opening, Blank, NoFile
<1> QED
  BY <1>1, NextKeepsCount, TypeInvariant, SaveInvariant, PTL DEF Spec

(***************************************************************************)
(* Until a crash, and unless a .reset was incomplete, the number of        *)
(* records a table has in the catalog is a number, and at most that of its *)
(* rows, however statements that count (INSERT, DELETE), one that does not *)
(* (.demo) and saves that fail follow each other (catalog.rs               *)
(* update_num_records).                                                    *)
(***************************************************************************)
THEOREM CountNeverTooHigh == Spec => []CountIsNeverTooHigh
<1>1. TypeInv /\ CountInv => CountIsNeverTooHigh
  <2> SUFFICES ASSUME TypeInv, CountInv, pc = "idle", CountHyp, NEW t \in Tables
               PROVE  data.tables[t].num_records \in 0 .. Cardinality(Live(heap[HeapOf(t)]))
    BY DEF CountIsNeverTooHigh, CountHyp
  <2>1. CountsFit(data, todo, heap)
    BY CountInvParts DEF CountBody
  <2>2. NothingOwed(todo)
    BY IdleOwesNothing
  <2>3. /\ data.tables[t].num_records \in Nat
        /\ heap[HeapOf(t)] \in Seq(SlotType)
        /\ \A u \in DOMAIN data.tables : data.tables[u].num_records \in Nat
    BY NumbersTyped DEF Tables
  <2>4. data.tables[t].num_records <= Cardinality(Live(heap[HeapOf(t)]))
    BY <2>1, <2>2, <2>3, FitsNothingOwed DEF Tables, HeapOf
  <2>5. Cardinality(Live(heap[HeapOf(t)])) \in Nat
    BY <2>3, LiveFinite
  <2> QED BY <2>3, <2>4, <2>5
<1> QED
  BY <1>1, TypeInvariant, CountInvariant, PTL

-----------------------------------------------------------------------------
(* The rows: logs that are joined *)

LEMMA JoinedLog ==
    ASSUME NEW l \in Seq(RecordType), NEW r \in Seq(RecordType), NEW t, NEW k
    PROVE  /\ Mentions(l \o r, t, k) => Mentions(l, t, k) \/ Mentions(r, t, k)
           /\ Mentions(l, t, k) => Mentions(l \o r, t, k)
           /\ EndsInInsert(r, t, k) => EndsInInsert(l \o r, t, k)
           /\ EndsInInsert(l, t, k) /\ ~Mentions(r, t, k) => EndsInInsert(l \o r, t, k)
           /\ \A life : RecordsAre(l \o r, t, life) <=>
                           RecordsAre(l, t, life) /\ RecordsAre(r, t, life)
<1> DEFINE j == l \o r
           m == Len(l)
           n == Len(r)
<1>1. /\ m \in Nat /\ n \in Nat
      /\ DOMAIN l = 1 .. m /\ DOMAIN r = 1 .. n /\ DOMAIN j = 1 .. m + n
      /\ \A i \in 1 .. m : j[i] = l[i]
      /\ \A i \in 1 .. n : j[m + i] = r[i]
      /\ \A i \in 1 .. m + n : i \in 1 .. m \/ (i - m \in 1 .. n /\ j[i] = r[i - m])
  <2>1. /\ l \o r \in Seq(RecordType) /\ Len(l \o r) = Len(l) + Len(r)
        /\ \A i \in 1 .. Len(l) : (l \o r)[i] = l[i]
        /\ \A i \in 1 .. Len(r) : (l \o r)[Len(l) + i] = r[i]
        /\ \A i \in 1 .. Len(l) + Len(r) :
              i \in 1 .. Len(l) \/ (i - Len(l) \in 1 .. Len(r) /\ (l \o r)[i] = r[i - Len(l)])
        /\ Len(l) \in Nat /\ Len(r) \in Nat
    BY ConcatEntries
  <2>2. DOMAIN (l \o r) = 1 .. Len(l \o r)
    BY <2>1
  <2> QED BY <2>1, <2>2
<1> HIDE DEF j, m, n
<1>2. \A i \in 1 .. m : i \in 1 .. m + n
  BY <1>1
<1>3. \A i \in 1 .. n : m + i \in 1 .. m + n
  BY <1>1
<1>4. Mentions(j, t, k) => Mentions(l, t, k) \/ Mentions(r, t, k)
  BY <1>1 DEF Mentions
<1>5. Mentions(l, t, k) => Mentions(j, t, k)
  BY <1>1, <1>2 DEF Mentions
<1>6. EndsInInsert(r, t, k) => EndsInInsert(j, t, k)
  <2> SUFFICES ASSUME NEW i \in 1 .. n, On(r[i], t, k), r[i].op = "insert",
                      \A x \in 1 .. n : x > i => ~On(r[x], t, k)
               PROVE  EndsInInsert(j, t, k)
    BY <1>1 DEF EndsInInsert
  <2>1. ASSUME NEW x \in 1 .. m + n, x > m + i PROVE ~On(j[x], t, k)
    <3>1. x \notin 1 .. m /\ x - m > i
      BY <1>1, <2>1
    <3>2. x - m \in 1 .. n /\ j[x] = r[x - m]
      BY <1>1, <3>1
    <3> QED BY <3>1, <3>2
  <2>2. m + i \in 1 .. m + n /\ j[m + i] = r[i]
    BY <1>1, <1>3
  <2> QED BY <1>1, <2>1, <2>2 DEF EndsInInsert
<1>7. EndsInInsert(l, t, k) /\ ~Mentions(r, t, k) => EndsInInsert(j, t, k)
  <2> SUFFICES ASSUME NEW i \in 1 .. m, On(l[i], t, k), l[i].op = "insert",
                      \A x \in 1 .. m : x > i => ~On(l[x], t, k),
                      \A x \in 1 .. n : ~On(r[x], t, k)
               PROVE  EndsInInsert(j, t, k)
    BY <1>1 DEF EndsInInsert, Mentions
  <2>1. ASSUME NEW x \in 1 .. m + n, x > i PROVE ~On(j[x], t, k)
    <3>1. CASE x \in 1 .. m
      BY <1>1, <2>1, <3>1
    <3>2. CASE x \notin 1 .. m
      BY <1>1, <3>2
    <3> QED BY <3>1, <3>2
  <2>2. i \in 1 .. m + n /\ j[i] = l[i]
    BY <1>1, <1>2
  <2> QED BY <1>1, <2>1, <2>2 DEF EndsInInsert
<1>8. ASSUME NEW life
      PROVE  RecordsAre(j, t, life) <=> RecordsAre(l, t, life) /\ RecordsAre(r, t, life)
  <2>1. RecordsAre(j, t, life) => RecordsAre(l, t, life)
    BY <1>1, <1>2 DEF RecordsAre
  <2>2. ASSUME RecordsAre(j, t, life), NEW i \in 1 .. n, r[i].table = t
        PROVE  r[i].life = life
    <3>1. m + i \in 1 .. m + n /\ j[m + i] = r[i]
      BY <1>1, <1>3
    <3> QED BY <1>1, <2>2, <3>1 DEF RecordsAre
  <2>3. ASSUME RecordsAre(l, t, life), RecordsAre(r, t, life), NEW i \in 1 .. m + n,
               j[i].table = t
        PROVE  j[i].life = life
    <3>1. CASE i \in 1 .. m
      BY <1>1, <2>3, <3>1 DEF RecordsAre
    <3>2. CASE i - m \in 1 .. n /\ j[i] = r[i - m]
      BY <1>1, <2>3, <3>2 DEF RecordsAre
    <3> QED BY <1>1, <3>1, <3>2
  <2>4. RecordsAre(j, t, life) => RecordsAre(r, t, life)
    BY <1>1, <2>2 DEF RecordsAre
  <2>5. RecordsAre(l, t, life) /\ RecordsAre(r, t, life) => RecordsAre(j, t, life)
    BY <1>1, <2>3 DEF RecordsAre
  <2> QED BY <2>1, <2>4, <2>5
<1> QED
  BY <1>4, <1>5, <1>6, <1>7, <1>8 DEF j

LEMMA EmptyLog ==
    /\ \A l \in Seq(RecordType) : l \o <<>> = l
    /\ \A t, k : ~Mentions(<<>>, t, k)
    /\ \A t, life : RecordsAre(<<>>, t, life)
BY DEF Mentions, RecordsAre

(* The log with records that are appended to its buffer. *)
LEMMA GrownLog ==
    ASSUME NEW l \in Seq(RecordType), NEW b \in Seq(RecordType), NEW r \in Seq(RecordType)
    PROVE  l \o (b \o r) = (l \o b) \o r
OBVIOUS

(* What survives a recovery still does with more records of other keys.    *)
LEMMA StillSurvives ==
    ASSUME NEW l \in Seq(RecordType), NEW r \in Seq(RecordType), NEW t, NEW k,
           NEW m, NEW ix, NEW h, Survives(l, t, m, ix, h, k), ~Mentions(r, t, k)
    PROVE  Survives(l \o r, t, m, ix, h, k)
BY JoinedLog DEF Survives

-----------------------------------------------------------------------------
(* The rows: what is promised, what is found *)

LEMMA DueNothing ==
    ASSUME NEW t
    PROVE  /\ Due(<<>>, t) = {}
           /\ \A u : Due(<< <<"demo", u>> >>, t) = {}
           /\ Due(<< <<"truncate">> >>, t) = {}
           /\ Due(<< <<"recover">> >>, t) = {}
           /\ Due(<< <<"opened">> >>, t) = {}
BY DEF Due

LEMMA DueKeys ==
    ASSUME NEW t, NEW u, NEW n, NEW ks
    PROVE  /\ Due(<< <<"commit", u, ks>> >>, t) = IF u = t THEN ks ELSE {}
           /\ Due(<< <<"count", u, n>>, <<"commit", u, ks>> >>, t) = IF u = t THEN ks ELSE {}
BY DEF Due

(* The store and the tables, with the names the invariant has for them.    *)
LEMMA RowsTyped ==
    ASSUME TypeInv
    PROVE  /\ log_file \in Seq(RecordType) /\ log_buffer \in Seq(RecordType)
           /\ Log \in Seq(RecordType)
           /\ Tables = DOMAIN data.tables
           /\ \A t \in Tables :
                 /\ data.tables[t].heap_relation_id = HeapOf(t)
                 /\ data.tables[t].index_relation_id = IndexOf(t)
                 /\ data.tables[t].life = LifeOf(t)
                 /\ Store.root[t] = data.tables[t].root_page_num
                 /\ \A k : Found(Store, t, k) <=> FoundIn(data.tables[t], index, k)
<1>1. log_file \in Seq(RecordType) /\ log_buffer \in Seq(RecordType)
  BY DEF TypeInv, LogsTyped
<1>2. Log \in Seq(RecordType)
  BY <1>1 DEF Log
<1>3. Tables = DOMAIN data.tables
  BY DEF Tables
<1>4. ASSUME NEW t \in Tables
      PROVE  /\ data.tables[t].heap_relation_id = HeapOf(t)
             /\ data.tables[t].index_relation_id = IndexOf(t)
             /\ data.tables[t].life = LifeOf(t)
  BY DEF HeapOf, IndexOf, LifeOf
<1>5. Store.index = index /\ \A t \in Tables : Store.root[t] = data.tables[t].root_page_num
  BY DEF Store
<1>6. ASSUME NEW t \in Tables, NEW k
      PROVE  Found(Store, t, k) <=> FoundIn(data.tables[t], index, k)
  BY <1>4, <1>5 DEF Found, FoundIn
<1> QED
  BY <1>1, <1>2, <1>3, <1>4, <1>5, <1>6

(* A step that moves on without touching tables, rows or promises.         *)
LEMMA SameRows ==
    ASSUME RowsBody, UNCHANGED <<data, catalog_file, relationVars, stale, promised>>,
           pc' \in {"write", "rename"} => pc \in {"write", "rename"},
           pc' = "down" => pc = "down", pc' = "wiped" => pc = "wiped",
           todo' \in {<< <<"recover">> >>, << <<"truncate">> >>} => todo' = todo,
           Recovered' => Recovered /\ \A t \in Tables : Due(todo', t) \subseteq Due(todo, t)
    PROVE  RowsBody'
<1> USE DEF relationVars, pageVars, fileVars
<1>1. Tables' = Tables /\ FileTables' = FileTables /\ Log' = Log
  BY DEF Tables, FileTables, Log
<1>2. FilesAgree' /\ FilesSound' /\ FilesKept' /\ MemorySound'
  BY <1>1 DEF RowsBody, FilesAgree, FilesSound, FilesKept, MemorySound, LifeOf
<1>3. MemoryIsFiles'
  BY <1>1 DEF RowsBody, MemoryIsFiles
<1>4. MemoryKept'
  <2> SUFFICES ASSUME Recovered', NEW t \in Tables \ stale
               PROVE  Kept(t, data.tables[t], index, index_disk, heap_disk, Log,
                           promised[LifeOf(t)] \union Due(todo', t))
    BY <1>1 DEF MemoryKept, LifeOf
  <2>1. Kept(t, data.tables[t], index, index_disk, heap_disk, Log,
             promised[LifeOf(t)] \union Due(todo, t))
    BY DEF RowsBody, MemoryKept
  <2> QED BY <2>1 DEF Kept
<1> QED
  BY <1>2, <1>3, <1>4 DEF RowsBody

LEMMA WriteKeepsRows ==
    ASSUME RowsBody, WriteTemp \/ WriteTempShort
    PROVE  RowsBody'
<1>1. /\ UNCHANGED <<data, catalog_file, relationVars, stale, promised, todo>>
      /\ pc = "write" /\ pc' = "rename"
  BY DEF WriteTemp, WriteTempShort, historyVars
<1> QED
  BY <1>1, SameRows DEF Recovered

LEMMA OpenedKeepsRows == ASSUME TypeInv, RowsBody, Opened PROVE RowsBody'
<1>1. /\ UNCHANGED <<data, catalog_file, relationVars, stale, promised>>
      /\ pc = "continue" /\ pc' = "idle" /\ todo' = <<>> /\ Head(todo)[1] = "opened"
  BY DEF Opened, Doing, saveVars, historyVars
<1>2. todo # << <<"recover">> >> /\ todo' # << <<"recover">> >> /\ todo' # << <<"truncate">> >>
  BY <1>1
<1> QED
  BY <1>1, <1>2, DueNothing, SameRows DEF Recovered

LEMMA DemoKeepsRows ==
    ASSUME TypeInv, RowsBody, pc = "idle", pc' = "continue",
           todo' = << <<"demo", DemoTable>> >>,
           UNCHANGED <<data, saveVars, relationVars, count, historyVars>>
    PROVE  RowsBody'
<1>1. UNCHANGED <<data, catalog_file, relationVars, stale, promised>>
  BY DEF saveVars, historyVars
<1>2. todo = <<>>
  BY DEF TypeInv, TodoTyped
<1>3. todo # << <<"recover">> >> /\ todo' # << <<"recover">> >> /\ todo' # << <<"truncate">> >>
  BY <1>2
<1> QED
  BY <1>1, <1>3, DueNothing, SameRows DEF Recovered

LEMMA RenameKeepsRows ==
    ASSUME TypeInv, SaveInv, RowsBody, Rename, Harmless'
    PROVE  RowsBody'
<1>1. /\ pc = "rename" /\ pc' \in {"idle", "continue"}
      /\ catalog_file' = temp_file
      /\ UNCHANGED <<data, relationVars, todo, stale, promised>>
  BY DEF Rename
<1>2. temp_file = Whole(data)
  BY DEF SaveInv, Rename, Harmless
<1>3. /\ FileTables' = data.tables /\ Tables' = Tables /\ Log' = Log
      /\ Tables = DOMAIN data.tables
  BY <1>1, <1>2 DEF FileTables, Whole, Tables, Log, relationVars, fileVars
<1> USE DEF relationVars, pageVars, fileVars
<1>4. FilesAgree' /\ MemorySound' /\ MemoryIsFiles' /\ MemoryKept'
  BY <1>1, <1>3 DEF RowsBody, FilesAgree, MemorySound, MemoryIsFiles, MemoryKept, Recovered, LifeOf
<1>5. FilesSound'
  <2> SUFFICES ASSUME NEW t \in Tables
               PROVE  Sound(t, data.tables[t], heap_disk, heap_disk, index_disk, index_disk,
                            Log, stale)
    BY <1>1, <1>3 DEF FilesSound
  <2>1. Sound(t, data.tables[t], heap, heap_disk, index, index_disk, Log, stale)
    BY DEF RowsBody, MemorySound
  <2> QED BY <2>1 DEF Sound, Own
<1>6. FilesKept'
  <2> SUFFICES ASSUME NEW t \in Tables \ stale, NEW k \in promised[data.tables[t].life]
               PROVE  Survives(log_file, t, data.tables[t], index_disk, heap_disk, k)
    BY <1>1, <1>3 DEF FilesKept
  <2>1. t \in DOMAIN FileTables /\ Agree(data.tables[t], FileTables[t])
    BY <1>1 DEF RowsBody, FilesAgree, LifeOf
  <2>2. Survives(log_file, t, FileTables[t], index_disk, heap_disk, k)
    BY <2>1 DEF RowsBody, FilesKept, Agree
  <2> QED BY <2>1, <2>2 DEF Survives, InFiles, Agree
<1> QED
  BY <1>4, <1>5, <1>6 DEF RowsBody

-----------------------------------------------------------------------------
(* The rows: statements *)

(* Between statements, and in them, the file has the tables of memory.     *)
LEMMA FilesOutside ==
    ASSUME TypeInv, SaveInv, Harmless, pc \in {"idle", "continue", "panicked"},
           UNCHANGED catalog_file
    PROVE  /\ FileTables = data.tables /\ FileTables' = data.tables
           /\ DOMAIN FileTables = Tables /\ DOMAIN FileTables' = Tables
<1>1. FileTables = data.tables /\ DOMAIN FileTables = Tables
  BY SavedOutside
<1>2. FileTables' = FileTables
  BY DEF FileTables
<1> QED
  BY <1>1, <1>2

(* What such a step does, table by table.                                  *)
LEMMA RowsStep ==
    ASSUME TypeInv, SaveInv, Harmless, pc \in {"idle", "continue"}, UNCHANGED catalog_file,
           pc' \notin {"down", "wiped"}, todo' # << <<"recover">> >>,
           todo' = << <<"truncate">> >> =>
              heap' = heap_disk' /\ index' = index_disk' /\ log_buffer' = <<>>,
           \A t \in Tables' :
              IF t \in Tables THEN Agree(data'.tables[t], data.tables[t])
              ELSE promised'[data'.tables[t].life] = {},
           \A t \in Tables' :
              Sound(t, data'.tables[t], heap', heap_disk', index', index_disk', Log', stale'),
           \A t \in Tables :
              Sound(t, data.tables[t], heap_disk', heap_disk', index_disk', index_disk', Log', stale'),
           \A t \in Tables' \ stale' :
              Kept(t, data'.tables[t], index', index_disk', heap_disk', Log',
                   promised'[data'.tables[t].life] \union Due(todo', t)),
           \A t \in Tables \ stale' : \A k \in promised'[data.tables[t].life] :
              Survives(log_file', t, data.tables[t], index_disk', heap_disk', k)
    PROVE  RowsBody'
<1>1. FileTables' = data.tables /\ DOMAIN FileTables' = Tables
  BY FilesOutside
<1>2. FilesAgree'
  BY <1>1 DEF FilesAgree, LifeOf
<1>3. MemoryIsFiles'
  BY DEF MemoryIsFiles
<1>4. MemorySound'
  BY DEF MemorySound
<1>5. FilesSound'
  BY <1>1 DEF FilesSound
<1>6. MemoryKept'
  BY DEF MemoryKept, LifeOf
<1>7. FilesKept'
  BY <1>1 DEF FilesKept
<1> QED
  BY <1>2, <1>3, <1>4, <1>5, <1>6, <1>7 DEF RowsBody

(* What the invariant says of a table when such a step is taken.           *)
LEMMA RowsBefore ==
    ASSUME TypeInv, SaveInv, Harmless, pc \in {"idle", "continue"}, RowsBody,
           todo # << <<"recover">> >>, NEW t \in Tables
    PROVE  /\ Sound(t, data.tables[t], heap, heap_disk, index, index_disk, Log, stale)
           /\ Valid(data.tables[t], index, heap) /\ Valid(data.tables[t], index_disk, heap_disk)
           /\ Sound(t, data.tables[t], heap_disk, heap_disk, index_disk, index_disk, Log, stale)
           /\ t \notin stale =>
                 /\ Own(t, data.tables[t], heap, heap_disk, Log)
                 /\ Kept(t, data.tables[t], index, index_disk, heap_disk, Log,
                         promised[LifeOf(t)] \union Due(todo, t))
                 /\ \A k \in promised[LifeOf(t)] :
                       Survives(log_file, t, data.tables[t], index_disk, heap_disk, k)
<1>1. FileTables = data.tables /\ DOMAIN FileTables = Tables
  BY SavedOutside
<1>2. Sound(t, data.tables[t], heap, heap_disk, index, index_disk, Log, stale)
  BY DEF RowsBody, MemorySound
<1>3. Sound(t, data.tables[t], heap_disk, heap_disk, index_disk, index_disk, Log, stale)
  BY <1>1 DEF RowsBody, FilesSound
<1>4. t \notin stale =>
         Kept(t, data.tables[t], index, index_disk, heap_disk, Log,
              promised[LifeOf(t)] \union Due(todo, t))
  BY DEF RowsBody, MemoryKept, Recovered
<1>5. t \notin stale => \A k \in promised[LifeOf(t)] :
         Survives(log_file, t, data.tables[t], index_disk, heap_disk, k)
  BY <1>1 DEF RowsBody, FilesKept, LifeOf
<1>6. /\ Valid(data.tables[t], index, heap) /\ Valid(data.tables[t], index_disk, heap_disk)
      /\ t \notin stale => Own(t, data.tables[t], heap, heap_disk, Log)
  BY <1>2 DEF Sound
<1> QED
  BY <1>2, <1>3, <1>4, <1>5, <1>6

LEMMA CreateKeepsRows ==
    ASSUME TypeInv, TypeInv', SaveInv, UnusedAreEmpty, Harmless, RowsBody,
           NEW t, NEW rest, CreateThen(t, rest),
           rest \in {<<>>, << <<"demo", DemoTable>> >>}
    PROVE  RowsBody'
<1> DEFINE n == data.next_relation_id
           new == NewTable(n, count.create + 1)
<1>1. /\ pc = "idle" /\ t \notin Tables
      /\ data' = Created(t) /\ pc' = "write" /\ todo' = rest
      /\ stale' = IF t \in LoggedNames THEN stale \union {t} ELSE stale \ {t}
      /\ UNCHANGED <<catalog_file, heap, heap_disk, index, index_disk, log_file, log_buffer,
                     promised>>
      /\ count' = [count EXCEPT !.create = @ + 1]
  BY DEF CreateThen, Change, Counting, saveVars, relationVars, pageVars, fileVars
<1>2. todo = <<>> /\ todo # << <<"recover">> >>
  BY <1>1 DEF TypeInv, TodoTyped
<1>3. /\ data'.tables = With(t, new) /\ Tables' = Tables \union {t} /\ Log' = Log
      /\ data'.tables[t] = new
      /\ \A u \in Tables : u # t /\ data'.tables[u] = data.tables[u]
  BY <1>1 DEF Created, With, Tables, Log
<1>4. /\ new.heap_relation_id = n /\ new.index_relation_id = n + 1
      /\ new.root_page_num = FALSE /\ new.life = count.create + 1
  BY DEF NewTable
<1>5. rest # << <<"recover">> >> /\ rest # << <<"truncate">> >>
  OBVIOUS
<1>6. heap[n] = <<>> /\ heap_disk[n] = <<>>
  <2>1. catalog_file.value = data
    BY <1>1, SavedOutside
  <2>2. n \in Relations
    BY <1>3, <1>4 DEF TypeInv, TablesAllTyped, TablesTyped, Tables
  <2>3. n \in Nat
    BY DEF TypeInv, CatalogsOK, CatalogOK
  <2> QED BY <2>1, <2>2, <2>3 DEF UnusedAreEmpty
<1>7. promised[count.create + 1] = {}
  <2>1. count.create + 1 \in 1 .. MaxCreates
    <3>1. count'.create = count.create + 1 /\ count.create \in Nat
      BY <1>1 DEF TypeInv, CountTyped, Counted
    <3> QED BY <3>1, BoundsAreNumbers DEF TypeInv, CountTyped
  <2>2. count.create \in Nat
    BY DEF TypeInv, CountTyped, Counted
  <2> QED BY <2>1, <2>2 DEF TypeInv, HistoryTyped
<1>8. t \notin stale' => RecordsAre(Log, t, new.life)
  <2> SUFFICES ASSUME t \notin LoggedNames PROVE RecordsAre(Log, t, new.life)
    BY <1>1
  <2>1. RecordsAre(log_file, t, new.life) /\ RecordsAre(log_buffer, t, new.life)
    BY DEF LoggedNames, RecordsAre
  <2> QED BY <2>1, RowsTyped, JoinedLog DEF Log
<1>9. Due(rest, t) = {} /\ \A u : Due(rest, u) = {}
  BY DueNothing
<1> HIDE DEF n, new
<1>10. Sound(t, new, heap, heap_disk, index, index_disk, Log, stale')
  <2>1. Valid(new, index, heap) /\ Valid(new, index_disk, heap_disk)
    BY <1>4 DEF Valid
  <2>2. LivesAre(<<>>, new.life)
    BY DEF LivesAre, Live
  <2> QED BY <1>4, <1>6, <1>8, <2>1, <2>2 DEF Sound, Own
<1>11. Kept(t, new, index, index_disk, heap_disk, Log, {})
  BY <1>4 DEF Kept, FoundIn
<1>12. ASSUME NEW u \in Tables
       PROVE  /\ u \in stale' <=> u \in stale
              /\ Sound(u, data.tables[u], heap, heap_disk, index, index_disk, Log, stale')
              /\ Sound(u, data.tables[u], heap_disk, heap_disk, index_disk, index_disk, Log, stale')
              /\ u \notin stale' =>
                    /\ Kept(u, data.tables[u], index, index_disk, heap_disk, Log,
                            promised[data.tables[u].life] \union Due(rest, u))
                    /\ \A k \in promised[data.tables[u].life] :
                          Survives(log_file, u, data.tables[u], index_disk, heap_disk, k)
  <2>1. u \in stale' <=> u \in stale
    BY <1>1, <1>3
  <2>2. /\ Sound(u, data.tables[u], heap, heap_disk, index, index_disk, Log, stale)
        /\ Sound(u, data.tables[u], heap_disk, heap_disk, index_disk, index_disk, Log, stale)
        /\ u \notin stale =>
              /\ Kept(u, data.tables[u], index, index_disk, heap_disk, Log,
                      promised[LifeOf(u)] \union Due(todo, u))
              /\ \A k \in promised[LifeOf(u)] :
                    Survives(log_file, u, data.tables[u], index_disk, heap_disk, k)
    BY <1>1, <1>2, RowsBefore
  <2>3. Due(todo, u) = {} /\ LifeOf(u) = data.tables[u].life
    BY <1>2, DueNothing DEF LifeOf
  <2> QED BY <1>9, <2>1, <2>2, <2>3 DEF Sound
<1>13. \A u \in Tables' :
          IF u \in Tables THEN Agree(data'.tables[u], data.tables[u])
          ELSE promised'[data'.tables[u].life] = {}
  BY <1>1, <1>3, <1>4, <1>7 DEF Agree
<1>14. \A u \in Tables' :
          Sound(u, data'.tables[u], heap', heap_disk', index', index_disk', Log', stale')
  BY <1>1, <1>3, <1>10, <1>12
<1>15. \A u \in Tables :
          Sound(u, data.tables[u], heap_disk', heap_disk', index_disk', index_disk', Log', stale')
  BY <1>1, <1>3, <1>12
<1>16. \A u \in Tables' \ stale' :
          Kept(u, data'.tables[u], index', index_disk', heap_disk', Log',
               promised'[data'.tables[u].life] \union Due(todo', u))
  <2>1. promised'[data'.tables[t].life] \union Due(todo', t) = {}
    BY <1>1, <1>3, <1>4, <1>7, <1>9
  <2> QED BY <1>1, <1>3, <1>11, <1>12, <2>1
<1>17. \A u \in Tables \ stale' : \A k \in promised'[data.tables[u].life] :
          Survives(log_file', u, data.tables[u], index_disk', heap_disk', k)
  BY <1>1, <1>12
<1> QED
  BY <1>1, <1>5, <1>13, <1>14, <1>15, <1>16, <1>17, RowsStep

LEMMA DropKeepsRows ==
    ASSUME TypeInv, SaveInv, Harmless, RowsBody, NEW t, Drop(t)
    PROVE  RowsBody'
<1>1. /\ pc = "idle" /\ pc' = "write" /\ todo' = <<>>
      /\ data' = [data EXCEPT !.tables = Without(t)]
      /\ UNCHANGED <<catalog_file, heap, heap_disk, index, index_disk, log_file, log_buffer,
                     stale, promised>>
  BY DEF Drop, Change, saveVars, relationVars, pageVars, fileVars, historyVars
<1>2. todo = <<>> /\ todo # << <<"recover">> >>
  BY <1>1 DEF TypeInv, TodoTyped
<1>3. /\ Tables' = Tables \ {t} /\ Log' = Log
      /\ \A u \in Tables' : data'.tables[u] = data.tables[u]
  BY <1>1 DEF Without, Tables, Log, TypeInv, CatalogsOK, CatalogOK
<1>4. ASSUME NEW u \in Tables
      PROVE  /\ Sound(u, data.tables[u], heap, heap_disk, index, index_disk, Log, stale)
             /\ Sound(u, data.tables[u], heap_disk, heap_disk, index_disk, index_disk, Log, stale)
             /\ u \notin stale =>
                   /\ Kept(u, data.tables[u], index, index_disk, heap_disk, Log,
                           promised[data.tables[u].life] \union Due(todo, u))
                   /\ \A k \in promised[data.tables[u].life] :
                         Survives(log_file, u, data.tables[u], index_disk, heap_disk, k)
  <2>1. LifeOf(u) = data.tables[u].life
    BY DEF LifeOf
  <2> QED BY <1>1, <1>2, <2>1, RowsBefore
<1>5. \A u \in Tables' :
         IF u \in Tables THEN Agree(data'.tables[u], data.tables[u])
         ELSE promised'[data'.tables[u].life] = {}
  BY <1>3 DEF Agree
<1>6. \A u \in Tables' :
         Sound(u, data'.tables[u], heap', heap_disk', index', index_disk', Log', stale')
  BY <1>1, <1>3, <1>4
<1>7. \A u \in Tables :
         Sound(u, data.tables[u], heap_disk', heap_disk', index_disk', index_disk', Log', stale')
  BY <1>1, <1>3, <1>4
<1>8. \A u \in Tables' \ stale' :
         Kept(u, data'.tables[u], index', index_disk', heap_disk', Log',
              promised'[data'.tables[u].life] \union Due(todo', u))
  BY <1>1, <1>2, <1>3, <1>4
<1>9. \A u \in Tables \ stale' : \A k \in promised'[data.tables[u].life] :
         Survives(log_file', u, data.tables[u], index_disk', heap_disk', k)
  BY <1>1, <1>4
<1>10. todo' # << <<"recover">> >> /\ todo' # << <<"truncate">> >>
  BY <1>1
<1> QED
  BY <1>1, <1>5, <1>6, <1>7, <1>8, <1>9, <1>10, RowsStep

Alike(m, f) ==
    /\ m.heap_relation_id = f.heap_relation_id
    /\ m.index_relation_id = f.index_relation_id
    /\ m.life = f.life
    /\ m.root_page_num = f.root_page_num

LEMMA AlikeTables ==
    ASSUME NEW m, NEW f, Alike(m, f), NEW t, NEW h, NEW hd, NEW ix, NEW ixd, NEW log, NEW st, NEW ks
    PROVE  /\ Sound(t, m, h, hd, ix, ixd, log, st) <=> Sound(t, f, h, hd, ix, ixd, log, st)
           /\ Kept(t, m, ix, ixd, hd, log, ks) <=> Kept(t, f, ix, ixd, hd, log, ks)
           /\ Agree(m, f)
<1>1. Valid(m, ix, h) <=> Valid(f, ix, h)
  BY DEF Alike, Valid
<1>2. Valid(m, ixd, hd) <=> Valid(f, ixd, hd)
  BY DEF Alike, Valid
<1>3. Own(t, m, h, hd, log) <=> Own(t, f, h, hd, log)
  BY DEF Alike, Own
<1>4. \A k : FoundIn(m, ix, k) <=> FoundIn(f, ix, k)
  BY DEF Alike, FoundIn
<1>5. \A k : Survives(log, t, m, ixd, hd, k) <=> Survives(log, t, f, ixd, hd, k)
  BY DEF Alike, Survives, InFiles
<1> QED
  BY <1>1, <1>2, <1>3, <1>4, <1>5 DEF Sound, Kept, Agree, Alike

LEMMA CountKeepsRows ==
    ASSUME TypeInv, SaveInv, Harmless, RowsBody, Count
    PROVE  RowsBody'
<1>1. PICK t \in Tables, n \in Int, ks \in SUBSET Keys :
              /\ CountingThen(t, n, ks)
              /\ pc = "continue" /\ pc' = "write"
              /\ todo' = << <<"commit", t, ks>> >>
              /\ data' = WithCount(t, CountNow(t, n))
              /\ UNCHANGED <<saveVars, relationVars, count, historyVars>>
  BY CountParts
<1>2. UNCHANGED <<catalog_file, heap, heap_disk, index, index_disk, log_file, log_buffer,
                  stale, promised>> /\ Log' = Log
  BY <1>1 DEF saveVars, relationVars, pageVars, fileVars, historyVars, Log
<1>3. /\ todo # << <<"recover">> >>
      /\ todo' # << <<"recover">> >> /\ todo' # << <<"truncate">> >>
  BY <1>1 DEF CountingThen
<1>4. \A u : Due(todo', u) = Due(todo, u)
  BY <1>1, DueKeys DEF CountingThen
<1>5. Tables' = Tables /\ \A u \in Tables : Alike(data'.tables[u], data.tables[u])
  <2>1. CatalogOK(data)
    BY DEF TypeInv, CatalogsOK
  <2>2. /\ DOMAIN data'.tables = Tables
        /\ \A u \in Tables :
              /\ data'.tables[u].heap_relation_id = HeapOf(u)
              /\ data'.tables[u].index_relation_id = IndexOf(u)
              /\ data'.tables[u].life = LifeOf(u)
              /\ data'.tables[u].root_page_num = data.tables[u].root_page_num
    BY <1>1, <2>1, CountedParts
  <2> QED BY <2>2 DEF Alike, Tables, HeapOf, IndexOf, LifeOf
<1>6. ASSUME NEW u \in Tables
      PROVE  /\ Sound(u, data.tables[u], heap, heap_disk, index, index_disk, Log, stale)
             /\ Sound(u, data.tables[u], heap_disk, heap_disk, index_disk, index_disk, Log, stale)
             /\ u \notin stale =>
                   /\ Kept(u, data.tables[u], index, index_disk, heap_disk, Log,
                           promised[data.tables[u].life] \union Due(todo, u))
                   /\ \A k \in promised[data.tables[u].life] :
                         Survives(log_file, u, data.tables[u], index_disk, heap_disk, k)
  <2>1. LifeOf(u) = data.tables[u].life
    BY DEF LifeOf
  <2> QED BY <1>1, <1>3, <2>1, RowsBefore
<1>7. \A u \in Tables' :
         IF u \in Tables THEN Agree(data'.tables[u], data.tables[u])
         ELSE promised'[data'.tables[u].life] = {}
  BY <1>5, AlikeTables
<1>8. \A u \in Tables' :
         Sound(u, data'.tables[u], heap', heap_disk', index', index_disk', Log', stale')
  BY <1>2, <1>5, <1>6, AlikeTables
<1>9. \A u \in Tables :
         Sound(u, data.tables[u], heap_disk', heap_disk', index_disk', index_disk', Log', stale')
  BY <1>2, <1>6
<1>10. \A u \in Tables' \ stale' :
         Kept(u, data'.tables[u], index', index_disk', heap_disk', Log',
              promised'[data'.tables[u].life] \union Due(todo', u))
  <2> SUFFICES ASSUME NEW u \in Tables \ stale
               PROVE  Kept(u, data'.tables[u], index, index_disk, heap_disk, Log,
                           promised[data'.tables[u].life] \union Due(todo', u))
    BY <1>2, <1>5
  <2>1. promised[data'.tables[u].life] \union Due(todo', u)
           = promised[data.tables[u].life] \union Due(todo, u)
    BY <1>4, <1>5 DEF Alike
  <2>2. Alike(data'.tables[u], data.tables[u])
    BY <1>5
  <2> QED BY <1>6, <2>1, <2>2, AlikeTables
<1>11. \A u \in Tables \ stale' : \A k \in promised'[data.tables[u].life] :
         Survives(log_file', u, data.tables[u], index_disk', heap_disk', k)
  BY <1>2, <1>6
<1> QED
  BY <1>1, <1>2, <1>3, <1>7, <1>8, <1>9, <1>10, <1>11, RowsStep

LEMMA CommitKeepsRows ==
    ASSUME TypeInv, SaveInv, Harmless, RowsBody, Commit
    PROVE  RowsBody'
<1>1. PICK t \in Tables, ks \in SUBSET Keys :
              /\ Committing(t, ks)
              /\ pc = "continue" /\ pc' = "idle" /\ todo' = <<>>
              /\ log_file' = log_file \o log_buffer /\ log_buffer' = <<>>
              /\ promised' = [promised EXCEPT ![LifeOf(t)] = @ \union ks]
              /\ UNCHANGED <<data, saveVars, pageVars, heap_disk, index_disk, count, damage, stale>>
  BY CommitParts
<1>2. UNCHANGED <<catalog_file, heap, heap_disk, index, index_disk, stale, data>>
  BY <1>1 DEF saveVars, pageVars
<1>3. /\ todo # << <<"recover">> >>
      /\ todo' # << <<"recover">> >> /\ todo' # << <<"truncate">> >>
  BY <1>1 DEF Committing
<1>4. Log \in Seq(RecordType) /\ log_file' = Log /\ Log' = Log
  BY <1>1, RowsTyped, EmptyLog DEF Log
<1>5. Tables' = Tables
  BY <1>2 DEF Tables
<1>6. ASSUME NEW u \in Tables
      PROVE  promised'[data.tables[u].life] = promised[data.tables[u].life] \union Due(todo, u)
  <2>1. Due(todo, u) = IF t = u THEN ks ELSE {}
    BY <1>1, DueKeys DEF Committing
  <2>2. promised \in [1 .. MaxCreates -> SUBSET Keys]
    BY DEF TypeInv, HistoryTyped
  <2>3. /\ LifeOf(u) \in 1 .. MaxCreates /\ LifeOf(t) \in 1 .. MaxCreates
        /\ LifeOf(u) = LifeOf(t) => u = t
        /\ LifeOf(u) = data.tables[u].life
    BY TypedOwned DEF LifeOf
  <2>4. promised'[LifeOf(u)] =
           IF LifeOf(u) = LifeOf(t) THEN promised[LifeOf(u)] \union ks ELSE promised[LifeOf(u)]
    <3> DEFINE lu == LifeOf(u)
               lt == LifeOf(t)
    <3>1. lu \in 1 .. MaxCreates /\ promised' = [promised EXCEPT ![lt] = @ \union ks]
      BY <1>1, <2>3
    <3> HIDE DEF lu, lt
    <3>2. promised'[lu] = IF lu = lt THEN promised[lu] \union ks ELSE promised[lu]
      BY <2>2, <3>1
    <3> QED BY <3>2 DEF lu, lt
  <2> QED BY <2>1, <2>3, <2>4
<1>7. ASSUME NEW u \in Tables
      PROVE  /\ Sound(u, data.tables[u], heap, heap_disk, index, index_disk, Log, stale)
             /\ Sound(u, data.tables[u], heap_disk, heap_disk, index_disk, index_disk, Log, stale)
             /\ u \notin stale =>
                   Kept(u, data.tables[u], index, index_disk, heap_disk, Log,
                        promised'[data.tables[u].life])
  <2>1. LifeOf(u) = data.tables[u].life
    BY DEF LifeOf
  <2> QED BY <1>1, <1>3, <1>6, <2>1, RowsBefore
<1>8. \A u \in Tables' :
         IF u \in Tables THEN Agree(data'.tables[u], data.tables[u])
         ELSE promised'[data'.tables[u].life] = {}
  BY <1>2, <1>5 DEF Agree
<1>9. \A u \in Tables' :
         Sound(u, data'.tables[u], heap', heap_disk', index', index_disk', Log', stale')
  BY <1>2, <1>4, <1>5, <1>7
<1>10. \A u \in Tables :
         Sound(u, data.tables[u], heap_disk', heap_disk', index_disk', index_disk', Log', stale')
  BY <1>2, <1>4, <1>7
<1>11. \A u \in Tables' \ stale' :
         Kept(u, data'.tables[u], index', index_disk', heap_disk', Log',
              promised'[data'.tables[u].life] \union Due(todo', u))
  <2>1. \A u : Due(todo', u) = {}
    BY <1>1, DueNothing
  <2> QED BY <1>2, <1>4, <1>5, <1>7, <2>1
<1>12. \A u \in Tables \ stale' : \A k \in promised'[data.tables[u].life] :
         Survives(log_file', u, data.tables[u], index_disk', heap_disk', k)
  <2> SUFFICES ASSUME NEW u \in Tables \ stale, NEW k \in promised'[data.tables[u].life]
               PROVE  Survives(Log, u, data.tables[u], index_disk, heap_disk, k)
    BY <1>2, <1>4
  <2>1. Kept(u, data.tables[u], index, index_disk, heap_disk, Log, promised'[data.tables[u].life])
    BY <1>7
  <2>2. k \in Keys
    <3>1. Due(todo, u) \subseteq Keys
      BY <1>1, DueKeys DEF Committing
    <3>2. promised[data.tables[u].life] \subseteq Keys
      <4>1. LifeOf(u) \in 1 .. MaxCreates
        BY TypedOwned
      <4>2. promised \in [1 .. MaxCreates -> SUBSET Keys]
        BY DEF TypeInv, HistoryTyped
      <4> QED BY <4>1, <4>2 DEF LifeOf
    <3> QED BY <1>6, <3>1, <3>2
  <2> QED BY <2>1, <2>2 DEF Kept
<1> QED
  BY <1>1, <1>2, <1>3, <1>8, <1>9, <1>10, <1>11, <1>12, RowsStep

(* What was promised to a table are keys.                                  *)
LEMMA PromisedKeys ==
    ASSUME TypeInv, NEW t \in Tables
    PROVE  promised[data.tables[t].life] \subseteq Keys
<1>1. LifeOf(t) \in 1 .. MaxCreates
  BY TypedOwned
<1>2. promised \in [1 .. MaxCreates -> SUBSET Keys]
  BY DEF TypeInv, HistoryTyped
<1> QED
  BY <1>1, <1>2 DEF LifeOf

(* Files that are memory have what the index has.                          *)
LEMMA FoundIsInFiles ==
    ASSUME NEW m, NEW ix, NEW h, NEW k, FoundIn(m, ix, k)
    PROVE  InFiles(m, ix, h, k)
BY DEF FoundIn, InFiles

LEMMA CheckpointKeepsRows ==
    ASSUME TypeInv, SaveInv, Harmless, RowsBody, Checkpoint
    PROVE  RowsBody'
<1>1. /\ pc = "idle" /\ pc' = "continue" /\ todo' = << <<"truncate">> >>
      /\ heap_disk' = heap /\ index_disk' = index
      /\ log_file' = log_file \o log_buffer /\ log_buffer' = <<>>
      /\ UNCHANGED <<data, catalog_file, heap, index, stale, promised>>
  BY DEF Checkpoint, saveVars, pageVars, historyVars
<1>2. todo = <<>> /\ todo # << <<"recover">> >> /\ todo' # << <<"recover">> >>
  BY <1>1 DEF TypeInv, TodoTyped
<1>3. Log \in Seq(RecordType) /\ log_file' = Log /\ Log' = Log
  BY <1>1, RowsTyped, EmptyLog DEF Log
<1>4. Tables' = Tables
  BY <1>1 DEF Tables
<1>5. ASSUME NEW u \in Tables
      PROVE  /\ Sound(u, data.tables[u], heap, heap, index, index, Log, stale)
             /\ u \notin stale =>
                   /\ Kept(u, data.tables[u], index, index, heap, Log,
                           promised[data.tables[u].life])
                   /\ \A k \in promised[data.tables[u].life] :
                         Survives(Log, u, data.tables[u], index, heap, k)
  <2>1. /\ Sound(u, data.tables[u], heap, heap_disk, index, index_disk, Log, stale)
        /\ u \notin stale =>
              Kept(u, data.tables[u], index, index_disk, heap_disk, Log,
                   promised[LifeOf(u)] \union Due(todo, u))
    BY <1>1, <1>2, RowsBefore
  <2>2. Sound(u, data.tables[u], heap, heap, index, index, Log, stale)
    BY <2>1 DEF Sound, Own
  <2>3. ASSUME u \notin stale, NEW k \in Keys, FoundIn(data.tables[u], index, k)
        PROVE  Survives(Log, u, data.tables[u], index, heap, k)
    BY <2>1, <2>3, FoundIsInFiles DEF Kept, Survives
  <2>4. u \notin stale => \A k \in promised[data.tables[u].life] : FoundIn(data.tables[u], index, k)
    BY <2>1 DEF Kept, LifeOf
  <2>5. promised[data.tables[u].life] \subseteq Keys
    BY PromisedKeys
  <2> QED BY <2>2, <2>3, <2>4, <2>5 DEF Kept
<1>6. \A u \in Tables' :
         IF u \in Tables THEN Agree(data'.tables[u], data.tables[u])
         ELSE promised'[data'.tables[u].life] = {}
  BY <1>1, <1>4 DEF Agree
<1>7. \A u \in Tables' :
         Sound(u, data'.tables[u], heap', heap_disk', index', index_disk', Log', stale')
  BY <1>1, <1>3, <1>4, <1>5
<1>8. \A u \in Tables :
         Sound(u, data.tables[u], heap_disk', heap_disk', index_disk', index_disk', Log', stale')
  BY <1>1, <1>3, <1>5
<1>9. \A u \in Tables' \ stale' :
         Kept(u, data'.tables[u], index', index_disk', heap_disk', Log',
              promised'[data'.tables[u].life] \union Due(todo', u))
  <2>1. \A u : Due(todo', u) = {}
    BY <1>1, DueNothing
  <2> QED BY <1>1, <1>3, <1>4, <1>5, <2>1
<1>10. \A u \in Tables \ stale' : \A k \in promised'[data.tables[u].life] :
         Survives(log_file', u, data.tables[u], index_disk', heap_disk', k)
  BY <1>1, <1>3, <1>5
<1> QED
  BY <1>1, <1>2, <1>6, <1>7, <1>8, <1>9, <1>10, RowsStep

LEMMA TruncateKeepsRows ==
    ASSUME TypeInv, SaveInv, Harmless, RowsBody, Truncate
    PROVE  RowsBody'
<1>1. /\ pc = "continue" /\ pc' = "idle" /\ todo' = <<>> /\ Head(todo)[1] = "truncate"
      /\ log_file' = <<>>
      /\ UNCHANGED <<data, catalog_file, heap, index, heap_disk, index_disk, log_buffer,
                     stale, promised>>
  BY DEF Truncate, Doing, saveVars, pageVars, historyVars
<1>2. todo = << <<"truncate">> >>
  BY <1>1 DEF TypeInv, TodoTyped, Committing, CountingThen
<1>3. /\ todo # << <<"recover">> >>
      /\ todo' # << <<"recover">> >> /\ todo' # << <<"truncate">> >>
  BY <1>1, <1>2
<1>4. heap_disk = heap /\ index_disk = index /\ log_buffer = <<>>
  BY <1>2 DEF RowsBody, MemoryIsFiles
<1>5. Log' = <<>>
  BY <1>1, <1>4 DEF Log
<1>6. Tables' = Tables
  BY <1>1 DEF Tables
<1>7. ASSUME NEW u \in Tables
      PROVE  /\ Sound(u, data.tables[u], heap, heap, index, index, <<>>, stale)
             /\ u \notin stale =>
                   /\ Kept(u, data.tables[u], index, index, heap, <<>>,
                           promised[data.tables[u].life])
                   /\ \A k \in promised[data.tables[u].life] :
                         Survives(<<>>, u, data.tables[u], index, heap, k)
  <2>1. /\ Sound(u, data.tables[u], heap, heap_disk, index, index_disk, Log, stale)
        /\ u \notin stale =>
              Kept(u, data.tables[u], index, index_disk, heap_disk, Log,
                   promised[LifeOf(u)] \union Due(todo, u))
    BY <1>1, <1>3, RowsBefore
  <2>2. Sound(u, data.tables[u], heap, heap, index, index, <<>>, stale)
    BY <1>4, <2>1, EmptyLog DEF Sound, Own
  <2>3. ASSUME NEW k, FoundIn(data.tables[u], index, k)
        PROVE  Survives(<<>>, u, data.tables[u], index, heap, k)
    BY <2>3, EmptyLog, FoundIsInFiles DEF Survives
  <2>4. u \notin stale => \A k \in promised[data.tables[u].life] : FoundIn(data.tables[u], index, k)
    BY <2>1 DEF Kept, LifeOf
  <2> QED BY <2>2, <2>3, <2>4 DEF Kept
<1>8. \A u \in Tables' :
         IF u \in Tables THEN Agree(data'.tables[u], data.tables[u])
         ELSE promised'[data'.tables[u].life] = {}
  BY <1>1, <1>6 DEF Agree
<1>9. \A u \in Tables' :
         Sound(u, data'.tables[u], heap', heap_disk', index', index_disk', Log', stale')
  BY <1>1, <1>4, <1>5, <1>6, <1>7
<1>10. \A u \in Tables :
         Sound(u, data.tables[u], heap_disk', heap_disk', index_disk', index_disk', Log', stale')
  BY <1>1, <1>4, <1>5, <1>7
<1>11. \A u \in Tables' \ stale' :
         Kept(u, data'.tables[u], index', index_disk', heap_disk', Log',
              promised'[data'.tables[u].life] \union Due(todo', u))
  <2>1. \A u : Due(todo', u) = {}
    BY <1>1, DueNothing
  <2> QED BY <1>1, <1>4, <1>5, <1>6, <1>7, <2>1
<1>12. \A u \in Tables \ stale' : \A k \in promised'[data.tables[u].life] :
         Survives(log_file', u, data.tables[u], index_disk', heap_disk', k)
  BY <1>1, <1>4, <1>7
<1> QED
  BY <1>1, <1>3, <1>8, <1>9, <1>10, <1>11, <1>12, RowsStep

-----------------------------------------------------------------------------
(* The rows: crash, start, reset *)

LEMMA CrashKeepsRows == ASSUME TypeInv, RowsBody, Crash PROVE RowsBody'
<1>1. /\ pc' = "down" /\ todo' = <<>> /\ data' = EmptyCatalog
      /\ heap' = heap_disk /\ index' = index_disk /\ log_buffer' = <<>>
      /\ UNCHANGED <<catalog_file, heap_disk, index_disk, log_file, stale, promised>>
  BY DEF Crash, Dead, saveVars, fileVars, historyVars
<1>2. Tables' = {} /\ FileTables' = FileTables
  BY <1>1 DEF Tables, EmptyCatalog, FileTables
<1>3. log_file \in Seq(RecordType) /\ log_buffer \in Seq(RecordType) /\ Log' = log_file
  BY <1>1, RowsTyped, EmptyLog DEF Log
<1>4. FilesAgree' /\ MemoryIsFiles' /\ MemorySound' /\ MemoryKept'
  BY <1>1, <1>2 DEF FilesAgree, MemoryIsFiles, MemorySound, MemoryKept
<1>5. FilesKept'
  BY <1>1, <1>2 DEF RowsBody, FilesKept
<1>6. FilesSound'
  <2> SUFFICES ASSUME NEW t \in DOMAIN FileTables
               PROVE  Sound(t, FileTables[t], heap_disk, heap_disk, index_disk, index_disk,
                            log_file, stale)
    BY <1>1, <1>2, <1>3 DEF FilesSound
  <2>1. Sound(t, FileTables[t], heap_disk, heap_disk, index_disk, index_disk, Log, stale)
    BY DEF RowsBody, FilesSound
  <2>2. RecordsAre(Log, t, FileTables[t].life) => RecordsAre(log_file, t, FileTables[t].life)
    BY <1>3, JoinedLog DEF Log
  <2> QED BY <2>1, <2>2 DEF Sound, Own
<1> QED
  BY <1>4, <1>5, <1>6 DEF RowsBody

(* A start, and what opens the catalog after a .reset, reads the file.     *)
LEMMA OpenReads ==
    ASSUME TypeInv, NEW rest, Open(rest), UNCHANGED saveVars
    PROVE  /\ data'.tables = FileTables /\ Tables' = DOMAIN FileTables
           /\ FileTables' = FileTables
           /\ pc' \in {"write", "continue"} /\ todo' = rest
           /\ pc' = "write" => Tables' = {}
<1>1. /\ pc' \in {"write", "continue"} /\ todo' = rest
      /\ data' = catalog_file.value
      /\ pc' = "write" => data' = EmptyCatalog
  BY DEF Open, Change, NoFile
<1>2. FileTables' = FileTables /\ data'.tables = FileTables
  BY <1>1 DEF FileTables, saveVars
<1>3. Tables' = DOMAIN FileTables
  BY <1>2 DEF Tables
<1>4. pc' = "write" => Tables' = {}
  BY <1>1 DEF Tables, EmptyCatalog
<1> QED
  BY <1>1, <1>2, <1>3, <1>4

LEMMA StartKeepsRows == ASSUME TypeInv, RowsBody, Start PROVE RowsBody'
<1> DEFINE rest == << <<"recover">> >>
<1>1. /\ pc = "down"
      /\ UNCHANGED <<catalog_file, heap, heap_disk, index, index_disk, log_file, log_buffer,
                     stale, promised>>
  BY DEF Start, saveVars, relationVars, pageVars, fileVars, historyVars
<1>2. /\ data'.tables = FileTables /\ Tables' = DOMAIN FileTables
      /\ FileTables' = FileTables
      /\ pc' \in {"write", "continue"} /\ todo' = rest
      /\ pc' = "write" => Tables' = {}
  BY OpenReads DEF Start
<1>3. heap = heap_disk /\ index = index_disk /\ log_buffer = <<>> /\ Log' = Log
  BY <1>1 DEF RowsBody, MemoryIsFiles, Log
<1>4. FilesAgree' /\ MemoryIsFiles' /\ MemoryKept'
  BY <1>1, <1>2, <1>3 DEF FilesAgree, MemoryIsFiles, MemoryKept, Recovered
<1>5. FilesKept'
  BY <1>1, <1>2 DEF RowsBody, FilesKept
<1>6. FilesSound'
  BY <1>1, <1>2, <1>3 DEF RowsBody, FilesSound
<1>7. MemorySound'
  BY <1>1, <1>2, <1>3 DEF RowsBody, FilesSound, MemorySound
<1> QED
  BY <1>4, <1>5, <1>6, <1>7 DEF RowsBody

LEMMA ReopenKeepsRows == ASSUME TypeInv, RowsBody, Reopen PROVE RowsBody'
<1> DEFINE rest == << <<"opened">> >>
<1>1. pc = "wiped" /\ Open(rest) /\ UNCHANGED saveVars
  BY DEF Reopen
<1>2. /\ Tables' = DOMAIN FileTables /\ FileTables' = FileTables
      /\ pc' \in {"write", "continue"} /\ todo' = rest
  BY <1>1, OpenReads
<1>3. Tables' = {} /\ DOMAIN FileTables' = {}
  BY <1>1, <1>2 DEF RowsBody, MemoryIsFiles
<1>4. todo' # << <<"recover">> >> /\ todo' # << <<"truncate">> >>
  BY <1>2
<1> QED
  BY <1>2, <1>3, <1>4 DEF RowsBody, FilesAgree, MemoryIsFiles, MemorySound, FilesSound,
     MemoryKept, FilesKept

LEMMA WipeKeepsRows ==
    ASSUME TypeInv, RowsBody, Harmless', NEW kept, Wipe(kept)
    PROVE  RowsBody'
<1>1. kept = {}
  BY DEF Wipe, Harmless
<1>2. /\ catalog_file' = NoFile /\ pc' = "wiped" /\ todo' = <<>>
      /\ heap_disk' = Empty /\ index_disk' = NoTrees /\ log_file' = <<>>
      /\ heap' = Empty /\ index' = NoTrees /\ log_buffer' = <<>>
      /\ UNCHANGED <<data, stale, promised>>
  BY <1>1 DEF Wipe
<1>3. DOMAIN FileTables' = {} /\ Tables' = Tables
  BY <1>2 DEF FileTables, NoFile, EmptyCatalog, Tables
<1>4. Log' = <<>>
  BY <1>2 DEF Log
<1>5. MemorySound'
  <2> SUFFICES ASSUME NEW t \in Tables
               PROVE  Sound(t, data.tables[t], Empty, Empty, NoTrees, NoTrees, <<>>, stale)
    BY <1>2, <1>3, <1>4 DEF MemorySound
  <2>1. data.tables[t].heap_relation_id \in Relations /\ data.tables[t].index_relation_id \in Relations
    BY TypedOwned DEF Owned, HeapOf, IndexOf
  <2>2. /\ Empty[data.tables[t].heap_relation_id] = <<>>
        /\ NoTrees[data.tables[t].index_relation_id] = Zeros
    BY <2>1 DEF Empty, NoTrees
  <2>3. \A l : LivesAre(<<>>, l)
    BY DEF LivesAre, Live
  <2> QED BY <2>2, <2>3, EmptyLog DEF Sound, Valid, LeafValid, Own
<1> QED
  BY <1>2, <1>3, <1>5 DEF RowsBody, FilesAgree, MemoryIsFiles, FilesSound, MemoryKept,
     FilesKept, Recovered

LEMMA InitRows == Init => RowsBody
<1> SUFFICES ASSUME Init PROVE RowsBody
  OBVIOUS
<1>1. Tables = {} /\ DOMAIN FileTables = {}
  BY DEF Init, Tables, FileTables, NoFile, EmptyCatalog
<1> QED
  BY <1>1 DEF Init, RowsBody, FilesAgree, MemoryIsFiles, MemorySound, FilesSound, MemoryKept,
     FilesKept, Recovered

-----------------------------------------------------------------------------
(* The rows: tuples that are added *)

(* What a step writes for one table is nothing to the others.              *)
CarriedOver(t, m, f, h, h2, hd, ix, ix2, ixd, ixd2, log, r, st, ks) ==
    /\ Sound(t, f, h, hd, ix, ixd, log, st) => Sound(t, m, h2, hd, ix2, ixd2, log \o r, st)
    /\ Sound(t, f, hd, hd, ixd, ixd, log, st) => Sound(t, f, hd, hd, ixd2, ixd2, log \o r, st)
    /\ Kept(t, f, ix, ixd, hd, log, ks) => Kept(t, m, ix2, ixd2, hd, log \o r, ks)
    /\ \A l, k : Survives(l, t, f, ixd, hd, k) => Survives(l, t, f, ixd2, hd, k)

LEMMA RowsElsewhere ==
    ASSUME NEW t, NEW m, NEW f, Alike(m, f),
           NEW h, NEW h2, NEW hd, NEW ix, NEW ix2, NEW ixd, NEW ixd2,
           NEW log \in Seq(RecordType), NEW r \in Seq(RecordType), NEW st, NEW ks,
           h2[f.heap_relation_id] = h[f.heap_relation_id],
           ix2[f.index_relation_id] = ix[f.index_relation_id],
           ixd2[f.index_relation_id] = ixd[f.index_relation_id],
           RecordsAre(r, t, f.life), \A k : ~Mentions(r, t, k)
    PROVE  CarriedOver(t, m, f, h, h2, hd, ix, ix2, ixd, ixd2, log, r, st, ks)
<1>1. /\ Valid(f, ix, h) => Valid(m, ix2, h2)
      /\ Valid(f, ixd, hd) => Valid(m, ixd2, hd) /\ Valid(f, ixd2, hd)
  BY DEF Alike, Valid
<1>2. RecordsAre(log, t, f.life) => RecordsAre(log \o r, t, f.life)
  BY JoinedLog
<1>3. /\ Own(t, f, h, hd, log) => Own(t, m, h2, hd, log \o r)
      /\ Own(t, f, hd, hd, log) => Own(t, f, hd, hd, log \o r)
  BY <1>2 DEF Alike, Own
<1>4. \A k : FoundIn(m, ix2, k) <=> FoundIn(f, ix, k)
  BY DEF Alike, FoundIn
<1>5. \A k : /\ InFiles(f, ixd, hd, k) => InFiles(m, ixd2, hd, k)
             /\ InFiles(f, ixd, hd, k) => InFiles(f, ixd2, hd, k)
  BY DEF Alike, InFiles
<1>6. \A l, k : Survives(l, t, f, ixd, hd, k) =>
                   Survives(l, t, m, ixd2, hd, k) /\ Survives(l, t, f, ixd2, hd, k)
  BY <1>5 DEF Survives
<1>7. \A k : Survives(log, t, m, ixd2, hd, k) => Survives(log \o r, t, m, ixd2, hd, k)
  BY StillSurvives
<1> QED
  BY <1>1, <1>3, <1>4, <1>6, <1>7 DEF CarriedOver, Sound, Kept

(* The records of the tuples that are added.                               *)
LEMMA AddedRecords ==
    ASSUME NEW t, NEW done \in Seq(Keys), NEW r, r = RecordsOf(t, done),
           r \in Seq(RecordType)
    PROVE  /\ \A u, k : u # t => ~Mentions(r, u, k)
           /\ \A u, l : u # t => RecordsAre(r, u, l)
           /\ RecordsAre(r, t, LifeOf(t))
           /\ \A k : (\A i \in 1 .. Len(done) : done[i] # k) => ~Mentions(r, t, k)
           /\ \A k \in { done[i] : i \in 1 .. Len(done) } : EndsInInsert(r, t, k)
<1>1. DOMAIN done = 1 .. Len(done) /\ Len(done) \in Nat
  OBVIOUS
<1>2. DOMAIN r = 1 .. Len(done) /\ \A i \in 1 .. Len(done) :
          r[i].op = "insert" /\ r[i].table = t /\ r[i].key = done[i] /\ r[i].life = LifeOf(t)
  BY <1>1 DEF RecordsOf, Record
<1>3. \A u, k : u # t => ~Mentions(r, u, k)
  BY <1>2 DEF Mentions, On
<1>4. \A u, l : u # t => RecordsAre(r, u, l)
  BY <1>2 DEF RecordsAre
<1>5. RecordsAre(r, t, LifeOf(t))
  BY <1>2 DEF RecordsAre
<1>6. \A k : (\A i \in 1 .. Len(done) : done[i] # k) => ~Mentions(r, t, k)
  BY <1>2 DEF Mentions, On
<1>7. ASSUME NEW i \in 1 .. Len(done) PROVE EndsInInsert(r, t, done[i])
  <2> DEFINE T == { j \in 1 .. Len(done) : done[j] = done[i] }
  <2>1. T \in SUBSET Nat /\ T # {} /\ \A x \in T : x <= Len(done)
    BY <1>1
  <2> HIDE DEF T
  <2>2. PICK j \in T : \A x \in T : j >= x
    BY <1>1, <2>1, LargestNumber
  <2>3. j \in 1 .. Len(done) /\ done[j] = done[i]
    BY DEF T
  <2>4. ASSUME NEW x \in 1 .. Len(done), x > j PROVE ~On(r[x], t, done[i])
    <3>1. x \notin T
      BY <2>2, <2>3, <2>4
    <3> QED BY <1>2, <3>1 DEF T, On
  <2>5. On(r[j], t, done[i]) /\ r[j].op = "insert"
    BY <1>2, <2>3 DEF On
  <2> QED BY <1>2, <2>3, <2>4, <2>5 DEF EndsInInsert
<1> QED
  BY <1>3, <1>4, <1>5, <1>6, <1>7

(* The tables after that: a root where there is one now.                   *)
LEMMA AddedRoots ==
    ASSUME TypeInv, NEW t \in Tables, NEW ks, NEW done, NEW s, NEW rest,
           AddsRows(t, ks, done, s, rest)
    PROVE  /\ Tables' = Tables
           /\ \A u \in Tables :
                 /\ data'.tables[u].heap_relation_id = data.tables[u].heap_relation_id
                 /\ data'.tables[u].index_relation_id = data.tables[u].index_relation_id
                 /\ data'.tables[u].life = data.tables[u].life
                 /\ data'.tables[u].root_page_num = s.root[u]
           /\ \A u \in Tables : u # t => s.root[u] = data.tables[u].root_page_num
           /\ data.tables[t].root_page_num => s.root[t]
<1>1. /\ DOMAIN data'.tables = Tables
      /\ \A u \in Tables :
            /\ data'.tables[u].heap_relation_id = data.tables[u].heap_relation_id
            /\ data'.tables[u].index_relation_id = data.tables[u].index_relation_id
            /\ data'.tables[u].life = data.tables[u].life
  BY AddedCatalog DEF HeapOf, IndexOf, LifeOf
<1>2. \A u \in Tables : Store.root[u] = data.tables[u].root_page_num
  BY RowsTyped
<1>3. /\ \A u \in Tables : u # t => s.root[u] = Store.root[u]
      /\ Store.root[t] => s.root[t]
      /\ s.root \in [Tables -> BOOLEAN]
  BY DEF AddsRows, AddedTo, SameElsewhere, StoreTyped
<1>4. CASE data' = data /\ Corrupted(Store, t)
  <2>1. Store.root[t] = TRUE /\ s.root[t] = TRUE
    BY <1>2, <1>3, <1>4, TypedOwned DEF Corrupted, StoreTyped
  <2>2. \A u \in Tables : data.tables[u].root_page_num = s.root[u]
    BY <1>2, <1>3, <2>1
  <2> QED BY <1>1, <1>2, <1>3, <1>4, <2>2 DEF Tables
<1>5. CASE data' = WithRoots(s.root)
  <2>1. CatalogOK(data)
    BY DEF TypeInv, CatalogsOK
  <2>2. \A u \in Tables : data'.tables[u].root_page_num = s.root[u]
    BY <1>5, <2>1, RootedParts
  <2> QED BY <1>1, <1>2, <1>3, <2>2 DEF Tables
<1> QED
  BY <1>4, <1>5 DEF AddsRows

(* What is added to the table itself.                                      *)
AddedRowsTo(t, given) ==
    LET m == data.tables[t]
        n == data'.tables[t] IN
    /\ Agree(n, m)
    /\ Sound(t, n, heap', heap_disk, index', index_disk', Log', stale)
    /\ Sound(t, m, heap_disk, heap_disk, index_disk', index_disk', Log', stale)
    /\ t \notin stale =>
          /\ \A k \in Keys : FoundIn(n, index', k) => Survives(Log', t, n, index_disk', heap_disk, k)
          /\ \A k \in Keys : FoundIn(m, index, k) => FoundIn(n, index', k)
          /\ ~Corrupted(Store, t) => \A k \in given : FoundIn(n, index', k)
          /\ m.root_page_num => \A l, k : Survives(l, t, m, index_disk, heap_disk, k)
                                             => Survives(l, t, m, index_disk', heap_disk, k)

LEMMA AddedThis ==
    ASSUME TypeInv, SaveInv, Harmless, RowsBody, pc \in {"idle", "continue"},
           todo # << <<"recover">> >>, NEW t \in Tables, NEW ks, NEW done, NEW s, NEW rest,
           AddsRows(t, ks, done, s, rest)
    PROVE  AddedRowsTo(t, { done[i] : i \in 1 .. Len(done) })
<1> DEFINE given == { done[i] : i \in 1 .. Len(done) }
           m == data.tables[t]
           n == data'.tables[t]
           r == RecordsOf(t, done)
           hr == m.heap_relation_id
           ir == m.index_relation_id
<1>1. /\ Sound(t, m, heap, heap_disk, index, index_disk, Log, stale)
      /\ Valid(m, index, heap) /\ Valid(m, index_disk, heap_disk)
      /\ t \notin stale =>
            /\ Own(t, m, heap, heap_disk, Log)
            /\ Kept(t, m, index, index_disk, heap_disk, Log, promised[LifeOf(t)] \union Due(todo, t))
  BY RowsBefore
<1>2. /\ done \in Seq(Keys) /\ r \in Seq(RecordType)
      /\ heap' = s.heap /\ index' = s.index /\ index_disk' = s.index_disk
      /\ AddedTo(Store, s, t, given)
      /\ log_buffer' = log_buffer \o r /\ UNCHANGED log_file
  BY DEF AddsRows
<1>3. given \subseteq Keys
  BY <1>2
<1>4. /\ hr = HeapOf(t) /\ ir = IndexOf(t) /\ m.life = LifeOf(t)
      /\ Store.root[t] = m.root_page_num
      /\ \A k : Found(Store, t, k) <=> FoundIn(m, index, k)
      /\ log_file \in Seq(RecordType) /\ log_buffer \in Seq(RecordType) /\ Log \in Seq(RecordType)
  BY RowsTyped
<1>5. /\ n.heap_relation_id = hr /\ n.index_relation_id = ir /\ n.life = m.life
      /\ n.root_page_num = s.root[t]
      /\ m.root_page_num => n.root_page_num
  BY AddedRoots
<1>6. Log' = Log \o r
  BY <1>2, <1>4, GrownLog DEF Log
<1>7. /\ s.root[t] <=> m.root_page_num \/ given # {}
      /\ s.index_disk[ir] = IF m.root_page_num \/ given = {} THEN index_disk[ir] ELSE Zeros
      /\ (m.root_page_num => LeafValid(index[ir], heap[hr])) => (s.root[t] => LeafValid(s.index[ir], s.heap[hr]))
      /\ LivesAre(heap[hr], m.life) => LivesAre(s.heap[hr], m.life)
      /\ \A k \in Keys : Found(s, t, k) <=> Found(Store, t, k) \/ (k \in given /\ ~Corrupted(Store, t))
  <2>1. Store.heap = heap /\ Store.index = index /\ Store.index_disk = index_disk
    BY DEF Store
  <2> HIDE DEF given, m, hr, ir
  <2> QED BY <1>2, <1>4, <2>1 DEF AddedTo
<1>8. \A k : Found(s, t, k) <=> FoundIn(n, index', k)
  BY <1>2, <1>4, <1>5 DEF Found, FoundIn
<1>9. /\ RecordsAre(r, t, m.life)
      /\ \A k : k \notin given => ~Mentions(r, t, k)
      /\ \A k \in given : EndsInInsert(r, t, k)
  <2>1. /\ RecordsAre(r, t, LifeOf(t))
        /\ \A k : (\A i \in 1 .. Len(done) : done[i] # k) => ~Mentions(r, t, k)
        /\ \A k \in { done[i] : i \in 1 .. Len(done) } : EndsInInsert(r, t, k)
    BY <1>2, AddedRecords
  <2>2. \A k : k \notin given => \A i \in 1 .. Len(done) : done[i] # k
    OBVIOUS
  <2> QED BY <1>4, <2>1, <2>2
<1> HIDE DEF given, m, n, r, hr, ir
<1>10. Agree(n, m)
  BY <1>5 DEF Agree, hr, ir
<1>11. Valid(n, index', heap') /\ Valid(n, index_disk', heap_disk) /\ Valid(m, index_disk', heap_disk)
  <2>1. Valid(n, index', heap')
    BY <1>1, <1>2, <1>5, <1>7 DEF Valid, hr, ir
  <2>2. Valid(n, index_disk', heap_disk)
    BY <1>1, <1>2, <1>5, <1>7 DEF Valid, LeafValid, hr, ir
  <2>3. Valid(m, index_disk', heap_disk)
    BY <1>1, <1>2, <1>5, <1>7 DEF Valid, hr, ir
  <2> QED BY <2>1, <2>2, <2>3
<1>12. t \notin stale => Own(t, n, heap', heap_disk, Log') /\ Own(t, m, heap_disk, heap_disk, Log')
  <2> SUFFICES ASSUME t \notin stale
               PROVE  Own(t, n, heap', heap_disk, Log') /\ Own(t, m, heap_disk, heap_disk, Log')
    OBVIOUS
  <2>1. LivesAre(heap[hr], m.life) /\ LivesAre(heap_disk[hr], m.life) /\ RecordsAre(Log, t, m.life)
    BY <1>1 DEF Own, hr
  <2>2. RecordsAre(Log', t, m.life)
    BY <1>2, <1>4, <1>6, <1>9, <2>1, JoinedLog
  <2> QED BY <1>2, <1>5, <1>7, <2>1, <2>2 DEF Own, hr
<1>13. m.root_page_num => /\ index_disk'[ir] = index_disk[ir]
                          /\ \A k : InFiles(m, index_disk, heap_disk, k)
                                       => /\ InFiles(m, index_disk', heap_disk, k)
                                          /\ InFiles(n, index_disk', heap_disk, k)
  BY <1>2, <1>5, <1>7 DEF InFiles, hr, ir
<1>14. ASSUME t \notin stale, NEW k \in Keys, FoundIn(n, index', k)
       PROVE  Survives(Log', t, n, index_disk', heap_disk, k)
  <2>1. CASE k \in given
    <3>1. EndsInInsert(Log', t, k)
      BY <1>2, <1>4, <1>6, <1>9, <2>1, JoinedLog
    <3> QED BY <3>1 DEF Survives
  <2>2. CASE k \notin given
    <3>1. FoundIn(m, index, k)
      BY <1>4, <1>7, <1>8, <1>14, <2>2
    <3>2. Survives(Log, t, m, index_disk, heap_disk, k) /\ m.root_page_num
      BY <1>1, <1>14, <3>1 DEF Kept, FoundIn
    <3>3. Survives(Log, t, n, index_disk', heap_disk, k)
      BY <1>13, <3>2 DEF Survives
    <3>4. ~Mentions(r, t, k)
      BY <1>9, <2>2
    <3> QED BY <1>2, <1>4, <1>6, <3>3, <3>4, StillSurvives
  <2> QED BY <2>1, <2>2
<1>15. \A k \in Keys : FoundIn(m, index, k) => FoundIn(n, index', k)
  BY <1>4, <1>7, <1>8
<1>16. ~Corrupted(Store, t) => \A k \in given : FoundIn(n, index', k)
  BY <1>3, <1>7, <1>8
<1>17. m.root_page_num => \A l, k : Survives(l, t, m, index_disk, heap_disk, k)
                                       => Survives(l, t, m, index_disk', heap_disk, k)
  BY <1>13 DEF Survives
<1>18. /\ Sound(t, n, heap', heap_disk, index', index_disk', Log', stale)
       /\ Sound(t, m, heap_disk, heap_disk, index_disk', index_disk', Log', stale)
  BY <1>11, <1>12 DEF Sound
<1>19. AddedRowsTo(t, given)
  BY <1>10, <1>14, <1>15, <1>16, <1>17, <1>18 DEF AddedRowsTo, m, n
<1> QED
  BY <1>19 DEF given

LEMMA AddedOther ==
    ASSUME TypeInv, SaveInv, Harmless, RowsBody, pc \in {"idle", "continue"},
           todo # << <<"recover">> >>, NEW t \in Tables, NEW ks, NEW done, NEW s, NEW rest,
           AddsRows(t, ks, done, s, rest), NEW u \in Tables, u # t, NEW pr
    PROVE  /\ Alike(data'.tables[u], data.tables[u])
           /\ Sound(u, data'.tables[u], heap', heap_disk, index', index_disk', Log', stale)
           /\ Sound(u, data.tables[u], heap_disk, heap_disk, index_disk', index_disk', Log', stale)
           /\ Kept(u, data.tables[u], index, index_disk, heap_disk, Log, pr)
                 => Kept(u, data'.tables[u], index', index_disk', heap_disk, Log', pr)
           /\ \A l, k : Survives(l, u, data.tables[u], index_disk, heap_disk, k)
                           => Survives(l, u, data.tables[u], index_disk', heap_disk, k)
<1> DEFINE f == data.tables[u]
           m == data'.tables[u]
           r == RecordsOf(t, done)
<1>1. /\ done \in Seq(Keys) /\ r \in Seq(RecordType)
      /\ heap' = s.heap /\ index' = s.index /\ index_disk' = s.index_disk
      /\ SameElsewhere(Store, s, t)
      /\ log_buffer' = log_buffer \o r /\ UNCHANGED log_file
  BY DEF AddsRows, AddedTo
<1>2. /\ f.heap_relation_id = HeapOf(u) /\ f.index_relation_id = IndexOf(u) /\ f.life = LifeOf(u)
      /\ log_file \in Seq(RecordType) /\ log_buffer \in Seq(RecordType) /\ Log \in Seq(RecordType)
  BY RowsTyped
<1>3. Alike(m, f)
  BY AddedRoots DEF Alike
<1>4. Log' = Log \o r
  BY <1>1, <1>2, GrownLog DEF Log
<1>5. /\ heap'[f.heap_relation_id] = heap[f.heap_relation_id]
      /\ index'[f.index_relation_id] = index[f.index_relation_id]
      /\ index_disk'[f.index_relation_id] = index_disk[f.index_relation_id]
  <2>1. Owned
    BY TypedOwned
  <2>2. /\ HeapOf(u) \in Relations /\ IndexOf(u) \in Relations
        /\ HeapOf(u) # HeapOf(t) /\ IndexOf(u) # IndexOf(t)
    BY <2>1 DEF Owned
  <2>3. Store.heap = heap /\ Store.index = index /\ Store.index_disk = index_disk
    BY DEF Store
  <2> QED BY <1>1, <1>2, <2>2, <2>3 DEF SameElsewhere
<1>6. RecordsAre(r, u, f.life) /\ \A k : ~Mentions(r, u, k)
  BY <1>1, AddedRecords
<1>7. /\ Sound(u, f, heap, heap_disk, index, index_disk, Log, stale)
      /\ Sound(u, f, heap_disk, heap_disk, index_disk, index_disk, Log, stale)
  BY RowsBefore
<1> HIDE DEF f, m, r
<1>8. /\ Sound(u, m, heap', heap_disk, index', index_disk', Log \o r, stale)
      /\ Sound(u, f, heap_disk, heap_disk, index_disk', index_disk', Log \o r, stale)
      /\ Kept(u, f, index, index_disk, heap_disk, Log, pr)
            => Kept(u, m, index', index_disk', heap_disk, Log \o r, pr)
      /\ \A l, k : Survives(l, u, f, index_disk, heap_disk, k)
                      => Survives(l, u, f, index_disk', heap_disk, k)
  <2>1. Log \in Seq(RecordType) /\ r \in Seq(RecordType)
    BY <1>1, <1>2
  <2>2. CarriedOver(u, m, f, heap, heap', heap_disk, index, index', index_disk, index_disk',
                    Log, r, stale, pr)
    BY <1>3, <1>5, <1>6, <2>1, RowsElsewhere
  <2> QED BY <1>7, <2>2 DEF CarriedOver
<1> QED
  BY <1>3, <1>4, <1>8 DEF f, m

LEMMA AddRowsKeepsRows ==
    ASSUME TypeInv, SaveInv, Harmless, RowsBody, pc \in {"idle", "continue"},
           todo # << <<"recover">> >>, NEW t \in Tables, NEW ks, NEW done, NEW s, NEW rest,
           AddsRows(t, ks, done, s, rest),
           rest # << <<"recover">> >>, rest # << <<"truncate">> >>,
           \A u \in Tables : u # t => Due(rest, u) = {},
           ~Corrupted(Store, t) =>
              \A k \in Due(rest, t) :
                 k \in Keys /\ (Found(Store, t, k) \/ \E i \in 1 .. Len(done) : done[i] = k)
    PROVE  RowsBody'
<1> DEFINE given == { done[i] : i \in 1 .. Len(done) }
<1>1. /\ UNCHANGED <<catalog_file, heap_disk, log_file, stale, promised>>
      /\ \/ Corrupted(Store, t) /\ pc' = "idle" /\ todo' = <<>>
         \/ ~Corrupted(Store, t) /\ pc' = "write" /\ todo' = rest
  BY DEF AddsRows, saveVars, historyVars
<1>2. /\ todo' # << <<"recover">> >> /\ todo' # << <<"truncate">> >>
      /\ pc' \notin {"down", "wiped"}
  BY <1>1
<1>3. /\ Tables' = Tables
      /\ \A u \in Tables : data'.tables[u].life = data.tables[u].life
  BY AddedRoots
<1>4. AddedRowsTo(t, given)
  BY AddedThis
<1>5. ASSUME NEW u \in Tables, u # t, NEW pr
      PROVE  /\ Alike(data'.tables[u], data.tables[u])
             /\ Sound(u, data'.tables[u], heap', heap_disk, index', index_disk', Log', stale)
             /\ Sound(u, data.tables[u], heap_disk, heap_disk, index_disk', index_disk', Log', stale)
             /\ Kept(u, data.tables[u], index, index_disk, heap_disk, Log, pr)
                   => Kept(u, data'.tables[u], index', index_disk', heap_disk, Log', pr)
             /\ \A l, k : Survives(l, u, data.tables[u], index_disk, heap_disk, k)
                             => Survives(l, u, data.tables[u], index_disk', heap_disk, k)
  BY <1>5, AddedOther
<1>6. ASSUME NEW u \in Tables
      PROVE  /\ LifeOf(u) = data.tables[u].life
             /\ promised[data.tables[u].life] \subseteq Keys
             /\ u \notin stale =>
                   /\ Kept(u, data.tables[u], index, index_disk, heap_disk, Log,
                           promised[data.tables[u].life])
                   /\ \A k \in promised[data.tables[u].life] :
                         Survives(log_file, u, data.tables[u], index_disk, heap_disk, k)
  <2>1. LifeOf(u) = data.tables[u].life
    BY DEF LifeOf
  <2>2. u \notin stale =>
           /\ Kept(u, data.tables[u], index, index_disk, heap_disk, Log,
                   promised[LifeOf(u)] \union Due(todo, u))
           /\ \A k \in promised[LifeOf(u)] :
                 Survives(log_file, u, data.tables[u], index_disk, heap_disk, k)
    BY RowsBefore
  <2>3. u \notin stale => Kept(u, data.tables[u], index, index_disk, heap_disk, Log,
                              promised[data.tables[u].life])
    BY <2>1, <2>2 DEF Kept
  <2> QED BY <2>1, <2>2, <2>3, PromisedKeys
<1>7. \A u \in Tables' :
         IF u \in Tables THEN Agree(data'.tables[u], data.tables[u])
         ELSE promised'[data'.tables[u].life] = {}
  <2>1. \A u \in Tables : u # t => Agree(data'.tables[u], data.tables[u])
    BY <1>5 DEF Alike, Agree
  <2> QED BY <1>3, <1>4, <2>1 DEF AddedRowsTo
<1>8. \A u \in Tables' :
         Sound(u, data'.tables[u], heap', heap_disk', index', index_disk', Log', stale')
  BY <1>1, <1>3, <1>4, <1>5 DEF AddedRowsTo
<1>9. \A u \in Tables :
         Sound(u, data.tables[u], heap_disk', heap_disk', index_disk', index_disk', Log', stale')
  BY <1>1, <1>4, <1>5 DEF AddedRowsTo
<1>10. \A u \in Tables' \ stale' :
         Kept(u, data'.tables[u], index', index_disk', heap_disk', Log',
              promised'[data'.tables[u].life] \union Due(todo', u))
  <2> SUFFICES ASSUME NEW u \in Tables \ stale
               PROVE  Kept(u, data'.tables[u], index', index_disk', heap_disk, Log',
                           promised[data.tables[u].life] \union Due(todo', u))
    BY <1>1, <1>3
  <2>1. CASE u # t
    <3>1. Due(todo', u) = {}
      BY <1>1, <2>1, DueNothing
    <3> QED BY <1>5, <1>6, <2>1, <3>1
  <2>2. CASE u = t
    <3>1. \A k \in Keys : FoundIn(data'.tables[t], index', k)
             => Survives(Log', t, data'.tables[t], index_disk', heap_disk, k)
      BY <1>4, <2>2 DEF AddedRowsTo
    <3>2. \A k \in promised[data.tables[t].life] : FoundIn(data'.tables[t], index', k)
      BY <1>4, <1>6, <2>2 DEF AddedRowsTo, Kept
    <3>3. ASSUME NEW k \in Due(todo', t) PROVE FoundIn(data'.tables[t], index', k)
      <4>1. ~Corrupted(Store, t) /\ todo' = rest
        BY <1>1, <3>3, DueNothing
      <4>2. k \in Keys /\ (Found(Store, t, k) \/ k \in given)
        BY <3>3, <4>1
      <4> HIDE DEF given
      <4>3. Found(Store, t, k) <=> FoundIn(data.tables[t], index, k)
        BY RowsTyped
      <4> QED BY <1>4, <2>2, <4>1, <4>2, <4>3 DEF AddedRowsTo
    <3> QED BY <2>2, <3>1, <3>2, <3>3 DEF Kept
  <2> QED BY <2>1, <2>2
<1>11. \A u \in Tables \ stale' : \A k \in promised'[data.tables[u].life] :
         Survives(log_file', u, data.tables[u], index_disk', heap_disk', k)
  <2> SUFFICES ASSUME NEW u \in Tables \ stale, NEW k \in promised[data.tables[u].life]
               PROVE  Survives(log_file, u, data.tables[u], index_disk', heap_disk, k)
    BY <1>1
  <2>1. Survives(log_file, u, data.tables[u], index_disk, heap_disk, k)
    BY <1>6
  <2>2. CASE u # t
    BY <1>5, <2>1, <2>2
  <2>3. CASE u = t
    <3>1. data.tables[t].root_page_num
      BY <1>6, <2>3 DEF Kept, FoundIn
    <3> QED BY <1>4, <2>1, <2>3, <3>1 DEF AddedRowsTo
  <2> QED BY <2>2, <2>3
<1> QED
  BY <1>1, <1>2, <1>7, <1>8, <1>9, <1>10, <1>11, RowsStep

LEMMA InsertKeepsRows ==
    ASSUME TypeInv, SaveInv, Harmless, RowsBody, NEW t, NEW k \in Keys, Insert(t, k)
    PROVE  RowsBody'
<1> DEFINE rest == << <<"count", t, 1>>, <<"commit", t, {k}>> >>
<1>1. pc = "idle" /\ t \in Tables
  BY InsertParts
<1>2. PICK done, s : AddsRows(t, <<k>>, done, s, rest)
  BY InsertParts
<1>3. todo = <<>> /\ todo # << <<"recover">> >>
  BY <1>1 DEF TypeInv, TodoTyped
<1>4. rest # << <<"recover">> >> /\ rest # << <<"truncate">> >>
  OBVIOUS
<1>5. \A u : Due(rest, u) = IF t = u THEN {k} ELSE {}
  BY DueKeys
<1>6. 1 \in 1 .. Len(done) /\ done[1] = k
  BY <1>2 DEF AddsRows
<1> HIDE DEF rest
<1>7. \A u \in Tables : u # t => Due(rest, u) = {}
  BY <1>5
<1>8. \A j \in Due(rest, t) :
         j \in Keys /\ (Found(Store, t, j) \/ \E i \in 1 .. Len(done) : done[i] = j)
  BY <1>5, <1>6
<1> QED
  BY <1>1, <1>2, <1>3, <1>4, <1>7, <1>8, AddRowsKeepsRows

LEMMA DemoRowsKeepsRows ==
    ASSUME TypeInv, SaveInv, Harmless, RowsBody, DemoRows
    PROVE  RowsBody'
<1>1. /\ pc = "continue" /\ DemoTable \in Tables
      /\ \E ks, done, s :
            /\ AddsRows(DemoTable, ks, done, s, DemoRest)
            /\ \A k \in Keys : (\E i \in 1 .. Len(ks) : ks[i] = k)
                  <=> k \in 1 .. DemoCount /\ ~Found(Store, DemoTable, k)
  BY DemoParts
<1>2. PICK ks, done, s :
            /\ AddsRows(DemoTable, ks, done, s, DemoRest)
            /\ \A k \in Keys : (\E i \in 1 .. Len(ks) : ks[i] = k)
                  <=> k \in 1 .. DemoCount /\ ~Found(Store, DemoTable, k)
  BY <1>1
<1>3. todo # << <<"recover">> >>
  BY DEF DemoRows, Doing
<1>4. DemoRest # << <<"recover">> >> /\ DemoRest # << <<"truncate">> >>
  BY DEF DemoRest
<1>5. \A u : Due(DemoRest, u) = IF DemoTable = u THEN 1 .. DemoCount ELSE {}
  BY DueKeys DEF DemoRest
<1>6. 1 .. DemoCount \subseteq Keys
  BY CatalogAssumption DEF Keys
<1>7. ~Corrupted(Store, DemoTable) => done = ks
  BY <1>2 DEF AddsRows
<1>8. \A u \in Tables : u # DemoTable => Due(DemoRest, u) = {}
  BY <1>5
<1>9. ~Corrupted(Store, DemoTable) =>
         \A k \in Due(DemoRest, DemoTable) :
            k \in Keys /\ (Found(Store, DemoTable, k) \/ \E i \in 1 .. Len(done) : done[i] = k)
  <2> SUFFICES ASSUME done = ks, NEW k \in 1 .. DemoCount
               PROVE  k \in Keys /\ (Found(Store, DemoTable, k) \/ \E i \in 1 .. Len(done) : done[i] = k)
    BY <1>5, <1>7
  <2>1. k \in Keys
    BY <1>6
  <2> QED BY <1>2, <2>1
<1> QED
  BY <1>1, <1>2, <1>3, <1>4, <1>8, <1>9, AddRowsKeepsRows

-----------------------------------------------------------------------------
(* The rows: tuples that are deleted *)

(* The table whose tuples are deleted.                                     *)
DeletedRowsOf(t, ks, recs) ==
    LET m == data.tables[t] IN
    /\ Sound(t, m, heap', heap_disk, index', index_disk, Log \o recs, stale)
    /\ Sound(t, m, heap_disk, heap_disk, index_disk, index_disk, Log \o recs, stale)
    /\ t \notin stale =>
          /\ \A k \in Keys : FoundIn(m, index', k) => Survives(Log \o recs, t, m, index_disk, heap_disk, k)
          /\ \A k \in Keys \ ks : FoundIn(m, index, k) => FoundIn(m, index', k)

LEMMA DeletedThis ==
    ASSUME TypeInv, SaveInv, Harmless, RowsBody, pc = "idle", todo # << <<"recover">> >>,
           NEW t \in Tables, NEW ks \in SUBSET Keys, NEW hit, NEW recs,
           DeletesRows(t, ks, hit, recs)
    PROVE  DeletedRowsOf(t, ks, recs)
<1> DEFINE m == data.tables[t]
           old == heap[HeapOf(t)]
           new == heap'[HeapOf(t)]
           leaf == index[IndexOf(t)]
           page == index'[IndexOf(t)]
<1>1. /\ Sound(t, m, heap, heap_disk, index, index_disk, Log, stale)
      /\ Valid(m, index, heap) /\ Valid(m, index_disk, heap_disk)
      /\ t \notin stale =>
            /\ Own(t, m, heap, heap_disk, Log)
            /\ Kept(t, m, index, index_disk, heap_disk, Log, promised[LifeOf(t)] \union Due(todo, t))
  BY RowsBefore
<1>2. /\ m.heap_relation_id = HeapOf(t) /\ m.index_relation_id = IndexOf(t) /\ m.life = LifeOf(t)
      /\ \A k : Found(Store, t, k) <=> FoundIn(m, index, k)
      /\ Log \in Seq(RecordType)
  BY RowsTyped
<1>3. /\ hit = { i \in Live(old) : old[i].key \in ks }
      /\ Len(new) = Len(old) /\ Live(new) = Live(old) \ hit
      /\ \A i \in 1 .. Len(old) : new[i].key = old[i].key /\ new[i].life = old[i].life
      /\ page = Zeros <=> leaf = Zeros
      /\ \A k \in Keys :
            leaf # Zeros =>
               page[k] = IF (\E j \in ks : Found(Store, t, j)) /\ (\E i \in hit : old[i].key = k)
                         THEN 0 ELSE leaf[k]
      /\ recs \in Seq(RecordType)
      /\ \A j \in 1 .. Len(recs) :
            /\ recs[j].op = "delete" /\ recs[j].table = t
            /\ \E i \in hit : recs[j].key = old[i].key /\ recs[j].life = old[i].life
  BY DEF DeletesRows
<1>4. old \in Seq(SlotType)
  BY NumbersTyped
<1>5. Live(old) \subseteq 1 .. Len(old) /\ DOMAIN recs = 1 .. Len(recs)
  BY <1>3, <1>4 DEF Live
<1>6. \A k \in Keys : FoundIn(m, index, k) <=> m.root_page_num /\ leaf # Zeros /\ leaf[k] # 0
  BY <1>2 DEF FoundIn
<1>7. \A k \in Keys : FoundIn(m, index', k) <=> m.root_page_num /\ page # Zeros /\ page[k] # 0
  BY <1>2 DEF FoundIn
<1>8. m.root_page_num => LeafValid(leaf, old)
  BY <1>1, <1>2 DEF Valid
<1> HIDE DEF m, old, new, leaf, page
<1>9. ASSUME NEW k \in Keys, FoundIn(m, index', k)
      PROVE  FoundIn(m, index, k) /\ page[k] = leaf[k] /\ \A i \in hit : old[i].key # k
  <2>1. m.root_page_num /\ page # Zeros /\ page[k] # 0 /\ leaf # Zeros
    BY <1>3, <1>7, <1>9
  <2>2. page[k] = leaf[k] /\ leaf[k] # 0
    BY <1>3, <2>1
  <2>3. FoundIn(m, index, k)
    BY <1>6, <2>1, <2>2
  <2>4. ASSUME NEW i \in hit, old[i].key = k PROVE FALSE
    <3>1. k \in ks /\ Found(Store, t, k)
      BY <1>2, <1>3, <2>3, <2>4
    <3>2. page[k] = 0
      BY <1>3, <2>1, <2>4, <3>1
    <3> QED BY <2>1, <3>2
  <2> QED BY <2>2, <2>3, <2>4
<1>10. Valid(m, index', heap')
  <2> SUFFICES ASSUME m.root_page_num, page # Zeros, NEW k \in Keys, page[k] # 0
               PROVE  page[k] \in Live(new) /\ new[page[k]].key = k
    BY <1>2 DEF Valid, LeafValid, page, new
  <2>1. FoundIn(m, index', k)
    BY <1>7
  <2>2. page[k] = leaf[k] /\ (\A i \in hit : old[i].key # k) /\ leaf # Zeros /\ leaf[k] # 0
    BY <1>9, <1>6, <2>1
  <2>3. leaf[k] \in Live(old) /\ old[leaf[k]].key = k
    BY <1>8, <2>2 DEF LeafValid
  <2> QED BY <1>3, <1>5, <2>2, <2>3
<1>11. t \notin stale => /\ LivesAre(new, m.life)
                         /\ LivesAre(heap_disk[HeapOf(t)], m.life)
                         /\ RecordsAre(Log \o recs, t, m.life)
  <2> SUFFICES ASSUME t \notin stale
               PROVE  /\ LivesAre(new, m.life)
                      /\ LivesAre(heap_disk[HeapOf(t)], m.life)
                      /\ RecordsAre(Log \o recs, t, m.life)
    OBVIOUS
  <2>1. LivesAre(old, m.life) /\ LivesAre(heap_disk[HeapOf(t)], m.life) /\ RecordsAre(Log, t, m.life)
    BY <1>1, <1>2 DEF Own, old
  <2>2. LivesAre(new, m.life)
    BY <1>3, <1>5, <2>1 DEF LivesAre
  <2>3. RecordsAre(recs, t, m.life)
    BY <1>3, <1>5, <2>1 DEF RecordsAre, LivesAre
  <2> QED BY <1>2, <1>3, <2>1, <2>2, <2>3, JoinedLog
<1>12. /\ Sound(t, m, heap', heap_disk, index', index_disk, Log \o recs, stale)
       /\ Sound(t, m, heap_disk, heap_disk, index_disk, index_disk, Log \o recs, stale)
  <2>1. t \notin stale => /\ Own(t, m, heap', heap_disk, Log \o recs)
                          /\ Own(t, m, heap_disk, heap_disk, Log \o recs)
    BY <1>2, <1>11 DEF Own, new
  <2> QED BY <1>1, <1>10, <2>1 DEF Sound
<1>13. ASSUME t \notin stale, NEW k \in Keys, FoundIn(m, index', k)
       PROVE  Survives(Log \o recs, t, m, index_disk, heap_disk, k)
  <2>1. FoundIn(m, index, k) /\ \A i \in hit : old[i].key # k
    BY <1>9, <1>13
  <2>2. ~Mentions(recs, t, k)
    BY <1>3, <1>5, <2>1 DEF Mentions, On
  <2>3. Survives(Log, t, m, index_disk, heap_disk, k)
    BY <1>1, <1>13, <2>1 DEF Kept
  <2> QED BY <1>2, <1>3, <2>2, <2>3, StillSurvives
<1>14. ASSUME NEW k \in Keys \ ks, FoundIn(m, index, k) PROVE FoundIn(m, index', k)
  <2>1. \A i \in hit : old[i].key # k
    BY <1>3
  <2>2. page[k] = leaf[k] /\ page # Zeros
    BY <1>3, <1>6, <1>14, <2>1
  <2> QED BY <1>6, <1>7, <1>14, <2>2
<1> QED
  BY <1>12, <1>13, <1>14 DEF DeletedRowsOf, m

LEMMA DeletedOther ==
    ASSUME TypeInv, NEW t \in Tables, NEW ks, NEW hit, NEW recs, DeletesRows(t, ks, hit, recs),
           NEW u \in Tables, u # t, NEW pr
    PROVE  CarriedOver(u, data.tables[u], data.tables[u], heap, heap', heap_disk, index, index',
                       index_disk, index_disk, Log, recs, stale, pr)
<1> DEFINE f == data.tables[u]
<1>1. /\ f.heap_relation_id = HeapOf(u) /\ f.index_relation_id = IndexOf(u)
      /\ Log \in Seq(RecordType)
  BY RowsTyped
<1>2. /\ recs \in Seq(RecordType) /\ \A j \in 1 .. Len(recs) : recs[j].table = t
      /\ \A r \in Relations : r # HeapOf(t) => heap'[r] = heap[r]
      /\ \A r \in Relations : r # IndexOf(t) => index'[r] = index[r]
  BY DEF DeletesRows
<1>3. /\ heap'[f.heap_relation_id] = heap[f.heap_relation_id]
      /\ index'[f.index_relation_id] = index[f.index_relation_id]
  <2>1. Owned
    BY TypedOwned
  <2>2. /\ HeapOf(u) \in Relations /\ IndexOf(u) \in Relations
        /\ HeapOf(u) # HeapOf(t) /\ IndexOf(u) # IndexOf(t)
    BY <2>1 DEF Owned
  <2> QED BY <1>1, <1>2, <2>2
<1>4. RecordsAre(recs, u, f.life) /\ \A k : ~Mentions(recs, u, k)
  <2>1. DOMAIN recs = 1 .. Len(recs)
    BY <1>2
  <2> QED BY <1>2, <2>1 DEF RecordsAre, Mentions, On
<1>5. Alike(f, f)
  BY DEF Alike
<1> HIDE DEF f
<1>6. CarriedOver(u, f, f, heap, heap', heap_disk, index, index', index_disk, index_disk,
                  Log, recs, stale, pr)
  BY <1>1, <1>2, <1>3, <1>4, <1>5, RowsElsewhere
<1> QED
  BY <1>6 DEF f

LEMMA DeleteKeepsRows ==
    ASSUME TypeInv, SaveInv, Harmless, RowsBody,
           NEW t \in Tables, NEW ks \in SUBSET Keys, Delete(t, ks)
    PROVE  RowsBody'
<1>1. PICK hit, recs : DeletesRows(t, ks, hit, recs)
  BY DeleteParts
<1>2. /\ pc = "idle" /\ pc' = "continue"
      /\ \/ todo' = << <<"commit", t, {}>> >>
         \/ todo' = << <<"count", t, -Len(recs)>>, <<"commit", t, {}>> >>
      /\ promised' = [promised EXCEPT ![LifeOf(t)] = @ \ ks]
      /\ recs \in Seq(RecordType) /\ log_buffer' = log_buffer \o recs
      /\ UNCHANGED <<data, catalog_file, heap_disk, index_disk, log_file, stale>>
  BY <1>1 DEF DeletesRows, saveVars, fileVars
<1>3. todo = <<>> /\ todo # << <<"recover">> >>
  BY <1>2 DEF TypeInv, TodoTyped
<1>4. /\ todo' # << <<"recover">> >> /\ todo' # << <<"truncate">> >>
      /\ \A u : Due(todo', u) = {}
  <2>1. CASE todo' = << <<"commit", t, {}>> >>
    <3>1. \A u : Due(todo', u) = IF t = u THEN {} ELSE {}
      BY <2>1, DueKeys
    <3> QED BY <2>1, <3>1
  <2>2. CASE todo' = << <<"count", t, -Len(recs)>>, <<"commit", t, {}>> >>
    <3>1. \A u : Due(todo', u) = IF t = u THEN {} ELSE {}
      BY <2>2, DueKeys
    <3>2. Len(todo') = 2
      BY <2>2
    <3>3. todo' # << <<"recover">> >> /\ todo' # << <<"truncate">> >>
      BY <3>2
    <3> QED BY <3>1, <3>3
  <2> QED BY <1>2, <2>1, <2>2
<1>5. /\ log_file \in Seq(RecordType) /\ log_buffer \in Seq(RecordType) /\ Log \in Seq(RecordType)
      /\ Log' = Log \o recs
  BY <1>2, RowsTyped, GrownLog DEF Log
<1>6. Tables' = Tables
  BY <1>2 DEF Tables
<1>7. DeletedRowsOf(t, ks, recs)
  BY <1>1, <1>2, <1>3, DeletedThis
<1>8. ASSUME NEW u \in Tables
      PROVE  /\ Sound(u, data.tables[u], heap, heap_disk, index, index_disk, Log, stale)
             /\ Sound(u, data.tables[u], heap_disk, heap_disk, index_disk, index_disk, Log, stale)
             /\ promised[data.tables[u].life] \subseteq Keys
             /\ u \notin stale =>
                   /\ Kept(u, data.tables[u], index, index_disk, heap_disk, Log,
                           promised[data.tables[u].life])
                   /\ \A k \in promised[data.tables[u].life] :
                         Survives(log_file, u, data.tables[u], index_disk, heap_disk, k)
  <2>1. LifeOf(u) = data.tables[u].life
    BY DEF LifeOf
  <2>2. /\ Sound(u, data.tables[u], heap, heap_disk, index, index_disk, Log, stale)
        /\ Sound(u, data.tables[u], heap_disk, heap_disk, index_disk, index_disk, Log, stale)
        /\ u \notin stale =>
              /\ Kept(u, data.tables[u], index, index_disk, heap_disk, Log,
                      promised[LifeOf(u)] \union Due(todo, u))
              /\ \A k \in promised[LifeOf(u)] :
                    Survives(log_file, u, data.tables[u], index_disk, heap_disk, k)
    BY <1>2, <1>3, RowsBefore
  <2>3. Due(todo, u) = {}
    BY <1>3, DueNothing
  <2>4. promised[LifeOf(u)] \union Due(todo, u) = promised[data.tables[u].life]
    BY <2>1, <2>3
  <2> QED BY <2>1, <2>2, <2>4, PromisedKeys
<1>9. ASSUME NEW u \in Tables
      PROVE  promised'[data.tables[u].life] = IF u = t THEN promised[data.tables[u].life] \ ks
                                              ELSE promised[data.tables[u].life]
  <2> DEFINE lu == LifeOf(u)
             lt == LifeOf(t)
  <2>1. promised \in [1 .. MaxCreates -> SUBSET Keys]
    BY DEF TypeInv, HistoryTyped
  <2>2. lu \in 1 .. MaxCreates /\ lt \in 1 .. MaxCreates /\ (lu = lt <=> u = t)
    BY TypedOwned
  <2>3. lu = data.tables[u].life
    BY DEF LifeOf
  <2>4. promised' = [promised EXCEPT ![lt] = @ \ ks]
    BY <1>2
  <2> HIDE DEF lu, lt
  <2>5. promised'[lu] = IF lu = lt THEN promised[lu] \ ks ELSE promised[lu]
    BY <2>1, <2>2, <2>4
  <2> QED BY <2>2, <2>3, <2>5
<1>10. ASSUME NEW u \in Tables, u # t
       PROVE  /\ Sound(u, data.tables[u], heap', heap_disk, index', index_disk, Log \o recs, stale)
              /\ Sound(u, data.tables[u], heap_disk, heap_disk, index_disk, index_disk, Log \o recs, stale)
              /\ u \notin stale => Kept(u, data.tables[u], index', index_disk, heap_disk, Log \o recs,
                                        promised[data.tables[u].life])
  <2>1. CarriedOver(u, data.tables[u], data.tables[u], heap, heap', heap_disk, index, index',
                    index_disk, index_disk, Log, recs, stale, promised[data.tables[u].life])
    BY <1>1, <1>10, DeletedOther
  <2> QED BY <1>8, <2>1 DEF CarriedOver
<1>11. t \notin stale => Kept(t, data.tables[t], index', index_disk, heap_disk, Log \o recs,
                              promised[data.tables[t].life] \ ks)
  BY <1>7, <1>8 DEF DeletedRowsOf, Kept
<1>12. \A u \in Tables' :
         IF u \in Tables THEN Agree(data'.tables[u], data.tables[u])
         ELSE promised'[data'.tables[u].life] = {}
  BY <1>2, <1>6 DEF Agree
<1>13. \A u \in Tables' :
         Sound(u, data'.tables[u], heap', heap_disk', index', index_disk', Log', stale')
  BY <1>2, <1>5, <1>6, <1>7, <1>10 DEF DeletedRowsOf
<1>14. \A u \in Tables :
         Sound(u, data.tables[u], heap_disk', heap_disk', index_disk', index_disk', Log', stale')
  BY <1>2, <1>5, <1>7, <1>10 DEF DeletedRowsOf
<1>15. \A u \in Tables' \ stale' :
         Kept(u, data'.tables[u], index', index_disk', heap_disk', Log',
              promised'[data'.tables[u].life] \union Due(todo', u))
  <2> SUFFICES ASSUME NEW u \in Tables \ stale
               PROVE  Kept(u, data.tables[u], index', index_disk, heap_disk, Log \o recs,
                           promised'[data.tables[u].life])
    BY <1>2, <1>4, <1>5, <1>6
  <2> QED BY <1>9, <1>10, <1>11
<1>16. \A u \in Tables \ stale' : \A k \in promised'[data.tables[u].life] :
         Survives(log_file', u, data.tables[u], index_disk', heap_disk', k)
  <2> SUFFICES ASSUME NEW u \in Tables \ stale, NEW k \in promised'[data.tables[u].life]
               PROVE  Survives(log_file, u, data.tables[u], index_disk, heap_disk, k)
    BY <1>2
  <2>1. k \in promised[data.tables[u].life]
    BY <1>9
  <2> QED BY <1>8, <2>1
<1> QED
  BY <1>2, <1>3, <1>4, <1>12, <1>13, <1>14, <1>15, <1>16, RowsStep

-----------------------------------------------------------------------------
(* The rows: recovery *)

(* A key that the log mentions has a last record.                          *)
LEMMA LastOfMentions ==
    ASSUME log_file \in Seq(RecordType), NEW t, NEW k, Mentions(log_file, t, k)
    PROVE  \E i \in 1 .. Len(log_file) : LastMention(Len(log_file), i, t, k)
<1> DEFINE n == Len(log_file)
           T == { i \in 1 .. n : On(log_file[i], t, k) }
<1>1. n \in Nat /\ DOMAIN log_file = 1 .. n
  OBVIOUS
<1>2. T \in SUBSET Nat /\ T # {} /\ \A x \in T : x <= n
  BY <1>1 DEF Mentions
<1> HIDE DEF T
<1>3. PICK i \in T : \A x \in T : i >= x
  BY <1>1, <1>2, LargestNumber
<1>4. i \in 1 .. n /\ On(log_file[i], t, k)
  BY DEF T
<1>5. ASSUME NEW j \in 1 .. n, j > i PROVE ~On(log_file[j], t, k)
  <2>1. j \notin T
    BY <1>3, <1>4, <1>5
  <2> QED BY <2>1 DEF T
<1> QED
  BY <1>4, <1>5 DEF LastMention

(* What a recovery makes of one table.                                     *)
RecoveredRowsOf(t) ==
    LET m == data.tables[t]
        n == data'.tables[t] IN
    /\ Agree(n, m) /\ n.life = m.life
    /\ Sound(t, n, heap', heap_disk, index', index_disk', Log, stale)
    /\ Sound(t, m, heap_disk, heap_disk, index_disk', index_disk', Log, stale)
    /\ t \notin stale =>
          /\ Kept(t, n, index', index_disk', heap_disk, Log, promised[m.life])
          /\ \A k \in promised[m.life] : Survives(log_file, t, m, index_disk', heap_disk, k)

LEMMA RecoveredTables ==
    ASSUME TypeInv, RecoversRows
    PROVE  /\ Tables' = Tables
           /\ \A t \in Tables :
                 /\ data'.tables[t].heap_relation_id = data.tables[t].heap_relation_id
                 /\ data'.tables[t].index_relation_id = data.tables[t].index_relation_id
                 /\ data'.tables[t].life = data.tables[t].life
                 /\ data'.tables[t].root_page_num = Replayed.root[t]
<1>1. CatalogOK(data)
  BY DEF TypeInv, CatalogsOK
<1>2. CASE data' = data /\ Replayed = Rebuilt
  <2>1. Replayed.root = Store.root
    BY <1>2, RebuiltParts, TypedOwned
  <2> QED BY <1>2, <2>1, RowsTyped DEF Tables
<1>3. CASE data' = WithRoots(Replayed.root)
  <2>1. /\ DOMAIN data'.tables = Tables
        /\ \A t \in Tables :
              /\ data'.tables[t].heap_relation_id = HeapOf(t)
              /\ data'.tables[t].index_relation_id = IndexOf(t)
              /\ data'.tables[t].life = LifeOf(t)
              /\ data'.tables[t].root_page_num = Replayed.root[t]
    BY <1>1, <1>3, RootedParts
  <2> QED BY <2>1 DEF Tables, HeapOf, IndexOf, LifeOf
<1> QED
  BY <1>2, <1>3 DEF RecoversRows

LEMMA RecoveredThis ==
    ASSUME TypeInv, SaveInv, Harmless, RowsBody, pc = "continue", todo = << <<"recover">> >>,
           ~Panics, RecoversRows, NEW t \in Tables
    PROVE  RecoveredRowsOf(t)
<1> DEFINE m == data.tables[t]
           n == data'.tables[t]
           s == Replayed
           b == Rebuilt
           hr == m.heap_relation_id
           ir == m.index_relation_id
           last == Len(log_file)
<1>1. heap = heap_disk /\ index = index_disk /\ log_buffer = <<>>
  BY DEF RowsBody, MemoryIsFiles
<1>2. /\ log_file \in Seq(RecordType) /\ Log = log_file
      /\ DOMAIN log_file = 1 .. last /\ last \in Nat
  BY <1>1, RowsTyped, EmptyLog DEF Log
<1>3. /\ hr = HeapOf(t) /\ ir = IndexOf(t) /\ m.life = LifeOf(t)
  BY RowsTyped
<1>4. /\ FileTables = data.tables /\ DOMAIN FileTables = Tables
  BY SavedOutside
<1>5. /\ Sound(t, m, heap, heap_disk, index, index_disk, Log, stale)
      /\ Sound(t, m, heap_disk, heap_disk, index_disk, index_disk, Log, stale)
      /\ t \notin stale => \A k \in promised[m.life] :
            Survives(log_file, t, m, index_disk, heap_disk, k)
  BY <1>4 DEF RowsBody, MemorySound, FilesSound, FilesKept
<1>6. \A u \in Tables :
         data.tables[u].root_page_num => LeafValid(index[IndexOf(u)], heap[HeapOf(u)])
  BY DEF RowsBody, MemorySound, Sound, Valid, IndexOf, HeapOf
<1>7. Owned /\ StoreTyped(Store)
  BY TypedOwned
<1>8. ReplayedTo(last, s, t) /\ StoreTyped(s)
  BY <1>2, <1>6, <1>7, ReplayedStore
<1>9. RebuiltFrom(b, t)
  BY <1>7, RebuiltTable
<1>10. /\ n.heap_relation_id = hr /\ n.index_relation_id = ir /\ n.life = m.life
       /\ n.root_page_num = s.root[t]
  BY RecoveredTables
<1>11. heap' = s.heap /\ index' = s.index /\ index_disk' = s.index_disk
  BY DEF RecoversRows
<1> HIDE DEF s, b
<1>12. /\ m.root_page_num => s.root[t] /\ s.index_disk[ir] = index_disk[ir]
       /\ ~m.root_page_num /\ s.root[t] => s.index_disk[ir] = Zeros
       /\ s.root[t] => LeafValid(s.index[ir], s.heap[hr])
       /\ \A l : LivesAre(heap[hr], l) /\ RecordsAre(log_file, t, l) => LivesAre(s.heap[hr], l)
  <2>1. /\ b.root[t] = m.root_page_num /\ b.index_disk[ir] = index_disk[ir]
        /\ b.heap[hr] = heap[hr]
    BY <1>3, <1>9 DEF RebuiltFrom
  <2>2. /\ b.root[t] => s.root[t] /\ s.index_disk[ir] = b.index_disk[ir]
        /\ ~b.root[t] /\ s.root[t] => s.index_disk[ir] = Zeros
        /\ s.root[t] => LeafValid(s.index[ir], s.heap[hr])
        /\ \A l : /\ LivesAre(b.heap[hr], l)
                  /\ \A i \in 1 .. last : log_file[i].table = t => log_file[i].life = l
                  => LivesAre(s.heap[hr], l)
    BY <1>3, <1>8 DEF ReplayedTo, b
  <2> QED BY <1>2, <2>1, <2>2 DEF RecordsAre
<1>13. \A k \in Keys :
          /\ ~Mentions(log_file, t, k) =>
                (Found(s, t, k) <=> InFiles(m, index_disk, heap_disk, k))
          /\ \A i \in 1 .. last : LastMention(last, i, t, k) =>
                /\ Found(s, t, k) => log_file[i].op = "insert"
                /\ log_file[i].op = "insert" /\ ~Corrupted(b, t) => Found(s, t, k)
  <2> TAKE k \in Keys
  <2>1. Found(b, t, k) <=> InFiles(m, index_disk, heap_disk, k)
    BY <1>1, <1>3, <1>9 DEF RebuiltFrom, InFiles
  <2>2. /\ (\A i \in 1 .. last : ~On(log_file[i], t, k)) => (Found(s, t, k) <=> Found(b, t, k))
        /\ \A i \in 1 .. last : LastMention(last, i, t, k) =>
              /\ Found(s, t, k) => log_file[i].op = "insert"
              /\ log_file[i].op = "insert" /\ ~Corrupted(b, t) => Found(s, t, k)
    BY <1>8 DEF ReplayedTo, b
  <2> QED BY <1>2, <2>1, <2>2 DEF Mentions
<1>14. \A k : Found(s, t, k) <=> FoundIn(n, index', k)
  BY <1>3, <1>10, <1>11 DEF Found, FoundIn
<1> HIDE DEF m, n, hr, ir, last
<1>15. Agree(n, m)
  BY <1>10, <1>12 DEF Agree, hr, ir
<1>16. Valid(n, index', heap') /\ Valid(n, index_disk', heap_disk) /\ Valid(m, index_disk', heap_disk)
  <2>1. Valid(m, index_disk, heap_disk)
    BY <1>5 DEF Sound
  <2>2. Valid(n, index', heap')
    BY <1>10, <1>11, <1>12 DEF Valid, hr, ir
  <2>3. Valid(n, index_disk', heap_disk)
    BY <1>10, <1>11, <1>12, <2>1 DEF Valid, LeafValid, hr, ir
  <2>4. Valid(m, index_disk', heap_disk)
    BY <1>11, <1>12, <2>1 DEF Valid, hr, ir
  <2> QED BY <2>2, <2>3, <2>4
<1>17. t \notin stale => Own(t, n, heap', heap_disk, Log) /\ Own(t, m, heap_disk, heap_disk, Log)
  BY <1>1, <1>2, <1>5, <1>10, <1>11, <1>12 DEF Sound, Own, hr
<1>18. \A k : InFiles(m, index_disk, heap_disk, k)
                 => InFiles(m, index_disk', heap_disk, k) /\ InFiles(n, index_disk', heap_disk, k)
  BY <1>10, <1>11, <1>12 DEF InFiles, hr, ir
<1>19. ASSUME NEW k \in Keys, FoundIn(n, index', k)
       PROVE  Survives(log_file, t, n, index_disk', heap_disk, k)
  <2>1. Found(s, t, k)
    BY <1>14, <1>19
  <2>2. CASE Mentions(log_file, t, k)
    <3>1. PICK i \in 1 .. last : LastMention(last, i, t, k)
      BY <1>2, <2>2, LastOfMentions DEF last
    <3>2. log_file[i].op = "insert"
      BY <1>13, <2>1, <3>1
    <3>3. EndsInInsert(log_file, t, k)
      BY <1>2, <3>1, <3>2 DEF LastMention, EndsInInsert
    <3> QED BY <3>3 DEF Survives
  <2>3. CASE ~Mentions(log_file, t, k)
    BY <1>13, <1>18, <2>1, <2>3 DEF Survives
  <2> QED BY <2>2, <2>3
<1>20. ASSUME NEW k \in Keys, Survives(log_file, t, m, index_disk, heap_disk, k)
       PROVE  FoundIn(n, index', k)
  <2>1. CASE EndsInInsert(log_file, t, k)
    <3>1. PICK i \in 1 .. last :
             /\ On(log_file[i], t, k) /\ log_file[i].op = "insert"
             /\ \A j \in 1 .. last : j > i => ~On(log_file[j], t, k)
      BY <1>2, <2>1 DEF EndsInInsert
    <3>2. LastMention(last, i, t, k)
      BY <3>1 DEF LastMention
    <3>3. ~Corrupted(b, t)
      BY <1>2, <3>1 DEF Panics, On, b
    <3>4. Found(s, t, k)
      BY <1>13, <3>1, <3>2, <3>3
    <3> QED BY <1>14, <3>4
  <2>2. CASE ~Mentions(log_file, t, k) /\ InFiles(m, index_disk, heap_disk, k)
    BY <1>13, <1>14, <2>2
  <2> QED BY <1>20, <2>1, <2>2 DEF Survives
<1>21. promised[m.life] \subseteq Keys
  BY PromisedKeys DEF m
<1>22. t \notin stale =>
          /\ Kept(t, n, index', index_disk', heap_disk, Log, promised[m.life])
          /\ \A k \in promised[m.life] : Survives(log_file, t, m, index_disk', heap_disk, k)
  <2> SUFFICES ASSUME t \notin stale
               PROVE  /\ Kept(t, n, index', index_disk', heap_disk, Log, promised[m.life])
                      /\ \A k \in promised[m.life] : Survives(log_file, t, m, index_disk', heap_disk, k)
    OBVIOUS
  <2>1. \A k \in promised[m.life] : FoundIn(n, index', k)
    BY <1>5, <1>20, <1>21
  <2>2. \A k \in promised[m.life] : Survives(log_file, t, m, index_disk', heap_disk, k)
    BY <1>5, <1>18 DEF Survives
  <2>3. Kept(t, n, index', index_disk', heap_disk, Log, promised[m.life])
    BY <1>2, <1>19, <2>1 DEF Kept
  <2> QED BY <2>2, <2>3
<1> QED
  BY <1>10, <1>15, <1>16, <1>17, <1>22 DEF RecoveredRowsOf, Sound, m, n

LEMMA RecoverKeepsRows ==
    ASSUME TypeInv, SaveInv, Harmless, RowsBody, Recover
    PROVE  RowsBody'
<1>1. /\ pc = "continue" /\ todo = << <<"recover">> >>
      /\ UNCHANGED <<catalog_file, heap_disk, log_file, log_buffer, stale, promised>>
      /\ Log' = Log
      /\ \/ /\ Panics /\ pc' = "panicked" /\ todo' = <<>>
            /\ UNCHANGED <<data, pageVars, index_disk>>
         \/ ~Panics /\ RecoversRows
  BY RecoverParts DEF saveVars, historyVars, Log
<1>2. CASE pc' = "panicked" /\ todo' = <<>> /\ UNCHANGED <<data, pageVars, index_disk>>
  <2>1. /\ UNCHANGED <<data, catalog_file, relationVars, stale, promised>>
    BY <1>1, <1>2 DEF relationVars, fileVars
  <2>2. ~Recovered'
    BY <1>2 DEF Recovered
  <2> QED BY <1>2, <2>1, <2>2, SameRows
<1>3. CASE ~Panics /\ RecoversRows
  <2>1. \A t \in Tables : RecoveredRowsOf(t)
    BY <1>1, <1>3, RecoveredThis
  <2>2. Tables' = Tables /\ \A t \in Tables : data'.tables[t].life = data.tables[t].life
    BY <1>3, RecoveredTables
  <2>3. pc' \in {"idle", "write"} /\ todo' \in {<<>>, << <<"opened">> >>}
    BY <1>3 DEF RecoversRows
  <2>4. /\ todo' # << <<"recover">> >> /\ todo' # << <<"truncate">> >>
        /\ \A u : Due(todo', u) = {}
    BY <2>3, DueNothing
  <2>5. \A u \in Tables' :
           IF u \in Tables THEN Agree(data'.tables[u], data.tables[u])
           ELSE promised'[data'.tables[u].life] = {}
    BY <2>1, <2>2 DEF RecoveredRowsOf
  <2>6. \A u \in Tables' :
           Sound(u, data'.tables[u], heap', heap_disk', index', index_disk', Log', stale')
    BY <1>1, <2>1, <2>2 DEF RecoveredRowsOf
  <2>7. \A u \in Tables :
           Sound(u, data.tables[u], heap_disk', heap_disk', index_disk', index_disk', Log', stale')
    BY <1>1, <2>1 DEF RecoveredRowsOf
  <2>8. \A u \in Tables' \ stale' :
           Kept(u, data'.tables[u], index', index_disk', heap_disk', Log',
                promised'[data'.tables[u].life] \union Due(todo', u))
    <3> SUFFICES ASSUME NEW u \in Tables \ stale
                 PROVE  Kept(u, data'.tables[u], index', index_disk', heap_disk, Log,
                             promised[data.tables[u].life])
      BY <1>1, <2>2, <2>4
    <3> QED BY <2>1 DEF RecoveredRowsOf
  <2>9. \A u \in Tables \ stale' : \A k \in promised'[data.tables[u].life] :
           Survives(log_file', u, data.tables[u], index_disk', heap_disk', k)
    BY <1>1, <2>1 DEF RecoveredRowsOf
  <2> QED BY <1>1, <2>3, <2>4, <2>5, <2>6, <2>7, <2>8, <2>9, RowsStep
<1> QED
  BY <1>1, <1>2, <1>3

-----------------------------------------------------------------------------
(* The rows: every step *)

LEMMA NextKeepsRows ==
    TypeInv /\ TypeInv' /\ SaveInv /\ UnusedAreEmpty /\ RowsInv /\ [Next]_vars => RowsInv'
<1> SUFFICES ASSUME TypeInv, TypeInv', SaveInv, UnusedAreEmpty, RowsInv, [Next]_vars, Harmless'
             PROVE  RowsBody'
  BY DEF RowsInv
<1>0. Harmless /\ RowsBody
  BY HarmStays DEF RowsInv
<1>1. CASE UNCHANGED vars
  <2>1. /\ UNCHANGED <<data, catalog_file, relationVars, stale, promised>>
        /\ pc' = pc /\ todo' = todo
    BY <1>1 DEF vars, saveVars, historyVars
  <2>2. Recovered' => Recovered
    BY <2>1 DEF Recovered
  <2> QED BY <1>0, <2>1, <2>2, SameRows
<1>2. CASE WriteTemp \/ WriteTempShort \/ Rename
  BY <1>0, <1>2, WriteKeepsRows, RenameKeepsRows
<1>3. CASE SaveFails
  BY <1>3 DEF SaveFails, Harmless
<1>4. ASSUME NEW t \in Names, Create(t) \/ Drop(t) PROVE RowsBody'
  BY <1>0, <1>4, CreateKeepsRows, DropKeepsRows DEF Create
<1>5. ASSUME NEW t \in Names, NEW k \in Keys, Insert(t, k) PROVE RowsBody'
  BY <1>0, <1>5, InsertKeepsRows
<1>6. ASSUME NEW t \in Tables, NEW ks \in { {k} : k \in Keys } \union {Keys}, Delete(t, ks)
      PROVE  RowsBody'
  BY <1>0, <1>6, DeletedKeys, DeleteKeepsRows
<1>7. CASE Demo
  <2>1. CASE CreateThen(DemoTable, << <<"demo", DemoTable>> >>)
    BY <1>0, <2>1, CreateKeepsRows
  <2>2. CASE /\ pc = "idle" /\ pc' = "continue"
             /\ todo' = << <<"demo", DemoTable>> >>
             /\ UNCHANGED <<data, saveVars, relationVars, count, historyVars>>
    BY <1>0, <2>2, DemoKeepsRows
  <2> QED BY <1>7, <2>1, <2>2 DEF Demo
<1>8. CASE DemoRows \/ Count \/ Commit
  BY <1>0, <1>8, DemoRowsKeepsRows, CountKeepsRows, CommitKeepsRows
<1>9. CASE Checkpoint \/ Truncate
  BY <1>0, <1>9, CheckpointKeepsRows, TruncateKeepsRows
<1>10. CASE Crash \/ Start \/ Recover
  BY <1>0, <1>10, CrashKeepsRows, StartKeepsRows, RecoverKeepsRows
<1>11. ASSUME NEW kept, Wipe(kept) PROVE RowsBody'
  BY <1>0, <1>11, WipeKeepsRows
<1>12. CASE Reopen \/ Opened
  BY <1>0, <1>12, ReopenKeepsRows, OpenedKeepsRows
<1> QED
  BY <1>1, <1>2, <1>3, <1>4, <1>5, <1>6, <1>7, <1>8, <1>9, <1>10, <1>11, <1>12 DEF Next

LEMMA RowsInvariant == Spec => []RowsInv
<1>1. Init => RowsInv
  BY InitRows DEF RowsInv
<1> QED
  BY <1>1, NextKeepsRows, TypeInvariant, SaveInvariant, UnusedInvariant, PTL DEF Spec

(***************************************************************************)
(* A table has the rows it was given since it was created and no others:   *)
(* what INSERT (dml.rs execute_insert) and .demo (meta.rs                  *)
(* generate_demo_data) promised is found by scan and by index, with any    *)
(* crashes, checkpoints, drops and new tables of its name between, until   *)
(* a save is refused, bytes of one are lost or a .reset is incomplete; not *)
(* of tables created while the log had records of their name, which a      *)
(* recovery (main.rs) replays into them.                                   *)
(***************************************************************************)
THEOREM RowsAreHeld == Spec => []TablesHoldTheirRows
<1>1. TypeInv /\ RowsInv => TablesHoldTheirRows
  <2> SUFFICES ASSUME TypeInv, RowsInv, pc = "idle", Harmless, NEW t \in Tables \ stale
               PROVE  /\ LivesAre(heap[HeapOf(t)], LifeOf(t))
                      /\ \A k \in promised[LifeOf(t)] :
                            /\ Found(Store, t, k)
                            /\ index[IndexOf(t)][k] \in Live(heap[HeapOf(t)])
                            /\ heap[HeapOf(t)][index[IndexOf(t)][k]].key = k
    BY DEF TablesHoldTheirRows, LivesAre
  <2>1. /\ data.tables[t].heap_relation_id = HeapOf(t)
        /\ data.tables[t].index_relation_id = IndexOf(t)
        /\ data.tables[t].life = LifeOf(t)
        /\ \A k : Found(Store, t, k) <=> FoundIn(data.tables[t], index, k)
    BY RowsTyped
  <2>2. todo = <<>> /\ Recovered
    BY DEF TypeInv, TodoTyped, Recovered
  <2>3. /\ Sound(t, data.tables[t], heap, heap_disk, index, index_disk, Log, stale)
        /\ Kept(t, data.tables[t], index, index_disk, heap_disk, Log,
                promised[LifeOf(t)] \union Due(todo, t))
    BY <2>2 DEF RowsInv, RowsBody, MemorySound, MemoryKept
  <2>4. LivesAre(heap[HeapOf(t)], LifeOf(t)) /\ Valid(data.tables[t], index, heap)
    BY <2>1, <2>3 DEF Sound, Own
  <2>5. ASSUME NEW k \in promised[LifeOf(t)]
        PROVE  /\ Found(Store, t, k)
               /\ index[IndexOf(t)][k] \in Live(heap[HeapOf(t)])
               /\ heap[HeapOf(t)][index[IndexOf(t)][k]].key = k
    <3>1. k \in Keys
      BY <2>1, PromisedKeys
    <3>2. FoundIn(data.tables[t], index, k)
      BY <2>3 DEF Kept
    <3> QED BY <2>1, <2>4, <3>1, <3>2 DEF FoundIn, Valid, LeafValid
  <2> QED BY <2>4, <2>5
<1> QED
  BY <1>1, TypeInvariant, RowsInvariant, PTL

=============================================================================
