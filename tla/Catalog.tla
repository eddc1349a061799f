------------------------------ MODULE Catalog ------------------------------
(***************************************************************************)
(* The tables of wackdb: the catalog (wackdb_catalog), its file, and what  *)
(* a table is made of besides, a heap file, an index file and the records  *)
(* of the log that carry its name.  CREATE and DROP (commands/ddl.rs),     *)
(* INSERT and DELETE (commands/dml.rs), .demo, .checkpoint and .reset      *)
(* (commands/meta.rs, main.rs), crash, start and recovery (main.rs).       *)
(*                                                                         *)
(* Pages reach their files in whole checkpoints here, and a recovery is    *)
(* one step: Engine.tla has one table with single pages and steps.  The    *)
(* save of the catalog is two steps, each of which may fail.  An index is  *)
(* one leaf at the root's page.                                            *)
(***************************************************************************)
EXTENDS Integers, Sequences, FiniteSets, Subsequences

CONSTANTS
    Names,                      \* of tables
    DemoTable,                  \* "demo_users"
    MaxKey,                     \* primary keys are 1 .. MaxKey
    DemoCount,                  \* .demo inserts the keys 1 .. DemoCount
    Faults,                     \* of a save: "open", "write", "rename"
    MaxCreates, MaxRows, MaxDeletes, MaxCheckpoints,
    MaxCrashes, MaxFaults, MaxResets        \* bounds: how often each

ASSUME CatalogAssumption ==
    /\ DemoTable \in Names
    /\ MaxKey \in Nat /\ DemoCount \in 1 .. MaxKey
    /\ Faults \subseteq {"open", "write", "rename"}
    /\ \A n \in {MaxCreates, MaxRows, MaxDeletes, MaxCheckpoints,
                 MaxCrashes, MaxFaults, MaxResets} : n \in Nat

VARIABLES
    \* the catalog
    data,                       \* CatalogData: [next_relation_id, tables]
    catalog_file, temp_file,    \* NoFile, Torn, or a Whole one
    \* the relations, as the pool shows them and as their files have them
    heap, heap_disk,            \* relation -> its slots
    index, index_disk,          \* relation -> Zeros, or key -> slot
    \* the log, of records [op, table, key, life]
    log_buffer, log_file,
    \* the process: where it is, and what comes after the save it is in
    pc, todo,
    count,                      \* bounds: how often each thing was done
    \* history
    damage,                     \* what has gone wrong so far
    stale,                      \* names created with records of theirs in the log
    promised                    \* table's life -> keys promised to be there

fileVars == <<heap_disk, index_disk, log_file>>
pageVars == <<heap, index>>
relationVars == <<pageVars, fileVars, log_buffer>>
saveVars == <<catalog_file, temp_file>>
historyVars == <<damage, stale, promised>>
vars == <<data, saveVars, relationVars, pc, todo, count, historyVars>>

Keys == 1 .. MaxKey
Relations == 0 .. 2 * MaxCreates - 1

EmptyCatalog == [next_relation_id |-> 0, tables |-> [t \in {} |-> {}]]
Whole(catalog) == [state |-> "whole", value |-> catalog]
NoFile == [state |-> "none", value |-> EmptyCatalog]
Torn == [state |-> "torn", value |-> EmptyCatalog]

Zeros == [k \in {} |-> 0]       \* a page never written is not a node
EmptyLeaf == [k \in Keys |-> 0]

Tables == DOMAIN data.tables
HeapOf(t) == data.tables[t].heap_relation_id
IndexOf(t) == data.tables[t].index_relation_id

Counted == {"create", "row", "delete", "checkpoint", "crash", "fault", "reset"}

(* Something that is done at most n times. *)
Counting(what, n) == count[what] < n /\ count' = [count EXCEPT ![what] = @ + 1]

Empty == [r \in Relations |-> <<>>]
NoTrees == [r \in Relations |-> Zeros]

Init ==
    /\ data = EmptyCatalog /\ catalog_file = NoFile /\ temp_file = NoFile
    /\ heap = Empty /\ heap_disk = Empty
    /\ index = NoTrees /\ index_disk = NoTrees
    /\ log_buffer = <<>> /\ log_file = <<>>
    /\ pc = "down" /\ todo = <<>>
    /\ count = [w \in Counted |-> 0]
    /\ damage = {} /\ stale = {}
    /\ promised = [l \in 1 .. MaxCreates |-> {}]

(* The process is gone; the files stay.                                    *)
Dead ==
    /\ pc' = "down"
    /\ data' = EmptyCatalog
    /\ heap' = heap_disk /\ index' = index_disk /\ log_buffer' = <<>>

-----------------------------------------------------------------------------
(* Saving the catalog *)

(* The catalog changes in memory; its save begins, and what the statement  *)
(* does then is left in todo.                                              *)
Change(newData, rest) == data' = newData /\ pc' = "write" /\ todo' = rest

(* Mutant: straight into the file. *)
WriteInPlace ==
    /\ pc = "write"
    /\ catalog_file' = Torn
    /\ temp_file' = Whole(data)
    /\ pc' = "rename"
    /\ UNCHANGED <<data, relationVars, todo, count, historyVars>>

WriteTemp ==
    /\ pc = "write"
    /\ temp_file' = Whole(data)
    /\ pc' = "rename"
    /\ UNCHANGED <<data, catalog_file, relationVars, todo, count, historyVars>>

(* The BufWriter is dropped with the bytes in it, and an error of that     *)
(* last write goes with it.                                                *)
WriteTempShort ==
    /\ pc = "write"
    /\ "write" \in Faults
    /\ Counting("fault", MaxFaults)
    /\ temp_file' = Torn
    /\ pc' = "rename"
    /\ UNCHANGED <<data, catalog_file, relationVars, todo, historyVars>>

Rename ==
    /\ pc = "rename"
    /\ catalog_file' = temp_file
    /\ temp_file' = NoFile
    /\ pc' = IF todo = <<>> THEN "idle" ELSE "continue"
    /\ damage' = (damage \ {"unsaved"}) \union (IF temp_file = Torn THEN {"torn"} ELSE {})
    /\ UNCHANGED <<data, relationVars, todo, count, stale, promised>>

Opening == todo # <<>> /\ Head(todo)[1] \in {"recover", "opened"}

(* The error ends the statement.  What changed in memory stays changed,    *)
(* and the log is not forced.  At the start, in a recovery and at the end  *)
(* of a .reset it ends the process.                                        *)
SaveFails ==
    /\ \/ pc = "write" /\ "open" \in Faults
       \/ pc = "rename" /\ "rename" \in Faults
    /\ Counting("fault", MaxFaults)
    /\ IF Opening THEN Dead ELSE pc' = "idle" /\ UNCHANGED <<data, pageVars, log_buffer>>
    /\ todo' = <<>>
    /\ damage' = damage \union {"unsaved", "refused"}
    /\ UNCHANGED <<saveVars, fileVars, stale, promised>>

-----------------------------------------------------------------------------
(* CREATE and DROP *)

NewTable(n, life) ==
    [heap_relation_id |-> n, index_relation_id |-> n + 1,
     root_page_num |-> FALSE, num_records |-> 0, life |-> life]

With(t, meta) == [u \in Tables \union {t} |-> IF u = t THEN meta ELSE data.tables[u]]

(* Mutant: the index gets the number the next heap will have. *)
CreatedWithOneId(t) ==
    [next_relation_id |-> data.next_relation_id + 1,
     tables |-> With(t, NewTable(data.next_relation_id, count.create + 1))]

(* create_table_with_schema *)
Created(t) ==
    [next_relation_id |-> data.next_relation_id + 2,
     tables |-> With(t, NewTable(data.next_relation_id, count.create + 1))]

LoggedNames == { log_file[i].table : i \in DOMAIN log_file }
                  \union { log_buffer[i].table : i \in DOMAIN log_buffer }

(* create_table_with_schema, and the rest of the statement. *)
CreateThen(t, rest) ==
    /\ pc = "idle"
    /\ t \notin Tables
    /\ Counting("create", MaxCreates)
    /\ Change(Created(t), rest)
    /\ stale' = IF t \in LoggedNames THEN stale \union {t} ELSE stale \ {t}
    /\ UNCHANGED <<saveVars, relationVars, damage, promised>>

Create(t) == CreateThen(t, <<>>)

Without(t) == [u \in Tables \ {t} |-> data.tables[u]]

(* Mutant: the number is given back with the table. *)
DropReusesIds(t) ==
    /\ pc = "idle"
    /\ t \in Tables
    /\ Change([next_relation_id |-> HeapOf(t), tables |-> Without(t)], <<>>)
    /\ UNCHANGED <<saveVars, relationVars, count, historyVars>>

(* Mutant: the catalog in memory is all that changes. *)
DropUnsaved(t) ==
    /\ pc = "idle"
    /\ t \in Tables
    /\ data' = [data EXCEPT !.tables = Without(t)]
    /\ UNCHANGED <<saveVars, relationVars, pc, todo, count, historyVars>>

(* The files and the pages in the pool stay. *)
Drop(t) ==
    /\ pc = "idle"
    /\ t \in Tables
    /\ Change([data EXCEPT !.tables = Without(t)], <<>>)
    /\ UNCHANGED <<saveVars, relationVars, count, historyVars>>

-----------------------------------------------------------------------------
(* Rows.  What INSERT, .demo and the recovery do to heap, index and root,  *)
(* as functions of the store: statements save the root, the recovery too.  *)

Store ==
    [heap |-> heap, index |-> index, index_disk |-> index_disk,
     root |-> [t \in Tables |-> data.tables[t].root_page_num]]

Live(slots) == { i \in DOMAIN slots : slots[i].live }

Found(s, t, k) ==
    s.root[t] /\ s.index[IndexOf(t)] # Zeros /\ s.index[IndexOf(t)][k] # 0

(* A root that is not a node: every operation of the tree fails.           *)
Corrupted(s, t) == s.root[t] /\ s.index[IndexOf(t)] = Zeros

Rooted(tables, root) ==
    [t \in DOMAIN tables |-> [tables[t] EXCEPT !.root_page_num = root[t]]]

(* The tuple goes to the heap and, unless that fails, its key to the index *)
(* in the root's page.  A first key makes a root, a page no file has yet.  *)
Inserted(s, t, k, life) ==
    LET slots == Append(s.heap[HeapOf(t)], [key |-> k, life |-> life, live |-> TRUE])
        leaf == IF s.root[t] THEN s.index[IndexOf(t)] ELSE EmptyLeaf IN
    [heap |-> [s.heap EXCEPT ![HeapOf(t)] = slots],
     index |-> [s.index EXCEPT ![IndexOf(t)] =
                   IF Corrupted(s, t) THEN Zeros ELSE [leaf EXCEPT ![k] = Len(slots)]],
     index_disk |-> [s.index_disk EXCEPT ![IndexOf(t)] = IF s.root[t] THEN @ ELSE Zeros],
     root |-> [s.root EXCEPT ![t] = TRUE]]

Record(op, t, k, life) == [op |-> op, table |-> t, key |-> k, life |-> life]
LifeOf(t) == data.tables[t].life

InStore(s) == heap' = s.heap /\ index' = s.index /\ index_disk' = s.index_disk

(* The store with the tuples of some keys in it. *)
Added(t, ks) ==
    LET after[n \in 0 .. Len(ks)] ==
            IF n = 0 THEN Store ELSE Inserted(after[n - 1], t, ks[n], LifeOf(t))
    IN  after[Len(ks)]

(* The tuples of some keys go to heap, log and index.  An index that fails *)
(* ends it after the first; otherwise the root is saved.                   *)
AddRows(t, ks, rest) ==
    LET done == IF Corrupted(Store, t) THEN SubSeq(ks, 1, 1) ELSE ks
        s == Added(t, done) IN
    /\ InStore(s)
    /\ log_buffer' = log_buffer \o
          [i \in DOMAIN done |-> Record("insert", t, done[i], LifeOf(t))]
    /\ IF Corrupted(Store, t) /\ ks # <<>>
       THEN pc' = "idle" /\ todo' = <<>> /\ UNCHANGED data
       ELSE Change([data EXCEPT !.tables = Rooted(@, s.root)], rest)
    /\ UNCHANGED <<saveVars, heap_disk, log_file, historyVars>>

(* execute_insert: row, log and index, save of the root, save of the       *)
(* count, log forced.                                                      *)
Insert(t, k) ==
    /\ pc = "idle"
    /\ t \in Tables
    /\ ~Found(Store, t, k)
    /\ Counting("row", MaxRows)
    /\ AddRows(t, <<k>>, << <<"count", t, 1>>, <<"commit", t, {k}>> >>)

(* generate_demo_data: the table if there is none, the rows it lacks, save *)
(* of the root, log forced.  The count stays as it is.                     *)
Demo ==
    /\ count.row < MaxRows
    /\ \/ CreateThen(DemoTable, << <<"demo", DemoTable>> >>)
       \/ /\ pc = "idle"
          /\ DemoTable \in Tables
          /\ pc' = "continue"
          /\ todo' = << <<"demo", DemoTable>> >>
          /\ UNCHANGED <<data, saveVars, relationVars, count, historyVars>>

Doing(step) == pc = "continue" /\ Head(todo)[1] = step

DemoRows ==
    LET lacks == { k \in 1 .. DemoCount : ~Found(Store, DemoTable, k) }
        ks == Picked([i \in 1 .. DemoCount |-> i], lacks) IN
    /\ Doing("demo")
    /\ Counting("row", MaxRows)
    /\ AddRows(DemoTable, ks, << <<"commit", DemoTable, 1 .. DemoCount>> >>)

Minus(a, b) == IF a > b THEN a - b ELSE 0

(* Mutant: the sign is lost. *)
CountAdds ==
    LET t == Head(todo)[2] n == Head(todo)[3] IN
    /\ Doing("count")
    /\ Change([data EXCEPT !.tables[t].num_records = IF n > 0 THEN @ + n ELSE @ - n], Tail(todo))
    /\ UNCHANGED <<saveVars, relationVars, count, historyVars>>

(* update_num_records *)
Count ==
    LET t == Head(todo)[2] n == Head(todo)[3] IN
    /\ Doing("count")
    /\ Change([data EXCEPT !.tables[t].num_records =
                  IF n > 0 THEN @ + n ELSE Minus(@, -n)], Tail(todo))
    /\ UNCHANGED <<saveVars, relationVars, count, historyVars>>

(* flush_up_to(u64::MAX), and the statement returns.                       *)
Commit ==
    LET t == Head(todo)[2] IN
    /\ Doing("commit")
    /\ log_file' = log_file \o log_buffer
    /\ log_buffer' = <<>>
    /\ pc' = "idle"
    /\ todo' = <<>>
    /\ promised' = [promised EXCEPT ![LifeOf(t)] = @ \union Head(todo)[3]]
    /\ UNCHANGED <<data, saveVars, pageVars, heap_disk, index_disk, count, damage, stale>>

(* execute_delete of the rows with some keys: they are marked, their keys  *)
(* leave the index, their records enter the log; then the count is saved   *)
(* and the log forced.                                                     *)
Delete(t, ks) ==
    LET slots == heap[HeapOf(t)]
        hit == { i \in Live(slots) : slots[i].key \in ks }
        hits == Picked([i \in DOMAIN slots |-> i], hit)
        last == << <<"commit", t, {}>> >> IN
    /\ pc = "idle"
    /\ Counting("delete", MaxDeletes)
    /\ heap' = [heap EXCEPT ![HeapOf(t)] =
                   [i \in DOMAIN slots |-> [slots[i] EXCEPT !.live = @ /\ i \notin hit]]]
    /\ index' = IF ~\E k \in ks : Found(Store, t, k) THEN index
                ELSE [index EXCEPT ![IndexOf(t)] =
                         [k \in Keys |-> IF \E i \in hit : slots[i].key = k THEN 0 ELSE @[k]]]
    /\ log_buffer' = log_buffer \o
          [i \in DOMAIN hits |-> Record("delete", t, slots[hits[i]].key, slots[hits[i]].life)]
    /\ pc' = "continue"
    /\ todo' = IF hits = <<>> THEN last ELSE << <<"count", t, -Len(hits)>> >> \o last
    /\ promised' = [promised EXCEPT ![LifeOf(t)] = @ \ ks]
    /\ UNCHANGED <<data, saveVars, fileVars, damage, stale>>

-----------------------------------------------------------------------------
(* Checkpoint, crash, start *)

(* By the thread, by .checkpoint, and at the end of the process: pages and *)
(* log are forced, then the log is cut.                                    *)
Checkpoint ==
    /\ pc = "idle"
    /\ Counting("checkpoint", MaxCheckpoints)
    /\ heap_disk' = heap /\ index_disk' = index
    /\ log_file' = log_file \o log_buffer /\ log_buffer' = <<>>
    /\ pc' = "continue" /\ todo' = << <<"truncate">> >>
    /\ UNCHANGED <<data, saveVars, pageVars, historyVars>>

Truncate ==
    /\ Doing("truncate")
    /\ log_file' = <<>>
    /\ pc' = "idle" /\ todo' = <<>>
    /\ UNCHANGED <<data, saveVars, pageVars, heap_disk, index_disk, log_buffer,
                   count, historyVars>>

Crash ==
    /\ pc # "down"
    /\ Counting("crash", MaxCrashes)
    /\ Dead
    /\ todo' = <<>>
    /\ UNCHANGED <<saveVars, fileVars, historyVars>>

(* Catalog::open, and then some step: a file that is not there is made, a  *)
(* torn one is an error.                                                   *)
Open(rest) ==
    /\ catalog_file # Torn
    /\ IF catalog_file = NoFile THEN Change(EmptyCatalog, rest)
       ELSE data' = catalog_file.value /\ pc' = "continue" /\ todo' = rest

Start ==
    /\ pc = "down"
    /\ Open(<< <<"recover">> >>)
    /\ UNCHANGED <<saveVars, relationVars, count, historyVars>>

(* The index made anew from the heap, of the first tuple of each key.      *)
RebuiltLeaf(slots) ==
    [k \in Keys |->
        LET holds == { i \in Live(slots) : slots[i].key = k } IN
        IF holds = {} THEN 0 ELSE CHOOSE i \in holds : \A j \in holds : i <= j]

(* A corrupted root is replaced, unless the heap has no tuple. *)
Rebuilding(t) == Corrupted(Store, t) /\ Live(heap[HeapOf(t)]) # {}

Rebuilt ==
    LET owners(r) == { t \in Tables : IndexOf(t) = r /\ Rebuilding(t) } IN
    [Store EXCEPT !.index = [r \in Relations |->
        IF owners(r) = {} THEN index[r]
        ELSE RebuiltLeaf(heap[HeapOf(CHOOSE t \in owners(r) : TRUE)])]]

(* One record of the log, by the name of its table.  A key the index has   *)
(* is not inserted again; the tuple deleted is the one the index has.      *)
ReplayRecord(s, r) ==
    LET t == r.table
        at == s.index[IndexOf(t)][r.key] IN
    IF t \notin Tables THEN s
    ELSE IF r.op = "insert"
    THEN IF Found(s, t, r.key) THEN s ELSE Inserted(s, t, r.key, r.life)
    ELSE IF ~Found(s, t, r.key) THEN s
    ELSE [s EXCEPT !.index[IndexOf(t)][r.key] = 0,
                   !.heap[HeapOf(t)] =
                       IF at \in DOMAIN @ THEN [@ EXCEPT ![at].live = FALSE] ELSE @]

(* The index of a table whose root is no node and whose heap is empty      *)
(* refuses the first record it is to take.                                 *)
Panics ==
    \E i \in DOMAIN log_file :
        /\ log_file[i].op = "insert"
        /\ log_file[i].table \in Tables
        /\ Corrupted(Rebuilt, log_file[i].table)

Replayed ==
    LET after[n \in 0 .. Len(log_file)] ==
            IF n = 0 THEN Rebuilt ELSE ReplayRecord(after[n - 1], log_file[n])
    IN  after[Len(log_file)]

(* Rebuild and replay.  A record that is replayed saves its table's root   *)
(* (here all do so at the end); without one nothing is saved.              *)
Recover ==
    LET s == Replayed IN
    /\ Doing("recover")
    /\ IF Panics
       THEN pc' = "panicked" /\ todo' = <<>> /\ UNCHANGED <<data, pageVars, index_disk>>
       ELSE /\ InStore(s)
            /\ IF s = Rebuilt THEN pc' = "idle" /\ todo' = <<>> /\ UNCHANGED data
               ELSE Change([data EXCEPT !.tables = Rooted(@, s.root)], << <<"opened">> >>)
    /\ UNCHANGED <<saveVars, heap_disk, log_file, log_buffer, count, historyVars>>

-----------------------------------------------------------------------------
(* .reset *)

(* The pages are flushed and the directory is removed, or what could be    *)
(* removed of it: an error is a warning, and a crash leaves the rest.      *)
Wipe(kept) ==
    /\ pc = "idle"
    /\ count.reset < MaxResets
    /\ kept # {} => count.fault < MaxFaults
    /\ count' = [count EXCEPT !.reset = @ + 1,
                              !.fault = IF kept = {} THEN @ ELSE @ + 1]
    /\ catalog_file' = IF "catalog" \in kept THEN catalog_file ELSE NoFile
    /\ temp_file' = NoFile
    /\ heap_disk' = IF "heaps" \in kept THEN heap ELSE Empty
    /\ index_disk' = IF "indexes" \in kept THEN index ELSE NoTrees
    /\ log_file' = IF "log" \in kept THEN log_file ELSE <<>>
    /\ heap' = heap_disk' /\ index' = index_disk' /\ log_buffer' = <<>>
    /\ pc' = "wiped" /\ todo' = <<>>
    /\ damage' = IF kept = {} THEN damage ELSE damage \union {"leftover"}
    /\ UNCHANGED <<data, stale, promised>>

(* Catalog, pool and log are opened again, without a recovery.             *)
Reopen ==
    /\ pc = "wiped"
    /\ Open(<< <<"opened">> >>)
    /\ UNCHANGED <<saveVars, relationVars, count, historyVars>>

Opened ==
    /\ Doing("opened")
    /\ pc' = "idle" /\ todo' = <<>>
    /\ UNCHANGED <<data, saveVars, relationVars, count, historyVars>>

-----------------------------------------------------------------------------

Next ==
    \/ WriteTemp \/ WriteTempShort \/ Rename \/ SaveFails
    \/ \E t \in Names :
          \/ Create(t) \/ Drop(t)
          \/ \E k \in Keys : Insert(t, k)
    \/ \E t \in Tables : \E ks \in { {k} : k \in Keys } \union {Keys} : Delete(t, ks)
    \/ Demo \/ DemoRows \/ Count \/ Commit
    \/ Checkpoint \/ Truncate
    \/ Crash \/ Start \/ Recover
    \/ \E kept \in SUBSET {"catalog", "heaps", "indexes", "log"} : Wipe(kept)
    \/ Reopen \/ Opened

Spec == Init /\ [][Next]_vars

-----------------------------------------------------------------------------
(* Properties *)

Catalogs == {data, catalog_file.value, temp_file.value}

(***************************************************************************)
(* No two tables share a relation, and the number the next table gets is   *)
(* above all of theirs: in memory and in every file a start may read,      *)
(* whatever is created, dropped, refused or cut off by a crash             *)
(* (catalog.rs create_table_with_schema).                                  *)
(***************************************************************************)
RelationsAreOwned ==
    \A c \in Catalogs : \A t, u \in DOMAIN c.tables :
        /\ c.tables[t].heap_relation_id < c.tables[t].index_relation_id
        /\ c.tables[t].index_relation_id < c.next_relation_id
        /\ t # u => \/ c.tables[t].index_relation_id < c.tables[u].heap_relation_id
                    \/ c.tables[u].index_relation_id < c.tables[t].heap_relation_id

(***************************************************************************)
(* Between statements catalog.json says what memory says, unless the last  *)
(* save was refused or its bytes were lost: every statement that changes   *)
(* the catalog has saved it before it returns (catalog.rs).                *)
(***************************************************************************)
StatementsAreSaved ==
    pc = "idle" /\ damage \intersect {"unsaved", "torn"} = {} => catalog_file = Whole(data)

Harmless == damage \intersect {"refused", "torn", "leftover"} = {}

(***************************************************************************)
(* A table that is created finds its files empty: no row was ever stored   *)
(* under a number that a start may give away again.  True as long as no    *)
(* save was refused and every .reset was complete (ddl.rs: the files of a  *)
(* dropped table stay).                                                    *)
(***************************************************************************)
NewTablesAreEmpty ==
    Harmless =>
        \A r \in Relations :
            r >= catalog_file.value.next_relation_id
                => heap[r] = <<>> /\ heap_disk[r] = <<>>

(***************************************************************************)
(* A table has the rows it was given since it was created and no others:   *)
(* what INSERT and .demo promised is found in it, by scan and index, after *)
(* crashes, DROP and CREATE of its name and a .reset.  Excepted are tables *)
(* created when the log had records of that name, which a recovery replays *)
(* into them (main.rs), and what a refused save or a partial .reset does.  *)
(***************************************************************************)
TablesHoldTheirRows ==
    pc = "idle" /\ Harmless =>
        \A t \in Tables \ stale :
            LET slots == heap[HeapOf(t)] IN
            /\ \A i \in Live(slots) : slots[i].life = LifeOf(t)
            /\ \A k \in promised[LifeOf(t)] :
                  /\ Found(Store, t, k)
                  /\ index[IndexOf(t)][k] \in Live(slots)
                  /\ slots[index[IndexOf(t)][k]].key = k

(***************************************************************************)
(* Until a crash the number of records in the catalog is at most that of   *)
(* the rows: .demo adds rows it does not count, and a DELETE of those      *)
(* takes the number down, never below zero (catalog.rs                     *)
(* update_num_records).                                                    *)
(***************************************************************************)
CountIsNeverTooHigh ==
    pc = "idle" /\ count.crash = 0 /\ "leftover" \notin damage =>
        \A t \in Tables : data.tables[t].num_records \in 0 .. Cardinality(Live(heap[HeapOf(t)]))

File == INSTANCE SavedValue WITH
    Blank <- EmptyCatalog,
    current <- IF pc \in {"down", "wiped"} THEN catalog_file.value ELSE data,
    durable <- catalog_file.value,
    losses <- count.crash,
    erasures <- count.reset

(***************************************************************************)
(* catalog.json is replaced as a whole: it changes only to what memory     *)
(* has, at once, and a start finds the last value that was saved           *)
(* completely, whenever a crash comes (catalog.rs flush: written beside    *)
(* it, then renamed).  True until bytes of a save are lost unnoticed.      *)
(***************************************************************************)
ImplementsSavedValue ==
    File!Init /\ [][ "torn" \notin damage' => [File!Next]_(File!savedVars) ]_vars

=============================================================================
