------------------------------- MODULE Engine -------------------------------
(***************************************************************************)
(* One table of wackdb_cli from statement to crash to recovery: INSERT and *)
(* DELETE (commands/dml.rs), the checkpointer and the recovery at startup  *)
(* (main.rs), over the heap file, the index file, the catalog and the log. *)
(*                                                                         *)
(* The buffer pool appears as what BufferPool.tla shows it to be, a store  *)
(* of pages with a durable copy of each, and the log as what DiskLog.tla   *)
(* shows it to be, a sequence with a durable prefix.  The outer lock       *)
(* (SharedPool.tla) keeps checkpoints between statements, so that inside   *)
(* a statement a page reaches its file only when a fetch evicts it.        *)
(*                                                                         *)
(* The index is one leaf, page 0 of its file: an 8 KB leaf has room for    *)
(* 510 keys, so this is the index of every small table.  A row is a number *)
(* that tells apart the tuples inserted under the same key.                *)
(***************************************************************************)
EXTENDS Integers, Sequences, FiniteSets, Functions, FiniteSetsExt, Subsequences

CONSTANTS
    Keys,                       \* primary keys
    MaxRows,                    \* bound: INSERTs that store a tuple
    MaxDeletes,                 \* bound: DELETEs
    PageSlots,                  \* tuples a heap page has room for
    MaxHeap,                    \* bound: pages of the heap file
    MaxCheckpoints,             \* bound: checkpoints
    MaxCrashes,                 \* bound: crashes
    MaxFaults,                  \* bound: errors of the disk
    Faults,                     \* subset of {"page", "log", "tear"}
    Starts                      \* [fresh, steal]: the table was just created, or
                                \* checkpointed; single pages may be written, by
                                \* an eviction or a checkpoint cut short, or not

ASSUME EngineAssumption ==
    /\ IsFiniteSet(Keys) /\ Keys # {}
    /\ MaxRows \in Nat
    /\ MaxDeletes \in Nat
    /\ PageSlots \in Nat \ {0}
    /\ MaxHeap \in Nat \ {0}
    /\ MaxCheckpoints \in Nat
    /\ MaxCrashes \in Nat
    /\ MaxFaults \in Nat
    /\ Faults \subseteq {"page", "log", "tear"}
    /\ Starts \subseteq [fresh : BOOLEAN, steal : BOOLEAN]

VARIABLES
    \* pages, as the pool shows them and as the files have them
    heap, heap_disk,            \* page -> its slots
    heap_pages, heap_len,       \* pages allocated, pages in the file
    index, index_disk,          \* Zeros, or key -> CTID
    \* catalog.json, written at every change
    root_page_num,              \* is there a root?
    num_records,
    \* the log
    log_buffer,
    log_file, torn,             \* what can be read of it; a torn record follows
    page_lsn,                   \* page -> place in log_buffer its LSN asks for
    \* the process
    pc,
    stmt,                       \* the statement: [op, keys, row, ctid]
    at,                         \* page a DELETE, or record the recovery is at
    \* bounds
    rows, deletes, checkpoints, crashes, faults,
    \* history
    steal,                      \* may single pages be written?
    allowed,                    \* key -> rows (0: none) a client may find
    at_risk,                    \* an error was ignored, and no checkpoint since
    spoilt                      \* a crash came in such a time

pageVars == <<heap, heap_pages, index>>
fileVars == <<heap_disk, heap_len, index_disk>>
catalogVars == <<root_page_num, num_records>>
logVars == <<log_buffer, log_file, torn, page_lsn>>
stmtVars == <<pc, stmt, at>>
countVars == <<rows, deletes, checkpoints, crashes, faults>>
riskVars == <<steal, at_risk, spoilt>>
historyVars == <<allowed, riskVars>>
vars == <<pageVars, fileVars, catalogVars, logVars, stmtVars, countVars, historyVars>>

Pages == 0 .. MaxHeap - 1
Slot == [key : Keys, row : 1 .. MaxRows, live : BOOLEAN]
CTID == Pages \X (1 .. PageSlots)
NoCTID == <<>>

Zeros == [k \in {} |-> NoCTID]  \* a page never written is not a node
Leaf == [Keys -> CTID \union {NoCTID}]
EmptyLeaf == [k \in Keys |-> NoCTID]

Record == [op : {"insert", "delete"}, key : Keys, row : 1 .. MaxRows]
NoStmt == [op |-> "none", keys |-> {}, row |-> 0, ctid |-> NoCTID]

Steps == {"idle", "log", "index", "catalog", "commit", "delete",
          "checkpoint", "truncate", "rebuild", "replay", "panicked"}

TypeOK ==
    /\ heap \in [Pages -> Seq(Slot)] /\ heap_disk \in [Pages -> Seq(Slot)]
    /\ \A p \in Pages : Len(heap[p]) <= PageSlots /\ Len(heap_disk[p]) <= PageSlots
    /\ heap_pages \in 0 .. MaxHeap
    /\ heap_len \in 0 .. heap_pages
    /\ index \in Leaf \union {Zeros} /\ index_disk \in Leaf \union {Zeros}
    /\ root_page_num \in BOOLEAN
    /\ index # Zeros /\ pc # "catalog" => root_page_num
    /\ num_records \in Nat
    /\ log_buffer \in Seq(Record) /\ log_file \in Seq(Record)
    /\ page_lsn \in [Pages -> 0 .. Len(log_buffer)]
    /\ pc \in Steps
    /\ stmt \in [op : {"none", "insert", "delete"}, keys : SUBSET Keys,
                 row : Nat, ctid : CTID \union {NoCTID}]
    /\ at \in Nat
    /\ allowed \in [Keys -> SUBSET (0 .. MaxRows)]
    /\ {torn, steal, at_risk, spoilt} \subseteq BOOLEAN

(* A table that was just created, or one that was checkpointed with its    *)
(* rows deleted.                                                           *)
Init ==
    /\ heap = [p \in Pages |-> <<>>] /\ heap_disk = heap
    /\ heap_pages = 0 /\ heap_len = 0
    /\ \E start \in Starts :
          /\ index = (IF start.fresh THEN Zeros ELSE EmptyLeaf) /\ index_disk = index
          /\ root_page_num = ~start.fresh
          /\ steal = start.steal
    /\ num_records = 0
    /\ log_buffer = <<>> /\ log_file = <<>> /\ torn = FALSE
    /\ page_lsn = [p \in Pages |-> 0]
    /\ pc = "idle" /\ stmt = NoStmt /\ at = 0
    /\ rows = 0 /\ deletes = 0 /\ checkpoints = 0 /\ crashes = 0 /\ faults = 0
    /\ allowed = [k \in Keys |-> {0}]
    /\ at_risk = FALSE /\ spoilt = FALSE

-----------------------------------------------------------------------------
(* The index and the heap. *)

(* BTreeIndex::search, for callers that take any error for "not found".    *)
Found(k) == index # Zeros /\ index[k] # NoCTID

(* A root that is not a node: every operation of the tree fails.           *)
Corrupted == root_page_num /\ index = Zeros

(* insert of a key that is not there, which creates the root if need be.   *)
IndexWith(k, ctid) == [(IF index = Zeros THEN EmptyLeaf ELSE index) EXCEPT ![k] = ctid]

(* Mutant: the root goes with its last key. *)
IndexWithoutFreesRoot(ks) ==
    IF index = Zeros \/ \A k \in Keys \ ks : index[k] = NoCTID THEN Zeros
    ELSE [k \in Keys |-> IF k \in ks THEN NoCTID ELSE index[k]]

(* delete, for callers that ignore its error; an empty root stays a leaf.  *)
IndexWithout(ks) ==
    IF index = Zeros THEN Zeros
    ELSE [k \in Keys |-> IF k \in ks THEN NoCTID ELSE index[k]]

(* The last page of the heap, or a new one when the tuple does not fit.    *)
Target ==
    IF heap_pages > 0 /\ Len(heap[heap_pages - 1]) < PageSlots
    THEN heap_pages - 1 ELSE heap_pages

NextCTID == <<Target, Len(heap[Target]) + 1>>

(* write_tuple_to_heap *)
WriteTuple(k, r) ==
    /\ Target < MaxHeap
    /\ heap' = [heap EXCEPT ![Target] = Append(@, [key |-> k, row |-> r, live |-> TRUE])]
    /\ heap_pages' = Target + 1

Step(step, statement, n) == pc' = step /\ stmt' = statement /\ at' = n

-----------------------------------------------------------------------------
(* INSERT *)

(* The key is looked up, the tuple goes to the heap.  A key that is found  *)
(* ends the statement with no change.                                      *)
InsertTuple(k) ==
    /\ pc = "idle"
    /\ rows < MaxRows
    /\ ~Found(k)
    /\ WriteTuple(k, rows + 1)
    /\ rows' = rows + 1
    /\ allowed' = [allowed EXCEPT ![k] = @ \union {rows + 1}]
    /\ Step("log", [op |-> "insert", keys |-> {k}, row |-> rows + 1, ctid |-> NextCTID], 0)
    /\ UNCHANGED <<index, fileVars, catalogVars, logVars, deletes, checkpoints, crashes,
                   faults, riskVars>>

KeyOf(s) == CHOOSE k \in s.keys : TRUE

(* Unlike a deletion, it gives the heap page no LSN. *)
InsertLog ==
    /\ pc = "log"
    /\ log_buffer' = Append(log_buffer,
                         [op |-> "insert", key |-> KeyOf(stmt), row |-> stmt.row])
    /\ Step("index", stmt, 0)
    /\ UNCHANGED <<pageVars, fileVars, catalogVars, log_file, torn, page_lsn, countVars,
                   historyVars>>

InsertIndex ==
    /\ pc = "index"
    /\ ~Corrupted
    /\ index' = IndexWith(KeyOf(stmt), stmt.ctid)
    /\ Step("catalog", stmt, 0)
    /\ UNCHANGED <<heap, heap_pages, fileVars, catalogVars, logVars, countVars, historyVars>>

(* The error ends the statement; tuple and record stay where they are, and *)
(* the log is not forced.                                                  *)
InsertFails ==
    /\ pc = "index"
    /\ Corrupted
    /\ Step("idle", NoStmt, 0)
    /\ UNCHANGED <<pageVars, fileVars, catalogVars, logVars, countVars, historyVars>>

InsertRoot ==
    /\ pc = "catalog"
    /\ ~root_page_num
    /\ root_page_num' = TRUE
    /\ UNCHANGED <<pageVars, fileVars, num_records, logVars, stmtVars, countVars, historyVars>>

InsertCount ==
    /\ pc = "catalog"
    /\ root_page_num
    /\ num_records' = num_records + 1
    /\ Step("commit", stmt, 0)
    /\ UNCHANGED <<pageVars, fileVars, root_page_num, logVars, countVars, historyVars>>

-----------------------------------------------------------------------------
(* DELETE of the rows with one of some keys *)

BeginDelete(ks) ==
    /\ pc = "idle"
    /\ deletes < MaxDeletes
    /\ heap_pages > 0
    /\ deletes' = deletes + 1
    /\ Step("delete", [NoStmt EXCEPT !.op = "delete", !.keys = ks], 0)
    /\ UNCHANGED <<pageVars, fileVars, catalogVars, logVars, rows, checkpoints,
                   crashes, faults, historyVars>>

Victims(p, ks) ==
    Picked(heap[p], { i \in DOMAIN heap[p] : heap[p][i].live /\ heap[p][i].key \in ks })

Marked(slots, ks) == [i \in DOMAIN slots |-> [slots[i] EXCEPT !.live = @ /\ slots[i].key \notin ks]]

(* One page, under its write guard: slot by slot, mark it, remove its key  *)
(* from the index, append its record.  No other page is fetched between    *)
(* the index and the record, and the page itself is pinned.  row counts    *)
(* the tuples deleted so far.                                              *)
DeleteOnPage ==
    LET found == Victims(at, stmt.keys)
        hit == { found[i].key : i \in DOMAIN found } IN
    /\ pc = "delete"
    /\ at < heap_pages
    /\ heap' = [heap EXCEPT ![at] = Marked(@, stmt.keys)]
    /\ index' = IndexWithout(hit)
    /\ log_buffer' = log_buffer \o
          [i \in DOMAIN found |-> [op |-> "delete", key |-> found[i].key, row |-> found[i].row]]
    /\ page_lsn' = IF found = <<>> THEN page_lsn
                   ELSE [page_lsn EXCEPT ![at] = Len(log_buffer')]
    /\ allowed' = [k \in Keys |-> IF k \in hit THEN allowed[k] \union {0} ELSE allowed[k]]
    /\ Step("delete", [stmt EXCEPT !.row = @ + Len(found)], at + 1)
    /\ UNCHANGED <<heap_pages, fileVars, catalogVars, log_file, torn, countVars, riskVars>>

Minus(a, b) == IF a > b THEN a - b ELSE 0

(* Mutant: one row, whatever their number. *)
DeleteCountOne ==
    /\ pc = "delete"
    /\ at = heap_pages
    /\ num_records' = Minus(num_records, 1)
    /\ Step("commit", stmt, 0)
    /\ UNCHANGED <<pageVars, fileVars, root_page_num, logVars, countVars, historyVars>>

DeleteCount ==
    /\ pc = "delete"
    /\ at = heap_pages
    /\ num_records' = Minus(num_records, stmt.row)
    /\ Step("commit", stmt, 0)
    /\ UNCHANGED <<pageVars, fileVars, root_page_num, logVars, countVars, historyVars>>

-----------------------------------------------------------------------------
(* The end of a statement *)

(* What can be read of the log file when n records more have been written: *)
(* nothing behind a torn one.                                              *)
Written(n) == IF torn THEN log_file ELSE log_file \o SubSeq(log_buffer, 1, n)

(* DiskLog's flush_up_to, to the n-th record in memory. *)
ForceTo(n) ==
    /\ log_file' = Written(n)
    /\ torn' = torn
    /\ log_buffer' = SubSeq(log_buffer, n + 1, Len(log_buffer))
    /\ page_lsn' = [p \in Pages |-> Minus(page_lsn[p], n)]

ForceLog == ForceTo(Len(log_buffer))

(* What the statement promises its client once it has returned. *)
Promised ==
    [k \in Keys |->
        IF stmt.op = "insert" /\ k \in stmt.keys THEN {stmt.row}
        ELSE IF stmt.op = "delete" /\ k \in stmt.keys THEN {0}
        ELSE allowed[k]]

Returns ==
    /\ allowed' = Promised
    /\ Step("idle", NoStmt, 0)
    /\ UNCHANGED <<pageVars, fileVars, catalogVars, steal, spoilt>>

(* Mutant: the statement returns without forcing the log. *)
CommitUnforced ==
    /\ pc = "commit"
    /\ Returns
    /\ UNCHANGED <<logVars, countVars, at_risk>>

(* flush_up_to(u64::MAX), and the statement returns.  Behind a torn record *)
(* its own are in vain.                                                    *)
Commit ==
    /\ pc = "commit"
    /\ ForceLog
    /\ at_risk' = (at_risk \/ torn)
    /\ Returns
    /\ UNCHANGED countVars

Fault(kind) == kind \in Faults /\ faults < MaxFaults /\ faults' = faults + 1

(* A write to the log that stops, at a record or inside of one.            *)
PartlyForced ==
    \E n \in 0 .. Len(log_buffer) :
        /\ log_file' = Written(n)
        /\ torn' \in {torn, torn \/ n < Len(log_buffer)}

(* The force fails.  The records have left the buffer all the same, and    *)
(* the statement returns Ok.                                               *)
CommitFails ==
    /\ pc = "commit"
    /\ Fault("log")
    /\ log_buffer # <<>>
    /\ PartlyForced
    /\ log_buffer' = <<>>
    /\ page_lsn' = [p \in Pages |-> 0]
    /\ at_risk' = TRUE
    /\ Returns
    /\ UNCHANGED <<rows, deletes, checkpoints, crashes>>

-----------------------------------------------------------------------------
(* Pages on their way to the files *)

WriteHeap(p) ==
    /\ heap_disk' = [heap_disk EXCEPT ![p] = heap[p]]
    /\ heap_len' = IF p < heap_len THEN heap_len ELSE p + 1
    /\ UNCHANGED index_disk

(* Where the pool may choose a victim or has flushed some of its frames:   *)
(* in a fetch by a statement, during a checkpoint or the recovery.         *)
MayWrite(steps) == steal /\ pc \in steps \union {"idle", "delete", "checkpoint", "replay"}

(* Mutant: the LSN of the page is not looked at. *)
StealHeapUnforced(p) ==
    /\ MayWrite({"index"})
    /\ p < heap_pages
    /\ heap_disk[p] # heap[p]
    /\ WriteHeap(p)
    /\ UNCHANGED <<logVars, pageVars, catalogVars, stmtVars, countVars, historyVars>>

(* A page's LSN is that of the last deletion in it, which may be that of   *)
(* an earlier process, when LSNs counted from 1 as they do now: then it    *)
(* forces any part of the log.  The recovery pins the last page.           *)
StealHeap(p) ==
    /\ MayWrite({"index"})
    /\ p < heap_pages
    /\ pc = "replay" => p < heap_pages - 1
    /\ heap_disk[p] # heap[p]
    /\ WriteHeap(p)
    /\ IF page_lsn[p] > 0 THEN ForceTo(page_lsn[p])
       ELSE \E n \in 0 .. Len(log_buffer) : ForceTo(n)
    /\ UNCHANGED <<pageVars, catalogVars, stmtVars, countVars, historyVars>>

(* The first bytes of a node, its type and key counts, are larger than any *)
(* LSN: get_lsn of an index page forces the whole log.                     *)
StealIndex ==
    /\ MayWrite({})
    /\ index_disk # index
    /\ index_disk' = index
    /\ ForceLog
    /\ UNCHANGED <<heap_disk, heap_len, pageVars, catalogVars, stmtVars,
                   countVars, historyVars>>

BeginCheckpoint ==
    /\ pc = "idle"
    /\ checkpoints < MaxCheckpoints
    /\ checkpoints' = checkpoints + 1
    /\ Step("checkpoint", NoStmt, 0)
    /\ UNCHANGED <<pageVars, fileVars, catalogVars, logVars, rows, deletes,
                   crashes, faults, historyVars>>

(* Mutant: no page is flushed. *)
CheckpointFlushNothing ==
    /\ pc = "checkpoint"
    /\ UNCHANGED fileVars
    /\ ForceLog
    /\ Step("truncate", NoStmt, 0)
    /\ UNCHANGED <<pageVars, catalogVars, countVars, historyVars>>

(* flush_all_pages and flush_up_to(u64::MAX) *)
CheckpointFlush ==
    /\ pc = "checkpoint"
    /\ heap_disk' = heap
    /\ heap_len' = heap_pages
    /\ index_disk' = index
    /\ ForceLog
    /\ Step("truncate", NoStmt, 1)
    /\ UNCHANGED <<pageVars, catalogVars, countVars, historyVars>>

(* flush_all_pages ends at the first page that cannot be written; the      *)
(* checkpoint goes on as if it had not.                                    *)
CheckpointFlushFails ==
    /\ pc = "checkpoint"
    /\ Fault("page")
    /\ \E written \in SUBSET (0 .. heap_pages - 1) :
          /\ heap_disk' = [p \in Pages |-> IF p \in written THEN heap[p] ELSE heap_disk[p]]
          /\ heap_len' = Max({heap_len} \union { p + 1 : p \in written })
    /\ index_disk' \in {index, index_disk}
    /\ ForceLog
    /\ at_risk' = TRUE
    /\ Step("truncate", NoStmt, 0)
    /\ UNCHANGED <<pageVars, catalogVars, rows, deletes, checkpoints, crashes, allowed,
                   steal, spoilt>>

(* at tells whether all pages were flushed.                                *)
CheckpointTruncate ==
    /\ pc = "truncate"
    /\ log_file' = <<>>
    /\ torn' = FALSE
    /\ at_risk' = (at_risk /\ at = 0)
    /\ Step("idle", NoStmt, 0)
    /\ UNCHANGED <<pageVars, fileVars, catalogVars, log_buffer, page_lsn, countVars,
                   allowed, steal, spoilt>>

-----------------------------------------------------------------------------
(* Crash and recovery *)

(* The process dies at any point, in the recovery as well, and maybe while *)
(* it forces the log.                                                      *)
Crash ==
    /\ crashes < MaxCrashes
    /\ crashes' = crashes + 1
    /\ \/ UNCHANGED <<log_file, torn, faults>>
       \/ pc = "commit" /\ Fault("tear") /\ PartlyForced
    /\ spoilt' = (spoilt \/ at_risk)
    /\ heap' = heap_disk
    /\ heap_pages' = heap_len
    /\ index' = index_disk
    /\ log_buffer' = <<>>
    /\ page_lsn' = [p \in Pages |-> 0]
    /\ Step("rebuild", NoStmt, 1)
    /\ UNCHANGED <<fileVars, catalogVars, rows, deletes, checkpoints, allowed, steal, at_risk>>

LiveAt(c) == c[2] \in DOMAIN heap[c[1]] /\ heap[c[1]][c[2]].live
KeyAt(c) == heap[c[1]][c[2]].key

(* The first live tuple of each key, in the order of the scan.             *)
Rebuilt ==
    LET Holds(k) == { c \in CTID : LiveAt(c) /\ KeyAt(c) = k }
        Upto(c, d) == c[1] < d[1] \/ (c[1] = d[1] /\ c[2] <= d[2])
        First(S) == CHOOSE c \in S : \A d \in S : Upto(c, d) IN
    [k \in Keys |-> IF Holds(k) = {} THEN NoCTID ELSE First(Holds(k))]

(* A corrupted root is replaced by an index made from the heap, unless the *)
(* heap has no tuple: then no root is made and the old one is kept.        *)
Rebuild ==
    /\ pc = "rebuild"
    /\ index' = IF Corrupted /\ Rebuilt # EmptyLeaf THEN Rebuilt ELSE index
    /\ Step("replay", NoStmt, at)
    /\ UNCHANGED <<heap, heap_pages, fileVars, catalogVars, logVars, countVars, historyVars>>

Replaying(op) == pc = "replay" /\ at <= Len(log_file) /\ log_file[at].op = op

(* A tuple whose key the index has is taken to be there already; another   *)
(* one goes to the heap and the index, and the root to the catalog.        *)
ReplayInsert ==
    LET r == log_file[at] IN
    /\ Replaying("insert")
    /\ \/ /\ Found(r.key)
          /\ UNCHANGED <<pageVars, root_page_num>>
       \/ /\ ~Found(r.key)
          /\ ~Corrupted
          /\ WriteTuple(r.key, r.row)
          /\ index' = IndexWith(r.key, NextCTID)
          /\ root_page_num' = TRUE
    /\ Step("replay", NoStmt, at + 1)
    /\ UNCHANGED <<fileVars, num_records, logVars, countVars, historyVars>>

(* panic!("BTree insert error during WAL replay") *)
ReplayPanics ==
    /\ Replaying("insert")
    /\ Corrupted
    /\ WriteTuple(log_file[at].key, log_file[at].row)
    /\ Step("panicked", NoStmt, at)
    /\ UNCHANGED <<index, fileVars, catalogVars, logVars, countVars, historyVars>>

(* Mutant: the tuple stays in the heap. *)
ReplayDeleteIndexOnly ==
    /\ Replaying("delete")
    /\ index' = IndexWithout({log_file[at].key})
    /\ Step("replay", NoStmt, at + 1)
    /\ UNCHANGED <<heap, heap_pages, fileVars, catalogVars, logVars, countVars, historyVars>>

MarkedAt(c) ==
    IF c[2] \in DOMAIN heap[c[1]]
    THEN [heap EXCEPT ![c[1]][c[2]].live = FALSE] ELSE heap

(* The key is removed, and the tuple the index has for it is marked.       *)
ReplayDelete ==
    LET k == log_file[at].key IN
    /\ Replaying("delete")
    /\ heap' = IF Found(k) THEN MarkedAt(index[k]) ELSE heap
    /\ index' = IndexWithout({k})
    /\ Step("replay", NoStmt, at + 1)
    /\ UNCHANGED <<heap_pages, fileVars, catalogVars, logVars, countVars, historyVars>>

RecoveryEnds ==
    /\ pc = "replay"
    /\ at = Len(log_file) + 1
    /\ Step("idle", NoStmt, 0)
    /\ UNCHANGED <<pageVars, fileVars, catalogVars, logVars, countVars, historyVars>>

-----------------------------------------------------------------------------

Next ==
    \/ \E k \in Keys : InsertTuple(k)
    \/ InsertLog \/ InsertIndex \/ InsertFails \/ InsertRoot \/ InsertCount
    \/ \E k \in Keys : BeginDelete({k})
    \/ BeginDelete(Keys)
    \/ DeleteOnPage \/ DeleteCount
    \/ Commit \/ CommitFails
    \/ \E p \in Pages : StealHeap(p)
    \/ StealIndex
    \/ BeginCheckpoint \/ CheckpointFlush \/ CheckpointFlushFails \/ CheckpointTruncate
    \/ Crash
    \/ Rebuild \/ ReplayInsert \/ ReplayPanics \/ ReplayDelete \/ RecoveryEnds

Spec == Init /\ [][Next]_vars

-----------------------------------------------------------------------------
(* Properties *)

(* What a client finds for a key: through the index, and in a scan.        *)
RowAt(k) ==
    IF ~Found(k) THEN 0
    ELSE IF LiveAt(index[k]) THEN heap[index[k][1]][index[k][2]].row ELSE -1

LiveTuples == { c \in CTID : LiveAt(c) }

(***************************************************************************)
(* What a statement that returned has stored or removed is what a client   *)
(* finds through the index from then on, after any number of checkpoints   *)
(* and crashes, also crashes during recovery; a statement that was cut off *)
(* has happened or not (log_manager.rs, "to ensure ACID durability").      *)
(***************************************************************************)
StatementsAreDurable == pc = "idle" => \A k \in Keys : RowAt(k) \in allowed[k]

(***************************************************************************)
(* This is so where pages are only written by checkpoints, and as long as  *)
(* no crash comes between an error of the disk that was ignored and the    *)
(* end of the next checkpoint without one: that checkpoint makes up for    *)
(* pages that were not written, records that were not, and a torn log.     *)
(***************************************************************************)
RowsAreDurable == ~steal /\ ~spoilt => StatementsAreDurable

(***************************************************************************)
(* Index and heap say the same between statements: every live tuple is the *)
(* one the index has for its key, and every entry of the index leads to a  *)
(* live tuple of that key.  A scan returns no row twice and none that      *)
(* cannot be found, and the primary key is unique.                         *)
(***************************************************************************)
IndexMatchesHeap ==
    pc = "idle" /\ ~steal /\ ~spoilt =>
        /\ \A c \in LiveTuples : index # Zeros /\ index[KeyAt(c)] = c
        /\ \A k \in Keys : Found(k) => LiveAt(index[k]) /\ KeyAt(index[k]) = k

(***************************************************************************)
(* The number of records in the catalog is that of the heap until a crash  *)
(* separates the catalog, which is written before the log is forced, from  *)
(* the log (catalog.rs update_num_records; recovery leaves it alone).      *)
(***************************************************************************)
CountIsRows ==
    pc = "idle" /\ crashes = 0 => num_records = Cardinality(LiveTuples)

(***************************************************************************)
(* A recovery does not panic, so that the database can be opened again.    *)
(***************************************************************************)
RecoveryCompletes == ~steal => pc # "panicked"

(* The row that a record leaves its key.                                   *)
Word(r) == IF r.op = "insert" THEN r.row ELSE 0

(* What the records of a log say of a key, if they say anything.           *)
LastWord(log, k) ==
    LET about == { i \in DOMAIN log : log[i].key = k } IN
    { Word(log[i]) : i \in { j \in about : \A l \in about : l <= j } }

(***************************************************************************)
(* The log is up to date when a statement returns: its last word on a key  *)
(* is what the last statement on that key promised, or what one that       *)
(* failed may have done.  Recovery starts from this (dml.rs execute_dml).  *)
(***************************************************************************)
LogIsCurrent == pc = "idle" => \A k \in Keys : LastWord(log_file, k) \subseteq allowed[k]

LiveOnDisk == UNION { { s \in Range(heap_disk[p]) : s.live } : p \in Pages }

(***************************************************************************)
(* At every step, also inside statements and checkpoints and whatever      *)
(* pages have been written: a promised row is in the log or live in the    *)
(* heap file, and a row promised to be gone is not live in the heap file   *)
(* unless the log has its deletion.  A checkpoint must not cut the log     *)
(* before the pages are written (main.rs, the checkpointer).               *)
(***************************************************************************)
PromisesAreOnDisk ==
    \A k \in Keys :
        LET logged == { r \in Range(log_file) : r.key = k }
            live == { s \in LiveOnDisk : s.key = k } IN
        /\ \A row \in 1 .. MaxRows :
              allowed[k] = {row} => \E r \in logged \union live : r.row = row
        /\ allowed[k] = {0} /\ live # {} => \E r \in logged : r.op = "delete"

(* Both hold until a first crash, unless an error of the disk was ignored  *)
(* and no checkpoint without one has ended since.                          *)
Recoverable ==
    /\ TypeOK
    /\ crashes = 0 /\ ~at_risk => LogIsCurrent /\ PromisesAreOnDisk

Dead(file, p) == { i \in DOMAIN file[p] : ~file[p][i].live }

(* What a step of the files has in the log file.                           *)
DeletionsLogged == crashes = 0 /\ ~at_risk =>
    LET deleted == { r \in Range(log_file') : r.op = "delete" } IN
    /\ \A p \in Pages : \A i \in Dead(heap_disk', p) \ Dead(heap_disk, p) :
          \E r \in deleted : r.key = heap_disk'[p][i].key
    /\ index_disk # Zeros => \A k \in Keys :
          index_disk[k] # NoCTID /\ index_disk'[k] = NoCTID
              => \E r \in deleted : r.key = k

(***************************************************************************)
(* WAL before data for deletions, until a first crash: when a page reaches *)
(* its file with a tuple newly marked deleted, or without a key the file   *)
(* had, the record of a deletion of that key is in the log file.  The page *)
(* of the heap has the LSN of its last deletion; that of the index has     *)
(* none, but what is read as one is larger than any (buffer_pool.rs        *)
(* flush_frame_to_disk).  Records whose force failed are excepted.         *)
(***************************************************************************)
DeletionsAfterLog == [][DeletionsLogged]_vars

-----------------------------------------------------------------------------
(* The invariant behind the properties (EngineProofs). *)

(* What a record of the log makes of the row of a key, or of 0 for none,   *)
(* when it is replayed.                                                    *)
After(row, r, k) ==
    IF r.key # k THEN row
    ELSE IF r.op = "delete" THEN 0
    ELSE IF row # 0 THEN row
    ELSE r.row

(* The rows that a key has after each number of the records of a log.      *)
Replayed(row, log, k) ==
    LET value[n \in 0 .. Len(log)] == IF n = 0 THEN row ELSE After(value[n - 1], log[n], k)
    IN  value

(* A heap and an index as they lie in memory or in their files.            *)
HasKey(x, k) == x # Zeros /\ x[k] # NoCTID
LiveIn(h, c) == c[2] \in DOMAIN h[c[1]] /\ h[c[1]][c[2]].live
TupleIn(h, c) == h[c[1]][c[2]]
RowIn(h, x, k) == IF HasKey(x, k) THEN TupleIn(h, x[k]).row ELSE 0

MemoryRow(k) == RowIn(heap, index, k)
FileRow(k) == RowIn(heap_disk, index_disk, k)

(* They say the same, but for the tuples of some CTIDs.                    *)
Agree(h, x, but) ==
    /\ \A k \in Keys : HasKey(x, k) => LiveIn(h, x[k]) /\ TupleIn(h, x[k]).key = k
    /\ \A c \in CTID \ but : LiveIn(h, c) => x # Zeros /\ x[TupleIn(h, c).key] = c

Recovering == pc \in {"rebuild", "replay"}
Inserting == pc \in {"log", "index"}
Clean == heap = heap_disk /\ heap_pages = heap_len /\ index = index_disk

(* What the steps of a statement, a checkpoint and a start know.           *)
StepsSound ==
    /\ \A p \in Pages : /\ p >= heap_pages => heap[p] = <<>>
                        /\ p >= heap_len => heap_disk[p] = <<>>
    /\ rows \in 0 .. MaxRows /\ crashes \in 0 .. MaxCrashes
    /\ index_disk # Zeros => root_page_num
    /\ pc \in {"log", "index", "catalog"} => stmt.op = "insert"
    /\ pc = "delete" => stmt.op = "delete" /\ at <= heap_pages
    /\ pc = "commit" => stmt.op # "none"
    /\ pc \notin {"log", "index", "catalog", "delete", "commit"} => stmt = NoStmt
    /\ stmt.op = "insert" =>
          \E k \in Keys : stmt.keys = {k} /\ stmt.row \in allowed[k] \ {0} /\ stmt.ctid \in CTID
    /\ pc = "truncate" => (at = 1 /\ Clean) \/ (at = 0 /\ at_risk)
    /\ Recovering \/ pc = "panicked" => crashes > 0
    /\ Recovering => at > 0 /\ (~spoilt => ~at_risk)

(* A table that was not just created always has a root.                    *)
Established == \A start \in Starts : start.fresh => start.steal

CalmSound == Established /\ ~steal =>
    /\ index # Zeros /\ index_disk # Zeros /\ pc # "panicked"
    /\ pc \notin {"index", "catalog", "delete", "commit"} => log_buffer = <<>>

(* The heap has the tuple of an INSERT before the index has its key, and a *)
(* DELETE has been at the pages it has passed.                             *)
StatementSound ==
    /\ Inserting => \A k \in stmt.keys :
          /\ ~Found(k)
          /\ LiveIn(heap, stmt.ctid)
          /\ TupleIn(heap, stmt.ctid).key = k
          /\ TupleIn(heap, stmt.ctid).row = stmt.row
    /\ pc \in {"catalog", "commit"} /\ stmt.op = "insert" =>
          \A k \in stmt.keys : MemoryRow(k) = stmt.row
    /\ stmt.op = "delete" =>
          \A k \in stmt.keys : Found(k) => pc = "delete" /\ index[k][1] >= at

MemoryHolds ==
    /\ ~Corrupted /\ pc # "panicked"
    /\ Agree(heap, index, IF Inserting THEN {stmt.ctid} ELSE {})
    /\ StatementSound
    /\ ~Recovering => \A k \in Keys : MemoryRow(k) \in allowed[k]

(* Memory is sound until what a crash lost cannot come back.               *)
MemoryTrusted == crashes = 0 \/ (Established /\ ~steal /\ ~spoilt)
MemorySound == MemoryTrusted => MemoryHolds

(* The log a crash would leave if it came after the next force.            *)
Log == Written(Len(log_buffer))

(* The row a key has, or is about to have now that its record is logged.   *)
Meant(k) == IF pc = "index" /\ k \in stmt.keys THEN stmt.row ELSE MemoryRow(k)

(* Any crash is recovered: what the log, up to where it is in its file or  *)
(* further, makes of the pages in their files is allowed.                  *)
CrashesAllowed ==
    \A k \in Keys : \A n \in Len(log_file) .. Len(Log) :
        Replayed(FileRow(k), Log, k)[n] \in allowed[k]

(* The whole log makes of them what is in memory; behind a torn record     *)
(* this is so between statements only.                                     *)
LogMakesMemory ==
    ~Recovering /\ (torn => stmt.op = "none") =>
        \A k \in Keys : Replayed(FileRow(k), Log, k)[Len(Log)] = Meant(k)

(* A recovery has made of them what the log up to here makes.              *)
RecoverySound ==
    /\ pc = "rebuild" => at = 1 /\ Clean
    /\ pc = "replay" =>
          /\ at \in 1 .. Len(log_file) + 1
          /\ \A k \in Keys : MemoryRow(k) = Replayed(FileRow(k), log_file, k)[at - 1]

FilesHold ==
    /\ Agree(heap_disk, index_disk, {})
    /\ CrashesAllowed
    /\ LogMakesMemory
    /\ RecoverySound

(* The files are sound unless an error of the disk was ignored.            *)
FilesTrusted == Established /\ ~steal /\ ~spoilt /\ ~at_risk
FilesSound == FilesTrusted => FilesHold

(* The count lags behind the heap from the tuple to the catalog.           *)
CountSound == crashes = 0 =>
    num_records + (IF pc \in {"log", "index", "catalog"} THEN 1 ELSE 0)
        = Cardinality(LiveTuples) + (IF pc = "delete" THEN stmt.row ELSE 0)

EngineSound ==
    /\ TypeOK /\ StepsSound
    /\ CalmSound /\ MemorySound /\ FilesSound /\ CountSound

(* What the log says is what is in memory or about to be.                  *)
LogSpeaksOfMemory ==
    /\ ~torn
    /\ \A k \in Keys : LastWord(Log, k) \subseteq {Meant(k)}
    /\ pc \in {"index", "catalog", "commit"} /\ stmt.op = "insert" =>
          \A k \in stmt.keys : \E i \in DOMAIN Log : Log[i].key = k /\ Log[i].row = stmt.row

(* A promised row is in the log file, or where the index leads in the heap *)
(* file.                                                                   *)
RowsKept ==
    \A k \in Keys : \A row \in 1 .. MaxRows : allowed[k] = {row} =>
        \/ \E i \in DOMAIN log_file : log_file[i].key = k /\ log_file[i].row = row
        \/ /\ Found(k) /\ LiveIn(heap_disk, index[k])
           /\ TupleIn(heap_disk, index[k]).key = k /\ TupleIn(heap_disk, index[k]).row = row

(* A log file, or the first n records that follow, has a deletion.         *)
DeletionLogged(file, buffer, n, k) ==
    \/ \E i \in DOMAIN file : file[i].op = "delete" /\ file[i].key = k
    \/ \E i \in 1 .. n : buffer[i].op = "delete" /\ buffer[i].key = k

WillBeLogged(k) == DeletionLogged(log_file, log_buffer, Len(log_buffer), k)
IsLogged(k) == DeletionLogged(log_file, log_buffer, 0, k)
LoggedWithPage(p, k) == DeletionLogged(log_file, log_buffer, page_lsn[p], k)

DeadIn(h, c) == c[2] \in DOMAIN h[c[1]] /\ ~h[c[1]][c[2]].live

(* What is live in the heap file is so in memory, or its deletion is       *)
(* logged, in the file once it is promised; so is, by the LSN of the page, *)
(* the deletion of what is dead in memory alone, and that of a key that    *)
(* only the index file has.                                                *)
DeletionsKept ==
    /\ \A c \in CTID : LiveIn(heap_disk, c) =>
          LET k == TupleIn(heap_disk, c).key IN
          /\ (LiveIn(heap, c) /\ TupleIn(heap, c).key = k) \/ WillBeLogged(k)
          /\ allowed[k] = {0} => IsLogged(k)
    /\ \A c \in CTID : DeadIn(heap, c) /\ ~DeadIn(heap_disk, c) =>
          LoggedWithPage(c[1], TupleIn(heap, c).key)
    /\ index_disk # Zeros => index # Zeros
    /\ \A k \in Keys : HasKey(index_disk, k) /\ ~HasKey(index, k) => WillBeLogged(k)

LogHolds == LogSpeaksOfMemory /\ RowsKept /\ DeletionsKept

(* Until a first crash a statement leaves no record in memory, and the log *)
(* is right unless an error of the disk was ignored.                       *)
LogSound == crashes = 0 =>
    /\ pc \notin {"index", "catalog", "delete", "commit"} => log_buffer = <<>>
    /\ ~at_risk => LogHolds

=============================================================================
