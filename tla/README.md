# A verification project for WackDB

WackDB is a small relational database in Rust: a command line that executes
SQL statements on tables of fixed pages, with a buffer pool, a write-ahead log,
B+-tree indexes, a checkpointer thread, recovery at startup and a web server
that shows what is in memory.  This directory holds TLA+ modules that model its
storage engine and its command line, TLC configurations that check them on small
instances, and machine-checked proofs about the buffer pool, the replacer, the
log, the engine with its recovery, the catalog, and a table down to the bytes of
its pages and tuples.

Contents: 1 the system, 2 the modules, 3 the runs, 4 fairness, 5 the proofs,
6 disagreements found, 7 limits, 8 plan.

To repeat: `tlc -config X.cfg M` for a run of section 3 (`M` is the module in the
same row), `tlapm M.tla` for the proofs, with `BufferPoolProofs`, `PoolInUseProofs`,
`SubsequencesProofs`, `DiskLogProofs`, `EngineProofs`, `CatalogProofs`,
`HeapTableProofs` and `BTreeProofs` for `M`; the last takes a quarter of an hour.


## 1. The system

One process.  The main thread reads statements and executes each of them under
the write lock of one outer `RwLock<BufferPoolManager>`; the checkpointer thread
and the handlers of the web server take the read lock.  The crates, from the
bottom up:

| Part (crate) | State | Operations | Used by |
|---|---|---|---|
| Disk manager (`wackdb_storage`) | per file a handle with its page count, opened on first use | `read_page`, `write_page` (with a sync), `allocate_page`, `get_total_pages`, `close_all`, `delete_file` | buffer pool, web server |
| Replacer (`wackdb_buffer/lru.rs`) | queue of frames, pinned flags | `record_access`, `set_pin`, `evict`, `remove` (no caller) | buffer pool |
| Buffer pool (`wackdb_buffer`) | page table, frame descriptors, frames behind one lock each | `fetch_page`, `new_page`, `read_page`, `write_page`, `unpin_page`, `flush_page`, `flush_all_pages`, `drop_relation` | everything above |
| Log (`wackdb_wal`) | buffer of records, next and flushed LSN, the file | `append_record`, `flush_up_to`, `checkpoint`, `read_all_logs` | buffer pool, statements, checkpointer, recovery |
| Slotted page (`wackdb_page`) | bytes of a heap page: LSN, slots, tuples | `init`, `insert_record`, `mark_deleted`, `set_lsn` | statements, scans, recovery |
| B+-tree (`wackdb_btree`) | nodes in pages of the index file, the root's number | `insert`, `search`, `range_search`, `delete` | statements, queries, recovery |
| Catalog (`wackdb_catalog`) | tables with schema, root page, record count; `catalog.json` is written at every change | `open`, `flush`, create, drop, `update_root_page`, `update_num_records` | statements, meta commands, recovery |
| Tuples (`wackdb_tuple`) | none | serialize, read values | statements, queries |
| Queries (`wackdb_query`, `query.rs`) | none between statements | scans, join, sort, projection, predicates | command line |
| SQL parser (`wackdb_sql`) | none | `parse_sql` | command line |
| Command line (`wackdb_cli`) | the lines of the current statement; lifetime of the process | the loop over lines, `.source`, statements, meta commands, checkpointer, rebuild of indexes, replay of the log | the user |
| Web server and UI (`wackdb_web`, `web-ui`) | none of their own | views of the pool, of pages and of the log | a browser |

What is hard in it:

* **Two locks of the pool that do not nest one way.**  The mutex of the page
  table covers whole calls, including their I/O; a frame's bytes are behind a
  lock of their own, which clients hold *across* calls (a B+-tree split) and
  which a flush takes *inside* a call.  Without the outer lock a checkpoint and
  a split stop each other.
* **Frame numbers outlive the mutex.**  `fetch_page` returns a number that the
  caller uses after the mutex is free.  Only the pin keeps the page there, and a
  pin is three states: the count, the replacer's flag and the queue.
* **The dirty flag is late.**  It is set by the unpin, not by the modification;
  a flush in between clears it.
* **Every file has its own time.**  Heap, index, catalog and log are written at
  different moments, a page at a time; LSNs begin again at 1 in every process
  while pages keep the old ones; a crash is possible anywhere, in the recovery
  too.
* **Atomics beside locks in the log.**  `append_record` takes a number and then
  pushes; `flush_up_to` reads `flushed_lsn` before it locks and stores it after.
* **Offsets of 16 bits.**  Pages, slots and tuples are offsets and lengths
  computed from each other; one that is off by a byte overwrites a neighbour.
* **Several plans for one question.**  A condition may become bounds of an index
  scan, a filter before a join or one after it; joins and sorts have two
  algorithms each.
* **Structural changes over several pages.**  A split climbs the tree, moves
  children whose parent pointers later operations start from, and rewires the
  chain of leaves.

* **A table is spread over four places.**  Its catalog entry, its two files and
  the records of the log are tied by numbers and by its name, and each survives
  a DROP, a `.reset` or a failed save in its own way.
* **Statements are found by searching text.**  Lines are collected up to a
  semicolon, comments and line breaks removed, and the parser cuts the rest at
  the first places where keywords and separators occur.

What makes each part correct, and where that is stated:

| Part | Properties | Module |
|---|---|---|
| Buffer pool | page table and frames agree; pins are counted exactly and keep the page; no update is lost; log before data; an unpinned page can be evicted; the pool refuses only when all is pinned; a flush of everything is complete; seen from outside it is a plain store of pages; every call returns | `BufferPool`, `SharedPool` |
| Replacer | the victim is the unpinned frame used longest ago | `LRUReplacer` (implements `RecencyPolicy`) |
| Disk manager | a new page is blank | `DiskManager` |
| Log | what a flush confirmed is in the file; a log that grows at one end with a durable prefix; each record once | `DiskLog` (implements `WriteAheadLog`) |
| Statements and recovery | a row promised to a client is found after any crash; index and heap agree; the log is current at the end of a statement; the database can be opened | `Engine` |
| B+-tree | the entries inserted and not deleted, found by a search from the root and by a range search along the leaves | `BTree` (implements `IndexMap`) |
| Slotted page and tuples | slots and records never meet and no byte is wasted; a scan and the index return the values that were inserted | `SlottedPage`, `TupleCodec`, `HeapTable` |
| Queries | exactly the rows the clauses ask for, by every plan | `QueryPlan`, `HeapTable` |
| Catalog and tables | relations belong to one table and are never given twice; the file is replaced as a whole and is current between statements; a table holds its own rows and no others, whatever is created, dropped, wiped, refused or cut off | `Catalog` (implements `SavedValue`) |
| Parser and session | every statement is executed once, in order, as it was meant, however it is laid out | `SqlParser`, `Session` |


## 2. The modules

**`RecencyPolicy`, `LRUReplacer`.**  The policy keeps a set of frames and the
relation "accessed before"; the replacer keeps the queue of `lru.rs`.  The
relation read off the queue is the refinement mapping.

**`DiskManager`.**  `stored` is what each page of a file reads as, `file_len`
the file's length in pages, `total_pages` the count in an open handle (`Closed`
without a handle).  A read past the end gives zeros; a write past the end makes
the file longer and does not move the count.

**`BufferPool`.**  `page_table`, the descriptors (`page_id`, `pin_count`,
`is_dirty`), `frames`, the replacer's two variables, the disk manager's three,
and a log reduced to the LSN rule (`next_lsn`, `log_buffer`, `log_durable`:
`DiskLog` is the detailed one).  Per thread there is a program counter with the
operation, its page and its frame, the owner of the `mutex`, and the `guard` of
each frame.  The mutex is held for a whole call, but a flush inside a call waits
for the guard of a frame and the log is forced before the page is written, so
a call is cut into

    call -> [allocate ->] Enter... -> flush -> write -> (Remap ->) load -> idle

| Action | Code (`buffer_pool.rs`) |
|---|---|
| `CallNew`, `Allocate` | `new_page`: `allocate_page`, outside of the mutex, then a fetch |
| `FetchHit`, `FetchMiss`, `FetchNoFreeFrames` | `fetch_page` up to the choice of the frame |
| `FlushClean`, `FlushLog`, `FlushLogFails`, `FlushWrite`, `FlushWriteFails` | `flush_frame_to_disk`, of a victim, of one page or of each frame in turn (`AfterFlush`) |
| `FetchLoad`, `FetchLoadFails` | `Remap`: the page table gives up the old page and names the frame for the new one; then the read and the new descriptor; a read that fails leaves the new mapping behind |
| `Unpin`, `DropRelation` | the calls of these names, which do no waiting |
| `TakeGuard`, `Modify`, `DropGuard` | what a client does to a page it has pinned; `Modify` appends the log record |
| `Crash` | the process dies: memory goes, files stay, LSNs start at 1 |

A page's bytes are the number of the modification that made them and the LSN in
its header.  `Stamps` says whether modifications set that LSN; `Faults` which
I/O may fail; `GuardsAcrossCalls` whether clients call with a guard in hand.
`unread` is history: the frames whose last load failed, which the pool cannot tell
from others.

**`PageStore`** is what the pool promises: pages that change only when somebody
modifies them (each modification is counted), a durable copy that catches up at any time, and losses that fall
back to it.  `ImplementsStore` maps the page in memory, or else in the file, to
its store.

**`SharedPool`** puts the outer lock of `main.rs` around the pool: statements
take it exclusively and may call with guards in hand, checkpointers take it
shared and flush everything.

**`DiskLog`**: `append_record` is two steps (the atomic counter, the push under
the lock), `flush_up_to` is the early test, then the locked part, then the write,
which may fail, be lost or be cut by a crash in the middle of a record;
`Checkpoint` empties the file.  The variable `serial`, chosen at the start, makes
the callers take turns, as the outer lock makes statements do.  The loop over the
buffer is `Picked` of the places that are `Due` (**`Subsequences`**).
**`WriteAheadLog`** is the abstract log.

**`Engine`** composes the layers into a table that lives through crashes.  It
uses what the layers below were shown to be (a store of pages with durable
copies, a log with a durable prefix) instead of their steps.  An INSERT is
`InsertTuple` (heap page), `InsertLog`, `InsertIndex` or `InsertFails`,
`InsertRoot` and `InsertCount` (catalog), `Commit` (the log is forced); a DELETE
is `BeginDelete`, one `DeleteOnPage` for each heap page, `DeleteCount`,
`Commit`.  `StealHeap` and `StealIndex` are single pages that reach their files
in an eviction, with the LSN rule as the code applies it: an insert leaves the
LSN of its heap page alone, a deletion sets it, and the bytes read as the LSN of
an index node are its type and counts, larger than any LSN.  A start is
`Rebuild` (the index from the heap when the root page is not a node) and then
one `ReplayInsert`, `ReplayDelete` or `ReplayPanics` for each record of the log.
The disk may fail where the code ignores it: `CommitFails` (the records have left
the buffer and a part of them is in the file, or a torn one) and
`CheckpointFlushFails` (some pages are written, and the log is cut all the same);
a `Crash` may tear the record being written.  `at_risk` is history: such an error
was ignored and no whole checkpoint has made up for it; `spoilt` says that a crash
came in such a time.
`allowed[k]` is history: the rows a client may find under `k`.

**`BTree`**: nodes are records of keys, values or children, a parent and a next
leaf.  An operation is alone, so it is cut only where the code recurses up the
tree: `SplitLeaf` leaves a key and a new node for the parent, `InsertIntoParent`,
`SplitInternal` or `CreateNewRoot` take it from there; `Delete` leaves a short
leaf, `MergeLeaf` or `NoMerge` deals with it.  **`IndexMap`** is the function
from keys to CTIDs it implements.

**`Catalog`** is the set of tables and what they are made of: `data`,
`catalog.json` and the temporary file beside it, heap and index of every relation
number in memory and on disk, the log with records that name a table by its name.
A save is `WriteTemp` (or `WriteTempShort`, whose bytes are lost unnoticed) and
`Rename`, and may be refused at either (`SaveFails`); `todo` is what the statement
does after it.  `Create`, `Drop`, `Insert`, `Delete`, `Demo`, `Checkpoint` and
`Truncate` are the commands; `Wipe`, `Reopen` and `Opened` are `.reset`, which may
leave any part of the directory behind; `Crash`, `Start` and `Recover` a new
process.  What `Engine` has in single steps (pages that reach their files, the
replay) is one step here, and here there are several tables.  A table's `life` is
history: which CREATE it comes from.  **`SavedValue`** is a value with a durable
copy that catches up at once, is fallen back to, or is erased.

**`SqlParser`** is `parse_sql`: texts are sequences of symbols (words, blanks, line
breaks, quotes, punctuation, `--`), searched and cut as the code does, with
`Refused` for an error and `Panic` for a slice that ends before it begins.
**`Session`** is the loop of `main.rs` (`ReadLine`), `.source` (`Sourced`) and
`process_command` over it, and its user, who has statements in mind and writes
them piece by piece (`Written` is the grammar of `.help`), with blanks, line
breaks and comments where they mean nothing, and now and then a piece forgotten
(`BeginWithSlip`).  `meant` is what was written to its end; `regular` turns false
with a layout the loop is known to misread (section 6).

**`Bytes`** are the pieces written into a run of bytes, each with its offset and
its length; a read gives back what was written if exactly that is there, and
`Garbage` otherwise.  **`SlottedPage`** is `page.rs` on them: the header, the
directory that grows up, the records that grow down, and the arithmetic that
keeps the two apart.  **`TupleCodec`** is `Tuple::from_values` and `to_values`:
offsets of the fixed parts and the pointers of strings.  A string is known by its
length, and a column may not be NULL, as the statements have it.

**`QueryPlan`** is SELECT.  Nothing changes under a statement, so an executor is
the sequence of the tuples it would return, and each is an operator:
`SeqScan`, `IndexScan`, `Filter`, `Project`, `HashJoin`, `NestedLoopJoin`,
`ExternalMergeSort` with its runs.  `BasePipeline` chooses the scan (`UsesIndex`,
`Bounds`), `PushedDown` and `Remaining` divide the conditions, `Select` puts the
pipeline together.  The index is the function of `IndexMap`.

**`HeapTable`** is one table with these bytes.  `Insert` is `execute_insert` with
`write_tuple_to_heap` (the last page, or a new one, or a new one that is too
small as well), `Delete` is `execute_delete` over all pages, which finds the key
to take out of the index in the bytes of the record it has marked.  `stored` is
history: the rows a client may expect, in order.  Crashes are `Engine`'s.

Definitions whose comment begins with "Mutant" are broken variants of the
definition they precede.  They are used by nothing; put in place of the
definition they show that a property would notice (PROJECT.json lists which).


## 3. The runs

| Run | Module | Shows | Bounds |
|---|---|---|---|
| PoolConcurrent | `MCBufferPool` | two threads hit, miss, evict and flush while the other modifies pinned pages; page writes fail before or after the bytes are in the file, the log fails to be forced, and reads fail: mapping, pins, no lost update, complete flushes | 2 frames, 3 pages, 1 pin each, 1 modification, and `FailedReadsAlone` |
| PoolPressure | `MCBufferPool` | more pins than frames, a dropped relation, a crash: refusals, LRU order, log before data although LSNs restart, blank new pages, refinement of `PageStore` | 2 frames, 3 pages, 3 pins, 2 modifications, 1 loss, and `PinsOrWrites` |
| SharedPool | `MCSharedPool` | statements with guards in hand and the checkpointer: no deadlock, every call returns, the invariant of the proofs, with failing writes | the statement thread, 1 checkpointer, 2 frames, 3 pages, 2 pins, 1 modification |
| Log | `MCDiskLog` | threads inside the log at once, failing and torn writes: no record vanishes without an error, none is there twice; threads that take turns see the abstract log | 3 threads, 3 records, 1 checkpoint, 1 restart |
| Engine | `MCEngine` | promised rows survive two crashes, the second also in the recovery, and ignored errors of the disk; index, heap and count agree; what recovery starts from, at every step and with every page written at any time | 2 keys, 4 rows, 2 deletes, 2 tuples a page, 2 checkpoints, 2 crashes, 1 error, and `Small` |
| BTreeOps | `MCBTree` | any order of inserts and deletes: the tree implements the map; separators, parent pointers and the chain stay right | 6 keys, nodes of 2, 9 pages, 3 deletes |
| HeapTable | `MCHeapTable` | rows that fill pages to the last byte, inserted and deleted: the layout of pages, what scans and index return, and every SELECT of a set of 23 without a join and 9 with one, by both algorithms, and sorts on each column | pages of 8192 bytes, 6 rows over 4 keys, 3 inserts, 2 deletes, sort chunks of 1 to 4 |
| Catalog | `MCCatalog` | tables created, filled, dropped, created again, wiped, recovered, while saves fail at each of their steps: ownership of relations, their own rows only, the file against the memory, refinement of `SavedValue` | 2 names, 2 creations, 1 key, 2 inserts, 1 delete, 1 checkpoint, 2 crashes, 2 faults, 1 reset, and `OneThingWithReset` |
| Session | `MCSession` | statements of every kind, typed or in a file, laid out in every way, one with a piece forgotten: executed as meant | 2 statements, 1 unusual layout or slip |
| EngineSteal, EngineFresh, EngineTorn | `MCEngine` | counterexamples, section 6 | as small as they can be |

Why these bounds: two frames and three pages are the least where a victim, a hit
and a miss differ and where the pool is under pressure; the third page makes the
LRU order matter.  One modification is enough to be lost, by a flush that clears
the flag before the unpin or by a second caller's clean unpin; two, and one loss,
let an LSN of an earlier process meet a new one.  `PinsOrWrites` keeps the second
modification, and what follows the loss, to one pin at a time: those concern what
is on disk, several pins concern the queue.  `FailedReadsAlone` keeps what follows a
failed read to one thread at a time, and to no modification: what matters then is
whether bookkeeping and other frames are as before.  Three threads in the log let an early
LSN be pushed after a later one was flushed.  In the engine, two heap pages and a third for a
re-inserted key make "the last page" of an insert differ from the page of a
deletion; the second crash is for a recovery that is itself cut off.  A table starts either
checkpointed and with pages written by checkpoints only, or just created and with
single pages written at any fetch; `Small` gives the second three rows and crashes
together, with at most one crash, and both a checkpoint for the error besides
another, which is what makes up for it.  In the catalog one key is enough, because
what can be mixed up are tables; two creations are a name used twice or two names.
`OneThingWithReset` combines a `.reset` with one fault or one crash.  In the
session the second statement shows what the first one left behind, and a single
unusual layout stands before every piece of every statement in turn.  Six keys
in nodes of two build a tree of three levels by two splits of internal nodes,
and three deletions empty a leaf, its neighbour, and a leaf that is its parent's
only child.  With room for two keys a leaf is merged only when empty; merges
that are refused because the neighbour is too full need leaves of four and are
not reached in this run.

In HeapTable a page of 8192 bytes has 8176 for records and slots, and a row takes
30 and its string: strings of 0, of 4058 (two of them fill a page), of 4059 (one
byte too many beside another half), of 8146 (a whole page) and of 8147 bytes
(more than a page) are the boundaries of the free-space arithmetic.  The keys
are the least and the largest integer, 0 and 1, where the bounds of index scans
saturate or change sign.  Three rows are more than a sort chunk, as many, and
fewer, and spread over up to three pages.  The second table of a join has the
same rows under other names, so that every join column has partners, several
for the Boolean one.

Symmetry is used over threads (pool, log) and keys (engine), which no step
compares; never in a run with a liveness property.  The engine, the catalog, the
session and HeapTable turn deadlock checking off: a database that has used up its
bounds, whose recovery has panicked or whose catalog is torn stops, and so does a
user who has written all that was to be written.  In all others deadlock is
checked.


## 4. Fairness

Only one run has a liveness property: `CallsReturn` under `FairSharedSpec`.
Assumed is that the scheduler runs every thread inside a call (`WF` of its next
step; the mutex and the guards are parking_lot's, whose queues are fair in the
long run), that a statement with a guard drops it some day and ends (it is a
finite program; `SF`, because it may call many times before), and that the
checkpointer gives the lock back.  Nothing forces a statement to begin or a
checkpoint to happen.  Without the outer lock the property is false: that is the
mutant of this run, in which a flush waits for a guard whose owner waits for the
mutex the flush holds.


## 5. The proofs

For every value of the constants (frames, files, pages, threads; keys, rows,
records; any number of steps, faults and crashes), from the `ASSUME`s of the
modules, which say what kind of values the constants have.  A theorem that needs
more says so in its statement; those hypotheses are explained below the tables.

### The buffer pool

| Module, theorem | Says |
|---|---|
| `BufferPoolProofs` `BookkeepingInvariant` | `Spec => []Bookkeeping`, the inductive invariant |
| `PoolTypeCorrect` | `Spec => []TypeOK`; in particular pin counts never go below zero, so the subtraction in `FrameDescriptor::unpin` is safe |
| `MappingIsConsistent` | the page table and the descriptors name the same pages: no page is in two frames |
| `PinsAreExact` | the pin count of a frame is the number of pins callers hold on it, and the replacer's flag says whether it is zero |
| `PinnedPagesStay` | the page of a pin stays in its frame, and the owner of a guard has a pin |
| `BytesInvariant` | `Spec => []BytesSound`: frames, dirty flags and files |
| `CleanFramesMatchFiles` | no update is lost |
| `AllocatedPagesAreBlank` | a new page has no old data, whatever was dropped or failed before |
| `FlushAllCompletes` | a `flush_all_pages` without an error has written everything, with other threads between its frames |
| `PoolIsAStore` | the pool implements `PageStore`, if reads do not fail |
| `LogBeforeData` | a modification in a data file has its record in the log file, but for the modifications that `unlogged` names; any stamps, faults and crashes |
| `PoolInUseProofs` `VictimsAreLeastRecentlyUsed` | the queue of `lru.rs`, called as the pool calls it, implements `RecencyPolicy` |
| `UnpinnedCanBeEvicted`, `NoFreeFramesWhenAllPinned` | without failing I/O the pool never gets smaller and refuses only when all is pinned |
| `SharedUseIsPoolUse` | `SharedSpec => Spec`: all of the above holds under the outer lock |
| `CheckpointsMeetNoGuard` | no write guard is held while a checkpointer is in a call |

None of the properties is inductive alone.  That a pinned page stays needs that
a victim is unpinned while its flush waits for the log or the guard, steps
between which other threads run: `VictimUnpinned`.  That in turn needs that
only one thread is inside the pool, `MutexHeld`, and what its step knows of its
operation, page and frame, `CallsWellFormed`.  Counting needs that the set of
pins is finite and that two pins of a caller differ, `PinsKeyed`, so that adding
or removing one moves the cardinality by one.  Types need `LogBounded`, because
LSNs are bounded by the modifications.  `Bookkeeping` is the conjunction.  The
proof has one lemma per action (`FetchHitKeeps`, `RemapKeeps`, `UnpinKeeps`,
`CrashKeeps`, ...), each split by the parts of the invariant that the action
disturbs: what the calls are doing, what is pinned, what the descriptors say,
the disk and the log.

`BytesSound` adds what the bytes need.  A flush that clears the dirty flag may
come between a modification and the unpin that reports it, so "the flag is clear"
must be read together with the pins that are going to set it.  A write makes a
file longer only where a page has been allocated, so that pages past the count of
the handle stay blank: `OnlyExistingChange` and `FilesSound`.  A flush knows at its
write that the page is still dirty, and a load that its victim need not be flushed
any more, `FlushKnows`.  `FlushedBehind` is the loop of `flush_all_pages`: the
frames it has passed are as their files are, or somebody who modified them since
holds a pin; `FlushAllIsComplete` is its last round.

`LogCovers` says that the record of what is in a *frame* is durable or would be
by a force of the log up to the LSN in the page's header, and that between the
force and the write nobody can modify the page, whose guard is free.  LSNs begin
at 1 in every process, and a page with an LSN from before a crash keeps it: such
a page's record is durable already.

`LogBeforeData` has no hypothesis.  INSERT and the nodes of the index do not stamp
their page, and a force that fails has taken the records out of the log's buffer,
so that the next one succeeds without them; `WALBeforeData` may fail for such
modifications.  The theorem says that it fails for no others.  `HistorySpec` is
`Spec` with a history variable: `unlogged` gets a modification whose caller leaves
the LSN of the page as it was (`Unstamped`) and one whose record a failed force
took without writing it (`Dropped`), and nothing else.  Whatever is in a data file
is in the log file or in `unlogged`: what one caller does not stamp, and what one
failed force loses, never uncovers a modification of another.

`QueueComplete`: every cached page is in the queue but for a victim on its way.
A read or a flush of a victim that fails loses the frame, whence `Faults = {}`.
`PoolIsAStore` excludes failing reads because such a read leaves the new page
mapped to the old bytes.  The refinement of `RecencyPolicy` needs no such
hypothesis: what is lost from the queue is lost from the policy's set.

`OuterLock` is the reader-writer lock, who may hold it how, and that guards and
calls happen under it.

### The log

| `DiskLogProofs` | Says |
|---|---|
| `LogInvariant` | `Spec => []LogSound` |
| `RecordsAreKept` | no record vanishes without an error, none is there twice; any number of threads, failing and torn writes |
| `FlushedLsnNeverLies` | the early return of `flush_up_to` is right, for callers that take turns |
| `FlushesAreDurable` | a flush that returned `Ok` made durable what was appended up to its LSN, for callers that take turns |
| `FileImplementsLog` | the log implements `WriteAheadLog`, until a write fails |

Of threads that are inside at once `OnePlace` says that every record is in one
place, of those of a call between the counter and the push too.  `TurnsTaken`
holds of callers that take turns (as statements do under the outer lock): the
buffer is sorted and everything in it is above `flushed_lsn`, and a flush on its
way knows what it will owe.  Without turns an early LSN is pushed after a later
one was flushed, which TLC shows for the mutants of the run Log.

The loop of `flush_up_to` that divides the buffer is `Picked(s, places)`
(`Subsequences`, which the heap table uses for what a scan keeps), a recursive
function over the entries.  `SubsequencesProofs` shows
what it collects: there is an increasing map from the places of the result to
those picked (`PickedPlaces`), the first and the rest of a sorted sequence.  The
library's induction theorems take an operator and cannot be used; `SmallestNumber`
(from the well-foundedness of `<`) and `EveryRound` (a *set* of numbers with 0 and
successors is `Nat`) replace them.

### The engine

| `EngineProofs` | Says |
|---|---|
| `EngineInvariant` | `Spec => []EngineSound`, with no hypothesis |
| `RowsSurviveCrashes` | a row promised to a client is found and a row removed is gone, after any number of statements, checkpoints, crashes and recoveries that are cut off; tables of `Established` |
| `RowsAreFoundUntilACrash` | the same on every table, until a crash |
| `IndexAndHeapAgree` | tuples and entries of the index correspond; `Established` |
| `PanicsFindNothing` | a recovery panics only where the catalog has a root that was never written and the heap file has no live tuple; every table |
| `WrittenRootsAreSafe` | once the root is in its file no recovery panics any more; every table |
| `PanicsAreForGood` | after a panic every later start panics too; every table |
| `CountsAreRows` | the count in the catalog is that of the tuples, until a crash; every table |
| `LogIsSound` | `Spec => []LogSound`, with no hypothesis |
| `CrashesFindWhatTheyNeed` | a first crash at any step, whatever pages have been written, finds every promise in the log or the heap file (`Recoverable`), unless an error of the disk was ignored; every table |
| `DeletionsWriteLogFirst` | no page reaches its file without a key or a tuple before the record of the deletion (`DeletionsAfterLog`); every table |

`Established` says of the constant `Starts` that a table whose pages are written
by checkpoints only starts with a root in its file.  Without it `RowsAreDurable`
is false: EngineFresh is the counterexample, EngineSteal that for tables whose
pages may be written singly (`steal`, which the property excludes itself).

The three theorems about panics are for all starts, pages written at any time and
all errors of the disk, and say exactly how far EngineFresh reaches.  They rest on
`RootSound` (a root that is in the file is in memory, and a recovery without one
has memory as the files have it) and on `Hopeless`, which no step leaves: the
catalog has a root, neither file has anything to find it or the rows by, and the
log has an INSERT ahead of the recovery.

What is durable is hard to say by an invariant, because it is a statement about
a future recovery.  `EngineSound` says it by *replaying*: `Replayed(FileRow(k), Log,
k)[n]` is the row that `k` has when the first `n` records of the log have been
applied to what the heap file and the index file say.

* `CrashesAllowed`: for every `n` at which a crash may cut the log, that row is
  one a client may find.  A crash takes a prefix of the buffer with it, therefore
  all `n` from the end of the file on.
* `LogMakesMemory`: for the whole log it is the row in memory, or the one an
  INSERT between its record and its index entry is about to make (`Meant`).
  This is what a checkpoint uses, which writes memory and cuts the log; and it is
  what an INSERT or DELETE adds one record to.
* `RecoverySound`: a recovery has come as far as the records it has replayed, so
  that a crash in the recovery leaves it to start over.
* `Agree` of heap and index, in memory and in the files, with the tuple an INSERT
  has not indexed yet excepted; `StatementSound` for what the steps of a statement
  have done so far.

`MemoryTrusted` and `FilesTrusted` say when these hold: of the files only while no
error of the disk is ignored (`at_risk`; a whole checkpoint makes up for it), of
memory also then, until a crash comes (`spoilt`).  Before a first crash memory is
sound whatever reached the files, which is why `RowsAreFoundUntilACrash` and
`CountsAreRows` need no hypothesis.  Behind a torn record the file holds records
no recovery reads: `torn` in `LogMakesMemory`.

The count needs that an insert adds one live tuple, and that a deletion removes as
many as it counts; both are about the cardinality of `LiveTuples`, page by page.

`FilesSound` says nothing when pages are written singly (`steal`): what the files
hold is then a mixture of times, and replaying the log on it need not give a
sensible row.  `LogSound` is the invariant for that case.  It speaks of the first
process, while no error of the disk is ignored, and says of every difference
between a file and memory where in the log it is:

* `LogSpeaksOfMemory`: the last word of the log on a key is the row in memory, or
  the one an INSERT is about to index.
* `RowsKept`: a promised row is in the log file or, in the heap file, at the place
  where the index in memory leads.  A checkpoint that has flushed all pages makes
  the second true before it cuts the log.
* `DeletionsKept`: a tuple that is live in the heap file alone, or a key that the
  index file alone has, has a deletion in the log, which is in its file once it is
  promised.  A tuple that is dead in memory alone has its deletion no later in the
  log than the LSN of its page (`page_lsn`), so that the force before the write of
  the page brings it to the log file.  A page of the index has no LSN of its own;
  what is read as one forces the whole log.

`Recoverable` follows from the state, `DeletionsAfterLog` from the state before a
step: only `StealHeap`, `StealIndex`, `CheckpointFlush` and `CheckpointFlushFails` write pages, each
after it has forced the log far enough (`WritesAfterLog`).

### The catalog

| `CatalogProofs` | Says |
|---|---|
| `RelationsOwned` | `Spec => []RelationsAreOwned` |
| `StatementsSaved` | `Spec => []StatementsAreSaved` |
| `FileImplementsSavedValue` | `Spec => ImplementsSavedValue`: every step of the two-step save maps to a change, a save, a loss, an erasure or a stutter of `SavedValue` |
| `NewTablesFindNothing` | `Spec => []NewTablesAreEmpty` |
| `CountNeverTooHigh` | `Spec => []CountIsNeverTooHigh` |
| `RowsAreHeld` | `Spec => []TablesHoldTheirRows`: a table has its own rows, all and only, through crashes, recoveries, checkpoints, drops and tables that are created again |

There is no hypothesis beyond what the properties say themselves (`damage`,
`stale`, the crash that ends the count).

The invariant behind the first says of *three* catalogs (memory, file, temporary
file) that they are well numbered, because each is the next memory of some start;
that of the next two (`SaveInv`) ties the program counter to the temporary file:
between `WriteTemp` and `Rename` it is memory's catalog or torn, and outside of a
save the file is memory's catalog unless a save was refused or torn since.

`UnusedAreEmpty` is why a new table finds nothing: it speaks of the numbers above
`next_relation_id` of the *file*, the one a restart goes back to, in memory and on
disk, and of a save on its way.  `CountInv` counts what a statement still owes: an
INSERT has its tuple before its count (`Owed`), and a DELETE subtracts no more
than it removed.

That a table holds its rows is again a statement about a future recovery,
`RowsInv`.  `MemorySound` and `FilesSound` say of the tables of memory and of those
of the files that the entries of an index name live tuples with their keys, once
there is a root, and that tuples, in memory and on disk, and records of the log
belong to the life of their table unless its name is `stale`.  `MemoryKept` says
that whatever the index in memory has, a crash does not take (`Survives`: the last
record on the key is an insert, or there is none and the files have the key, in
their index or for a rebuild), and that every promised key is in that index, the
keys included that a statement is about to promise (`Due`).  `FilesKept` says the
same of the files and of the log that is in its file.  `FilesAgree` ties the tables
of the file to those of memory while a save is on its way, and `MemoryIsFiles` says
that memory is the files where a recovery begins.  The recovery is one step of the
model; its proof follows the records one by one (`Replayed`), from the store that
`Rebuilt` has made.


### The heap table

| `HeapTableProofs` | Says |
|---|---|
| `LayoutSound` | `Spec => []LayoutIsSound` |
| `RowsFound` | `Spec => []RowsAreFound`: a scan returns the stored rows, each once, in order and with their values, and the index has the record of each |
| `PagesFilled` | `Spec => PagesAreFilled`: no page is added for a tuple that the last one can take |
| `RoundTrip` | `to_values` gives back what `from_values` was given, for every schema and every row whose tuple is shorter than 65536 bytes |
| `ConditionsAreEvaluated` | `evaluate_where_clause` is true of the rows that meet some group of conditions between ORs, and only of these |

For every page size that 16 bits hold, every schema whose first column is an
integer (its values are the keys), all rows of it, all lists of conditions on its
columns, and any number of statements.  `LengthAssumption` leaves out tuples on
whose length the arithmetic of `insert_record` overflows, which is a panic in a
debug build.

The proof goes from the bytes up.  `Region(b, at, len, pieces)` says what is in a
part of a run of bytes; a write beside it leaves it (`RegionKept`), a copy moves it
(`CopiedRegion`).  A tuple is a bitmap, fixed parts one behind the other and texts
one behind the other; that they do not meet is an argument about the two loops
that add up the offsets, `FieldAt` and `TextBefore`.  `PageHas(page, n, off, rows,
marks)` is a page: a header, and for each of `n` rows a slot, a tuple header with
its mark and a tuple, back to back from the end of the page.  `InsertedPage` and
`WithoutSlotsPage` say that `insert_record` and a round of `mark_deleted` lead from
one such page to another, and here the numbers stay in their 16 bits.
`RowsOfPage` and `GatheredRows` are what a scan collects from a page and from all
of them.

The inductive invariant is `HeapInv`.  `LayoutIsSound` is not inductive: that two
records do not overlap says nothing of what is read from them.  `PagesInv` says
that every page is one of some rows (`Sound`); `RowsInv`, that the rows on the
pages that are not marked, gathered page after page, are `stored`; `KeysInv`, that
the index has their keys and the refused ones, which are different, and that rows
with equal keys are equal; `PlacesInv`, that the CTID the index has for a row is
the place of its record, and that those of refused keys name a page that exists.
A DELETE collects the keys from the bytes of what it marks; that these are the
keys of the rows that leave `stored` is `GoneKeys`, which needs what the loop over
the conditions computes.  That loop keeps two flags and closes a group where a
condition is followed by OR; `GroupsFromTheirEnds` shows that it does not matter
whether a group of which all conditions are met is looked for from its end, as the
loop does, or from its start.

### The B+-tree

| `BTreeProofs`, theorem | Says |
|---|---|
| `TreeInvInvariant` | `Spec => []TreeInv`, the inductive invariant, which also holds between two levels of a split and before a merge |
| `TreeIsAlwaysSound` | no node outgrows its page, parent pointers are right, and the chain meets each leaf once |
| `NoLeafIsEmptyBesideAnother` | merging with one neighbour only is enough |
| `SearchFindsAll` | the way down from the root, however high the tree, ends at the leaf that has the key |
| `RangeSearchIsAlwaysComplete` | a range search returns every entry of its range, once, in the order of the keys |
| `TreeImplementsIndex` | the tree implements `IndexMap`; splits, new roots and merges are stutters |

For every number of keys in a leaf and in an internal node from two on, any set
of integers as keys, any number of pages and any order of inserts and deletes,
up to any height.

`TreeInv` says that the file is empty or that there are pages `T` with a level
`lev`, a range of keys `R` and a rank each, and a sequence `c`, such that
`Holds`.  `IsTree`: the root covers all integers; the children of an internal
page are one level down, name it as their parent, and cover its range between two
neighbouring separators; the keys of a leaf are in its range and sorted; pages
outside (`FreeOK`: merged leaves, pages not yet used) cannot be taken for part of
it.  `IsChain`: `c` is the leaves in the order of their ranges, linked from page 0.
`Ranked`: every next pointer leads to a smaller rank, also that of a merged leaf,
which still points into the chain; so a walk along them ends.  `NonEmpty`: a leaf that
is empty is an only child or the root.

None of this is true of the nodes as they are while a split is under way: the new
page has no parent.  What is true is said of the nodes *with the pending child
attached* (`Attached`: put into its parent, overfull if need be, or under a new root
on the next free page).  This tree does not change when the parent takes the child
in (`InsertIntoParentHolds`, `CreateNewRootHolds`), and a `SplitInternal` splits one
of its pages and leaves the upper half as the next pending child: one lemma for
splits, `SplitTree`, serves both kinds.  In the same way a leaf that waits for its
merge is the one exception to `NonEmpty`.  `ClimbOK` says that the pages left are
enough for the rest of the climb, one for each level and one for a new root, which
is what the guard of `SplitLeaf` asks for once.

The functions of the model that walk (down to a leaf, up to count levels, along the
chain) are recursive functions whose `CHOOSE` needs that such a function exists.
It does because each step goes one level down, or to a smaller rank; that a walk
down arrives at the leaf whose range has the key, that the chain read from page 0 is
`c`, and what a range search lists, are inductions over the level, the place in `c`
and the rank.  `EntriesAre` then identifies `Entries`, which the properties read from
the chain, with what is in the leaves; each action keeps it, gains one entry or loses
one (`TreeChange`), which is a step of `IndexMap` or a stutter.  For the range search,
`FromHere` is the step: what a leaf has comes before what the rest of the chain has,
and a leaf with a key above the bound has nothing behind it that is wanted.

### Only model-checked

* `QueriesAreExact`: conditions and scans are proved to mean what they say, but
  not the choice of a plan, the joins, and the sort in runs, which build their
  results with folds and sorted sequences.
* `Session`: `SqlParser` is made of recursive operators, in whose modules the
  provers have no arithmetic.
* `CallsReturn`: liveness under fairness is out of reach of the prover, and so is
  `ENABLED`.

The invariants of the proofs were checked by TLC first.  The run SharedPool keeps
`Bookkeeping`; the others are stronger than the properties of the same runs and
have no run of their own.


## 6. Disagreements found

Each has a run in which TLC finds the counterexample.

* **EngineSteal** — recovery skips an insert whose key is in the index, taking
  the tuple to be there as well.  Index and heap page are written apart: with the
  index page evicted (or flushed by a checkpoint a crash cuts short) before the
  heap page, the row of a statement that returned is gone, and its index entry
  leads nowhere.  It is not so when pages reach the files by whole checkpoints
  only: `RowsAreDurable`, in the run Engine.
* **EngineFresh** — the first INSERT into a table writes the root's number to
  the catalog at once, while the page itself is in memory.  After a crash before
  the first checkpoint the heap file is empty, so the rebuild makes no tree and
  keeps the number; replaying the committed insert into the zero page panics, at
  every start from then on.
* **EngineTorn** — a crash tears the last record of the log.  Recovery replays
  what is before it and leaves the file alone, later records are appended behind
  it, and `read_all_logs` never gets there: statements that returned after the
  recovery are gone with the next crash, unless a checkpoint cut the log first.

Properties that are checked under a restriction because they are false without
it, as the hazards of PROJECT.json say at their lines: a read that fails leaves a
page mapped to a frame with another page's bytes, so `CleanFrameMatchesFile` and
`FlushAllIsComplete` leave out such frames (`unread`) and `ImplementsStore` is
checked without failing reads; that, and a flush of a victim that fails, loses the
frame to the replacer, so `UnpinnedIsEvictable` and `NoFreeFramesMeansAllPinned`
are checked without failing reads and writes; INSERT drops the LSN of its record, so
`WALBeforeData` is checked for modifications that stamp the page (`LogBeforeData` says
what holds for all), and the engine has the rule as it is; `CountIsRows` ends with the first crash, because the
catalog is written before the log; `flush_up_to` takes the records out of its
buffer before the write, so that after a write that fails a later flush of the
same LSN returns `Ok` without them, and `FlushedIsDurable` is checked without
failing writes; commit and checkpoint drop such errors, and what was promised may
be lost by a crash until a checkpoint without errors has ended (`at_risk`).
`QueriesAreExact` is checked until a tuple that no page has room
for is inserted: `write_tuple_to_heap` ignores the refusal of the new page
(`unwrap_or(0)`), the index gets a CTID without a record, index scans over it are
errors, and when a later tuple takes that slot they return its row under the
wrong key; `RowsAreFound` says for which keys.  It is checked on a table whose
key is called `id`: the planner takes any column of this name for the key of the
index, which is the first column.

The catalog: records of the log name their table, so a table that is dropped and
created again before a checkpoint gets old rows back in a recovery
(`TablesHoldTheirRows` excepts `stale` names).  A refused save leaves memory ahead
of the file, so that a number in use may be given again after a restart; a
`BufWriter` dropped with an error renames a torn file over the good one; a partial
`.reset` leaves rows under numbers a new catalog gives out.  After one of these
(`damage`) `NewTablesAreEmpty` and `TablesHoldTheirRows` claim nothing;
`RelationsAreOwned` holds throughout.

The session: excepted from `ExecutesAsMeant` are a typed comment line that ends in
a semicolon, a semicolon inside a comment of a file, a comment or another statement
behind the semicolon of a typed line, a comment before a dot command, and `.exit`
in a file.  A statement with a piece missing may end the process (`SELECT FROM t`
cuts the text from 7 to 6).  Not in any statement are conditions without an
operator, which are dropped (`DELETE FROM t WHERE active` deletes every row),
qualified columns in DELETE, and separators inside quoted values.


## 7. Limits

* The engine has one table and an index of one leaf (510 keys at a page size of
  8 KB); the catalog has several tables, but its pages reach the files in whole
  checkpoints and its recovery is one step.  A table that is created again has the
  schema it had.  Of relation files a partial `.reset` keeps all or none of a kind.
* In the session, words are whole symbols: upper and lower case and characters
  outside ASCII (on which indices into `to_uppercase` shift) are left out, and so
  are Ctrl-C and the file name of `.source`.  `.reset` in a file is answered and
  then ignored (`main.rs` 559).
* Errors of the disk are met where they change what is promised; some that a
  statement or a start ignores or dies of are left out.  In the engine these are
  a fetch that fails inside of a statement (`dml.rs` 305 goes on with a new page,
  149 skips the page and the DELETE succeeds all the same), a force of the log that
  fails inside an eviction (`buffer_pool.rs` 229), and the `unwrap`s of the replay
  (`main.rs` 293, 314, 316, 342).  Of queries, a scan skips a page that cannot be
  fetched (`seq_scan.rs` 47); the model's scans meet no such page.
* Behind a torn record nothing of the log can be read.  `read_all_logs` takes the
  length of the torn record from the bytes that follow (`wackdb_wal/src/lib.rs` 41)
  and may hand out a record that is spliced from two; `Readable` and `Written`
  have none.
* `drop_relation` zeroes the pins of pages still pinned; the model's callers have
  none on the relation they drop.  Statements under the outer lock do not flush
  the pool or drop relations in `SharedPool`; `BufferPool` has both.
* A dot command with a suffix (`.help x`), for which `meta.rs` 20 has an error,
  does not occur in the session's inputs.
* The commands of the session are texts and syntax trees; what they do is in the
  other modules.
* The tree is checked on pages that keep what was written.  Its pins are not
  modelled: two places forget one (hazards at `tree.rs` 356 and 531).  Nor is a
  crash between the pages of one split.
* Bytes are modelled in heap pages and tuples.  The layout of index nodes, and
  one kind of page read as the other, are not.
* A query has at most one join, and its conditions name columns that exist
  (one on an unknown column is skipped, with the OR behind it).  Tuples of more
  than 65515 bytes, on which the arithmetic of `insert_record` overflows, are
  excluded by `LengthAssumption`.
* Not modelled: output, prompts, arguments, configuration, `wackdb_cli/src/parser.rs`
  (`main.rs` declares no such module), the web server and the UI, which keep no
  state of the database.  Some web handlers read page files beside the pool; they
  show, and change nothing.


## 8. Plan

In this order; each with its runs, properties and mutants.

1. **`Engine`**: a split as several pages that reach the file one by one.
2. **`QueryPlan` proofs**: from `RowsFound` and `ConditionsAreEvaluated`, that a
   SELECT without a join returns the same by a scan of the heap and of the index;
   then the joins.
3. **Pins of callers**: the fetches and unpins of the tree's and the scans'
   functions, with their early returns, against the pool: after a statement no
   page is pinned.
4. **`BTree`**: a run with leaves of four keys, in which more merges are refused,
   and the errors of the pool in the middle of an operation.
