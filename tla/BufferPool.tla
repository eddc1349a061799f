----------------------------- MODULE BufferPool -----------------------------
(***************************************************************************)
(* BufferPoolManager (wackdb_buffer, buffer_pool.rs): frames that cache    *)
(* pages of the disk manager, with pins, an LRU replacer and the rule that *)
(* the log record of a change reaches the disk before the page does.       *)
(*                                                                         *)
(* Threads call the pool concurrently.  The mutex of the page table is     *)
(* held for the whole of fetch_page, unpin_page, flush_page,               *)
(* flush_all_pages and drop_relation, but it does not cover the bytes of a *)
(* frame: these are behind a lock of their own, which a client takes after *)
(* it pinned the page and which a flush takes to read the frame.  A call   *)
(* is therefore cut into the steps between which other threads can be      *)
(* seen: issue, acquire the mutex, force the log, write the page, load the *)
(* page.                                                                   *)
(*                                                                         *)
(* A page's bytes are abstracted to the number of the modification they    *)
(* result from (val, 0 for zeros) and the LSN in the page header.          *)
(***************************************************************************)
EXTENDS Integers, Sequences, FiniteSets

CONSTANTS
    pool_size,                  \* number of frames
    Files,                      \* file ids
    MaxPages,                   \* bound: pages per file
    Threads,                    \* callers of the pool
    MaxPins,                    \* bound: pins one thread holds at a time
    MaxWrites,                  \* bound: modifications of pages
    MaxLosses,                  \* bound: crashes and dropped relations
    Faults,                     \* subset of {"read", "write", "log"}
    Stamps,                     \* {TRUE}: every modification sets the page LSN
    GuardsAcrossCalls,          \* may a caller hold a write guard in a call?
    NoPage, NoThread            \* sentinels

ASSUME PoolAssumption ==
    /\ pool_size \in Nat \ {0}
    /\ MaxPages \in Nat \ {0}
    /\ MaxPins \in Nat \ {0}
    /\ MaxWrites \in Nat
    /\ MaxLosses \in Nat
    /\ Faults \subseteq {"read", "write", "log"}
    /\ Stamps \subseteq BOOLEAN
    /\ GuardsAcrossCalls \in BOOLEAN
    /\ NoPage \notin Files \X (0 .. MaxPages - 1)
    /\ NoThread \notin Threads

VARIABLES
    \* the pool
    page_table,                 \* page -> frame, or NoFrame
    page_id,                    \* frame -> page, or NoPage        (descriptor)
    pin_count,                  \* frame -> number of pins         (descriptor)
    is_dirty,                   \* frame -> BOOLEAN                (descriptor)
    unread,                     \* history: frames whose last load failed
    frames,                     \* frame -> content
    access_queue, is_pinned,    \* the replacer
    \* the disk manager
    stored, file_len, total_pages,
    \* the log
    next_lsn,                   \* LSN the next record gets
    log_buffer,                 \* records in memory: [lsn, val]
    log_durable,                \* modifications whose record is in the file
    \* the callers
    mutex,                      \* thread inside the page-table lock, or NoThread
    pc, op, page, frame,        \* thread -> its call: step, operation, argument, frame
    guard,                      \* frame -> thread with its write guard, or NoThread
    pins,                       \* outstanding pins
    writes, losses             \* counters of the bounds

lruVars == <<access_queue, is_pinned>>
diskVars == <<stored, file_len, total_pages>>
logVars == <<next_lsn, log_buffer, log_durable>>
descVars == <<page_table, page_id, pin_count, is_dirty, unread>>
callVars == <<mutex, pc, op, page, frame>>
clientVars == <<guard, pins, writes, losses>>
vars == <<descVars, frames, lruVars, diskVars, logVars, callVars, clientVars>>

Frames == 0 .. pool_size - 1
NoFrame == -1

Content == [val : 0 .. MaxWrites, lsn : 0 .. MaxWrites]
Blank == [val |-> 0, lsn |-> 0]

LRU == INSTANCE LRUReplacer WITH capacity <- pool_size
Disk == INSTANCE DiskManager WITH Contents <- Content

PageIds == Disk!PageIds

Record == [lsn : 1 .. MaxWrites, val : 1 .. MaxWrites]

(* A pin: who took it, on which page, in which frame the caller will look  *)
(* for the page, and whether the caller has modified it since.             *)
Pin == [thread : Threads, id : 1 .. MaxPins, page : PageIds,
        frame : Frames, wrote : BOOLEAN]

Steps == {"idle", "allocate", "call", "flush", "write", "load"}
Ops == {"none", "fetch", "flush", "flush_all"}

TypeOK ==
    /\ page_table \in [PageIds -> Frames \union {NoFrame}]
    /\ page_id \in [Frames -> PageIds \union {NoPage}]
    /\ pin_count \in [Frames -> Nat]
    /\ is_dirty \in [Frames -> BOOLEAN]
    /\ unread \subseteq Frames
    /\ frames \in [Frames -> Content]
    /\ access_queue \in Seq(Frames)
    /\ is_pinned \in [Frames -> BOOLEAN]
    /\ Disk!DiskTypeOK
    /\ next_lsn \in 1 .. MaxWrites + 1
    /\ log_buffer \subseteq Record
    /\ log_durable \subseteq 1 .. MaxWrites
    /\ mutex \in Threads \union {NoThread}
    /\ pc \in [Threads -> Steps]
    /\ op \in [Threads -> Ops]
    /\ page \in [Threads -> PageIds \union {NoPage}]
    /\ frame \in [Threads -> Frames \union {NoFrame}]
    /\ guard \in [Frames -> Threads \union {NoThread}]
    /\ pins \subseteq Pin
    /\ writes \in 0 .. MaxWrites
    /\ losses \in 0 .. MaxLosses

(* A process that has just opened the database. *)
Init ==
    /\ page_table = [p \in PageIds |-> NoFrame]
    /\ page_id = [f \in Frames |-> NoPage]
    /\ pin_count = [f \in Frames |-> 0]
    /\ is_dirty = [f \in Frames |-> FALSE]
    /\ unread = {}
    /\ frames = [f \in Frames |-> Blank]
    /\ LRU!LRUInit
    /\ next_lsn = 1
    /\ log_buffer = {}
    /\ mutex = NoThread
    /\ pc = [t \in Threads |-> "idle"]
    /\ op = [t \in Threads |-> "none"]
    /\ page = [t \in Threads |-> NoPage]
    /\ frame = [t \in Threads |-> NoFrame]
    /\ guard = [f \in Frames |-> NoThread]
    /\ pins = {}
    /\ Disk!DiskInit
    /\ log_durable = {}
    /\ writes = 0
    /\ losses = 0

-----------------------------------------------------------------------------
(* The calls. *)

PinsOf(t) == { k \in pins : k.thread = t }
PinsOn(f) == { k \in pins : k.frame = f }

Calls(t, step, operation, p, f) ==
    /\ pc[t] = "idle"
    /\ GuardsAcrossCalls \/ \A g \in Frames : guard[g] # t
    /\ pc' = [pc EXCEPT ![t] = step]
    /\ op' = [op EXCEPT ![t] = operation]
    /\ page' = [page EXCEPT ![t] = p]
    /\ frame' = [frame EXCEPT ![t] = f]
    /\ UNCHANGED <<mutex, descVars, frames, lruVars, diskVars, logVars, clientVars>>

(* The page has been handed out by allocate_page, now or before. *)
Exists(p) == Disk!NumOf(p) < Disk!CountOnOpen(Disk!FileOf(p))

(* fetch_page: callers find pages by their number, and scans go on to the  *)
(* first page past the end.                                                *)
CallFetch(t, p) ==
    /\ Cardinality(PinsOf(t)) < MaxPins
    /\ Disk!NumOf(p) <= Disk!CountOnOpen(Disk!FileOf(p))
    /\ Calls(t, "call", "fetch", p, NoFrame)

(* new_page begins outside the mutex; the argument names the file only.    *)
CallNew(t, p) ==
    /\ Cardinality(PinsOf(t)) < MaxPins
    /\ Disk!NumOf(p) = 0
    /\ Disk!CountOnOpen(Disk!FileOf(p))
           + Cardinality({u \in Threads : pc[u] = "allocate"}) < MaxPages
    /\ Calls(t, "allocate", "fetch", p, NoFrame)

CallFlush(t, p) == Calls(t, "call", "flush", p, NoFrame)

CallFlushAll(t) == Calls(t, "call", "flush_all", NoPage, NoFrame)

(* Mutant: the mutex stays locked. *)
ReturnLocked(t) ==
    /\ UNCHANGED mutex
    /\ pc' = [pc EXCEPT ![t] = "idle"]
    /\ op' = [op EXCEPT ![t] = "none"]
    /\ page' = [page EXCEPT ![t] = NoPage]
    /\ frame' = [frame EXCEPT ![t] = NoFrame]

(* The call returns, with or without an error, and the mutex is free. *)
Return(t) ==
    /\ mutex' = NoThread
    /\ pc' = [pc EXCEPT ![t] = "idle"]
    /\ op' = [op EXCEPT ![t] = "none"]
    /\ page' = [page EXCEPT ![t] = NoPage]
    /\ frame' = [frame EXCEPT ![t] = NoFrame]

(* The thread keeps the mutex and goes on with frame f. *)
Continue(t, step, f) ==
    /\ mutex' = t
    /\ pc' = [pc EXCEPT ![t] = step]
    /\ frame' = [frame EXCEPT ![t] = f]
    /\ UNCHANGED <<op, page>>

Enters(t, operation) ==
    /\ pc[t] = "call"
    /\ op[t] = operation
    /\ mutex = NoThread

(* new_page: the page number is taken before the fetch that may fail. *)
Allocate(t) ==
    /\ pc[t] = "allocate"
    /\ \E p \in PageIds :
          /\ Disk!FileOf(p) = Disk!FileOf(page[t])
          /\ Disk!AllocatePage(p)
          /\ page' = [page EXCEPT ![t] = p]
    /\ pc' = [pc EXCEPT ![t] = "call"]
    /\ UNCHANGED <<mutex, op, frame, descVars, frames, lruVars, logVars, clientVars>>

-----------------------------------------------------------------------------
(* fetch_page *)

(* The pin the caller gets back, with the first id it does not use. *)
GivePin(t, f) ==
    \E i \in 1 .. MaxPins :
       /\ \A k \in PinsOf(t) : k.id # i
       /\ \A j \in 1 .. i - 1 : \E k \in PinsOf(t) : k.id = j
       /\ pins' = pins \union {[thread |-> t, id |-> i, page |-> page[t],
                                frame |-> f, wrote |-> FALSE]}

(* Mutants: a bookkeeping call is missing. *)
PinUnrecorded(t, f) ==
    /\ pin_count' = [pin_count EXCEPT ![f] = @ + 1]
    /\ UNCHANGED access_queue /\ LRU!SetPin(f, TRUE) /\ GivePin(t, f)

PinUnflagged(t, f) ==
    /\ pin_count' = [pin_count EXCEPT ![f] = @ + 1]
    /\ LRU!RecordAccess(f) /\ UNCHANGED is_pinned /\ GivePin(t, f)

(* pin, record_access and set_pin. *)
PinFor(t, f) ==
    /\ pin_count' = [pin_count EXCEPT ![f] = @ + 1]
    /\ LRU!RecordAccess(f)
    /\ LRU!SetPin(f, TRUE)
    /\ GivePin(t, f)

FetchHit(t) ==
    /\ Enters(t, "fetch")
    /\ page_table[page[t]] # NoFrame
    /\ PinFor(t, page_table[page[t]])
    /\ Return(t)
    /\ UNCHANGED <<page_table, page_id, is_dirty, unread, frames, diskVars, logVars,
                   guard, writes, losses>>

EmptyFrames == { f \in Frames : page_id[f] = NoPage }

(* find_victim_frame: the first empty frame, else a victim of the replacer. *)
FetchMiss(t, f) ==
    /\ Enters(t, "fetch")
    /\ page_table[page[t]] = NoFrame
    /\ \/ /\ f \in EmptyFrames
          /\ \A g \in EmptyFrames : f <= g
          /\ UNCHANGED access_queue
       \/ /\ EmptyFrames = {}
          /\ LRU!Evict(f)
    /\ Continue(t, "flush", f)
    /\ UNCHANGED <<is_pinned, descVars, frames, diskVars, logVars, clientVars>>

FetchNoFreeFrames(t) ==
    /\ Enters(t, "fetch")
    /\ page_table[page[t]] = NoFrame
    /\ EmptyFrames = {}
    /\ ~LRU!HasVictim
    /\ Return(t)
    /\ UNCHANGED <<descVars, frames, lruVars, diskVars, logVars, clientVars>>

(* Mutant: the page that was evicted keeps its entry. *)
RemapKeepsOld(t, f) ==
    /\ page_table' = [page_table EXCEPT ![page[t]] = f]
    /\ page_id' = [page_id EXCEPT ![f] = page[t]]

(* The frame changes hands in the table before its bytes are read. *)
Remap(t, f) ==
    /\ page_table' = [p \in PageIds |->
                        IF p = page[t] THEN f
                        ELSE IF p = page_id[f] THEN NoFrame ELSE page_table[p]]
    /\ page_id' = [page_id EXCEPT ![f] = page[t]]

FetchLoad(t) ==
    /\ pc[t] = "load"
    /\ guard[frame[t]] = NoThread
    /\ Remap(t, frame[t])
    /\ Disk!ReadPage(page[t])
    /\ frames' = [frames EXCEPT ![frame[t]] = Disk!PageOnDisk(page[t])]
    /\ unread' = unread \ {frame[t]}
    /\ PinFor(t, frame[t])
    /\ Return(t)
    /\ UNCHANGED <<is_dirty, logVars, guard, writes, losses>>

(* The read fails: the error is returned from between the two. *)
FetchLoadFails(t) ==
    /\ "read" \in Faults
    /\ pc[t] = "load"
    /\ guard[frame[t]] = NoThread
    /\ Remap(t, frame[t])
    /\ unread' = unread \union {frame[t]}
    /\ Return(t)
    /\ UNCHANGED <<pin_count, is_dirty, frames, lruVars, diskVars, logVars, clientVars>>

-----------------------------------------------------------------------------
(* flush_page, flush_all_pages and flush_frame_to_disk *)

EnterFlush(t) ==
    /\ Enters(t, "flush")
    /\ \/ page_table[page[t]] # NoFrame /\ Continue(t, "flush", page_table[page[t]])
       \/ page_table[page[t]] = NoFrame /\ Return(t)
    /\ UNCHANGED <<descVars, frames, lruVars, diskVars, logVars, clientVars>>

EnterFlushAll(t) ==
    /\ Enters(t, "flush_all")
    /\ Continue(t, "flush", 0)
    /\ UNCHANGED <<descVars, frames, lruVars, diskVars, logVars, clientVars>>

(* Mutant: the loop over the frames ends one too early. *)
AfterFlushSkipsLast(t) ==
    \/ op[t] = "fetch" /\ Continue(t, "load", frame[t])
    \/ op[t] = "flush" /\ Return(t)
    \/ /\ op[t] = "flush_all"
       /\ \/ frame[t] < pool_size - 2 /\ Continue(t, "flush", frame[t] + 1)
          \/ frame[t] >= pool_size - 2 /\ Return(t)

(* What follows a frame that is clean now. *)
AfterFlush(t) ==
    \/ op[t] = "fetch" /\ Continue(t, "load", frame[t])
    \/ op[t] = "flush" /\ Return(t)
    \/ /\ op[t] = "flush_all"
       /\ \/ frame[t] < pool_size - 1 /\ Continue(t, "flush", frame[t] + 1)
          \/ frame[t] = pool_size - 1 /\ Return(t)

(* Mutant: a frame without a pin is dropped. *)
MustFlushPinned(f) == is_dirty[f] /\ page_id[f] # NoPage /\ pin_count[f] > 0

MustFlush(f) == is_dirty[f] /\ page_id[f] # NoPage

FlushClean(t) ==
    /\ pc[t] = "flush"
    /\ ~MustFlush(frame[t])
    /\ AfterFlush(t)
    /\ UNCHANGED <<descVars, frames, lruVars, diskVars, logVars, clientVars>>

(* Mutant: the record of the page itself stays behind. *)
RecordsBelow(lsn) == { r \in log_buffer : r.lsn < lsn }

(* flush_up_to of the log: the records up to lsn go to the file. *)
RecordsUpTo(lsn) == { r \in log_buffer : r.lsn <= lsn }

ForceLog(lsn) ==
    /\ log_durable' = log_durable \union { r.val : r \in RecordsUpTo(lsn) }
    /\ log_buffer' = log_buffer \ RecordsUpTo(lsn)
    /\ UNCHANGED next_lsn

(* Under the read guard of the frame, taken once no writer has it. *)
FlushLog(t) ==
    /\ pc[t] = "flush"
    /\ MustFlush(frame[t])
    /\ guard[frame[t]] = NoThread
    /\ ForceLog(frames[frame[t]].lsn)
    /\ Continue(t, "write", frame[t])
    /\ UNCHANGED <<descVars, frames, lruVars, diskVars, clientVars>>

(* The records leave the buffer before the write, or its sync, that fails. *)
FlushLogFails(t) ==
    /\ "log" \in Faults
    /\ pc[t] = "flush"
    /\ MustFlush(frame[t])
    /\ guard[frame[t]] = NoThread
    /\ RecordsUpTo(frames[frame[t]].lsn) # {}
    /\ \/ ForceLog(frames[frame[t]].lsn)
       \/ /\ log_buffer' = log_buffer \ RecordsUpTo(frames[frame[t]].lsn)
          /\ UNCHANGED <<next_lsn, log_durable>>
    /\ Return(t)
    /\ UNCHANGED <<descVars, frames, lruVars, diskVars, clientVars>>

FlushWrite(t) ==
    /\ pc[t] = "write"
    /\ Disk!WritePage(page_id[frame[t]], frames[frame[t]])
    /\ is_dirty' = [is_dirty EXCEPT ![frame[t]] = FALSE]
    /\ AfterFlush(t)
    /\ UNCHANGED <<page_table, page_id, pin_count, unread, frames, lruVars, logVars,
                   clientVars>>

(* The write fails before, or its sync after, the bytes are in the file. *)
FlushWriteFails(t) ==
    /\ "write" \in Faults
    /\ pc[t] = "write"
    /\ \/ Disk!WritePage(page_id[frame[t]], frames[frame[t]])
       \/ UNCHANGED diskVars
    /\ Return(t)
    /\ UNCHANGED <<descVars, frames, lruVars, logVars, clientVars>>

-----------------------------------------------------------------------------
(* unpin_page, drop_relation *)

(* Mutant: the argument of the last unpin replaces the flag. *)
MarkDirtyOverwrites(f, dirty) == is_dirty' = [is_dirty EXCEPT ![f] = dirty]

MarkDirty(f, dirty) == is_dirty' = [is_dirty EXCEPT ![f] = @ \/ dirty]

(* Mutant: the count is compared before it is decremented. *)
ReleaseTooLate(f) ==
    IF pin_count[f] = 0 THEN LRU!SetPin(f, FALSE) ELSE UNCHANGED is_pinned

(* The last pin makes the frame evictable. *)
Release(f) ==
    IF pin_count[f] = 1 THEN LRU!SetPin(f, FALSE) ELSE UNCHANGED is_pinned

(* The frame is looked up again, by the page the caller names.  A caller   *)
(* that modified the page says so, one that looked past the end does not.  *)
Unpin(t, k, dirty) ==
    /\ pc[t] = "idle"
    /\ mutex = NoThread
    /\ k.wrote => dirty
    /\ dirty => Exists(k.page)
    /\ guard[k.frame] # t
    /\ page_table[k.page] # NoFrame
    /\ LET f == page_table[k.page] IN
          /\ MarkDirty(f, dirty)
          /\ pin_count' = [pin_count EXCEPT ![f] = @ - 1]
          /\ Release(f)
    /\ pins' = pins \ {k}
    /\ UNCHANGED <<page_table, page_id, unread, frames, access_queue, diskVars, logVars,
                   callVars, guard, writes, losses>>

(* Nobody uses the relation any more: its caller has dropped it.  The      *)
(* frames stay in the replacer's queue.                                    *)
DropRelation(t, file) ==
    LET Of(f) == page_id[f] # NoPage /\ Disk!FileOf(page_id[f]) = file IN
    /\ losses < MaxLosses
    /\ pc[t] = "idle"
    /\ mutex = NoThread
    /\ \A k \in pins : Disk!FileOf(k.page) # file
    /\ page_table' = [p \in PageIds |->
                        IF Disk!FileOf(p) = file THEN NoFrame ELSE page_table[p]]
    /\ page_id' = [f \in Frames |-> IF Of(f) THEN NoPage ELSE page_id[f]]
    /\ is_dirty' = [f \in Frames |-> IF Of(f) THEN FALSE ELSE is_dirty[f]]
    /\ pin_count' = [f \in Frames |-> IF Of(f) THEN 0 ELSE pin_count[f]]
    /\ is_pinned' = [f \in Frames |-> IF Of(f) THEN FALSE ELSE is_pinned[f]]
    /\ unread' = { f \in unread : ~Of(f) }
    /\ losses' = losses + 1
    /\ UNCHANGED <<frames, access_queue, diskVars, logVars, callVars, guard, pins, writes>>

-----------------------------------------------------------------------------
(* What callers do with a pinned page, and the end of the process. *)

(* write_page: the write guard of the frame the fetch returned; a flush    *)
(* that writes the frame holds its read guard.                             *)
TakeGuard(t, k) ==
    /\ pc[t] = "idle"
    /\ guard[k.frame] = NoThread
    /\ \A u \in Threads : ~(pc[u] = "write" /\ frame[u] = k.frame)
    /\ guard' = [guard EXCEPT ![k.frame] = t]
    /\ UNCHANGED <<descVars, frames, lruVars, diskVars, logVars, callVars,
                   pins, writes, losses>>

(* The caller appends a record of its change, sets the page's LSN to the   *)
(* record's (stamp) or leaves it as it was, and drops the guard.           *)
Modify(t, k, stamp) ==
    LET v == writes + 1 IN
    /\ pc[t] = "idle"
    /\ guard[k.frame] = t
    /\ Exists(k.page)
    /\ writes < MaxWrites
    /\ writes' = v
    /\ frames' = [frames EXCEPT ![k.frame] =
                     [val |-> v, lsn |-> IF stamp THEN next_lsn ELSE @.lsn]]
    /\ next_lsn' = next_lsn + 1
    /\ log_buffer' = log_buffer \union {[lsn |-> next_lsn, val |-> v]}
    /\ guard' = [guard EXCEPT ![k.frame] = NoThread]
    /\ pins' = (pins \ {k}) \union {[k EXCEPT !.wrote = TRUE]}
    /\ UNCHANGED <<log_durable, descVars, lruVars, diskVars, callVars, losses>>

DropGuard(t, k) ==
    /\ pc[t] = "idle"
    /\ guard[k.frame] = t
    /\ guard' = [guard EXCEPT ![k.frame] = NoThread]
    /\ UNCHANGED <<descVars, frames, lruVars, diskVars, logVars, callVars,
                   pins, writes, losses>>

(* The process dies and is started again on the same files. *)
Crash ==
    /\ losses < MaxLosses
    /\ page_table' = [p \in PageIds |-> NoFrame]
    /\ page_id' = [f \in Frames |-> NoPage]
    /\ pin_count' = [f \in Frames |-> 0]
    /\ is_dirty' = [f \in Frames |-> FALSE]
    /\ unread' = {}
    /\ frames' = [f \in Frames |-> Blank]
    /\ access_queue' = <<>>
    /\ is_pinned' = [f \in Frames |-> FALSE]
    /\ next_lsn' = 1
    /\ log_buffer' = {}
    /\ mutex' = NoThread
    /\ pc' = [t \in Threads |-> "idle"]
    /\ op' = [t \in Threads |-> "none"]
    /\ page' = [t \in Threads |-> NoPage]
    /\ frame' = [t \in Threads |-> NoFrame]
    /\ guard' = [f \in Frames |-> NoThread]
    /\ pins' = {}
    /\ Disk!CloseAll
    /\ losses' = losses + 1
    /\ UNCHANGED <<log_durable, writes>>

-----------------------------------------------------------------------------

Flushing(t) ==
    \/ EnterFlush(t) \/ EnterFlushAll(t)
    \/ FlushClean(t) \/ FlushLog(t) \/ FlushLogFails(t)
    \/ FlushWrite(t) \/ FlushWriteFails(t)

Fetching(t) ==
    \/ Allocate(t) \/ FetchHit(t)
    \/ \E f \in Frames : FetchMiss(t, f)
    \/ FetchNoFreeFrames(t)
    \/ FetchLoad(t) \/ FetchLoadFails(t)

(* A step of the pool on behalf of t, which is inside a call. *)
PoolStep(t) == Flushing(t) \/ Fetching(t)

Calling(t) ==
    \/ \E p \in PageIds : CallFetch(t, p) \/ CallNew(t, p) \/ CallFlush(t, p)
    \/ CallFlushAll(t)

Using(t) ==
    \/ \E k \in PinsOf(t) :
          \/ TakeGuard(t, k)
          \/ DropGuard(t, k)
          \/ \E stamp \in Stamps : Modify(t, k, stamp)
          \/ \E dirty \in BOOLEAN : Unpin(t, k, dirty)
    \/ \E file \in Files : DropRelation(t, file)

Next ==
    \/ \E t \in Threads : PoolStep(t) \/ Calling(t) \/ Using(t)
    \/ Crash

Spec == Init /\ [][Next]_vars

(* The scheduler runs every thread, a caller does not keep a guard for     *)
(* ever, and the mutex is handed out fairly (parking_lot).                 *)
Fairness ==
    \A t \in Threads :
        /\ SF_vars(PoolStep(t))
        /\ WF_vars(\E k \in PinsOf(t) : DropGuard(t, k))

FairSpec == Spec /\ Fairness

-----------------------------------------------------------------------------
(* Properties *)

(***************************************************************************)
(* The page table and the descriptors say the same, so that no page is in  *)
(* two frames: fetch_page and drop_relation update both.                   *)
(***************************************************************************)
MappingConsistent ==
    \A p \in PageIds, f \in Frames : page_table[p] = f <=> page_id[f] = p

(***************************************************************************)
(* The pin count of a frame is the number of fetches not yet unpinned, and *)
(* the replacer's flag agrees with it: the assertion in                    *)
(* FrameDescriptor::unpin never fires and no pin is forgotten.             *)
(***************************************************************************)
PinsExact ==
    \A f \in Frames :
        /\ pin_count[f] = Cardinality(PinsOn(f))
        /\ is_pinned[f] <=> pin_count[f] > 0

(***************************************************************************)
(* A frame number returned by fetch_page stays good until the unpin: the   *)
(* page is not moved, and the frame is not given to another page, although *)
(* the caller uses the number outside of the page-table mutex.             *)
(***************************************************************************)
PinnedPageStays ==
    /\ \A k \in pins : page_id[k.frame] = k.page
    /\ \A f \in Frames : guard[f] # NoThread => \E k \in PinsOf(guard[f]) : k.frame = f

(***************************************************************************)
(* No update is lost: a cached page that differs from the file is dirty,   *)
(* or somebody who modified it has yet to unpin it, although the flag is   *)
(* set by unpin_page and cleared by a flush that may run between the       *)
(* modification and the unpin.  The one exception is a frame whose load    *)
(* failed: it has the bytes of the page before.                            *)
(***************************************************************************)
CleanFrameMatchesFile ==
    \A f \in Frames :
        page_id[f] # NoPage /\ frames[f] # Disk!PageOnDisk(page_id[f]) /\ f \notin unread
            => is_dirty[f] \/ \E k \in PinsOn(f) : k.wrote

(***************************************************************************)
(* WAL before data: a modification that is in a data file has its record   *)
(* in the log file, before and after restarts, which start the LSNs again  *)
(* at 1 (flush_frame_to_disk).                                             *)
(***************************************************************************)
WALBeforeData ==
    \A p \in PageIds : stored[p].val = 0 \/ stored[p].val \in log_durable

(* The frame a miss has chosen and not yet given to its page. *)
BeingReplaced(f) ==
    \E t \in Threads : pc[t] # "idle" /\ op[t] = "fetch" /\ frame[t] = f

(***************************************************************************)
(* Every cached page without a pin can be evicted: its frame is in the     *)
(* replacer's queue.  Otherwise the pool gets smaller for good.            *)
(***************************************************************************)
UnpinnedIsEvictable ==
    \A f \in Frames :
        page_id[f] # NoPage /\ pin_count[f] = 0 /\ ~BeingReplaced(f)
            => LRU!Contains(access_queue, f)

(***************************************************************************)
(* fetch_page reports NoFreeFrames only when every frame is pinned.        *)
(***************************************************************************)
NoFreeFramesMeansAllPinned ==
    [][\A t \in Threads :
          FetchNoFreeFrames(t) => \A f \in Frames : pin_count[f] > 0]_vars

(***************************************************************************)
(* In the order the pool calls the replacer, a victim is the unpinned      *)
(* frame whose last access is the oldest (trait ReplacementPolicy).        *)
(***************************************************************************)
EvictsLeastRecentlyUsed == LRU!EvictsLeastRecentlyUsed

(***************************************************************************)
(* new_page never returns a page that holds data: its caller formats it.   *)
(***************************************************************************)
AllocatedPageIsBlank == Disk!AllocatedPageIsBlank

(***************************************************************************)
(* When flush_all_pages has gone over the frames without an error, every   *)
(* page in memory is in its file, except for modifications of pages that   *)
(* are still pinned by who made them, and for frames whose load failed: the *)
(* checkpoint truncates the log on the strength of this (main.rs,          *)
(* checkpointer thread).                                                   *)
(***************************************************************************)
FlushAllIsComplete ==
    [][\A t \in Threads :
          (/\ op[t] = "flush_all" /\ pc'[t] = "idle"
           /\ FlushClean(t) \/ FlushWrite(t))
              => \A f \in Frames :
                    page_id[f] # NoPage /\ f \notin unread =>
                       \/ frames'[f] = Disk!PageOnDisk(page_id[f])'
                       \/ \E k \in PinsOn(f) : k.wrote]_vars

(***************************************************************************)
(* What a fetch of the page returns: the page in memory, or in the file.   *)
(***************************************************************************)
Latest(p) ==
    IF page_table[p] # NoFrame THEN frames[page_table[p]] ELSE Disk!PageOnDisk(p)

Store == INSTANCE PageStore WITH
            Pages <- PageIds, Values <- Content, Zero <- Blank,
            store <- [p \in PageIds |-> Latest(p)],
            durable <- [p \in PageIds |-> Disk!PageOnDisk(p)],
            writes <- writes, losses <- losses

(***************************************************************************)
(* The pool implements a plain store of pages: a page changes only when a  *)
(* caller modifies it, never because it is evicted, flushed or reloaded,   *)
(* and only a crash or drop_relation falls back to the files.              *)
(***************************************************************************)
ImplementsStore == Store!Spec

(***************************************************************************)
(* Every call returns, whatever the other callers do.                      *)
(***************************************************************************)
CallsReturn ==
    \A t \in Threads : pc[t] # "idle" ~> pc[t] = "idle"

-----------------------------------------------------------------------------
(* The inductive invariant of the bookkeeping: what the steps of a call    *)
(* know about the frame they work on while they hold the mutex.            *)

InPool(t) == pc[t] \in {"flush", "write", "load"}

MutexHeld == \A t \in Threads : InPool(t) <=> mutex = t

CallsWellFormed ==
    \A t \in Threads :
        /\ pc[t] # "idle" => op[t] # "none"
        /\ pc[t] \in {"allocate", "load"} => op[t] = "fetch"
        /\ pc[t] # "idle" /\ op[t] \in {"fetch", "flush"} => page[t] \in PageIds
        /\ InPool(t) => frame[t] \in Frames
        /\ pc[t] = "write" => page_id[frame[t]] # NoPage

(* A page being fetched is in no frame, and nobody has its frame-to-be.    *)
VictimUnpinned ==
    \A t \in Threads :
        InPool(t) /\ op[t] = "fetch" =>
            /\ page_table[page[t]] = NoFrame
            /\ pin_count[frame[t]] = 0

LogBounded ==
    /\ next_lsn <= writes + 1
    /\ \A r \in log_buffer : r.lsn < next_lsn

(* A caller does not mix up its pins. *)
PinsKeyed ==
    \A k, l \in pins : k.thread = l.thread /\ k.id = l.id => k = l

Bookkeeping ==
    /\ TypeOK
    /\ IsFiniteSet(pins)
    /\ PinsKeyed
    /\ MutexHeld
    /\ CallsWellFormed
    /\ VictimUnpinned
    /\ LogBounded
    /\ MappingConsistent
    /\ PinsExact
    /\ PinnedPageStays

-----------------------------------------------------------------------------
(* The inductive invariant of the bytes: which of the frame and the file   *)
(* has a page's latest content.                                            *)

(* A file holds nothing behind its end, and its handle counts every page   *)
(* that is there.                                                          *)
FilesSound ==
    /\ \A p \in PageIds : Disk!NumOf(p) >= file_len[Disk!FileOf(p)] => stored[p] = Blank
    /\ \A f \in Files : total_pages[f] = Disk!Closed \/ file_len[f] <= total_pages[f]

(* Only pages that allocate_page has handed out are modified and written.  *)
OnlyExistingChange ==
    /\ \A k \in pins : k.wrote => Exists(k.page)
    /\ \A f \in Frames : is_dirty[f] => page_id[f] # NoPage /\ Exists(page_id[f])

(* What a step behind the flush of a frame may rely on. *)
FlushKnows ==
    \A t \in Threads :
        /\ pc[t] = "write" => is_dirty[frame[t]]
        /\ pc[t] = "load" => ~MustFlush(frame[t])

(* The frame's page is in its file, or who modified it has it pinned. *)
Flushed(f) ==
    \/ page_id[f] = NoPage
    \/ f \in unread
    \/ frames[f] = Disk!PageOnDisk(page_id[f])
    \/ \E k \in PinsOn(f) : k.wrote

(* flush_all_pages has dealt with the frames it has passed. *)
FlushedBehind ==
    \A t \in Threads :
        InPool(t) /\ op[t] = "flush_all" => \A f \in Frames : f < frame[t] => Flushed(f)

BytesSound ==
    /\ FilesSound
    /\ OnlyExistingChange
    /\ FlushKnows
    /\ CleanFrameMatchesFile
    /\ FlushedBehind

(* Without failing I/O the replacer's queue has every cached page, but for *)
(* a victim on its way; a call that has yet to choose a frame has none.    *)
QueueComplete ==
    /\ \A f \in Frames :
          page_id[f] # NoPage /\ ~BeingReplaced(f) => LRU!Contains(access_queue, f)
    /\ \A t \in Threads : pc[t] \in {"allocate", "call"} => frame[t] = NoFrame

=============================================================================
