-------------------------- MODULE BufferPoolProofs --------------------------
(***************************************************************************)
(* Proofs about the buffer pool, for every number of frames, pages and     *)
(* threads, with every fault and with crashes: first its frames, their     *)
(* pins and its mapping, then the bytes: what is in a frame, what is in    *)
(* its file, and which of the two is the later.                            *)
(***************************************************************************)
EXTENDS BufferPool, TLAPS, FiniteSetTheorems, SequenceTheorems

(* The parts of the invariant that a step disturbs together: what the calls *)
(* are doing, what is pinned, and what the descriptors say.                *)
CallPart ==
    /\ MutexHeld /\ CallsWellFormed /\ VictimUnpinned
    /\ mutex \in Threads \union {NoThread}
    /\ pc \in [Threads -> Steps]
    /\ op \in [Threads -> Ops]
    /\ page \in [Threads -> PageIds \union {NoPage}]
    /\ frame \in [Threads -> Frames \union {NoFrame}]

PinPart ==
    /\ IsFiniteSet(pins) /\ PinsKeyed /\ PinsExact /\ PinnedPageStays
    /\ pins \subseteq Pin
    /\ pin_count \in [Frames -> Nat]
    /\ access_queue \in Seq(Frames)
    /\ is_pinned \in [Frames -> BOOLEAN]

DescPart ==
    /\ IsFiniteSet(pins) /\ PinsKeyed
    /\ MappingConsistent /\ PinsExact /\ PinnedPageStays

(* The queue of the replacer stays a sequence of frames. *)
LEMMA RemoveAtType ==
    ASSUME NEW S, NEW q \in Seq(S), NEW i \in DOMAIN q
    PROVE  LRU!RemoveAt(q, i) \in Seq(S)
<1>1. i \in 1 .. Len(q)
  BY LenProperties
<1>2. SubSeq(q, 1, i - 1) \in Seq(S)
  BY <1>1, SubSeqProperties
<1>3. SubSeq(q, i + 1, Len(q)) \in Seq(S)
  BY <1>1, SubSeqProperties
<1> QED
  BY <1>2, <1>3, ConcatProperties DEF LRU!RemoveAt

LEMMA RecordAccessType ==
    ASSUME access_queue \in Seq(Frames), NEW f \in Frames, LRU!RecordAccess(f)
    PROVE  access_queue' \in Seq(Frames)
<1>1. CASE access_queue' = Append(access_queue, f)
  BY <1>1, AppendProperties
<1>2. ASSUME NEW i \in DOMAIN access_queue,
             access_queue' = Append(LRU!RemoveAt(access_queue, i), f)
      PROVE  access_queue' \in Seq(Frames)
  BY <1>2, RemoveAtType, AppendProperties
<1> QED
  BY <1>1, <1>2 DEF LRU!RecordAccess

LEMMA EvictType ==
    ASSUME access_queue \in Seq(Frames), NEW f, LRU!Evict(f)
    PROVE  access_queue' \in Seq(Frames)
BY RemoveAtType DEF LRU!Evict

LEMMA SetPinType ==
    ASSUME is_pinned \in [Frames -> BOOLEAN], NEW f \in Frames, NEW b \in BOOLEAN,
           LRU!SetPin(f, b)
    PROVE  is_pinned' = [is_pinned EXCEPT ![f] = b] /\ is_pinned' \in [Frames -> BOOLEAN]
BY DEF LRU!SetPin

LEMMA InitBookkeeping == Init => Bookkeeping
<1> SUFFICES ASSUME Init PROVE Bookkeeping
  OBVIOUS
<1> USE PoolAssumption
<1>1. TypeOK
  BY DEF Init, TypeOK, LRU!LRUInit, Disk!DiskInit, Disk!DiskTypeOK, Frames, LRU!Frames,
     PageIds, Disk!PageIds, Disk!Closed, Content, Blank, NoFrame, Steps, Ops
<1>2. IsFiniteSet(pins)
  BY FS_EmptySet DEF Init
<1>8. PinsKeyed
  BY DEF Init, PinsKeyed
<1>3. MutexHeld /\ CallsWellFormed /\ VictimUnpinned
  BY DEF Init, MutexHeld, CallsWellFormed, VictimUnpinned, InPool
<1>4. LogBounded
  BY DEF Init, LogBounded
<1>5. MappingConsistent
  BY DEF Init, MappingConsistent, Frames, NoFrame, PageIds, Disk!PageIds
<1>6. PinsExact
  <2>1. \A f \in Frames : PinsOn(f) = {}
    BY DEF Init, PinsOn
  <2>2. \A f \in Frames : pin_count[f] = 0 /\ is_pinned[f] = FALSE
    BY DEF Init, LRU!LRUInit, Frames, LRU!Frames
  <2> QED
    BY <2>1, <2>2, FS_EmptySet DEF PinsExact
<1>7. PinnedPageStays
  BY DEF Init, PinnedPageStays
<1> QED
  BY <1>1, <1>2, <1>3, <1>4, <1>5, <1>6, <1>7, <1>8 DEF Bookkeeping

-----------------------------------------------------------------------------
(* The bookkeeping looks at the calls, the descriptors, the pins and the   *)
(* log; a step that leaves the descriptors and the pins alone keeps the    *)
(* parts that are about them.                                              *)
LEMMA DescriptorsKept ==
    ASSUME Bookkeeping,
           UNCHANGED <<page_table, page_id, pin_count, is_pinned, guard, pins>>
    PROVE  DescPart'
<1> USE DEF Bookkeeping
<1>1. IsFiniteSet(pins)' /\ PinsKeyed'
  BY DEF PinsKeyed
<1>2. MappingConsistent'
  BY DEF MappingConsistent
<1>3. PinsExact'
  BY DEF PinsExact, PinsOn
<1>4. PinnedPageStays'
  BY DEF PinnedPageStays, PinsOf
<1> QED
  BY <1>1, <1>2, <1>3, <1>4 DEF DescPart

(* A call that returns leaves the mutex free, so nobody is inside.         *)
LEMMA ReturnKeeps ==
    ASSUME Bookkeeping, NEW t \in Threads, mutex \in {t, NoThread}, Return(t)
    PROVE  CallPart'
<1> USE PoolAssumption DEF Bookkeeping, TypeOK, Return
<1>1. \A u \in Threads : ~InPool(u)'
  BY DEF MutexHeld, InPool
<1>2. MutexHeld' /\ VictimUnpinned'
  BY <1>1 DEF MutexHeld, VictimUnpinned
<1>3. CallsWellFormed'
  BY <1>1 DEF CallsWellFormed, InPool
<1> QED
  BY <1>2, <1>3 DEF Steps, Ops, CallPart

(* A call that goes on with a frame is alone inside.                       *)
LEMMA ContinueKeeps ==
    ASSUME Bookkeeping, NEW t \in Threads, mutex \in {t, NoThread},
           NEW step \in {"flush", "write", "load"}, NEW f \in Frames,
           pc[t] # "idle",
           step = "load" => op[t] = "fetch",
           step = "write" => page_id[f] # NoPage,
           op[t] = "fetch" => page_table[page[t]] = NoFrame /\ pin_count[f] = 0,
           Continue(t, step, f),
           UNCHANGED <<page_table, page_id, pin_count>>
    PROVE  CallPart'
<1> USE PoolAssumption DEF Bookkeeping, TypeOK, Continue
<1>1. \A u \in Threads : InPool(u)' <=> u = t
  BY DEF MutexHeld, InPool
<1>2. MutexHeld' /\ VictimUnpinned'
  BY <1>1 DEF MutexHeld, VictimUnpinned, InPool
<1>3. CallsWellFormed'
  BY <1>1 DEF CallsWellFormed, InPool
<1> QED
  BY <1>2, <1>3 DEF Steps, Ops, CallPart

LEMMA NoPinsOnUnpinned ==
    ASSUME Bookkeeping, NEW f \in Frames, pin_count[f] = 0
    PROVE  PinsOn(f) = {}
<1>1. IsFiniteSet(PinsOn(f))
  BY FS_Subset DEF Bookkeeping, PinsOn
<1> QED
  BY <1>1, FS_EmptySet DEF Bookkeeping, PinsExact

LEMMA EmptyFrameUnpinned ==
    ASSUME Bookkeeping, NEW f \in EmptyFrames
    PROVE  pin_count[f] = 0
<1>1. PinsOn(f) = {}
  BY PoolAssumption
  DEF Bookkeeping, EmptyFrames, PinsOn, PinnedPageStays, TypeOK, Pin, PageIds, Disk!PageIds
<1> QED
  BY <1>1, FS_EmptySet DEF Bookkeeping, PinsExact, EmptyFrames

(* One more pin on a frame that holds the page of the call.                *)
LEMMA PinForKeeps ==
    ASSUME Bookkeeping, NEW t \in Threads, NEW f \in Frames,
           page[t] \in PageIds, PinFor(t, f), UNCHANGED guard,
           page_id'[f] = page[t],
           \A k \in pins : page_id'[k.frame] = k.page
    PROVE  PinPart'
<1>a. /\ IsFiniteSet(pins) /\ PinsKeyed /\ PinsExact /\ PinnedPageStays
      /\ pins \subseteq Pin
      /\ pin_count \in [Frames -> Nat]
      /\ access_queue \in Seq(Frames)
      /\ is_pinned \in [Frames -> BOOLEAN]
  BY DEF Bookkeeping, TypeOK
<1> PICK i \in 1 .. MaxPins :
      /\ \A k \in PinsOf(t) : k.id # i
      /\ pins' = pins \union {[thread |-> t, id |-> i, page |-> page[t],
                               frame |-> f, wrote |-> FALSE]}
  BY DEF PinFor, GivePin
<1> DEFINE n == [thread |-> t, id |-> i, page |-> page[t], frame |-> f, wrote |-> FALSE]
<1>1. n \in Pin /\ n \notin pins
  BY <1>a DEF Pin, PinsOf
<1>2. pins' = pins \union {n}
  OBVIOUS
<1>3. pin_count' = [pin_count EXCEPT ![f] = @ + 1]
  BY DEF PinFor
<1>4. is_pinned' = [is_pinned EXCEPT ![f] = TRUE] /\ is_pinned' \in [Frames -> BOOLEAN]
  BY <1>a, SetPinType DEF PinFor
<1>5. access_queue' \in Seq(Frames)
  BY <1>a, RecordAccessType DEF PinFor
<1>6. IsFiniteSet(pins)'
  <2> HIDE DEF n
  <2>1. IsFiniteSet(pins \union {n})
    BY <1>a, FS_AddElement
  <2> QED
    BY <1>2, <2>1, Zenon
<1>7. PinsKeyed'
  <2>1. \A k \in pins : ~(k.thread = n.thread /\ k.id = n.id)
    BY DEF PinsOf
  <2> HIDE DEF n
  <2> QED
    BY <1>a, <1>2, <2>1 DEF PinsKeyed
<1>8. PinsExact'
  <2>1. n.frame = f
    OBVIOUS
  <2> HIDE DEF n
  <2>2. PinsOn(f)' = PinsOn(f) \union {n} /\ n \notin PinsOn(f)
    BY <1>1, <1>2, <2>1 DEF PinsOn
  <2>3. \A g \in Frames \ {f} : PinsOn(g)' = PinsOn(g)
    BY <1>2, <2>1 DEF PinsOn
  <2>4. IsFiniteSet(PinsOn(f))
    BY <1>a, FS_Subset DEF PinsOn
  <2>5. Cardinality(PinsOn(f)') = Cardinality(PinsOn(f)) + 1
    BY <2>2, <2>4, FS_AddElement
  <2>6. \A g \in Frames : pin_count'[g] = Cardinality(PinsOn(g)')
    BY <1>a, <1>3, <2>3, <2>5 DEF PinsExact
  <2>7. \A g \in Frames : is_pinned'[g] <=> pin_count'[g] > 0
    BY <1>a, <1>3, <1>4 DEF PinsExact
  <2> QED
    BY <2>6, <2>7 DEF PinsExact
<1>9. PinnedPageStays'
  BY <1>a, <1>2 DEF PinnedPageStays, PinsOf
<1>10. pins' \subseteq Pin /\ pin_count' \in [Frames -> Nat]
  <2> HIDE DEF n
  <2> QED
    BY <1>a, <1>1, <1>2, <1>3
<1> QED
  BY <1>4, <1>5, <1>6, <1>7, <1>8, <1>9, <1>10 DEF PinPart

LEMMA CallsKeep ==
    ASSUME Bookkeeping, NEW t \in Threads,
           NEW step \in {"call", "allocate"},
           NEW operation \in {"fetch", "flush", "flush_all"},
           NEW p \in PageIds \union {NoPage},
           step = "allocate" => operation = "fetch",
           operation \in {"fetch", "flush"} => p \in PageIds,
           Calls(t, step, operation, p, NoFrame)
    PROVE  Bookkeeping'
<1> USE DEF CallPart, PinPart, DescPart
<1> USE DEF Bookkeeping, Calls, descVars, lruVars, diskVars, logVars, clientVars
<1>1. TypeOK'
  BY DEF TypeOK, Steps, Ops, Disk!DiskTypeOK
<1>2. DescPart'
  BY DescriptorsKept
<1>3. MutexHeld'
  BY DEF TypeOK, MutexHeld, InPool
<1>4. CallsWellFormed'
  BY DEF TypeOK, CallsWellFormed, InPool
<1>5. VictimUnpinned'
  BY DEF TypeOK, VictimUnpinned, InPool
<1>6. LogBounded'
  BY DEF LogBounded
<1> QED
  BY <1>1, <1>2, <1>3, <1>4, <1>5, <1>6

-----------------------------------------------------------------------------
(* The disk manager's operations keep its types. *)

LEMMA ReadPageType ==
    ASSUME Disk!DiskTypeOK, NEW p \in PageIds, Disk!ReadPage(p)
    PROVE  Disk!DiskTypeOK'
<1> USE PoolAssumption
<1>1. Disk!CountOnOpen(Disk!FileOf(p)) \in Disk!Closed .. MaxPages
  BY DEF Disk!DiskTypeOK, Disk!CountOnOpen, Disk!FileOf, PageIds, Disk!PageIds, Disk!Closed
<1> QED
  BY <1>1 DEF Disk!DiskTypeOK, Disk!ReadPage, Disk!EnsureFileOpen

LEMMA WritePageType ==
    ASSUME Disk!DiskTypeOK, NEW p \in PageIds, NEW c \in Content, Disk!WritePage(p, c)
    PROVE  Disk!DiskTypeOK'
<1> USE PoolAssumption
<1>1. Disk!CountOnOpen(Disk!FileOf(p)) \in Disk!Closed .. MaxPages
  BY DEF Disk!DiskTypeOK, Disk!CountOnOpen, Disk!FileOf, PageIds, Disk!PageIds, Disk!Closed
<1>2. /\ Disk!FileOf(p) \in Files
      /\ Disk!NumOf(p) + 1 \in 0 .. MaxPages
  BY DEF Disk!FileOf, Disk!NumOf, PageIds, Disk!PageIds
<1>3. Disk!Larger(file_len[Disk!FileOf(p)], Disk!NumOf(p) + 1) \in 0 .. MaxPages
  BY <1>2 DEF Disk!Larger, Disk!DiskTypeOK
<1> QED
  BY <1>1, <1>3 DEF Disk!DiskTypeOK, Disk!WritePage, Disk!EnsureFileOpen

LEMMA AllocatePageType ==
    ASSUME Disk!DiskTypeOK, NEW p \in PageIds, Disk!AllocatePage(p)
    PROVE  Disk!DiskTypeOK'
<1> USE PoolAssumption
<1>1. Disk!FileOf(p) \in Files /\ Disk!NumOf(p) + 1 \in Disk!Closed .. MaxPages
  BY DEF Disk!FileOf, Disk!NumOf, PageIds, Disk!PageIds, Disk!Closed
<1> QED
  BY <1>1 DEF Disk!DiskTypeOK, Disk!AllocatePage

LEMMA PageOnDiskType ==
    ASSUME Disk!DiskTypeOK, NEW p \in PageIds
    PROVE  Disk!PageOnDisk(p) \in Content
BY PoolAssumption DEF Disk!DiskTypeOK, Disk!PageOnDisk, Blank, Content, PageIds, Disk!PageIds

-----------------------------------------------------------------------------
(* One lemma for each action of the pool. *)

LEMMA AllocateKeeps ==
    ASSUME Bookkeeping, NEW t \in Threads, Allocate(t)
    PROVE  Bookkeeping'
<1> USE DEF CallPart, PinPart, DescPart
<1> USE DEF descVars, lruVars, logVars, clientVars
<1> PICK p \in PageIds : Disk!AllocatePage(p) /\ page' = [page EXCEPT ![t] = p]
  BY DEF Allocate
<1>1. TypeOK'
  BY AllocatePageType DEF Allocate, Bookkeeping, TypeOK, Steps
<1>2. DescPart'
  BY DescriptorsKept DEF Allocate
<1>3. MutexHeld'
  BY DEF Allocate, Bookkeeping, TypeOK, MutexHeld, InPool
<1>4. CallsWellFormed'
  BY DEF Allocate, Bookkeeping, TypeOK, CallsWellFormed, InPool
<1>5. VictimUnpinned'
  BY DEF Allocate, Bookkeeping, TypeOK, VictimUnpinned, InPool
<1>6. LogBounded'
  BY DEF Allocate, Bookkeeping, LogBounded
<1> QED
  BY <1>1, <1>2, <1>3, <1>4, <1>5, <1>6 DEF Bookkeeping

LEMMA FetchHitKeeps ==
    ASSUME Bookkeeping, NEW t \in Threads, FetchHit(t)
    PROVE  Bookkeeping'
<1> USE DEF CallPart, PinPart, DescPart
<1> USE DEF diskVars, logVars
<1> DEFINE f == page_table[page[t]]
<1>1. /\ page[t] \in PageIds
      /\ f \in Frames
      /\ page_id[f] = page[t]
  BY DEF FetchHit, Enters, Bookkeeping, CallsWellFormed, TypeOK, MappingConsistent
<1>2. PinPart'
  BY <1>1, PinForKeeps DEF FetchHit, Bookkeeping, PinnedPageStays
<1>3. CallPart'
  BY ReturnKeeps DEF FetchHit, Enters
<1>4. TypeOK'
  BY <1>2, <1>3 DEF FetchHit, Bookkeeping, TypeOK, Disk!DiskTypeOK
<1>5. MappingConsistent'
  BY DEF FetchHit, Bookkeeping, MappingConsistent
<1>6. LogBounded'
  BY DEF FetchHit, Bookkeeping, LogBounded
<1> QED
  BY <1>2, <1>3, <1>4, <1>5, <1>6 DEF Bookkeeping

LEMMA FetchMissKeeps ==
    ASSUME Bookkeeping, NEW t \in Threads, NEW f \in Frames, FetchMiss(t, f)
    PROVE  Bookkeeping'
<1> USE DEF CallPart, PinPart, DescPart
<1> USE DEF descVars, diskVars, logVars, clientVars
<1>1. pin_count[f] = 0
  <2>1. CASE f \in EmptyFrames
    BY <2>1, EmptyFrameUnpinned
  <2>2. CASE LRU!Evict(f)
    BY <2>2 DEF LRU!Evict, Bookkeeping, PinsExact, TypeOK
  <2> QED
    BY <2>1, <2>2 DEF FetchMiss
<1>2. CallPart'
  BY <1>1, ContinueKeeps DEF FetchMiss, Enters
<1>3. access_queue' \in Seq(Frames)
  BY EvictType DEF FetchMiss, Bookkeeping, TypeOK
<1>4. TypeOK'
  BY <1>2, <1>3 DEF FetchMiss, Bookkeeping, TypeOK, Disk!DiskTypeOK
<1>5. DescPart'
  BY DescriptorsKept DEF FetchMiss
<1>6. LogBounded'
  BY DEF FetchMiss, Bookkeeping, LogBounded
<1> QED
  BY <1>2, <1>4, <1>5, <1>6 DEF Bookkeeping

LEMMA FetchNoFreeFramesKeeps ==
    ASSUME Bookkeeping, NEW t \in Threads, FetchNoFreeFrames(t)
    PROVE  Bookkeeping'
<1> USE DEF CallPart, DescPart
<1> USE DEF descVars, lruVars, diskVars, logVars, clientVars
<1>1. CallPart'
  BY ReturnKeeps DEF FetchNoFreeFrames, Enters
<1>2. DescPart'
  BY DescriptorsKept DEF FetchNoFreeFrames
<1>3. TypeOK'
  BY <1>1 DEF FetchNoFreeFrames, Bookkeeping, TypeOK, Disk!DiskTypeOK
<1>4. LogBounded'
  BY DEF FetchNoFreeFrames, Bookkeeping, LogBounded
<1> QED
  BY <1>1, <1>2, <1>3, <1>4 DEF Bookkeeping

(* The frame that changes hands is nobody's, so no pin is left behind.     *)
LEMMA RemapKeeps ==
    ASSUME Bookkeeping, NEW t \in Threads, pc[t] = "load", Remap(t, frame[t])
    PROVE  /\ mutex = t
           /\ page[t] \in PageIds
           /\ frame[t] \in Frames
           /\ page_id'[frame[t]] = page[t]
           /\ \A k \in pins : page_id'[k.frame] = k.page
           /\ page_table' \in [PageIds -> Frames \union {NoFrame}]
           /\ page_id' \in [Frames -> PageIds \union {NoPage}]
           /\ MappingConsistent'
<1>1. InPool(t) /\ op[t] = "fetch"
  BY DEF Bookkeeping, CallsWellFormed, InPool
<1>2. /\ mutex = t
      /\ page[t] \in PageIds
      /\ frame[t] \in Frames
      /\ page_table[page[t]] = NoFrame
      /\ pin_count[frame[t]] = 0
  BY <1>1 DEF Bookkeeping, MutexHeld, CallsWellFormed, VictimUnpinned
<1>3. /\ page_table \in [PageIds -> Frames \union {NoFrame}]
      /\ page_id \in [Frames -> PageIds \union {NoPage}]
      /\ MappingConsistent /\ PinnedPageStays
      /\ pins \subseteq Pin
  BY DEF Bookkeeping, TypeOK
<1>4. /\ page_table' \in [PageIds -> Frames \union {NoFrame}]
      /\ page_id' \in [Frames -> PageIds \union {NoPage}]
      /\ page_id'[frame[t]] = page[t]
  BY <1>2, <1>3 DEF Remap
<1>5. \A k \in pins : page_id'[k.frame] = k.page
  <2>1. \A k \in pins : k.frame # frame[t]
    BY <1>2, NoPinsOnUnpinned DEF PinsOn
  <2> QED
    BY <1>2, <1>3, <2>1 DEF Remap, PinnedPageStays, Pin
<1>6. \A f \in Frames : f # NoFrame
  BY DEF Frames, NoFrame
<1>7. MappingConsistent'
  <2> SUFFICES ASSUME NEW p \in PageIds, NEW f \in Frames
               PROVE  page_table'[p] = f <=> page_id'[f] = p
    BY DEF MappingConsistent
  <2>1. CASE p = page[t]
    <3>1. page_table'[p] = frame[t]
      BY <2>1 DEF Remap
    <3>2. page_id[f] # p
      BY <1>2, <1>3, <1>6, <2>1 DEF MappingConsistent
    <3> QED
      BY <1>2, <1>3, <2>1, <3>1, <3>2 DEF Remap
  <2>2. CASE p # page[t] /\ p = page_id[frame[t]]
    <3>1. page_table'[p] = NoFrame
      BY <2>2 DEF Remap
    <3>2. f # frame[t] => page_id[f] # p
      BY <1>2, <1>3, <2>2 DEF MappingConsistent
    <3> QED
      BY <1>2, <1>3, <1>6, <2>2, <3>1, <3>2 DEF Remap
  <2>3. CASE p # page[t] /\ p # page_id[frame[t]]
    <3>1. page_table'[p] = page_table[p]
      BY <2>3 DEF Remap
    <3> QED
      BY <1>2, <1>3, <2>3, <3>1 DEF Remap, MappingConsistent
  <2> QED
    BY <2>1, <2>2, <2>3
<1> QED
  BY <1>2, <1>4, <1>5, <1>7

LEMMA FetchLoadKeeps ==
    ASSUME Bookkeeping, NEW t \in Threads, FetchLoad(t)
    PROVE  Bookkeeping'
<1> USE DEF CallPart, PinPart
<1> USE DEF logVars
<1>1. /\ mutex = t
      /\ page[t] \in PageIds
      /\ frame[t] \in Frames
      /\ page_id'[frame[t]] = page[t]
      /\ \A k \in pins : page_id'[k.frame] = k.page
      /\ page_table' \in [PageIds -> Frames \union {NoFrame}]
      /\ page_id' \in [Frames -> PageIds \union {NoPage}]
      /\ MappingConsistent'
  BY RemapKeeps DEF FetchLoad
<1>2. PinPart'
  BY <1>1, PinForKeeps DEF FetchLoad
<1>3. CallPart'
  BY <1>1, ReturnKeeps DEF FetchLoad
<1>4. Disk!DiskTypeOK'
  BY <1>1, ReadPageType DEF FetchLoad, Bookkeeping, TypeOK
<1>5. frames' \in [Frames -> Content]
  BY <1>1, PageOnDiskType DEF FetchLoad, Bookkeeping, TypeOK
<1>6. TypeOK'
  BY <1>1, <1>2, <1>3, <1>4, <1>5 DEF FetchLoad, Bookkeeping, TypeOK
<1>7. LogBounded'
  BY DEF FetchLoad, Bookkeeping, LogBounded
<1> QED
  BY <1>1, <1>2, <1>3, <1>6, <1>7 DEF Bookkeeping

LEMMA FetchLoadFailsKeeps ==
    ASSUME Bookkeeping, NEW t \in Threads, FetchLoadFails(t)
    PROVE  Bookkeeping'
<1> USE DEF CallPart
<1> USE DEF lruVars, diskVars, logVars, clientVars
<1>1. /\ mutex = t
      /\ frame[t] \in Frames
      /\ \A k \in pins : page_id'[k.frame] = k.page
      /\ page_table' \in [PageIds -> Frames \union {NoFrame}]
      /\ page_id' \in [Frames -> PageIds \union {NoPage}]
      /\ MappingConsistent'
  BY RemapKeeps DEF FetchLoadFails
<1>2. CallPart'
  BY <1>1, ReturnKeeps DEF FetchLoadFails
<1>3. TypeOK'
  BY <1>1, <1>2 DEF FetchLoadFails, Bookkeeping, TypeOK, Disk!DiskTypeOK
<1>4. IsFiniteSet(pins)' /\ PinsKeyed'
  BY DEF FetchLoadFails, Bookkeeping, PinsKeyed
<1>5. PinsExact'
  BY DEF FetchLoadFails, Bookkeeping, PinsExact, PinsOn
<1>6. PinnedPageStays'
  BY <1>1 DEF FetchLoadFails, Bookkeeping, PinnedPageStays, PinsOf
<1>7. LogBounded'
  BY DEF FetchLoadFails, Bookkeeping, LogBounded
<1> QED
  BY <1>1, <1>2, <1>3, <1>4, <1>5, <1>6, <1>7 DEF Bookkeeping

-----------------------------------------------------------------------------

LEMMA EnterFlushKeeps ==
    ASSUME Bookkeeping, NEW t \in Threads, EnterFlush(t)
    PROVE  Bookkeeping'
<1> USE DEF CallPart, DescPart
<1> USE DEF descVars, lruVars, diskVars, logVars, clientVars
<1>1. CallPart'
  <2>1. CASE page_table[page[t]] # NoFrame /\ Continue(t, "flush", page_table[page[t]])
    <3>1. page_table[page[t]] \in Frames
      BY <2>1 DEF EnterFlush, Enters, Bookkeeping, CallsWellFormed, TypeOK
    <3> QED
      BY <2>1, <3>1, ContinueKeeps DEF EnterFlush, Enters
  <2>2. CASE Return(t)
    BY <2>2, ReturnKeeps DEF EnterFlush, Enters
  <2> QED
    BY <2>1, <2>2 DEF EnterFlush
<1>2. DescPart'
  BY DescriptorsKept DEF EnterFlush
<1>3. TypeOK'
  BY <1>1 DEF EnterFlush, Bookkeeping, TypeOK, Disk!DiskTypeOK
<1>4. LogBounded'
  BY DEF EnterFlush, Bookkeeping, LogBounded
<1> QED
  BY <1>1, <1>2, <1>3, <1>4 DEF Bookkeeping

LEMMA EnterFlushAllKeeps ==
    ASSUME Bookkeeping, NEW t \in Threads, EnterFlushAll(t)
    PROVE  Bookkeeping'
<1> USE DEF CallPart, DescPart
<1> USE DEF descVars, lruVars, diskVars, logVars, clientVars
<1>1. CallPart'
  <2>1. 0 \in Frames
    BY PoolAssumption DEF Frames
  <2> QED
    BY <2>1, ContinueKeeps DEF EnterFlushAll, Enters
<1>2. DescPart'
  BY DescriptorsKept DEF EnterFlushAll
<1>3. TypeOK'
  BY <1>1 DEF EnterFlushAll, Bookkeeping, TypeOK, Disk!DiskTypeOK
<1>4. LogBounded'
  BY DEF EnterFlushAll, Bookkeeping, LogBounded
<1> QED
  BY <1>1, <1>2, <1>3, <1>4 DEF Bookkeeping

(* Whoever is in the pool owns the mutex and knows its frame.              *)
LEMMA InsideKnows ==
    ASSUME Bookkeeping, NEW t \in Threads, InPool(t)
    PROVE  /\ mutex = t
           /\ frame[t] \in Frames
           /\ pc[t] = "write" => page_id[frame[t]] \in PageIds
BY DEF Bookkeeping, TypeOK, MutexHeld, CallsWellFormed

LEMMA AfterFlushKeeps ==
    ASSUME Bookkeeping, NEW t \in Threads, pc[t] \in {"flush", "write"}, AfterFlush(t),
           UNCHANGED <<page_table, page_id, pin_count>>
    PROVE  CallPart'
<1>1. InPool(t) /\ pc[t] # "idle"
  BY DEF InPool
<1>2. /\ mutex = t
      /\ frame[t] \in Frames
      /\ op[t] = "fetch" => page_table[page[t]] = NoFrame /\ pin_count[frame[t]] = 0
  BY <1>1, InsideKnows DEF Bookkeeping, VictimUnpinned
<1>3. CASE op[t] = "fetch" /\ Continue(t, "load", frame[t])
  BY <1>1, <1>2, <1>3, ContinueKeeps
<1>4. CASE Return(t)
  BY <1>2, <1>4, ReturnKeeps
<1>5. CASE op[t] = "flush_all" /\ frame[t] < pool_size - 1 /\ Continue(t, "flush", frame[t] + 1)
  <2>1. frame[t] + 1 \in Frames
    BY <1>2, <1>5, PoolAssumption DEF Frames
  <2> QED
    BY <1>1, <1>2, <1>5, <2>1, ContinueKeeps
<1> QED
  BY <1>3, <1>4, <1>5 DEF AfterFlush

LEMMA FlushCleanKeeps ==
    ASSUME Bookkeeping, NEW t \in Threads, FlushClean(t)
    PROVE  Bookkeeping'
<1> USE DEF CallPart, DescPart
<1> USE DEF descVars, lruVars, diskVars, logVars, clientVars
<1>1. CallPart'
  BY AfterFlushKeeps DEF FlushClean
<1>2. DescPart'
  BY DescriptorsKept DEF FlushClean
<1>3. TypeOK'
  BY <1>1 DEF FlushClean, Bookkeeping, TypeOK, Disk!DiskTypeOK
<1>4. LogBounded'
  BY DEF FlushClean, Bookkeeping, LogBounded
<1> QED
  BY <1>1, <1>2, <1>3, <1>4 DEF Bookkeeping

(* The log only loses records from its buffer, to the file or for good.    *)
LEMMA ForceLogKeeps ==
    ASSUME Bookkeeping, NEW lsn, ForceLog(lsn), UNCHANGED writes
    PROVE  /\ next_lsn' \in 1 .. MaxWrites + 1
           /\ log_buffer' \subseteq Record
           /\ log_durable' \subseteq 1 .. MaxWrites
           /\ LogBounded'
<1>1. /\ next_lsn \in 1 .. MaxWrites + 1
      /\ log_buffer \subseteq Record
      /\ log_durable \subseteq 1 .. MaxWrites
      /\ LogBounded
  BY DEF Bookkeeping, TypeOK
<1>2. \A r \in RecordsUpTo(lsn) : r \in log_buffer /\ r.val \in 1 .. MaxWrites
  BY <1>1 DEF RecordsUpTo, Record
<1> QED
  BY <1>1, <1>2 DEF ForceLog, LogBounded

LEMMA FlushLogKeeps ==
    ASSUME Bookkeeping, NEW t \in Threads, FlushLog(t)
    PROVE  Bookkeeping'
<1> USE DEF CallPart, DescPart
<1> USE DEF descVars, lruVars, diskVars, clientVars
<1>1. mutex = t /\ frame[t] \in Frames /\ page_id[frame[t]] # NoPage
  BY InsideKnows DEF FlushLog, InPool, MustFlush
<1>2. CallPart'
  <2>1. op[t] = "fetch" => page_table[page[t]] = NoFrame /\ pin_count[frame[t]] = 0
    BY DEF FlushLog, Bookkeeping, VictimUnpinned, InPool
  <2> QED
    BY <1>1, <2>1, ContinueKeeps DEF FlushLog
<1>3. DescPart'
  BY DescriptorsKept DEF FlushLog
<1>4. /\ next_lsn' \in 1 .. MaxWrites + 1
      /\ log_buffer' \subseteq Record
      /\ log_durable' \subseteq 1 .. MaxWrites
      /\ LogBounded'
  BY ForceLogKeeps DEF FlushLog
<1>5. TypeOK'
  BY <1>2, <1>4 DEF FlushLog, Bookkeeping, TypeOK, Disk!DiskTypeOK
<1> QED
  BY <1>2, <1>3, <1>4, <1>5 DEF Bookkeeping

LEMMA FlushLogFailsKeeps ==
    ASSUME Bookkeeping, NEW t \in Threads, FlushLogFails(t)
    PROVE  Bookkeeping'
<1> USE DEF CallPart, DescPart
<1> USE DEF descVars, lruVars, diskVars, clientVars
<1>1. CallPart'
  BY InsideKnows, ReturnKeeps DEF FlushLogFails, InPool
<1>2. DescPart'
  BY DescriptorsKept DEF FlushLogFails
<1>3. /\ next_lsn' \in 1 .. MaxWrites + 1
      /\ log_buffer' \subseteq Record
      /\ log_durable' \subseteq 1 .. MaxWrites
      /\ LogBounded'
  <2>1. CASE ForceLog(frames[frame[t]].lsn)
    BY <2>1, ForceLogKeeps DEF FlushLogFails
  <2>2. CASE /\ log_buffer' = log_buffer \ RecordsUpTo(frames[frame[t]].lsn)
             /\ UNCHANGED <<next_lsn, log_durable>>
    BY <2>2 DEF FlushLogFails, Bookkeeping, TypeOK, LogBounded
  <2> QED
    BY <2>1, <2>2 DEF FlushLogFails
<1>4. TypeOK'
  BY <1>1, <1>3 DEF FlushLogFails, Bookkeeping, TypeOK, Disk!DiskTypeOK
<1> QED
  BY <1>1, <1>2, <1>3, <1>4 DEF Bookkeeping

LEMMA FlushWriteKeeps ==
    ASSUME Bookkeeping, NEW t \in Threads, FlushWrite(t)
    PROVE  Bookkeeping'
<1> USE DEF CallPart, DescPart
<1> USE DEF lruVars, logVars, clientVars
<1>1. frame[t] \in Frames /\ page_id[frame[t]] \in PageIds
  BY InsideKnows DEF FlushWrite, InPool
<1>2. CallPart'
  BY AfterFlushKeeps DEF FlushWrite
<1>3. DescPart'
  BY DescriptorsKept DEF FlushWrite
<1>4. Disk!DiskTypeOK'
  BY <1>1, WritePageType DEF FlushWrite, Bookkeeping, TypeOK
<1>5. TypeOK'
  BY <1>2, <1>4 DEF FlushWrite, Bookkeeping, TypeOK
<1>6. LogBounded'
  BY DEF FlushWrite, Bookkeeping, LogBounded
<1> QED
  BY <1>2, <1>3, <1>5, <1>6 DEF Bookkeeping

LEMMA FlushWriteFailsKeeps ==
    ASSUME Bookkeeping, NEW t \in Threads, FlushWriteFails(t)
    PROVE  Bookkeeping'
<1> USE DEF CallPart, DescPart
<1> USE DEF descVars, lruVars, logVars, clientVars
<1>1. mutex = t /\ frame[t] \in Frames /\ page_id[frame[t]] \in PageIds
  BY InsideKnows DEF FlushWriteFails, InPool
<1>2. CallPart'
  BY <1>1, ReturnKeeps DEF FlushWriteFails
<1>3. DescPart'
  BY DescriptorsKept DEF FlushWriteFails
<1>4. Disk!DiskTypeOK'
  <2>1. CASE Disk!WritePage(page_id[frame[t]], frames[frame[t]])
    BY <1>1, <2>1, WritePageType DEF Bookkeeping, TypeOK
  <2>2. CASE UNCHANGED diskVars
    BY <2>2 DEF diskVars, Bookkeeping, TypeOK, Disk!DiskTypeOK
  <2> QED
    BY <2>1, <2>2 DEF FlushWriteFails
<1>5. TypeOK'
  BY <1>2, <1>4 DEF FlushWriteFails, Bookkeeping, TypeOK
<1>6. LogBounded'
  BY DEF FlushWriteFails, Bookkeeping, LogBounded
<1> QED
  BY <1>2, <1>3, <1>5, <1>6 DEF Bookkeeping

-----------------------------------------------------------------------------
(* Steps of a caller between its calls. *)

LEMMA CallsUnchanged ==
    ASSUME Bookkeeping, UNCHANGED <<callVars, page_table, page_id, pin_count>>
    PROVE  CallPart'
BY DEF callVars, Bookkeeping, TypeOK, CallPart, MutexHeld, CallsWellFormed,
       VictimUnpinned, InPool

(* While the mutex is free nobody relies on what it protects.              *)
LEMMA CallsOutside ==
    ASSUME Bookkeeping, mutex = NoThread, UNCHANGED callVars
    PROVE  CallPart'
<1>1. \A u \in Threads : ~InPool(u)
  BY PoolAssumption DEF Bookkeeping, MutexHeld
<1> QED
  BY <1>1 DEF callVars, Bookkeeping, TypeOK, CallPart, MutexHeld, CallsWellFormed,
       VictimUnpinned, InPool

LEMMA UnpinKeeps ==
    ASSUME Bookkeeping, NEW t \in Threads, NEW k \in PinsOf(t), NEW dirty \in BOOLEAN,
           Unpin(t, k, dirty)
    PROVE  Bookkeeping'
<1> DEFINE f == k.frame
<1>1. /\ k \in pins /\ k.thread = t
      /\ f \in Frames
      /\ k.page \in PageIds
      /\ page_table[k.page] = f
  BY DEF PinsOf, Bookkeeping, TypeOK, Pin, PinnedPageStays, MappingConsistent
<1>2. /\ is_dirty' = [is_dirty EXCEPT ![f] = @ \/ dirty]
      /\ pin_count' = [pin_count EXCEPT ![f] = @ - 1]
      /\ Release(f)
      /\ pins' = pins \ {k}
      /\ UNCHANGED guard
      /\ guard[f] # t
  BY <1>1 DEF Unpin, MarkDirty
<1>3. /\ IsFiniteSet(pins) /\ PinsKeyed /\ PinsExact /\ PinnedPageStays
      /\ pins \subseteq Pin
      /\ pin_count \in [Frames -> Nat]
      /\ is_pinned \in [Frames -> BOOLEAN]
      /\ is_dirty \in [Frames -> BOOLEAN]
  BY DEF Bookkeeping, TypeOK
<1>4. IsFiniteSet(pins)' /\ PinsKeyed' /\ pins' \subseteq Pin
  <2>1. IsFiniteSet(pins \ {k})
    BY <1>3, FS_RemoveElement
  <2> QED
    BY <1>2, <1>3, <2>1 DEF PinsKeyed
<1>5. /\ Cardinality(PinsOn(f)') = Cardinality(PinsOn(f)) - 1
      /\ Cardinality(PinsOn(f)) \in Nat \ {0}
  <2>1. IsFiniteSet(PinsOn(f)) /\ k \in PinsOn(f)
    BY <1>1, <1>3, FS_Subset DEF PinsOn
  <2>2. PinsOn(f)' = PinsOn(f) \ {k}
    BY <1>2 DEF PinsOn
  <2>3. Cardinality(PinsOn(f)) # 0
    BY <2>1, FS_EmptySet
  <2> QED
    BY <2>1, <2>2, <2>3, FS_RemoveElement, FS_CardinalityType
<1>6. \A g \in Frames \ {f} : PinsOn(g)' = PinsOn(g)
  BY <1>2 DEF PinsOn
<1>7. /\ pin_count' \in [Frames -> Nat]
      /\ \A g \in Frames : pin_count'[g] = Cardinality(PinsOn(g)')
  BY <1>1, <1>2, <1>3, <1>5, <1>6 DEF PinsExact
<1>8. /\ is_pinned' \in [Frames -> BOOLEAN]
      /\ \A g \in Frames : is_pinned'[g] <=> pin_count'[g] > 0
  <2>1. CASE pin_count[f] = 1
    <3>1. is_pinned' = [is_pinned EXCEPT ![f] = FALSE]
      BY <1>2, <2>1 DEF Release, LRU!SetPin
    <3> QED
      BY <1>1, <1>2, <1>3, <2>1, <3>1 DEF PinsExact
  <2>2. CASE pin_count[f] # 1
    <3>1. is_pinned' = is_pinned
      BY <1>2, <2>2 DEF Release
    <3>2. pin_count[f] > 1
      BY <1>1, <1>3, <1>5, <2>2 DEF PinsExact
    <3>3. pin_count'[f] > 0
      BY <1>1, <1>2, <1>3, <3>2
    <3> QED
      BY <1>1, <1>2, <1>3, <3>1, <3>2, <3>3 DEF PinsExact
  <2> QED
    BY <2>1, <2>2
<1>9. PinsExact'
  BY <1>7, <1>8 DEF PinsExact
<1>10. PinnedPageStays'
  <2>1. UNCHANGED page_id
    BY DEF Unpin
  <2> QED
    BY <1>1, <1>2, <1>3, <2>1 DEF PinnedPageStays, PinsOf
<1>11. is_dirty' \in [Frames -> BOOLEAN]
  BY <1>2, <1>3
<1>12. CallPart'
  BY CallsOutside DEF Unpin
<1>13. TypeOK'
  BY <1>4, <1>7, <1>8, <1>11, <1>12
  DEF Unpin, Bookkeeping, TypeOK, Disk!DiskTypeOK, diskVars, logVars, CallPart
<1>14. MappingConsistent' /\ LogBounded'
  BY DEF Unpin, Bookkeeping, MappingConsistent, LogBounded, logVars
<1> QED
  BY <1>4, <1>9, <1>10, <1>12, <1>13, <1>14 DEF Bookkeeping, CallPart

LEMMA DropRelationKeeps ==
    ASSUME Bookkeeping, NEW t \in Threads, NEW file \in Files, DropRelation(t, file)
    PROVE  Bookkeeping'
<1> DEFINE Of(f) == page_id[f] # NoPage /\ Disk!FileOf(page_id[f]) = file
<1>1. /\ page_table' = [p \in PageIds |->
                          IF Disk!FileOf(p) = file THEN NoFrame ELSE page_table[p]]
      /\ page_id' = [f \in Frames |-> IF Of(f) THEN NoPage ELSE page_id[f]]
      /\ is_dirty' = [f \in Frames |-> IF Of(f) THEN FALSE ELSE is_dirty[f]]
      /\ pin_count' = [f \in Frames |-> IF Of(f) THEN 0 ELSE pin_count[f]]
      /\ is_pinned' = [f \in Frames |-> IF Of(f) THEN FALSE ELSE is_pinned[f]]
      /\ UNCHANGED <<guard, pins>>
      /\ \A k \in pins : Disk!FileOf(k.page) # file
  BY DEF DropRelation
<1>2. /\ page_table \in [PageIds -> Frames \union {NoFrame}]
      /\ page_id \in [Frames -> PageIds \union {NoPage}]
      /\ is_dirty \in [Frames -> BOOLEAN]
      /\ pin_count \in [Frames -> Nat]
      /\ is_pinned \in [Frames -> BOOLEAN]
      /\ pins \subseteq Pin
      /\ MappingConsistent /\ PinsExact /\ PinnedPageStays
  BY DEF Bookkeeping, TypeOK
<1>3. \A f \in Frames : Of(f) => PinsOn(f) = {}
  BY <1>1, <1>2 DEF PinnedPageStays, PinsOn
<1>4. /\ page_table' \in [PageIds -> Frames \union {NoFrame}]
      /\ page_id' \in [Frames -> PageIds \union {NoPage}]
      /\ is_dirty' \in [Frames -> BOOLEAN]
      /\ pin_count' \in [Frames -> Nat]
      /\ is_pinned' \in [Frames -> BOOLEAN]
  BY <1>1, <1>2
<1>5. MappingConsistent'
  <2> SUFFICES ASSUME NEW p \in PageIds, NEW f \in Frames
               PROVE  page_table'[p] = f <=> page_id'[f] = p
    BY DEF MappingConsistent
  <2>1. f # NoFrame /\ p # NoPage
    BY PoolAssumption DEF Frames, NoFrame, PageIds, Disk!PageIds
  <2> HIDE DEF Of
  <2>2. Of(f) <=> page_id[f] # NoPage /\ Disk!FileOf(page_id[f]) = file
    BY DEF Of
  <2>3. page_table[p] = f <=> page_id[f] = p
    BY <1>2 DEF MappingConsistent
  <2>4. page_table'[p] = IF Disk!FileOf(p) = file THEN NoFrame ELSE page_table[p]
    BY <1>1
  <2>5. page_id'[f] = IF Of(f) THEN NoPage ELSE page_id[f]
    BY <1>1
  <2>6. CASE Of(f)
    BY <2>1, <2>2, <2>3, <2>4, <2>5, <2>6
  <2>7. CASE ~Of(f)
    BY <2>1, <2>2, <2>3, <2>4, <2>5, <2>7
  <2> QED
    BY <2>6, <2>7
<1>6. PinsExact'
  <2>1. \A f \in Frames : PinsOn(f)' = PinsOn(f)
    BY <1>1 DEF PinsOn
  <2>2. \A f \in Frames : pin_count'[f] = Cardinality(PinsOn(f)')
    BY <1>1, <1>2, <1>3, <2>1, FS_EmptySet DEF PinsExact
  <2>3. \A f \in Frames : is_pinned'[f] <=> pin_count'[f] > 0
    BY <1>1, <1>2 DEF PinsExact
  <2> QED
    BY <2>2, <2>3 DEF PinsExact
<1>7. PinnedPageStays'
  BY <1>1, <1>2 DEF PinnedPageStays, PinsOf, Pin
<1>8. CallPart'
  BY CallsOutside DEF DropRelation
<1>9. TypeOK'
  <2>1. losses' \in 0 .. MaxLosses
    BY PoolAssumption DEF DropRelation, Bookkeeping, TypeOK
  <2> QED
    BY <1>4, <1>8, <2>1
    DEF DropRelation, Bookkeeping, TypeOK, Disk!DiskTypeOK, diskVars, logVars, CallPart
<1>10. IsFiniteSet(pins)' /\ PinsKeyed' /\ LogBounded'
  BY DEF DropRelation, Bookkeeping, PinsKeyed, LogBounded, logVars
<1> QED
  BY <1>5, <1>6, <1>7, <1>8, <1>9, <1>10 DEF Bookkeeping, CallPart

(* Guards come and go under a pin. *)
LEMMA GuardKeeps ==
    ASSUME Bookkeeping, NEW t \in Threads, NEW k \in PinsOf(t),
           NEW holder \in {t, NoThread},
           guard' = [guard EXCEPT ![k.frame] = holder],
           UNCHANGED <<descVars, frames, lruVars, diskVars, logVars, callVars,
                       pins, writes, losses>>
    PROVE  Bookkeeping'
<1> USE DEF descVars, lruVars, diskVars, logVars
<1>1. CallPart'
  BY CallsUnchanged
<1>2. TypeOK'
  BY <1>1 DEF Bookkeeping, TypeOK, Disk!DiskTypeOK, CallPart
<1>3. PinnedPageStays'
  BY DEF Bookkeeping, TypeOK, PinnedPageStays, PinsOf, Pin
<1>4. /\ IsFiniteSet(pins)' /\ PinsKeyed' /\ MappingConsistent' /\ LogBounded'
  BY DEF Bookkeeping, PinsKeyed, MappingConsistent, LogBounded
<1>5. PinsExact'
  BY DEF Bookkeeping, PinsExact, PinsOn
<1> QED
  BY <1>1, <1>2, <1>3, <1>4, <1>5 DEF Bookkeeping, CallPart

LEMMA ModifyKeeps ==
    ASSUME Bookkeeping, NEW t \in Threads, NEW k \in PinsOf(t), NEW stamp \in Stamps,
           Modify(t, k, stamp)
    PROVE  Bookkeeping'
<1> DEFINE m == [k EXCEPT !.wrote = TRUE]
<1>1. /\ IsFiniteSet(pins) /\ PinsKeyed /\ PinsExact /\ PinnedPageStays /\ LogBounded
      /\ pins \subseteq Pin
      /\ frames \in [Frames -> Content]
      /\ guard \in [Frames -> Threads \union {NoThread}]
      /\ next_lsn \in 1 .. MaxWrites + 1
      /\ writes \in 0 .. MaxWrites
      /\ log_buffer \subseteq Record
  BY DEF Bookkeeping, TypeOK
<1>2. k \in pins /\ k.thread = t /\ k \in Pin
  BY <1>1 DEF PinsOf
<1>3. /\ m \in Pin
      /\ m.thread = k.thread /\ m.id = k.id /\ m.page = k.page /\ m.frame = k.frame
  BY <1>2 DEF Pin
<1>4. /\ pins' = (pins \ {k}) \union {m}
      /\ guard' = [guard EXCEPT ![k.frame] = NoThread]
      /\ writes < MaxWrites /\ writes' = writes + 1
      /\ next_lsn' = next_lsn + 1
      /\ log_buffer' = log_buffer \union {[lsn |-> next_lsn, val |-> writes + 1]}
      /\ frames' = [frames EXCEPT ![k.frame] =
                       [val |-> writes + 1, lsn |-> IF stamp THEN next_lsn ELSE @.lsn]]
      /\ UNCHANGED <<page_table, page_id, pin_count, is_pinned>>
  BY DEF Modify, descVars, lruVars
<1> HIDE DEF m
<1>5. IsFiniteSet(pins)'
  <2>1. IsFiniteSet(pins \ {k})
    BY <1>1, FS_RemoveElement
  <2>2. IsFiniteSet((pins \ {k}) \union {m})
    BY <2>1, FS_AddElement
  <2> QED
    BY <1>4, <2>2, Zenon
<1>6. PinsKeyed'
  BY <1>1, <1>2, <1>3, <1>4 DEF PinsKeyed
<1>7. \A f \in Frames : Cardinality(PinsOn(f)') = Cardinality(PinsOn(f))
  <2>1. \A f \in Frames \ {k.frame} : PinsOn(f)' = PinsOn(f)
    BY <1>3, <1>4 DEF PinsOn
  <2> DEFINE rest == PinsOn(k.frame) \ {k}
  <2>2. IsFiniteSet(PinsOn(k.frame)) /\ k \in PinsOn(k.frame)
    BY <1>1, <1>2, FS_Subset DEF PinsOn
  <2>3. m \notin rest
    BY <1>1, <1>2, <1>3 DEF PinsKeyed, PinsOn
  <2>4. PinsOn(k.frame)' = rest \union {m}
    BY <1>3, <1>4 DEF PinsOn
  <2>5. IsFiniteSet(rest) /\ Cardinality(rest) = Cardinality(PinsOn(k.frame)) - 1
    BY <2>2, FS_RemoveElement
  <2> HIDE DEF rest
  <2>6. Cardinality(PinsOn(k.frame)') = Cardinality(rest) + 1
    BY <2>3, <2>4, <2>5, FS_AddElement
  <2>7. Cardinality(PinsOn(k.frame)) \in Nat
    BY <2>2, FS_CardinalityType
  <2> QED
    BY <2>1, <2>5, <2>6, <2>7
<1>8. PinsExact'
  BY <1>1, <1>4, <1>7 DEF PinsExact
<1>9. PinnedPageStays'
  <2>1. \A l \in pins' : page_id'[l.frame] = l.page
    BY <1>1, <1>2, <1>3, <1>4 DEF PinnedPageStays
  <2>2. ASSUME NEW f \in Frames, guard'[f] # NoThread
        PROVE  \E l \in PinsOf(guard[f])' : l.frame = f
    <3>1. guard'[f] = guard[f] /\ guard[f] # NoThread
      BY <1>1, <1>4, <2>2
    <3>2. PICK l \in PinsOf(guard[f]) : l.frame = f
      BY <1>1, <3>1 DEF PinnedPageStays
    <3>3. CASE l = k
      BY <1>3, <1>4, <3>1, <3>2, <3>3 DEF PinsOf
    <3>4. CASE l # k
      BY <1>4, <3>1, <3>2, <3>4 DEF PinsOf
    <3> QED
      BY <3>3, <3>4
  <2> QED
    BY <2>1, <2>2 DEF PinnedPageStays
<1>10. next_lsn <= writes + 1 /\ next_lsn \in 1 .. MaxWrites /\ writes + 1 \in 1 .. MaxWrites
  BY <1>1, <1>4, PoolAssumption DEF LogBounded
<1>11. LogBounded'
  BY <1>1, <1>4, <1>10 DEF LogBounded, Record
<1>12. frames' \in [Frames -> Content]
  <2>1. k.frame \in Frames /\ frames[k.frame].lsn \in 0 .. MaxWrites
    BY <1>1, <1>2 DEF Pin, Content
  <2>2. [val |-> writes + 1, lsn |-> IF stamp THEN next_lsn ELSE frames[k.frame].lsn]
          \in Content
    BY <1>10, <2>1 DEF Content
  <2> QED
    BY <1>1, <1>4, <2>1, <2>2
<1>13. /\ pins' \subseteq Pin
       /\ guard' \in [Frames -> Threads \union {NoThread}]
       /\ next_lsn' \in 1 .. MaxWrites + 1
       /\ writes' \in 0 .. MaxWrites
       /\ log_buffer' \subseteq Record
  <2>1. [lsn |-> next_lsn, val |-> writes + 1] \in Record
    BY <1>10 DEF Record
  <2>2. next_lsn + 1 \in 1 .. MaxWrites + 1 /\ writes + 1 \in 0 .. MaxWrites
    BY <1>10, PoolAssumption
  <2> QED
    BY <1>1, <1>3, <1>4, <2>1, <2>2
<1>14. CallPart'
  BY CallsUnchanged DEF Modify, descVars
<1>15. TypeOK'
  BY <1>12, <1>13, <1>14
  DEF Modify, Bookkeeping, TypeOK, Disk!DiskTypeOK, CallPart, descVars, lruVars, diskVars
<1>16. MappingConsistent'
  BY <1>4 DEF Bookkeeping, MappingConsistent
<1> QED
  BY <1>5, <1>6, <1>8, <1>9, <1>11, <1>14, <1>15, <1>16 DEF Bookkeeping, CallPart

(* A restart is like the first start, except for what is on the disk.      *)
LEMMA CrashKeeps ==
    ASSUME Bookkeeping, Crash
    PROVE  Bookkeeping'
<1> USE PoolAssumption
<1>1. Disk!DiskTypeOK'
  BY DEF Crash, Disk!CloseAll, Disk!DiskTypeOK, Bookkeeping, TypeOK, Disk!Closed
<1>2. TypeOK'
  BY <1>1 DEF Crash, Bookkeeping, TypeOK, Frames, Content, Blank, NoFrame, Steps, Ops
<1>3. IsFiniteSet(pins)'
  BY FS_EmptySet DEF Crash
<1>4. PinsKeyed' /\ MutexHeld' /\ CallsWellFormed' /\ VictimUnpinned' /\ LogBounded'
  BY DEF Crash, Bookkeeping, TypeOK, PinsKeyed, MutexHeld, CallsWellFormed, VictimUnpinned,
     InPool, LogBounded
<1>5. MappingConsistent'
  BY DEF Crash, MappingConsistent, Frames, NoFrame, PageIds, Disk!PageIds
<1>6. PinsExact'
  <2>1. \A f \in Frames : PinsOn(f)' = {}
    BY DEF Crash, PinsOn
  <2>2. \A f \in Frames : pin_count'[f] = 0 /\ is_pinned'[f] = FALSE
    BY DEF Crash
  <2> QED
    BY <2>1, <2>2, FS_EmptySet DEF PinsExact
<1>7. PinnedPageStays'
  BY DEF Crash, PinnedPageStays
<1> QED
  BY <1>2, <1>3, <1>4, <1>5, <1>6, <1>7 DEF Bookkeeping

-----------------------------------------------------------------------------
(* The theorems. *)

LEMMA FlushingKeeps ==
    ASSUME Bookkeeping, NEW t \in Threads, Flushing(t)
    PROVE  Bookkeeping'
BY EnterFlushKeeps, EnterFlushAllKeeps, FlushCleanKeeps, FlushLogKeeps,
   FlushLogFailsKeeps, FlushWriteKeeps, FlushWriteFailsKeeps DEF Flushing

LEMMA FetchingKeeps ==
    ASSUME Bookkeeping, NEW t \in Threads, Fetching(t)
    PROVE  Bookkeeping'
BY AllocateKeeps, FetchHitKeeps, FetchMissKeeps, FetchNoFreeFramesKeeps,
   FetchLoadKeeps, FetchLoadFailsKeeps DEF Fetching

LEMMA CallingKeeps ==
    ASSUME Bookkeeping, NEW t \in Threads, Calling(t)
    PROVE  Bookkeeping'
<1>1. CASE \E p \in PageIds : CallFetch(t, p)
  BY <1>1, CallsKeep DEF CallFetch
<1>2. CASE \E p \in PageIds : CallNew(t, p)
  BY <1>2, CallsKeep DEF CallNew
<1>3. CASE \E p \in PageIds : CallFlush(t, p)
  BY <1>3, CallsKeep DEF CallFlush
<1>4. CASE CallFlushAll(t)
  BY <1>4, CallsKeep DEF CallFlushAll
<1> QED
  BY <1>1, <1>2, <1>3, <1>4 DEF Calling

LEMMA UsingKeeps ==
    ASSUME Bookkeeping, NEW t \in Threads, Using(t)
    PROVE  Bookkeeping'
<1>1. ASSUME NEW k \in PinsOf(t), TakeGuard(t, k)
      PROVE  Bookkeeping'
  BY <1>1, GuardKeeps DEF TakeGuard
<1>2. ASSUME NEW k \in PinsOf(t), DropGuard(t, k)
      PROVE  Bookkeeping'
  BY <1>2, GuardKeeps DEF DropGuard
<1> QED
  BY <1>1, <1>2, ModifyKeeps, UnpinKeeps, DropRelationKeeps DEF Using

LEMMA StutterKeeps == Bookkeeping /\ UNCHANGED vars => Bookkeeping'
<1> SUFFICES ASSUME Bookkeeping, UNCHANGED vars PROVE Bookkeeping'
  OBVIOUS
<1> USE DEF vars, descVars, lruVars, diskVars, logVars, callVars, clientVars
<1>1. CallPart'
  BY CallsUnchanged
<1>2. DescPart'
  BY DescriptorsKept
<1>3. TypeOK'
  BY DEF Bookkeeping, TypeOK, Disk!DiskTypeOK
<1>4. LogBounded'
  BY DEF Bookkeeping, LogBounded
<1> QED
  BY <1>1, <1>2, <1>3, <1>4 DEF Bookkeeping, CallPart, DescPart

(***************************************************************************)
(* The bookkeeping of the pool (buffer_pool.rs: page table, descriptors,   *)
(* pins and replacer flags) is an invariant: of every pool size, with any  *)
(* number of threads in fetch_page, unpin_page and the flushes at once,    *)
(* also when reads, writes and log flushes fail and the process restarts.  *)
(***************************************************************************)
THEOREM BookkeepingInvariant == Spec => []Bookkeeping
<1>1. Bookkeeping /\ [Next]_vars => Bookkeeping'
  BY FlushingKeeps, FetchingKeeps, CallingKeeps, UsingKeeps, CrashKeeps, StutterKeeps
  DEF Next, PoolStep
<1> QED
  BY InitBookkeeping, <1>1, PTL DEF Spec

(***************************************************************************)
(* Type correctness of the pool (buffer_pool.rs, frame.rs, lru.rs).        *)
(***************************************************************************)
THEOREM PoolTypeCorrect == Spec => []TypeOK
<1>1. Bookkeeping => TypeOK
  BY DEF Bookkeeping
<1> QED
  BY <1>1, BookkeepingInvariant, PTL

(***************************************************************************)
(* The page table and the descriptors agree after every step of            *)
(* fetch_page and drop_relation, failed ones included.                     *)
(***************************************************************************)
THEOREM MappingIsConsistent == Spec => []MappingConsistent
<1>1. Bookkeeping => MappingConsistent
  BY DEF Bookkeeping
<1> QED
  BY <1>1, BookkeepingInvariant, PTL

(***************************************************************************)
(* The pin counts are exact, so that the assertion in                      *)
(* FrameDescriptor::unpin cannot fire and a frame becomes evictable with   *)
(* its last unpin_page.                                                    *)
(***************************************************************************)
THEOREM PinsAreExact == Spec => []PinsExact
<1>1. Bookkeeping => PinsExact
  BY DEF Bookkeeping
<1> QED
  BY <1>1, BookkeepingInvariant, PTL

(***************************************************************************)
(* The frame fetch_page returned holds the page until unpin_page, so the   *)
(* callers may use the frame's number without the page-table mutex.        *)
(***************************************************************************)
THEOREM PinnedPagesStay == Spec => []PinnedPageStays
<1>1. Bookkeeping => PinnedPageStays
  BY DEF Bookkeeping
<1> QED
  BY <1>1, BookkeepingInvariant, PTL

-----------------------------------------------------------------------------
(* The disk manager. *)

LEMMA PageIdsArePairs ==
    ASSUME NEW p \in PageIds
    PROVE  /\ Disk!FileOf(p) \in Files
           /\ Disk!NumOf(p) \in 0 .. MaxPages - 1
           /\ p = <<Disk!FileOf(p), Disk!NumOf(p)>>
BY DEF PageIds, Disk!PageIds, Disk!FileOf, Disk!NumOf

(* Opening a file changes nothing one can see. *)
LEMMA OpenKeeps ==
    ASSUME Disk!DiskTypeOK, FilesSound, NEW f \in Files, Disk!EnsureFileOpen(f),
           UNCHANGED <<stored, file_len>>
    PROVE  /\ FilesSound'
           /\ \A q \in PageIds : Disk!PageOnDisk(q)' = Disk!PageOnDisk(q)
           /\ \A q \in PageIds : Exists(q)' <=> Exists(q)
<1> USE PoolAssumption, PageIdsArePairs
<1>1. \A q \in PageIds : Disk!PageOnDisk(q)' = Disk!PageOnDisk(q)
  BY DEF Disk!PageOnDisk
<1>2. \A g \in Files : Disk!CountOnOpen(g)' = Disk!CountOnOpen(g)
  BY DEF Disk!CountOnOpen, Disk!EnsureFileOpen, Disk!DiskTypeOK, Disk!Closed
<1>3. FilesSound'
  BY DEF FilesSound, Disk!CountOnOpen, Disk!EnsureFileOpen, Disk!DiskTypeOK, Disk!Closed
<1> QED
  BY <1>1, <1>2, <1>3 DEF Exists

(* A write replaces one page; the ones it skips, when it makes the file    *)
(* longer, read as zeros before and after.                                 *)
LEMMA WriteKeeps ==
    ASSUME Disk!DiskTypeOK, FilesSound, NEW p \in PageIds, NEW c \in Content,
           Exists(p), Disk!WritePage(p, c)
    PROVE  /\ FilesSound'
           /\ Disk!PageOnDisk(p)' = c
           /\ \A q \in PageIds \ {p} : Disk!PageOnDisk(q)' = Disk!PageOnDisk(q)
           /\ \A q \in PageIds : Exists(q) => Exists(q)'
<1> USE PoolAssumption
<1> DEFINE n(q) == Disk!NumOf(q)
           F(q) == Disk!FileOf(q)
<1>1. \A q \in PageIds : F(q) \in Files /\ n(q) \in 0 .. MaxPages - 1
  BY PageIdsArePairs
<1>2. /\ stored \in [PageIds -> Content]
      /\ file_len \in [Files -> 0 .. MaxPages]
      /\ total_pages \in [Files -> -1 .. MaxPages]
  BY DEF Disk!DiskTypeOK, PageIds, Disk!Closed
<1>3. /\ stored' = [stored EXCEPT ![p] = c]
      /\ file_len' = [file_len EXCEPT ![F(p)] = IF @ > n(p) + 1 THEN @ ELSE n(p) + 1]
      /\ total_pages' = [total_pages EXCEPT ![F(p)] =
                            IF @ = -1 THEN file_len[F(p)] ELSE @]
  BY <1>1, <1>2
  DEF Disk!WritePage, Disk!Larger, Disk!EnsureFileOpen, Disk!CountOnOpen, Disk!Closed
<1>4. \A q \in PageIds : n(q) >= file_len[F(q)] => stored[q] = Blank
  BY DEF FilesSound
<1>5. \A f \in Files : total_pages[f] = -1 \/ file_len[f] <= total_pages[f]
  BY DEF FilesSound, Disk!Closed
<1>6. n(p) < IF total_pages[F(p)] = -1 THEN file_len[F(p)] ELSE total_pages[F(p)]
  BY DEF Exists, Disk!CountOnOpen, Disk!Closed
<1> HIDE DEF n, F
<1>7. \A q \in PageIds : n(q) >= file_len'[F(q)] => stored'[q] = Blank
  BY <1>1, <1>2, <1>3, <1>4
<1>8. \A f \in Files : total_pages'[f] = -1 \/ file_len'[f] <= total_pages'[f]
  BY <1>1, <1>2, <1>3, <1>5, <1>6
<1>9. FilesSound'
  BY <1>7, <1>8 DEF FilesSound, n, F, Disk!Closed, Disk!NumOf, Disk!FileOf
<1>10. n(p) < file_len'[F(p)] /\ stored'[p] = c
  BY <1>1, <1>2, <1>3
<1>11. ASSUME NEW q \in PageIds \ {p}
       PROVE  (IF n(q) < file_len'[F(q)] THEN stored'[q] ELSE Blank)
                = (IF n(q) < file_len[F(q)] THEN stored[q] ELSE Blank)
  BY <1>1, <1>2, <1>3, <1>4
<1>12. \A q \in PageIds :
          (n(q) < IF total_pages[F(q)] = -1 THEN file_len[F(q)] ELSE total_pages[F(q)])
          => n(q) < IF total_pages'[F(q)] = -1 THEN file_len'[F(q)] ELSE total_pages'[F(q)]
  BY <1>1, <1>2, <1>3
<1> QED
  BY <1>9, <1>10, <1>11, <1>12
  DEF n, F, Disk!PageOnDisk, Exists, Disk!CountOnOpen, Disk!Closed, Disk!NumOf, Disk!FileOf

(* A new page moves the count, never the file. *)
LEMMA AllocationKeeps ==
    ASSUME Disk!DiskTypeOK, FilesSound, NEW p \in PageIds, Disk!AllocatePage(p)
    PROVE  /\ FilesSound'
           /\ \A q \in PageIds : Disk!PageOnDisk(q)' = Disk!PageOnDisk(q)
           /\ \A q \in PageIds : Exists(q) => Exists(q)'
<1> USE PoolAssumption
<1>1. \A q \in PageIds : Disk!FileOf(q) \in Files /\ Disk!NumOf(q) \in 0 .. MaxPages - 1
  BY PageIdsArePairs
<1>2. /\ file_len \in [Files -> 0 .. MaxPages]
      /\ total_pages \in [Files -> -1 .. MaxPages]
  BY DEF Disk!DiskTypeOK, Disk!Closed
<1>3. /\ Disk!NumOf(p) = Disk!CountOnOpen(Disk!FileOf(p))
      /\ total_pages' = [total_pages EXCEPT ![Disk!FileOf(p)] = Disk!NumOf(p) + 1]
      /\ UNCHANGED <<stored, file_len>>
  BY DEF Disk!AllocatePage
<1>4. FilesSound'
  BY <1>1, <1>2, <1>3 DEF FilesSound, Disk!Closed, Disk!CountOnOpen
<1>5. \A q \in PageIds : Disk!PageOnDisk(q)' = Disk!PageOnDisk(q)
  BY <1>3 DEF Disk!PageOnDisk
<1>6. \A q \in PageIds : Exists(q) => Exists(q)'
  BY <1>1, <1>2, <1>3 DEF Exists, Disk!CountOnOpen, Disk!Closed
<1> QED
  BY <1>4, <1>5, <1>6

LEMMA CloseKeeps ==
    ASSUME Disk!DiskTypeOK, FilesSound, Disk!CloseAll
    PROVE  /\ FilesSound'
           /\ \A q \in PageIds : Disk!PageOnDisk(q)' = Disk!PageOnDisk(q)
BY DEF FilesSound, Disk!CloseAll, Disk!PageOnDisk, Disk!Closed

-----------------------------------------------------------------------------
(* Frames and files. *)

LEMMA InitBytes == Init => BytesSound
<1> SUFFICES ASSUME Init PROVE BytesSound
  OBVIOUS
<1>1. FilesSound
  BY PageIdsArePairs
  DEF Init, FilesSound, Disk!DiskInit, PageIds, Disk!Closed
<1>2. OnlyExistingChange /\ FlushKnows /\ FlushedBehind
  BY DEF Init, OnlyExistingChange, FlushKnows, FlushedBehind, InPool
<1>3. CleanFrameMatchesFile
  BY DEF Init, CleanFrameMatchesFile
<1> QED
  BY <1>1, <1>2, <1>3 DEF BytesSound

(* Nothing that Flushed looks at changes. *)
SameBytes ==
    /\ UNCHANGED <<page_id, frames, unread>>
    /\ \A q \in PageIds : Disk!PageOnDisk(q)' = Disk!PageOnDisk(q)
    /\ \A k \in pins : k.wrote => k \in pins'
    /\ \A k \in pins' : k.wrote => k \in pins

LEMMA FlushedKept ==
    ASSUME Bookkeeping, SameBytes, NEW f \in Frames
    PROVE  Flushed(f)' <=> Flushed(f)
<1>1. page_id[f] \in PageIds \union {NoPage}
  BY DEF Bookkeeping, TypeOK
<1> QED
  BY <1>1 DEF SameBytes, Flushed, PinsOn

(* What the invariant says of a frame that is not flushed. *)
LEMMA CleanIsFlushed ==
    /\ CleanFrameMatchesFile <=> \A f \in Frames : Flushed(f) \/ is_dirty[f]
    /\ CleanFrameMatchesFile' <=> \A f \in Frames : Flushed(f)' \/ is_dirty'[f]
BY DEF CleanFrameMatchesFile, Flushed

(* Whoever has left the pool owes nothing. *)
LEMMA NobodyInside ==
    ASSUME Bookkeeping', mutex' = NoThread
    PROVE  FlushKnows' /\ FlushedBehind'
<1>1. \A t \in Threads : ~InPool(t)'
  BY PoolAssumption DEF Bookkeeping, MutexHeld
<1> QED
  BY <1>1 DEF FlushKnows, FlushedBehind, InPool

(* A step outside of the pool, of a thread that stays outside. *)
LEMMA OthersInside ==
    ASSUME Bookkeeping, FlushKnows, FlushedBehind,
           NEW t \in Threads, ~InPool(t), ~InPool(t)',
           \A u \in Threads \ {t} :
               pc'[u] = pc[u] /\ op'[u] = op[u] /\ frame'[u] = frame[u],
           UNCHANGED <<page_id, is_dirty>>,
           \A f \in Frames : Flushed(f) => Flushed(f)'
    PROVE  FlushKnows' /\ FlushedBehind'
BY DEF FlushKnows, FlushedBehind, InPool, MustFlush

(* A step that leaves the bytes alone, whatever it does to the calls. *)
LEMMA QuietKeepsBytes ==
    ASSUME Bookkeeping, BytesSound, SameBytes, UNCHANGED <<is_dirty, diskVars>>,
           FlushKnows', FlushedBehind'
    PROVE  BytesSound'
<1> USE DEF BytesSound
<1>1. FilesSound'
  BY DEF FilesSound, diskVars
<1>2. OnlyExistingChange'
  BY DEF OnlyExistingChange, SameBytes, Exists, Disk!CountOnOpen, diskVars
<1>3. CleanFrameMatchesFile'
  BY FlushedKept, CleanIsFlushed
<1> QED
  BY <1>1, <1>2, <1>3

LEMMA DiskUnchanged ==
    ASSUME UNCHANGED diskVars
    PROVE  \A q \in PageIds : Disk!PageOnDisk(q)' = Disk!PageOnDisk(q)
BY DEF diskVars, Disk!PageOnDisk

-----------------------------------------------------------------------------
(* Steps that keep the bytes. *)

LEMMA CallsKeepBytes ==
    ASSUME Bookkeeping, BytesSound, NEW t \in Threads,
           NEW step \in {"call", "allocate"}, NEW operation, NEW p,
           Calls(t, step, operation, p, NoFrame)
    PROVE  BytesSound'
<1>1. SameBytes /\ UNCHANGED <<is_dirty, diskVars>>
  BY DiskUnchanged DEF Calls, SameBytes, descVars, clientVars
<1>2. ~InPool(t) /\ ~InPool(t)'
  BY DEF Calls, InPool, Bookkeeping, TypeOK
<1>3. \A u \in Threads \ {t} : pc'[u] = pc[u] /\ op'[u] = op[u] /\ frame'[u] = frame[u]
  BY DEF Calls, Bookkeeping, TypeOK
<1>4. FlushKnows' /\ FlushedBehind'
  BY <1>1, <1>2, <1>3, FlushedKept, OthersInside DEF SameBytes, BytesSound
<1> QED
  BY <1>1, <1>4, QuietKeepsBytes

LEMMA GuardKeepsBytes ==
    ASSUME Bookkeeping, BytesSound,
           UNCHANGED <<descVars, frames, diskVars, callVars, pins>>
    PROVE  BytesSound'
<1>1. SameBytes /\ UNCHANGED <<is_dirty, diskVars>>
  BY DiskUnchanged DEF SameBytes, descVars
<1>2. FlushKnows' /\ FlushedBehind'
  BY <1>1, FlushedKept
  DEF FlushKnows, FlushedBehind, InPool, MustFlush, BytesSound, callVars, descVars
<1> QED
  BY <1>1, <1>2, QuietKeepsBytes

(* A call that returns, or goes on with a frame, without a change.         *)
LEMMA ReturnKeepsBytes ==
    ASSUME Bookkeeping, Bookkeeping', BytesSound, NEW t \in Threads, Return(t),
           SameBytes, UNCHANGED <<is_dirty, diskVars>>
    PROVE  BytesSound'
BY NobodyInside, QuietKeepsBytes DEF Return

LEMMA OnlyInside ==
    ASSUME Bookkeeping', NEW t \in Threads, NEW step \in {"flush", "write", "load"},
           NEW f, Bookkeeping, Continue(t, step, f)
    PROVE  /\ \A u \in Threads \ {t} : ~InPool(u)'
           /\ pc'[t] = step /\ op'[t] = op[t] /\ frame'[t] = f
BY PoolAssumption DEF Bookkeeping, MutexHeld, TypeOK, Continue

LEMMA EnterKeepsBytes ==
    ASSUME Bookkeeping, Bookkeeping', BytesSound, NEW t \in Threads, NEW f \in Frames,
           Continue(t, "flush", f), op[t] = "flush_all" => f = 0,
           SameBytes, UNCHANGED <<is_dirty, diskVars>>
    PROVE  BytesSound'
<1>1. FlushKnows' /\ FlushedBehind'
  BY OnlyInside DEF FlushKnows, FlushedBehind, InPool, Frames
<1> QED
  BY <1>1, QuietKeepsBytes

(* A frame is behind the flush: the call goes on to the load, to the next  *)
(* frame, or returns.                                                      *)
LEMMA AfterFlushKnows ==
    ASSUME Bookkeeping, Bookkeeping', NEW t \in Threads, InPool(t), AfterFlush(t),
           NEW f \in Frames, f = frame[t],
           UNCHANGED page_id, ~is_dirty'[f] \/ page_id[f] = NoPage,
           FlushedBehind,
           \A g \in Frames : Flushed(g) => Flushed(g)',
           Flushed(f)'
    PROVE  FlushKnows' /\ FlushedBehind'
<1>1. CASE op[t] = "fetch" /\ Continue(t, "load", f)
  BY <1>1, OnlyInside DEF FlushKnows, FlushedBehind, InPool, MustFlush
<1>2. CASE Return(t)
  BY <1>2, NobodyInside DEF Return
<1>3. CASE op[t] = "flush_all" /\ Continue(t, "flush", f + 1)
  <2>1. \A g \in Frames : g < f => Flushed(g)
    BY <1>3 DEF FlushedBehind
  <2>2. \A g \in Frames : g < f + 1 => g < f \/ g = f
    BY PoolAssumption DEF Frames
  <2>3. \A g \in Frames : g < f + 1 => Flushed(g)'
    BY <2>1, <2>2
  <2>4. /\ \A u \in Threads \ {t} : ~InPool(u)'
        /\ pc'[t] = "flush" /\ frame'[t] = f + 1
    BY <1>3, OnlyInside
  <2>5. FlushKnows'
    BY <2>4 DEF FlushKnows, InPool
  <2> QED
    BY <2>3, <2>4, <2>5 DEF FlushedBehind
<1> QED
  BY <1>1, <1>2, <1>3 DEF AfterFlush

LEMMA FlushCleanKeepsBytes ==
    ASSUME Bookkeeping, Bookkeeping', BytesSound, NEW t \in Threads, FlushClean(t)
    PROVE  BytesSound'
<1>1. SameBytes /\ UNCHANGED <<is_dirty, diskVars>>
  BY DiskUnchanged DEF FlushClean, SameBytes, descVars, clientVars
<1>2. InPool(t)
  BY DEF FlushClean, InPool
<1>3. PICK f \in Frames : f = frame[t]
  BY <1>2, InsideKnows
<1>4. ~is_dirty[f] \/ page_id[f] = NoPage
  BY <1>3 DEF FlushClean, MustFlush
<1>5. \A g \in Frames : Flushed(g)' <=> Flushed(g)
  BY <1>1, FlushedKept
<1>6. Flushed(f)
  BY <1>4, CleanIsFlushed DEF BytesSound, Flushed
<1>7. AfterFlush(t) /\ UNCHANGED page_id /\ FlushedBehind
  BY <1>1 DEF FlushClean, BytesSound, SameBytes
<1>8. FlushKnows' /\ FlushedBehind'
  BY <1>1, <1>2, <1>3, <1>4, <1>5, <1>6, <1>7, AfterFlushKnows
<1> QED
  BY <1>1, <1>8, QuietKeepsBytes

LEMMA FlushLogKeepsBytes ==
    ASSUME Bookkeeping, Bookkeeping', BytesSound, NEW t \in Threads, FlushLog(t)
    PROVE  BytesSound'
<1>1. SameBytes /\ UNCHANGED <<is_dirty, diskVars>>
  BY DiskUnchanged DEF FlushLog, SameBytes, descVars, clientVars
<1>2. InPool(t) /\ MustFlush(frame[t]) /\ Continue(t, "write", frame[t])
  BY DEF FlushLog, InPool
<1>3. /\ \A u \in Threads \ {t} : ~InPool(u)'
      /\ pc'[t] = "write" /\ op'[t] = op[t] /\ frame'[t] = frame[t]
  BY <1>2, OnlyInside
<1>4. FlushKnows'
  BY <1>1, <1>2, <1>3 DEF FlushKnows, InPool, MustFlush
<1>5. FlushedBehind'
  BY <1>1, <1>2, <1>3, FlushedKept DEF FlushedBehind, BytesSound
<1> QED
  BY <1>1, <1>4, <1>5, QuietKeepsBytes

(* The page of the frame is in its file; what else the write may have      *)
(* done to the dirty flags is nobody's loss.                               *)
LEMMA WriteKeepsBytes ==
    ASSUME Bookkeeping, BytesSound, NEW t \in Threads, pc[t] = "write",
           NEW f \in Frames, f = frame[t], NEW p \in PageIds, p = page_id[f],
           Disk!WritePage(p, frames[f]),
           UNCHANGED <<page_id, frames, unread, pins>>,
           is_dirty' \in [Frames -> BOOLEAN],
           \A g \in Frames : is_dirty'[g] => is_dirty[g],
           \A g \in Frames \ {f} : is_dirty'[g] = is_dirty[g]
    PROVE  /\ Disk!PageOnDisk(p)' = frames[f]
           /\ \A q \in PageIds \ {p} : Disk!PageOnDisk(q)' = Disk!PageOnDisk(q)
           /\ \A g \in Frames : Flushed(g) => Flushed(g)'
           /\ Flushed(f)'
           /\ FilesSound' /\ OnlyExistingChange' /\ CleanFrameMatchesFile'
<1>1. is_dirty[f] /\ Exists(p)
  BY DEF BytesSound, FlushKnows, OnlyExistingChange
<1>2. Disk!DiskTypeOK /\ frames[f] \in Content /\ is_dirty \in [Frames -> BOOLEAN]
  BY DEF Bookkeeping, TypeOK
<1>3. PICK c \in Content : c = frames[f]
  BY <1>2
<1>4. /\ FilesSound'
      /\ Disk!PageOnDisk(p)' = c
      /\ \A q \in PageIds \ {p} : Disk!PageOnDisk(q)' = Disk!PageOnDisk(q)
      /\ \A q \in PageIds : Exists(q) => Exists(q)'
  BY <1>1, <1>2, <1>3, WriteKeeps DEF BytesSound
<1>5. \A g \in Frames \ {f} : page_id[g] # p
  BY DEF Bookkeeping, MappingConsistent
<1>6. Flushed(f)'
  BY <1>3, <1>4 DEF Flushed
<1>7. \A g \in Frames : page_id[g] \in PageIds \union {NoPage}
  BY DEF Bookkeeping, TypeOK
<1>8. ASSUME NEW g \in Frames, Flushed(g) PROVE Flushed(g)'
  BY <1>4, <1>5, <1>6, <1>7, <1>8 DEF Flushed, PinsOn
<1>9. CleanFrameMatchesFile'
  <2>1. \A g \in Frames : Flushed(g) \/ is_dirty[g]
    BY CleanIsFlushed DEF BytesSound
  <2>2. \A g \in Frames : Flushed(g)' \/ is_dirty'[g]
    BY <1>6, <1>8, <2>1
  <2> QED
    BY <2>2, CleanIsFlushed
<1>10. OnlyExistingChange'
  BY <1>4, <1>7 DEF BytesSound, OnlyExistingChange, Bookkeeping, TypeOK, Pin
<1> QED
  BY <1>3, <1>4, <1>6, <1>8, <1>9, <1>10

LEMMA FlushWriteKeepsBytes ==
    ASSUME Bookkeeping, Bookkeeping', BytesSound, NEW t \in Threads, FlushWrite(t)
    PROVE  BytesSound'
<1>1. pc[t] = "write" /\ AfterFlush(t) /\ InPool(t)
  BY DEF FlushWrite, InPool
<1>2. PICK f \in Frames : f = frame[t]
  BY <1>1, InsideKnows
<1>3. PICK p \in PageIds : p = page_id[f]
  BY <1>1, <1>2, InsideKnows
<1>4. /\ Disk!WritePage(p, frames[f])
      /\ UNCHANGED <<page_id, frames, unread, pins>>
      /\ is_dirty' = [is_dirty EXCEPT ![f] = FALSE]
  BY <1>2, <1>3 DEF FlushWrite, clientVars
<1>5. is_dirty \in [Frames -> BOOLEAN]
  BY DEF Bookkeeping, TypeOK
<1>6. /\ \A g \in Frames : Flushed(g) => Flushed(g)'
      /\ Flushed(f)'
      /\ FilesSound' /\ OnlyExistingChange' /\ CleanFrameMatchesFile'
  BY <1>1, <1>2, <1>3, <1>4, <1>5, WriteKeepsBytes
<1>7. ~is_dirty'[f]
  BY <1>4, <1>5
<1>8. FlushKnows' /\ FlushedBehind'
  BY <1>1, <1>2, <1>4, <1>6, <1>7, AfterFlushKnows DEF BytesSound
<1> QED
  BY <1>6, <1>8 DEF BytesSound

LEMMA FlushWriteFailsKeepsBytes ==
    ASSUME Bookkeeping, Bookkeeping', BytesSound, NEW t \in Threads, FlushWriteFails(t)
    PROVE  BytesSound'
<1>1. Return(t) /\ pc[t] = "write" /\ UNCHANGED <<page_id, is_dirty, frames, unread, pins>>
  BY DEF FlushWriteFails, descVars, clientVars
<1>2. FlushKnows' /\ FlushedBehind'
  BY <1>1, NobodyInside DEF Return
<1>3. PICK f \in Frames : f = frame[t]
  BY <1>1, InsideKnows DEF InPool
<1>4. PICK p \in PageIds : p = page_id[f]
  BY <1>1, <1>3, InsideKnows DEF InPool
<1>5. CASE Disk!WritePage(p, frames[f])
  <2>1. is_dirty \in [Frames -> BOOLEAN] /\ is_dirty' = is_dirty
    BY <1>1 DEF Bookkeeping, TypeOK
  <2> QED
    BY <1>1, <1>2, <1>3, <1>4, <1>5, <2>1, WriteKeepsBytes DEF BytesSound
<1>6. CASE UNCHANGED diskVars
  <2>1. SameBytes
    BY <1>1, <1>6, DiskUnchanged DEF SameBytes
  <2> QED
    BY <1>1, <1>6, <2>1, ReturnKeepsBytes
<1> QED
  BY <1>3, <1>4, <1>5, <1>6 DEF FlushWriteFails

LEMMA EnterCallKeepsBytes ==
    ASSUME Bookkeeping, Bookkeeping', BytesSound, NEW t \in Threads,
           \/ EnterFlush(t) \/ EnterFlushAll(t) \/ FlushLogFails(t)
           \/ FetchNoFreeFrames(t) \/ \E f \in Frames : FetchMiss(t, f)
    PROVE  BytesSound'
<1>1. SameBytes /\ UNCHANGED <<is_dirty, diskVars>>
  BY DiskUnchanged
  DEF SameBytes, EnterFlush, EnterFlushAll, FlushLogFails, FetchNoFreeFrames, FetchMiss,
      descVars, clientVars
<1>2. CASE Return(t)
  BY <1>1, <1>2, ReturnKeepsBytes
<1>3. CASE EnterFlush(t) /\ page_table[page[t]] # NoFrame
  <2>1. page_table[page[t]] \in Frames
    BY <1>3 DEF EnterFlush, Enters, Bookkeeping, CallsWellFormed, TypeOK
  <2> QED
    BY <1>1, <1>3, <2>1, EnterKeepsBytes DEF EnterFlush, Enters
<1>4. CASE EnterFlushAll(t)
  <2>1. 0 \in Frames
    BY PoolAssumption DEF Frames
  <2> QED
    BY <1>1, <1>4, <2>1, EnterKeepsBytes DEF EnterFlushAll
<1>5. CASE \E f \in Frames : FetchMiss(t, f)
  BY <1>1, <1>5, EnterKeepsBytes DEF FetchMiss, Enters
<1> QED
  BY <1>2, <1>3, <1>4, <1>5 DEF EnterFlush, FlushLogFails, FetchNoFreeFrames

LEMMA FetchHitKeepsBytes ==
    ASSUME Bookkeeping, Bookkeeping', BytesSound, NEW t \in Threads, FetchHit(t)
    PROVE  BytesSound'
<1>1. SameBytes /\ UNCHANGED <<is_dirty, diskVars>>
  BY DiskUnchanged DEF FetchHit, SameBytes, PinFor, GivePin
<1> QED
  BY <1>1, ReturnKeepsBytes DEF FetchHit

LEMMA AllocateKeepsBytes ==
    ASSUME Bookkeeping, BytesSound, NEW t \in Threads, Allocate(t)
    PROVE  BytesSound'
<1>1. PICK p \in PageIds : Disk!AllocatePage(p)
  BY DEF Allocate
<1>2. Disk!DiskTypeOK /\ FilesSound
  BY DEF Bookkeeping, TypeOK, BytesSound
<1>3. /\ FilesSound'
      /\ \A q \in PageIds : Disk!PageOnDisk(q)' = Disk!PageOnDisk(q)
      /\ \A q \in PageIds : Exists(q) => Exists(q)'
  BY <1>1, <1>2, AllocationKeeps
<1>4. SameBytes /\ UNCHANGED is_dirty
  BY <1>3 DEF SameBytes, Allocate, descVars, clientVars
<1>5. OnlyExistingChange'
  BY <1>3, <1>4 DEF OnlyExistingChange, BytesSound, SameBytes, Bookkeeping, TypeOK, Pin
<1>6. CleanFrameMatchesFile'
  BY <1>4, FlushedKept, CleanIsFlushed DEF BytesSound
<1>7. ~InPool(t) /\ ~InPool(t)'
  BY DEF Allocate, InPool, Bookkeeping, TypeOK
<1>8. \A u \in Threads \ {t} : pc'[u] = pc[u] /\ op'[u] = op[u] /\ frame'[u] = frame[u]
  BY DEF Allocate, Bookkeeping, TypeOK
<1>9. FlushKnows' /\ FlushedBehind'
  BY <1>4, <1>7, <1>8, FlushedKept, OthersInside DEF SameBytes, BytesSound
<1> QED
  BY <1>3, <1>5, <1>6, <1>9 DEF BytesSound

(* What a fetch that brings a page into frame f does to the bytes, whether *)
(* the read works or not.                                                  *)
LEMMA RemapKeepsBytes ==
    ASSUME Bookkeeping, Bookkeeping', BytesSound, NEW t \in Threads, Return(t),
           pc[t] = "load",
           NEW f \in Frames, f = frame[t], NEW p \in PageIds,
           page_id' = [page_id EXCEPT ![f] = p],
           \A g \in Frames \ {f} :
               frames'[g] = frames[g] /\ (g \in unread' <=> g \in unread),
           f \in unread' \/ frames'[f] = Disk!PageOnDisk(p),
           Disk!ReadPage(p) \/ UNCHANGED diskVars,
           \A k \in pins : k \in pins', \A k \in pins' : k.wrote => k \in pins,
           UNCHANGED is_dirty
    PROVE  BytesSound'
<1>1. /\ Disk!DiskTypeOK /\ page_id \in [Frames -> PageIds \union {NoPage}]
      /\ FilesSound /\ p \in PageIds /\ Disk!FileOf(p) \in Files
  BY PageIdsArePairs DEF Bookkeeping, TypeOK, BytesSound
<1>2. /\ FilesSound'
      /\ \A q \in PageIds : Disk!PageOnDisk(q)' = Disk!PageOnDisk(q)
      /\ \A q \in PageIds : Exists(q)' <=> Exists(q)
  <2>1. CASE Disk!ReadPage(p)
    BY <1>1, <2>1, OpenKeeps DEF Disk!ReadPage
  <2>2. CASE UNCHANGED diskVars
    BY <1>1, <2>2, DiskUnchanged
    DEF FilesSound, diskVars, Exists, Disk!CountOnOpen
  <2> QED
    BY <2>1, <2>2
<1>3. ~is_dirty[f]
  BY DEF BytesSound, FlushKnows, OnlyExistingChange, MustFlush
<1>4. Flushed(f)'
  BY <1>1, <1>2 DEF Flushed
<1>5. ASSUME NEW g \in Frames \ {f} PROVE Flushed(g) => Flushed(g)'
  BY <1>1, <1>2 DEF Flushed, PinsOn
<1>6. CleanFrameMatchesFile'
  <2>1. \A g \in Frames : Flushed(g) \/ is_dirty[g]
    BY CleanIsFlushed DEF BytesSound
  <2>2. \A g \in Frames : Flushed(g)' \/ is_dirty'[g]
    BY <1>4, <1>5, <2>1
  <2> QED
    BY <2>2, CleanIsFlushed
<1>7. OnlyExistingChange'
  BY <1>1, <1>2, <1>3 DEF OnlyExistingChange, BytesSound, Bookkeeping, TypeOK, Pin
<1>8. FlushKnows' /\ FlushedBehind'
  BY NobodyInside DEF Return
<1> QED
  BY <1>2, <1>6, <1>7, <1>8 DEF BytesSound

LEMMA FetchLoadKeepsBytes ==
    ASSUME Bookkeeping, Bookkeeping', BytesSound, NEW t \in Threads,
           FetchLoad(t) \/ FetchLoadFails(t)
    PROVE  BytesSound'
<1>1. pc[t] = "load" /\ InPool(t) /\ Return(t)
  BY DEF FetchLoad, FetchLoadFails, InPool
<1>2. PICK f \in Frames : f = frame[t]
  BY <1>1, InsideKnows
<1>3. PICK p \in PageIds : p = page[t]
  BY <1>1 DEF Bookkeeping, CallsWellFormed
<1>4. /\ page_id' = [page_id EXCEPT ![f] = p]
      /\ UNCHANGED is_dirty
  BY <1>2, <1>3 DEF FetchLoad, FetchLoadFails, Remap
<1>5. \A g \in Frames \ {f} :
          frames'[g] = frames[g] /\ (g \in unread' <=> g \in unread)
  BY <1>2 DEF FetchLoad, FetchLoadFails, Bookkeeping, TypeOK
<1>6. f \in unread' \/ frames'[f] = Disk!PageOnDisk(p)
  BY <1>2, <1>3 DEF FetchLoad, FetchLoadFails, Bookkeeping, TypeOK
<1>7. Disk!ReadPage(p) \/ UNCHANGED diskVars
  BY <1>3 DEF FetchLoad, FetchLoadFails
<1>8. \A k \in pins : k \in pins'
  BY DEF FetchLoad, FetchLoadFails, PinFor, GivePin, clientVars
<1>9. ASSUME NEW k \in pins', k.wrote PROVE k \in pins
  <2>1. CASE FetchLoad(t)
    BY <1>9, <2>1 DEF FetchLoad, PinFor, GivePin
  <2>2. CASE FetchLoadFails(t)
    BY <1>9, <2>2 DEF FetchLoadFails, clientVars
  <2> QED
    BY <2>1, <2>2
<1> QED
  BY <1>1, <1>2, <1>3, <1>4, <1>5, <1>6, <1>7, <1>8, <1>9, RemapKeepsBytes

LEMMA UnpinKeepsBytes ==
    ASSUME Bookkeeping, Bookkeeping', BytesSound, NEW t \in Threads, NEW k \in PinsOf(t),
           NEW dirty \in BOOLEAN, Unpin(t, k, dirty)
    PROVE  BytesSound'
<1>1. /\ k \in pins /\ k \in Pin
      /\ page_id[k.frame] = k.page /\ page_table[k.page] = k.frame
  BY DEF PinsOf, Bookkeeping, TypeOK, Pin, PinnedPageStays, MappingConsistent
<1>2. PICK f \in Frames : f = k.frame
  BY <1>1 DEF Pin
<1>3. /\ is_dirty' = [is_dirty EXCEPT ![f] = @ \/ dirty]
      /\ pins' = pins \ {k}
      /\ UNCHANGED <<page_id, unread, frames, diskVars, mutex>>
      /\ k.wrote => dirty
      /\ dirty => Exists(k.page)
      /\ mutex = NoThread
  BY <1>1, <1>2 DEF Unpin, MarkDirty, callVars
<1>4. is_dirty \in [Frames -> BOOLEAN] /\ pins \subseteq Pin
  BY DEF Bookkeeping, TypeOK
<1>5. \A q \in PageIds : Disk!PageOnDisk(q)' = Disk!PageOnDisk(q)
  BY <1>3, DiskUnchanged
<1>6. \A q : Exists(q)' <=> Exists(q)
  BY <1>3 DEF Exists, Disk!CountOnOpen, diskVars
<1>7. \A g \in Frames : is_dirty'[g] <=> is_dirty[g] \/ (g = f /\ dirty)
  BY <1>3, <1>4
<1>8. ASSUME NEW g \in Frames, Flushed(g) PROVE Flushed(g)' \/ is_dirty'[g]
  <2>1. page_id[g] \in PageIds \union {NoPage}
    BY DEF Bookkeeping, TypeOK
  <2>2. CASE \E l \in PinsOn(g) : l.wrote /\ l # k
    BY <1>3, <2>2 DEF Flushed, PinsOn
  <2>3. CASE k \in PinsOn(g) /\ k.wrote
    BY <1>2, <1>3, <1>7, <2>3 DEF PinsOn
  <2> QED
    BY <1>3, <1>5, <1>8, <2>1, <2>2, <2>3 DEF Flushed
<1>9. CleanFrameMatchesFile'
  <2>1. \A g \in Frames : Flushed(g) \/ is_dirty[g]
    BY CleanIsFlushed DEF BytesSound
  <2> QED
    BY <1>7, <1>8, <2>1, CleanIsFlushed
<1>10. OnlyExistingChange'
  <2>1. \A l \in pins' : l.wrote => Exists(l.page)'
    BY <1>3, <1>6 DEF OnlyExistingChange, BytesSound
  <2>2. \A g \in Frames : is_dirty[g] => page_id[g] # NoPage /\ Exists(page_id[g])
    BY DEF OnlyExistingChange, BytesSound
  <2>3. dirty => page_id[f] # NoPage /\ Exists(page_id[f])
    BY <1>1, <1>2, <1>3, PoolAssumption DEF Pin, PageIds, Disk!PageIds
  <2>4. \A g \in Frames : is_dirty'[g] => page_id[g] # NoPage /\ Exists(page_id[g])
    BY <1>7, <2>2, <2>3
  <2> QED
    BY <1>3, <1>6, <2>1, <2>4 DEF OnlyExistingChange
<1>11. FlushKnows' /\ FlushedBehind'
  BY <1>3, NobodyInside
<1>12. FilesSound'
  BY <1>3 DEF FilesSound, diskVars, BytesSound
<1> QED
  BY <1>9, <1>10, <1>11, <1>12 DEF BytesSound

LEMMA DropRelationKeepsBytes ==
    ASSUME Bookkeeping, Bookkeeping', BytesSound, NEW t \in Threads, NEW file \in Files,
           DropRelation(t, file)
    PROVE  BytesSound'
<1> DEFINE Of(f) == page_id[f] # NoPage /\ Disk!FileOf(page_id[f]) = file
<1>1. /\ page_id' = [f \in Frames |-> IF Of(f) THEN NoPage ELSE page_id[f]]
      /\ is_dirty' = [f \in Frames |-> IF Of(f) THEN FALSE ELSE is_dirty[f]]
      /\ unread' = { f \in unread : ~Of(f) }
      /\ UNCHANGED <<frames, diskVars, pins, mutex>> /\ mutex = NoThread
  BY DEF DropRelation, callVars
<1>2. /\ \A f \in Frames : Of(f) => page_id'[f] = NoPage /\ ~is_dirty'[f]
      /\ \A f \in Frames : ~Of(f) =>
            /\ page_id'[f] = page_id[f] /\ is_dirty'[f] = is_dirty[f]
            /\ f \in unread' <=> f \in unread
  BY <1>1
<1> HIDE DEF Of
<1>3. \A q \in PageIds : Disk!PageOnDisk(q)' = Disk!PageOnDisk(q)
  BY <1>1, DiskUnchanged
<1>4. \A q : Exists(q)' <=> Exists(q)
  BY <1>1 DEF Exists, Disk!CountOnOpen, diskVars
<1>5. ASSUME NEW f \in Frames, Flushed(f) \/ is_dirty[f] PROVE Flushed(f)' \/ is_dirty'[f]
  <2>1. page_id[f] \in PageIds \union {NoPage}
    BY DEF Bookkeeping, TypeOK
  <2>2. CASE Of(f)
    BY <1>2, <2>2 DEF Flushed
  <2>3. CASE ~Of(f)
    BY <1>1, <1>2, <1>3, <1>5, <2>1, <2>3 DEF Flushed, PinsOn
  <2> QED
    BY <2>2, <2>3
<1>6. CleanFrameMatchesFile'
  BY <1>5, CleanIsFlushed DEF BytesSound
<1>7. OnlyExistingChange'
  BY <1>1, <1>2, <1>4 DEF OnlyExistingChange, BytesSound
<1>8. FlushKnows' /\ FlushedBehind'
  BY <1>1, NobodyInside
<1>9. FilesSound'
  BY <1>1 DEF FilesSound, diskVars, BytesSound
<1> QED
  BY <1>6, <1>7, <1>8, <1>9 DEF BytesSound

LEMMA ModifyKeepsBytes ==
    ASSUME Bookkeeping, Bookkeeping', BytesSound, NEW t \in Threads, NEW k \in PinsOf(t),
           NEW stamp \in Stamps, Modify(t, k, stamp)
    PROVE  BytesSound'
<1>1. k \in pins /\ k \in Pin
  BY DEF PinsOf, Bookkeeping, TypeOK
<1>2. PICK f \in Frames : f = k.frame
  BY <1>1 DEF Pin
<1> DEFINE l == [k EXCEPT !.wrote = TRUE]
<1>3. l.frame = f /\ l.page = k.page /\ l.wrote
  BY <1>1, <1>2 DEF Pin
<1>4. /\ pins' = (pins \ {k}) \union {l}
      /\ Exists(k.page)
      /\ UNCHANGED <<page_id, is_dirty, unread, diskVars, callVars>>
      /\ \A g \in Frames \ {f} : frames'[g] = frames[g]
  BY <1>2 DEF Modify, descVars, Bookkeeping, TypeOK
<1> HIDE DEF l
<1>5. \A q \in PageIds : Disk!PageOnDisk(q)' = Disk!PageOnDisk(q)
  BY <1>4, DiskUnchanged
<1>6. \A q : Exists(q)' <=> Exists(q)
  BY <1>4 DEF Exists, Disk!CountOnOpen, diskVars
<1>7. Flushed(f)'
  BY <1>3, <1>4 DEF Flushed, PinsOn
<1>8. ASSUME NEW g \in Frames, Flushed(g) PROVE Flushed(g)'
  <2>1. page_id[g] \in PageIds \union {NoPage}
    BY DEF Bookkeeping, TypeOK
  <2>2. CASE g # f
    BY <1>2, <1>4, <1>5, <1>8, <2>1, <2>2 DEF Flushed, PinsOn
  <2> QED
    BY <1>7, <2>2
<1>9. CleanFrameMatchesFile'
  BY <1>4, <1>8, CleanIsFlushed DEF BytesSound
<1>10. OnlyExistingChange'
  BY <1>3, <1>4, <1>6 DEF OnlyExistingChange, BytesSound
<1>11. FlushKnows' /\ FlushedBehind'
  BY <1>4, <1>8 DEF FlushKnows, FlushedBehind, InPool, MustFlush, BytesSound, callVars
<1>12. FilesSound'
  BY <1>4 DEF FilesSound, diskVars, BytesSound
<1> QED
  BY <1>9, <1>10, <1>11, <1>12 DEF BytesSound

LEMMA CrashKeepsBytes ==
    ASSUME Bookkeeping, BytesSound, Crash
    PROVE  BytesSound'
<1>1. FilesSound'
  BY CloseKeeps DEF Crash, BytesSound, Bookkeeping, TypeOK
<1>2. OnlyExistingChange' /\ CleanFrameMatchesFile'
  BY DEF Crash, OnlyExistingChange, CleanFrameMatchesFile
<1>3. FlushKnows' /\ FlushedBehind'
  BY DEF Crash, FlushKnows, FlushedBehind, InPool
<1> QED
  BY <1>1, <1>2, <1>3 DEF BytesSound

-----------------------------------------------------------------------------
(* The invariant and what follows from it. *)

LEMMA NextKeepsBytes ==
    ASSUME Bookkeeping, Bookkeeping', BytesSound, [Next]_vars
    PROVE  BytesSound'
<1>1. ASSUME NEW t \in Threads, Flushing(t) PROVE BytesSound'
  BY <1>1, EnterCallKeepsBytes, FlushCleanKeepsBytes, FlushLogKeepsBytes,
     FlushWriteKeepsBytes, FlushWriteFailsKeepsBytes
  DEF Flushing
<1>2. ASSUME NEW t \in Threads, Fetching(t) PROVE BytesSound'
  BY <1>2, AllocateKeepsBytes, FetchHitKeepsBytes, EnterCallKeepsBytes, FetchLoadKeepsBytes
  DEF Fetching
<1>3. ASSUME NEW t \in Threads, Calling(t) PROVE BytesSound'
  BY <1>3, CallsKeepBytes
  DEF Calling, CallFetch, CallNew, CallFlush, CallFlushAll
<1>4. ASSUME NEW t \in Threads, Using(t) PROVE BytesSound'
  <2>1. ASSUME NEW k \in PinsOf(t), TakeGuard(t, k) \/ DropGuard(t, k) PROVE BytesSound'
    BY <2>1, GuardKeepsBytes DEF TakeGuard, DropGuard
  <2> QED
    BY <1>4, <2>1, ModifyKeepsBytes, UnpinKeepsBytes, DropRelationKeepsBytes DEF Using
<1>5. ASSUME UNCHANGED vars PROVE BytesSound'
  BY <1>5, GuardKeepsBytes DEF vars, clientVars
<1> QED
  BY <1>1, <1>2, <1>3, <1>4, <1>5, CrashKeepsBytes DEF Next, PoolStep

(***************************************************************************)
(* The inductive invariant of the bytes: together with the bookkeeping it  *)
(* is kept by every step of fetch_page, unpin_page, flush_page,            *)
(* flush_all_pages, new_page and drop_relation, by modifications and by    *)
(* crashes, whichever I/O fails.                                           *)
(***************************************************************************)
THEOREM BytesInvariant == Spec => []BytesSound
<1>1. Init => BytesSound
  BY InitBytes
<1>2. Bookkeeping /\ Bookkeeping' /\ BytesSound /\ [Next]_vars => BytesSound'
  BY NextKeepsBytes
<1> QED
  BY <1>1, <1>2, BookkeepingInvariant, PTL DEF Spec

(***************************************************************************)
(* No update is lost: a cached page that is not flagged as dirty and that  *)
(* nobody is about to unpin as dirty is the page in the file               *)
(* (buffer_pool.rs, unpin_page and flush_frame_to_disk).                   *)
(***************************************************************************)
THEOREM CleanFramesMatchFiles == Spec => []CleanFrameMatchesFile
<1>1. BytesSound => CleanFrameMatchesFile
  BY DEF BytesSound
<1> QED
  BY <1>1, BytesInvariant, PTL

(***************************************************************************)
(* new_page never returns a page that holds data (allocate_page of         *)
(* disk_manager.rs; its caller formats the page as a new one).             *)
(***************************************************************************)
THEOREM AllocatedPagesAreBlank == Spec => AllocatedPageIsBlank
<1>1. Bookkeeping /\ BytesSound =>
         [\A p \in PageIds : Disk!AllocatePage(p) => stored[p] = Blank]_(Disk!diskVars)
  <2> SUFFICES ASSUME Bookkeeping, BytesSound, NEW p \in PageIds, Disk!AllocatePage(p)
               PROVE  stored[p] = Blank
    OBVIOUS
  <2>1. /\ Disk!FileOf(p) \in Files
        /\ file_len \in [Files -> 0 .. MaxPages]
        /\ total_pages \in [Files -> Disk!Closed .. MaxPages]
    BY PageIdsArePairs DEF Bookkeeping, TypeOK, Disk!DiskTypeOK
  <2>2. Disk!NumOf(p) >= file_len[Disk!FileOf(p)]
    BY <2>1, PoolAssumption
    DEF Disk!AllocatePage, Disk!CountOnOpen, BytesSound, FilesSound, Disk!Closed
  <2> QED
    BY <2>2 DEF BytesSound, FilesSound
<1> QED
  BY <1>1, BookkeepingInvariant, BytesInvariant, PTL
  DEF AllocatedPageIsBlank, Disk!AllocatedPageIsBlank, PageIds

LEMMA LastFrameFlushed ==
    ASSUME Bookkeeping, BytesSound, NEW t \in Threads, op[t] = "flush_all", pc'[t] = "idle",
           FlushClean(t) \/ FlushWrite(t)
    PROVE  \A f \in Frames : Flushed(f)'
<1>1. InPool(t) /\ AfterFlush(t)
  BY DEF FlushClean, FlushWrite, InPool
<1>2. PICK f \in Frames : f = frame[t]
  BY <1>1, InsideKnows
<1>3. f = pool_size - 1
  BY <1>1, <1>2 DEF AfterFlush, Continue, Bookkeeping, TypeOK
<1>4. \A g \in Frames : g = f \/ Flushed(g)
  <2>1. \A g \in Frames : g = f \/ g < f
    BY <1>3, PoolAssumption DEF Frames
  <2> QED
    BY <1>1, <1>2, <2>1 DEF BytesSound, FlushedBehind
<1>5. CASE FlushClean(t)
  <2>1. SameBytes
    BY <1>5, DiskUnchanged DEF FlushClean, SameBytes, descVars, clientVars
  <2>2. Flushed(f)
    BY <1>2, <1>5, CleanIsFlushed DEF BytesSound, FlushClean, MustFlush, Flushed
  <2> QED
    BY <1>4, <2>1, <2>2, FlushedKept
<1>6. CASE FlushWrite(t)
  <2>1. PICK p \in PageIds : p = page_id[f]
    BY <1>1, <1>2, <1>6, InsideKnows DEF FlushWrite
  <2>2. /\ Disk!WritePage(p, frames[f])
        /\ pc[t] = "write"
        /\ UNCHANGED <<page_id, frames, unread, pins>>
        /\ is_dirty' = [is_dirty EXCEPT ![f] = FALSE]
    BY <1>2, <1>6, <2>1 DEF FlushWrite, clientVars
  <2>3. is_dirty \in [Frames -> BOOLEAN]
    BY DEF Bookkeeping, TypeOK
  <2>4. /\ \A g \in Frames : Flushed(g) => Flushed(g)'
        /\ Flushed(f)'
    BY <1>2, <2>1, <2>2, <2>3, WriteKeepsBytes
  <2> QED
    BY <1>4, <2>4
<1> QED
  BY <1>5, <1>6

(***************************************************************************)
(* A flush_all_pages that ends without an error has written every page     *)
(* that is not about to be unpinned as dirty, so that the checkpoint may   *)
(* truncate the log (main.rs, checkpointer thread).                        *)
(***************************************************************************)
THEOREM FlushAllCompletes == Spec => FlushAllIsComplete
<1> DEFINE Complete ==
       \A t \in Threads :
          (/\ op[t] = "flush_all" /\ pc'[t] = "idle"
           /\ FlushClean(t) \/ FlushWrite(t))
              => \A f \in Frames :
                    page_id[f] # NoPage /\ f \notin unread =>
                       \/ frames'[f] = Disk!PageOnDisk(page_id[f])'
                       \/ \E k \in PinsOn(f) : k.wrote
<1>1. Bookkeeping /\ BytesSound => [Complete]_vars
  <2> SUFFICES ASSUME Bookkeeping, BytesSound, NEW t \in Threads,
                      op[t] = "flush_all", pc'[t] = "idle",
                      FlushClean(t) \/ FlushWrite(t),
                      NEW f \in Frames, page_id[f] # NoPage, f \notin unread
               PROVE  \/ frames'[f] = Disk!PageOnDisk(page_id[f])'
                      \/ \E k \in PinsOn(f) : k.wrote
    OBVIOUS
  <2>1. Flushed(f)'
    BY LastFrameFlushed
  <2>2. UNCHANGED <<page_id, unread, pins>>
    BY DEF FlushClean, FlushWrite, descVars, clientVars
  <2> QED
    BY <2>1, <2>2 DEF Flushed, PinsOn
<1> QED
  BY <1>1, BookkeepingInvariant, BytesInvariant, PTL DEF FlushAllIsComplete

-----------------------------------------------------------------------------
(* The pool implements the store of pages. *)

(* Nothing a client of the store can see changes. *)
SameStore ==
    /\ \A p \in PageIds : Latest(p)' = Latest(p)
    /\ \A p \in PageIds : Disk!PageOnDisk(p)' = Disk!PageOnDisk(p)
    /\ UNCHANGED <<writes, losses>>

LEMMA SameStoreStutters ==
    ASSUME SameStore
    PROVE  UNCHANGED Store!storeVars
BY DEF SameStore, Store!storeVars

LEMMA InitStore == Init => Store!Init
<1> SUFFICES ASSUME Init PROVE Store!Init
  OBVIOUS
<1>1. \A p \in PageIds : Latest(p) = Blank /\ Disk!PageOnDisk(p) = Blank
  BY DEF Init, Latest, Disk!PageOnDisk, Disk!DiskInit, PageIds
<1> QED
  BY <1>1 DEF Init, Store!Init

LEMMA PoolAloneStutters ==
    ASSUME UNCHANGED <<page_table, frames, writes, losses>>,
           \A p \in PageIds : Disk!PageOnDisk(p)' = Disk!PageOnDisk(p)
    PROVE  SameStore
BY DEF SameStore, Latest

LEMMA WritePersists ==
    ASSUME Bookkeeping, BytesSound, NEW t \in Threads, pc[t] = "write",
           Disk!WritePage(page_id[frame[t]], frames[frame[t]]),
           UNCHANGED <<page_table, page_id, frames, unread, pins, writes, losses>>,
           is_dirty' \in [Frames -> BOOLEAN],
           \A g \in Frames : is_dirty'[g] => is_dirty[g],
           \A g \in Frames \ {frame[t]} : is_dirty'[g] = is_dirty[g]
    PROVE  Store!Next
<1>1. PICK f \in Frames : f = frame[t]
  BY InsideKnows DEF InPool
<1>2. PICK p \in PageIds : p = page_id[f]
  BY <1>1, InsideKnows DEF InPool
<1>3. /\ Disk!PageOnDisk(p)' = frames[f]
      /\ \A q \in PageIds \ {p} : Disk!PageOnDisk(q)' = Disk!PageOnDisk(q)
  BY <1>1, <1>2, WriteKeepsBytes
<1>4. page_table \in [PageIds -> Frames \union {NoFrame}] /\ page_table[p] = f /\ f # NoFrame
  BY <1>2 DEF Bookkeeping, TypeOK, MappingConsistent, Frames, NoFrame
<1>5. Latest(p) = frames[f]
  BY <1>4 DEF Latest
<1>6. \A q \in PageIds : Latest(q)' = Latest(q)
  BY <1>3, <1>4 DEF Latest
<1>7. Store!Persist(p)
  BY <1>3, <1>5, <1>6 DEF Store!Persist
<1> QED
  BY <1>7 DEF Store!Next

LEMMA ModifyUpdates ==
    ASSUME Bookkeeping, BytesSound, NEW t \in Threads, NEW k \in PinsOf(t),
           NEW stamp \in Stamps, Modify(t, k, stamp), Bookkeeping'
    PROVE  Store!Next
<1>1. k \in pins /\ k \in Pin
  BY DEF PinsOf, Bookkeeping, TypeOK
<1>2. PICK f \in Frames : f = k.frame
  BY <1>1 DEF Pin
<1>3. PICK p \in PageIds : p = k.page
  BY <1>1 DEF Pin
<1>4. page_id[f] = p /\ page_table[p] = f /\ f # NoFrame
  BY <1>1, <1>2, <1>3 DEF Bookkeeping, PinnedPageStays, MappingConsistent, Frames, NoFrame
<1>5. \A q \in PageIds \ {p} : page_table[q] # f
  BY <1>4 DEF Bookkeeping, MappingConsistent
<1>6. /\ \A g \in Frames \ {f} : frames'[g] = frames[g]
      /\ frames'[f] \in Content
      /\ page_table \in [PageIds -> Frames \union {NoFrame}]
      /\ UNCHANGED <<page_table, diskVars, losses>> /\ writes' = writes + 1
  BY <1>2 DEF Modify, descVars, Bookkeeping, TypeOK
<1>7. \A q \in PageIds : Disk!PageOnDisk(q)' = Disk!PageOnDisk(q)
  BY <1>6, DiskUnchanged
<1>8. Latest(p)' = frames'[f]
  BY <1>4, <1>6 DEF Latest
<1>9. \A q \in PageIds \ {p} : Latest(q)' = Latest(q)
  <2> SUFFICES ASSUME NEW q \in PageIds \ {p} PROVE Latest(q)' = Latest(q)
    OBVIOUS
  <2>1. page_table[q] = NoFrame \/ page_table[q] \in Frames \ {f}
    BY <1>5, <1>6
  <2> QED
    BY <1>6, <1>7, <2>1 DEF Latest
<1>10. Store!Update(p)
  BY <1>6, <1>7, <1>8, <1>9 DEF Store!Update
<1> QED
  BY <1>10 DEF Store!Next

LEMMA DropLoses ==
    ASSUME Bookkeeping, NEW t \in Threads, NEW file \in Files, DropRelation(t, file)
    PROVE  Store!Next
<1> DEFINE lost == { p \in PageIds : Disk!FileOf(p) = file }
<1>1. /\ page_table' = [p \in PageIds |->
                          IF Disk!FileOf(p) = file THEN NoFrame ELSE page_table[p]]
      /\ losses' = losses + 1
      /\ UNCHANGED <<frames, diskVars, writes>>
  BY DEF DropRelation
<1>2. \A q \in PageIds : Disk!PageOnDisk(q)' = Disk!PageOnDisk(q)
  BY <1>1, DiskUnchanged
<1>3. \A q \in PageIds : Latest(q)' = IF q \in lost THEN Disk!PageOnDisk(q) ELSE Latest(q)
  BY <1>1, <1>2 DEF Latest, NoFrame
<1>4. lost \in SUBSET PageIds
  OBVIOUS
<1> HIDE DEF lost
<1>5. Store!Lose
  BY <1>1, <1>2, <1>3, <1>4 DEF Store!Lose
<1> QED
  BY <1>5 DEF Store!Next

LEMMA CrashLoses ==
    ASSUME Bookkeeping, BytesSound, Crash
    PROVE  Store!Next
<1>1. /\ page_table' = [p \in PageIds |-> NoFrame]
      /\ losses' = losses + 1
      /\ UNCHANGED writes
  BY DEF Crash
<1>2. \A q \in PageIds : Disk!PageOnDisk(q)' = Disk!PageOnDisk(q)
  BY CloseKeeps DEF Crash, BytesSound, Bookkeeping, TypeOK
<1>3. \A q \in PageIds : Latest(q)' = Disk!PageOnDisk(q)
  BY <1>1, <1>2 DEF Latest
<1>4. Store!Lose
  BY <1>1, <1>2, <1>3 DEF Store!Lose
<1> QED
  BY <1>4 DEF Store!Next

(* The page that leaves frame f is in its file, the one that comes was. *)
LEMMA LoadStutters ==
    ASSUME Bookkeeping, BytesSound, unread = {}, NEW t \in Threads, FetchLoad(t)
    PROVE  SameStore
<1>1. pc[t] = "load" /\ op[t] = "fetch" /\ InPool(t)
  BY DEF FetchLoad, InPool, Bookkeeping, CallsWellFormed
<1>2. PICK f \in Frames : f = frame[t]
  BY <1>1, InsideKnows
<1>3. PICK p \in PageIds : p = page[t]
  BY <1>1 DEF Bookkeeping, CallsWellFormed
<1>4. /\ page_table' = [q \in PageIds |->
                          IF q = p THEN f ELSE IF q = page_id[f] THEN NoFrame
                          ELSE page_table[q]]
      /\ frames' = [frames EXCEPT ![f] = Disk!PageOnDisk(p)]
      /\ Disk!ReadPage(p)
      /\ UNCHANGED <<writes, losses>>
  BY <1>2, <1>3 DEF FetchLoad, Remap
<1>5. /\ page_table \in [PageIds -> Frames \union {NoFrame}]
      /\ page_id \in [Frames -> PageIds \union {NoPage}]
      /\ frames \in [Frames -> Content]
      /\ page_table[p] = NoFrame /\ pin_count[f] = 0 /\ f # NoFrame
  BY <1>1, <1>2, <1>3 DEF Bookkeeping, TypeOK, VictimUnpinned, Frames, NoFrame
<1>6. \A q \in PageIds : Disk!PageOnDisk(q)' = Disk!PageOnDisk(q)
  <2>1. Disk!DiskTypeOK /\ FilesSound /\ Disk!FileOf(p) \in Files
    BY PageIdsArePairs DEF Bookkeeping, TypeOK, BytesSound
  <2> QED
    BY <1>4, <2>1, OpenKeeps DEF Disk!ReadPage
<1>7. PinsOn(f) = {}
  BY <1>5, NoPinsOnUnpinned DEF Bookkeeping, TypeOK
<1>8. page_id[f] = NoPage \/ frames[f] = Disk!PageOnDisk(page_id[f])
  <2>1. Flushed(f)
    BY <1>1, <1>2, CleanIsFlushed DEF BytesSound, FlushKnows, MustFlush, Flushed
  <2> QED
    BY <1>7, <2>1 DEF Flushed
<1>9. \A q \in PageIds : page_table[q] = f <=> page_id[f] = q
  BY DEF Bookkeeping, MappingConsistent
<1>10. Latest(p)' = Latest(p)
  BY <1>4, <1>5, <1>6 DEF Latest
<1>11. ASSUME NEW q \in PageIds \ {p}, q = page_id[f] PROVE Latest(q)' = Latest(q)
  <2>1. q # NoPage
    BY PoolAssumption DEF PageIds, Disk!PageIds
  <2>2. Latest(q) = frames[f] /\ frames[f] = Disk!PageOnDisk(q)
    BY <1>5, <1>8, <1>9, <1>11, <2>1 DEF Latest
  <2>3. Latest(q)' = Disk!PageOnDisk(q)'
    BY <1>4, <1>11 DEF Latest
  <2> QED
    BY <1>6, <2>2, <2>3
<1>12. ASSUME NEW q \in PageIds \ {p}, q # page_id[f] PROVE Latest(q)' = Latest(q)
  BY <1>4, <1>5, <1>6, <1>9, <1>12 DEF Latest
<1> QED
  BY <1>4, <1>6, <1>10, <1>11, <1>12 DEF SameStore

LEMMA NextStore ==
    ASSUME "read" \notin Faults, Bookkeeping, Bookkeeping', BytesSound, unread = {},
           [Next]_vars
    PROVE  [Store!Next]_(Store!storeVars)
<1>1. ASSUME NEW t \in Threads, Flushing(t) PROVE [Store!Next]_(Store!storeVars)
  <2>1. CASE FlushWrite(t)
    <3>1. is_dirty' = [is_dirty EXCEPT ![frame[t]] = FALSE] /\ is_dirty \in [Frames -> BOOLEAN]
      BY <2>1 DEF FlushWrite, Bookkeeping, TypeOK
    <3> QED
      BY <2>1, <3>1, WritePersists DEF FlushWrite, clientVars
  <2>2. CASE FlushWriteFails(t)
    <3>1. is_dirty' = is_dirty /\ is_dirty \in [Frames -> BOOLEAN]
      BY <2>2 DEF FlushWriteFails, descVars, Bookkeeping, TypeOK
    <3>2. CASE UNCHANGED diskVars
      BY <2>2, <3>2, DiskUnchanged, PoolAloneStutters, SameStoreStutters
      DEF FlushWriteFails, descVars, clientVars
    <3> QED
      BY <2>2, <3>1, <3>2, WritePersists DEF FlushWriteFails, descVars, clientVars
  <2>3. CASE \/ EnterFlush(t) \/ EnterFlushAll(t)
             \/ FlushClean(t) \/ FlushLog(t) \/ FlushLogFails(t)
    BY <2>3, DiskUnchanged, PoolAloneStutters, SameStoreStutters
    DEF EnterFlush, EnterFlushAll, FlushClean, FlushLog, FlushLogFails, descVars, clientVars
  <2> QED
    BY <1>1, <2>1, <2>2, <2>3 DEF Flushing
<1>2. ASSUME NEW t \in Threads, Fetching(t) PROVE UNCHANGED Store!storeVars
  <2>1. CASE Allocate(t)
    BY <2>1, AllocationKeeps, PoolAloneStutters, SameStoreStutters
    DEF Allocate, descVars, clientVars, Bookkeeping, TypeOK, BytesSound
  <2>2. CASE FetchLoad(t)
    BY <2>2, LoadStutters, SameStoreStutters
  <2>3. CASE FetchHit(t) \/ FetchNoFreeFrames(t) \/ \E f \in Frames : FetchMiss(t, f)
    BY <2>3, DiskUnchanged, PoolAloneStutters, SameStoreStutters
    DEF FetchHit, FetchNoFreeFrames, FetchMiss, descVars, clientVars
  <2> QED
    BY <1>2, <2>1, <2>2, <2>3 DEF Fetching, FetchLoadFails
<1>3. ASSUME NEW t \in Threads, Calling(t) PROVE UNCHANGED Store!storeVars
  BY <1>3, DiskUnchanged, PoolAloneStutters, SameStoreStutters
  DEF Calling, CallFetch, CallNew, CallFlush, CallFlushAll, Calls, descVars, clientVars
<1>4. ASSUME NEW t \in Threads, Using(t) PROVE [Store!Next]_(Store!storeVars)
  <2>1. ASSUME NEW k \in PinsOf(t), NEW dirty \in BOOLEAN,
               TakeGuard(t, k) \/ DropGuard(t, k) \/ Unpin(t, k, dirty)
        PROVE  UNCHANGED Store!storeVars
    BY <2>1, DiskUnchanged, PoolAloneStutters, SameStoreStutters
    DEF TakeGuard, DropGuard, Unpin, descVars
  <2> QED
    BY <1>4, <2>1, ModifyUpdates, DropLoses DEF Using
<1>5. ASSUME UNCHANGED vars PROVE UNCHANGED Store!storeVars
  BY <1>5, DiskUnchanged, PoolAloneStutters, SameStoreStutters DEF vars, descVars, clientVars
<1> QED
  BY <1>1, <1>2, <1>3, <1>4, <1>5, CrashLoses DEF Next, PoolStep

(* Without failing reads every frame has the bytes of its page. *)
LEMMA NothingUnread ==
    ASSUME "read" \notin Faults
    PROVE  Spec => [](unread = {})
<1>1. Init => unread = {}
  BY DEF Init
<1>2. unread = {} /\ [Next]_vars => (unread = {})'
  <2> SUFFICES ASSUME unread = {}, [Next]_vars PROVE unread' = {}
    OBVIOUS
  <2>1. ASSUME NEW t \in Threads, PoolStep(t) PROVE unread' = {}
    BY <2>1
    DEF PoolStep, Flushing, Fetching, EnterFlush, EnterFlushAll, FlushClean, FlushLog,
        FlushLogFails, FlushWrite, FlushWriteFails, Allocate, FetchHit, FetchMiss,
        FetchNoFreeFrames, FetchLoad, FetchLoadFails, descVars
  <2>2. ASSUME NEW t \in Threads, Calling(t) PROVE unread' = {}
    BY <2>2 DEF Calling, CallFetch, CallNew, CallFlush, CallFlushAll, Calls, descVars
  <2>3. ASSUME NEW t \in Threads, Using(t) PROVE unread' = {}
    BY <2>3 DEF Using, TakeGuard, DropGuard, Modify, Unpin, DropRelation, descVars
  <2> QED
    BY <2>1, <2>2, <2>3 DEF Next, Crash, vars, descVars
<1> QED
  BY <1>1, <1>2, PTL DEF Spec

(***************************************************************************)
(* The pool is a plain store of pages: a page changes only when a caller   *)
(* modifies it, never because another thread evicts, flushes or reloads    *)
(* it, and only crashes and drop_relation go back to the files.  This is   *)
(* for a disk whose reads do not fail: after one that does, fetch_page     *)
(* leaves the old bytes of the frame under the new page.                   *)
(***************************************************************************)
THEOREM PoolIsAStore ==
    ASSUME "read" \notin Faults
    PROVE  Spec => ImplementsStore
<1>1. Init => Store!Init
  BY InitStore
<1>2. Bookkeeping /\ Bookkeeping' /\ BytesSound /\ unread = {} /\ [Next]_vars
        => [Store!Next]_(Store!storeVars)
  BY NextStore
<1> QED
  BY <1>1, <1>2, BookkeepingInvariant, BytesInvariant, NothingUnread, PTL
  DEF Spec, ImplementsStore, Store!Spec

-----------------------------------------------------------------------------
(* The record of a change reaches its file before the page does. *)

(* History: the modifications that give the log no hold on their page,     *)
(* because their caller does not stamp the page with the LSN of the record *)
(* (dml.rs, INSERT and the nodes of the index), and those whose record was *)
(* taken from the buffer by a force that failed before it was written.     *)
VARIABLE unlogged

Unstamped ==
    IF \E t \in Threads : \E k \in PinsOf(t) : Modify(t, k, FALSE) /\ ~Modify(t, k, TRUE)
    THEN {writes'} ELSE {}

Dropped ==
    IF \E t \in Threads : FlushLogFails(t)
    THEN { r.val : r \in log_buffer \ log_buffer' } \ log_durable' ELSE {}

HistoryStep == unlogged' = unlogged \union Unstamped \union Dropped

(* It looks at the steps of the pool and its callers and restricts none.   *)
HistorySpec ==
    /\ Init /\ unlogged = {}
    /\ [][Next /\ HistoryStep]_<<vars, unlogged>>

Known == {0} \union log_durable \union unlogged

(* The record of modification val is in the log file, or will be when the  *)
(* log is forced up to lsn, if it is to be expected there at all.          *)
Logged(val, lsn) == val \in Known \/ \E r \in log_buffer : r.val = val /\ r.lsn <= lsn

LogCovers ==
    /\ \A p \in PageIds : stored[p].val \in Known
    /\ \A f \in Frames : Logged(frames[f].val, frames[f].lsn)
    /\ \A t \in Threads :
          pc[t] = "write" => guard[frame[t]] = NoThread /\ frames[frame[t]].val \in Known

Grows == unlogged \subseteq unlogged'

LEMMA HistoryGrows == HistoryStep => Grows
BY DEF HistoryStep, Grows

(* Nothing that the invariant of the log looks at changes. *)
SameLog ==
    /\ \A p \in PageIds : stored'[p] = stored[p]
    /\ \A f \in Frames : frames'[f] = frames[f]
    /\ UNCHANGED <<log_durable, log_buffer>>

LEMMA SameLogKeeps ==
    ASSUME LogCovers, Grows, SameLog,
           \A t \in Threads :
               pc'[t] = "write" => pc[t] = "write" /\ frame'[t] = frame[t],
           \A t \in Threads : pc'[t] = "write" =>
               /\ frame[t] \in Frames
               /\ guard[frame[t]] = NoThread => guard'[frame[t]] = NoThread
    PROVE  LogCovers'
<1>0. Known \subseteq Known'
  BY DEF Grows, SameLog, Known
<1>1. \A p \in PageIds : stored'[p].val \in Known'
  BY <1>0 DEF LogCovers, SameLog
<1>2. \A f \in Frames : Logged(frames[f].val, frames[f].lsn)'
  BY <1>0 DEF LogCovers, SameLog, Logged
<1>3. ASSUME NEW t \in Threads, pc'[t] = "write"
      PROVE  guard'[frame'[t]] = NoThread /\ frames'[frame'[t]].val \in Known'
  BY <1>0, <1>3 DEF LogCovers, SameLog
<1> QED
  BY <1>1, <1>2, <1>3 DEF LogCovers

LEMMA InitLog == Init => LogCovers
BY DEF Init, LogCovers, Known, Logged, Disk!DiskInit, PageIds, Blank

LEMMA NoneWriting ==
    ASSUME Bookkeeping', mutex' = NoThread
    PROVE  \A t \in Threads : pc'[t] # "write"
BY PoolAssumption DEF Bookkeeping, MutexHeld, InPool

(* The call returns, or goes on with the flush or the load of a frame. *)
GoesOn(t) ==
    \/ Return(t)
    \/ \E f : Continue(t, "flush", f) \/ Continue(t, "load", f)

LEMMA GoesOnOutsideWrite ==
    ASSUME Bookkeeping, Bookkeeping', NEW t \in Threads, GoesOn(t)
    PROVE  \A u \in Threads : pc'[u] # "write"
<1>1. CASE Return(t)
  BY <1>1, NoneWriting DEF Return
<1>2. ASSUME NEW f, Continue(t, "flush", f) \/ Continue(t, "load", f)
      PROVE  \A u \in Threads : pc'[u] # "write"
  BY <1>2, OnlyInside DEF InPool
<1> QED
  BY <1>1, <1>2 DEF GoesOn

(* A call that returns or goes on, without a change. *)
LEMMA PoolKeepsLog ==
    ASSUME Bookkeeping, Bookkeeping', LogCovers, Grows, SameLog, NEW t \in Threads, GoesOn(t)
    PROVE  LogCovers'
BY GoesOnOutsideWrite, SameLogKeeps

LEMMA CallersKeepLog ==
    ASSUME Bookkeeping, LogCovers, Grows, SameLog, NEW t \in Threads,
           \/ UNCHANGED callVars
           \/ /\ UNCHANGED frame
              /\ pc' = [pc EXCEPT ![t] = "call"]
           \/ \E operation, p :
                 \/ Calls(t, "call", operation, p, NoFrame)
                 \/ Calls(t, "allocate", operation, p, NoFrame),
           \A f \in Frames :
               guard[f] = NoThread /\ (\E u \in Threads : pc[u] = "write" /\ frame[u] = f)
                   => guard'[f] = NoThread
    PROVE  LogCovers'
<1>1. \A u \in Threads : pc[u] = "write" => frame[u] \in Frames
  BY InsideKnows DEF InPool
<1>2. \A u \in Threads :
         pc'[u] = "write" => pc[u] = "write" /\ frame'[u] = frame[u]
  BY DEF Calls, callVars, Bookkeeping, TypeOK
<1> QED
  BY <1>1, <1>2, SameLogKeeps

LEMMA FlushLogKeepsLog ==
    ASSUME Bookkeeping, Bookkeeping', LogCovers, Grows, NEW t \in Threads, FlushLog(t)
    PROVE  LogCovers'
<1>1. pc[t] = "flush" /\ InPool(t) /\ Continue(t, "write", frame[t])
  BY DEF FlushLog, InPool
<1>2. PICK f \in Frames : f = frame[t]
  BY <1>1, InsideKnows
<1>3. /\ guard[f] = NoThread
      /\ ForceLog(frames[f].lsn)
      /\ UNCHANGED <<frames, stored, guard>>
  BY <1>2 DEF FlushLog, diskVars, clientVars
<1>4. /\ Known \subseteq Known'
      /\ \A r \in RecordsUpTo(frames[f].lsn) : r.val \in Known'
      /\ \A r \in log_buffer : r \in log_buffer' \/ r \in RecordsUpTo(frames[f].lsn)
  BY <1>3 DEF Known, ForceLog, Grows
<1>5. \A p \in PageIds : stored'[p].val \in Known'
  BY <1>3, <1>4 DEF LogCovers
<1>6. \A g \in Frames : Logged(frames[g].val, frames[g].lsn)'
  BY <1>3, <1>4 DEF LogCovers, Logged
<1>7. frames[f].val \in Known'
  BY <1>2, <1>4 DEF LogCovers, Logged, RecordsUpTo
<1>8. \A u \in Threads : pc'[u] = "write" => u = t
  BY <1>1, OnlyInside DEF InPool
<1>9. frame'[t] = f
  BY <1>1, <1>2, OnlyInside
<1> QED
  BY <1>3, <1>5, <1>6, <1>7, <1>8, <1>9 DEF LogCovers

(* The page that is written has its record in the log. *)
LEMMA WriteKeepsLog ==
    ASSUME Bookkeeping, Bookkeeping', LogCovers, Grows, NEW t \in Threads, pc[t] = "write",
           Disk!WritePage(page_id[frame[t]], frames[frame[t]]),
           UNCHANGED <<frames, log_durable, log_buffer>>,
           \A u \in Threads : pc'[u] # "write"
    PROVE  LogCovers'
<1>1. PICK f \in Frames : f = frame[t]
  BY InsideKnows DEF InPool
<1>2. PICK p \in PageIds : p = page_id[f]
  BY <1>1, InsideKnows DEF InPool
<1>3. stored' = [stored EXCEPT ![p] = frames[f]] /\ stored \in [PageIds -> Content]
  BY <1>1, <1>2 DEF Disk!WritePage, Bookkeeping, TypeOK, Disk!DiskTypeOK, PageIds
<1>4. frames[f].val \in Known /\ Known \subseteq Known'
  BY <1>1 DEF LogCovers, Known, Grows
<1>5. \A q \in PageIds : stored'[q].val \in Known'
  BY <1>3, <1>4 DEF LogCovers
<1>6. \A g \in Frames : Logged(frames[g].val, frames[g].lsn)'
  BY <1>4 DEF LogCovers, Logged
<1> QED
  BY <1>5, <1>6 DEF LogCovers

LEMMA FlushWriteKeepsLog ==
    ASSUME Bookkeeping, Bookkeeping', LogCovers, Grows, NEW t \in Threads, FlushWrite(t)
    PROVE  LogCovers'
<1>1. GoesOn(t)
  BY DEF FlushWrite, AfterFlush, GoesOn
<1> QED
  BY <1>1, GoesOnOutsideWrite, WriteKeepsLog DEF FlushWrite, logVars

LEMMA FlushWriteFailsKeepsLog ==
    ASSUME Bookkeeping, Bookkeeping', LogCovers, Grows, NEW t \in Threads, FlushWriteFails(t)
    PROVE  LogCovers'
<1>1. CASE UNCHANGED diskVars
  BY <1>1, PoolKeepsLog DEF FlushWriteFails, SameLog, diskVars, logVars, GoesOn
<1>2. CASE Disk!WritePage(page_id[frame[t]], frames[frame[t]])
  BY <1>2, NoneWriting, WriteKeepsLog DEF FlushWriteFails, Return, logVars
<1> QED
  BY <1>1, <1>2 DEF FlushWriteFails

(* A page that is read brings the modification its file has. *)
LEMMA FetchLoadKeepsLog ==
    ASSUME Bookkeeping, Bookkeeping', LogCovers, Grows, NEW t \in Threads, FetchLoad(t)
    PROVE  LogCovers'
<1>1. pc[t] = "load"
  BY DEF FetchLoad
<1>2. PICK f \in Frames : f = frame[t]
  BY <1>1, InsideKnows DEF InPool
<1>3. PICK p \in PageIds : p = page[t]
  BY <1>1 DEF Bookkeeping, CallsWellFormed
<1>4. /\ frames' = [frames EXCEPT ![f] = Disk!PageOnDisk(p)]
      /\ frames \in [Frames -> Content]
      /\ UNCHANGED <<stored, log_durable, log_buffer>>
      /\ Return(t)
  BY <1>2, <1>3 DEF FetchLoad, Disk!ReadPage, logVars, Bookkeeping, TypeOK
<1>5. Disk!PageOnDisk(p).val \in Known /\ Known \subseteq Known'
  BY <1>4 DEF Disk!PageOnDisk, Blank, LogCovers, Known, Grows
<1>6. \A q \in PageIds : stored'[q].val \in Known'
  BY <1>4, <1>5 DEF LogCovers
<1>7. ASSUME NEW g \in Frames PROVE Logged(frames[g].val, frames[g].lsn)'
  BY <1>4, <1>5 DEF LogCovers, Logged
<1> QED
  BY <1>4, <1>6, <1>7, NoneWriting DEF LogCovers, Return

(* The force fails: what it took from the buffer is written or dropped. *)
LEMMA FlushLogFailsKeepsLog ==
    ASSUME Bookkeeping, Bookkeeping', LogCovers, NEW t \in Threads, FlushLogFails(t),
           HistoryStep
    PROVE  LogCovers'
<1>1. /\ UNCHANGED <<frames, stored>>
      /\ log_durable \subseteq log_durable'
      /\ Return(t)
  BY DEF FlushLogFails, ForceLog, diskVars
<1>2. unlogged \subseteq unlogged' /\ Dropped \subseteq unlogged'
  BY DEF HistoryStep
<1>3. /\ Known \subseteq Known'
      /\ \A r \in log_buffer : r \in log_buffer' \/ r.val \in Known'
  <2>1. \A r \in log_buffer : r \in log_buffer' \/ r.val \in log_durable' \union Dropped
    BY DEF Dropped
  <2> QED BY <1>1, <1>2, <2>1 DEF Known
<1>4. \A p \in PageIds : stored'[p].val \in Known'
  BY <1>1, <1>3 DEF LogCovers
<1>5. \A g \in Frames : Logged(frames[g].val, frames[g].lsn)'
  BY <1>1, <1>3 DEF LogCovers, Logged
<1> QED
  BY <1>1, <1>4, <1>5, NoneWriting DEF LogCovers, Return

(* The page gets the LSN of the record, or its modification is known not   *)
(* to have it.                                                             *)
LEMMA ModifyKeepsLog ==
    ASSUME Bookkeeping, LogCovers, NEW t \in Threads, NEW k \in PinsOf(t),
           NEW stamp \in BOOLEAN, Modify(t, k, stamp), HistoryStep
    PROVE  LogCovers'
<1>1. PICK f \in Frames : f = k.frame
  BY DEF PinsOf, Bookkeeping, TypeOK, Pin
<1> DEFINE v == writes + 1
           record == [lsn |-> next_lsn, val |-> v]
           content == [val |-> v, lsn |-> IF stamp THEN next_lsn ELSE frames[f].lsn]
<1>2. /\ guard[f] = t
      /\ frames' = [frames EXCEPT ![f] = content]
      /\ log_buffer' = log_buffer \union {record}
      /\ guard' = [guard EXCEPT ![f] = NoThread]
      /\ UNCHANGED <<log_durable, stored, pc, frame>>
  BY <1>1 DEF Modify, diskVars, callVars
<1>3. /\ frames \in [Frames -> Content]
      /\ guard \in [Frames -> Threads \union {NoThread}]
      /\ next_lsn \in Nat /\ writes \in Nat
      /\ log_buffer \subseteq Record /\ \A g \in Frames : frames[g].val \in 0 .. MaxWrites
  BY PoolAssumption DEF Bookkeeping, TypeOK, Content
<1> HIDE DEF v, record, content
<1>4. /\ record.lsn = next_lsn /\ record.val = v
      /\ content.val = v /\ content.lsn = IF stamp THEN next_lsn ELSE frames[f].lsn
  BY DEF record, content
<1>5. unlogged \subseteq unlogged' /\ Unstamped \subseteq unlogged'
  BY DEF HistoryStep
<1>6. Known \subseteq Known'
  BY <1>2, <1>5 DEF Known
<1>7. \A p \in PageIds : stored'[p].val \in Known'
  BY <1>2, <1>6 DEF LogCovers
<1>8. ASSUME NEW g \in Frames \ {f} PROVE Logged(frames[g].val, frames[g].lsn)'
  BY <1>2, <1>3, <1>6 DEF LogCovers, Logged
<1>9. Logged(frames[f].val, frames[f].lsn)'
  <2>1. frames'[f] = content /\ record \in log_buffer'
    BY <1>2, <1>3
  <2>2. CASE content.lsn = next_lsn
    BY <1>3, <1>4, <2>1, <2>2 DEF Logged
  <2>3. CASE content.lsn # next_lsn
    <3>1. stamp = FALSE
      BY <1>4, <2>3
    <3>2. ~Modify(t, k, TRUE)
      <4>1. ASSUME Modify(t, k, TRUE) PROVE frames'[f].lsn = next_lsn
        BY <1>1, <1>3, <4>1 DEF Modify
      <4> QED BY <2>1, <2>3, <4>1
    <3>3. v \in Unstamped
      BY <3>1, <3>2 DEF Unstamped, Modify, v
    <3> QED BY <1>4, <1>5, <2>1, <3>3 DEF Logged, Known
  <2> QED BY <2>2, <2>3
<1>10. ASSUME NEW u \in Threads, pc'[u] = "write"
       PROVE  guard'[frame'[u]] = NoThread /\ frames'[frame'[u]].val \in Known'
  <2>1. frame[u] \in Frames
    BY <1>2, <1>10, InsideKnows DEF InPool
  <2>2. frame[u] # f
    BY <1>2, <1>10, PoolAssumption DEF LogCovers
  <2> QED
    BY <1>2, <1>3, <1>6, <1>10, <2>1, <2>2 DEF LogCovers
<1> QED
  BY <1>7, <1>8, <1>9, <1>10 DEF LogCovers

LEMMA CrashKeepsLog ==
    ASSUME LogCovers, Grows, Crash
    PROVE  LogCovers'
<1>1. \A p \in PageIds : stored'[p].val \in Known'
  BY DEF LogCovers, Known, Grows, Crash, Disk!CloseAll
<1>2. \A g \in Frames : Logged(frames[g].val, frames[g].lsn)'
  BY DEF Crash, Logged, Known, Blank
<1>3. \A u \in Threads : pc'[u] # "write"
  BY DEF Crash
<1> QED
  BY <1>1, <1>2, <1>3 DEF LogCovers

LEMMA NextKeepsLog ==
    ASSUME Bookkeeping, Bookkeeping', LogCovers, [Next /\ HistoryStep]_<<vars, unlogged>>
    PROVE  LogCovers'
<1>0. Grows
  BY HistoryGrows DEF Grows
<1>1. ASSUME NEW t \in Threads, Flushing(t), HistoryStep PROVE LogCovers'
  <2>1. CASE EnterFlush(t) \/ EnterFlushAll(t) \/ FlushClean(t)
    <3>1. SameLog
      BY <2>1 DEF EnterFlush, EnterFlushAll, FlushClean, SameLog, diskVars, logVars
    <3>2. GoesOn(t)
      BY <2>1 DEF EnterFlush, EnterFlushAll, FlushClean, AfterFlush, GoesOn
    <3> QED
      BY <1>0, <3>1, <3>2, PoolKeepsLog
  <2> QED
    BY <1>0, <1>1, <2>1, FlushLogKeepsLog, FlushLogFailsKeepsLog, FlushWriteKeepsLog,
       FlushWriteFailsKeepsLog
    DEF Flushing
<1>2. ASSUME NEW t \in Threads, Fetching(t) PROVE LogCovers'
  <2>1. CASE Allocate(t)
    BY <1>0, <2>1, CallersKeepLog
    DEF Allocate, SameLog, clientVars, Disk!AllocatePage, logVars
  <2>2. CASE FetchHit(t) \/ FetchNoFreeFrames(t) \/ \E f \in Frames : FetchMiss(t, f)
    BY <1>0, <2>2, PoolKeepsLog
    DEF FetchHit, FetchNoFreeFrames, FetchMiss, SameLog, GoesOn, diskVars, logVars
  <2>3. CASE FetchLoadFails(t)
    BY <1>0, <2>3, PoolKeepsLog DEF FetchLoadFails, SameLog, GoesOn, diskVars, logVars
  <2> QED
    BY <1>0, <1>2, <2>1, <2>2, <2>3, FetchLoadKeepsLog DEF Fetching
<1>3. ASSUME NEW t \in Threads, NEW step \in {"call", "allocate"}, NEW operation, NEW p,
             Calls(t, step, operation, p, NoFrame)
      PROVE  LogCovers'
  <2>1. SameLog /\ UNCHANGED guard
    BY <1>3 DEF Calls, SameLog, diskVars, logVars, clientVars
  <2> QED
    BY <1>0, <1>3, <2>1, CallersKeepLog
<1>4. ASSUME NEW t \in Threads, Using(t), HistoryStep PROVE LogCovers'
  <2>1. ASSUME NEW k \in PinsOf(t), TakeGuard(t, k) \/ DropGuard(t, k) PROVE LogCovers'
    <3>1. SameLog /\ UNCHANGED callVars
      BY <2>1 DEF TakeGuard, DropGuard, SameLog, diskVars, logVars
    <3>2. \A f \in Frames :
             guard[f] = NoThread /\ (\E u \in Threads : pc[u] = "write" /\ frame[u] = f)
                 => guard'[f] = NoThread
      BY <2>1 DEF TakeGuard, DropGuard, Bookkeeping, TypeOK
    <3> QED
      BY <1>0, <3>1, <3>2, CallersKeepLog
  <2>2. ASSUME NEW k \in PinsOf(t), NEW dirty \in BOOLEAN, Unpin(t, k, dirty) PROVE LogCovers'
    BY <1>0, <2>2, CallersKeepLog DEF Unpin, SameLog, diskVars, logVars
  <2>3. ASSUME NEW file \in Files, DropRelation(t, file) PROVE LogCovers'
    BY <1>0, <2>3, CallersKeepLog DEF DropRelation, SameLog, diskVars, logVars
  <2>4. ASSUME NEW k \in PinsOf(t), NEW stamp \in Stamps, Modify(t, k, stamp) PROVE LogCovers'
    BY <1>4, <2>4, PoolAssumption, ModifyKeepsLog
  <2> QED
    BY <1>4, <2>1, <2>2, <2>3, <2>4 DEF Using
<1>5. ASSUME UNCHANGED vars PROVE LogCovers'
  <2>1. SameLog /\ UNCHANGED <<pc, frame, guard>>
    BY <1>5 DEF vars, SameLog, diskVars, logVars, callVars, clientVars
  <2> QED
    BY <1>0, <2>1, SameLogKeeps, InsideKnows DEF InPool
<1> QED
  BY <1>0, <1>1, <1>2, <1>3, <1>4, <1>5, CrashKeepsLog
  DEF Next, PoolStep, Calling, CallFetch, CallNew, CallFlush, CallFlushAll

(***************************************************************************)
(* WAL before data, whatever callers do, the disk refuses and a crash      *)
(* takes, and across restarts that start the LSNs again at 1: a            *)
(* modification that is in a data file has its record in the log file,     *)
(* unless its own caller did not stamp the page with the LSN, or a force   *)
(* that failed dropped that very record (flush_frame_to_disk).  So neither *)
(* an unstamped page nor a lost record breaks the rule for another         *)
(* modification.  Where all callers stamp and the log can be written,      *)
(* nothing is unlogged, and this is WALBeforeData.                         *)
(***************************************************************************)
THEOREM LogBeforeData ==
    HistorySpec => [](\A p \in PageIds :
                         stored[p].val # 0 => stored[p].val \in log_durable \union unlogged)
<1>1. Init => LogCovers
  BY InitLog
<1>2. Bookkeeping /\ Bookkeeping' /\ LogCovers /\ [Next /\ HistoryStep]_<<vars, unlogged>>
        => LogCovers'
  BY NextKeepsLog
<1>3. LogCovers => \A p \in PageIds :
                      stored[p].val # 0 => stored[p].val \in log_durable \union unlogged
  BY DEF LogCovers, Known
<1>4. [Next /\ HistoryStep]_<<vars, unlogged>> => [Next]_vars
  OBVIOUS
<1> QED
  BY <1>1, <1>2, <1>3, <1>4, BookkeepingInvariant, PTL DEF HistorySpec, Spec

=============================================================================
