-------------------------- MODULE PoolInUseProofs ---------------------------
(***************************************************************************)
(* Proofs about the pool in use.  Under it, its replacer, in the order the *)
(* pool calls it: the queue is a least-recently-used policy, and as long   *)
(* as no I/O fails it has every page that can be evicted.  Over it, the    *)
(* statements and checkpointers that share it, for every number of either. *)
(***************************************************************************)
EXTENDS SharedPool, BufferPoolProofs

(* What the proofs say of a queue: who is in it, and in which order. *)
In(q) == { q[i] : i \in DOMAIN q }

Before(q, a, b) == \E i, j \in DOMAIN q : i < j /\ q[i] = a /\ q[j] = b

NoDuplicates(q) == \A i, j \in DOMAIN q : q[i] = q[j] => i = j

-----------------------------------------------------------------------------
(* Queues. *)

LEMMA RemoveAtElements ==
    ASSUME NEW S, NEW q \in Seq(S), NEW i \in DOMAIN q
    PROVE  /\ LRU!RemoveAt(q, i) \in Seq(S)
           /\ Len(LRU!RemoveAt(q, i)) = Len(q) - 1
           /\ DOMAIN LRU!RemoveAt(q, i) = 1 .. Len(q) - 1
           /\ \A j \in 1 .. Len(q) - 1 :
                 LRU!RemoveAt(q, i)[j] = IF j < i THEN q[j] ELSE q[j + 1]
<1> DEFINE a == SubSeq(q, 1, i - 1)
           b == SubSeq(q, i + 1, Len(q))
<1>1. Len(q) \in Nat /\ i \in 1 .. Len(q) /\ \A j \in 1 .. Len(q) : q[j] \in S
  BY LenProperties, ElementOfSeq
<1>2. /\ a \in Seq(S) /\ Len(a) = i - 1
      /\ \A j \in 1 .. i - 1 : a[j] = q[j]
  <2>1. \A j \in 1 .. i - 1 : q[j] \in S
    BY <1>1
  <2> QED
    BY <1>1, <2>1, SubSeqProperties
<1>3. /\ b \in Seq(S) /\ Len(b) = Len(q) - i
      /\ \A j \in 1 .. Len(q) - i : b[j] = q[j + i]
  <2>1. \A j \in i + 1 .. Len(q) : q[j] \in S
    BY <1>1
  <2>2. /\ b \in Seq(S)
        /\ Len(b) = IF i + 1 <= Len(q) THEN Len(q) - (i + 1) + 1 ELSE 0
        /\ \A j \in 1 .. Len(q) - (i + 1) + 1 : b[j] = q[i + 1 + j - 1]
    BY <1>1, <2>1, SubSeqProperties
  <2> QED
    BY <1>1, <2>2
<1> HIDE DEF a, b
<1> DEFINE c == a \o b
<1>4. /\ c \in Seq(S) /\ Len(c) = Len(a) + Len(b)
      /\ \A j \in 1 .. Len(a) + Len(b) :
            c[j] = IF j <= Len(a) THEN a[j] ELSE b[j - Len(a)]
  BY <1>2, <1>3, ConcatProperties
<1> HIDE DEF c
<1>5. ASSUME NEW j \in 1 .. Len(q) - 1
      PROVE  c[j] = IF j < i THEN q[j] ELSE q[j + 1]
  <2>1. j \in 1 .. Len(a) + Len(b)
    BY <1>1, <1>2, <1>3
  <2>2. CASE j < i
    <3>1. j <= Len(a) /\ j \in 1 .. i - 1
      BY <1>1, <1>2, <2>2
    <3> QED
      BY <1>2, <1>4, <2>1, <2>2, <3>1
  <2>3. CASE ~(j < i)
    <3>1. PICK k \in 1 .. Len(q) - i : k = j - Len(a)
      BY <1>1, <1>2, <2>3
    <3>2. ~(j <= Len(a)) /\ k + i = j + 1
      BY <1>1, <1>2, <2>3, <3>1
    <3>3. c[j] = b[k]
      BY <1>4, <2>1, <3>1, <3>2
    <3> QED
      BY <1>3, <2>3, <3>2, <3>3
  <2> QED
    BY <2>2, <2>3
<1>6. DOMAIN c = 1 .. Len(c) /\ Len(c) = Len(q) - 1
  BY <1>1, <1>2, <1>3, <1>4, LenProperties
<1>7. LRU!RemoveAt(q, i) = c
  BY DEF LRU!RemoveAt, a, b, c
<1> QED
  BY <1>4, <1>5, <1>6, <1>7

(* Taking an entry away leaves the others, in their order. *)
LEMMA RemoveAtOrder ==
    ASSUME NEW S, NEW q \in Seq(S), NoDuplicates(q), NEW i \in DOMAIN q
    PROVE  /\ NoDuplicates(LRU!RemoveAt(q, i))
           /\ In(LRU!RemoveAt(q, i)) = In(q) \ {q[i]}
           /\ \A a, b : Before(LRU!RemoveAt(q, i), a, b)
                          <=> Before(q, a, b) /\ a # q[i] /\ b # q[i]
<1> DEFINE r == LRU!RemoveAt(q, i)
           n == Len(q)
           to(j) == IF j < i THEN j ELSE j - 1
<1>1. n \in Nat /\ DOMAIN q = 1 .. n /\ i \in 1 .. n
  BY LenProperties
<1>2. /\ DOMAIN r = 1 .. n - 1
      /\ \A j \in 1 .. n - 1 : r[j] = IF j < i THEN q[j] ELSE q[j + 1]
  BY RemoveAtElements
<1> HIDE DEF r, n
<1>3. \A j \in 1 .. n : j # i => to(j) \in 1 .. n - 1 /\ r[to(j)] = q[j]
  <2> SUFFICES ASSUME NEW j \in 1 .. n, j # i PROVE to(j) \in 1 .. n - 1 /\ r[to(j)] = q[j]
    OBVIOUS
  <2>1. CASE j < i
    BY <1>1, <1>2, <2>1
  <2>2. CASE ~(j < i)
    <3>1. j - 1 \in 1 .. n - 1 /\ ~(j - 1 < i) /\ j - 1 + 1 = j
      BY <1>1, <2>2
    <3> QED
      BY <1>2, <2>2, <3>1
  <2> QED
    BY <2>1, <2>2
<1>4. \A j, k \in 1 .. n : j # i /\ k # i /\ j < k => to(j) < to(k)
  <2> SUFFICES ASSUME NEW j \in 1 .. n, NEW k \in 1 .. n, j # i, k # i, j < k
               PROVE  to(j) < to(k)
    OBVIOUS
  <2> QED
    BY <1>1
<1> HIDE DEF to
<1>5. ASSUME NEW j \in 1 .. n - 1
      PROVE  \E m \in 1 .. n : m = (IF j < i THEN j ELSE j + 1) /\ m # i /\ r[j] = q[m]
  BY <1>1, <1>2
<1>6. /\ NoDuplicates(r)
      /\ \A j \in 1 .. n - 1 : r[j] # q[i] /\ r[j] \in In(q)
  <2>1. ASSUME NEW j \in 1 .. n - 1, NEW k \in 1 .. n - 1, r[j] = r[k]
        PROVE  j = k
    <3>1. PICK m \in 1 .. n : m = (IF j < i THEN j ELSE j + 1) /\ m # i /\ r[j] = q[m]
      BY <1>5
    <3>2. PICK l \in 1 .. n : l = (IF k < i THEN k ELSE k + 1) /\ l # i /\ r[k] = q[l]
      BY <1>5
    <3>3. m = l
      BY <1>1, <2>1, <3>1, <3>2 DEF NoDuplicates
    <3> QED
      BY <1>1, <3>1, <3>2, <3>3
  <2>2. ASSUME NEW j \in 1 .. n - 1 PROVE r[j] # q[i] /\ r[j] \in In(q)
    BY <1>1, <1>5 DEF NoDuplicates, In
  <2> QED
    BY <1>2, <2>1, <2>2 DEF NoDuplicates
<1>7. \A e \in In(q) : e # q[i] => e \in In(r)
  BY <1>1, <1>2, <1>3 DEF In
<1>8. In(r) = In(q) \ {q[i]}
  BY <1>2, <1>6, <1>7 DEF In
<1>9. ASSUME NEW a, NEW b, Before(r, a, b)
      PROVE  Before(q, a, b) /\ a # q[i] /\ b # q[i]
  <2>1. PICK j, k \in 1 .. n - 1 : j < k /\ r[j] = a /\ r[k] = b
    BY <1>2, <1>9 DEF Before
  <2>2. PICK j2 \in 1 .. n : j2 = (IF j < i THEN j ELSE j + 1) /\ q[j2] = a
    BY <1>1, <1>2, <2>1
  <2>3. PICK k2 \in 1 .. n : k2 = (IF k < i THEN k ELSE k + 1) /\ q[k2] = b
    BY <1>1, <1>2, <2>1
  <2>4. j2 < k2
    BY <1>1, <2>1, <2>2, <2>3
  <2> QED
    BY <1>1, <1>6, <2>1, <2>2, <2>3, <2>4 DEF Before
<1>10. ASSUME NEW a, NEW b, Before(q, a, b), a # q[i], b # q[i]
       PROVE  Before(r, a, b)
  <2>1. PICK j, k \in 1 .. n : j < k /\ q[j] = a /\ q[k] = b
    BY <1>1, <1>10 DEF Before
  <2> QED
    BY <1>2, <1>3, <1>4, <1>10, <2>1 DEF Before
<1> QED
  BY <1>6, <1>8, <1>9, <1>10 DEF r

(* A new entry at the back comes after all others. *)
LEMMA AppendOrder ==
    ASSUME NEW S, NEW q \in Seq(S), NoDuplicates(q), NEW f \in S, f \notin In(q)
    PROVE  /\ NoDuplicates(Append(q, f))
           /\ In(Append(q, f)) = In(q) \union {f}
           /\ \A a, b : Before(Append(q, f), a, b)
                          <=> Before(q, a, b) \/ (a \in In(q) /\ b = f)
<1> DEFINE r == Append(q, f)
           n == Len(q)
<1>1. n \in Nat /\ DOMAIN q = 1 .. n
  BY LenProperties
<1>2. /\ r \in Seq(S) /\ Len(r) = n + 1
      /\ \A j \in 1 .. n : r[j] = q[j]
      /\ r[n + 1] = f
  BY AppendProperties
<1>3. DOMAIN r = 1 .. n + 1
  BY <1>2, LenProperties
<1> HIDE DEF r, n
<1>4. \A j \in 1 .. n : q[j] # f
  BY <1>1 DEF In
<1>5. NoDuplicates(r)
  <2> SUFFICES ASSUME NEW i \in 1 .. n + 1, NEW j \in 1 .. n + 1, r[i] = r[j] PROVE i = j
    BY <1>3 DEF NoDuplicates
  <2>1. CASE i \in 1 .. n /\ j \in 1 .. n
    BY <1>1, <1>2, <2>1 DEF NoDuplicates
  <2>2. CASE i = n + 1 \/ j = n + 1
    BY <1>1, <1>2, <1>4, <2>2
  <2> QED
    BY <1>1, <2>1, <2>2
<1>6. In(r) = In(q) \union {f}
  <2>1. \A j \in 1 .. n + 1 : j \in 1 .. n \/ j = n + 1
    BY <1>1
  <2>2. \A j \in 1 .. n : j \in 1 .. n + 1
    BY <1>1
  <2>3. n + 1 \in 1 .. n + 1
    BY <1>1
  <2> QED
    BY <1>1, <1>2, <1>3, <2>1, <2>2, <2>3 DEF In
<1>7. ASSUME NEW a, NEW b, Before(r, a, b)
      PROVE  Before(q, a, b) \/ (a \in In(q) /\ b = f)
  <2>1. PICK j, k \in 1 .. n + 1 : j < k /\ r[j] = a /\ r[k] = b
    BY <1>3, <1>7 DEF Before
  <2>2. j \in 1 .. n /\ (k \in 1 .. n \/ k = n + 1)
    BY <1>1, <2>1
  <2> QED
    BY <1>1, <1>2, <2>1, <2>2 DEF Before, In
<1>8. ASSUME NEW a, NEW b, Before(q, a, b) \/ (a \in In(q) /\ b = f)
      PROVE  Before(r, a, b)
  <2>1. CASE Before(q, a, b)
    <3>1. PICK j, k \in 1 .. n : j < k /\ q[j] = a /\ q[k] = b
      BY <1>1, <2>1 DEF Before
    <3>2. j \in 1 .. n + 1 /\ k \in 1 .. n + 1
      BY <1>1
    <3> QED
      BY <1>2, <1>3, <3>1, <3>2 DEF Before
  <2>2. CASE a \in In(q) /\ b = f
    <3>1. PICK j \in 1 .. n : q[j] = a
      BY <1>1, <2>2 DEF In
    <3>2. j \in 1 .. n + 1 /\ n + 1 \in 1 .. n + 1 /\ j < n + 1
      BY <1>1
    <3> QED
      BY <1>2, <1>3, <2>2, <3>1, <3>2 DEF Before
  <2> QED
    BY <1>8, <2>1, <2>2
<1> QED
  BY <1>5, <1>6, <1>7, <1>8 DEF r

-----------------------------------------------------------------------------
(* The operations of the replacer. *)

LEMMA RecordAccessOrder ==
    ASSUME access_queue \in Seq(Frames), NoDuplicates(access_queue), NEW f \in Frames,
           LRU!RecordAccess(f)
    PROVE  /\ access_queue' \in Seq(Frames) /\ NoDuplicates(access_queue')
           /\ In(access_queue') = In(access_queue) \union {f}
           /\ \A a, b : Before(access_queue', a, b)
                 <=> \/ Before(access_queue, a, b) /\ a # f /\ b # f
                     \/ a \in In(access_queue) \ {f} /\ b = f
<1>1. access_queue' \in Seq(Frames)
  BY RecordAccessType
<1>2. CASE LRU!Untracked(f) /\ access_queue' = Append(access_queue, f)
  <2>1. f \notin In(access_queue)
    BY <1>2 DEF LRU!Untracked, In
  <2>2. \A a, b : Before(access_queue, a, b) => a # f /\ b # f
    BY <2>1 DEF Before, In
  <2> QED
    BY <1>1, <1>2, <2>1, <2>2, AppendOrder
<1>3. ASSUME NEW i \in DOMAIN access_queue, LRU!FirstAt(f, i),
             access_queue' = Append(LRU!RemoveAt(access_queue, i), f)
      PROVE  /\ NoDuplicates(access_queue')
             /\ In(access_queue') = In(access_queue) \union {f}
             /\ \A a, b : Before(access_queue', a, b)
                   <=> \/ Before(access_queue, a, b) /\ a # f /\ b # f
                       \/ a \in In(access_queue) \ {f} /\ b = f
  <2> DEFINE r == LRU!RemoveAt(access_queue, i)
  <2>1. access_queue[i] = f /\ f \in In(access_queue)
    BY <1>3 DEF LRU!FirstAt, In
  <2>2. /\ r \in Seq(Frames) /\ NoDuplicates(r)
        /\ In(r) = In(access_queue) \ {f}
        /\ \A a, b : Before(r, a, b) <=> Before(access_queue, a, b) /\ a # f /\ b # f
    BY <2>1, RemoveAtElements, RemoveAtOrder
  <2> HIDE DEF r
  <2>3. f \notin In(r)
    BY <2>2
  <2>4. access_queue' = Append(r, f)
    BY <1>3 DEF r
  <2> QED
    BY <2>1, <2>2, <2>3, <2>4, AppendOrder
<1> QED
  BY <1>1, <1>2, <1>3 DEF LRU!RecordAccess

LEMMA EvictOrder ==
    ASSUME access_queue \in Seq(Frames), NoDuplicates(access_queue), NEW f, LRU!Evict(f)
    PROVE  /\ NoDuplicates(access_queue')
           /\ f \in In(access_queue) /\ ~is_pinned[f]
           /\ \A g : Before(access_queue, g, f) => is_pinned[g]
           /\ In(access_queue') = In(access_queue) \ {f}
           /\ \A a, b : Before(access_queue', a, b)
                          <=> Before(access_queue, a, b) /\ a # f /\ b # f
<1>1. PICK i \in DOMAIN access_queue :
          /\ access_queue[i] = f
          /\ ~is_pinned[f]
          /\ \A j \in 1 .. i - 1 : is_pinned[access_queue[j]]
          /\ access_queue' = LRU!RemoveAt(access_queue, i)
  BY DEF LRU!Evict
<1>2. DOMAIN access_queue = 1 .. Len(access_queue) /\ Len(access_queue) \in Nat
  BY LenProperties
<1>3. ASSUME NEW g, Before(access_queue, g, f) PROVE is_pinned[g]
  <2>1. PICK j, k \in DOMAIN access_queue :
            j < k /\ access_queue[j] = g /\ access_queue[k] = f
    BY <1>3 DEF Before
  <2>2. k = i
    BY <1>1, <2>1 DEF NoDuplicates
  <2>3. j \in 1 .. i - 1
    BY <1>2, <2>1, <2>2
  <2> QED
    BY <1>1, <2>1, <2>3
<1>4. f \in In(access_queue)
  BY <1>1 DEF In
<1> QED
  BY <1>1, <1>3, <1>4, RemoveAtOrder

(* The same, said of the policy the queue stands for. *)
LEMMA TrackedIsIn ==
    /\ LRU!Tracked = In(access_queue)
    /\ LRU!Older = { fg \in In(access_queue) \X In(access_queue) :
                        Before(access_queue, fg[1], fg[2]) }
BY DEF LRU!Tracked, LRU!ToSet, LRU!Older, In, Before

-----------------------------------------------------------------------------
(* The policy. *)

(* What a step of the pool does to the replacer's queue. *)
ReplacerStep ==
    \/ UNCHANGED access_queue
    \/ \E f \in Frames : LRU!RecordAccess(f)
    \/ \E f \in Frames : LRU!Evict(f) /\ UNCHANGED is_pinned
    \/ access_queue' = <<>> /\ is_pinned' = [f \in Frames |-> FALSE]

LEMMA PoolCallsReplacer ==
    ASSUME Bookkeeping, [Next]_vars
    PROVE  ReplacerStep
<1> USE DEF ReplacerStep
<1>1. ASSUME NEW t \in Threads, PoolStep(t) PROVE ReplacerStep
  <2>1. CASE FetchHit(t)
    <3>1. page_table[page[t]] \in Frames
      BY <2>1 DEF FetchHit, Enters, Bookkeeping, CallsWellFormed, TypeOK
    <3> QED
      BY <2>1, <3>1 DEF FetchHit, PinFor
  <2>2. CASE FetchLoad(t)
    <3>1. frame[t] \in Frames
      BY <2>2, InsideKnows DEF FetchLoad, InPool
    <3> QED
      BY <2>2, <3>1 DEF FetchLoad, PinFor
  <2>3. CASE \E f \in Frames : FetchMiss(t, f)
    BY <2>3 DEF FetchMiss
  <2>4. CASE Flushing(t) \/ Allocate(t) \/ FetchNoFreeFrames(t) \/ FetchLoadFails(t)
    BY <2>4
    DEF Flushing, EnterFlush, EnterFlushAll, FlushClean, FlushLog, FlushLogFails,
        FlushWrite, FlushWriteFails, Allocate, FetchNoFreeFrames, FetchLoadFails, lruVars
  <2> QED
    BY <1>1, <2>1, <2>2, <2>3, <2>4 DEF PoolStep, Fetching
<1>2. ASSUME NEW t \in Threads, Calling(t) \/ Using(t) PROVE ReplacerStep
  BY <1>2
  DEF Calling, CallFetch, CallNew, CallFlush, CallFlushAll, Calls, Using, TakeGuard,
      DropGuard, Modify, Unpin, DropRelation, lruVars
<1> QED
  BY <1>1, <1>2 DEF Next, Crash, vars, lruVars

LEMMA ReplacerKeepsOrder ==
    ASSUME access_queue \in Seq(Frames), NoDuplicates(access_queue), ReplacerStep
    PROVE  NoDuplicates(access_queue')
<1>1. CASE access_queue' = <<>>
  BY <1>1 DEF NoDuplicates
<1> QED
  BY <1>1, RecordAccessOrder, EvictOrder DEF ReplacerStep

LEMMA QueueHasNoDuplicates == Spec => []NoDuplicates(access_queue)
<1>1. Init => NoDuplicates(access_queue)
  BY DEF Init, LRU!LRUInit, NoDuplicates
<1>2. Bookkeeping /\ NoDuplicates(access_queue) /\ [Next]_vars => NoDuplicates(access_queue)'
  BY PoolCallsReplacer, ReplacerKeepsOrder DEF Bookkeeping, TypeOK
<1> QED
  BY <1>1, <1>2, BookkeepingInvariant, PTL DEF Spec

LEMMA ReplacerStepIsPolicy ==
    ASSUME access_queue \in Seq(Frames), NoDuplicates(access_queue), ReplacerStep,
           is_pinned' \in [Frames -> BOOLEAN]
    PROVE  [LRU!Policy!Next]_(LRU!Policy!policyVars)
<1>1. LRU!Frames = Frames
  BY DEF LRU!Frames, Frames
<1>2. LRU!Policy!SetPins
  BY <1>1 DEF LRU!Policy!SetPins
<1>3. /\ LRU!Tracked' = In(access_queue')
      /\ LRU!Older' = { fg \in In(access_queue') \X In(access_queue') :
                          Before(access_queue', fg[1], fg[2]) }
  BY DEF LRU!Tracked, LRU!ToSet, LRU!Older, In, Before
<1>4. CASE UNCHANGED access_queue
  BY <1>2, <1>3, <1>4, TrackedIsIn DEF LRU!Policy!Next
<1>5. ASSUME NEW f \in Frames, LRU!RecordAccess(f) PROVE LRU!Policy!Next
  <2>1. /\ In(access_queue') = In(access_queue) \union {f}
        /\ \A a, b : Before(access_queue', a, b)
              <=> \/ Before(access_queue, a, b) /\ a # f /\ b # f
                  \/ a \in In(access_queue) \ {f} /\ b = f
    BY <1>5, RecordAccessOrder
  <2>2. LRU!Older' = LRU!Policy!Without(f) \union { <<g, f>> : g \in LRU!Tracked \ {f} }
    BY <1>3, <2>1, TrackedIsIn DEF LRU!Policy!Without
  <2>3. LRU!Policy!Access(f)
    BY <1>2, <1>3, <2>1, <2>2, TrackedIsIn DEF LRU!Policy!Access
  <2> QED
    BY <1>1, <2>3 DEF LRU!Policy!Next
<1>6. ASSUME NEW f \in Frames, LRU!Evict(f), UNCHANGED is_pinned PROVE LRU!Policy!Next
  <2>1. /\ f \in In(access_queue) /\ ~is_pinned[f]
        /\ \A g : Before(access_queue, g, f) => is_pinned[g]
        /\ In(access_queue') = In(access_queue) \ {f}
        /\ \A a, b : Before(access_queue', a, b)
                       <=> Before(access_queue, a, b) /\ a # f /\ b # f
    BY <1>6, EvictOrder
  <2>2. LRU!Older' = LRU!Policy!Without(f)
    BY <1>3, <2>1, TrackedIsIn DEF LRU!Policy!Without
  <2>3. LRU!Policy!Evict(f)
    BY <1>3, <1>6, <2>1, <2>2, TrackedIsIn DEF LRU!Policy!Evict
  <2> QED
    BY <1>1, <2>3 DEF LRU!Policy!Next
<1>7. CASE access_queue' = <<>> /\ is_pinned' = [f \in Frames |-> FALSE]
  <2>1. LRU!Tracked' = {} /\ LRU!Older' = {}
    BY <1>3, <1>7 DEF In
  <2> QED
    BY <1>1, <1>7, <2>1 DEF LRU!Policy!Next, LRU!Policy!Restart
<1> QED
  BY <1>4, <1>5, <1>6, <1>7 DEF ReplacerStep

(***************************************************************************)
(* In the order the pool calls it, the replacer is a least-recently-used   *)
(* policy: a victim is an unpinned frame none of the unpinned frames was   *)
(* used before (lru.rs record_access, set_pin, evict), with every fault    *)
(* and with crashes.                                                       *)
(***************************************************************************)
THEOREM VictimsAreLeastRecentlyUsed == Spec => EvictsLeastRecentlyUsed
<1>1. Init => LRU!Policy!Init
  <2> SUFFICES ASSUME Init PROVE LRU!Policy!Init
    OBVIOUS
  <2>1. access_queue = <<>> /\ is_pinned = [f \in LRU!Frames |-> FALSE]
    BY DEF Init, LRU!LRUInit
  <2>2. LRU!Tracked = {} /\ LRU!Older = {}
    BY <2>1, TrackedIsIn DEF In
  <2> QED
    BY <2>1, <2>2 DEF LRU!Policy!Init
<1>2. Bookkeeping /\ Bookkeeping' /\ NoDuplicates(access_queue) /\ [Next]_vars
        => [LRU!Policy!Next]_(LRU!Policy!policyVars)
  BY PoolCallsReplacer, ReplacerStepIsPolicy DEF Bookkeeping, TypeOK
<1> QED
  BY <1>1, <1>2, BookkeepingInvariant, QueueHasNoDuplicates, PTL
  DEF Spec, EvictsLeastRecentlyUsed, LRU!EvictsLeastRecentlyUsed, LRU!Policy!Spec

-----------------------------------------------------------------------------
(* While no I/O fails, the queue has every page that can be evicted. *)

LEMMA ContainsIsIn ==
    ASSUME NEW q \in Seq(Frames), NEW f
    PROVE  LRU!Contains(q, f) <=> f \in In(q)
BY LenProperties DEF LRU!Contains, In

LEMMA InitQueue == Init => QueueComplete
BY DEF Init, QueueComplete

(* A thread that is between calls, or returns, replaces nothing. *)
LEMMA ReplacingKept ==
    ASSUME Bookkeeping, NEW t \in Threads,
           \A u \in Threads \ {t} : pc'[u] = pc[u] /\ op'[u] = op[u] /\ frame'[u] = frame[u],
           NEW f \in Frames,
           (pc[t] # "idle" /\ op[t] = "fetch" /\ frame[t] = f)
               => (pc'[t] # "idle" /\ op'[t] = "fetch" /\ frame'[t] = f),
           BeingReplaced(f)
    PROVE  BeingReplaced(f)'
BY DEF BeingReplaced

LEMMA ReturnReplaces ==
    ASSUME Bookkeeping, NEW t \in Threads, Return(t)
    PROVE  /\ \A u \in Threads \ {t} :
                 pc'[u] = pc[u] /\ op'[u] = op[u] /\ frame'[u] = frame[u]
           /\ pc'[t] = "idle"
BY DEF Return, Bookkeeping, TypeOK

LEMMA ContinueReplaces ==
    ASSUME Bookkeeping, NEW t \in Threads, NEW step \in {"flush", "write", "load"},
           NEW f, Continue(t, step, f)
    PROVE  /\ \A u \in Threads \ {t} :
                 pc'[u] = pc[u] /\ op'[u] = op[u] /\ frame'[u] = frame[u]
           /\ pc'[t] = step /\ op'[t] = op[t] /\ frame'[t] = f
BY DEF Continue, Bookkeeping, TypeOK

(* A step of t that neither maps a page nor moves the queue, and leaves    *)
(* the frame t has chosen as it is.                                        *)
LEMMA SameQueueKeeps ==
    ASSUME Bookkeeping, QueueComplete, NEW t \in Threads,
           \A u \in Threads \ {t} : pc'[u] = pc[u] /\ op'[u] = op[u] /\ frame'[u] = frame[u],
           \A f \in Frames :
               (pc[t] # "idle" /\ op[t] = "fetch" /\ frame[t] = f)
                   => (pc'[t] # "idle" /\ op'[t] = "fetch" /\ frame'[t] = f),
           pc'[t] \in {"allocate", "call"} => frame'[t] = NoFrame,
           \A f \in Frames : page_id'[f] # NoPage => page_id[f] # NoPage,
           UNCHANGED access_queue
    PROVE  QueueComplete'
<1>1. ASSUME NEW f \in Frames, page_id'[f] # NoPage, ~BeingReplaced(f)'
      PROVE  LRU!Contains(access_queue, f)'
  <2>1. ~BeingReplaced(f)
    BY <1>1, ReplacingKept
  <2> QED
    BY <1>1, <2>1 DEF QueueComplete, LRU!Contains
<1>2. ASSUME NEW u \in Threads, pc'[u] \in {"allocate", "call"} PROVE frame'[u] = NoFrame
  BY <1>2 DEF QueueComplete
<1> QED
  BY <1>1, <1>2 DEF QueueComplete

(* A pin records an access of its frame. *)
LEMMA RecordKeeps ==
    ASSUME Bookkeeping, QueueComplete, NoDuplicates(access_queue),
           NEW t \in Threads, Return(t), NEW f \in Frames, LRU!RecordAccess(f),
           \A g \in Frames \ {f} : page_id'[g] = page_id[g],
           \A g \in Frames \ {f} : ~(op[t] = "fetch" /\ pc[t] # "idle" /\ frame[t] = g)
    PROVE  QueueComplete'
<1>1. access_queue \in Seq(Frames) /\ access_queue' \in Seq(Frames)
  BY RecordAccessType DEF Bookkeeping, TypeOK
<1>2. In(access_queue') = In(access_queue) \union {f}
  BY <1>1, RecordAccessOrder
<1>3. /\ \A u \in Threads \ {t} : pc'[u] = pc[u] /\ op'[u] = op[u] /\ frame'[u] = frame[u]
      /\ pc'[t] = "idle"
  BY ReturnReplaces
<1>4. ASSUME NEW g \in Frames, page_id'[g] # NoPage, ~BeingReplaced(g)'
      PROVE  g \in In(access_queue')
  <2>1. CASE g = f
    BY <1>2, <2>1
  <2>2. CASE g # f
    <3>1. ~BeingReplaced(g)
      BY <1>3, <1>4, <2>2 DEF BeingReplaced
    <3>2. LRU!Contains(access_queue, g)
      BY <1>4, <2>2, <3>1 DEF QueueComplete
    <3> QED
      BY <1>1, <1>2, <3>2, ContainsIsIn
  <2> QED
    BY <2>1, <2>2
<1>5. ASSUME NEW u \in Threads, pc'[u] \in {"allocate", "call"} PROVE frame'[u] = NoFrame
  BY <1>3, <1>5 DEF QueueComplete
<1>6. ASSUME NEW g \in Frames, page_id'[g] # NoPage, ~BeingReplaced(g)'
      PROVE  LRU!Contains(access_queue, g)'
  BY <1>1, <1>4, <1>6, ContainsIsIn DEF LRU!Contains
<1> QED
  BY <1>5, <1>6 DEF QueueComplete

LEMMA FetchKeepsQueue ==
    ASSUME Faults = {}, Bookkeeping, QueueComplete, NoDuplicates(access_queue),
           NEW t \in Threads, Fetching(t)
    PROVE  QueueComplete'
<1>1. CASE Allocate(t)
  <2>1. /\ \A u \in Threads \ {t} : pc'[u] = pc[u] /\ op'[u] = op[u] /\ frame'[u] = frame[u]
        /\ op'[t] = op[t] /\ frame'[t] = frame[t] /\ pc[t] = "allocate" /\ pc'[t] = "call"
        /\ UNCHANGED <<page_id, access_queue>>
    BY <1>1 DEF Allocate, descVars, lruVars, Bookkeeping, TypeOK
  <2> QED
    BY <2>1, SameQueueKeeps DEF QueueComplete
<1>2. CASE FetchHit(t)
  <2>1. PICK f \in Frames : f = page_table[page[t]]
    BY <1>2 DEF FetchHit, Enters, Bookkeeping, CallsWellFormed, TypeOK
  <2>2. LRU!RecordAccess(f) /\ Return(t) /\ UNCHANGED page_id
    BY <1>2, <2>1 DEF FetchHit, PinFor
  <2>3. frame[t] = NoFrame /\ NoFrame \notin Frames
    BY <1>2 DEF FetchHit, Enters, QueueComplete, NoFrame, Frames
  <2> QED
    BY <2>2, <2>3, RecordKeeps
<1>3. ASSUME NEW f \in Frames, FetchMiss(t, f) PROVE QueueComplete'
  <2>1. /\ \A u \in Threads \ {t} : pc'[u] = pc[u] /\ op'[u] = op[u] /\ frame'[u] = frame[u]
        /\ pc'[t] = "flush" /\ op'[t] = op[t] /\ frame'[t] = f
        /\ op[t] = "fetch" /\ UNCHANGED page_id
        /\ frame[t] = NoFrame /\ NoFrame \notin Frames
    BY <1>3, ContinueReplaces
    DEF FetchMiss, Enters, descVars, QueueComplete, NoFrame, Frames
  <2>2. access_queue \in Seq(Frames) /\ access_queue' \in Seq(Frames)
    BY <1>3, EvictType DEF FetchMiss, Bookkeeping, TypeOK
  <2>3. In(access_queue) \subseteq In(access_queue') \union {f}
    <3>1. CASE LRU!Evict(f)
      BY <2>2, <3>1, EvictOrder
    <3>2. CASE UNCHANGED access_queue
      BY <3>2
    <3> QED
      BY <1>3, <3>1, <3>2 DEF FetchMiss
  <2>4. ASSUME NEW g \in Frames, page_id'[g] # NoPage, ~BeingReplaced(g)'
        PROVE  LRU!Contains(access_queue, g)'
    <3>1. g # f /\ ~BeingReplaced(g)
      BY <2>1, <2>4 DEF BeingReplaced
    <3>2. LRU!Contains(access_queue, g)
      BY <2>1, <2>4, <3>1 DEF QueueComplete
    <3>3. g \in In(access_queue')
      BY <2>2, <2>3, <3>1, <3>2, ContainsIsIn
    <3> QED
      BY <2>2, <3>3, ContainsIsIn DEF LRU!Contains
  <2>5. ASSUME NEW u \in Threads, pc'[u] \in {"allocate", "call"} PROVE frame'[u] = NoFrame
    BY <2>1, <2>5 DEF QueueComplete
  <2> QED
    BY <2>4, <2>5 DEF QueueComplete
<1>4. CASE FetchNoFreeFrames(t)
  <2>1. frame[t] = NoFrame /\ NoFrame \notin Frames
    BY <1>4 DEF FetchNoFreeFrames, Enters, QueueComplete, NoFrame, Frames
  <2>2. UNCHANGED <<page_id, access_queue>> /\ Return(t)
    BY <1>4 DEF FetchNoFreeFrames, descVars, lruVars
  <2> QED
    BY <2>1, <2>2, ReturnReplaces, SameQueueKeeps
<1>5. CASE FetchLoad(t)
  <2>1. PICK f \in Frames : f = frame[t]
    BY <1>5, InsideKnows DEF FetchLoad, InPool
  <2>2. LRU!RecordAccess(f) /\ Return(t)
    BY <1>5, <2>1 DEF FetchLoad, PinFor
  <2>3. \A g \in Frames \ {f} : page_id'[g] = page_id[g]
    BY <1>5, <2>1 DEF FetchLoad, Remap, Bookkeeping, TypeOK
  <2> QED
    BY <2>1, <2>2, <2>3, RecordKeeps
<1> QED
  BY <1>1, <1>2, <1>3, <1>4, <1>5 DEF Fetching, FetchLoadFails

LEMMA FlushKeepsQueue ==
    ASSUME Faults = {}, Bookkeeping, QueueComplete, NEW t \in Threads, Flushing(t)
    PROVE  QueueComplete'
<1>1. UNCHANGED <<page_id, access_queue>>
  BY DEF Flushing, EnterFlush, EnterFlushAll, FlushClean, FlushLog, FlushLogFails,
         FlushWrite, FlushWriteFails, descVars, lruVars
<1>2. CASE Return(t) /\ op[t] # "fetch"
  BY <1>1, <1>2, ReturnReplaces, SameQueueKeeps
<1>3. ASSUME NEW step \in {"flush", "write", "load"}, Continue(t, step, frame[t])
      PROVE  QueueComplete'
  <2>1. /\ \A u \in Threads \ {t} : pc'[u] = pc[u] /\ op'[u] = op[u] /\ frame'[u] = frame[u]
        /\ pc'[t] = step /\ op'[t] = op[t] /\ frame'[t] = frame[t]
    BY <1>3, ContinueReplaces
  <2> QED
    BY <1>1, <2>1, SameQueueKeeps
<1>4. ASSUME NEW f, Continue(t, "flush", f), op[t] # "fetch" PROVE QueueComplete'
  <2>1. /\ \A u \in Threads \ {t} : pc'[u] = pc[u] /\ op'[u] = op[u] /\ frame'[u] = frame[u]
        /\ pc'[t] = "flush"
    BY <1>4, ContinueReplaces
  <2> QED
    BY <1>1, <1>4, <2>1, SameQueueKeeps
<1>5. CASE EnterFlush(t) \/ EnterFlushAll(t)
  BY <1>2, <1>4, <1>5 DEF EnterFlush, EnterFlushAll, Enters
<1>6. CASE FlushClean(t) \/ FlushWrite(t)
  BY <1>2, <1>3, <1>4, <1>6 DEF FlushClean, FlushWrite, AfterFlush
<1>7. CASE FlushLog(t)
  BY <1>3, <1>7 DEF FlushLog
<1> QED
  BY <1>5, <1>6, <1>7 DEF Flushing, FlushLogFails, FlushWriteFails

LEMMA CallersKeepQueue ==
    ASSUME Bookkeeping, QueueComplete, NEW t \in Threads, Calling(t) \/ Using(t)
    PROVE  QueueComplete'
<1>1. CASE Calling(t)
  <2>1. PICK step \in {"allocate", "call"}, operation \in Ops, p \in PageIds \union {NoPage} :
            Calls(t, step, operation, p, NoFrame)
    BY <1>1 DEF Calling, CallFetch, CallNew, CallFlush, CallFlushAll, Ops
  <2>2. /\ \A u \in Threads \ {t} : pc'[u] = pc[u] /\ op'[u] = op[u] /\ frame'[u] = frame[u]
        /\ pc[t] = "idle" /\ frame'[t] = NoFrame
        /\ UNCHANGED <<page_id, access_queue>>
    BY <2>1 DEF Calls, descVars, lruVars, Bookkeeping, TypeOK
  <2> QED
    BY <2>2, SameQueueKeeps
<1>2. CASE Using(t)
  <2>1. UNCHANGED callVars /\ UNCHANGED access_queue
    BY <1>2 DEF Using, TakeGuard, DropGuard, Modify, Unpin, DropRelation, lruVars
  <2>2. \A f \in Frames : page_id'[f] # NoPage => page_id[f] # NoPage
    BY <1>2 DEF Using, TakeGuard, DropGuard, Modify, Unpin, DropRelation, descVars
  <2> QED
    BY <2>1, <2>2, SameQueueKeeps DEF callVars, QueueComplete
<1> QED
  BY <1>1, <1>2

LEMMA NextKeepsQueue ==
    ASSUME Faults = {}, Bookkeeping, QueueComplete, NoDuplicates(access_queue), [Next]_vars
    PROVE  QueueComplete'
<1>1. CASE Crash
  BY <1>1 DEF Crash, QueueComplete
<1>2. CASE UNCHANGED vars
  BY <1>2
  DEF vars, descVars, lruVars, callVars, QueueComplete, BeingReplaced, LRU!Contains
<1> QED
  BY <1>1, <1>2, FetchKeepsQueue, FlushKeepsQueue, CallersKeepQueue DEF Next, PoolStep

LEMMA QueueInvariant ==
    ASSUME Faults = {}
    PROVE  Spec => []QueueComplete
<1>1. Init => QueueComplete
  BY InitQueue
<1>2. Bookkeeping /\ QueueComplete /\ NoDuplicates(access_queue) /\ [Next]_vars
        => QueueComplete'
  BY NextKeepsQueue
<1> QED
  BY <1>1, <1>2, BookkeepingInvariant, QueueHasNoDuplicates, PTL DEF Spec

(***************************************************************************)
(* Every cached page without a pin is in the queue an eviction chooses     *)
(* from, however fetches, flushes, drops and crashes interleave, while no  *)
(* I/O fails: the pool does not get smaller.  (After a read or a write     *)
(* that fails a victim stays out of the queue.)                            *)
(***************************************************************************)
THEOREM UnpinnedCanBeEvicted ==
    ASSUME Faults = {}
    PROVE  Spec => []UnpinnedIsEvictable
<1>1. QueueComplete => UnpinnedIsEvictable
  BY DEF QueueComplete, UnpinnedIsEvictable
<1> QED
  BY <1>1, QueueInvariant, PTL

(***************************************************************************)
(* While no I/O fails, fetch_page reports NoFreeFrames only when every     *)
(* frame is pinned (find_victim_frame).                                    *)
(***************************************************************************)
THEOREM NoFreeFramesWhenAllPinned ==
    ASSUME Faults = {}
    PROVE  Spec => NoFreeFramesMeansAllPinned
<1>1. Bookkeeping /\ QueueComplete =>
         [\A t \in Threads :
             FetchNoFreeFrames(t) => \A f \in Frames : pin_count[f] > 0]_vars
  <2> SUFFICES ASSUME Bookkeeping, QueueComplete, NEW t \in Threads, FetchNoFreeFrames(t),
                      NEW f \in Frames
               PROVE  pin_count[f] > 0
    OBVIOUS
  <2>1. page_id[f] # NoPage
    BY DEF FetchNoFreeFrames, EmptyFrames
  <2>2. ~BeingReplaced(f)
    <3> SUFFICES ASSUME NEW u \in Threads, pc[u] # "idle", frame[u] = f PROVE FALSE
      BY DEF BeingReplaced
    <3>1. ~InPool(u)
      BY PoolAssumption DEF FetchNoFreeFrames, Enters, Bookkeeping, MutexHeld
    <3>2. pc[u] \in {"allocate", "call"}
      BY <3>1 DEF InPool, Bookkeeping, TypeOK, Steps
    <3> QED
      BY <3>2 DEF QueueComplete, Frames, NoFrame
  <2>3. f \in In(access_queue)
    BY <2>1, <2>2, ContainsIsIn DEF QueueComplete, Bookkeeping, TypeOK
  <2>4. is_pinned[f]
    BY <2>3 DEF In, FetchNoFreeFrames, LRU!HasVictim
  <2> QED
    BY <2>4 DEF Bookkeeping, PinsExact
<1> QED
  BY <1>1, BookkeepingInvariant, QueueInvariant, PTL DEF NoFreeFramesMeansAllPinned

-----------------------------------------------------------------------------
(* Statements and checkpointers. *)

(* The outer lock is a lock, and it covers what its holders do: only a     *)
(* statement holds it alone, guards belong to the statement that does, and *)
(* who is inside a call of the pool holds it.                              *)
OuterLock ==
    /\ outer \in [Threads -> {"none", "shared", "exclusive"}]
    /\ \A t, u \in Threads : outer[t] = "exclusive" /\ u # t => outer[u] = "none"
    /\ \A t \in Threads : outer[t] = "exclusive" => t \in Statements
    /\ \A f \in Frames : guard[f] # NoThread => outer[guard[f]] = "exclusive"
    /\ \A t \in Threads : pc[t] # "idle" => outer[t] # "none"

-----------------------------------------------------------------------------

LEMMA SharedStepIsPoolStep ==
    ASSUME [SharedNext]_sharedVars
    PROVE  [Next]_vars
<1>1. ASSUME NEW t \in Threads, StatementCall(t) PROVE Calling(t) \/ Using(t)
  BY <1>1 DEF StatementCall, Calling, Using
<1>2. ASSUME NEW t \in Threads, BeginCheckpoint(t) PROVE Calling(t)
  BY <1>2 DEF BeginCheckpoint, Calling
<1>3. ASSUME NEW t \in Threads, BeginStatement(t) \/ EndStatement(t) \/ EndCheckpoint(t)
      PROVE  UNCHANGED vars
  BY <1>3 DEF BeginStatement, EndStatement, EndCheckpoint
<1> QED
  BY <1>1, <1>2, <1>3 DEF SharedNext, PoolRuns, Next, sharedVars

(***************************************************************************)
(* The statements and the checkpointer of the command line use the pool as *)
(* its specification allows, so that whatever is proved of the pool holds  *)
(* under the outer lock (main.rs, Arc<RwLock<BufferPoolManager>>).         *)
(***************************************************************************)
THEOREM SharedUseIsPoolUse == SharedSpec => Spec
<1>1. SharedInit => Init
  BY DEF SharedInit
<1>2. [SharedNext]_sharedVars => [Next]_vars
  BY SharedStepIsPoolStep
<1> QED
  BY <1>1, <1>2, PTL DEF SharedSpec, Spec

(* A step of the pool is of a thread inside a call and takes no guard. *)
LEMMA PoolStepIsInside ==
    ASSUME Bookkeeping, NEW t \in Threads, PoolStep(t)
    PROVE  /\ pc[t] # "idle"
           /\ \A u \in Threads \ {t} : pc'[u] = pc[u]
           /\ UNCHANGED guard
<1>1. CASE Flushing(t)
  <2>1. pc[t] # "idle" /\ UNCHANGED guard
    BY <1>1
    DEF Flushing, EnterFlush, EnterFlushAll, FlushClean, FlushLog, FlushLogFails,
        FlushWrite, FlushWriteFails, Enters, clientVars
  <2>2. \A u \in Threads \ {t} : pc'[u] = pc[u]
    BY <1>1
    DEF Flushing, EnterFlush, EnterFlushAll, FlushClean, FlushLog, FlushLogFails,
        FlushWrite, FlushWriteFails, AfterFlush, Continue, Return, Bookkeeping, TypeOK
  <2> QED
    BY <2>1, <2>2
<1>2. CASE Fetching(t)
  <2>1. pc[t] # "idle" /\ UNCHANGED guard
    BY <1>2
    DEF Fetching, Allocate, FetchHit, FetchMiss, FetchNoFreeFrames, FetchLoad,
        FetchLoadFails, Enters, clientVars
  <2>2. \A u \in Threads \ {t} : pc'[u] = pc[u]
    BY <1>2
    DEF Fetching, Allocate, FetchHit, FetchMiss, FetchNoFreeFrames, FetchLoad,
        FetchLoadFails, Continue, Return, Bookkeeping, TypeOK
  <2> QED
    BY <2>1, <2>2
<1> QED
  BY <1>1, <1>2 DEF PoolStep

LEMMA StatementCallIsOutside ==
    ASSUME Bookkeeping, NEW t \in Threads, StatementCall(t)
    PROVE  /\ outer[t] = "exclusive" /\ UNCHANGED outer
           /\ \A u \in Threads \ {t} : pc'[u] = pc[u]
           /\ \A f \in Frames : guard'[f] \in {guard[f], t, NoThread}
<1>1. outer[t] = "exclusive" /\ UNCHANGED outer
  BY DEF StatementCall
<1>2. ASSUME NEW p \in PageIds, CallFetch(t, p) \/ CallNew(t, p)
      PROVE  UNCHANGED guard /\ \A u \in Threads \ {t} : pc'[u] = pc[u]
  BY <1>2 DEF CallFetch, CallNew, Calls, clientVars, Bookkeeping, TypeOK
<1>3. ASSUME NEW k \in PinsOf(t),
             \/ TakeGuard(t, k) \/ DropGuard(t, k)
             \/ \E stamp \in Stamps : Modify(t, k, stamp)
             \/ \E dirty \in BOOLEAN : Unpin(t, k, dirty)
      PROVE  /\ UNCHANGED pc
             /\ \A f \in Frames : guard'[f] \in {guard[f], t, NoThread}
  BY <1>3 DEF TakeGuard, DropGuard, Modify, Unpin, callVars, Bookkeeping, TypeOK
<1> QED
  BY <1>1, <1>2, <1>3 DEF StatementCall

LEMMA SharedStepKeepsLock ==
    ASSUME Bookkeeping, Bookkeeping', OuterLock, [SharedNext]_sharedVars
    PROVE  OuterLock'
<1> USE SharedAssumption, PoolAssumption
<1>1. /\ pc \in [Threads -> Steps] /\ pc' \in [Threads -> Steps]
      /\ guard \in [Frames -> Threads \union {NoThread}]
      /\ guard' \in [Frames -> Threads \union {NoThread}]
  BY DEF Bookkeeping, TypeOK
<1>2. ASSUME NEW t \in Threads, BeginStatement(t) PROVE OuterLock'
  <2>1. UNCHANGED <<pc, guard>>
    BY <1>2 DEF BeginStatement, vars, callVars, clientVars
  <2> QED
    BY <1>1, <1>2, <2>1 DEF OuterLock, BeginStatement
<1>3. ASSUME NEW t \in Threads, EndStatement(t) PROVE OuterLock'
  <2>1. UNCHANGED <<pc, guard>>
    BY <1>3 DEF EndStatement, vars, callVars, clientVars
  <2> QED
    BY <1>1, <1>3, <2>1 DEF OuterLock, EndStatement
<1>4. ASSUME NEW t \in Threads, BeginCheckpoint(t) PROVE OuterLock'
  <2>1. UNCHANGED guard /\ \A u \in Threads \ {t} : pc'[u] = pc[u]
    BY <1>1, <1>4 DEF BeginCheckpoint, CallFlushAll, Calls, clientVars
  <2> QED
    BY <1>1, <1>4, <2>1 DEF OuterLock, BeginCheckpoint
<1>5. ASSUME NEW t \in Threads, EndCheckpoint(t) PROVE OuterLock'
  <2>1. UNCHANGED <<pc, guard>>
    BY <1>5 DEF EndCheckpoint, vars, callVars, clientVars
  <2> QED
    BY <1>1, <1>5, <2>1 DEF OuterLock, EndCheckpoint
<1>6. ASSUME NEW t \in Threads, PoolRuns(t) PROVE OuterLock'
  <2>1. /\ pc[t] # "idle" /\ UNCHANGED <<guard, outer>>
        /\ \A u \in Threads \ {t} : pc'[u] = pc[u]
    BY <1>6, PoolStepIsInside DEF PoolRuns
  <2> QED
    BY <1>1, <2>1 DEF OuterLock
<1>7. ASSUME NEW t \in Threads, StatementCall(t) PROVE OuterLock'
  <2>1. /\ outer[t] = "exclusive" /\ UNCHANGED outer
        /\ \A u \in Threads \ {t} : pc'[u] = pc[u]
        /\ \A f \in Frames : guard'[f] \in {guard[f], t, NoThread}
    BY <1>7, StatementCallIsOutside
  <2> QED
    BY <1>1, <2>1 DEF OuterLock
<1>8. ASSUME UNCHANGED sharedVars PROVE OuterLock'
  BY <1>8 DEF sharedVars, vars, callVars, clientVars, OuterLock
<1> QED
  BY <1>2, <1>3, <1>4, <1>5, <1>6, <1>7, <1>8 DEF SharedNext

(***************************************************************************)
(* A checkpoint that flushes the pool never waits for a write guard: while *)
(* one is inside a call nobody holds a guard (main.rs, checkpointer thread *)
(* under the read lock, tree.rs split_leaf under the write lock).          *)
(***************************************************************************)
THEOREM CheckpointsMeetNoGuard == SharedSpec => []CheckpointMeetsNoGuard
<1>1. SharedInit => OuterLock
  BY DEF SharedInit, Init, OuterLock
<1>2. Bookkeeping /\ Bookkeeping' /\ OuterLock /\ [SharedNext]_sharedVars => OuterLock'
  BY SharedStepKeepsLock
<1>3. Bookkeeping /\ OuterLock => CheckpointMeetsNoGuard
  BY SharedAssumption DEF Bookkeeping, TypeOK, OuterLock, CheckpointMeetsNoGuard
<1> QED
  BY <1>1, <1>2, <1>3, BookkeepingInvariant, SharedUseIsPoolUse, PTL DEF SharedSpec
=============================================================================
