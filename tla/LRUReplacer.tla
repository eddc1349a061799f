---------------------------- MODULE LRUReplacer ----------------------------
(***************************************************************************)
(* The replacement policy of the buffer pool (wackdb_buffer, lru.rs).      *)
(*                                                                         *)
(* One queue of frames in order of access, the most recent at the back,    *)
(* and one flag per frame that forbids its eviction.  Every operation of   *)
(* the code takes the mutex around both for its whole length, so each one  *)
(* is one action.  remove has no caller outside the crate and is left out.  *)
(***************************************************************************)
EXTENDS Naturals, Sequences, SequencesExt

CONSTANT capacity               \* number of frames of the pool, not 0

VARIABLES
    access_queue,               \* frames, the least recently used first
    is_pinned                   \* frame -> may the frame not be evicted?

lruVars == <<access_queue, is_pinned>>

Frames == 0 .. capacity - 1

(* A frame is in the queue at most once (record_access removes before it    *)
(* pushes), so that size() counts frames.                                  *)
LRUTypeOK ==
    /\ access_queue \in Seq(Frames)
    /\ is_pinned \in [Frames -> BOOLEAN]
    /\ IsInjective(access_queue)

LRUInit ==
    /\ access_queue = <<>>
    /\ is_pinned = [f \in Frames |-> FALSE]

-----------------------------------------------------------------------------

(* position: i is the first entry of f. *)
FirstAt(f, i) ==
    /\ access_queue[i] = f
    /\ \A j \in 1 .. i - 1 : access_queue[j] # f

Untracked(f) == \A i \in DOMAIN access_queue : access_queue[i] # f

(* Mutant: the entry moves to the wrong end. *)
RecordAccessAtFront(f) ==
    \/ Untracked(f) /\ access_queue' = <<f>> \o access_queue
    \/ \E i \in DOMAIN access_queue :
          FirstAt(f, i) /\ access_queue' = <<f>> \o RemoveAt(access_queue, i)

(* record_access: the entry of f, if there is one, moves to the back. *)
RecordAccess(f) ==
    \/ Untracked(f) /\ access_queue' = Append(access_queue, f)
    \/ \E i \in DOMAIN access_queue :
          FirstAt(f, i) /\ access_queue' = Append(RemoveAt(access_queue, i), f)

(* set_pin: only the flag changes; the place of f in the queue does not. *)
SetPin(f, pinned) ==
    is_pinned' = [is_pinned EXCEPT ![f] = pinned]

(* evict finds a victim: some tracked frame is not pinned. *)
HasVictim ==
    \E i \in DOMAIN access_queue : ~is_pinned[access_queue[i]]

(* Mutant: the front of the queue goes, pinned or not. *)
EvictFront(f) ==
    /\ access_queue # <<>>
    /\ f = Head(access_queue)
    /\ access_queue' = Tail(access_queue)

(* evict: f is the first unpinned frame from the front; it leaves the queue. *)
Evict(f) ==
    \E i \in DOMAIN access_queue :
        /\ access_queue[i] = f
        /\ ~is_pinned[f]
        /\ \A j \in 1 .. i - 1 : is_pinned[access_queue[j]]
        /\ access_queue' = RemoveAt(access_queue, i)

-----------------------------------------------------------------------------

LRUNext ==
    \E f \in Frames :
        \/ RecordAccess(f) /\ UNCHANGED is_pinned
        \/ \E pinned \in BOOLEAN : SetPin(f, pinned) /\ UNCHANGED access_queue
        \/ Evict(f) /\ UNCHANGED is_pinned

LRUSpec == LRUInit /\ [][LRUNext]_lruVars

-----------------------------------------------------------------------------

(* What the replacer promises: the order of last accesses. *)
Tracked == ToSet(access_queue)

Older ==
    { fg \in Tracked \X Tracked :
        \E i, j \in DOMAIN access_queue :
            i < j /\ access_queue[i] = fg[1] /\ access_queue[j] = fg[2] }

Policy == INSTANCE RecencyPolicy WITH
              Frames <- Frames, tracked <- Tracked, older <- Older

(***************************************************************************)
(* The queue implements the policy "evict the unpinned frame whose last    *)
(* access is the oldest" (lru.rs record_access, set_pin, evict).           *)
(***************************************************************************)
EvictsLeastRecentlyUsed == Policy!Spec

=============================================================================
