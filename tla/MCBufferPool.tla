---------------------------- MODULE MCBufferPool ----------------------------
(* Instances of the buffer pool for TLC. *)
EXTENDS BufferPool, TLC

(* Threads take the same steps whatever their names. *)
Symmetry == Permutations(Threads)

(* Bound: several pins at a time with the first write of a page, up to the *)
(* crash or drop; a second write, and what follows a crash, with one pin.  *)
PinsOrWrites == (losses = 0 /\ writes <= 1) \/ Cardinality(pins) <= 1

(* Bound: one frame at a time whose load failed.  While there is one, a    *)
(* single thread has calls or pins, and it does not go on after a write.   *)
FailedReadsAlone ==
    unread # {} =>
        /\ Cardinality(unread) <= 1
        /\ log_buffer = {}
        /\ Cardinality({ t \in Threads : pc[t] # "idle" \/ PinsOf(t) # {} }) <= 1
=============================================================================
