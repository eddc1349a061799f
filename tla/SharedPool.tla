----------------------------- MODULE SharedPool -----------------------------
(***************************************************************************)
(* How wackdb_cli shares the buffer pool: the pool is behind an            *)
(* Arc<RwLock<..>>, a statement holds the write lock from its first call   *)
(* to its last, and the background checkpointer holds the read lock while  *)
(* it flushes the pool.                                                    *)
(*                                                                         *)
(* The statements are those of the B-tree: they keep the write guard of a  *)
(* page while they fetch, create and unpin others (tree.rs, split_leaf),   *)
(* which flush_all_pages would wait for with the page-table mutex in its   *)
(* hand.  The outer lock is what keeps the two apart.                      *)
(***************************************************************************)
EXTENDS BufferPool

CONSTANTS Statements, Checkpointers

ASSUME SharedAssumption ==
    /\ Threads = Statements \union Checkpointers
    /\ Statements \intersect Checkpointers = {}
    /\ GuardsAcrossCalls = TRUE

VARIABLE outer                  \* thread -> its hold on the outer lock

sharedVars == <<vars, outer>>

SharedInit == Init /\ outer = [t \in Threads |-> "none"]

-----------------------------------------------------------------------------

BeginStatement(t) ==
    /\ t \in Statements
    /\ \A u \in Threads : outer[u] = "none"
    /\ outer' = [outer EXCEPT ![t] = "exclusive"]
    /\ UNCHANGED vars

(* The statement has dropped its guards; pins it forgot stay. *)
EndStatement(t) ==
    /\ outer[t] = "exclusive"
    /\ pc[t] = "idle"
    /\ \A f \in Frames : guard[f] # t
    /\ outer' = [outer EXCEPT ![t] = "none"]
    /\ UNCHANGED vars

(* Mutant: the checkpointer flushes without the outer lock. *)
BeginCheckpointUnlocked(t) ==
    /\ t \in Checkpointers
    /\ outer[t] = "none"
    /\ outer' = [outer EXCEPT ![t] = "shared"]
    /\ CallFlushAll(t)

(* The checkpointer takes the read lock and flushes. *)
BeginCheckpoint(t) ==
    /\ t \in Checkpointers
    /\ outer[t] = "none"
    /\ \A u \in Threads : outer[u] # "exclusive"
    /\ outer' = [outer EXCEPT ![t] = "shared"]
    /\ CallFlushAll(t)

EndCheckpoint(t) ==
    /\ outer[t] = "shared"
    /\ pc[t] = "idle"
    /\ outer' = [outer EXCEPT ![t] = "none"]
    /\ UNCHANGED vars

StatementCall(t) ==
    /\ outer[t] = "exclusive"
    /\ \/ \E p \in PageIds : CallFetch(t, p) \/ CallNew(t, p)
       \/ \E k \in PinsOf(t) :
             \/ TakeGuard(t, k)
             \/ DropGuard(t, k)
             \/ \E stamp \in Stamps : Modify(t, k, stamp)
             \/ \E dirty \in BOOLEAN : Unpin(t, k, dirty)
    /\ UNCHANGED outer

PoolRuns(t) == PoolStep(t) /\ UNCHANGED outer

SharedNext ==
    \E t \in Threads :
        \/ BeginStatement(t) \/ EndStatement(t) \/ StatementCall(t)
        \/ BeginCheckpoint(t) \/ EndCheckpoint(t)
        \/ PoolRuns(t)

(* A statement is finite: it stops calling, drops its guards and ends.     *)
SharedFairness ==
    \A t \in Threads :
        /\ WF_sharedVars(PoolRuns(t))
        /\ WF_sharedVars(outer[t] = "exclusive" /\ UNCHANGED outer
                             /\ \E k \in PinsOf(t) : DropGuard(t, k))
        /\ SF_sharedVars(EndStatement(t))
        /\ WF_sharedVars(EndCheckpoint(t))

SharedSpec == SharedInit /\ [][SharedNext]_sharedVars

FairSharedSpec == SharedSpec /\ SharedFairness

-----------------------------------------------------------------------------

(***************************************************************************)
(* While a checkpoint flushes, nobody holds a write guard, so the flush    *)
(* never waits for a caller that waits for the flush.                      *)
(***************************************************************************)
CheckpointMeetsNoGuard ==
    \A t \in Checkpointers :
        pc[t] # "idle" => \A f \in Frames : guard[f] = NoThread

=============================================================================
