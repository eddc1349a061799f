----------------------------- MODULE PageStore -----------------------------
(***************************************************************************)
(* What a buffer pool promises to its callers: a store of pages with a     *)
(* durable copy of each.  A page has the value last written to it; the     *)
(* durable copy is brought up to date in the background, one page at a     *)
(* time, and is what remains when memory is lost.                          *)
(***************************************************************************)
EXTENDS Naturals

CONSTANTS Pages, Values, Zero

VARIABLES
    store,                      \* page -> the value a reader sees
    durable,                    \* page -> the value in the file
    writes,                     \* how often a client modified a page
    losses                      \* how often memory was given up on purpose or not

storeVars == <<store, durable, writes, losses>>

Init ==
    /\ store = [p \in Pages |-> Zero]
    /\ durable = [p \in Pages |-> Zero]
    /\ writes = 0
    /\ losses = 0

Update(p) ==
    /\ \E v \in Values : store' = [store EXCEPT ![p] = v]
    /\ writes' = writes + 1
    /\ UNCHANGED <<durable, losses>>

Persist(p) ==
    /\ durable' = [durable EXCEPT ![p] = store[p]]
    /\ UNCHANGED <<store, writes, losses>>

(* Memory of some pages is lost: they fall back to the durable copy. *)
Lose ==
    /\ \E lost \in SUBSET Pages :
          store' = [p \in Pages |-> IF p \in lost THEN durable[p] ELSE store[p]]
    /\ losses' = losses + 1
    /\ UNCHANGED <<durable, writes>>

Next == (\E p \in Pages : Update(p) \/ Persist(p)) \/ Lose

Spec == Init /\ [][Next]_storeVars

=============================================================================
