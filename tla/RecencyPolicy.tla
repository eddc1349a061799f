--------------------------- MODULE RecencyPolicy ---------------------------
(***************************************************************************)
(* What a least-recently-used replacer promises, without the queue: which  *)
(* frames it tracks, which of two tracked frames was used before the       *)
(* other, and that a victim is an unpinned frame no unpinned frame of the  *)
(* set is older than (trait ReplacementPolicy, wackdb_buffer/replacer.rs). *)
(* Pins change together with an access or between accesses, never with the *)
(* choice of a victim.                                                     *)
(***************************************************************************)
EXTENDS Naturals

CONSTANT Frames

VARIABLES
    tracked,                    \* the frames an eviction may choose from
    older,                      \* <<f, g>>: the last access of f precedes g's
    is_pinned

policyVars == <<tracked, older, is_pinned>>

Without(f) == { fg \in older : fg[1] # f /\ fg[2] # f }

Init ==
    /\ tracked = {}
    /\ older = {}
    /\ is_pinned = [f \in Frames |-> FALSE]

SetPins == is_pinned' \in [Frames -> BOOLEAN]

Access(f) ==
    /\ tracked' = tracked \union {f}
    /\ older' = Without(f) \union { <<g, f>> : g \in tracked \ {f} }
    /\ SetPins

Evict(f) ==
    /\ f \in tracked
    /\ ~is_pinned[f]
    /\ \A g \in tracked : <<g, f>> \in older => is_pinned[g]
    /\ tracked' = tracked \ {f}
    /\ older' = Without(f)
    /\ UNCHANGED is_pinned

(* A new process starts with nothing tracked. *)
Restart ==
    /\ tracked' = {}
    /\ older' = {}
    /\ is_pinned' = [f \in Frames |-> FALSE]

Next ==
    \/ \E f \in Frames : Access(f) \/ Evict(f)
    \/ SetPins /\ UNCHANGED <<tracked, older>>
    \/ Restart

Spec == Init /\ [][Next]_policyVars

=============================================================================
