----------------------------- MODULE SavedValue -----------------------------
(***************************************************************************)
(* What a file that is replaced as a whole promises: there is a value in   *)
(* memory and a copy of it on disk.  The copy changes only to the value in *)
(* memory, completely and in one step; whoever loses the memory finds the  *)
(* copy.  catalog.json is such a file (Catalog.tla).                       *)
(***************************************************************************)
EXTENDS Naturals

CONSTANT Blank                  \* the value of a file that is not there

VARIABLES
    current,                    \* the value in memory
    durable,                    \* the copy
    losses, erasures            \* how often the memory was lost, and both
                                \* were erased on purpose

savedVars == <<current, durable, losses, erasures>>

Init == current = Blank /\ durable = Blank /\ losses = 0 /\ erasures = 0

(* The value in memory becomes some other one. *)
Change == UNCHANGED <<durable, losses, erasures>>

Save == durable' = current /\ UNCHANGED <<current, losses, erasures>>

Lose ==
    /\ current' = durable
    /\ losses' = losses + 1
    /\ UNCHANGED <<durable, erasures>>

(* An erasure that does not come to the file is a loss of the memory. *)
Erase ==
    /\ \/ current' = Blank /\ durable' = Blank
       \/ current' = durable /\ UNCHANGED durable
    /\ erasures' = erasures + 1
    /\ UNCHANGED losses

Next == Change \/ Save \/ Lose \/ Erase

Spec == Init /\ [][Next]_savedVars
=============================================================================
