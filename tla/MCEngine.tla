------------------------------ MODULE MCEngine ------------------------------
(* Instances of the engine for TLC. *)
EXTENDS Engine, TLC

(* No step looks at which key it works on. *)
Symmetry == Permutations(Keys)

Checkpointed == [fresh |-> FALSE, steal |-> FALSE]
CheckpointedStealing == [fresh |-> FALSE, steal |-> TRUE]
JustCreated == [fresh |-> TRUE, steal |-> FALSE]
JustCreatedStealing == [fresh |-> TRUE, steal |-> TRUE]

ShortOfSteal == {Checkpointed, JustCreatedStealing}
Calm == {Checkpointed}
Stealing == {CheckpointedStealing}
New == {JustCreated}

(* Bound: where single pages are written, three rows and crashes, of which *)
(* the crashes only serve to reach a root that is no node; where they are  *)
(* not, one checkpoint per fault and one more.                             *)
Small ==
    /\ steal => rows + crashes <= 3 /\ crashes <= 1
    /\ checkpoints <= 1 + faults
=============================================================================
