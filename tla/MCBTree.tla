------------------------------ MODULE MCBTree -------------------------------
(* Instances of the tree for TLC. *)
EXTENDS BTree

(* One CTID for each key tells the values apart. *)
OneEach == [k \in Keys |-> {k}]
=============================================================================
