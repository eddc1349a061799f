----------------------------- MODULE MCDiskLog -----------------------------
(* Instances of the write-ahead log for TLC. *)
EXTENDS DiskLog, TLC

(* Threads take the same steps whatever their names. *)
Symmetry == Permutations(Threads)
=============================================================================
