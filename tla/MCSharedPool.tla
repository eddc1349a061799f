---------------------------- MODULE MCSharedPool ----------------------------
(* The pool under the outer lock of the command line, for TLC. *)
EXTENDS SharedPool
=============================================================================
