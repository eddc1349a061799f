----------------------------- MODULE MCCatalog -----------------------------
(* Instances of the catalog for TLC. *)
EXTENDS Catalog, TLC

(* Bound: a .reset is not combined with everything else that can go wrong, *)
(* but with one fault (as a partial .reset is) or one crash.               *)
OneThingWithReset == count.reset = 0 \/ count.fault + count.crash <= 1
=============================================================================
