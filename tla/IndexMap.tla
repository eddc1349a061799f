------------------------------ MODULE IndexMap ------------------------------
(***************************************************************************)
(* What an index promises (wackdb_btree, traits.rs): it is a function from *)
(* the keys inserted and not deleted to the CTIDs given with them.  A key  *)
(* that is there is never overwritten.                                     *)
(***************************************************************************)
CONSTANTS Keys, CTIDs

VARIABLE entries                \* key -> CTID, for the keys in the index

TypeOK ==
    /\ DOMAIN entries \subseteq Keys
    /\ \A k \in DOMAIN entries : entries[k] \in CTIDs

Init == DOMAIN entries = {}

Present == DOMAIN entries

Keeps(ks) == \A k \in ks : entries'[k] = entries[k]

Insert ==
    \E k \in Keys \ Present :
        /\ Present' = Present \union {k}
        /\ entries'[k] \in CTIDs
        /\ Keeps(Present)

Delete ==
    \E k \in Present :
        /\ Present' = Present \ {k}
        /\ Keeps(Present \ {k})

Next == Insert \/ Delete

Spec == Init /\ [][Next]_entries
=============================================================================
