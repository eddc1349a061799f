------------------------------- MODULE BTree --------------------------------
(***************************************************************************)
(* BTreeIndex (wackdb_btree, tree.rs): a B+-tree in the pages of a file.   *)
(*                                                                         *)
(* An operation runs alone, under the lock of the statement; it is cut     *)
(* where it goes from one level of the tree to the next, because the climb *)
(* after a split is a recursion in the code (insert_into_parent calls      *)
(* split_internal, which calls insert_into_parent).  What the operations   *)
(* see is that of the buffer pool: pages that keep what was written.       *)
(***************************************************************************)
EXTENDS Integers, Sequences, SequencesExt, Subsequences

CONSTANTS
    Keys,                       \* a set of integers
    CTIDs,                      \* key -> CTIDs its tuples have
    leaf_max_keys,              \* keys a leaf has room for
    internal_max_keys,          \* keys an internal node has room for
    MaxPages,                   \* bound: pages of the file
    MaxDeletes,                 \* bound: deletions
    INVALID_PAGE_ID

ASSUME BTreeAssumption ==
    /\ Keys \subseteq Int
    /\ leaf_max_keys \in Nat \ {0, 1}
    /\ internal_max_keys \in Nat \ {0, 1}
    /\ MaxPages \in Nat
    /\ MaxDeletes \in Nat
    /\ DOMAIN CTIDs = Keys
    /\ INVALID_PAGE_ID \notin 0 .. MaxPages - 1

VARIABLES
    nodes,                      \* page -> node
    total_pages,                \* pages allocated
    root_page_id,
    step,                       \* "idle", or what is left of the operation
    work,                       \* its arguments
    deletes                     \* counter of the bound

vars == <<nodes, total_pages, root_page_id, step, work, deletes>>

Pages == 0 .. MaxPages - 1
PageIds == Pages \union {INVALID_PAGE_ID}

Leaf(ks, vs, parent, next) ==
    [type |-> "leaf", keys |-> ks, values |-> vs, children |-> <<>>,
     parent |-> parent, next |-> next]
Internal(ks, cs, parent) ==
    [type |-> "internal", keys |-> ks, values |-> <<>>, children |-> cs,
     parent |-> parent, next |-> INVALID_PAGE_ID]
Zeros == [type |-> "none", keys |-> <<>>, values |-> <<>>, children |-> <<>>,
          parent |-> INVALID_PAGE_ID, next |-> INVALID_PAGE_ID]

(* What a split leaves to do: a key and a new node to the right of an old  *)
(* one, for their parent.  What a deletion leaves: a leaf that is short.   *)
Nothing == [old |-> INVALID_PAGE_ID, key |-> 0, new |-> INVALID_PAGE_ID,
            parent |-> INVALID_PAGE_ID]
Work(old, key, new, parent) == [old |-> old, key |-> key, new |-> new, parent |-> parent]

Room(type) == IF type = "leaf" THEN leaf_max_keys ELSE internal_max_keys

TypeOK ==
    /\ total_pages \in 0 .. MaxPages
    /\ root_page_id \in PageIds
    /\ step \in {"idle", "parent", "merge"}
    /\ \A p \in Pages : LET n == nodes[p] IN
         /\ n.type \in {"none", "leaf", "internal"}
         /\ n.type = "none" <=> p >= total_pages
         /\ n.keys \in Seq(Keys) /\ Len(n.keys) <= Room(n.type)
         /\ n.values \in Seq(UNION Range(CTIDs))
         /\ n.type = "leaf" => Len(n.values) = Len(n.keys)
         /\ n.children \in Seq(Pages)
         /\ n.type = "internal" => Len(n.children) = Len(n.keys) + 1
         /\ n.parent \in PageIds /\ n.next \in PageIds
    /\ deletes \in 0 .. MaxDeletes
    /\ work.old \in PageIds /\ work.new \in PageIds /\ work.parent \in PageIds

Init ==
    /\ nodes = [p \in Pages |-> Zeros]
    /\ total_pages = 0
    /\ root_page_id = INVALID_PAGE_ID
    /\ step = "idle"
    /\ work = Nothing
    /\ deletes = 0

-----------------------------------------------------------------------------
(* Finding a key *)

(* binary_search in sorted keys: where k is, or goes. *)
Position(ks, k) == Cardinality({ i \in DOMAIN ks : ks[i] < k }) + 1
Has(ks, k) == \E i \in DOMAIN ks : ks[i] = k

(* Mutant: the child left of a key that is equal. *)
ChildLeft(n, k) == n.children[Position(n.keys, k)]

(* The child right of the last key that is not greater. *)
Child(n, k) == n.children[Cardinality({ i \in DOMAIN n.keys : n.keys[i] <= k }) + 1]

FindLeafPage(k) ==
    LET leaf[p \in Pages] ==
            IF nodes[p].type = "internal" THEN leaf[Child(nodes[p], k)] ELSE p
    IN leaf[root_page_id]

(* The CTID of a key as a sequence, empty when the search fails. *)
Search(k) ==
    IF root_page_id = INVALID_PAGE_ID THEN <<>>
    ELSE LET n == nodes[FindLeafPage(k)] IN
         IF Has(n.keys, k) THEN <<n.values[Position(n.keys, k)]>> ELSE <<>>

(* The CTIDs of the keys of a leaf from a to b. *)
InRange(n, a, b) ==
    Picked(n.values, { i \in DOMAIN n.keys : a <= n.keys[i] /\ n.keys[i] <= b })

(* From the leaf of a along the chain, to the first leaf with a key above b. *)
RangeSearch(a, b) ==
    LET rest[p \in PageIds] ==
            IF p = INVALID_PAGE_ID THEN <<>>
            ELSE InRange(nodes[p], a, b) \o
                 (IF \E i \in DOMAIN nodes[p].keys : nodes[p].keys[i] > b
                  THEN <<>> ELSE rest[nodes[p].next])
    IN IF root_page_id = INVALID_PAGE_ID THEN <<>> ELSE rest[FindLeafPage(a)]

-----------------------------------------------------------------------------
(* insert *)

Put(p, n) == [nodes EXCEPT ![p] = n]
Idle == step' = "idle" /\ work' = Nothing

CreateRootAndInsert(k, v) ==
    /\ step = "idle"
    /\ root_page_id = INVALID_PAGE_ID
    /\ total_pages < MaxPages
    /\ nodes' = Put(total_pages, Leaf(<<k>>, <<v>>, INVALID_PAGE_ID, INVALID_PAGE_ID))
    /\ root_page_id' = total_pages
    /\ total_pages' = total_pages + 1
    /\ UNCHANGED <<step, work, deletes>>

(* Mutant: the values are not shifted with the keys. *)
WithEntryAppended(n, k, v) ==
    [n EXCEPT !.keys = InsertAt(@, Position(@, k), k), !.values = Append(@, v)]

(* The node with a key and its value put in their place. *)
WithEntry(n, k, v) ==
    [n EXCEPT !.keys = InsertAt(@, Position(@, k), k),
              !.values = InsertAt(@, Position(n.keys, k), v)]

InsertIntoLeaf(k, v) ==
    LET p == FindLeafPage(k)
        n == nodes[p] IN
    /\ step = "idle"
    /\ root_page_id # INVALID_PAGE_ID
    /\ ~Has(n.keys, k)
    /\ Len(n.keys) < leaf_max_keys
    /\ nodes' = Put(p, WithEntry(n, k, v))
    /\ UNCHANGED <<total_pages, root_page_id, step, work, deletes>>

(* A key that is there is refused, with no change. *)
DuplicateKey ==
    /\ step = "idle"
    /\ { k \in Keys : Search(k) # <<>> } # {}
    /\ UNCHANGED vars

(* The levels from a node to the root, for the bound on pages. *)
Height(p) ==
    LET up[q \in PageIds] == IF q = INVALID_PAGE_ID THEN 0 ELSE 1 + up[nodes[q].parent]
    IN up[p]

(* Mutant: the new leaf is not put into the chain. *)
LeftHalfUnchained(n, mid) ==
    [n EXCEPT !.keys = SubSeq(@, 1, mid), !.values = SubSeq(@, 1, mid)]

LeftHalf(n, mid) ==
    [n EXCEPT !.keys = SubSeq(@, 1, mid), !.values = SubSeq(@, 1, mid),
              !.next = total_pages]

RightHalf(n, mid) ==
    [n EXCEPT !.keys = SubSeq(@, mid + 1, Len(@)),
              !.values = SubSeq(@, mid + 1, Len(@))]

(* The entries, with the new one, are shared with a new leaf to the right. *)
SplitLeaf(k, v) ==
    LET p == FindLeafPage(k)
        all == WithEntry(nodes[p], k, v)
        mid == Len(nodes[p].keys) \div 2
        right == RightHalf(all, mid) IN
    /\ step = "idle"
    /\ root_page_id # INVALID_PAGE_ID
    /\ ~Has(nodes[p].keys, k)
    /\ Len(nodes[p].keys) >= leaf_max_keys
    /\ total_pages + Height(p) < MaxPages
    /\ nodes' = [Put(p, LeftHalf(all, mid)) EXCEPT ![total_pages] = right]
    /\ total_pages' = total_pages + 1
    /\ step' = "parent"
    /\ work' = Work(p, right.keys[1], total_pages, all.parent)
    /\ UNCHANGED <<root_page_id, deletes>>

(* create_new_root *)
CreateNewRoot ==
    /\ step = "parent"
    /\ work.parent = INVALID_PAGE_ID
    /\ nodes' = [nodes EXCEPT
                    ![total_pages] = Internal(<<work.key>>, <<work.old, work.new>>,
                                              INVALID_PAGE_ID),
                    ![work.old].parent = total_pages,
                    ![work.new].parent = total_pages]
    /\ root_page_id' = total_pages
    /\ total_pages' = total_pages + 1
    /\ Idle
    /\ UNCHANGED deletes

(* The parent with the key and the new child to its right put in place.    *)
WithChild(n, k, c) ==
    LET i == Position(n.keys, k) IN
    [n EXCEPT !.keys = InsertAt(@, i, k), !.children = InsertAt(@, i + 1, c)]

InsertIntoParent ==
    /\ step = "parent"
    /\ work.parent # INVALID_PAGE_ID
    /\ Len(nodes[work.parent].keys) < internal_max_keys
    /\ nodes' = Put(work.parent, WithChild(nodes[work.parent], work.key, work.new))
    /\ Idle
    /\ UNCHANGED <<total_pages, root_page_id, deletes>>

(* Mutant: the children that moved keep their parent. *)
AdoptedNot(n) == n

(* A child of the node that is allocated next. *)
Adopted(n) == [n EXCEPT !.parent = total_pages]

(* The middle key goes up; what is right of it goes to a new node, and the *)
(* children there get their new parent.                                    *)
SplitInternal ==
    LET p == work.parent
        all == WithChild(nodes[p], work.key, work.new)
        mid == Len(all.keys) \div 2
        left == [all EXCEPT !.keys = SubSeq(@, 1, mid), !.children = SubSeq(@, 1, mid + 1)]
        right == Internal(SubSeq(all.keys, mid + 2, Len(all.keys)),
                          SubSeq(all.children, mid + 2, Len(all.children)), all.parent) IN
    /\ step = "parent"
    /\ p # INVALID_PAGE_ID
    /\ Len(nodes[p].keys) >= internal_max_keys
    /\ nodes' = [q \in Pages |->
                    CASE q = p -> left
                      [] q = total_pages -> right
                      [] q \in Range(right.children) -> Adopted(nodes[q])
                      [] OTHER -> nodes[q]]
    /\ total_pages' = total_pages + 1
    /\ work' = Work(p, all.keys[mid + 1], total_pages, all.parent)
    /\ UNCHANGED <<root_page_id, step, deletes>>

-----------------------------------------------------------------------------
(* delete *)

KeyNotFound ==
    /\ step = "idle"
    /\ { k \in Keys : Search(k) = <<>> } # {}
    /\ UNCHANGED vars

(* A leaf that is not the root and less than half full is to be merged.    *)
Delete(k) ==
    LET p == FindLeafPage(k)
        i == Position(nodes[p].keys, k)
        n == [nodes[p] EXCEPT !.keys = RemoveAt(@, i), !.values = RemoveAt(@, i)]
        short == p # root_page_id /\ Len(n.keys) < leaf_max_keys \div 2 IN
    /\ step = "idle"
    /\ root_page_id # INVALID_PAGE_ID
    /\ Has(nodes[p].keys, k)
    /\ deletes < MaxDeletes
    /\ deletes' = deletes + 1
    /\ nodes' = Put(p, n)
    /\ step' = IF short THEN "merge" ELSE "idle"
    /\ work' = IF short THEN Work(p, 0, INVALID_PAGE_ID, n.parent) ELSE Nothing
    /\ UNCHANGED <<total_pages, root_page_id>>

(* Mutant: a first child has no sibling to merge with. *)
SiblingsLeftOnly ==
    LET cs == nodes[work.parent].children
        at == CHOOSE i \in DOMAIN cs : cs[i] = work.old
    IN IF at > 1 THEN {at - 1} ELSE {}

(* Where the pair to merge begins: at the left neighbour under the same    *)
(* parent, or at the leaf when it comes first; nowhere for an only child.  *)
Siblings ==
    LET cs == nodes[work.parent].children
        at == CHOOSE i \in DOMAIN cs : cs[i] = work.old
    IN IF at > 1 THEN {at - 1} ELSE IF Len(cs) > 1 THEN {1} ELSE {}

Combined(i) ==
    LET cs == nodes[work.parent].children
    IN Len(nodes[cs[i]].keys) + Len(nodes[cs[i + 1]].keys)

Merged(left, right) ==
    [left EXCEPT !.keys = @ \o right.keys, !.values = @ \o right.values,
                 !.next = right.next]

(* The right leaf of the pair is emptied into the left one and leaves the  *)
(* tree.  The parent may get short; nothing is done about that.            *)
MergeLeaf ==
    LET cs == nodes[work.parent].children IN
    /\ step = "merge"
    /\ \E i \in Siblings :
        /\ Combined(i) <= leaf_max_keys
        /\ nodes' = [nodes EXCEPT
              ![cs[i]] = Merged(@, nodes[cs[i + 1]]),
              ![work.parent].keys = RemoveAt(@, i),
              ![work.parent].children = RemoveAt(@, i + 1)]
    /\ Idle
    /\ UNCHANGED <<total_pages, root_page_id, deletes>>

(* No sibling, or one that is too full. *)
NoMerge ==
    /\ step = "merge"
    /\ \A i \in Siblings : Combined(i) > leaf_max_keys
    /\ Idle
    /\ UNCHANGED <<nodes, total_pages, root_page_id, deletes>>

-----------------------------------------------------------------------------

Next ==
    \/ \E k \in Keys : \E v \in CTIDs[k] :
          CreateRootAndInsert(k, v) \/ InsertIntoLeaf(k, v) \/ SplitLeaf(k, v)
    \/ \E k \in Keys : Delete(k)
    \/ DuplicateKey \/ KeyNotFound
    \/ CreateNewRoot \/ InsertIntoParent \/ SplitInternal
    \/ MergeLeaf \/ NoMerge

Spec == Init /\ [][Next]_vars

-----------------------------------------------------------------------------
(* Properties *)

(* The leaves, linked from the first page of the file. *)
Chain ==
    LET from[p \in PageIds] ==
            IF p = INVALID_PAGE_ID THEN <<>> ELSE <<p>> \o from[nodes[p].next]
    IN IF total_pages = 0 THEN <<>> ELSE from[0]

Entries ==
    LET slots == UNION { {p} \X DOMAIN nodes[p].keys : p \in Range(Chain) }
        key(s) == nodes[s[1]].keys[s[2]] IN
    [k \in { key(s) : s \in slots } |->
        LET s == CHOOSE s \in slots : key(s) = k IN nodes[s[1]].values[s[2]]]

(***************************************************************************)
(* The tree is an index: the leaves in their chain hold exactly the        *)
(* entries inserted and not deleted, each with its CTID; splits and merges *)
(* change nothing (tree.rs against the trait it implements).               *)
(***************************************************************************)
Index == INSTANCE IndexMap WITH entries <- Entries, CTIDs <- UNION Range(CTIDs)
ImplementsIndex == Index!Spec

(***************************************************************************)
(* Between operations the way down from the root finds every key the chain *)
(* of leaves holds, and no other (search against the splits and merges     *)
(* that move keys and separators).                                         *)
(***************************************************************************)
SearchFindsEntries ==
    step = "idle" => LET entries == Entries IN \A k \in Keys :
        Search(k) = IF k \in DOMAIN entries THEN <<entries[k]>> ELSE <<>>

(***************************************************************************)
(* A range search returns the entries of the range, all of them, once, and *)
(* in the order of their keys: the chain follows the order of the tree, a  *)
(* merged leaf is not visited, an empty one does not end the search.       *)
(***************************************************************************)
RangeSearchIsComplete ==
    step = "idle" => LET entries == Entries IN \A a, b \in Keys :
        LET wanted == { k \in DOMAIN entries : a <= k /\ k <= b }
            rank(k) == Cardinality({ x \in wanted : x <= k })
            results == RangeSearch(a, b) IN
        /\ Len(results) = Cardinality(wanted)
        /\ \A k \in wanted : results[rank(k)] = entries[k]

Reachable ==
    LET below[p \in Pages] == {p} \union UNION { below[c] : c \in Range(nodes[p].children) }
    IN IF root_page_id = INVALID_PAGE_ID THEN {} ELSE below[root_page_id]

ParentsAreRight ==
    \A p \in Reachable :
        /\ p = root_page_id => nodes[p].parent = INVALID_PAGE_ID
        /\ \A c \in Range(nodes[p].children) : nodes[c].parent = p

ChainIsLeaves ==
    /\ Range(Chain) = { p \in Reachable : nodes[p].type = "leaf" }
    /\ Len(Chain) = Cardinality(Range(Chain))

(***************************************************************************)
(* No node holds more keys than its page has room for, and between         *)
(* operations a node's parent pointer names the node it is a child of,     *)
(* after any sequence of splits and merges, which start from it (tree.rs   *)
(* split_internal, update_parent_id), and the chain visits every leaf of   *)
(* the tree once: merged leaves are out of both, and none is lost between  *)
(* two parents.                                                            *)
(***************************************************************************)
TreeIsSound == TypeOK /\ (step = "idle" => ParentsAreRight /\ ChainIsLeaves)

(***************************************************************************)
(* Deletions leave no empty leaf next to another leaf of the same parent:  *)
(* merging with one neighbour only is enough for that.                     *)
(***************************************************************************)
NoEmptyLeafBesideAnother ==
    step = "idle" => \A p \in Reachable :
        Len(nodes[p].children) > 1 =>
            \A c \in Range(nodes[p].children) : nodes[c].type = "leaf" => nodes[c].keys # <<>>
=============================================================================
