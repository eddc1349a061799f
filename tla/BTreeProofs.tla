---------------------------- MODULE BTreeProofs ----------------------------
(***************************************************************************)
(* Proofs about the B+-tree: whatever is inserted and deleted, at every    *)
(* step of a split or a merge, for every degree, set of keys and number of *)
(* pages.                                                                  *)
(***************************************************************************)
EXTENDS BTree, SubsequencesProofs, FiniteSetTheorems, TLAPS

-----------------------------------------------------------------------------
(* Sequences that an operation of the tree makes of another *)

(* t is s with e put at place i. *)
IsInserted(s, i, e, t) ==
    /\ Len(t) = Len(s) + 1
    /\ \A j \in 1 .. Len(s) + 1 :
          t[j] = IF j < i THEN s[j] ELSE IF j = i THEN e ELSE s[j - 1]

(* t is s without the entry at place i. *)
IsRemoved(s, i, t) ==
    /\ Len(t) = Len(s) - 1
    /\ \A j \in 1 .. Len(s) - 1 : t[j] = IF j < i THEN s[j] ELSE s[j + 1]

(* t is the n entries of s after the first a. *)
IsPart(s, a, n, t) ==
    /\ Len(t) = n
    /\ \A j \in 1 .. n : t[j] = s[a + j]

(* t is s and then u. *)
IsJoined(s, u, t) ==
    /\ Len(t) = Len(s) + Len(u)
    /\ \A j \in 1 .. Len(s) : t[j] = s[j]
    /\ \A j \in 1 .. Len(u) : t[Len(s) + j] = u[j]

(* SubSeq, InsertAt, RemoveAt and concatenation make the sequences just     *)
(* named. *)
LEMMA PartOf ==
    ASSUME NEW T, NEW s \in Seq(T), NEW a \in Nat, NEW b \in Nat, b <= Len(s), a <= b
    PROVE  SubSeq(s, a + 1, b) \in Seq(T) /\ IsPart(s, a, b - a, SubSeq(s, a + 1, b))
<1> DEFINE t == SubSeq(s, a + 1, b)
<1>1. /\ t \in Seq(T) /\ Len(t) = b - a
      /\ \A j \in 1 .. b - a : t[j] = s[(a + 1) + j - 1]
  OBVIOUS
<1>2. \A j \in 1 .. b - a : (a + 1) + j - 1 = a + j
  OBVIOUS
<1> HIDE DEF t
<1> QED BY <1>1, <1>2 DEF IsPart, t

LEMMA InsertedAt ==
    ASSUME NEW T, NEW s \in Seq(T), NEW i \in 1 .. Len(s) + 1, NEW e \in T
    PROVE  InsertAt(s, i, e) \in Seq(T) /\ IsInserted(s, i, e, InsertAt(s, i, e))
<1> DEFINE x == SubSeq(s, 1, i - 1)
           y == SubSeq(s, i, Len(s))
           z == <<e>>
           xz == x \o z
           t == xz \o y
<1>1. Len(s) \in Nat /\ i \in Nat /\ i >= 1 /\ i - 1 \in Nat /\ i - 1 <= Len(s)
  OBVIOUS
<1>2. x \in Seq(T) /\ IsPart(s, 0, i - 1, x)
  <2>1. SubSeq(s, 0 + 1, i - 1) \in Seq(T) /\ IsPart(s, 0, (i - 1) - 0, SubSeq(s, 0 + 1, i - 1))
    <3>1. 0 <= i - 1 /\ 0 \in Nat
      BY <1>1
    <3> QED BY <1>1, <3>1, PartOf
  <2>2. 0 + 1 = 1 /\ (i - 1) - 0 = i - 1
    BY <1>1
  <2> QED BY <2>1, <2>2
<1>3. y \in Seq(T) /\ IsPart(s, i - 1, Len(s) - (i - 1), y)
  <2>1. /\ SubSeq(s, (i - 1) + 1, Len(s)) \in Seq(T)
        /\ IsPart(s, i - 1, Len(s) - (i - 1), SubSeq(s, (i - 1) + 1, Len(s)))
    <3>1. Len(s) <= Len(s)
      BY <1>1
    <3> QED BY <1>1, <3>1, PartOf
  <2>2. (i - 1) + 1 = i
    BY <1>1
  <2> QED BY <2>1, <2>2
<1>4. z \in Seq(T) /\ Len(z) = 1 /\ z[1] = e
  OBVIOUS
<1> HIDE DEF x, y, z
<1>5. xz \in Seq(T) /\ Len(xz) = i /\ (\A j \in 1 .. i - 1 : xz[j] = s[j]) /\ xz[i] = e
  <2>1. Len(x) = i - 1 /\ \A j \in 1 .. i - 1 : x[j] = s[j]
    BY <1>2, <1>1 DEF IsPart
  <2>2. /\ xz \in Seq(T) /\ Len(xz) = Len(x) + Len(z)
        /\ \A j \in 1 .. Len(x) : xz[j] = x[j]
        /\ \A j \in 1 .. Len(z) : xz[Len(x) + j] = z[j]
    <3>1. x \in Seq(T) /\ z \in Seq(T)
      BY <1>2, <1>4
    <3> QED BY <3>1, ConcatEntries
  <2>3. (i - 1) + 1 = i /\ 1 \in 1 .. 1
    BY <1>1
  <2>4. xz[i] = e
    BY <2>1, <2>2, <2>3, <1>4
  <2> QED BY <2>1, <2>2, <2>3, <2>4, <1>4
<1> HIDE DEF xz
<1>6. /\ t \in Seq(T) /\ Len(t) = Len(xz) + Len(y)
      /\ \A j \in 1 .. Len(xz) : t[j] = xz[j]
      /\ \A j \in 1 .. Len(y) : t[Len(xz) + j] = y[j]
  <2>1. xz \in Seq(T) /\ y \in Seq(T)
    BY <1>3, <1>5
  <2> QED BY <2>1, ConcatEntries
<1>7. t = InsertAt(s, i, e)
  BY DEF InsertAt, xz, x, y, z
<1> HIDE DEF t
<1>8. Len(y) = Len(s) - (i - 1) /\ \A j \in 1 .. Len(s) - (i - 1) : y[j] = s[(i - 1) + j]
  BY <1>3 DEF IsPart
<1>9. Len(t) = Len(s) + 1
  BY <1>6, <1>8, <1>5, <1>1
<1>10. ASSUME NEW j \in 1 .. Len(s) + 1
       PROVE  t[j] = IF j < i THEN s[j] ELSE IF j = i THEN e ELSE s[j - 1]
  <2>1. CASE j < i
    <3>1. j \in 1 .. i - 1 /\ j \in 1 .. i
      BY <2>1, <1>1
    <3> QED BY <3>1, <1>6, <1>5, <2>1
  <2>2. CASE j = i
    <3>1. j \in 1 .. i /\ ~(j < i)
      BY <2>2, <1>1
    <3> QED BY <3>1, <1>6, <1>5, <2>2
  <2>3. CASE j > i
    <3>1. /\ j - i \in 1 .. Len(s) - (i - 1) /\ i + (j - i) = j
          /\ (i - 1) + (j - i) = j - 1 /\ ~(j < i) /\ j # i
      BY <2>3, <1>1
    <3>2. t[i + (j - i)] = y[j - i]
      BY <3>1, <1>6, <1>5, <1>8
    <3> QED BY <3>1, <3>2, <1>8
  <2> QED BY <2>1, <2>2, <2>3, <1>1
<1> QED
  BY <1>6, <1>7, <1>9, <1>10 DEF IsInserted

LEMMA RemovedAt ==
    ASSUME NEW T, NEW s \in Seq(T), NEW i \in 1 .. Len(s)
    PROVE  RemoveAt(s, i) \in Seq(T) /\ IsRemoved(s, i, RemoveAt(s, i))
<1> DEFINE x == SubSeq(s, 1, i - 1)
           y == SubSeq(s, i + 1, Len(s))
           t == x \o y
<1>1. Len(s) \in Nat /\ i \in Nat /\ i >= 1 /\ i - 1 \in Nat /\ i - 1 <= Len(s) /\ i <= Len(s)
  OBVIOUS
<1>2. x \in Seq(T) /\ IsPart(s, 0, i - 1, x)
  <2>1. SubSeq(s, 0 + 1, i - 1) \in Seq(T) /\ IsPart(s, 0, (i - 1) - 0, SubSeq(s, 0 + 1, i - 1))
    <3>1. 0 <= i - 1 /\ 0 \in Nat
      BY <1>1
    <3> QED BY <1>1, <3>1, PartOf
  <2>2. 0 + 1 = 1 /\ (i - 1) - 0 = i - 1
    BY <1>1
  <2> QED BY <2>1, <2>2
<1>3. y \in Seq(T) /\ IsPart(s, i, Len(s) - i, y)
  <2>1. Len(s) <= Len(s)
    BY <1>1
  <2> QED BY <1>1, <2>1, PartOf
<1> HIDE DEF x, y
<1>6. /\ t \in Seq(T) /\ Len(t) = Len(x) + Len(y)
      /\ \A j \in 1 .. Len(x) : t[j] = x[j]
      /\ \A j \in 1 .. Len(y) : t[Len(x) + j] = y[j]
  BY <1>2, <1>3, ConcatEntries
<1>7. t = RemoveAt(s, i)
  BY DEF RemoveAt, x, y
<1> HIDE DEF t
<1>8. /\ Len(y) = Len(s) - i /\ \A j \in 1 .. Len(s) - i : y[j] = s[i + j]
      /\ Len(x) = i - 1 /\ \A j \in 1 .. i - 1 : x[j] = s[0 + j]
  BY <1>2, <1>3 DEF IsPart
<1>9. Len(t) = Len(s) - 1
  BY <1>6, <1>8, <1>1
<1>10. ASSUME NEW j \in 1 .. Len(s) - 1
       PROVE  t[j] = IF j < i THEN s[j] ELSE s[j + 1]
  <2>1. CASE j < i
    <3>1. j \in 1 .. i - 1 /\ 0 + j = j
      BY <2>1, <1>1
    <3> QED BY <3>1, <1>6, <1>8, <2>1
  <2>3. CASE ~(j < i)
    <3>1. /\ j - (i - 1) \in 1 .. Len(s) - i /\ (i - 1) + (j - (i - 1)) = j
          /\ i + (j - (i - 1)) = j + 1
      BY <2>3, <1>1
    <3>2. t[(i - 1) + (j - (i - 1))] = y[j - (i - 1)]
      BY <3>1, <1>6, <1>8
    <3> QED BY <3>1, <3>2, <1>8, <2>3
  <2> QED BY <2>1, <2>3
<1> QED
  BY <1>6, <1>7, <1>9, <1>10 DEF IsRemoved

LEMMA Joined ==
    ASSUME NEW T, NEW s \in Seq(T), NEW u \in Seq(T)
    PROVE  s \o u \in Seq(T) /\ IsJoined(s, u, s \o u)
BY ConcatEntries DEF IsJoined

-----------------------------------------------------------------------------
(* Sorted keys *)

Sorted(ks) == \A i, j \in 1 .. Len(ks) : i < j => ks[i] < ks[j]

(* x is where the i-th child of a node with these keys has its entries. *)
Between(ks, i, x) == (i > 1 => ks[i - 1] <= x) /\ (i <= Len(ks) => x < ks[i])

(* A set of numbers that holds with each the ones before it is counted by  *)
(* its last one. *)
LEMMA CountedByLast ==
    ASSUME NEW n \in Nat, NEW S \in SUBSET (1 .. n),
           \A i \in S : \A j \in 1 .. n : j < i => j \in S
    PROVE  Cardinality(S) \in 0 .. n /\ \A i \in 1 .. n : i \in S <=> i <= Cardinality(S)
<1>1. \E m \in 0 .. n : S = 1 .. m
  <2>1. CASE S = {}
    <3>1. 1 .. 0 = {} /\ 0 \in 0 .. n
      OBVIOUS
    <3> QED BY <2>1, <3>1
  <2>2. CASE S # {}
    <3>1. S \in SUBSET Nat /\ \A x \in S : x <= n
      OBVIOUS
    <3>2. PICK m \in S : \A x \in S : m >= x
      BY <2>2, <3>1, LargestNumber
    <3>3. m \in 1 .. n /\ m \in 0 .. n
      BY <3>2
    <3>4. \A x : x \in S <=> x \in 1 .. m
      <4>1. ASSUME NEW x \in S PROVE x \in 1 .. m
        BY <3>2, <3>3
      <4>2. ASSUME NEW x \in 1 .. m PROVE x \in S
        <5>1. x \in 1 .. n /\ (x = m \/ x < m)
          BY <3>3
        <5> QED BY <5>1, <3>2
      <4> QED BY <4>1, <4>2
    <3> QED BY <3>3, <3>4
  <2> QED BY <2>1, <2>2
<1>2. PICK m \in 0 .. n : S = 1 .. m
  BY <1>1
<1>3. Cardinality(1 .. m) = m
  <2>1. 1 \in Int /\ m \in Int
    OBVIOUS
  <2>2. Cardinality(1 .. m) = IF 1 > m THEN 0 ELSE m - 1 + 1
    BY <2>1, FS_Interval
  <2> QED BY <2>2
<1> QED
  BY <1>2, <1>3

(* binary_search: the place of a key among sorted ones. *)
LEMMA PositionSplits ==
    ASSUME NEW ks \in Seq(Int), Sorted(ks), NEW k \in Int
    PROVE  /\ Position(ks, k) \in 1 .. Len(ks) + 1
           /\ \A j \in 1 .. Len(ks) : ks[j] < k <=> j < Position(ks, k)
<1> DEFINE S == { i \in DOMAIN ks : ks[i] < k }
<1>1. Len(ks) \in Nat /\ DOMAIN ks = 1 .. Len(ks) /\ \A i \in 1 .. Len(ks) : ks[i] \in Int
  OBVIOUS
<1>2. S \in SUBSET (1 .. Len(ks)) /\ \A i \in 1 .. Len(ks) : i \in S <=> ks[i] < k
  BY <1>1
<1>3. Position(ks, k) = Cardinality(S) + 1
  BY DEF Position
<1> HIDE DEF S
<1>4. \A i \in S : \A j \in 1 .. Len(ks) : j < i => j \in S
  BY <1>1, <1>2 DEF Sorted
<1>5. Cardinality(S) \in 0 .. Len(ks) /\ \A i \in 1 .. Len(ks) : i \in S <=> i <= Cardinality(S)
  BY <1>1, <1>2, <1>4, CountedByLast
<1>6. \A i \in 1 .. Len(ks) : i <= Cardinality(S) <=> i < Cardinality(S) + 1
  BY <1>5
<1> QED
  BY <1>2, <1>3, <1>5, <1>6, <1>1

(* The place of a key that is there. *)
LEMMA PositionOf ==
    ASSUME NEW ks \in Seq(Int), Sorted(ks), NEW i \in 1 .. Len(ks)
    PROVE  Position(ks, ks[i]) = i
<1>0. Len(ks) \in Nat /\ ks[i] \in Int /\ \A j \in 1 .. Len(ks) : ks[j] \in Int
  OBVIOUS
<1> DEFINE p == Position(ks, ks[i])
<1>1. p \in 1 .. Len(ks) + 1 /\ \A j \in 1 .. Len(ks) : ks[j] < ks[i] <=> j < p
  BY <1>0, PositionSplits
<1> HIDE DEF p
<1>2. ~(i < p)
  BY <1>0, <1>1
<1>3. CASE p < i
  <2>1. p \in 1 .. Len(ks)
    BY <1>1, <1>3
  <2>2. ks[p] < ks[i]
    BY <2>1, <1>3 DEF Sorted
  <2>3. p < p
    BY <2>1, <2>2, <1>1
  <2> QED BY <2>3, <1>1
<1> QED
  BY <1>1, <1>2, <1>3 DEF p

(* The child a search goes to is the one the key lies at. *)
LEMMA ChildBetween ==
    ASSUME NEW ks \in Seq(Int), Sorted(ks), NEW k \in Int
    PROVE  LET i == Cardinality({ j \in DOMAIN ks : ks[j] <= k }) + 1 IN
           i \in 1 .. Len(ks) + 1 /\ Between(ks, i, k)
<1> DEFINE S == { i \in DOMAIN ks : ks[i] <= k }
           c == Cardinality(S)
<1>1. Len(ks) \in Nat /\ DOMAIN ks = 1 .. Len(ks) /\ \A i \in 1 .. Len(ks) : ks[i] \in Int
  OBVIOUS
<1>2. S \in SUBSET (1 .. Len(ks)) /\ \A i \in 1 .. Len(ks) : i \in S <=> ks[i] <= k
  BY <1>1
<1> HIDE DEF S
<1>4. \A i \in S : \A j \in 1 .. Len(ks) : j < i => j \in S
  BY <1>1, <1>2 DEF Sorted
<1>5. c \in 0 .. Len(ks) /\ \A i \in 1 .. Len(ks) : i \in S <=> i <= c
  BY <1>1, <1>2, <1>4, CountedByLast
<1>6. c + 1 \in 1 .. Len(ks) + 1 /\ (c + 1) - 1 = c
  BY <1>1, <1>5
<1>7. c + 1 > 1 => ks[c] <= k
  BY <1>1, <1>2, <1>5
<1>8. c + 1 <= Len(ks) => k < ks[c + 1]
  <2>1. c + 1 <= Len(ks) => c + 1 \in 1 .. Len(ks) /\ ~(c + 1 <= c)
    BY <1>5, <1>1
  <2>2. c + 1 <= Len(ks) => ~(ks[c + 1] <= k) /\ ks[c + 1] \in Int
    BY <2>1, <1>2, <1>5, <1>1
  <2> QED BY <2>2
<1>9. Between(ks, c + 1, k)
  BY <1>6, <1>7, <1>8 DEF Between
<1> QED
  BY <1>6, <1>9 DEF S

(* A key lies at one child only, and further right than a smaller one. *)
LEMMA BetweenOrder ==
    ASSUME NEW ks \in Seq(Int), Sorted(ks), NEW i \in 1 .. Len(ks) + 1, NEW j \in 1 .. Len(ks) + 1,
           NEW x \in Int, NEW y \in Int, Between(ks, i, x), Between(ks, j, y), x <= y
    PROVE  i <= j
<1>0. Len(ks) \in Nat /\ \A l \in 1 .. Len(ks) : ks[l] \in Int
  OBVIOUS
<1>1. SUFFICES ASSUME j < i PROVE FALSE
  BY <1>0
<1>2. j \in 1 .. Len(ks) /\ i - 1 \in 1 .. Len(ks) /\ i > 1 /\ (j = i - 1 \/ j < i - 1)
  BY <1>0, <1>1
<1>3. ks[i - 1] <= x /\ y < ks[j]
  BY <1>2 DEF Between
<1>5. ks[j] \in Int /\ ks[i - 1] \in Int
  BY <1>0, <1>2
<1>4. ks[j] <= ks[i - 1]
  <2>1. j < i - 1 => ks[j] < ks[i - 1]
    BY <1>2 DEF Sorted
  <2>2. j = i - 1 => ks[j] = ks[i - 1]
    OBVIOUS
  <2> QED BY <2>1, <2>2, <1>2, <1>5
<1> QED
  BY <1>3, <1>4, <1>5

(* A key lies between one pair of neighbouring separators only. *)
LEMMA BetweenOnce ==
    ASSUME NEW ks \in Seq(Int), Sorted(ks), NEW i \in 1 .. Len(ks) + 1, NEW j \in 1 .. Len(ks) + 1,
           NEW x \in Int, Between(ks, i, x), Between(ks, j, x)
    PROVE  i = j
<1>1. i <= j /\ j <= i
  <2>1. x <= x
    OBVIOUS
  <2> QED BY <2>1, BetweenOrder
<1> QED BY <1>1

-----------------------------------------------------------------------------
(* What the changes of a node's keys do to its children's ranges *)

LEMMA InsertedSorted ==
    ASSUME NEW ks \in Seq(Int), Sorted(ks), NEW i \in 1 .. Len(ks) + 1, NEW key \in Int,
           \A j \in 1 .. Len(ks) : ks[j] < key <=> j < i,
           \A j \in 1 .. Len(ks) : ks[j] # key,
           NEW kt \in Seq(Int), IsInserted(ks, i, key, kt)
    PROVE  Sorted(kt)
<1>0. Len(ks) \in Nat /\ \A j \in 1 .. Len(ks) : ks[j] \in Int
  OBVIOUS
<1>1. Len(kt) = Len(ks) + 1
  BY DEF IsInserted
<1>2. ASSUME NEW a \in 1 .. Len(ks) + 1, NEW b \in 1 .. Len(ks) + 1, a < b
      PROVE  kt[a] < kt[b]
  <2>1. CASE b < i
    <3>1. kt[a] = ks[a] /\ kt[b] = ks[b] /\ a \in 1 .. Len(ks) /\ b \in 1 .. Len(ks)
      BY <1>0, <1>2, <2>1 DEF IsInserted
    <3> QED BY <3>1, <1>2 DEF Sorted
  <2>2. CASE b = i
    <3>1. kt[a] = ks[a] /\ kt[b] = key /\ a \in 1 .. Len(ks) /\ a < i
      BY <1>0, <1>2, <2>2 DEF IsInserted
    <3> QED BY <3>1
  <2>3. CASE b > i /\ a = i
    <3>1. kt[a] = key /\ kt[b] = ks[b - 1] /\ b - 1 \in 1 .. Len(ks) /\ ~(b - 1 < i)
      BY <1>0, <1>2, <2>3 DEF IsInserted
    <3> DEFINE c == b - 1
    <3>2. kt[a] = key /\ kt[b] = ks[c] /\ c \in 1 .. Len(ks) /\ ~(c < i)
      BY <3>1
    <3> HIDE DEF c
    <3>3. ks[c] # key /\ ~(ks[c] < key) /\ ks[c] \in Int
      BY <3>2, <1>0
    <3> QED BY <3>2, <3>3
  <2>4. CASE b > i /\ a < i
    <3>1. kt[a] = ks[a] /\ a \in 1 .. Len(ks) /\ b - 1 \in 1 .. Len(ks) /\ a < b - 1
      BY <1>0, <1>2, <2>4 DEF IsInserted
    <3>2. kt[b] = ks[b - 1]
      BY <1>0, <1>2, <2>4 DEF IsInserted
    <3> QED BY <3>1, <3>2 DEF Sorted
  <2>5. CASE b > i /\ a > i
    <3>1. a - 1 \in 1 .. Len(ks) /\ b - 1 \in 1 .. Len(ks) /\ a - 1 < b - 1
      BY <1>0, <1>2, <2>5
    <3>2. kt[b] = ks[b - 1]
      BY <1>0, <1>2, <2>5 DEF IsInserted
    <3>3. kt[a] = ks[a - 1]
      BY <1>0, <1>2, <2>5 DEF IsInserted
    <3> QED BY <3>1, <3>2, <3>3 DEF Sorted
  <2> QED BY <2>1, <2>2, <2>3, <2>4, <2>5, <1>0
<1> QED
  BY <1>1, <1>2 DEF Sorted

(* The child at the place of the new key shares its range with the one     *)
(* that is put to its right. *)
LEMMA InsertedBetween ==
    ASSUME NEW ks \in Seq(Int), NEW i \in 1 .. Len(ks) + 1, NEW key \in Int,
           i > 1 => ks[i - 1] < key, i <= Len(ks) => key < ks[i],
           NEW kt \in Seq(Int), IsInserted(ks, i, key, kt), NEW x \in Int
    PROVE  /\ \A j \in 1 .. i - 1 : Between(kt, j, x) <=> Between(ks, j, x)
           /\ Between(kt, i, x) <=> (Between(ks, i, x) /\ x < key)
           /\ Between(kt, i + 1, x) <=> (Between(ks, i, x) /\ ~(x < key))
           /\ \A j \in i + 1 .. Len(ks) + 1 : Between(kt, j + 1, x) <=> Between(ks, j, x)
<1>0. Len(ks) \in Nat /\ (\A j \in 1 .. Len(ks) : ks[j] \in Int) /\ Len(kt) = Len(ks) + 1
  BY DEF IsInserted
<1>00. \A j \in 1 .. Len(ks) + 1 :
          kt[j] = IF j < i THEN ks[j] ELSE IF j = i THEN key ELSE ks[j - 1]
  BY DEF IsInserted
<1>1. ASSUME NEW j \in 1 .. i - 1 PROVE Between(kt, j, x) <=> Between(ks, j, x)
  <2>1. j \in 1 .. Len(ks) /\ j <= Len(kt) /\ kt[j] = ks[j]
    <3>1. j \in 1 .. Len(ks) /\ j <= Len(kt) /\ j < i /\ j \in 1 .. Len(ks) + 1
      BY <1>0, <1>1
    <3> QED BY <3>1, <1>00
  <2>2. j > 1 => kt[j - 1] = ks[j - 1]
    <3>1. j > 1 => j - 1 \in 1 .. Len(ks) + 1 /\ j - 1 < i
      BY <1>0, <1>1
    <3> QED BY <3>1, <1>00
  <2>3. (j > 1 => kt[j - 1] <= x) <=> (j > 1 => ks[j - 1] <= x)
    BY <2>2
  <2>4. (j <= Len(kt) => x < kt[j]) <=> (j <= Len(ks) => x < ks[j])
    BY <2>1, <1>0
  <2> QED BY <2>3, <2>4 DEF Between
<1>2. /\ kt[i] = key
      /\ i <= Len(kt) /\ (i + 1) - 1 = i /\ i + 1 > 1
      /\ i > 1 => kt[i - 1] = ks[i - 1] /\ i - 1 \in 1 .. Len(ks)
  <2>1. i \in 1 .. Len(ks) + 1 /\ ~(i < i) /\ i <= Len(kt) /\ (i + 1) - 1 = i /\ i + 1 > 1
    BY <1>0
  <2>2. i > 1 => i - 1 \in 1 .. Len(ks) + 1 /\ i - 1 < i /\ i - 1 \in 1 .. Len(ks)
    BY <1>0
  <2> QED BY <2>1, <2>2, <1>00
<1>3. i <= Len(ks) => /\ i + 1 <= Len(kt) /\ kt[i + 1] = ks[i] /\ i \in 1 .. Len(ks)
                      /\ i + 1 \in 1 .. Len(ks) + 1
  <2>1. i <= Len(ks) => /\ i + 1 \in 1 .. Len(ks) + 1 /\ ~(i + 1 < i) /\ ~(i + 1 = i) /\ (i + 1) - 1 = i
                        /\ i + 1 <= Len(kt) /\ i \in 1 .. Len(ks)
    BY <1>0
  <2> QED BY <2>1, <1>00
<1>4. i + 1 <= Len(kt) => i <= Len(ks)
  BY <1>0
<1>5. Between(kt, i, x) <=> (Between(ks, i, x) /\ x < key)
  <2>1. i <= Len(ks) => ks[i] \in Int
    BY <1>0, <1>3
  <2>2. (x < key /\ i <= Len(ks)) => x < ks[i]
    BY <2>1
  <2> QED BY <1>2, <2>2 DEF Between
<1>6. Between(kt, i + 1, x) <=> (Between(ks, i, x) /\ ~(x < key))
  <2>1. i > 1 => ks[i - 1] \in Int
    BY <1>0, <1>2
  <2>2. (~(x < key) /\ i > 1) => ks[i - 1] <= x
    BY <2>1
  <2>3. key <= x <=> ~(x < key)
    OBVIOUS
  <2> QED BY <1>2, <1>3, <1>4, <2>2, <2>3 DEF Between
<1>7. ASSUME NEW j \in i + 1 .. Len(ks) + 1 PROVE Between(kt, j + 1, x) <=> Between(ks, j, x)
  <2>1. j > 1 /\ j + 1 > 1 /\ (j + 1) - 1 = j
    BY <1>0, <1>7
  <2>2. kt[j] = ks[j - 1]
    <3>1. j \in 1 .. Len(ks) + 1 /\ ~(j < i) /\ j # i
      BY <1>0, <1>7
    <3> QED BY <3>1, <1>00
  <2>3. j <= Len(ks) <=> j + 1 <= Len(kt)
    BY <1>0, <1>7
  <2>4. j <= Len(ks) => kt[j + 1] = ks[j]
    <3>1. j <= Len(ks) => j + 1 \in 1 .. Len(ks) + 1 /\ ~(j + 1 < i) /\ j + 1 # i /\ (j + 1) - 1 = j
      BY <1>0, <1>7
    <3> QED BY <3>1, <1>00
  <2> QED BY <2>1, <2>2, <2>3, <2>4 DEF Between
<1> QED
  BY <1>1, <1>5, <1>6, <1>7

(* Keys stay sorted when one of them is removed, and so is a part of them. *)
LEMMA RemovedSorted ==
    ASSUME NEW ks \in Seq(Int), Sorted(ks), NEW i \in 1 .. Len(ks),
           NEW kt \in Seq(Int), IsRemoved(ks, i, kt)
    PROVE  Sorted(kt)
<1>0. Len(ks) \in Nat /\ \A j \in 1 .. Len(ks) : ks[j] \in Int
  OBVIOUS
<1>1. Len(kt) = Len(ks) - 1
  BY DEF IsRemoved
<1>2. ASSUME NEW a \in 1 .. Len(ks) - 1, NEW b \in 1 .. Len(ks) - 1, a < b
      PROVE  kt[a] < kt[b]
  <2>1. kt[a] = (IF a < i THEN ks[a] ELSE ks[a + 1]) /\ kt[b] = (IF b < i THEN ks[b] ELSE ks[b + 1])
    BY DEF IsRemoved
  <2>2. /\ a \in 1 .. Len(ks) /\ b \in 1 .. Len(ks) /\ a + 1 \in 1 .. Len(ks) /\ b + 1 \in 1 .. Len(ks)
        /\ a < b + 1 /\ a + 1 < b + 1 /\ (b < i => a < i)
    BY <1>0, <1>2
  <2>3. ks[a] < ks[b] /\ ks[a] < ks[b + 1] /\ ks[a + 1] < ks[b + 1]
    BY <2>2, <1>2 DEF Sorted
  <2> QED BY <2>1, <2>2, <2>3
<1> QED
  BY <1>1, <1>2 DEF Sorted

(* The children at both sides of the key that goes make one range. *)
LEMMA RemovedBetween ==
    ASSUME NEW ks \in Seq(Int), Sorted(ks), NEW i \in 1 .. Len(ks),
           NEW kt \in Seq(Int), IsRemoved(ks, i, kt), NEW x \in Int
    PROVE  /\ \A j \in 1 .. i - 1 : Between(kt, j, x) <=> Between(ks, j, x)
           /\ Between(kt, i, x) <=> (Between(ks, i, x) \/ Between(ks, i + 1, x))
           /\ \A j \in i + 1 .. Len(ks) : Between(kt, j, x) <=> Between(ks, j + 1, x)
<1>0. Len(ks) \in Nat /\ (\A j \in 1 .. Len(ks) : ks[j] \in Int) /\ Len(kt) = Len(ks) - 1
  BY DEF IsRemoved
<1>00. \A j \in 1 .. Len(ks) - 1 : kt[j] = IF j < i THEN ks[j] ELSE ks[j + 1]
  BY DEF IsRemoved
<1>1. ASSUME NEW j \in 1 .. i - 1 PROVE Between(kt, j, x) <=> Between(ks, j, x)
  <2>1. j \in 1 .. Len(ks) - 1 /\ j < i /\ j <= Len(kt) /\ j <= Len(ks)
    BY <1>0, <1>1
  <2>2. j > 1 => j - 1 \in 1 .. Len(ks) - 1 /\ j - 1 < i
    BY <1>0, <1>1
  <2> QED BY <2>1, <2>2, <1>00 DEF Between
<1>2. i > 1 => kt[i - 1] = ks[i - 1] /\ i - 1 \in 1 .. Len(ks) /\ ks[i - 1] < ks[i]
  <2>1. i > 1 => i - 1 \in 1 .. Len(ks) - 1 /\ i - 1 < i /\ i - 1 \in 1 .. Len(ks)
    BY <1>0
  <2> QED BY <2>1, <1>00 DEF Sorted
<1>3. i <= Len(kt) <=> i + 1 <= Len(ks)
  BY <1>0
<1>4. i + 1 <= Len(ks) => kt[i] = ks[i + 1] /\ i + 1 \in 1 .. Len(ks) /\ ks[i] < ks[i + 1]
  <2>1. i + 1 <= Len(ks) => /\ i \in 1 .. Len(ks) - 1 /\ ~(i < i) /\ i + 1 \in 1 .. Len(ks)
                            /\ i < i + 1
    BY <1>0
  <2> QED BY <2>1, <1>00 DEF Sorted
<1>5. ks[i] \in Int /\ i <= Len(ks) /\ i + 1 > 1 /\ (i + 1) - 1 = i
  BY <1>0
<1>6. Between(kt, i, x) <=> (Between(ks, i, x) \/ Between(ks, i + 1, x))
  <2>1. Between(ks, i, x) <=> (i > 1 => ks[i - 1] <= x) /\ x < ks[i]
    BY <1>5 DEF Between
  <2>2. Between(ks, i + 1, x) <=> ks[i] <= x /\ (i + 1 <= Len(ks) => x < ks[i + 1])
    BY <1>5 DEF Between
  <2>3. Between(kt, i, x) <=> (i > 1 => ks[i - 1] <= x) /\ (i + 1 <= Len(ks) => x < ks[i + 1])
    BY <1>2, <1>3, <1>4 DEF Between
  <2>4. (i > 1 => ks[i - 1] \in Int) /\ (i + 1 <= Len(ks) => ks[i + 1] \in Int)
    BY <1>0, <1>2, <1>4
  <2>5. ks[i] <= x => (i > 1 => ks[i - 1] <= x)
    BY <2>4, <1>2, <1>5
  <2>6. x < ks[i] => (i + 1 <= Len(ks) => x < ks[i + 1])
    BY <2>4, <1>4, <1>5
  <2>7. x < ks[i] \/ ks[i] <= x
    BY <1>5
  <2> QED BY <2>1, <2>2, <2>3, <2>5, <2>6, <2>7
<1>7. ASSUME NEW j \in i + 1 .. Len(ks) PROVE Between(kt, j, x) <=> Between(ks, j + 1, x)
  <2>1. j > 1 /\ j + 1 > 1 /\ (j + 1) - 1 = j /\ (j - 1) + 1 = j
    BY <1>0, <1>7
  <2>2. j - 1 \in 1 .. Len(ks) - 1 /\ ~(j - 1 < i)
    BY <1>0, <1>7
  <2>3. kt[j - 1] = ks[j]
    BY <1>00, <2>1, <2>2
  <2>4. j <= Len(kt) <=> j + 1 <= Len(ks)
    BY <1>0, <1>7
  <2>5. j + 1 <= Len(ks) => j \in 1 .. Len(ks) - 1 /\ ~(j < i)
    BY <1>0, <1>7
  <2> QED BY <2>1, <2>3, <2>4, <2>5, <1>00 DEF Between
<1> QED
  BY <1>1, <1>6, <1>7

LEMMA PartSorted ==
    ASSUME NEW ks \in Seq(Int), Sorted(ks), NEW a \in Nat, NEW n \in Nat, a + n <= Len(ks),
           NEW kt \in Seq(Int), IsPart(ks, a, n, kt)
    PROVE  Sorted(kt)
<1>0. Len(ks) \in Nat /\ \A j \in 1 .. Len(ks) : ks[j] \in Int
  OBVIOUS
<1>1. Len(kt) = n /\ \A j \in 1 .. n : kt[j] = ks[a + j]
  BY DEF IsPart
<1>2. ASSUME NEW i \in 1 .. n, NEW j \in 1 .. n, i < j
      PROVE  kt[i] < kt[j]
  <2>1. a + i \in 1 .. Len(ks) /\ a + j \in 1 .. Len(ks) /\ a + i < a + j
    BY <1>0, <1>2
  <2> QED BY <2>1, <1>1 DEF Sorted
<1> QED
  BY <1>1, <1>2 DEF Sorted

(* The middle key m + 1 parts the children of a node and what lies at them. *)
LEMMA PartedBetween ==
    ASSUME NEW ks \in Seq(Int), Sorted(ks), NEW m \in Nat, m + 1 <= Len(ks),
           NEW left \in Seq(Int), IsPart(ks, 0, m, left),
           NEW right \in Seq(Int), IsPart(ks, m + 1, Len(ks) - (m + 1), right), NEW x \in Int
    PROVE  /\ x < ks[m + 1] =>
                \A j \in 1 .. m + 1 : Between(left, j, x) <=> Between(ks, j, x)
           /\ ~(x < ks[m + 1]) =>
                \A j \in 1 .. Len(ks) - m : Between(right, j, x) <=> Between(ks, m + 1 + j, x)
           /\ \A j \in 1 .. Len(ks) + 1 : Between(ks, j, x) => (j <= m + 1 <=> x < ks[m + 1])
<1>0. Len(ks) \in Nat /\ (\A j \in 1 .. Len(ks) : ks[j] \in Int) /\ m + 1 \in 1 .. Len(ks)
  OBVIOUS
<1>1. Len(left) = m /\ \A j \in 1 .. m : left[j] = ks[j]
  <2>1. \A j \in 1 .. m : 0 + j = j
    OBVIOUS
  <2> QED BY <2>1 DEF IsPart
<1>2. Len(right) = Len(ks) - (m + 1) /\ \A j \in 1 .. Len(ks) - (m + 1) : right[j] = ks[m + 1 + j]
  BY DEF IsPart
<1>3. ASSUME x < ks[m + 1], NEW j \in 1 .. m + 1
      PROVE  Between(left, j, x) <=> Between(ks, j, x)
  <2>1. j > 1 => j - 1 \in 1 .. m
    BY <1>3
  <2>2. (j <= m => j \in 1 .. m /\ j <= Len(ks)) /\ (~(j <= m) => j = m + 1)
    BY <1>0, <1>3
  <2> QED BY <2>1, <2>2, <1>1, <1>3 DEF Between
<1>4. ASSUME ~(x < ks[m + 1]), NEW j \in 1 .. Len(ks) - m
      PROVE  Between(right, j, x) <=> Between(ks, m + 1 + j, x)
  <2>1. j > 1 => j - 1 \in 1 .. Len(ks) - (m + 1) /\ m + 1 + (j - 1) = m + 1 + j - 1
    BY <1>0, <1>4
  <2>2. m + 1 + j > 1 /\ (j <= Len(ks) - (m + 1) <=> m + 1 + j <= Len(ks))
    BY <1>0, <1>4
  <2>3. j <= Len(ks) - (m + 1) => j \in 1 .. Len(ks) - (m + 1)
    BY <1>0, <1>4
  <2>4. ~(j > 1) => m + 1 + j - 1 = m + 1
    BY <1>4
  <2>5. ks[m + 1] <= x
    BY <1>0, <1>4
  <2>6. (j > 1 => right[j - 1] <= x) <=> ks[m + 1 + j - 1] <= x
    <3>1. CASE j > 1
      <4>1. right[j - 1] = ks[m + 1 + (j - 1)]
        BY <3>1, <2>1, <1>2
      <4>2. right[j - 1] = ks[m + 1 + j - 1]
        BY <3>1, <4>1, <2>1
      <4> QED BY <3>1, <4>2
    <3>2. CASE ~(j > 1)
      BY <3>2, <2>4, <2>5
    <3> QED BY <3>1, <3>2
  <2>7. (j <= Len(right) => x < right[j]) <=> (m + 1 + j <= Len(ks) => x < ks[m + 1 + j])
    BY <2>2, <2>3, <1>2
  <2> QED BY <2>6, <2>7, <2>2 DEF Between
<1>5. ASSUME NEW j \in 1 .. Len(ks) + 1, Between(ks, j, x) PROVE j <= m + 1 <=> x < ks[m + 1]
  <2>1. CASE j <= m + 1
    <3>1. j \in 1 .. Len(ks) /\ (j = m + 1 \/ j < m + 1)
      BY <1>0, <2>1
    <3>2. x < ks[j] /\ ks[j] \in Int
      BY <3>1, <1>0, <1>5 DEF Between
    <3>3. ks[j] <= ks[m + 1]
      BY <3>1, <1>0 DEF Sorted
    <3> QED BY <3>2, <3>3, <1>0, <2>1
  <2>2. CASE ~(j <= m + 1)
    <3>1. j > 1 /\ j - 1 \in 1 .. Len(ks) /\ (j - 1 = m + 1 \/ m + 1 < j - 1)
      BY <1>0, <2>2
    <3>2. ks[j - 1] <= x /\ ks[j - 1] \in Int
      BY <3>1, <1>0, <1>5 DEF Between
    <3>3. ks[m + 1] <= ks[j - 1]
      <4>1. CASE j - 1 = m + 1
        <5>1. ks[m + 1] = ks[j - 1]
          BY <4>1
        <5> QED BY <5>1, <3>2
      <4>2. CASE m + 1 < j - 1
        <5>1. ks[m + 1] < ks[j - 1]
          BY <4>2, <3>1, <1>0 DEF Sorted
        <5> QED BY <5>1, <3>2, <1>0
      <4> QED BY <3>1, <4>1, <4>2
    <3> QED BY <3>2, <3>3, <1>0, <2>2
  <2> QED BY <2>1, <2>2
<1> QED
  BY <1>3, <1>4, <1>5

-----------------------------------------------------------------------------
(* The shape of a tree *)

Convex(S) == \A x, z \in S : \A y \in Int : x <= y /\ y <= z => y \in S

LeafOK(n, S) ==
    /\ n.type = "leaf" /\ n.children = <<>>
    /\ n.keys \in Seq(Int) /\ Sorted(n.keys)
    /\ \A i \in 1 .. Len(n.keys) : n.keys[i] \in S

InnerOK(n) ==
    /\ n.type = "internal"
    /\ n.keys \in Seq(Int) /\ Sorted(n.keys)
    /\ n.children \in Seq(Pages) /\ Len(n.children) = Len(n.keys) + 1

(* The i-th child of a page names it as its parent, is one level down, and *)
(* covers the part of the page's range that lies between two keys.         *)
ChildOK(V, T, lev, R, p, i) ==
    /\ V[p].children[i] \in T
    /\ V[V[p].children[i]].parent = p
    /\ lev[V[p].children[i]] + 1 = lev[p]
    /\ \A x \in Int : x \in R[V[p].children[i]] <=> (x \in R[p] /\ Between(V[p].keys, i, x))

RangeOK(S) == S \subseteq Int /\ S # {} /\ Convex(S)

IsChild(n, x) == \E i \in 1 .. Len(n.children) : n.children[i] = x

PageOK(V, r, T, lev, R, p) ==
    /\ lev[p] \in Nat /\ lev[p] <= lev[r] /\ RangeOK(R[p])
    /\ lev[p] = 0 => LeafOK(V[p], R[p])
    /\ lev[p] # 0 => InnerOK(V[p]) /\ \A i \in 1 .. Len(V[p].children) : ChildOK(V, T, lev, R, p, i)
    /\ p # r => V[p].parent \in T /\ lev[V[p].parent] # 0 /\ IsChild(V[V[p].parent], p)

(* A page out of the tree. *)
FreeOK(V, T, lev, p) ==
    /\ V[p].type # "internal" /\ V[p].children = <<>>
    /\ V[p].parent = INVALID_PAGE_ID \/ (V[p].parent \in T /\ lev[V[p].parent] # 0)

(* The pages T with their levels and the ranges of keys they cover are the *)
(* tree of the nodes V with the root r.                                    *)
IsTree(V, r, T, lev, R) ==
    /\ T \subseteq Pages /\ r \in T /\ V[r].parent = INVALID_PAGE_ID /\ R[r] = Int
    /\ \A p \in T : PageOK(V, r, T, lev, R, p)
    /\ \A p \in Pages \ T : FreeOK(V, T, lev, p)

(* INVALID_PAGE_ID is no page. *)
LEMMA NoPage == INVALID_PAGE_ID \notin Pages
BY BTreeAssumption DEF Pages

(* What a page says of a child, and of the page it is a child of. *)
LEMMA ChildFacts ==
    ASSUME NEW V, NEW r, NEW T, NEW lev, NEW R, IsTree(V, r, T, lev, R),
           NEW p \in T, lev[p] # 0, NEW i \in 1 .. Len(V[p].children)
    PROVE  /\ V[p].children[i] \in T /\ V[p].children[i] # p /\ V[p].children[i] # r
           /\ V[V[p].children[i]].parent = p
           /\ lev[V[p].children[i]] + 1 = lev[p] /\ lev[V[p].children[i]] \in Nat /\ lev[p] \in Nat
           /\ \A x \in Int : x \in R[V[p].children[i]] <=> (x \in R[p] /\ Between(V[p].keys, i, x))
           /\ V[p].keys \in Seq(Int) /\ Sorted(V[p].keys)
           /\ Len(V[p].children) = Len(V[p].keys) + 1 /\ Len(V[p].keys) \in Nat
<1> DEFINE c == V[p].children[i]
<1>1. PageOK(V, r, T, lev, R, p)
  BY DEF IsTree
<1>2. ChildOK(V, T, lev, R, p, i) /\ InnerOK(V[p]) /\ lev[p] \in Nat
  BY <1>1 DEF PageOK
<1>3. c \in T /\ V[c].parent = p /\ lev[c] + 1 = lev[p]
  BY <1>2 DEF ChildOK
<1>4. lev[c] \in Nat
  BY <1>3 DEF IsTree, PageOK
<1>5. c # p
  <2>1. lev[c] # lev[p]
    BY <1>2, <1>3, <1>4
  <2> QED BY <2>1
<1>6. c # r
  <2>1. V[r].parent \notin T /\ p \in T
    BY NoPage DEF IsTree
  <2> QED BY <2>1, <1>3
<1>7. Len(V[p].keys) \in Nat
  <2>1. V[p].keys \in Seq(Int)
    BY <1>2 DEF InnerOK
  <2> QED BY <2>1
<1> QED
  BY <1>2, <1>3, <1>4, <1>5, <1>6, <1>7 DEF ChildOK, InnerOK

(* What a page of the tree covers, and how high it can be. *)
LEMMA RangeFacts ==
    ASSUME NEW V, NEW r, NEW T, NEW lev, NEW R, IsTree(V, r, T, lev, R), NEW p \in T
    PROVE  /\ R[p] \subseteq Int /\ R[p] # {} /\ Convex(R[p])
           /\ lev[p] \in Nat /\ lev[p] <= lev[r] /\ lev[r] \in Nat /\ p \in Pages
BY DEF IsTree, PageOK, RangeOK

(* No page is the child of another twice. *)
LEMMA ChildOnce ==
    ASSUME NEW V, NEW r, NEW T, NEW lev, NEW R, IsTree(V, r, T, lev, R),
           NEW p \in T, lev[p] # 0, NEW i \in 1 .. Len(V[p].children),
           NEW j \in 1 .. Len(V[p].children), V[p].children[i] = V[p].children[j]
    PROVE  i = j
<1> DEFINE c == V[p].children[i]
<1>1. /\ c \in T
      /\ \A x \in Int : x \in R[c] <=> (x \in R[p] /\ Between(V[p].keys, i, x))
      /\ V[p].keys \in Seq(Int) /\ Sorted(V[p].keys)
      /\ Len(V[p].children) = Len(V[p].keys) + 1
  BY ChildFacts
<1>2. \A x \in Int : x \in R[V[p].children[j]] <=> (x \in R[p] /\ Between(V[p].keys, j, x))
  BY ChildFacts
<1>3. V[p].children[j] = c
  OBVIOUS
<1> HIDE DEF c
<1>4. PICK x \in R[c] : x \in Int
  BY <1>1, RangeFacts
<1>5. Between(V[p].keys, i, x) /\ Between(V[p].keys, j, x)
  BY <1>1, <1>2, <1>3, <1>4
<1> QED
  BY <1>1, <1>4, <1>5, BetweenOnce

(* The place of a page among the children of its parent. *)
LEMMA ParentFacts ==
    ASSUME NEW V, NEW r, NEW T, NEW lev, NEW R, IsTree(V, r, T, lev, R), NEW p \in T, p # r
    PROVE  /\ V[p].parent \in T /\ lev[V[p].parent] # 0 /\ V[p].parent # p
           /\ lev[p] + 1 = lev[V[p].parent]
           /\ \E i \in 1 .. Len(V[V[p].parent].children) : V[V[p].parent].children[i] = p
<1>1. V[p].parent \in T /\ lev[V[p].parent] # 0 /\ IsChild(V[V[p].parent], p)
  BY DEF IsTree, PageOK
<1>2. PICK i \in 1 .. Len(V[V[p].parent].children) : V[V[p].parent].children[i] = p
  BY <1>1 DEF IsChild
<1>3. V[V[p].parent].children[i] # V[p].parent /\ lev[V[V[p].parent].children[i]] + 1 = lev[V[p].parent]
  BY <1>1, ChildFacts
<1> QED
  BY <1>1, <1>2, <1>3

-----------------------------------------------------------------------------
(* Changes of leaves *)

(* W has the tree of V, with other entries in its leaves. *)
SameTree(V, W, T, lev, R) ==
    /\ \A x \in Pages : /\ W[x].type = V[x].type /\ W[x].parent = V[x].parent
                        /\ W[x].children = V[x].children
    /\ \A x \in T : lev[x] # 0 => W[x].keys = V[x].keys
    /\ \A x \in T : lev[x] = 0 => LeafOK(W[x], R[x])

(* A change that leaves parents, separators and children alone, and keeps   *)
(* each leaf in its range, leaves the tree. *)
LEMMA SameTreeKept ==
    ASSUME NEW V, NEW W, NEW r, NEW T, NEW lev, NEW R, IsTree(V, r, T, lev, R),
           SameTree(V, W, T, lev, R)
    PROVE  IsTree(W, r, T, lev, R)
<1>1. /\ T \subseteq Pages /\ r \in T /\ V[r].parent = INVALID_PAGE_ID /\ R[r] = Int
      /\ \A p \in T : PageOK(V, r, T, lev, R, p)
      /\ \A p \in Pages \ T : FreeOK(V, T, lev, p)
  BY DEF IsTree
<1>2. /\ \A x \in Pages : /\ W[x].type = V[x].type /\ W[x].parent = V[x].parent
                          /\ W[x].children = V[x].children
      /\ \A x \in T : lev[x] # 0 => W[x].keys = V[x].keys
      /\ \A x \in T : lev[x] = 0 => LeafOK(W[x], R[x])
  BY DEF SameTree
<1>3. ASSUME NEW p \in T PROVE PageOK(W, r, T, lev, R, p)
  <2>1. PageOK(V, r, T, lev, R, p) /\ p \in Pages
    BY <1>1
  <2>2. lev[p] # 0 => InnerOK(W[p])
    BY <2>1, <1>2 DEF PageOK, InnerOK
  <2>3. ASSUME lev[p] # 0, NEW i \in 1 .. Len(W[p].children) PROVE ChildOK(W, T, lev, R, p, i)
    <3>1. W[p].children = V[p].children /\ W[p].keys = V[p].keys
      BY <2>1, <2>3, <1>2
    <3>2. ChildOK(V, T, lev, R, p, i)
      BY <2>1, <2>3, <3>1 DEF PageOK
    <3> QED BY <3>1, <3>2, <1>1, <1>2 DEF ChildOK
  <2>4. ASSUME p # r
        PROVE  W[p].parent \in T /\ lev[W[p].parent] # 0 /\ IsChild(W[W[p].parent], p)
    <3>1. V[p].parent \in T /\ lev[V[p].parent] # 0 /\ IsChild(V[V[p].parent], p)
      BY <2>1, <2>4 DEF PageOK
    <3>2. W[p].parent = V[p].parent /\ W[V[p].parent].children = V[V[p].parent].children
      BY <2>1, <3>1, <1>1, <1>2
    <3> QED BY <3>1, <3>2 DEF IsChild
  <2> QED BY <2>1, <2>2, <2>3, <2>4, <1>2 DEF PageOK
<1>4. ASSUME NEW p \in Pages \ T PROVE FreeOK(W, T, lev, p)
  <2>1. FreeOK(V, T, lev, p)
    BY <1>1
  <2> QED BY <2>1, <1>2 DEF FreeOK
<1> QED
  BY <1>1, <1>2, <1>3, <1>4 DEF IsTree

(* The first leaf is a tree. *)
LEMMA FirstTree ==
    ASSUME NEW V, NEW r \in Pages, NEW lev, NEW R,
           lev[r] = 0, R[r] = Int, LeafOK(V[r], Int), V[r].parent = INVALID_PAGE_ID,
           \A x \in Pages \ {r} : V[x] = Zeros
    PROVE  IsTree(V, r, {r}, lev, R)
<1>1. RangeOK(R[r])
  <2>1. 0 \in R[r]
    OBVIOUS
  <2> QED BY <2>1 DEF RangeOK, Convex
<1>2. PageOK(V, r, {r}, lev, R, r)
  <2>1. 0 \in Nat /\ 0 <= 0
    OBVIOUS
  <2> QED BY <1>1, <2>1 DEF PageOK
<1>3. ASSUME NEW x \in Pages \ {r} PROVE FreeOK(V, {r}, lev, x)
  <2>1. V[x] = Zeros
    OBVIOUS
  <2> QED BY <2>1 DEF FreeOK, Zeros
<1> QED
  BY <1>2, <1>3 DEF IsTree

(* A new root over the old one. *)
RootLev(lev, r, f) == [x \in Pages |-> IF x = f THEN lev[r] + 1 ELSE lev[x]]
RootRange(R, f) == [x \in Pages |-> IF x = f THEN Int ELSE R[x]]

(* A new page over the root, with the root as its only child, makes a tree  *)
(* that is one level higher. *)
LEMMA RootAdded ==
    ASSUME NEW V, NEW W, NEW r, NEW T, NEW lev, NEW R, IsTree(V, r, T, lev, R),
           NEW f \in Pages \ T,
           W[f] = Internal(<<>>, <<r>>, INVALID_PAGE_ID),
           \A x \in Pages \ {f} : /\ W[x].type = V[x].type /\ W[x].keys = V[x].keys
                                  /\ W[x].children = V[x].children
                                  /\ W[x].parent = IF x = r THEN f ELSE V[x].parent
    PROVE  IsTree(W, f, T \union {f}, RootLev(lev, r, f), RootRange(R, f))
<1> DEFINE l == RootLev(lev, r, f)
           S == RootRange(R, f)
           U == T \union {f}
<1>1. /\ T \subseteq Pages /\ r \in T /\ V[r].parent = INVALID_PAGE_ID /\ R[r] = Int
      /\ \A p \in T : PageOK(V, r, T, lev, R, p)
      /\ \A p \in Pages \ T : FreeOK(V, T, lev, p)
  BY DEF IsTree
<1>2. \A x \in T : x \in Pages \ {f} /\ x # f /\ l[x] = lev[x] /\ S[x] = R[x]
  BY <1>1 DEF RootLev, RootRange
<1>3. l[f] = lev[r] + 1 /\ S[f] = Int
  BY DEF RootLev, RootRange
<1> HIDE DEF l, S
<1>4. /\ W[f].type = "internal" /\ W[f].keys = <<>> /\ W[f].children = <<r>>
      /\ W[f].parent = INVALID_PAGE_ID
  BY DEF Internal
<1>5. \A x \in T : /\ W[x].type = V[x].type /\ W[x].keys = V[x].keys
                   /\ W[x].children = V[x].children
                   /\ W[x].parent = IF x = r THEN f ELSE V[x].parent
  BY <1>2
<1>6. \A x \in T : lev[x] \in Nat /\ lev[x] <= lev[r] /\ RangeOK(R[x])
  BY <1>1 DEF PageOK
<1>7. lev[r] \in Nat /\ lev[r] + 1 \in Nat /\ lev[r] + 1 # 0
  BY <1>1, <1>6
<1>8. \A x \in T : lev[x] <= lev[r] + 1
  BY <1>6, <1>7
<1>9. PageOK(W, f, U, l, S, f)
  <2>1. RangeOK(S[f])
    <3>1. 0 \in Int
      OBVIOUS
    <3> QED BY <3>1, <1>3 DEF RangeOK, Convex
  <2>2. <<>> \in Seq(Int) /\ Len(<<>>) = 0 /\ Sorted(<<>>) /\ <<r>> \in Seq(Pages) /\ Len(<<r>>) = 1
        /\ <<r>>[1] = r
    BY <1>1 DEF Sorted
  <2> DEFINE none == <<>>
             only == <<r>>
  <2>10. /\ none \in Seq(Int) /\ Len(none) = 0 /\ Sorted(none) /\ only \in Seq(Pages) /\ Len(only) = 1
         /\ only[1] = r /\ W[f].keys = none /\ W[f].children = only
    BY <1>4, <2>2
  <2> HIDE DEF none, only
  <2>3. InnerOK(W[f])
    <3>1. 1 = 0 + 1
      OBVIOUS
    <3> QED BY <1>4, <2>10, <3>1 DEF InnerOK
  <2>4. ASSUME NEW i \in 1 .. Len(W[f].children) PROVE ChildOK(W, U, l, S, f, i)
    <3>1. i = 1
      <4>1. Len(W[f].children) = 1
        BY <2>10
      <4>2. i \in 1 .. 1
        BY <4>1
      <4> QED BY <4>2
    <3>2. W[f].children[i] = r
      BY <3>1, <2>10
    <3>3. W[r].parent = f /\ l[r] + 1 = l[f] /\ S[r] = Int
      BY <1>1, <1>2, <1>3, <1>5
    <3>4. \A x \in Int : Between(W[f].keys, i, x)
      <4>1. Len(W[f].keys) = 0 /\ ~(1 <= 0) /\ ~(1 > 1)
        BY <2>10
      <4> QED BY <4>1, <3>1 DEF Between
    <3> QED BY <3>2, <3>3, <3>4, <1>1, <1>3 DEF ChildOK
  <2>5. l[f] <= l[f]
    BY <1>3, <1>7
  <2> QED BY <2>1, <2>3, <2>4, <2>5, <1>3, <1>7 DEF PageOK
<1>10. ASSUME NEW x \in T PROVE PageOK(W, f, U, l, S, x)
  <2>1. PageOK(V, r, T, lev, R, x)
    BY <1>1
  <2>2. l[x] \in Nat /\ l[x] <= l[f] /\ RangeOK(S[x]) /\ l[x] = lev[x] /\ S[x] = R[x]
    BY <1>2, <1>3, <1>6, <1>8
  <2>3. l[x] = 0 => LeafOK(W[x], S[x])
    BY <2>1, <2>2, <1>5 DEF PageOK, LeafOK
  <2>4. l[x] # 0 => InnerOK(W[x])
    BY <2>1, <2>2, <1>5 DEF PageOK, InnerOK
  <2>5. ASSUME l[x] # 0, NEW i \in 1 .. Len(W[x].children) PROVE ChildOK(W, U, l, S, x, i)
    <3>1. W[x].children = V[x].children /\ W[x].keys = V[x].keys /\ lev[x] # 0
      BY <2>2, <2>5, <1>5
    <3> DEFINE c == V[x].children[i]
    <3>2. /\ c \in T /\ c # r /\ V[c].parent = x /\ lev[c] + 1 = lev[x]
          /\ \A y \in Int : y \in R[c] <=> (y \in R[x] /\ Between(V[x].keys, i, y))
      BY <3>1, <2>5, ChildFacts
    <3>3. W[c].parent = x /\ l[c] + 1 = l[x] /\ S[c] = R[c]
      BY <3>2, <1>2, <1>5
    <3>4. W[x].children[i] = c
      BY <3>1
    <3> HIDE DEF c
    <3> QED BY <3>1, <3>2, <3>3, <3>4, <2>2 DEF ChildOK
  <2>6. W[x].parent \in U /\ l[W[x].parent] # 0 /\ IsChild(W[W[x].parent], x)
    <3>1. CASE x = r
      <4>1. W[x].parent = f
        BY <3>1, <1>5
      <4>2. <<r>>[1] = r /\ 1 \in 1 .. Len(<<r>>)
        OBVIOUS
      <4>3. IsChild(W[f], x)
        BY <4>2, <3>1, <1>4 DEF IsChild
      <4> QED BY <4>1, <4>3, <1>3, <1>7
    <3>2. CASE x # r
      <4>1. V[x].parent \in T /\ lev[V[x].parent] # 0 /\ IsChild(V[V[x].parent], x)
        BY <2>1, <3>2 DEF PageOK
      <4>2. W[x].parent = V[x].parent /\ l[V[x].parent] = lev[V[x].parent]
            /\ W[V[x].parent].children = V[V[x].parent].children
        BY <4>1, <3>2, <1>2, <1>5
      <4> QED BY <4>1, <4>2 DEF IsChild
    <3> QED BY <3>1, <3>2
  <2> QED BY <2>2, <2>3, <2>4, <2>5, <2>6 DEF PageOK
<1>11. ASSUME NEW x \in Pages \ U PROVE FreeOK(W, U, l, x)
  <2>1. FreeOK(V, T, lev, x) /\ x # r /\ x \in Pages \ {f}
    BY <1>1
  <2>2. W[x].type = V[x].type /\ W[x].children = V[x].children /\ W[x].parent = V[x].parent
    BY <2>1
  <2>3. V[x].parent \in T => l[V[x].parent] = lev[V[x].parent]
    BY <1>2
  <2> QED BY <2>1, <2>2, <2>3 DEF FreeOK
<1>12. U \subseteq Pages /\ f \in U
  BY <1>1
<1> QED
  BY <1>3, <1>4, <1>9, <1>10, <1>11, <1>12 DEF IsTree, l, S

-----------------------------------------------------------------------------
(* Splits *)

SplitLev(lev, p, new) == [x \in Pages |-> IF x = new THEN lev[p] ELSE lev[x]]
Below(S, key) == { z \in S : z < key }
NotBelow(S, key) == { z \in S : ~(z < key) }
SplitRange(R, p, new, key) ==
    [x \in Pages |-> IF x = p THEN Below(R[p], key)
                     ELSE IF x = new THEN NotBelow(R[p], key) ELSE R[x]]

(* The children of an internal node n are parted between left and right,   *)
(* where the key is, and lie there as they did in n.                       *)
PartsOK(n, left, right, key) ==
    /\ InnerOK(left) /\ InnerOK(right)
    /\ Len(left.children) + Len(right.children) = Len(n.children)
    /\ \A j \in 1 .. Len(left.children) : left.children[j] = n.children[j]
    /\ \A j \in 1 .. Len(right.children) : right.children[j] = n.children[Len(left.children) + j]
    /\ \A x \in Int : x < key => \A j \in 1 .. Len(left.children) :
          Between(left.keys, j, x) <=> Between(n.keys, j, x)
    /\ \A x \in Int : ~(x < key) => \A j \in 1 .. Len(right.children) :
          Between(right.keys, j, x) <=> Between(n.keys, Len(left.children) + j, x)
    /\ \A x \in Int : \A j \in 1 .. Len(n.children) :
          Between(n.keys, j, x) => (j <= Len(left.children) <=> x < key)

(* W is V with the page p, the i-th child of q, split at the key: what is  *)
(* not below it is in the page new, which q has as its next child.         *)
IsSplit(V, W, T, lev, R, p, q, i, key, new) ==
    /\ p \in T /\ q = V[p].parent /\ q \in T /\ lev[q] # 0
    /\ i \in 1 .. Len(V[q].children) /\ V[q].children[i] = p
    /\ new \in Pages \ T
    /\ key \in Int /\ key \in R[p] /\ \E x \in R[p] : x < key
    /\ W[q].type = V[q].type /\ W[q].parent = V[q].parent
    /\ W[q].keys \in Seq(Int) /\ IsInserted(V[q].keys, i, key, W[q].keys)
    /\ W[q].children \in Seq(Pages) /\ IsInserted(V[q].children, i + 1, new, W[q].children)
    /\ W[p].parent = q /\ W[new].parent = q
    /\ \A x \in Pages \ {p, q, new} :
          /\ W[x].type = V[x].type /\ W[x].keys = V[x].keys /\ W[x].children = V[x].children
          /\ W[x].parent = IF IsChild(W[new], x) THEN new ELSE V[x].parent
    /\ lev[p] = 0 => LeafOK(W[p], Below(R[p], key)) /\ LeafOK(W[new], NotBelow(R[p], key))
    /\ lev[p] # 0 => PartsOK(V[p], W[p], W[new], key)

(* The part of a range below a key of it, and the part from there on, are   *)
(* ranges. *)
LEMMA SplitRanges ==
    ASSUME NEW S, RangeOK(S), NEW key \in S, \E x \in S : x < key
    PROVE  RangeOK(Below(S, key)) /\ RangeOK(NotBelow(S, key))
<1>0. S \subseteq Int /\ Convex(S)
  BY DEF RangeOK
<1>1. Below(S, key) \subseteq Int /\ Below(S, key) # {}
  BY <1>0 DEF Below
<1>2. NotBelow(S, key) \subseteq Int /\ NotBelow(S, key) # {}
  <2>1. ~(key < key)
    BY <1>0
  <2> QED BY <2>1, <1>0 DEF NotBelow
<1>3. Convex(Below(S, key))
  <2> SUFFICES ASSUME NEW x \in Below(S, key), NEW z \in Below(S, key), NEW y \in Int, x <= y, y <= z
               PROVE  y \in Below(S, key)
    BY DEF Convex
  <2>1. x \in S /\ z \in S /\ z < key
    BY DEF Below
  <2>2. y \in S
    BY <2>1, <1>0 DEF Convex
  <2>3. y < key
    BY <2>1, <1>0
  <2> QED BY <2>2, <2>3 DEF Below
<1>4. Convex(NotBelow(S, key))
  <2> SUFFICES ASSUME NEW x \in NotBelow(S, key), NEW z \in NotBelow(S, key), NEW y \in Int, x <= y, y <= z
               PROVE  y \in NotBelow(S, key)
    BY DEF Convex
  <2>1. x \in S /\ z \in S /\ ~(x < key)
    BY DEF NotBelow
  <2>2. y \in S
    BY <2>1, <1>0 DEF Convex
  <2>3. ~(y < key)
    BY <2>1, <1>0
  <2> QED BY <2>2, <2>3 DEF NotBelow
<1> QED
  BY <1>1, <1>2, <1>3, <1>4 DEF RangeOK

(* The keys of the parent of a page that is split. *)
LEMMA SplitPlace ==
    ASSUME NEW V, NEW r, NEW T, NEW lev, NEW R, IsTree(V, r, T, lev, R),
           NEW q \in T, lev[q] # 0, NEW i \in 1 .. Len(V[q].children),
           NEW key \in Int, key \in R[V[q].children[i]], \E x \in R[V[q].children[i]] : x < key
    PROVE  /\ i \in 1 .. Len(V[q].keys) + 1
           /\ i > 1 => V[q].keys[i - 1] < key
           /\ i <= Len(V[q].keys) => key < V[q].keys[i]
           /\ \A j \in 1 .. Len(V[q].keys) : V[q].keys[j] < key <=> j < i
           /\ \A j \in 1 .. Len(V[q].keys) : V[q].keys[j] # key
           /\ Position(V[q].keys, key) = i
<1> DEFINE ks == V[q].keys
<1>1. /\ \A x \in Int : x \in R[V[q].children[i]] <=> (x \in R[q] /\ Between(ks, i, x))
      /\ ks \in Seq(Int) /\ Sorted(ks)
      /\ Len(V[q].children) = Len(ks) + 1 /\ Len(ks) \in Nat
      /\ V[q].children[i] \in T
  BY ChildFacts
<1> HIDE DEF ks
<1>2. \A j \in 1 .. Len(ks) : ks[j] \in Int
  BY <1>1
<1>3. PICK x \in R[V[q].children[i]] : x < key
  OBVIOUS
<1>4. x \in Int
  BY <1>1, <1>3, RangeFacts
<1>5. Between(ks, i, x) /\ Between(ks, i, key)
  BY <1>1, <1>3, <1>4
<1>6. i \in 1 .. Len(ks) + 1
  BY <1>1
<1>7. i > 1 => ks[i - 1] < key
  <2>1. i > 1 => i - 1 \in 1 .. Len(ks) /\ ks[i - 1] <= x
    BY <1>5, <1>6, <1>1 DEF Between
  <2> QED BY <2>1, <1>2, <1>3, <1>4
<1>8. i <= Len(ks) => key < ks[i]
  BY <1>5 DEF Between
<1>9. ASSUME NEW j \in 1 .. Len(ks) PROVE (j < i => ks[j] < key) /\ (~(j < i) => key < ks[j])
  <2>1. CASE j < i
    <3>1. i > 1 /\ i - 1 \in 1 .. Len(ks) /\ (j = i - 1 \/ j < i - 1)
      BY <1>6, <1>1, <2>1
    <3>2. j < i - 1 => ks[j] < ks[i - 1]
      BY <3>1, <1>1 DEF Sorted
    <3>3. ks[j] \in Int /\ ks[i - 1] \in Int /\ ks[i - 1] < key
      BY <3>1, <1>2, <1>7
    <3> QED BY <3>1, <3>2, <3>3, <2>1
  <2>2. CASE ~(j < i)
    <3>1. i \in 1 .. Len(ks) /\ i <= Len(ks) /\ (i = j \/ i < j)
      BY <1>6, <1>1, <2>2
    <3>2. i < j => ks[i] < ks[j]
      BY <3>1, <1>1 DEF Sorted
    <3>3. ks[j] \in Int /\ ks[i] \in Int /\ key < ks[i]
      BY <3>1, <1>2, <1>8
    <3> QED BY <3>1, <3>2, <3>3, <2>2
  <2> QED BY <2>1, <2>2
<1>10. \A j \in 1 .. Len(ks) : ks[j] < key <=> j < i
  BY <1>9, <1>2
<1>11. \A j \in 1 .. Len(ks) : ks[j] # key
  BY <1>9, <1>2
<1>12. Position(ks, key) = i
  <2>1. Position(ks, key) \in 1 .. Len(ks) + 1 /\ \A j \in 1 .. Len(ks) : ks[j] < key <=> j < Position(ks, key)
    BY <1>1, PositionSplits
  <2>2. \A j \in 1 .. Len(ks) : j < i <=> j < Position(ks, key)
    BY <2>1, <1>10
  <2>3. CASE i < Position(ks, key)
    <3>1. i \in 1 .. Len(ks) /\ ~(i < i)
      BY <2>1, <2>3, <1>6, <1>1
    <3> QED BY <3>1, <2>2, <2>3
  <2>4. CASE Position(ks, key) < i
    <3>1. Position(ks, key) \in 1 .. Len(ks) /\ ~(Position(ks, key) < Position(ks, key))
      BY <2>1, <2>4, <1>6, <1>1
    <3> QED BY <3>1, <2>2, <2>4
  <2> QED BY <2>1, <2>3, <2>4, <1>6, <1>1
<1> QED
  BY <1>6, <1>7, <1>8, <1>10, <1>11, <1>12 DEF ks

(* A split leaves a tree. *)
LEMMA SplitTree ==
    ASSUME NEW V, NEW W, NEW r, NEW T, NEW lev, NEW R, IsTree(V, r, T, lev, R),
           NEW p, NEW q, NEW i, NEW key, NEW new, IsSplit(V, W, T, lev, R, p, q, i, key, new)
    PROVE  IsTree(W, r, T \union {new}, SplitLev(lev, p, new), SplitRange(R, p, new, key))
<1> DEFINE l == SplitLev(lev, p, new)
           S == SplitRange(R, p, new, key)
           U == T \union {new}
<1>1. /\ T \subseteq Pages /\ r \in T /\ V[r].parent = INVALID_PAGE_ID /\ R[r] = Int
      /\ \A x \in T : PageOK(V, r, T, lev, R, x)
      /\ \A x \in Pages \ T : FreeOK(V, T, lev, x)
  BY DEF IsTree
<1>2. /\ p \in T /\ q = V[p].parent /\ q \in T /\ lev[q] # 0
      /\ i \in 1 .. Len(V[q].children) /\ V[q].children[i] = p
      /\ new \in Pages \ T
      /\ key \in Int /\ key \in R[p] /\ \E x \in R[p] : x < key
  BY DEF IsSplit
<1>3. /\ W[q].type = V[q].type /\ W[q].parent = V[q].parent
      /\ W[q].keys \in Seq(Int) /\ IsInserted(V[q].keys, i, key, W[q].keys)
      /\ W[q].children \in Seq(Pages) /\ IsInserted(V[q].children, i + 1, new, W[q].children)
  BY DEF IsSplit
<1>4. /\ W[p].parent = q /\ W[new].parent = q
      /\ \A x \in Pages \ {p, q, new} :
            /\ W[x].type = V[x].type /\ W[x].keys = V[x].keys /\ W[x].children = V[x].children
            /\ W[x].parent = IF IsChild(W[new], x) THEN new ELSE V[x].parent
  BY DEF IsSplit
<1>5. /\ lev[p] = 0 => LeafOK(W[p], Below(R[p], key)) /\ LeafOK(W[new], NotBelow(R[p], key))
      /\ lev[p] # 0 => PartsOK(V[p], W[p], W[new], key)
  BY DEF IsSplit
<1> DEFINE m == Len(W[p].children)
           n == Len(W[new].children)
<1>6. lev[p] # 0 =>
        /\ InnerOK(W[p]) /\ InnerOK(W[new])
        /\ m + n = Len(V[p].children) /\ m \in Nat /\ n \in Nat
        /\ \A j \in 1 .. m : W[p].children[j] = V[p].children[j]
        /\ \A j \in 1 .. n : W[new].children[j] = V[p].children[m + j]
        /\ \A x \in Int : x < key => \A j \in 1 .. m :
              Between(W[p].keys, j, x) <=> Between(V[p].keys, j, x)
        /\ \A x \in Int : ~(x < key) => \A j \in 1 .. n :
              Between(W[new].keys, j, x) <=> Between(V[p].keys, m + j, x)
        /\ \A x \in Int : \A j \in 1 .. Len(V[p].children) :
              Between(V[p].keys, j, x) => (j <= m <=> x < key)
  <2>1. lev[p] # 0 => m \in Nat /\ n \in Nat
    BY <1>5 DEF PartsOK, InnerOK
  <2> QED BY <2>1, <1>5 DEF PartsOK
<1> HIDE DEF m, n
<1>7. \A x \in T : x \in Pages /\ x # new /\ l[x] = lev[x] /\ lev[x] \in Nat /\ lev[x] <= lev[r]
  BY <1>1, <1>2, RangeFacts DEF SplitLev
<1>8. l[new] = lev[p]
  BY <1>2 DEF SplitLev
<1>9. \A x \in T : x # p => S[x] = R[x]
  BY <1>1, <1>2, <1>7 DEF SplitRange
<1>10. S[p] = Below(R[p], key) /\ S[new] = NotBelow(R[p], key)
  BY <1>2, <1>7 DEF SplitRange
<1>11. RangeOK(S[p]) /\ RangeOK(S[new])
  <2>1. RangeOK(R[p])
    BY <1>1, <1>2 DEF PageOK
  <2> QED BY <2>1, <1>2, <1>10, SplitRanges
<1>12. \A x \in Int : (x \in S[p] <=> x \in R[p] /\ x < key) /\ (x \in S[new] <=> x \in R[p] /\ ~(x < key))
  BY <1>10 DEF Below, NotBelow
<1> HIDE DEF l, S
<1>13. q # p /\ p # r /\ q # new /\ p # new /\ lev[p] + 1 = lev[q]
  <2>1. V[q].children[i] # q /\ V[q].children[i] # r /\ lev[V[q].children[i]] + 1 = lev[q]
    BY <1>2, ChildFacts
  <2> QED BY <2>1, <1>2, <1>7
(* The children that move. *)
<1>14. ASSUME NEW x, IsChild(W[new], x)
       PROVE  /\ lev[p] # 0 /\ x \in T /\ x # p /\ x # q /\ x # new /\ V[x].parent = p
              /\ \E j \in 1 .. Len(V[p].children) : ~(j <= m) /\ V[p].children[j] = x
  <2>1. PICK j \in 1 .. n : W[new].children[j] = x
    BY <1>14 DEF IsChild, n
  <2>2. lev[p] # 0
    <3>1. CASE lev[p] = 0
      <4>1. W[new].children = <<>>
        BY <3>1, <1>5 DEF LeafOK
      <4>2. n = 0
        BY <4>1 DEF n
      <4> QED BY <4>2, <2>1
    <3> QED BY <3>1
  <2>3. m + j \in 1 .. Len(V[p].children) /\ ~(m + j <= m) /\ V[p].children[m + j] = x
    BY <2>1, <2>2, <1>6
  <2>4. x \in T /\ x # p /\ V[x].parent = p /\ lev[x] + 1 = lev[p]
    BY <2>2, <2>3, <1>2, ChildFacts
  <2>5. x # q
    <3>1. lev[x] # lev[q]
      BY <2>4, <1>13, <1>7, <1>2
    <3> QED BY <3>1
  <2> QED BY <2>2, <2>3, <2>4, <2>5, <1>7
<1>15. \A x \in T : x # p /\ x # q =>
          /\ W[x].type = V[x].type /\ W[x].keys = V[x].keys /\ W[x].children = V[x].children
          /\ W[x].parent = IF IsChild(W[new], x) THEN new ELSE V[x].parent
  BY <1>4, <1>7
<1>16. \A x \in T : ~IsChild(W[new], x) => W[x].parent = V[x].parent
  BY <1>15, <1>2, <1>3, <1>4
(* The parent's keys and children. *)
<1>17. /\ V[q].keys \in Seq(Int) /\ Sorted(V[q].keys) /\ Len(V[q].keys) \in Nat
       /\ Len(V[q].children) = Len(V[q].keys) + 1
       /\ i \in 1 .. Len(V[q].keys) + 1
       /\ i > 1 => V[q].keys[i - 1] < key
       /\ i <= Len(V[q].keys) => key < V[q].keys[i]
       /\ \A j \in 1 .. Len(V[q].keys) : V[q].keys[j] < key <=> j < i
       /\ \A j \in 1 .. Len(V[q].keys) : V[q].keys[j] # key
  <2>1. key \in R[V[q].children[i]] /\ \E x \in R[V[q].children[i]] : x < key
    BY <1>2
  <2>2. /\ V[q].keys \in Seq(Int) /\ Sorted(V[q].keys) /\ Len(V[q].keys) \in Nat
        /\ Len(V[q].children) = Len(V[q].keys) + 1
    BY <1>2, ChildFacts
  <2>3. /\ i \in 1 .. Len(V[q].keys) + 1
        /\ i > 1 => V[q].keys[i - 1] < key
        /\ i <= Len(V[q].keys) => key < V[q].keys[i]
        /\ \A j \in 1 .. Len(V[q].keys) : V[q].keys[j] < key <=> j < i
        /\ \A j \in 1 .. Len(V[q].keys) : V[q].keys[j] # key
    <3>1. IsTree(V, r, T, lev, R)
      BY <1>2
    <3>2. q \in T /\ lev[q] # 0 /\ i \in 1 .. Len(V[q].children)
      BY <1>2
    <3>3. key \in Int /\ key \in R[V[q].children[i]]
      BY <1>2
    <3>4. \E x \in R[V[q].children[i]] : x < key
      BY <2>1
    <3> QED BY <3>1, <3>2, <3>3, <3>4, SplitPlace
  <2> QED BY <2>2, <2>3
<1>18. Sorted(W[q].keys) /\ Len(W[q].keys) = Len(V[q].keys) + 1
  BY <1>2, <1>3, <1>17, InsertedSorted DEF IsInserted
<1>19. ASSUME NEW x \in Int
       PROVE  /\ \A j \in 1 .. i - 1 : Between(W[q].keys, j, x) <=> Between(V[q].keys, j, x)
              /\ Between(W[q].keys, i, x) <=> (Between(V[q].keys, i, x) /\ x < key)
              /\ Between(W[q].keys, i + 1, x) <=> (Between(V[q].keys, i, x) /\ ~(x < key))
              /\ \A j \in i + 1 .. Len(V[q].keys) + 1 :
                    Between(W[q].keys, j + 1, x) <=> Between(V[q].keys, j, x)
  <2> DEFINE ks == V[q].keys
             kt == W[q].keys
  <2>1. /\ ks \in Seq(Int) /\ i \in 1 .. Len(ks) + 1 /\ key \in Int
        /\ i > 1 => ks[i - 1] < key
        /\ i <= Len(ks) => key < ks[i]
        /\ kt \in Seq(Int) /\ IsInserted(ks, i, key, kt)
    BY <1>2, <1>3, <1>17
  <2> HIDE DEF ks, kt
  <2>2. /\ \A j \in 1 .. i - 1 : Between(kt, j, x) <=> Between(ks, j, x)
        /\ Between(kt, i, x) <=> (Between(ks, i, x) /\ x < key)
        /\ Between(kt, i + 1, x) <=> (Between(ks, i, x) /\ ~(x < key))
        /\ \A j \in i + 1 .. Len(ks) + 1 : Between(kt, j + 1, x) <=> Between(ks, j, x)
    BY <2>1, InsertedBetween
  <2> QED BY <2>2 DEF ks, kt
<1>20. /\ Len(W[q].children) = Len(V[q].children) + 1
       /\ \A j \in 1 .. i : W[q].children[j] = V[q].children[j] /\ j \in 1 .. Len(V[q].children)
       /\ W[q].children[i + 1] = new /\ W[q].children[i] = p
       /\ \A j \in i + 1 .. Len(V[q].children) : W[q].children[j + 1] = V[q].children[j]
  <2>0. i \in Nat /\ i >= 1 /\ i <= Len(V[q].children) /\ Len(V[q].children) \in Nat
    BY <1>17
  <2>1. /\ Len(W[q].children) = Len(V[q].children) + 1
        /\ \A j \in 1 .. Len(V[q].children) + 1 :
              W[q].children[j] = IF j < i + 1 THEN V[q].children[j] ELSE IF j = i + 1 THEN new
                                 ELSE V[q].children[j - 1]
    BY <1>3 DEF IsInserted
  <2>2. ASSUME NEW j \in 1 .. i
        PROVE  W[q].children[j] = V[q].children[j] /\ j \in 1 .. Len(V[q].children)
    <3>1. j \in 1 .. Len(V[q].children) + 1 /\ j < i + 1 /\ j \in 1 .. Len(V[q].children)
      BY <2>0
    <3> QED BY <3>1, <2>1
  <2>3. i \in 1 .. i /\ i + 1 \in 1 .. Len(V[q].children) + 1 /\ ~(i + 1 < i + 1)
    BY <2>0
  <2>4. ASSUME NEW j \in i + 1 .. Len(V[q].children)
        PROVE  W[q].children[j + 1] = V[q].children[j]
    <3>1. j + 1 \in 1 .. Len(V[q].children) + 1 /\ ~(j + 1 < i + 1) /\ j + 1 # i + 1 /\ (j + 1) - 1 = j
      BY <2>0
    <3> QED BY <3>1, <2>1
  <2> QED BY <2>1, <2>2, <2>3, <2>4, <1>2
(* Each page. *)
<1>21. ASSUME NEW x \in U PROVE l[x] \in Nat /\ l[x] <= l[r] /\ RangeOK(S[x])
  <2>1. CASE x = new
    BY <2>1, <1>1, <1>2, <1>7, <1>8, <1>11
  <2>2. CASE x = p
    BY <2>2, <1>1, <1>2, <1>7, <1>11
  <2>3. CASE x \in T /\ x # p
    <3>1. RangeOK(R[x])
      BY <2>3, <1>1 DEF PageOK
    <3> QED BY <3>1, <2>3, <1>1, <1>7, <1>9
  <2> QED BY <2>1, <2>2, <2>3
<1>22. ASSUME NEW x \in U, l[x] = 0 PROVE LeafOK(W[x], S[x])
  <2>1. CASE x = new \/ x = p
    BY <2>1, <1>22, <1>2, <1>5, <1>7, <1>8, <1>10
  <2>2. CASE x \in T /\ x # p
    <3>1. x # q /\ lev[x] = 0
      BY <2>2, <1>22, <1>2, <1>7
    <3>2. LeafOK(V[x], R[x])
      BY <3>1, <2>2, <1>1 DEF PageOK
    <3>3. W[x].type = V[x].type /\ W[x].keys = V[x].keys /\ W[x].children = V[x].children /\ S[x] = R[x]
      BY <3>1, <2>2, <1>9, <1>15
    <3> QED BY <3>2, <3>3 DEF LeafOK
  <2> QED BY <2>1, <2>2
<1>23. ASSUME NEW x \in U, l[x] # 0 PROVE InnerOK(W[x])
  <2>1. CASE x = new \/ x = p
    BY <2>1, <1>23, <1>2, <1>6, <1>7, <1>8
  <2>2. CASE x = q
    <3>1. InnerOK(V[q])
      BY <1>1, <1>2 DEF PageOK
    <3> QED BY <3>1, <2>2, <1>3, <1>17, <1>18, <1>20 DEF InnerOK
  <2>3. CASE x \in T /\ x # p /\ x # q
    <3>1. InnerOK(V[x])
      BY <2>3, <1>23, <1>1, <1>7 DEF PageOK
    <3> QED BY <3>1, <2>3, <1>15 DEF InnerOK
  <2> QED BY <2>1, <2>2, <2>3
(* The children of the parent. *)
<1>24. ASSUME NEW j \in 1 .. Len(W[q].children) PROVE ChildOK(W, U, l, S, q, j)
  <2>0. l[q] = lev[q] /\ S[q] = R[q] /\ i \in Nat /\ i <= Len(V[q].children) /\ Len(V[q].children) \in Nat
    BY <1>2, <1>7, <1>9, <1>13, <1>17
  <2>00. \A x \in Int : x \in R[p] <=> (x \in R[q] /\ Between(V[q].keys, i, x))
    <3>1. IsTree(V, r, T, lev, R) /\ q \in T /\ lev[q] # 0 /\ i \in 1 .. Len(V[q].children)
      BY <1>2
    <3>2. \A x \in Int : x \in R[V[q].children[i]] <=> (x \in R[q] /\ Between(V[q].keys, i, x))
      BY <3>1, ChildFacts
    <3> QED BY <3>2, <1>2
  <2>1. CASE j = i
    <3>1. W[q].children[j] = p /\ l[p] + 1 = l[q]
      BY <2>1, <2>0, <1>20, <1>13, <1>7, <1>2
    <3>3. \A x \in Int : x \in S[p] <=> (x \in S[q] /\ Between(W[q].keys, j, x))
      <4> TAKE x \in Int
      <4>1. Between(W[q].keys, j, x) <=> (Between(V[q].keys, i, x) /\ x < key)
        BY <1>19, <2>1
      <4> QED BY <4>1, <2>00, <2>0, <1>12
    <3> QED BY <3>1, <3>3, <1>2, <1>4 DEF ChildOK
  <2>2. CASE j = i + 1
    <3>1. W[q].children[j] = new /\ l[new] + 1 = l[q]
      BY <2>2, <2>0, <1>20, <1>13, <1>8
    <3>3. \A x \in Int : x \in S[new] <=> (x \in S[q] /\ Between(W[q].keys, j, x))
      <4> TAKE x \in Int
      <4>1. Between(W[q].keys, j, x) <=> (Between(V[q].keys, i, x) /\ ~(x < key))
        BY <1>19, <2>2
      <4> QED BY <4>1, <2>00, <2>0, <1>12
    <3> QED BY <3>1, <3>3, <1>2, <1>4 DEF ChildOK
  <2>3. ASSUME NEW k \in 1 .. Len(V[q].children), k # i, W[q].children[j] = V[q].children[k],
               \A x \in Int : Between(W[q].keys, j, x) <=> Between(V[q].keys, k, x)
        PROVE  ChildOK(W, U, l, S, q, j)
    <3> DEFINE c == V[q].children[k]
    <3>1. /\ c \in T /\ V[c].parent = q /\ lev[c] + 1 = lev[q]
          /\ \A x \in Int : x \in R[c] <=> (x \in R[q] /\ Between(V[q].keys, k, x))
      <4>1. k \in 1 .. Len(V[q].children) /\ q \in T /\ lev[q] # 0
        BY <2>3, <1>2
      <4> QED BY <4>1, ChildFacts
    <3>2. c # p
      BY <2>3, <1>2, ChildOnce
    <3>3. W[q].children[j] = c
      BY <2>3
    <3> HIDE DEF c
    <3>4. W[c].parent = q
      BY <3>1, <1>13, <1>14, <1>16
    <3>5. l[c] + 1 = l[q] /\ S[c] = R[c]
      BY <3>1, <3>2, <2>0, <1>7, <1>9
    <3> QED BY <2>3, <3>1, <3>3, <3>4, <3>5, <2>0 DEF ChildOK
  <2>4. CASE j < i
    <3>1. j \in 1 .. Len(V[q].children) /\ j # i /\ j \in 1 .. i - 1 /\ j \in 1 .. i
      BY <2>0, <2>4
    <3>2. W[q].children[j] = V[q].children[j] /\ \A x \in Int : Between(W[q].keys, j, x) <=> Between(V[q].keys, j, x)
      BY <3>1, <1>19, <1>20
    <3> QED BY <3>1, <3>2, <2>3
  <2>5. CASE j > i + 1
    <3>1. /\ j - 1 \in 1 .. Len(V[q].children) /\ j - 1 # i /\ j - 1 \in i + 1 .. Len(V[q].children)
          /\ j - 1 \in i + 1 .. Len(V[q].keys) + 1 /\ (j - 1) + 1 = j
      BY <2>0, <2>5, <1>17, <1>20
    <3>2. W[q].children[j] = V[q].children[j - 1]
      BY <3>1, <1>20
    <3>3. \A x \in Int : Between(W[q].keys, j, x) <=> Between(V[q].keys, j - 1, x)
      BY <3>1, <1>19
    <3> QED BY <3>1, <3>2, <3>3, <2>3
  <2>6. j = i \/ j = i + 1 \/ j < i \/ j > i + 1
    BY <2>0
  <2> QED BY <2>1, <2>2, <2>4, <2>5, <2>6
(* The children of the two parts. *)
<1>25. ASSUME lev[p] # 0, NEW j \in 1 .. m PROVE ChildOK(W, U, l, S, p, j)
  <2> DEFINE c == V[p].children[j]
  <2>0. j \in 1 .. Len(V[p].children) /\ j <= m /\ j \in Int
    BY <1>25, <1>6
  <2>1. /\ c \in T /\ c # p /\ V[c].parent = p /\ lev[c] + 1 = lev[p]
        /\ \A x \in Int : x \in R[c] <=> (x \in R[p] /\ Between(V[p].keys, j, x))
    BY <2>0, <1>25, <1>2, ChildFacts
  <2>2. ~IsChild(W[new], c)
    <3> SUFFICES ASSUME IsChild(W[new], c) PROVE FALSE
      OBVIOUS
    <3>1. PICK k \in 1 .. Len(V[p].children) : ~(k <= m) /\ V[p].children[k] = V[p].children[j]
      BY <1>14
    <3>2. k = j
      BY <3>1, <2>0, <1>25, <1>2, ChildOnce
    <3> QED BY <3>1, <3>2, <2>0
  <2>3. W[p].children[j] = c
    BY <1>25, <1>6
  <2> HIDE DEF c
  <2>4. W[c].parent = p /\ l[c] + 1 = l[p] /\ S[c] = R[c]
    BY <2>1, <2>2, <1>2, <1>7, <1>9, <1>16
  <2>5. ASSUME NEW x \in Int PROVE x \in S[c] <=> (x \in S[p] /\ Between(W[p].keys, j, x))
    <3>1. x < key => (Between(W[p].keys, j, x) <=> Between(V[p].keys, j, x))
      BY <1>25, <1>6
    <3>2. Between(V[p].keys, j, x) => x < key
      BY <1>25, <1>6, <2>0
    <3> QED BY <3>1, <3>2, <2>1, <2>4, <1>12
  <2> QED BY <2>1, <2>3, <2>4, <2>5 DEF ChildOK
<1>26. ASSUME lev[p] # 0, NEW j \in 1 .. n PROVE ChildOK(W, U, l, S, new, j)
  <2> DEFINE c == V[p].children[m + j]
  <2>0. m + j \in 1 .. Len(V[p].children) /\ ~(m + j <= m)
    BY <1>26, <1>6
  <2>1. /\ c \in T /\ c # p /\ V[c].parent = p /\ lev[c] + 1 = lev[p]
        /\ \A x \in Int : x \in R[c] <=> (x \in R[p] /\ Between(V[p].keys, m + j, x))
    <3> DEFINE k == m + j
    <3>1. k \in 1 .. Len(V[p].children)
      BY <2>0
    <3>2. p \in T /\ lev[p] # 0 /\ IsTree(V, r, T, lev, R)
      BY <1>26, <1>2
    <3> HIDE DEF k, c
    <3>3. /\ V[p].children[k] \in T /\ V[p].children[k] # p
          /\ V[V[p].children[k]].parent = p /\ lev[V[p].children[k]] + 1 = lev[p]
          /\ \A x \in Int : x \in R[V[p].children[k]] <=> (x \in R[p] /\ Between(V[p].keys, k, x))
      BY <3>1, <3>2, ChildFacts
    <3> QED BY <3>3 DEF k, c
  <2>3. W[new].children[j] = c
    BY <1>26, <1>6
  <2> HIDE DEF c
  <2>2. IsChild(W[new], c)
    BY <2>3 DEF IsChild, n
  <2>4. W[c].parent = new /\ l[c] + 1 = l[new] /\ S[c] = R[c]
    BY <2>1, <2>2, <1>7, <1>8, <1>9, <1>14, <1>15
  <2>5. ASSUME NEW x \in Int PROVE x \in S[c] <=> (x \in S[new] /\ Between(W[new].keys, j, x))
    <3>1. ~(x < key) => (Between(W[new].keys, j, x) <=> Between(V[p].keys, m + j, x))
      BY <1>26, <1>6
    <3>2. Between(V[p].keys, m + j, x) => ~(x < key)
      BY <1>26, <1>6, <2>0
    <3> QED BY <3>1, <3>2, <2>1, <2>4, <1>12
  <2> QED BY <2>1, <2>3, <2>4, <2>5 DEF ChildOK
(* The children of the others. *)
<1>27. ASSUME NEW x \in T, x # p, x # q, lev[x] # 0, NEW j \in 1 .. Len(W[x].children)
       PROVE  ChildOK(W, U, l, S, x, j)
  <2>0. W[x].children = V[x].children /\ W[x].keys = V[x].keys /\ S[x] = R[x] /\ l[x] = lev[x]
    BY <1>27, <1>7, <1>9, <1>15
  <2> DEFINE c == V[x].children[j]
  <2>1. /\ c \in T /\ V[c].parent = x /\ lev[c] + 1 = lev[x]
        /\ \A y \in Int : y \in R[c] <=> (y \in R[x] /\ Between(V[x].keys, j, y))
    BY <1>27, <2>0, ChildFacts
  <2>2. W[x].children[j] = c
    BY <2>0
  <2> HIDE DEF c
  <2>3. c # p /\ ~IsChild(W[new], c)
    BY <2>1, <1>2, <1>14, <1>27
  <2>4. W[c].parent = x /\ l[c] + 1 = l[x] /\ S[c] = R[c]
    BY <2>0, <2>1, <2>3, <1>7, <1>9, <1>16
  <2> QED BY <2>0, <2>1, <2>2, <2>4 DEF ChildOK
<1>28. ASSUME NEW x \in U, l[x] # 0, NEW j \in 1 .. Len(W[x].children) PROVE ChildOK(W, U, l, S, x, j)
  <2>1. CASE x = new
    BY <2>1, <1>26, <1>28, <1>8 DEF n
  <2>2. CASE x = p
    BY <2>2, <1>25, <1>28, <1>7, <1>2 DEF m
  <2>3. CASE x = q
    BY <2>3, <1>24, <1>28
  <2>4. CASE x \in T /\ x # p /\ x # q
    BY <2>4, <1>27, <1>28, <1>7
  <2> QED BY <2>1, <2>2, <2>3, <2>4
(* The parents. *)
<1>29. ASSUME NEW x \in U, x # r
       PROVE  W[x].parent \in U /\ l[W[x].parent] # 0 /\ IsChild(W[W[x].parent], x)
  <2>1. CASE x = new \/ x = p
    <3>1. W[x].parent = q /\ l[q] # 0 /\ q \in U
      BY <2>1, <1>2, <1>4, <1>7
    <3>2. i \in 1 .. Len(W[q].children) /\ i + 1 \in 1 .. Len(W[q].children)
      BY <1>17, <1>20
    <3>3. IsChild(W[q], new) /\ IsChild(W[q], p)
      BY <3>2, <1>20 DEF IsChild
    <3> QED BY <2>1, <3>1, <3>3
  <2>2. CASE x \in T /\ x # p /\ IsChild(W[new], x)
    <3>1. W[x].parent = new /\ lev[p] # 0
      BY <2>2, <1>14, <1>15
    <3> QED BY <3>1, <2>2, <1>8
  <2>3. CASE x \in T /\ x # p /\ ~IsChild(W[new], x)
    <3> DEFINE g == V[x].parent
    <3>1. W[x].parent = g /\ g \in T /\ lev[g] # 0 /\ \E j \in 1 .. Len(V[g].children) : V[g].children[j] = x
      BY <2>3, <1>16, <1>29, ParentFacts
    <3> HIDE DEF g
    <3>2. PICK j \in 1 .. Len(V[g].children) : V[g].children[j] = x
      BY <3>1
    <3>3. l[g] # 0 /\ g \in U
      BY <3>1, <1>7
    <3>4. IsChild(W[g], x)
      <4>1. CASE g = q
        <5>1. j # i
          BY <3>2, <4>1, <2>3, <1>2
        <5>2. CASE j < i
          <6>1. j \in 1 .. i /\ j \in 1 .. Len(W[g].children)
            BY <5>2, <4>1, <1>17, <1>20
          <6>2. W[g].children[j] = x
            BY <6>1, <1>20, <4>1, <3>2
          <6> QED BY <6>1, <6>2 DEF IsChild
        <5>3. CASE j > i
          <6>1. j \in i + 1 .. Len(V[q].children) /\ j + 1 \in 1 .. Len(W[g].children)
            BY <5>3, <4>1, <1>17, <1>20
          <6>2. W[g].children[j + 1] = x
            BY <6>1, <1>20, <4>1, <3>2
          <6> QED BY <6>1, <6>2 DEF IsChild
        <5> QED BY <5>1, <5>2, <5>3, <1>17, <4>1
      <4>2. CASE g = p
        <5>1. j <= m
          <6> SUFFICES ASSUME ~(j <= m) PROVE FALSE
            OBVIOUS
          <6>1. j - m \in 1 .. n /\ m + (j - m) = j
            BY <4>2, <3>1, <1>6
          <6>2. W[new].children[j - m] = x
            BY <6>1, <3>1, <3>2, <4>2, <1>6
          <6> QED BY <6>1, <6>2, <2>3 DEF IsChild, n
        <5>2. j \in 1 .. m
          BY <5>1, <3>1, <4>2, <1>6
        <5>3. W[g].children[j] = x
          BY <5>2, <3>1, <3>2, <4>2, <1>6
        <5> QED BY <5>2, <5>3, <4>2 DEF IsChild, m
      <4>3. CASE g # p /\ g # q
        <5>1. W[g].children = V[g].children
          BY <4>3, <3>1, <1>15
        <5> QED BY <5>1, <3>2 DEF IsChild
      <4> QED BY <4>1, <4>2, <4>3
    <3> QED BY <3>1, <3>3, <3>4
  <2> QED BY <2>1, <2>2, <2>3
<1>30. ASSUME NEW x \in U PROVE PageOK(W, r, U, l, S, x)
  BY <1>21, <1>22, <1>23, <1>28, <1>29 DEF PageOK
<1>31. ASSUME NEW x \in Pages \ U PROVE FreeOK(W, U, l, x)
  <2>1. FreeOK(V, T, lev, x) /\ x \in Pages \ {p, q, new} /\ x \notin T
    BY <1>1, <1>2
  <2>2. ~IsChild(W[new], x)
    BY <2>1, <1>14
  <2>3. W[x].type = V[x].type /\ W[x].children = V[x].children /\ W[x].parent = V[x].parent
    BY <2>1, <2>2, <1>4
  <2> QED BY <2>1, <2>3, <1>7 DEF FreeOK
<1>32. U \subseteq Pages /\ r \in U /\ W[r].parent = INVALID_PAGE_ID /\ S[r] = Int
  <2>1. ~IsChild(W[new], r)
    <3>1. V[r].parent # p
      BY <1>1, <1>2, NoPage
    <3> QED BY <3>1, <1>14
  <2> QED BY <2>1, <1>1, <1>2, <1>9, <1>13, <1>16
<1> QED
  BY <1>30, <1>31, <1>32 DEF IsTree, l, S

-----------------------------------------------------------------------------
(* Merges *)

MergeRange(R, a, b) == [x \in Pages |-> IF x = a THEN R[a] \union R[b] ELSE R[x]]

(* W is V with the leaf b, the child of q after the i-th child a, merged   *)
(* into a.                                                                 *)
IsMerge(V, W, T, lev, R, q, i, a, b) ==
    /\ q \in T /\ lev[q] # 0
    /\ i \in 1 .. Len(V[q].keys)
    /\ a = V[q].children[i] /\ b = V[q].children[i + 1] /\ lev[a] = 0
    /\ W[q].type = V[q].type /\ W[q].parent = V[q].parent
    /\ W[q].keys \in Seq(Int) /\ IsRemoved(V[q].keys, i, W[q].keys)
    /\ W[q].children \in Seq(Pages) /\ IsRemoved(V[q].children, i + 1, W[q].children)
    /\ \A x \in Pages \ {q} :
          W[x].type = V[x].type /\ W[x].parent = V[x].parent /\ W[x].children = V[x].children
    /\ \A x \in Pages \ {q, a} : W[x].keys = V[x].keys
    /\ LeafOK(W[a], R[a] \union R[b])

(* Two leaves with one parent, put together on the left one, with the right *)
(* one and the separator out of the parent, leave a tree with one page      *)
(* fewer. *)
LEMMA MergeTree ==
    ASSUME NEW V, NEW W, NEW r, NEW T, NEW lev, NEW R, IsTree(V, r, T, lev, R),
           NEW q, NEW i, NEW a, NEW b, IsMerge(V, W, T, lev, R, q, i, a, b)
    PROVE  IsTree(W, r, T \ {b}, lev, MergeRange(R, a, b))
<1> DEFINE S == MergeRange(R, a, b)
           U == T \ {b}
<1>1. /\ T \subseteq Pages /\ r \in T /\ V[r].parent = INVALID_PAGE_ID /\ R[r] = Int
      /\ \A x \in T : PageOK(V, r, T, lev, R, x)
      /\ \A x \in Pages \ T : FreeOK(V, T, lev, x)
  BY DEF IsTree
<1>2. /\ q \in T /\ lev[q] # 0
      /\ i \in 1 .. Len(V[q].keys)
      /\ a = V[q].children[i] /\ b = V[q].children[i + 1] /\ lev[a] = 0
      /\ LeafOK(W[a], R[a] \union R[b])
  BY DEF IsMerge
<1>3. /\ W[q].type = V[q].type /\ W[q].parent = V[q].parent
      /\ W[q].keys \in Seq(Int) /\ IsRemoved(V[q].keys, i, W[q].keys)
      /\ W[q].children \in Seq(Pages) /\ IsRemoved(V[q].children, i + 1, W[q].children)
  BY DEF IsMerge
<1>4. /\ \A x \in Pages \ {q} :
            W[x].type = V[x].type /\ W[x].parent = V[x].parent /\ W[x].children = V[x].children
      /\ \A x \in Pages \ {q, a} : W[x].keys = V[x].keys
  BY DEF IsMerge
<1>5. /\ V[q].keys \in Seq(Int) /\ Sorted(V[q].keys) /\ Len(V[q].keys) \in Nat
      /\ Len(V[q].children) = Len(V[q].keys) + 1
  <2>1. PageOK(V, r, T, lev, R, q)
    BY <1>1, <1>2
  <2> QED BY <2>1, <1>2 DEF PageOK, InnerOK
<1>6. i \in 1 .. Len(V[q].children) /\ i + 1 \in 1 .. Len(V[q].children) /\ i \in Nat /\ i + 1 # i
  BY <1>2, <1>5
<1>7. /\ a \in T /\ a # q /\ a # r /\ V[a].parent = q /\ lev[a] + 1 = lev[q]
      /\ \A x \in Int : x \in R[a] <=> (x \in R[q] /\ Between(V[q].keys, i, x))
  BY <1>2, <1>6, ChildFacts
<1>8. /\ b \in T /\ b # q /\ b # r /\ V[b].parent = q /\ lev[b] + 1 = lev[q] /\ lev[b] \in Nat
      /\ \A x \in Int : x \in R[b] <=> (x \in R[q] /\ Between(V[q].keys, i + 1, x))
  BY <1>2, <1>6, ChildFacts
<1>9. a # b /\ lev[b] = 0
  <2>1. a # b
    BY <1>2, <1>6, ChildOnce
  <2>2. lev[b] = 0
    BY <1>2, <1>7, <1>8
  <2> QED BY <2>1, <2>2
<1>10. V[b].type = "leaf" /\ V[b].children = <<>>
  <2>1. LeafOK(V[b], R[b])
    BY <1>1, <1>8, <1>9 DEF PageOK
  <2> QED BY <2>1 DEF LeafOK
<1>11. S[a] = R[a] \union R[b] /\ \A x \in Pages : x # a => S[x] = R[x]
  BY <1>1, <1>7 DEF MergeRange
<1>12. \A x \in T : x \in Pages /\ lev[x] \in Nat /\ lev[x] <= lev[r] /\ R[x] \subseteq Int
  BY <1>1, RangeFacts
<1> HIDE DEF S
<1>13. Sorted(W[q].keys) /\ Len(W[q].keys) = Len(V[q].keys) - 1
  BY <1>2, <1>3, <1>5, RemovedSorted DEF IsRemoved
<1>14. ASSUME NEW x \in Int
       PROVE  /\ \A j \in 1 .. i - 1 : Between(W[q].keys, j, x) <=> Between(V[q].keys, j, x)
              /\ Between(W[q].keys, i, x) <=> (Between(V[q].keys, i, x) \/ Between(V[q].keys, i + 1, x))
              /\ \A j \in i + 1 .. Len(V[q].keys) :
                    Between(W[q].keys, j, x) <=> Between(V[q].keys, j + 1, x)
  <2> DEFINE ks == V[q].keys
             kt == W[q].keys
  <2>1. /\ ks \in Seq(Int) /\ Sorted(ks) /\ i \in 1 .. Len(ks)
        /\ kt \in Seq(Int) /\ IsRemoved(ks, i, kt)
    BY <1>2, <1>3, <1>5
  <2> HIDE DEF ks, kt
  <2>2. /\ \A j \in 1 .. i - 1 : Between(kt, j, x) <=> Between(ks, j, x)
        /\ Between(kt, i, x) <=> (Between(ks, i, x) \/ Between(ks, i + 1, x))
        /\ \A j \in i + 1 .. Len(ks) : Between(kt, j, x) <=> Between(ks, j + 1, x)
    BY <2>1, RemovedBetween
  <2> QED BY <2>2 DEF ks, kt
<1>15. /\ Len(W[q].children) = Len(V[q].children) - 1
       /\ \A j \in 1 .. i : W[q].children[j] = V[q].children[j]
       /\ \A j \in i + 1 .. Len(V[q].children) - 1 : W[q].children[j] = V[q].children[j + 1]
  <2>1. /\ Len(W[q].children) = Len(V[q].children) - 1
        /\ \A j \in 1 .. Len(V[q].children) - 1 :
              W[q].children[j] = IF j < i + 1 THEN V[q].children[j] ELSE V[q].children[j + 1]
    BY <1>3 DEF IsRemoved
  <2>2. \A j \in 1 .. i : j \in 1 .. Len(V[q].children) - 1 /\ j < i + 1
    BY <1>6, <1>5, <1>2
  <2>3. \A j \in i + 1 .. Len(V[q].children) - 1 : j \in 1 .. Len(V[q].children) - 1 /\ ~(j < i + 1)
    BY <1>6, <1>5
  <2> QED BY <2>1, <2>2, <2>3
<1>16. \A x \in Int : x \in S[a] <=> (x \in R[q] /\ Between(W[q].keys, i, x))
  <2>1. \A x \in Int : x \in S[a] <=> (x \in R[a] \/ x \in R[b])
    BY <1>11
  <2> QED BY <2>1, <1>7, <1>8, <1>14
<1>17. RangeOK(S[a])
  <2>1. R[q] \subseteq Int /\ Convex(R[q]) /\ R[a] # {} /\ R[a] \subseteq Int /\ R[b] \subseteq Int
    BY <1>2, <1>7, <1>8, RangeFacts
  <2>2. S[a] \subseteq Int /\ S[a] # {}
    BY <2>1, <1>11
  <2>3. ASSUME NEW x \in S[a], NEW z \in S[a], NEW y \in Int, x <= y, y <= z PROVE y \in S[a]
    <3>1. x \in Int /\ z \in Int
      BY <2>2
    <3>2. /\ x \in R[q] /\ Between(W[q].keys, i, x)
          /\ z \in R[q] /\ Between(W[q].keys, i, z)
      BY <3>1, <1>16
    <3>3. y \in R[q]
      BY <3>1, <3>2, <2>1, <2>3 DEF Convex
    <3>4. Between(W[q].keys, i, y)
      <4> DEFINE kt == W[q].keys
      <4>1. /\ i > 1 => i - 1 \in 1 .. Len(kt)
            /\ i <= Len(kt) => i \in 1 .. Len(kt)
            /\ \A j \in 1 .. Len(kt) : kt[j] \in Int
        <5>1. kt \in Seq(Int) /\ Len(kt) = Len(V[q].keys) - 1
          BY <1>3, <1>13
        <5> HIDE DEF kt
        <5>2. \A j \in 1 .. Len(kt) : kt[j] \in Int
          BY <5>1
        <5> QED BY <5>1, <5>2, <1>2, <1>5
      <4>2. Between(kt, i, x) /\ Between(kt, i, z)
        BY <3>2
      <4> HIDE DEF kt
      <4>3. i > 1 => kt[i - 1] <= y
        BY <4>1, <4>2, <3>1, <2>3 DEF Between
      <4>4. i <= Len(kt) => y < kt[i]
        BY <4>1, <4>2, <3>1, <2>3 DEF Between
      <4>5. Between(kt, i, y)
        BY <4>3, <4>4 DEF Between
      <4> QED BY <4>5 DEF kt
    <3> QED BY <3>3, <3>4, <1>16
  <2>4. Convex(S[a])
    BY <2>3 DEF Convex
  <2> QED BY <2>2, <2>4 DEF RangeOK
(* Each page. *)
<1>20. \A x \in U : x \in T /\ x \in Pages /\ x # b
  BY <1>12
<1>21. ASSUME NEW x \in U PROVE lev[x] \in Nat /\ lev[x] <= lev[r] /\ RangeOK(S[x])
  <2>1. CASE x = a
    BY <2>1, <1>7, <1>12, <1>17
  <2>2. CASE x # a
    <3>1. RangeOK(R[x])
      BY <1>1, <1>20 DEF PageOK
    <3> QED BY <3>1, <2>2, <1>11, <1>12, <1>20
  <2> QED BY <2>1, <2>2
<1>22. ASSUME NEW x \in U, lev[x] = 0 PROVE LeafOK(W[x], S[x])
  <2>1. CASE x = a
    BY <2>1, <1>2, <1>11
  <2>2. CASE x # a
    <3>1. LeafOK(V[x], R[x])
      BY <1>1, <1>20, <1>22 DEF PageOK
    <3>2. x # q
      BY <1>2, <1>22
    <3>3. W[x].type = V[x].type /\ W[x].keys = V[x].keys /\ W[x].children = V[x].children /\ S[x] = R[x]
      BY <2>2, <3>2, <1>4, <1>11, <1>20
    <3> QED BY <3>1, <3>3 DEF LeafOK
  <2> QED BY <2>1, <2>2
<1>23. ASSUME NEW x \in U, lev[x] # 0 PROVE InnerOK(W[x])
  <2>0. InnerOK(V[x]) /\ x # a
    BY <1>1, <1>2, <1>20, <1>23 DEF PageOK
  <2>1. CASE x = q
    <3>1. V[q].type = "internal"
      BY <2>0, <2>1 DEF InnerOK
    <3>2. Len(W[q].children) = Len(W[q].keys) + 1
      BY <1>5, <1>13, <1>15
    <3> QED BY <3>1, <3>2, <2>1, <1>3, <1>13 DEF InnerOK
  <2>2. CASE x # q
    <3>1. W[x].type = V[x].type /\ W[x].keys = V[x].keys /\ W[x].children = V[x].children
      BY <2>0, <2>2, <1>4, <1>20
    <3> QED BY <2>0, <3>1 DEF InnerOK
  <2> QED BY <2>1, <2>2
<1>24. ASSUME NEW j \in 1 .. Len(W[q].children) PROVE ChildOK(W, U, lev, S, q, j)
  <2>0. S[q] = R[q] /\ i <= Len(V[q].children) - 1 /\ Len(V[q].children) \in Nat
    BY <1>2, <1>5, <1>7, <1>11, <1>12
  <2>1. CASE j = i
    <3>1. W[q].children[j] = a
      BY <2>1, <1>2, <1>6, <1>15
    <3>2. a \in U /\ W[a].parent = q /\ lev[a] + 1 = lev[q]
      BY <1>4, <1>7, <1>9, <1>12
    <3>3. \A x \in Int : x \in S[a] <=> (x \in S[q] /\ Between(W[q].keys, j, x))
      BY <2>0, <2>1, <1>16
    <3> QED BY <3>1, <3>2, <3>3 DEF ChildOK
  <2>3. ASSUME NEW k \in 1 .. Len(V[q].children), k # i, k # i + 1, W[q].children[j] = V[q].children[k],
               \A x \in Int : Between(W[q].keys, j, x) <=> Between(V[q].keys, k, x)
        PROVE  ChildOK(W, U, lev, S, q, j)
    <3> DEFINE c == V[q].children[k]
    <3>1. /\ c \in T /\ c # q /\ V[c].parent = q /\ lev[c] + 1 = lev[q]
          /\ \A x \in Int : x \in R[c] <=> (x \in R[q] /\ Between(V[q].keys, k, x))
      <4>1. k \in 1 .. Len(V[q].children) /\ q \in T /\ lev[q] # 0
        BY <2>3, <1>2
      <4> QED BY <4>1, ChildFacts
    <3>2. c # a /\ c # b
      BY <2>3, <1>2, <1>6, ChildOnce
    <3>3. W[q].children[j] = c
      BY <2>3
    <3> HIDE DEF c
    <3>4. c \in U /\ W[c].parent = q /\ S[c] = R[c]
      BY <3>1, <3>2, <1>4, <1>11, <1>12
    <3> QED BY <2>3, <3>1, <3>3, <3>4, <2>0 DEF ChildOK
  <2>4. CASE j < i
    <3>1. j \in 1 .. Len(V[q].children) /\ j # i /\ j # i + 1 /\ j \in 1 .. i - 1 /\ j \in 1 .. i
      BY <2>0, <2>4, <1>6
    <3>2. W[q].children[j] = V[q].children[j] /\ \A x \in Int : Between(W[q].keys, j, x) <=> Between(V[q].keys, j, x)
      BY <3>1, <1>14, <1>15
    <3> QED BY <3>1, <3>2, <2>3
  <2>5. CASE j > i
    <3>1. /\ j + 1 \in 1 .. Len(V[q].children) /\ j + 1 # i /\ j + 1 # i + 1
          /\ j \in i + 1 .. Len(V[q].children) - 1
          /\ j \in i + 1 .. Len(V[q].keys)
      BY <2>0, <2>5, <1>5, <1>6, <1>15
    <3>2. W[q].children[j] = V[q].children[j + 1]
      BY <3>1, <1>15
    <3>3. \A x \in Int : Between(W[q].keys, j, x) <=> Between(V[q].keys, j + 1, x)
      BY <3>1, <1>14
    <3> QED BY <3>1, <3>2, <3>3, <2>3
  <2>6. j = i \/ j < i \/ j > i
    BY <1>6
  <2> QED BY <2>1, <2>4, <2>5, <2>6
<1>25. ASSUME NEW x \in U, x # q, lev[x] # 0, NEW j \in 1 .. Len(W[x].children)
       PROVE  ChildOK(W, U, lev, S, x, j)
  <2>0. x \in T /\ x # a
    BY <1>20, <1>2, <1>25
  <2>1. W[x].children = V[x].children /\ W[x].keys = V[x].keys /\ S[x] = R[x]
    BY <2>0, <1>4, <1>11, <1>12, <1>25
  <2> DEFINE c == V[x].children[j]
  <2>2. /\ c \in T /\ V[c].parent = x /\ lev[c] + 1 = lev[x]
        /\ \A y \in Int : y \in R[c] <=> (y \in R[x] /\ Between(V[x].keys, j, y))
    BY <1>25, <2>0, <2>1, ChildFacts
  <2>3. W[x].children[j] = c
    BY <2>1
  <2> HIDE DEF c
  <2>4. c # a /\ c # b
    BY <2>2, <1>7, <1>8, <1>25
  <2>5. c \in U /\ W[c].parent = x /\ S[c] = R[c]
    BY <2>2, <2>4, <1>3, <1>4, <1>11, <1>12
  <2> QED BY <2>1, <2>2, <2>3, <2>5 DEF ChildOK
<1>26. ASSUME NEW x \in U, x # r
       PROVE  W[x].parent \in U /\ lev[W[x].parent] # 0 /\ IsChild(W[W[x].parent], x)
  <2> DEFINE g == V[x].parent
  <2>1. g \in T /\ lev[g] # 0 /\ \E j \in 1 .. Len(V[g].children) : V[g].children[j] = x
    BY <1>20, <1>26, ParentFacts
  <2>2. W[x].parent = g
    BY <1>3, <1>4, <1>20
  <2> HIDE DEF g
  <2>3. g \in U
    BY <2>1, <1>9
  <2>4. PICK j \in 1 .. Len(V[g].children) : V[g].children[j] = x
    BY <2>1
  <2>5. IsChild(W[g], x)
    <3>1. CASE g # q
      <4>1. W[g].children = V[g].children
        BY <3>1, <2>1, <1>4, <1>12
      <4> QED BY <4>1, <2>4 DEF IsChild
    <3>2. CASE g = q
      <4>1. j # i + 1
        BY <2>4, <3>2, <1>2, <1>20
      <4>2. CASE j <= i
        <5>1. j \in 1 .. i /\ j \in 1 .. Len(W[g].children)
          BY <4>2, <3>2, <2>4, <1>5, <1>6, <1>15
        <5>2. W[g].children[j] = x
          BY <5>1, <2>4, <3>2, <1>15
        <5> QED BY <5>1, <5>2 DEF IsChild
      <4>3. CASE j > i + 1
        <5>1. j - 1 \in i + 1 .. Len(V[q].children) - 1 /\ j - 1 \in 1 .. Len(W[g].children) /\ (j - 1) + 1 = j
          BY <4>3, <3>2, <2>4, <1>5, <1>6, <1>15
        <5>2. W[g].children[j - 1] = x
          BY <5>1, <2>4, <3>2, <1>15
        <5> QED BY <5>1, <5>2 DEF IsChild
      <4> QED BY <4>1, <4>2, <4>3, <2>4, <1>6
    <3> QED BY <3>1, <3>2
  <2> QED BY <2>1, <2>2, <2>3, <2>5
<1>27. ASSUME NEW x \in U, lev[x] # 0, NEW j \in 1 .. Len(W[x].children) PROVE ChildOK(W, U, lev, S, x, j)
  BY <1>24, <1>25, <1>27
<1>28. ASSUME NEW x \in U PROVE PageOK(W, r, U, lev, S, x)
  BY <1>21, <1>22, <1>23, <1>26, <1>27 DEF PageOK
<1>29. ASSUME NEW x \in Pages \ U PROVE FreeOK(W, U, lev, x)
  <2>1. CASE x = b
    <3>1. W[b].type = "leaf" /\ W[b].children = <<>> /\ W[b].parent = q
      BY <1>4, <1>8, <1>10, <1>12
    <3>2. q \in U
      BY <1>2, <1>8
    <3> QED BY <3>1, <3>2, <2>1, <1>2 DEF FreeOK
  <2>2. CASE x # b
    <3>1. FreeOK(V, T, lev, x) /\ x \notin T
      BY <2>2, <1>1
    <3>2. W[x].type = V[x].type /\ W[x].children = V[x].children /\ W[x].parent = V[x].parent
      BY <3>1, <1>2, <1>4
    <3>3. V[x].parent \in T /\ lev[V[x].parent] # 0 => V[x].parent \in U
      BY <1>9
    <3> QED BY <3>1, <3>2, <3>3 DEF FreeOK
  <2> QED BY <2>1, <2>2
<1>30. U \subseteq Pages /\ r \in U /\ W[r].parent = INVALID_PAGE_ID /\ S[r] = Int
  BY <1>1, <1>3, <1>4, <1>7, <1>8, <1>11
<1> QED
  BY <1>28, <1>29, <1>30 DEF IsTree, S

-----------------------------------------------------------------------------
(* The chain of the leaves *)

IsLeaf(T, lev, p) == p \in T /\ lev[p] = 0

Precedes(S, U) == \A x \in S, y \in U : x < y

(* c is the leaves in the order of their keys, from the first page.        *)
IsChain(V, T, lev, R, c) ==
    /\ c \in Seq(Pages) /\ Len(c) > 0 /\ c[1] = 0
    /\ \A i \in 1 .. Len(c) : IsLeaf(T, lev, c[i])
    /\ \A p \in Pages : IsLeaf(T, lev, p) => \E i \in 1 .. Len(c) : c[i] = p
    /\ \A i \in 1 .. Len(c) : V[c[i]].next = IF i = Len(c) THEN INVALID_PAGE_ID ELSE c[i + 1]
    /\ \A i, j \in 1 .. Len(c) : i < j => Precedes(R[c[i]], R[c[j]])

(* The chain depends on the next pointers and the ranges of leaves only. *)
LEMMA ChainSame ==
    ASSUME NEW V, NEW W, NEW T, NEW U, NEW lev, NEW l, NEW R, NEW S, NEW c,
           IsChain(V, T, lev, R, c),
           \A p \in Pages : IsLeaf(T, lev, p) <=> IsLeaf(U, l, p),
           \A p \in Pages : IsLeaf(T, lev, p) => W[p].next = V[p].next /\ S[p] = R[p]
    PROVE  IsChain(W, U, l, S, c)
<1>1. /\ c \in Seq(Pages) /\ Len(c) > 0 /\ c[1] = 0
      /\ \A i \in 1 .. Len(c) : IsLeaf(T, lev, c[i])
      /\ \A p \in Pages : IsLeaf(T, lev, p) => \E i \in 1 .. Len(c) : c[i] = p
      /\ \A i \in 1 .. Len(c) : V[c[i]].next = IF i = Len(c) THEN INVALID_PAGE_ID ELSE c[i + 1]
      /\ \A i, j \in 1 .. Len(c) : i < j => Precedes(R[c[i]], R[c[j]])
  BY DEF IsChain
<1>2. \A i \in 1 .. Len(c) : c[i] \in Pages
  BY <1>1
<1>3. \A i \in 1 .. Len(c) : /\ IsLeaf(U, l, c[i]) /\ W[c[i]].next = V[c[i]].next
                             /\ S[c[i]] = R[c[i]]
  BY <1>1, <1>2
<1> QED
  BY <1>1, <1>3 DEF IsChain

(* A leaf comes once. *)
LEMMA ChainOnce ==
    ASSUME NEW V, NEW T, NEW lev, NEW R, NEW c, IsChain(V, T, lev, R, c),
           \A p \in T : R[p] # {} /\ R[p] \subseteq Int,
           NEW i \in 1 .. Len(c), NEW j \in 1 .. Len(c), c[i] = c[j]
    PROVE  i = j
<1>1. /\ c \in Seq(Pages)
      /\ \A k \in 1 .. Len(c) : IsLeaf(T, lev, c[k])
      /\ \A k, m \in 1 .. Len(c) : k < m => Precedes(R[c[k]], R[c[m]])
  BY DEF IsChain
<1>2. c[i] \in T
  BY <1>1 DEF IsLeaf
<1>3. PICK x \in R[c[i]] : x \in Int
  BY <1>2
<1>4. ~(x < x)
  BY <1>3
<1>5. ~(i < j) /\ ~(j < i)
  BY <1>1, <1>3, <1>4 DEF Precedes
<1>6. i \in Int /\ j \in Int
  BY <1>1
<1> QED
  BY <1>5, <1>6

(* The chain meets no leaf twice. *)
LEMMA ChainPlaces ==
    ASSUME NEW V, NEW r, NEW T, NEW lev, NEW R, IsTree(V, r, T, lev, R),
           NEW c, IsChain(V, T, lev, R, c)
    PROVE  \A k, m \in 1 .. Len(c) : c[k] = c[m] => k = m
<1>1. \A p \in T : R[p] # {} /\ R[p] \subseteq Int
  BY RangeFacts
<1> QED BY <1>1, ChainOnce

(* The new leaf of a split comes after the old one. *)
LEMMA ChainSplit ==
    ASSUME NEW V, NEW W, NEW r, NEW T, NEW lev, NEW R, IsTree(V, r, T, lev, R),
           NEW p, NEW q, NEW i, NEW key, NEW new, IsSplit(V, W, T, lev, R, p, q, i, key, new),
           lev[p] = 0, NEW c, IsChain(V, T, lev, R, c),
           W[p].next = new, W[new].next = V[p].next,
           \A x \in Pages \ {p, new} : W[x].next = V[x].next
    PROVE  \E d : \E a \in 1 .. Len(c) :
              /\ IsChain(W, T \union {new}, SplitLev(lev, p, new), SplitRange(R, p, new, key), d)
              /\ c[a] = p /\ IsInserted(c, a + 1, new, d)
<1> DEFINE l == SplitLev(lev, p, new)
           S == SplitRange(R, p, new, key)
           U == T \union {new}
<1>1. /\ c \in Seq(Pages) /\ Len(c) > 0 /\ c[1] = 0
      /\ \A k \in 1 .. Len(c) : IsLeaf(T, lev, c[k])
      /\ \A x \in Pages : IsLeaf(T, lev, x) => \E k \in 1 .. Len(c) : c[k] = x
      /\ \A k \in 1 .. Len(c) : V[c[k]].next = IF k = Len(c) THEN INVALID_PAGE_ID ELSE c[k + 1]
      /\ \A k, m \in 1 .. Len(c) : k < m => Precedes(R[c[k]], R[c[m]])
  BY DEF IsChain
<1>2. /\ p \in T /\ new \in Pages \ T /\ T \subseteq Pages
      /\ key \in R[p] /\ key \in Int
  BY DEF IsSplit, IsTree
<1>3. \A x \in T : R[x] \subseteq Int /\ R[x] # {}
  BY RangeFacts
<1>4. /\ \A x \in T : x # new /\ x \in Pages /\ l[x] = lev[x]
      /\ l[new] = 0
      /\ \A x \in T : x # p => S[x] = R[x]
      /\ S[p] = Below(R[p], key) /\ S[new] = NotBelow(R[p], key)
  BY <1>2 DEF SplitLev, SplitRange
<1> HIDE DEF l, S
<1>5. PICK a \in 1 .. Len(c) : c[a] = p
  BY <1>1, <1>2 DEF IsLeaf
<1>6. Len(c) \in Nat /\ a \in Nat /\ a + 1 \in 1 .. Len(c) + 1
  BY <1>1, <1>5
<1> DEFINE d == InsertAt(c, a + 1, new)
<1>7. d \in Seq(Pages) /\ IsInserted(c, a + 1, new, d)
  BY <1>1, <1>2, <1>6, InsertedAt
<1> HIDE DEF d
<1>8. /\ Len(d) = Len(c) + 1
      /\ \A k \in 1 .. Len(c) + 1 :
            d[k] = IF k < a + 1 THEN c[k] ELSE IF k = a + 1 THEN new ELSE c[k - 1]
  BY <1>7 DEF IsInserted
<1>9. \A k \in 1 .. Len(c) : c[k] = p <=> k = a
  <2>1. \A k, m \in 1 .. Len(c) : c[k] = c[m] => k = m
    BY ChainPlaces
  <2> QED BY <2>1, <1>5
(* The places before, at and after the new leaf. *)
<1>10. ASSUME NEW k \in 1 .. Len(c) + 1
       PROVE  \/ k \in 1 .. Len(c) /\ k <= a /\ d[k] = c[k]
              \/ k = a + 1 /\ d[k] = new
              \/ k - 1 \in 1 .. Len(c) /\ k - 1 > a /\ d[k] = c[k - 1]
  <2>1. CASE k < a + 1
    <3>1. k \in 1 .. Len(c) /\ k <= a
      BY <2>1, <1>5, <1>6
    <3> QED BY <2>1, <3>1, <1>8
  <2>2. CASE k = a + 1
    <3>1. ~(k < a + 1)
      BY <2>2, <1>6
    <3> QED BY <2>2, <3>1, <1>8
  <2>3. CASE k > a + 1
    <3>1. ~(k < a + 1) /\ k # a + 1 /\ k - 1 \in 1 .. Len(c) /\ k - 1 > a
      BY <2>3, <1>5, <1>6
    <3> QED BY <3>1, <1>8
  <2> QED BY <2>1, <2>2, <2>3, <1>6
<1>11. \A k \in 1 .. Len(c) : c[k] \in T /\ lev[c[k]] = 0
  BY <1>1 DEF IsLeaf
<1>12. \A k \in 1 .. Len(d) : IsLeaf(U, l, d[k])
  BY <1>4, <1>8, <1>10, <1>11 DEF IsLeaf
<1>13. ASSUME NEW x \in Pages, IsLeaf(U, l, x) PROVE \E k \in 1 .. Len(d) : d[k] = x
  <2>1. CASE x = new
    <3>1. a + 1 \in 1 .. Len(d) /\ d[a + 1] = new
      <4>1. ~(a + 1 < a + 1)
        BY <1>6
      <4> QED BY <4>1, <1>6, <1>8
    <3> QED BY <2>1, <3>1
  <2>2. CASE x # new
    <3>1. IsLeaf(T, lev, x)
      BY <2>2, <1>4, <1>13 DEF IsLeaf
    <3>2. PICK k \in 1 .. Len(c) : c[k] = x
      BY <3>1, <1>1
    <3>3. CASE k < a + 1
      <4>1. k \in 1 .. Len(d) /\ k \in 1 .. Len(c) + 1
        BY <1>6, <1>8
      <4> QED BY <4>1, <3>2, <3>3, <1>8
    <3>4. CASE ~(k < a + 1)
      <4>1. /\ k + 1 \in 1 .. Len(d) /\ k + 1 \in 1 .. Len(c) + 1 /\ ~(k + 1 < a + 1) /\ k + 1 # a + 1
            /\ (k + 1) - 1 = k
        BY <3>4, <1>6, <1>8
      <4> QED BY <4>1, <3>2, <1>8
    <3> QED BY <3>3, <3>4
  <2> QED BY <2>1, <2>2
<1>14. ASSUME NEW k \in 1 .. Len(d)
       PROVE  W[d[k]].next = IF k = Len(d) THEN INVALID_PAGE_ID ELSE d[k + 1]
  <2>0. k \in 1 .. Len(c) + 1
    BY <1>8
  <2>1. CASE k \in 1 .. Len(c) /\ k <= a /\ d[k] = c[k]
    <3>1. CASE k = a
      <4>1. d[k] = p /\ k # Len(d) /\ d[k + 1] = new
        <5>1. ~(k + 1 < a + 1) /\ k + 1 = a + 1 /\ k + 1 \in 1 .. Len(c) + 1 /\ k # Len(d)
          BY <3>1, <1>6, <1>8
        <5> QED BY <5>1, <2>1, <3>1, <1>5, <1>8
      <4> QED BY <4>1
    <3>2. CASE k # a
      <4>1. c[k] # p /\ c[k] \in T
        BY <2>1, <3>2, <1>9, <1>11
      <4>2. W[c[k]].next = V[c[k]].next
        BY <4>1, <1>4
      <4>3. k + 1 < a + 1 /\ k + 1 \in 1 .. Len(c) + 1 /\ k # Len(c) /\ k # Len(d)
        BY <2>1, <3>2, <1>5, <1>6, <1>8
      <4>4. d[k + 1] = c[k + 1]
        BY <4>3, <1>8
      <4> QED BY <2>1, <4>2, <4>3, <4>4, <1>1
    <3> QED BY <3>1, <3>2
  <2>2. CASE k = a + 1 /\ d[k] = new
    <3>1. W[d[k]].next = V[c[a]].next
      BY <2>2, <1>5
    <3>2. V[c[a]].next = IF a = Len(c) THEN INVALID_PAGE_ID ELSE c[a + 1]
      BY <1>1, <1>5
    <3>3. a = Len(c) <=> k = Len(d)
      BY <2>2, <1>6, <1>8
    <3>4. a # Len(c) => d[k + 1] = c[a + 1]
      <4>1. a # Len(c) => /\ k + 1 \in 1 .. Len(c) + 1 /\ ~(k + 1 < a + 1) /\ k + 1 # a + 1
                          /\ (k + 1) - 1 = a + 1
        BY <2>2, <1>5, <1>6
      <4> QED BY <4>1, <1>8
    <3> QED BY <3>1, <3>2, <3>3, <3>4
  <2>3. CASE k - 1 \in 1 .. Len(c) /\ k - 1 > a /\ d[k] = c[k - 1]
    <3>1. c[k - 1] # p /\ c[k - 1] \in T
      BY <2>3, <1>9, <1>6, <1>11
    <3>2. W[d[k]].next = V[c[k - 1]].next
      BY <2>3, <3>1, <1>4
    <3>3. V[c[k - 1]].next = IF k - 1 = Len(c) THEN INVALID_PAGE_ID ELSE c[k]
      <4>1. (k - 1) + 1 = k
        BY <2>0, <1>6
      <4> QED BY <2>3, <4>1, <1>1
    <3>4. k - 1 = Len(c) <=> k = Len(d)
      BY <2>0, <1>6, <1>8
    <3>5. k # Len(d) => d[k + 1] = c[k]
      <4>1. k # Len(d) => /\ k + 1 \in 1 .. Len(c) + 1 /\ ~(k + 1 < a + 1) /\ k + 1 # a + 1
                          /\ (k + 1) - 1 = k
        <5>1. Len(d) = Len(c) + 1
          BY <1>8
        <5>2. k # Len(d) => k <= Len(c)
          BY <5>1, <2>0, <1>6
        <5>3. k > a + 1 /\ k \in Nat
          BY <2>0, <2>3, <1>6
        <5> QED BY <5>2, <5>3, <1>6
      <4> QED BY <4>1, <1>8
    <3> QED BY <3>2, <3>3, <3>4, <3>5
  <2> QED BY <2>0, <2>1, <2>2, <2>3, <1>10
<1>15. /\ \A x \in S[p] : x \in R[p] /\ x < key /\ x \in Int
       /\ \A x \in S[new] : x \in R[p] /\ ~(x < key) /\ x \in Int
  BY <1>2, <1>3, <1>4 DEF Below, NotBelow
<1>16. Precedes(S[p], S[new])
  BY <1>15, <1>2 DEF Precedes
<1>17. \A k, m \in 1 .. Len(c) : k < m => /\ Precedes(S[c[k]], S[c[m]])
                                          /\ c[m] = p => Precedes(S[c[k]], S[new])
                                          /\ c[k] = p => Precedes(S[new], S[c[m]])
  <2> SUFFICES ASSUME NEW k \in 1 .. Len(c), NEW m \in 1 .. Len(c), k < m
               PROVE  /\ Precedes(S[c[k]], S[c[m]])
                      /\ c[m] = p => Precedes(S[c[k]], S[new])
                      /\ c[k] = p => Precedes(S[new], S[c[m]])
    OBVIOUS
  <2>1. Precedes(R[c[k]], R[c[m]])
    BY <1>1
  <2>2. \A x \in T : S[x] \subseteq R[x]
    BY <1>4, <1>15
  <2>3. S[new] \subseteq R[p]
    BY <1>15
  <2> QED BY <2>1, <2>2, <2>3, <1>11 DEF Precedes
<1>18. ASSUME NEW k \in 1 .. Len(d), NEW m \in 1 .. Len(d), k < m PROVE Precedes(S[d[k]], S[d[m]])
  <2>0. k \in 1 .. Len(c) + 1 /\ m \in 1 .. Len(c) + 1
    BY <1>8
  <2>1. CASE k \in 1 .. Len(c) /\ k <= a /\ d[k] = c[k]
    <3>1. CASE m \in 1 .. Len(c) /\ m <= a /\ d[m] = c[m]
      BY <2>1, <3>1, <1>17, <1>18
    <3>2. CASE m = a + 1 /\ d[m] = new
      <4>1. CASE k = a
        BY <4>1, <2>1, <3>2, <1>5, <1>16
      <4>2. CASE k # a
        <5>1. k < a
          BY <4>2, <2>1, <1>6
        <5> QED BY <5>1, <2>1, <3>2, <1>5, <1>17
      <4> QED BY <4>1, <4>2
    <3>3. CASE m - 1 \in 1 .. Len(c) /\ m - 1 > a /\ d[m] = c[m - 1]
      <4>1. k < m - 1
        BY <2>1, <3>3, <1>6
      <4> QED BY <4>1, <2>1, <3>3, <1>17
    <3> QED BY <2>0, <3>1, <3>2, <3>3, <1>10
  <2>2. CASE k = a + 1 /\ d[k] = new
    <3>1. m > a + 1
      BY <2>2, <1>18
    <3>2. m - 1 \in 1 .. Len(c) /\ m - 1 > a /\ d[m] = c[m - 1]
      BY <3>1, <2>0, <1>6, <1>10
    <3> QED BY <2>2, <3>2, <1>5, <1>6, <1>17
  <2>3. CASE k - 1 \in 1 .. Len(c) /\ k - 1 > a /\ d[k] = c[k - 1]
    <3>1. m - 1 > a /\ k - 1 < m - 1 /\ m > a + 1
      BY <2>0, <2>3, <1>6, <1>18
    <3>2. m - 1 \in 1 .. Len(c) /\ d[m] = c[m - 1]
      BY <3>1, <2>0, <1>6, <1>10
    <3> QED BY <2>3, <3>1, <3>2, <1>17
  <2> QED BY <2>0, <2>1, <2>2, <2>3, <1>10
<1>19. Len(d) > 0 /\ d[1] = 0
  <2>1. 1 \in 1 .. Len(c) + 1 /\ 1 < a + 1
    BY <1>5, <1>6
  <2> QED BY <2>1, <1>1, <1>6, <1>8
<1>20. IsChain(W, U, l, S, d)
  BY <1>7, <1>12, <1>13, <1>14, <1>18, <1>19 DEF IsChain
<1> QED
  BY <1>5, <1>7, <1>20 DEF l, S

(* The two leaves of a merge follow one another in the chain, and the      *)
(* second leaves it.                                                       *)
ChainWithout(W, T, lev, R, c, a, b) ==
    \E d : \E e \in 1 .. Len(c) - 1 :
       /\ IsChain(W, T \ {b}, lev, MergeRange(R, a, b), d)
       /\ c[e] = a /\ c[e + 1] = b /\ IsRemoved(c, e + 1, d)

(* A merge takes the right one of two neighbours out of the chain. *)
LEMMA ChainMerged ==
    ASSUME NEW V, NEW W, NEW r, NEW T, NEW lev, NEW R, IsTree(V, r, T, lev, R),
           NEW q, NEW i, NEW a, NEW b, IsMerge(V, W, T, lev, R, q, i, a, b),
           NEW c, IsChain(V, T, lev, R, c),
           W[a].next = V[b].next, \A x \in Pages \ {a} : W[x].next = V[x].next
    PROVE  ChainWithout(W, T, lev, R, c, a, b)
<1> DEFINE S == MergeRange(R, a, b)
           U == T \ {b}
<1>1. /\ c \in Seq(Pages) /\ Len(c) > 0 /\ c[1] = 0
      /\ \A k \in 1 .. Len(c) : IsLeaf(T, lev, c[k])
      /\ \A x \in Pages : IsLeaf(T, lev, x) => \E k \in 1 .. Len(c) : c[k] = x
      /\ \A k \in 1 .. Len(c) : V[c[k]].next = IF k = Len(c) THEN INVALID_PAGE_ID ELSE c[k + 1]
      /\ \A k, m \in 1 .. Len(c) : k < m => Precedes(R[c[k]], R[c[m]])
  BY DEF IsChain
<1>2. /\ q \in T /\ lev[q] # 0 /\ i \in 1 .. Len(V[q].keys)
      /\ a = V[q].children[i] /\ b = V[q].children[i + 1] /\ lev[a] = 0
  BY DEF IsMerge
<1>3. \A x \in T : R[x] \subseteq Int /\ R[x] # {} /\ Convex(R[x]) /\ x \in Pages
  BY RangeFacts
<1>4. /\ V[q].keys \in Seq(Int) /\ Sorted(V[q].keys) /\ Len(V[q].keys) \in Nat
      /\ Len(V[q].children) = Len(V[q].keys) + 1
  <2>1. PageOK(V, r, T, lev, R, q)
    BY <1>2 DEF IsTree
  <2> QED BY <2>1, <1>2 DEF PageOK, InnerOK
<1>5. i \in 1 .. Len(V[q].children) /\ i + 1 \in 1 .. Len(V[q].children) /\ i \in Nat /\ i + 1 # i
  BY <1>2, <1>4
<1>6. /\ a \in T /\ lev[a] + 1 = lev[q]
      /\ \A x \in Int : x \in R[a] <=> (x \in R[q] /\ Between(V[q].keys, i, x))
  BY <1>2, <1>5, ChildFacts
<1>7. /\ b \in T /\ lev[b] + 1 = lev[q] /\ lev[b] \in Nat
      /\ \A x \in Int : x \in R[b] <=> (x \in R[q] /\ Between(V[q].keys, i + 1, x))
  BY <1>2, <1>5, ChildFacts
<1>8. a # b /\ lev[b] = 0
  <2>1. a # b
    BY <1>2, <1>5, ChildOnce
  <2>2. lev[b] = 0
    BY <1>2, <1>6, <1>7
  <2> QED BY <2>1, <2>2
<1>9. PICK e \in 1 .. Len(c) : c[e] = a
  BY <1>1, <1>2, <1>3, <1>6 DEF IsLeaf
<1>10. PICK f \in 1 .. Len(c) : c[f] = b
  BY <1>1, <1>3, <1>7, <1>8 DEF IsLeaf
<1>11. Len(c) \in Nat /\ e \in Nat /\ f \in Nat
  BY <1>1
<1>12. PICK xa \in R[a] : xa \in Int
  BY <1>3, <1>6
<1>13. PICK xb \in R[b] : xb \in Int
  BY <1>3, <1>7
<1> DEFINE ks == V[q].keys
<1>14. /\ ks[i] \in Int /\ (i + 1) - 1 = i /\ i + 1 > 1 /\ i <= Len(ks)
       /\ ks \in Seq(Int) /\ Sorted(ks) /\ Len(ks) \in Nat
  BY <1>2, <1>4
<1> HIDE DEF ks
<1>15. (\A x \in Int : Between(ks, i, x) => x < ks[i]) /\ \A x \in Int : Between(ks, i + 1, x) => ks[i] <= x
  BY <1>14 DEF Between
<1>16. xa < xb
  <2>1. Between(ks, i, xa) /\ Between(ks, i + 1, xb)
    BY <1>6, <1>7, <1>12, <1>13 DEF ks
  <2> QED BY <2>1, <1>12, <1>13, <1>14, <1>15
<1>17. e < f
  <2>1. e # f
    BY <1>8, <1>9, <1>10
  <2>2. ~(f < e)
    <3> SUFFICES ASSUME f < e PROVE FALSE
      OBVIOUS
    <3>1. Precedes(R[b], R[a])
      BY <1>1, <1>9, <1>10
    <3>2. xb < xa
      BY <3>1, <1>12, <1>13 DEF Precedes
    <3> QED BY <3>2, <1>12, <1>13, <1>16
  <2> QED BY <2>1, <2>2, <1>11
<1>18. f = e + 1
  <2> SUFFICES ASSUME f # e + 1 PROVE FALSE
    OBVIOUS
  <2>1. e + 1 \in 1 .. Len(c) /\ e < e + 1 /\ e + 1 < f
    BY <1>10, <1>11, <1>17
  <2> DEFINE g == c[e + 1]
  <2>2. Precedes(R[a], R[g]) /\ Precedes(R[g], R[b]) /\ g \in T
    BY <2>1, <1>1, <1>9, <1>10 DEF IsLeaf
  <2> HIDE DEF g
  <2>3. PICK y \in R[g] : y \in Int
    BY <2>2, <1>3
  <2>4. xa < y /\ y < xb
    BY <2>2, <2>3, <1>12, <1>13 DEF Precedes
  <2>5. y \in R[q]
    <3>1. xa \in R[q] /\ xb \in R[q] /\ xa <= y /\ y <= xb
      BY <2>3, <2>4, <1>6, <1>7, <1>12, <1>13
    <3> QED BY <3>1, <2>3, <1>2, <1>3 DEF Convex
  <2>6. Between(ks, i, xa) /\ Between(ks, i + 1, xb)
    BY <1>6, <1>7, <1>12, <1>13 DEF ks
  <2>7. /\ \A j \in 1 .. Len(ks) : ks[j] \in Int
        /\ i > 1 => i - 1 \in 1 .. Len(ks)
        /\ i + 1 <= Len(ks) => i + 1 \in 1 .. Len(ks)
    BY <1>14, <1>5
  <2>8. Between(ks, i, y) \/ Between(ks, i + 1, y)
    <3>1. i > 1 => ks[i - 1] <= y
      BY <2>3, <2>4, <2>6, <2>7, <1>12 DEF Between
    <3>2. i + 1 <= Len(ks) => y < ks[i + 1]
      BY <2>3, <2>4, <2>6, <2>7, <1>13 DEF Between
    <3>3. y < ks[i] \/ ks[i] <= y
      BY <2>3, <1>14
    <3> QED BY <3>1, <3>2, <3>3, <1>14 DEF Between
  <2>9. y \in R[a] \/ y \in R[b]
    BY <2>3, <2>5, <2>8, <1>6, <1>7 DEF ks
  <2>10. y < y
    BY <2>2, <2>3, <2>9 DEF Precedes
  <2> QED BY <2>3, <2>10
<1>19. e \in 1 .. Len(c) - 1 /\ e + 1 \in 1 .. Len(c) /\ c[e + 1] = b
  BY <1>10, <1>11, <1>18, <1>9
<1> DEFINE d == RemoveAt(c, e + 1)
<1>20. d \in Seq(Pages) /\ IsRemoved(c, e + 1, d)
  BY <1>1, <1>19, RemovedAt
<1> HIDE DEF d
<1>21. /\ Len(d) = Len(c) - 1
       /\ \A k \in 1 .. Len(c) - 1 : d[k] = IF k < e + 1 THEN c[k] ELSE c[k + 1]
  BY <1>20 DEF IsRemoved
<1>22. /\ \A k \in 1 .. Len(c) : c[k] = a <=> k = e
       /\ \A k \in 1 .. Len(c) : c[k] = b <=> k = e + 1
  <2>1. \A k, m \in 1 .. Len(c) : c[k] = c[m] => k = m
    BY ChainPlaces
  <2> QED BY <2>1, <1>9, <1>19
<1>23. ASSUME NEW k \in 1 .. Len(d)
       PROVE  \/ k \in 1 .. Len(c) /\ k <= e /\ d[k] = c[k]
              \/ k + 1 \in 1 .. Len(c) /\ k > e /\ d[k] = c[k + 1]
  <2>1. k \in 1 .. Len(c) - 1 /\ k \in 1 .. Len(c) /\ k + 1 \in 1 .. Len(c)
    BY <1>11, <1>21
  <2>2. CASE k < e + 1
    <3>1. k <= e
      BY <2>1, <2>2, <1>11
    <3> QED BY <2>1, <2>2, <3>1, <1>21
  <2>3. CASE ~(k < e + 1)
    <3>1. k > e
      BY <2>1, <2>3, <1>11
    <3> QED BY <2>1, <2>3, <3>1, <1>21
  <2> QED BY <2>2, <2>3
<1>24. \A k \in 1 .. Len(c) : c[k] \in T /\ lev[c[k]] = 0 /\ c[k] \in Pages
  BY <1>1, <1>3 DEF IsLeaf
<1>25. ASSUME NEW k \in 1 .. Len(d) PROVE IsLeaf(U, lev, d[k])
  <2>1. CASE k \in 1 .. Len(c) /\ k <= e /\ d[k] = c[k]
    <3>1. k # e + 1
      BY <2>1, <1>11
    <3> QED BY <2>1, <3>1, <1>22, <1>24 DEF IsLeaf
  <2>2. CASE k + 1 \in 1 .. Len(c) /\ k > e /\ d[k] = c[k + 1]
    <3>1. k + 1 # e + 1
      BY <2>2, <1>11, <1>21
    <3> QED BY <2>2, <3>1, <1>22, <1>24 DEF IsLeaf
  <2> QED BY <2>1, <2>2, <1>23
<1>26. ASSUME NEW x \in Pages, IsLeaf(U, lev, x) PROVE \E k \in 1 .. Len(d) : d[k] = x
  <2>1. IsLeaf(T, lev, x) /\ x # b
    BY <1>26 DEF IsLeaf
  <2>2. PICK k \in 1 .. Len(c) : c[k] = x
    BY <2>1, <1>1
  <2>3. k # e + 1
    BY <2>1, <2>2, <1>22
  <2>4. CASE k < e + 1
    <3>1. k \in 1 .. Len(c) - 1
      BY <2>4, <1>11, <1>19
    <3> QED BY <3>1, <2>2, <2>4, <1>21
  <2>5. CASE ~(k < e + 1)
    <3>1. k - 1 \in 1 .. Len(c) - 1 /\ ~(k - 1 < e + 1) /\ (k - 1) + 1 = k
      BY <2>3, <2>5, <1>11, <1>19
    <3> QED BY <3>1, <2>2, <1>21
  <2> QED BY <2>4, <2>5
<1>27. ASSUME NEW k \in 1 .. Len(d)
       PROVE  W[d[k]].next = IF k = Len(d) THEN INVALID_PAGE_ID ELSE d[k + 1]
  <2>0. k \in 1 .. Len(c) - 1 /\ k \in Nat
    BY <1>11, <1>21
  <2>1. CASE k = e
    <3>1. d[k] = a /\ W[a].next = V[b].next
      BY <2>1, <2>0, <1>9, <1>11, <1>21
    <3>2. V[c[e + 1]].next = IF e + 1 = Len(c) THEN INVALID_PAGE_ID ELSE c[(e + 1) + 1]
      BY <1>1, <1>19
    <3>3. e + 1 = Len(c) <=> k = Len(d)
      BY <2>1, <1>11, <1>21
    <3>4. k # Len(d) => d[k + 1] = c[(e + 1) + 1]
      <4>1. k # Len(d) => /\ k + 1 \in 1 .. Len(c) - 1 /\ ~(k + 1 < e + 1) /\ (k + 1) + 1 = (e + 1) + 1
        BY <2>0, <2>1, <1>11, <1>21
      <4> QED BY <4>1, <1>21
    <3> QED BY <3>1, <3>2, <3>3, <3>4, <1>19
  <2>2. CASE k < e
    <3>1. d[k] = c[k] /\ k # e /\ k # Len(c) /\ k # Len(d) /\ k + 1 \in 1 .. Len(c) - 1 /\ k + 1 < e + 1
          /\ k \in 1 .. Len(c)
      BY <2>0, <2>2, <1>11, <1>19, <1>21
    <3>2. c[k] # a /\ c[k] \in Pages
      BY <3>1, <1>22, <1>24
    <3>3. W[c[k]].next = V[c[k]].next /\ V[c[k]].next = c[k + 1]
      BY <3>1, <3>2, <1>1
    <3>4. d[k + 1] = c[k + 1]
      BY <3>1, <1>21
    <3> QED BY <3>1, <3>3, <3>4
  <2>3. CASE k > e
    <3>1. ~(k < e + 1) /\ k + 1 \in 1 .. Len(c) /\ k + 1 # e
      BY <2>0, <2>3, <1>11
    <3>2. d[k] = c[k + 1] /\ c[k + 1] # a /\ c[k + 1] \in Pages
      BY <2>0, <3>1, <1>21, <1>22, <1>24
    <3>3. W[c[k + 1]].next = V[c[k + 1]].next
      BY <3>2
    <3>4. V[c[k + 1]].next = IF k + 1 = Len(c) THEN INVALID_PAGE_ID ELSE c[(k + 1) + 1]
      BY <3>1, <1>1
    <3>5. k + 1 = Len(c) <=> k = Len(d)
      BY <2>0, <1>11, <1>21
    <3>6. k # Len(d) => d[k + 1] = c[(k + 1) + 1]
      <4>1. k # Len(d) => k + 1 \in 1 .. Len(c) - 1 /\ ~(k + 1 < e + 1)
        <5>1. Len(d) = Len(c) - 1
          BY <1>21
        <5>2. k # Len(d) => k + 1 <= Len(c) - 1
          BY <5>1, <2>0, <1>11
        <5> QED BY <5>2, <2>0, <2>3, <1>11
      <4> QED BY <4>1, <1>21
    <3> QED BY <3>2, <3>3, <3>4, <3>5, <3>6
  <2> QED BY <2>0, <2>1, <2>2, <2>3, <1>11
<1>28. S[a] = R[a] \union R[b] /\ \A x \in Pages : x # a => S[x] = R[x]
  BY <1>3, <1>6 DEF MergeRange
<1> HIDE DEF S
<1>29. ASSUME NEW k \in 1 .. Len(c), NEW m \in 1 .. Len(c), k < m, k # e + 1, m # e + 1
       PROVE  Precedes(S[c[k]], S[c[m]])
  <2>1. Precedes(R[c[k]], R[c[m]])
    BY <1>1, <1>29
  <2>2. CASE k = e
    <3>1. e + 1 < m /\ m # e
      BY <2>2, <1>11, <1>29
    <3>2. Precedes(R[b], R[c[m]])
      BY <3>1, <1>1, <1>19
    <3>3. S[c[k]] = R[a] \union R[b] /\ S[c[m]] = R[c[m]] /\ c[k] = a
      BY <2>2, <3>1, <1>9, <1>22, <1>24, <1>28
    <3> QED BY <2>1, <3>2, <3>3 DEF Precedes
  <2>3. CASE m = e
    <3>1. k < e + 1 /\ k # e
      BY <2>3, <1>11, <1>29
    <3>2. Precedes(R[c[k]], R[b])
      BY <3>1, <1>1, <1>19
    <3>3. S[c[m]] = R[a] \union R[b] /\ S[c[k]] = R[c[k]] /\ c[m] = a
      BY <2>3, <3>1, <1>9, <1>22, <1>24, <1>28
    <3> QED BY <2>1, <3>2, <3>3 DEF Precedes
  <2>4. CASE k # e /\ m # e
    <3>1. S[c[m]] = R[c[m]] /\ S[c[k]] = R[c[k]]
      BY <2>4, <1>22, <1>24, <1>28
    <3> QED BY <2>1, <3>1
  <2> QED BY <2>2, <2>3, <2>4
<1>30. ASSUME NEW k \in 1 .. Len(d), NEW m \in 1 .. Len(d), k < m PROVE Precedes(S[d[k]], S[d[m]])
  <2>0. k \in Nat /\ m \in Nat
    BY <1>11, <1>21
  <2>1. CASE k \in 1 .. Len(c) /\ k <= e /\ d[k] = c[k]
    <3>1. CASE m \in 1 .. Len(c) /\ m <= e /\ d[m] = c[m]
      <4>1. k # e + 1 /\ m # e + 1
        BY <2>1, <3>1, <1>11
      <4> QED BY <2>1, <3>1, <4>1, <1>29, <1>30
    <3>2. CASE m + 1 \in 1 .. Len(c) /\ m > e /\ d[m] = c[m + 1]
      <4>1. k # e + 1 /\ m + 1 # e + 1 /\ k < m + 1
        BY <2>0, <2>1, <3>2, <1>11
      <4> QED BY <2>1, <3>2, <4>1, <1>29
    <3> QED BY <3>1, <3>2, <1>23
  <2>2. CASE k + 1 \in 1 .. Len(c) /\ k > e /\ d[k] = c[k + 1]
    <3>1. m > e /\ k + 1 # e + 1 /\ m + 1 # e + 1 /\ k + 1 < m + 1
      BY <2>0, <2>2, <1>11, <1>30
    <3>2. m + 1 \in 1 .. Len(c) /\ d[m] = c[m + 1]
      BY <3>1, <2>0, <1>11, <1>23
    <3> QED BY <2>2, <3>1, <3>2, <1>29
  <2> QED BY <2>1, <2>2, <1>23
<1>31. Len(d) > 0 /\ d[1] = 0
  <2>1. 1 \in 1 .. Len(c) - 1 /\ 1 < e + 1 /\ Len(c) - 1 > 0
    BY <1>11, <1>19
  <2> QED BY <2>1, <1>1, <1>21
<1>32. IsChain(W, U, lev, S, d)
  BY <1>20, <1>25, <1>26, <1>27, <1>30, <1>31 DEF IsChain
<1> QED
  BY <1>9, <1>19, <1>20, <1>32 DEF S, U, ChainWithout

-----------------------------------------------------------------------------
(* Where the next pointers lead, and leaves with keys *)

(* Every page's next pointer leads nearer to an end, also of a page out of *)
(* the tree, and to a page that was allocated.                             *)
Ranked(V, used, rank) ==
    \A p \in Pages :
        /\ rank[p] \in Nat
        /\ \/ V[p].next = INVALID_PAGE_ID
           \/ V[p].next \in Pages /\ V[p].next < used /\ rank[V[p].next] < rank[p]

(* Ranks depend on the next pointers only. *)
LEMMA RankedSame ==
    ASSUME NEW V, NEW W, NEW used \in Nat, NEW more \in Nat, used <= more,
           NEW rank, Ranked(V, used, rank), \A p \in Pages : W[p].next = V[p].next
    PROVE  Ranked(W, more, rank)
<1> SUFFICES ASSUME NEW p \in Pages
             PROVE  /\ rank[p] \in Nat
                    /\ \/ W[p].next = INVALID_PAGE_ID
                       \/ W[p].next \in Pages /\ W[p].next < more /\ rank[W[p].next] < rank[p]
  BY DEF Ranked
<1>1. /\ rank[p] \in Nat
      /\ \/ V[p].next = INVALID_PAGE_ID
         \/ V[p].next \in Pages /\ V[p].next < used /\ rank[V[p].next] < rank[p]
  BY DEF Ranked
<1>2. ASSUME NEW x \in Pages, x < used PROVE x < more
  BY <1>2 DEF Pages
<1> QED
  BY <1>1, <1>2

SplitRank(rank, p, new) ==
    [x \in Pages |-> IF x = new THEN 2 * rank[p] ELSE 2 * rank[x] + 1]

(* A split puts a new page behind the page that is split: of the ranks from *)
(* there on there is room for one. *)
LEMMA RankedSplit ==
    ASSUME NEW V, NEW W, NEW used \in Pages, NEW rank, Ranked(V, used, rank),
           NEW p \in Pages, p # used, W[p].next = used, W[used].next = V[p].next,
           \A x \in Pages \ {p, used} : W[x].next = V[x].next
    PROVE  Ranked(W, used + 1, SplitRank(rank, p, used))
<1> DEFINE k == SplitRank(rank, p, used)
<1>0. used \in Nat
  BY DEF Pages
<1>1. \A x \in Pages : /\ rank[x] \in Nat
                       /\ \/ V[x].next = INVALID_PAGE_ID
                          \/ V[x].next \in Pages /\ V[x].next < used /\ rank[V[x].next] < rank[x]
  BY DEF Ranked
<1>2. k[used] = 2 * rank[p] /\ \A x \in Pages : x # used => k[x] = 2 * rank[x] + 1
  BY DEF SplitRank
<1> HIDE DEF k
<1>3. \A x \in Pages : x < used => x # used /\ x < used + 1
  BY <1>0 DEF Pages
<1>4. \A m, n \in Nat : 2 * m \in Nat /\ 2 * m + 1 \in Nat /\ (m < n => 2 * m + 1 < 2 * n + 1 /\ 2 * m + 1 < 2 * n)
                        /\ 2 * m < 2 * m + 1
  OBVIOUS
<1> SUFFICES ASSUME NEW x \in Pages
             PROVE  /\ k[x] \in Nat
                    /\ \/ W[x].next = INVALID_PAGE_ID
                       \/ W[x].next \in Pages /\ W[x].next < used + 1 /\ k[W[x].next] < k[x]
  BY DEF Ranked, k
<1>5. CASE x = used
  <2>1. V[p].next \in Pages /\ V[p].next < used /\ rank[V[p].next] < rank[p] =>
           V[p].next < used + 1 /\ k[V[p].next] = 2 * rank[V[p].next] + 1 /\ k[V[p].next] < 2 * rank[p]
    BY <1>1, <1>2, <1>3, <1>4
  <2> QED BY <2>1, <1>1, <1>2, <1>4, <1>5
<1>6. CASE x = p
  <2>1. used < used + 1
    BY <1>0
  <2> QED BY <2>1, <1>1, <1>2, <1>4, <1>6
<1>7. CASE x # used /\ x # p
  <2>1. W[x].next = V[x].next
    BY <1>7
  <2>2. V[x].next \in Pages /\ V[x].next < used /\ rank[V[x].next] < rank[x] =>
           V[x].next < used + 1 /\ k[V[x].next] = 2 * rank[V[x].next] + 1 /\ k[V[x].next] < 2 * rank[x] + 1
    BY <1>1, <1>2, <1>3, <1>4
  <2> QED BY <2>1, <2>2, <1>1, <1>2, <1>4, <1>7
<1> QED
  BY <1>5, <1>6, <1>7

(* A merge skips a page: the pointer leads even nearer to an end. *)
LEMMA RankedMerged ==
    ASSUME NEW V, NEW W, NEW used, NEW rank, Ranked(V, used, rank),
           NEW a \in Pages, V[a].next \in Pages, W[a].next = V[V[a].next].next,
           \A x \in Pages \ {a} : W[x].next = V[x].next
    PROVE  Ranked(W, used, rank)
<1>1. \A x \in Pages : /\ rank[x] \in Nat
                       /\ \/ V[x].next = INVALID_PAGE_ID
                          \/ V[x].next \in Pages /\ V[x].next < used /\ rank[V[x].next] < rank[x]
  BY DEF Ranked
<1> SUFFICES ASSUME NEW x \in Pages
             PROVE  /\ rank[x] \in Nat
                    /\ \/ W[x].next = INVALID_PAGE_ID
                       \/ W[x].next \in Pages /\ W[x].next < used /\ rank[W[x].next] < rank[x]
  BY DEF Ranked
<1>2. CASE x = a
  <2> DEFINE b == V[a].next
  <2>1. b \in Pages /\ rank[b] < rank[a] /\ rank[a] \in Nat /\ rank[b] \in Nat
    BY <1>1, NoPage
  <2> HIDE DEF b
  <2>2. W[a].next = V[b].next
    BY DEF b
  <2>3. V[b].next = INVALID_PAGE_ID \/ (V[b].next \in Pages /\ V[b].next < used /\ rank[V[b].next] < rank[b]
                                        /\ rank[V[b].next] \in Nat)
    BY <1>1, <2>1
  <2>4. V[b].next = INVALID_PAGE_ID \/ rank[V[b].next] < rank[a]
    BY <2>1, <2>3
  <2> QED BY <1>2, <2>1, <2>2, <2>3, <2>4
<1>3. CASE x # a
  BY <1>1, <1>3
<1> QED BY <1>2, <1>3

(* A leaf with other children beside it has keys, but for one that waits   *)
(* to be merged.                                                           *)
NonEmpty(V, r, T, lev, except) ==
    \A x \in T : lev[x] = 0 /\ x # r /\ x # except /\ Len(V[V[x].parent].children) > 1
                    => V[x].keys # <<>>

(* That no leaf is empty beside another survives a new root, a split and a  *)
(* merge of the leaf that was being waited for. *)
LEMMA NonEmptyRoot ==
    ASSUME NEW V, NEW W, NEW r, NEW T, NEW lev, NEW R, IsTree(V, r, T, lev, R),
           NEW f \in Pages \ T, NonEmpty(V, r, T, lev, INVALID_PAGE_ID),
           W[f] = Internal(<<>>, <<r>>, INVALID_PAGE_ID),
           \A x \in Pages \ {f} : /\ W[x].type = V[x].type /\ W[x].keys = V[x].keys
                                  /\ W[x].children = V[x].children
                                  /\ W[x].parent = IF x = r THEN f ELSE V[x].parent
    PROVE  NonEmpty(W, f, T \union {f}, RootLev(lev, r, f), INVALID_PAGE_ID)
<1> DEFINE l == RootLev(lev, r, f)
<1> SUFFICES ASSUME NEW x \in T \union {f}, l[x] = 0, x # f, x # INVALID_PAGE_ID,
                    Len(W[W[x].parent].children) > 1
             PROVE  W[x].keys # <<>>
  BY DEF NonEmpty
<1>1. x \in T /\ x \in Pages /\ lev[x] = 0
  BY RangeFacts DEF RootLev
<1>2. W[x].keys = V[x].keys /\ W[x].parent = IF x = r THEN f ELSE V[x].parent
  BY <1>1
<1>3. x # r
  <2> SUFFICES ASSUME x = r PROVE FALSE
    OBVIOUS
  <2>1. W[x].parent = f
    BY <1>2
  <2>2. W[f].children = <<r>>
    BY DEF Internal
  <2>3. Len(<<r>>) = 1
    OBVIOUS
  <2>4. Len(W[W[x].parent].children) = 1
    BY <2>1, <2>2, <2>3
  <2>5. 1 > 1
    BY <2>4
  <2> QED BY <2>5
<1>4. V[x].parent \in T /\ V[x].parent \in Pages /\ V[x].parent # f
  BY <1>1, <1>3, ParentFacts, RangeFacts
<1>5. W[W[x].parent].children = V[V[x].parent].children
  BY <1>2, <1>3, <1>4
<1> QED
  BY <1>1, <1>2, <1>3, <1>5 DEF NonEmpty

LEMMA NonEmptySplit ==
    ASSUME NEW V, NEW W, NEW r, NEW T, NEW lev, NEW R, IsTree(V, r, T, lev, R),
           NEW p, NEW q, NEW i, NEW key, NEW new, IsSplit(V, W, T, lev, R, p, q, i, key, new),
           NonEmpty(V, r, T, lev, INVALID_PAGE_ID),
           lev[p] = 0 => W[p].keys # <<>> /\ W[new].keys # <<>>
    PROVE  NonEmpty(W, r, T \union {new}, SplitLev(lev, p, new), INVALID_PAGE_ID)
<1> DEFINE l == SplitLev(lev, p, new)
<1>1. /\ p \in T /\ q = V[p].parent /\ q \in T /\ lev[q] # 0
      /\ i \in 1 .. Len(V[q].children) /\ V[q].children[i] = p
      /\ new \in Pages \ T
      /\ \A x \in Pages \ {p, q, new} :
          /\ W[x].type = V[x].type /\ W[x].keys = V[x].keys /\ W[x].children = V[x].children
          /\ W[x].parent = IF IsChild(W[new], x) THEN new ELSE V[x].parent
      /\ lev[p] = 0 => LeafOK(W[new], NotBelow(R[p], key))
      /\ lev[p] # 0 => PartsOK(V[p], W[p], W[new], key)
      /\ IsInserted(V[q].children, i + 1, new, W[q].children)
      /\ W[q].parent = V[q].parent
  BY DEF IsSplit
<1> SUFFICES ASSUME NEW x \in T \union {new}, l[x] = 0, x # r, x # INVALID_PAGE_ID,
                    Len(W[W[x].parent].children) > 1
             PROVE  W[x].keys # <<>>
  BY DEF NonEmpty
<1>2. CASE x = new \/ x = p
  <2>1. lev[p] = 0
    BY <1>1, <1>2, RangeFacts DEF SplitLev
  <2> QED BY <2>1, <1>2
<1>3. CASE x \in T /\ x # p
  <2>1. x \in Pages /\ lev[x] = 0 /\ x # q /\ x # new
    BY <1>1, <1>3, RangeFacts DEF SplitLev
  <2>2. W[x].keys = V[x].keys /\ W[x].parent = IF IsChild(W[new], x) THEN new ELSE V[x].parent
    BY <1>1, <1>3, <2>1
  <2> DEFINE g == V[x].parent
  <2>3. g \in T /\ g \in Pages /\ lev[g] # 0 /\ \E j \in 1 .. Len(V[g].children) : V[g].children[j] = x
    <3>1. g \in T /\ lev[g] # 0 /\ \E j \in 1 .. Len(V[g].children) : V[g].children[j] = x
      <4>1. x \in T /\ x # r
        BY <1>3
      <4> QED BY <4>1, ParentFacts
    <3> QED BY <3>1, RangeFacts
  <2> DEFINE m == Len(W[p].children)
             n == Len(W[new].children)
             t == Len(V[p].children)
  <2>40. lev[p] # 0 => /\ m \in Nat /\ n \in Nat /\ m >= 1 /\ n >= 1 /\ m + n = t
                       /\ \A j \in 1 .. n : W[new].children[j] = V[p].children[m + j]
    <3> SUFFICES ASSUME lev[p] # 0
                 PROVE  /\ m \in Nat /\ n \in Nat /\ m >= 1 /\ n >= 1 /\ m + n = t
                        /\ \A j \in 1 .. n : W[new].children[j] = V[p].children[m + j]
      OBVIOUS
    <3>1. PartsOK(V[p], W[p], W[new], key)
      BY <1>1
    <3>2. /\ Len(W[p].keys) \in Nat /\ m = Len(W[p].keys) + 1
          /\ Len(W[new].keys) \in Nat /\ n = Len(W[new].keys) + 1
      BY <3>1 DEF PartsOK, InnerOK
    <3>3. m + n = t /\ \A j \in 1 .. n : W[new].children[j] = V[p].children[m + j]
      BY <3>1 DEF PartsOK
    <3> HIDE DEF m, n, t
    <3>4. m \in Nat /\ n \in Nat /\ m >= 1 /\ n >= 1
      BY <3>2
    <3> QED BY <3>3, <3>4
  <2>4. Len(V[g].children) > 1
    <3> HIDE DEF g, m, n, t
    <3>1. CASE IsChild(W[new], x)
      <4>1. lev[p] # 0
        <5> SUFFICES ASSUME lev[p] = 0 PROVE FALSE
          OBVIOUS
        <5>1. W[new].children = <<>>
          BY <1>1 DEF LeafOK
        <5>2. Len(<<>>) = 0 /\ 1 .. 0 = {}
          OBVIOUS
        <5> QED BY <3>1, <5>1, <5>2 DEF IsChild
      <4>2. PICK j \in 1 .. n : W[new].children[j] = x
        BY <3>1 DEF IsChild, n
      <4>3. m + j \in 1 .. t
        BY <2>40, <4>1, <4>2
      <4>4. V[V[p].children[m + j]].parent = p
        BY <1>1, <4>1, <4>3, ChildFacts DEF t
      <4>5. g = p
        BY <2>40, <4>1, <4>2, <4>4 DEF g
      <4>6. t > 1
        BY <2>40, <4>1
      <4> QED BY <4>5, <4>6 DEF t
    <3>2. CASE ~IsChild(W[new], x) /\ g = p
      <4>1. lev[p] # 0
        BY <2>3, <3>2
      <4>6. t > 1
        BY <2>40, <4>1
      <4> QED BY <3>2, <4>6 DEF t
    <3>3. CASE g = q
      <4>1. PICK j \in 1 .. Len(V[q].children) : V[q].children[j] = x
        BY <2>3, <3>3
      <4>2. j # i
        BY <1>1, <1>3, <4>1
      <4>3. Len(V[q].children) \in Nat
        BY <1>1, ChildFacts
      <4> QED BY <1>1, <3>3, <4>1, <4>2, <4>3
    <3>4. CASE ~IsChild(W[new], x) /\ g # p /\ g # q
      <4>1. g # new
        BY <1>1, <2>3
      <4>2. W[g].children = V[g].children
        BY <1>1, <2>3, <3>4, <4>1
      <4> QED BY <2>2, <3>4, <4>2 DEF g
    <3> QED BY <3>1, <3>2, <3>3, <3>4
  <2> QED BY <1>3, <2>1, <2>2, <2>4 DEF NonEmpty
<1> QED BY <1>2, <1>3

LEMMA NonEmptyMerged ==
    ASSUME NEW V, NEW W, NEW r, NEW T, NEW lev, NEW R, IsTree(V, r, T, lev, R),
           NEW q, NEW i, NEW a, NEW b, IsMerge(V, W, T, lev, R, q, i, a, b),
           NEW except, except = a \/ except = b, NonEmpty(V, r, T, lev, except),
           V[a].keys # <<>> \/ V[b].keys # <<>> => W[a].keys # <<>>
    PROVE  NonEmpty(W, r, T \ {b}, lev, INVALID_PAGE_ID)
<1>1. /\ q \in T /\ lev[q] # 0 /\ i \in 1 .. Len(V[q].keys)
      /\ a = V[q].children[i] /\ b = V[q].children[i + 1] /\ lev[a] = 0
      /\ \A x \in Pages \ {q} :
          W[x].type = V[x].type /\ W[x].parent = V[x].parent /\ W[x].children = V[x].children
      /\ \A x \in Pages \ {q, a} : W[x].keys = V[x].keys
      /\ W[q].parent = V[q].parent
  BY DEF IsMerge
<1>2. Len(V[q].children) = Len(V[q].keys) + 1 /\ Len(V[q].keys) \in Nat
  <2>1. PageOK(V, r, T, lev, R, q)
    BY <1>1 DEF IsTree
  <2>2. InnerOK(V[q])
    BY <2>1, <1>1 DEF PageOK
  <2> QED BY <2>2 DEF InnerOK
<1>3. i \in 1 .. Len(V[q].children) /\ i + 1 \in 1 .. Len(V[q].children) /\ i + 1 # i
  BY <1>1, <1>2
<1>4. a \in T /\ a # r /\ V[a].parent = q /\ lev[a] + 1 = lev[q] /\ a # q
  BY <1>1, <1>3, ChildFacts
<1>5. b \in T /\ b # r /\ V[b].parent = q /\ lev[b] + 1 = lev[q] /\ b # q /\ lev[b] \in Nat
  <2> DEFINE k == i + 1
  <2>1. k \in 1 .. Len(V[q].children) /\ q \in T /\ lev[q] # 0 /\ b = V[q].children[k]
    BY <1>1, <1>3
  <2> HIDE DEF k
  <2> QED BY <2>1, ChildFacts
<1>6. a # b /\ lev[b] = 0
  <2>1. a # b
    BY <1>1, <1>3, ChildOnce
  <2>2. lev[b] = 0
    BY <1>1, <1>4, <1>5
  <2> QED BY <2>1, <2>2
<1>7. Len(V[q].children) > 1
  BY <1>1, <1>2
<1>8. V[a].keys # <<>> \/ V[b].keys # <<>>
  BY <1>1, <1>4, <1>5, <1>6, <1>7 DEF NonEmpty
<1> SUFFICES ASSUME NEW x \in T \ {b}, lev[x] = 0, x # r, x # INVALID_PAGE_ID,
                    Len(W[W[x].parent].children) > 1
             PROVE  W[x].keys # <<>>
  BY DEF NonEmpty
<1>9. CASE x = a
  BY <1>8, <1>9
<1>10. CASE x # a
  <2>1. x \in Pages /\ x # q /\ x # except
    BY <1>1, <1>10, RangeFacts
  <2>2. W[x].keys = V[x].keys /\ W[x].parent = V[x].parent
    BY <1>1, <1>10, <2>1
  <2>3. Len(V[V[x].parent].children) > 1
    <3>1. V[x].parent \in Pages
      BY ParentFacts, RangeFacts
    <3>2. CASE V[x].parent = q
      BY <1>7, <3>2
    <3>3. CASE V[x].parent # q
      BY <1>1, <2>2, <3>1, <3>3
    <3> QED BY <3>2, <3>3
  <2> QED BY <2>1, <2>2, <2>3 DEF NonEmpty
<1> QED BY <1>9, <1>10

-----------------------------------------------------------------------------
(* A split, with what is left to do for the parent *)

Values == UNION Range(CTIDs)

Node == [type : {"none", "leaf", "internal"}, keys : Seq(Keys), values : Seq(Values),
         children : Seq(Pages), parent : PageIds, next : PageIds]

Shape(V, r, used, except, T, lev, R, c, rank) ==
    /\ IsTree(V, r, T, lev, R)
    /\ IsChain(V, T, lev, R, c)
    /\ Ranked(V, used, rank)
    /\ NonEmpty(V, r, T, lev, except)

(* N is V with the page p cut at the key: what is not below it is in the   *)
(* page new, and no parent knows of it.                                    *)
IsCut(V, N, T, lev, R, p, key, new) ==
    /\ p \in T /\ new \in Pages \ T
    /\ key \in Int /\ key \in R[p] /\ \E x \in R[p] : x < key
    /\ N[p].parent = V[p].parent /\ N[new].parent = V[p].parent
    /\ \A x \in Pages \ {p, new} :
          /\ N[x].type = V[x].type /\ N[x].keys = V[x].keys /\ N[x].children = V[x].children
          /\ N[x].parent = IF IsChild(N[new], x) THEN new ELSE V[x].parent
          /\ N[x].next = V[x].next
    /\ lev[p] = 0 =>
          /\ LeafOK(N[p], Below(R[p], key)) /\ LeafOK(N[new], NotBelow(R[p], key))
          /\ N[p].keys # <<>> /\ N[new].keys # <<>>
          /\ N[p].next = new /\ N[new].next = V[p].next
    /\ lev[p] # 0 =>
          /\ PartsOK(V[p], N[p], N[new], key)
          /\ N[p].next = V[p].next /\ N[new].next = INVALID_PAGE_ID

(* The leaves are those there were, and a new one when a leaf is split. *)
LeavesCut(T, lev, U, l, p, new) ==
    \A x \in Pages : IsLeaf(U, l, x) <=> IsLeaf(T, lev, x) \/ (lev[p] = 0 /\ x = new)

SplitLeaves(T, lev, p, new) == LeavesCut(T, lev, T \union {new}, SplitLev(lev, p, new), p, new)

(* The leaves after a split of one: those there were, and the new page. *)
LEMMA LeavesOfSplit ==
    ASSUME NEW T, NEW lev, NEW p \in T, NEW new \in Pages \ T
    PROVE  SplitLeaves(T, lev, p, new)
BY DEF SplitLeaves, LeavesCut, IsLeaf, SplitLev

(* Keys are integers. *)
LEMMA KeysAreNumbers == Seq(Keys) \subseteq Seq(Int)
<1>1. Keys \subseteq Int
  BY BTreeAssumption
<1> SUFFICES ASSUME NEW s \in Seq(Keys) PROVE s \in Seq(Int)
  OBVIOUS
<1>2. Len(s) \in Nat /\ \A i \in 1 .. Len(s) : s[i] \in Keys
  OBVIOUS
<1>4. \A i \in 1 .. Len(s) : s[i] \in Int
  BY <1>1, <1>2
<1>3. s = [i \in 1 .. Len(s) |-> s[i]]
  OBVIOUS
<1> QED BY <1>2, <1>3, <1>4

(* The parts of a split that hold whatever the page that gets the new      *)
(* child. *)
LEMMA ShapeSplit ==
    ASSUME NEW V, NEW W, NEW r, NEW used \in Pages, NEW T, NEW lev, NEW R, NEW c, NEW rank,
           Shape(V, r, used, INVALID_PAGE_ID, T, lev, R, c, rank),
           NEW p, NEW q, NEW i, NEW key, IsSplit(V, W, T, lev, R, p, q, i, key, used),
           \A x \in Pages \ {p, used} : W[x].next = V[x].next,
           lev[p] = 0 => /\ W[p].next = used /\ W[used].next = V[p].next
                         /\ W[p].keys # <<>> /\ W[used].keys # <<>>,
           lev[p] # 0 => W[p].next = V[p].next /\ W[used].next = INVALID_PAGE_ID
    PROVE  \E d, rk : Shape(W, r, used + 1, INVALID_PAGE_ID, T \union {used}, SplitLev(lev, p, used),
                            SplitRange(R, p, used, key), d, rk)
<1> DEFINE U == T \union {used}
           l == SplitLev(lev, p, used)
           S == SplitRange(R, p, used, key)
<1>1. /\ IsTree(V, r, T, lev, R) /\ IsChain(V, T, lev, R, c)
      /\ Ranked(V, used, rank) /\ NonEmpty(V, r, T, lev, INVALID_PAGE_ID)
  BY DEF Shape
<1>2. p \in T /\ used \in Pages \ T /\ p \in Pages /\ p # used
  BY <1>1 DEF IsSplit, IsTree
<1>3. IsTree(W, r, U, l, S)
  BY <1>1, SplitTree
<1>4. NonEmpty(W, r, U, l, INVALID_PAGE_ID)
  BY <1>1, NonEmptySplit
<1>5. CASE lev[p] = 0
  <2>1. \E d : IsChain(W, U, l, S, d)
    BY <1>1, <1>5, ChainSplit
  <2>2. Ranked(W, used + 1, SplitRank(rank, p, used))
    BY <1>1, <1>2, <1>5, RankedSplit
  <2> HIDE DEF U, l, S
  <2>3. \E d, rk : Shape(W, r, used + 1, INVALID_PAGE_ID, U, l, S, d, rk)
    BY <1>3, <1>4, <2>1, <2>2 DEF Shape
  <2> QED BY <2>3 DEF U, l, S
<1>6. CASE lev[p] # 0
  <2>1. \A x \in Pages : IsLeaf(T, lev, x) <=> IsLeaf(U, l, x)
    BY <1>2, <1>6, LeavesOfSplit DEF SplitLeaves, LeavesCut
  <2>2. \A x \in Pages : IsLeaf(T, lev, x) => W[x].next = V[x].next /\ S[x] = R[x]
    BY <1>2, <1>6 DEF IsLeaf, SplitRange
  <2>3. IsChain(W, U, l, S, c)
    <3> HIDE DEF U, l, S
    <3> QED BY <1>1, <2>1, <2>2, ChainSame
  <2>4. Ranked(W, used + 1, rank)
    <3>1. used \in Nat
      BY DEF Pages
    <3>2. \A x \in Pages : x < used => x < used + 1
      BY <3>1 DEF Pages
    <3> QED BY <1>1, <1>6, <3>2 DEF Ranked
  <2> HIDE DEF U, l, S
  <2>5. Shape(W, r, used + 1, INVALID_PAGE_ID, U, l, S, c, rank)
    BY <1>3, <1>4, <2>3, <2>4 DEF Shape
  <2> QED BY <2>5 DEF U, l, S
<1> QED BY <1>5, <1>6

(* What WithChild makes of an internal node. *)
LEMMA WithChildFields ==
    ASSUME NEW n \in Node, n.type = "internal", Len(n.children) = Len(n.keys) + 1,
           NEW k \in Keys, NEW x \in Pages
    PROVE  LET i == Position(n.keys, k)
               m == WithChild(n, k, x) IN
           i \in 1 .. Len(n.keys) + 1 =>
           /\ m \in Node
           /\ m.type = n.type /\ m.parent = n.parent /\ m.next = n.next /\ m.values = n.values
           /\ m.keys \in Seq(Keys) /\ IsInserted(n.keys, i, k, m.keys)
           /\ m.children \in Seq(Pages) /\ IsInserted(n.children, i + 1, x, m.children)
<1> DEFINE i == Position(n.keys, k)
           m == WithChild(n, k, x)
           ks == InsertAt(n.keys, i, k)
           cs == InsertAt(n.children, i + 1, x)
<1>1. /\ n.keys \in Seq(Keys) /\ n.children \in Seq(Pages)
      /\ n = [type |-> n.type, keys |-> n.keys, values |-> n.values, children |-> n.children,
              parent |-> n.parent, next |-> n.next]
      /\ n.type \in {"none", "leaf", "internal"} /\ n.values \in Seq(Values)
      /\ n.parent \in PageIds /\ n.next \in PageIds
  BY DEF Node
<1> HIDE DEF i
<1> SUFFICES ASSUME i \in 1 .. Len(n.keys) + 1
             PROVE  /\ m \in Node
                    /\ m.type = n.type /\ m.parent = n.parent /\ m.next = n.next /\ m.values = n.values
                    /\ m.keys \in Seq(Keys) /\ IsInserted(n.keys, i, k, m.keys)
                    /\ m.children \in Seq(Pages) /\ IsInserted(n.children, i + 1, x, m.children)
  BY DEF i
<1>2. ks \in Seq(Keys) /\ IsInserted(n.keys, i, k, ks)
  BY <1>1, InsertedAt
<1>3. cs \in Seq(Pages) /\ IsInserted(n.children, i + 1, x, cs)
  <2>1. i + 1 \in 1 .. Len(n.children) + 1
    <3>1. Len(n.keys) \in Nat
      BY <1>1
    <3> QED BY <3>1
  <2> QED BY <2>1, <1>1, InsertedAt
<1>4. m = [n EXCEPT !.keys = ks, !.children = cs]
  BY DEF WithChild, i
<1> HIDE DEF ks, cs, m
<1>5. m = [type |-> n.type, keys |-> ks, values |-> n.values, children |-> cs,
           parent |-> n.parent, next |-> n.next]
  BY <1>1, <1>4
<1>6. /\ m.type = n.type /\ m.parent = n.parent /\ m.next = n.next /\ m.values = n.values
      /\ m.keys = ks /\ m.children = cs
  BY <1>5
<1>7. m \in Node
  BY <1>1, <1>2, <1>3, <1>5 DEF Node
<1> QED
  BY <1>2, <1>3, <1>6, <1>7

(* One page gets other contents *)
IsPut(W, V, p, m) == W = [V EXCEPT ![p] = m]

CutGives(W, r, used, T, lev, p, q) ==
    \E U, l, S, d, rk :
        /\ Shape(W, r, used + 1, INVALID_PAGE_ID, U, l, S, d, rk)
        /\ LeavesCut(T, lev, U, l, p, used)
        /\ q \in U /\ l[q] = lev[p] + 1 /\ l[r] = lev[r]

(* The parent is there, and gets the new page as a child. *)
LEMMA CutUnder ==
    ASSUME NEW V, NEW N \in [Pages -> Node], NEW W, NEW r, NEW used \in Pages,
           NEW T, NEW lev, NEW R, NEW c, NEW rank,
           Shape(V, r, used, INVALID_PAGE_ID, T, lev, R, c, rank),
           NEW p, NEW key \in Keys, IsCut(V, N, T, lev, R, p, key, used),
           V[p].parent # INVALID_PAGE_ID,
           IsPut(W, N, V[p].parent, WithChild(N[V[p].parent], key, used))
    PROVE  CutGives(W, r, used, T, lev, p, V[p].parent)
<1> DEFINE q == V[p].parent
           i == Position(V[q].keys, key)
<1>1. IsTree(V, r, T, lev, R)
  BY DEF Shape
<1>2. /\ p \in T /\ used \in Pages \ T
      /\ key \in Int /\ key \in R[p] /\ \E x \in R[p] : x < key
      /\ N[p].parent = V[p].parent /\ N[used].parent = V[p].parent
      /\ \A x \in Pages \ {p, used} :
            /\ N[x].type = V[x].type /\ N[x].keys = V[x].keys /\ N[x].children = V[x].children
            /\ N[x].parent = IF IsChild(N[used], x) THEN used ELSE V[x].parent
            /\ N[x].next = V[x].next
  BY DEF IsCut
<1>3. /\ lev[p] = 0 =>
            /\ LeafOK(N[p], Below(R[p], key)) /\ LeafOK(N[used], NotBelow(R[p], key))
            /\ N[p].keys # <<>> /\ N[used].keys # <<>>
            /\ N[p].next = used /\ N[used].next = V[p].next
      /\ lev[p] # 0 =>
            /\ PartsOK(V[p], N[p], N[used], key)
            /\ N[p].next = V[p].next /\ N[used].next = INVALID_PAGE_ID
  BY DEF IsCut
<1>4. p # r
  BY <1>1 DEF IsTree
<1>5. /\ q \in T /\ lev[q] # 0 /\ q # p /\ lev[p] + 1 = lev[q]
      /\ \E j \in 1 .. Len(V[q].children) : V[q].children[j] = p
  BY <1>1, <1>2, <1>4, ParentFacts
<1>6. PICK j \in 1 .. Len(V[q].children) : V[q].children[j] = p
  BY <1>5
<1> HIDE DEF q
<1>7. i = j
  <2>1. key \in R[V[q].children[j]] /\ \E x \in R[V[q].children[j]] : x < key
    BY <1>2, <1>6
  <2> QED BY <2>1, <1>1, <1>2, <1>5, SplitPlace
<1>8. /\ V[q].keys \in Seq(Int) /\ Sorted(V[q].keys) /\ Len(V[q].keys) \in Nat
      /\ Len(V[q].children) = Len(V[q].keys) + 1
      /\ lev[p] \in Nat
  BY <1>1, <1>2, <1>5, <1>6, ChildFacts, RangeFacts
<1>9. q \in Pages /\ q # used /\ p \in Pages /\ p # used /\ \A x \in T : x \in Pages
  BY <1>1, <1>2, <1>5, RangeFacts
<1>10. ~IsChild(N[used], q)
  <2> SUFFICES ASSUME IsChild(N[used], q) PROVE FALSE
    OBVIOUS
  <2>1. PICK m \in 1 .. Len(N[used].children) : N[used].children[m] = q
    BY DEF IsChild
  <2>2. lev[p] # 0
    <3> SUFFICES ASSUME lev[p] = 0 PROVE FALSE
      OBVIOUS
    <3>1. N[used].children = <<>>
      BY <1>3 DEF LeafOK
    <3>2. Len(<<>>) = 0 /\ 1 .. 0 = {}
      OBVIOUS
    <3> QED BY <2>1, <3>1, <3>2
  <2> DEFINE a == Len(N[p].children)
             b == Len(N[used].children)
             t == Len(V[p].children)
  <2>3. a + b = t /\ \A k \in 1 .. b : N[used].children[k] = V[p].children[a + k]
    BY <1>3, <2>2 DEF PartsOK
  <2>4. a \in Nat /\ b \in Nat
    <3>1. N[p] \in Node /\ N[used] \in Node
      BY <1>9
    <3>2. N[p].children \in Seq(Pages) /\ N[used].children \in Seq(Pages)
      BY <3>1 DEF Node
    <3> QED BY <3>2
  <2>5. m \in 1 .. b /\ N[used].children[m] = q
    BY <2>1
  <2> HIDE DEF a, b, t
  <2>6. a + m \in 1 .. t
    BY <2>3, <2>4, <2>5
  <2>7. V[p].children[a + m] = q
    BY <2>3, <2>5
  <2>8. lev[V[p].children[a + m]] + 1 = lev[p]
    BY <1>1, <1>2, <2>2, <2>6, ChildFacts DEF t
  <2>9. lev[q] + 1 = lev[p] /\ lev[q] \in Nat
    BY <1>1, <1>5, <2>7, <2>8, RangeFacts
  <2> QED BY <2>9, <1>5, <1>8
<1>11. /\ N[q] \in Node /\ N[q].type = V[q].type /\ N[q].keys = V[q].keys /\ N[q].children = V[q].children
       /\ N[q].parent = V[q].parent /\ N[q].next = V[q].next
  BY <1>2, <1>5, <1>9, <1>10
<1>12. V[q].type = "internal"
  <2>1. PageOK(V, r, T, lev, R, q)
    BY <1>1, <1>5 DEF IsTree
  <2> QED BY <2>1, <1>5 DEF PageOK, InnerOK
<1> DEFINE wq == WithChild(N[q], key, used)
<1>13. /\ wq.type = V[q].type /\ wq.parent = V[q].parent /\ wq.next = V[q].next
       /\ wq.keys \in Seq(Keys) /\ IsInserted(V[q].keys, j, key, wq.keys)
       /\ wq.children \in Seq(Pages) /\ IsInserted(V[q].children, j + 1, used, wq.children)
  <2>1. Position(N[q].keys, key) = j /\ j \in 1 .. Len(N[q].keys) + 1
    BY <1>7, <1>8, <1>11, <1>6
  <2>2. N[q].type = "internal" /\ Len(N[q].children) = Len(N[q].keys) + 1
    BY <1>8, <1>11, <1>12
  <2>3. /\ wq.type = N[q].type /\ wq.parent = N[q].parent /\ wq.next = N[q].next
        /\ wq.keys \in Seq(Keys) /\ IsInserted(N[q].keys, j, key, wq.keys)
        /\ wq.children \in Seq(Pages) /\ IsInserted(N[q].children, j + 1, used, wq.children)
    BY <2>1, <2>2, <1>11, WithChildFields
  <2> QED BY <2>3, <1>11
<1>14. W[q] = wq /\ \A x \in Pages : x # q => W[x] = N[x]
  BY <1>9 DEF q, IsPut
<1> HIDE DEF wq
<1>15. IsSplit(V, W, T, lev, R, p, q, j, key, used)
  <2>1. W[p] = N[p] /\ W[used] = N[used]
    BY <1>5, <1>9, <1>14
  <2>2. wq.keys \in Seq(Int)
    BY <1>13, KeysAreNumbers
  <2>3. \A x \in Pages \ {p, q, used} :
            /\ W[x].type = V[x].type /\ W[x].keys = V[x].keys /\ W[x].children = V[x].children
            /\ W[x].parent = IF IsChild(W[used], x) THEN used ELSE V[x].parent
    BY <1>2, <1>14, <2>1
  <2>4. /\ lev[p] = 0 => LeafOK(W[p], Below(R[p], key)) /\ LeafOK(W[used], NotBelow(R[p], key))
        /\ lev[p] # 0 => PartsOK(V[p], W[p], W[used], key)
    BY <1>3, <2>1
  <2>5. W[p].parent = q /\ W[used].parent = q /\ q = V[p].parent
    BY <1>2, <2>1 DEF q
  <2>6. /\ W[q].type = V[q].type /\ W[q].parent = V[q].parent
        /\ W[q].keys \in Seq(Int) /\ IsInserted(V[q].keys, j, key, W[q].keys)
        /\ W[q].children \in Seq(Pages) /\ IsInserted(V[q].children, j + 1, used, W[q].children)
    BY <1>13, <1>14, <2>2
  <2> QED BY <2>3, <2>4, <2>5, <2>6, <1>2, <1>5, <1>6 DEF IsSplit
<1>16. \A x \in Pages \ {p, used} : W[x].next = V[x].next
  BY <1>2, <1>11, <1>13, <1>14
<1>17. W[p] = N[p] /\ W[used] = N[used]
  BY <1>5, <1>9, <1>14
<1> DEFINE U == T \union {used}
           l == SplitLev(lev, p, used)
           S == SplitRange(R, p, used, key)
<1>18. \E d, rk : Shape(W, r, used + 1, INVALID_PAGE_ID, U, l, S, d, rk)
  <2>1. /\ lev[p] = 0 => /\ W[p].next = used /\ W[used].next = V[p].next
                         /\ W[p].keys # <<>> /\ W[used].keys # <<>>
        /\ lev[p] # 0 => W[p].next = V[p].next /\ W[used].next = INVALID_PAGE_ID
    BY <1>3, <1>17
  <2> QED BY <2>1, <1>15, <1>16, ShapeSplit
<1>19. LeavesCut(T, lev, U, l, p, used)
  BY <1>2, LeavesOfSplit DEF SplitLeaves
<1>20. q \in U /\ l[q] = lev[p] + 1 /\ l[r] = lev[r]
  <2>1. r \in T /\ r \in Pages
    BY <1>1, <1>9 DEF IsTree
  <2> QED BY <2>1, <1>2, <1>5, <1>9 DEF SplitLev
<1> HIDE DEF U, l, S
<1>21. PICK d, rk : Shape(W, r, used + 1, INVALID_PAGE_ID, U, l, S, d, rk)
  BY <1>18
<1> QED
  BY <1>19, <1>20, <1>21 DEF q, CutGives

(* The tree V with a root f over its root. *)
Topped(V, p, f) ==
    [x \in Pages |->
        IF x = f THEN Internal(<<>>, <<p>>, INVALID_PAGE_ID)
        ELSE IF x = p THEN [type |-> V[p].type, keys |-> V[p].keys, values |-> V[p].values,
                            children |-> V[p].children, parent |-> f, next |-> V[p].next]
        ELSE V[x]]

(* A root of one child over the root changes nothing but the height. *)
LEMMA ShapeTopped ==
    ASSUME NEW V, NEW r, NEW used, NEW T, NEW lev, NEW R, NEW c, NEW rank,
           Shape(V, r, used, INVALID_PAGE_ID, T, lev, R, c, rank), NEW f \in Pages \ T
    PROVE  Shape(Topped(V, r, f), f, used, INVALID_PAGE_ID, T \union {f},
                 RootLev(lev, r, f), RootRange(R, f), c, rank)
<1> DEFINE W == Topped(V, r, f)
           U == T \union {f}
           l == RootLev(lev, r, f)
           S == RootRange(R, f)
<1>1. /\ IsTree(V, r, T, lev, R) /\ IsChain(V, T, lev, R, c)
      /\ Ranked(V, used, rank) /\ NonEmpty(V, r, T, lev, INVALID_PAGE_ID)
  BY DEF Shape
<1>2. r \in T /\ r \in Pages /\ f # r /\ T \subseteq Pages /\ lev[r] \in Nat
  BY <1>1, RangeFacts DEF IsTree
<1>3. W[f] = Internal(<<>>, <<r>>, INVALID_PAGE_ID)
  BY DEF Topped
<1>4. \A x \in Pages \ {f} : /\ W[x].type = V[x].type /\ W[x].keys = V[x].keys
                             /\ W[x].children = V[x].children
                             /\ W[x].parent = IF x = r THEN f ELSE V[x].parent
                             /\ W[x].next = V[x].next
  BY <1>2 DEF Topped
<1>5. W[f].next = INVALID_PAGE_ID
  BY <1>3 DEF Internal
<1> HIDE DEF W
<1>6. IsTree(W, f, U, l, S)
  BY <1>1, <1>3, <1>4, RootAdded
<1>7. NonEmpty(W, f, U, l, INVALID_PAGE_ID)
  BY <1>1, <1>3, <1>4, NonEmptyRoot
<1>8. IsChain(W, U, l, S, c)
  <2>1. \A x \in Pages : IsLeaf(T, lev, x) <=> IsLeaf(U, l, x)
    <3>1. l[f] # 0
      BY <1>2 DEF RootLev
    <3> QED BY <3>1 DEF IsLeaf, RootLev
  <2>2. \A x \in Pages : IsLeaf(T, lev, x) => W[x].next = V[x].next /\ S[x] = R[x]
    BY <1>4 DEF IsLeaf, RootRange
  <2> HIDE DEF U, l, S
  <2> QED BY <1>1, <2>1, <2>2, ChainSame
<1>9. Ranked(W, used, rank)
  BY <1>1, <1>4, <1>5 DEF Ranked
<1> HIDE DEF U, l, S
<1>10. Shape(W, f, used, INVALID_PAGE_ID, U, l, S, c, rank)
  BY <1>6, <1>7, <1>8, <1>9 DEF Shape
<1> QED BY <1>10 DEF W, U, l, S

(* What is said of a leaf, or of the two parts of a node, depends on these  *)
(* fields only. *)
LEMMA LeafOKSame ==
    ASSUME NEW m, NEW n, NEW S, LeafOK(m, S), n.type = m.type, n.keys = m.keys, n.children = m.children
    PROVE  LeafOK(n, S)
BY DEF LeafOK

LEMMA PartsOKSame ==
    ASSUME NEW n, NEW left, NEW right, NEW key, PartsOK(n, left, right, key),
           NEW n1, n1.keys = n.keys, n1.children = n.children,
           NEW l1, l1.type = left.type, l1.keys = left.keys, l1.children = left.children,
           NEW r1, r1.type = right.type, r1.keys = right.keys, r1.children = right.children
    PROVE  PartsOK(n1, l1, r1, key)
<1>1. InnerOK(l1) /\ InnerOK(r1)
  BY DEF PartsOK, InnerOK
<1> QED BY <1>1 DEF PartsOK

(* A change of the parent pointer changes that field only. *)
LEMMA ParentChanged ==
    ASSUME NEW n \in Node, NEW f, NEW m, m = [n EXCEPT !.parent = f]
    PROVE  /\ m.type = n.type /\ m.keys = n.keys /\ m.values = n.values
           /\ m.children = n.children /\ m.next = n.next /\ m.parent = f
BY DEF Node

(* W is N with a new root f over the pages p and new. *)
GetsRoot(N, W, p, key, new, f) ==
    /\ W[f] = Internal(<<key>>, <<p, new>>, INVALID_PAGE_ID)
    /\ W[p] = [N[p] EXCEPT !.parent = f]
    /\ W[new] = [N[new] EXCEPT !.parent = f]
    /\ \A x \in Pages \ {f, p, new} : W[x] = N[x]

(* The page that is cut has no parent, and gets one. *)
LEMMA CutRoot ==
    ASSUME NEW V, NEW N \in [Pages -> Node], NEW W, NEW r, NEW used \in Pages,
           NEW T, NEW lev, NEW R, NEW c, NEW rank,
           Shape(V, r, used, INVALID_PAGE_ID, T, lev, R, c, rank),
           NEW p, NEW key \in Keys, IsCut(V, N, T, lev, R, p, key, used),
           V[p].parent = INVALID_PAGE_ID, NEW f \in Pages \ T, f # used,
           GetsRoot(N, W, p, key, used, f)
    PROVE  \E U, l, S, d, rk :
              /\ Shape(W, f, used + 1, INVALID_PAGE_ID, U, l, S, d, rk)
              /\ LeavesCut(T, lev, U, l, p, used)
<1> DEFINE X == Topped(V, r, f)
           T1 == T \union {f}
           l1 == RootLev(lev, r, f)
           R1 == RootRange(R, f)
<1>1. IsTree(V, r, T, lev, R)
  BY DEF Shape
<1>2. /\ p \in T /\ used \in Pages \ T
      /\ key \in Int /\ key \in R[p] /\ \E x \in R[p] : x < key
      /\ \A x \in Pages \ {p, used} :
            /\ N[x].type = V[x].type /\ N[x].keys = V[x].keys /\ N[x].children = V[x].children
            /\ N[x].parent = IF IsChild(N[used], x) THEN used ELSE V[x].parent
            /\ N[x].next = V[x].next
  BY DEF IsCut
<1>3. /\ lev[p] = 0 =>
            /\ LeafOK(N[p], Below(R[p], key)) /\ LeafOK(N[used], NotBelow(R[p], key))
            /\ N[p].keys # <<>> /\ N[used].keys # <<>>
            /\ N[p].next = used /\ N[used].next = V[p].next
      /\ lev[p] # 0 =>
            /\ PartsOK(V[p], N[p], N[used], key)
            /\ N[p].next = V[p].next /\ N[used].next = INVALID_PAGE_ID
  BY DEF IsCut
<1>4. p = r
  <2> SUFFICES ASSUME p # r PROVE FALSE
    OBVIOUS
  <2>1. V[p].parent \in T
    BY <1>1, <1>2, ParentFacts
  <2> QED BY <1>1, <2>1, NoPage DEF IsTree
<1>5. p \in Pages /\ p # used /\ p # f /\ T \subseteq Pages /\ lev[p] \in Nat
  BY <1>1, <1>2, RangeFacts DEF IsTree
<1>6. Shape(X, f, used, INVALID_PAGE_ID, T1, l1, R1, c, rank)
  <2> HIDE DEF X, T1, l1, R1
  <2>1. Shape(Topped(V, r, f), f, used, INVALID_PAGE_ID, T \union {f},
                 RootLev(lev, r, f), RootRange(R, f), c, rank)
    BY ShapeTopped
  <2> QED BY <2>1 DEF X, T1, l1, R1
<1>7. /\ X[f].type = "internal" /\ X[f].keys = <<>> /\ X[f].children = <<p>>
      /\ X[f].parent = INVALID_PAGE_ID /\ X[f].next = INVALID_PAGE_ID
      /\ X[p].keys = V[p].keys /\ X[p].children = V[p].children /\ X[p].parent = f
      /\ X[p].next = V[p].next
      /\ \A x \in Pages \ {p, f} : X[x] = V[x]
  BY <1>4, <1>5 DEF Topped, Internal
<1>8. N[p] \in Node /\ N[used] \in Node
  BY <1>5
<1>9. /\ W[f] = Internal(<<key>>, <<p, used>>, INVALID_PAGE_ID)
      /\ W[p] = [N[p] EXCEPT !.parent = f]
      /\ W[used] = [N[used] EXCEPT !.parent = f]
      /\ \A x \in Pages \ {f, p, used} : W[x] = N[x]
  BY DEF GetsRoot
<1>10. /\ W[p].type = N[p].type /\ W[p].keys = N[p].keys /\ W[p].children = N[p].children
       /\ W[p].parent = f /\ W[p].next = N[p].next
       /\ W[used].type = N[used].type /\ W[used].keys = N[used].keys
       /\ W[used].children = N[used].children
       /\ W[used].parent = f /\ W[used].next = N[used].next
  <2>1. /\ W[p].type = N[p].type /\ W[p].keys = N[p].keys /\ W[p].children = N[p].children
        /\ W[p].parent = f /\ W[p].next = N[p].next
    <3>1. N[p] \in Node
      BY <1>8
    <3>2. W[p] = [N[p] EXCEPT !.parent = f]
      BY <1>9
    <3> QED BY <3>1, <3>2, ParentChanged
  <2>2. /\ W[used].type = N[used].type /\ W[used].keys = N[used].keys
        /\ W[used].children = N[used].children
        /\ W[used].parent = f /\ W[used].next = N[used].next
    BY <1>8, <1>9, ParentChanged
  <2> QED BY <2>1, <2>2
<1>11. /\ W[f].type = "internal" /\ W[f].keys = <<key>> /\ W[f].children = <<p, used>>
       /\ W[f].parent = INVALID_PAGE_ID /\ W[f].next = INVALID_PAGE_ID
  BY <1>9 DEF Internal
<1>12. l1[p] = lev[p] /\ l1[f] # 0 /\ R1[p] = R[p] /\ l1[f] = lev[p] + 1
  BY <1>4, <1>5 DEF RootLev, RootRange
<1> HIDE DEF X, T1, l1, R1
<1>13. IsSplit(X, W, T1, l1, R1, p, f, 1, key, used)
  <2>1. p \in T1 /\ f \in T1 /\ used \in Pages \ T1
    BY <1>2 DEF T1
  <2>2. 1 \in 1 .. Len(X[f].children) /\ X[f].children[1] = p
    BY <1>7
  <2>3. /\ W[f].keys \in Seq(Int) /\ W[f].children \in Seq(Pages)
    <3>1. <<key>> \in Seq(Int)
      BY <1>2
    <3>2. <<p, used>> \in Seq(Pages)
      BY <1>5
    <3> QED BY <3>1, <3>2, <1>11
  <2>4. IsInserted(X[f].keys, 1, key, W[f].keys)
    <3>1. Len(<<>>) = 0 /\ Len(<<key>>) = 1 /\ <<key>>[1] = key
      OBVIOUS
    <3> QED BY <3>1, <1>7, <1>11 DEF IsInserted
  <2>5. IsInserted(X[f].children, 2, used, W[f].children)
    <3>3. IsInserted(<<p>>, 2, used, <<p, used>>)
      <4> DEFINE ps == <<p>>
                 pu == <<p, used>>
      <4>1. Len(ps) = 1 /\ Len(pu) = 2 /\ ps[1] = p /\ pu[1] = p /\ pu[2] = used
        OBVIOUS
      <4> HIDE DEF ps, pu
      <4>2. Len(pu) = Len(ps) + 1
        BY <4>1
      <4>3. ASSUME NEW j \in 1 .. Len(ps) + 1
            PROVE pu[j] = IF j < 2 THEN ps[j] ELSE IF j = 2 THEN used ELSE ps[j - 1]
        <5>1. j = 1 \/ j = 2
          BY <4>1
        <5> QED BY <5>1, <4>1
      <4>4. IsInserted(ps, 2, used, pu)
        BY <4>2, <4>3 DEF IsInserted
      <4> QED BY <4>4 DEF ps, pu
    <3> QED BY <3>3, <1>7, <1>11
  <2>6. \A x \in Pages \ {p, f, used} :
            /\ W[x].type = X[x].type /\ W[x].keys = X[x].keys /\ W[x].children = X[x].children
            /\ W[x].parent = IF IsChild(W[used], x) THEN used ELSE X[x].parent
    <3>1. \A x : IsChild(W[used], x) <=> IsChild(N[used], x)
      BY <1>10 DEF IsChild
    <3> TAKE x \in Pages \ {p, f, used}
    <3>2. W[x] = N[x] /\ X[x] = V[x]
      BY <1>7, <1>9
    <3>3. /\ N[x].type = V[x].type /\ N[x].keys = V[x].keys /\ N[x].children = V[x].children
          /\ N[x].parent = IF IsChild(N[used], x) THEN used ELSE V[x].parent
      BY <1>2
    <3>4. IsChild(W[used], x) <=> IsChild(N[used], x)
      BY <3>1
    <3> QED BY <3>2, <3>3, <3>4
  <2>7. /\ l1[p] = 0 => LeafOK(W[p], Below(R1[p], key)) /\ LeafOK(W[used], NotBelow(R1[p], key))
    <3> SUFFICES ASSUME lev[p] = 0
                 PROVE  LeafOK(W[p], Below(R[p], key)) /\ LeafOK(W[used], NotBelow(R[p], key))
      BY <1>12
    <3>1. LeafOK(N[p], Below(R[p], key)) /\ LeafOK(N[used], NotBelow(R[p], key))
      BY <1>3
    <3>2. LeafOK(W[p], Below(R[p], key))
      BY <3>1, <1>10, LeafOKSame
    <3>3. LeafOK(W[used], NotBelow(R[p], key))
      BY <3>1, <1>10, LeafOKSame
    <3> QED BY <3>2, <3>3
  <2>8. l1[p] # 0 => PartsOK(X[p], W[p], W[used], key)
    <3> SUFFICES ASSUME lev[p] # 0 PROVE PartsOK(X[p], W[p], W[used], key)
      BY <1>12
    <3>1. PartsOK(V[p], N[p], N[used], key)
      BY <1>3
    <3>2. X[p].keys = V[p].keys /\ X[p].children = V[p].children
      BY <1>7
    <3>3. W[p].type = N[p].type /\ W[p].keys = N[p].keys /\ W[p].children = N[p].children
      BY <1>10
    <3>4. W[used].type = N[used].type /\ W[used].keys = N[used].keys /\ W[used].children = N[used].children
      BY <1>10
    <3> QED BY <3>1, <3>2, <3>3, <3>4, PartsOKSame
  <2>9. W[f].type = X[f].type /\ W[f].parent = X[f].parent /\ f = X[p].parent
    BY <1>7, <1>11
  <2>10. key \in R1[p] /\ \E x \in R1[p] : x < key
    BY <1>2, <1>12
  <2>11. IsInserted(X[f].children, 1 + 1, used, W[f].children)
    BY <2>5
  <2> QED BY <2>1, <2>2, <2>3, <2>4, <2>6, <2>7, <2>8, <2>9, <2>10, <2>11, <1>2, <1>10, <1>12 DEF IsSplit
<1>14. \A x \in Pages \ {p, used} : W[x].next = X[x].next
  BY <1>2, <1>7, <1>9, <1>11
<1> DEFINE U == T1 \union {used}
           l == SplitLev(l1, p, used)
           S == SplitRange(R1, p, used, key)
<1>15. \E d, rk : Shape(W, f, used + 1, INVALID_PAGE_ID, U, l, S, d, rk)
  <2>1. /\ l1[p] = 0 => /\ W[p].next = used /\ W[used].next = X[p].next
                        /\ W[p].keys # <<>> /\ W[used].keys # <<>>
        /\ l1[p] # 0 => W[p].next = X[p].next /\ W[used].next = INVALID_PAGE_ID
    BY <1>3, <1>7, <1>10, <1>12
  <2>2. \E d, rk : Shape(W, f, used + 1, INVALID_PAGE_ID, T1 \union {used}, SplitLev(l1, p, used),
                         SplitRange(R1, p, used, key), d, rk)
    <3> HIDE DEF U, l, S
    <3>1. l1[p] = 0 => /\ W[p].next = used /\ W[used].next = X[p].next
                       /\ W[p].keys # <<>> /\ W[used].keys # <<>>
      BY <2>1
    <3>2. l1[p] # 0 => W[p].next = X[p].next /\ W[used].next = INVALID_PAGE_ID
      BY <2>1
    <3> QED BY <3>1, <3>2, <1>6, <1>13, <1>14, ShapeSplit
  <2> QED BY <2>2
<1>16. LeavesCut(T, lev, U, l, p, used)
  <2>1. \A x \in T : x # f /\ x # used
    BY <1>2
  <2>2. l[f] # 0
    BY <1>12 DEF SplitLev
  <2>3. l[used] = lev[p]
    BY <1>12 DEF SplitLev
  <2>4. \A x \in Pages : x # f /\ x # used => l[x] = lev[x]
    BY DEF SplitLev, l1, RootLev
  <2>5. \A x : x \in U <=> x \in T \/ x = f \/ x = used
    BY DEF T1
  <2> HIDE DEF U, l
  <2>6. f \notin T /\ used \notin T /\ f # used
    BY <1>2
  <2> QED BY <2>1, <2>2, <2>3, <2>4, <2>5, <2>6 DEF LeavesCut, IsLeaf
<1> HIDE DEF U, l, S
<1>17. PICK d, rk : Shape(W, f, used + 1, INVALID_PAGE_ID, U, l, S, d, rk)
  BY <1>15
<1> QED
  BY <1>16, <1>17

-----------------------------------------------------------------------------
(* Walks *)

(* f goes from page to page until one in B. *)
IsRecursion(f, D, B, b, comb, succ) ==
    f = [p \in D |-> IF p \in B THEN b[p] ELSE comb[<<p, f[succ[p]]>>]]

(* A walk that comes nearer to its end with every page has a result. *)
LEMMA LinearRecursion ==
    ASSUME NEW D, NEW Val, NEW B, NEW b \in [D -> Val], NEW comb \in [D \X Val -> Val],
           NEW succ \in [D -> D], NEW m \in [D -> Nat],
           \A p \in D : p \notin B => m[succ[p]] < m[p],
           NEW most \in Nat, \A p \in D : m[p] <= most
    PROVE  \E f \in [D -> Val] : IsRecursion(f, D, B, b, comb, succ)
<1> DEFINE E(f, p) == IF p \in B THEN b[p] ELSE comb[<<p, f[succ[p]]>>]
           S == { n \in Nat : \E f \in [D -> Val] : \A p \in D : m[p] < n => f[p] = E(f, p) }
<1>1. 0 \in S
  <2>1. \A p \in D : ~(m[p] < 0)
    OBVIOUS
  <2> QED BY <2>1
<1>2. ASSUME NEW n \in S PROVE n + 1 \in S
  <2>1. PICK f \in [D -> Val] : \A p \in D : m[p] < n => f[p] = E(f, p)
    OBVIOUS
  <2>2. \A p \in D : E(f, p) \in Val
    <3> TAKE p \in D
    <3>1. succ[p] \in D /\ f[succ[p]] \in Val /\ <<p, f[succ[p]]>> \in D \X Val
      OBVIOUS
    <3>2. b[p] \in Val /\ comb[<<p, f[succ[p]]>>] \in Val
      BY <3>1
    <3> QED BY <3>2
  <2> DEFINE g == [p \in D |-> E(f, p)]
  <2>3. g \in [D -> Val]
    BY <2>2
  <2>4. \A p \in D : g[p] = E(f, p)
    OBVIOUS
  <2> HIDE DEF g
  <2>5. ASSUME NEW p \in D, m[p] < n + 1 PROVE g[p] = E(g, p)
    <3>1. CASE p \in B
      BY <3>1, <2>4
    <3>2. CASE p \notin B
      <4>1. succ[p] \in D /\ m[succ[p]] < m[p] /\ m[succ[p]] \in Nat /\ m[p] \in Nat /\ n \in Nat
        BY <3>2
      <4>2. m[succ[p]] < n
        BY <4>1, <2>5
      <4>3. f[succ[p]] = E(f, succ[p])
        BY <2>1, <4>1, <4>2
      <4>4. g[succ[p]] = E(f, succ[p])
        BY <2>4, <4>1
      <4>5. f[succ[p]] = g[succ[p]]
        BY <4>3, <4>4
      <4> QED BY <4>5, <2>4
    <3> QED BY <3>1, <3>2
  <2> HIDE DEF E
  <2>6. n + 1 \in Nat
    OBVIOUS
  <2> QED BY <2>3, <2>5, <2>6
<1>3. S = Nat
  <2> HIDE DEF S
  <2>1. S \in SUBSET Nat
    BY DEF S
  <2> QED BY <1>1, <1>2, <2>1, EveryRound
<1>4. most + 1 \in S
  <2> HIDE DEF S
  <2>1. most + 1 \in Nat
    OBVIOUS
  <2> QED BY <1>3, <2>1
<1>5. PICK f \in [D -> Val] : \A p \in D : m[p] < most + 1 => f[p] = E(f, p)
  BY <1>4
<1>6. \A p \in D : f[p] = E(f, p)
  <2> HIDE DEF E
  <2> QED BY <1>5
<1>7. f = [p \in D |-> f[p]]
  OBVIOUS
<1>8. f = [p \in D |-> E(f, p)]
  BY <1>6, <1>7
<1> QED BY <1>8 DEF IsRecursion

-----------------------------------------------------------------------------
(* The way down to a leaf *)

LeafWalk(f, V, k) == f = [p \in Pages |-> IF V[p].type = "internal" THEN f[Child(V[p], k)] ELSE p]

(* Where the way goes from a page. *)
LEMMA ChildOnWay ==
    ASSUME NEW V, NEW r, NEW T, NEW lev, NEW R, IsTree(V, r, T, lev, R),
           NEW k \in Int, NEW p \in T, lev[p] # 0
    PROVE  /\ Child(V[p], k) \in T /\ lev[Child(V[p], k)] + 1 = lev[p]
           /\ k \in R[p] => k \in R[Child(V[p], k)]
           /\ V[p].type = "internal"
<1>1. PageOK(V, r, T, lev, R, p)
  BY DEF IsTree
<1>2. InnerOK(V[p]) /\ \A i \in 1 .. Len(V[p].children) : ChildOK(V, T, lev, R, p, i)
  BY <1>1 DEF PageOK
<1>3. /\ V[p].type = "internal" /\ V[p].keys \in Seq(Int) /\ Sorted(V[p].keys)
      /\ Len(V[p].children) = Len(V[p].keys) + 1
  BY <1>2 DEF InnerOK
<1> DEFINE ks == V[p].keys
           i == Cardinality({ j \in DOMAIN ks : ks[j] <= k }) + 1
<1>4. i \in 1 .. Len(ks) + 1 /\ Between(ks, i, k)
  <2> HIDE DEF ks
  <2> QED BY <1>3, ChildBetween DEF ks
<1>5. Child(V[p], k) = V[p].children[i]
  BY DEF Child
<1> HIDE DEF i
<1>6. ChildOK(V, T, lev, R, p, i)
  BY <1>2, <1>3, <1>4
<1> QED BY <1>3, <1>4, <1>5, <1>6 DEF ChildOK

(* The pages that say they are internal are the internal pages of the tree. *)
LEMMA LeafType ==
    ASSUME NEW V, NEW r, NEW T, NEW lev, NEW R, IsTree(V, r, T, lev, R), NEW p \in Pages
    PROVE  V[p].type = "internal" <=> p \in T /\ lev[p] # 0
<1>1. CASE p \in T
  <2>1. PageOK(V, r, T, lev, R, p)
    BY <1>1 DEF IsTree
  <2> QED BY <1>1, <2>1 DEF PageOK, LeafOK, InnerOK
<1>2. CASE p \notin T
  BY <1>2 DEF IsTree, FreeOK
<1> QED BY <1>1, <1>2

(* The walk of find_leaf_page from the root down to a leaf is a function:   *)
(* each step goes one level down. *)
LEMMA LeafWalkExists ==
    ASSUME NEW V, NEW r, NEW T, NEW lev, NEW R, IsTree(V, r, T, lev, R), NEW k \in Int
    PROVE  \E f \in [Pages -> Pages] : LeafWalk(f, V, k)
<1> DEFINE B == { p \in Pages : V[p].type # "internal" }
           b == [p \in Pages |-> p]
           comb == [z \in Pages \X Pages |-> z[2]]
           succ == [p \in Pages |-> IF p \in B THEN p ELSE Child(V[p], k)]
           m == [p \in Pages |-> IF p \in B THEN 0 ELSE lev[p]]
<1>1. \A p \in Pages : p \notin B <=> p \in T /\ lev[p] # 0
  BY LeafType
<1>2. r \in T /\ T \subseteq Pages
  BY DEF IsTree
<1>3. \A p \in T : lev[p] \in Nat /\ lev[p] <= lev[r]
  BY RangeFacts
<1>4. \A p \in T : lev[p] # 0 => Child(V[p], k) \in T /\ lev[Child(V[p], k)] + 1 = lev[p]
  BY ChildOnWay
<1> HIDE DEF B
<1>5. b \in [Pages -> Pages] /\ comb \in [Pages \X Pages -> Pages]
  OBVIOUS
<1>6. succ \in [Pages -> Pages]
  BY <1>1, <1>2, <1>4
<1>7. m \in [Pages -> Nat] /\ \A p \in Pages : m[p] <= lev[r]
  BY <1>1, <1>2, <1>3
<1>8. \A p \in Pages : p \notin B => m[succ[p]] < m[p]
  <2> TAKE p \in Pages
  <2> HAVE p \notin B
  <2> DEFINE c == Child(V[p], k)
  <2>1. p \in T /\ lev[p] # 0 /\ lev[p] \in Nat
    BY <1>1, <1>3
  <2>2. c \in T /\ lev[c] + 1 = lev[p] /\ c \in Pages
    BY <2>1, <1>2, <1>4
  <2>3. lev[c] \in Nat
    BY <2>2, <1>3
  <2>4. succ[p] = c /\ m[p] = lev[p] /\ (m[c] = 0 \/ m[c] = lev[c])
    BY <2>2
  <2> QED BY <2>1, <2>2, <2>3, <2>4
<1>9. lev[r] \in Nat
  BY <1>2, <1>3
<1>10. PICK f \in [Pages -> Pages] : IsRecursion(f, Pages, B, b, comb, succ)
  <2> HIDE DEF b, comb, succ, m
  <2> QED BY <1>5, <1>6, <1>7, <1>8, <1>9, LinearRecursion
<1>11. \A p \in Pages : f[p] = IF V[p].type = "internal" THEN f[Child(V[p], k)] ELSE p
  <2> TAKE p \in Pages
  <2>1. f[p] = IF p \in B THEN b[p] ELSE comb[<<p, f[succ[p]]>>]
    BY <1>10 DEF IsRecursion
  <2>2. CASE p \in B
    BY <2>1, <2>2 DEF B
  <2>3. CASE p \notin B
    <3>1. succ[p] = Child(V[p], k) /\ f[succ[p]] \in Pages
      BY <2>3, <1>6
    <3>2. comb[<<p, f[succ[p]]>>] = f[succ[p]]
      BY <3>1
    <3> QED BY <2>1, <2>3, <3>1, <3>2 DEF B
  <2> QED BY <2>2, <2>3
<1>12. f = [p \in Pages |-> f[p]]
  OBVIOUS
<1> QED BY <1>11, <1>12 DEF LeafWalk

(* A search goes to the leaf that covers the key. *)
LEMMA WayToLeaf ==
    ASSUME NEW T, NEW lev, NEW R, IsTree(nodes, root_page_id, T, lev, R), NEW k \in Int
    PROVE  /\ FindLeafPage(k) \in T /\ lev[FindLeafPage(k)] = 0 /\ k \in R[FindLeafPage(k)]
           /\ FindLeafPage(k) \in Pages
<1> DEFINE leaf == CHOOSE f : LeafWalk(f, nodes, k)
<1>1. LeafWalk(leaf, nodes, k)
  BY LeafWalkExists
<1>2. FindLeafPage(k) = leaf[root_page_id]
  BY DEF FindLeafPage, LeafWalk
<1> HIDE DEF leaf
<1>3. \A p \in Pages : leaf[p] = IF nodes[p].type = "internal" THEN leaf[Child(nodes[p], k)] ELSE p
  BY <1>1 DEF LeafWalk
<1>4. root_page_id \in T /\ T \subseteq Pages /\ R[root_page_id] = Int
  BY DEF IsTree
<1> DEFINE Ends(p) == leaf[p] \in T /\ lev[leaf[p]] = 0 /\ k \in R[leaf[p]]
           S == { n \in Nat : \A p \in T : lev[p] = n /\ k \in R[p] => Ends(p) }
<1>5. 0 \in S
  <2>1. \A p \in T : lev[p] = 0 => leaf[p] = p
    BY <1>3, <1>4, LeafType
  <2> QED BY <2>1
<1>6. ASSUME NEW n \in S PROVE n + 1 \in S
  <2>1. ASSUME NEW p \in T, lev[p] = n + 1, k \in R[p] PROVE Ends(p)
    <3> DEFINE c == Child(nodes[p], k)
    <3>1. lev[p] # 0 /\ n \in Nat
      BY <2>1
    <3>2. c \in T /\ lev[c] + 1 = lev[p] /\ k \in R[c] /\ nodes[p].type = "internal"
      BY <2>1, <3>1, ChildOnWay
    <3>3. leaf[p] = leaf[c]
      BY <3>2, <1>3, <1>4
    <3>4. lev[c] \in Nat
      BY <3>2, RangeFacts
    <3>5. lev[c] = n
      BY <2>1, <3>1, <3>2, <3>4
    <3> HIDE DEF c
    <3> QED BY <3>2, <3>3, <3>5
  <2> HIDE DEF Ends
  <2> QED BY <2>1
<1>7. S = Nat
  <2> HIDE DEF S
  <2>1. S \in SUBSET Nat
    BY DEF S
  <2> QED BY <1>5, <1>6, <2>1, EveryRound
<1>8. lev[root_page_id] \in Nat /\ k \in R[root_page_id]
  BY <1>4, RangeFacts
<1>9. Ends(root_page_id)
  <2> HIDE DEF Ends
  <2>1. lev[root_page_id] \in S
    BY <1>7, <1>8
  <2> QED BY <2>1, <1>4, <1>8
<1> QED BY <1>2, <1>4, <1>9

HeightWalk(f, V) == f = [q \in PageIds |-> IF q = INVALID_PAGE_ID THEN 0 ELSE 1 + f[V[q].parent]]

(* So is the walk up the parent pointers that counts the levels. *)
LEMMA HeightWalkExists ==
    ASSUME NEW V, NEW r, NEW T, NEW lev, NEW R, IsTree(V, r, T, lev, R)
    PROVE  \E f \in [PageIds -> Nat] : HeightWalk(f, V)
<1> DEFINE B == {INVALID_PAGE_ID}
           b == [p \in PageIds |-> 0]
           comb == [z \in PageIds \X Nat |-> 1 + z[2]]
           succ == [p \in PageIds |-> IF p = INVALID_PAGE_ID THEN p ELSE V[p].parent]
           m == [p \in PageIds |-> IF p = INVALID_PAGE_ID THEN 0
                                   ELSE IF p \in T THEN lev[r] - lev[p] + 1 ELSE lev[r] + 2]
<1>1. /\ r \in T /\ T \subseteq Pages /\ V[r].parent = INVALID_PAGE_ID
      /\ INVALID_PAGE_ID \notin T /\ INVALID_PAGE_ID \notin Pages
  BY NoPage DEF IsTree
<1>2. \A p \in T : lev[p] \in Nat /\ lev[p] <= lev[r] /\ lev[r] \in Nat
  BY RangeFacts
<1>3. \A p \in T : p # r => V[p].parent \in T /\ lev[p] + 1 = lev[V[p].parent]
  BY ParentFacts
<1>4. \A p \in Pages \ T : V[p].parent = INVALID_PAGE_ID \/ V[p].parent \in T
  BY DEF IsTree, FreeOK
<1>5. PageIds = Pages \union {INVALID_PAGE_ID}
  BY DEF PageIds
<1>6. b \in [PageIds -> Nat] /\ comb \in [PageIds \X Nat -> Nat]
  OBVIOUS
<1>7. succ \in [PageIds -> PageIds]
  <2> SUFFICES ASSUME NEW p \in PageIds, p # INVALID_PAGE_ID PROVE V[p].parent \in PageIds
    OBVIOUS
  <2>1. p \in Pages
    BY <1>5
  <2> QED BY <2>1, <1>1, <1>3, <1>4, <1>5
<1>8. m \in [PageIds -> Nat]
  <2> SUFFICES ASSUME NEW p \in PageIds PROVE m[p] \in Nat
    OBVIOUS
  <2>1. CASE p \in T
    <3>1. m[p] = lev[r] - lev[p] + 1
      BY <2>1, <1>1
    <3> QED BY <3>1, <2>1, <1>2
  <2>2. CASE p \notin T
    <3>1. m[p] = 0 \/ m[p] = lev[r] + 2
      BY <2>2
    <3> QED BY <3>1, <1>1, <1>2
  <2> QED BY <2>1, <2>2
<1>9. \A p \in PageIds : m[p] <= lev[r] + 2
  <2> TAKE p \in PageIds
  <2>1. CASE p \in T
    <3>1. m[p] = lev[r] - lev[p] + 1
      BY <2>1, <1>1
    <3> QED BY <3>1, <2>1, <1>2
  <2>2. CASE p \notin T
    <3>1. m[p] = 0 \/ m[p] = lev[r] + 2
      BY <2>2
    <3> QED BY <3>1, <1>1, <1>2
  <2> QED BY <2>1, <2>2
<1>10. \A p \in PageIds : p \notin B => m[succ[p]] < m[p]
  <2> TAKE p \in PageIds
  <2> HAVE p \notin B
  <2>1. p # INVALID_PAGE_ID /\ p \in Pages /\ succ[p] = V[p].parent
    BY <1>5
  <2> DEFINE q == V[p].parent
  <2>2. q = INVALID_PAGE_ID => m[q] = 0
    BY <1>5
  <2>3. q \in T => m[q] = lev[r] - lev[q] + 1
    BY <1>1, <1>5
  <2>4. m[p] = IF p \in T THEN lev[r] - lev[p] + 1 ELSE lev[r] + 2
    BY <2>1
  <2>5. CASE p = r
    <3>1. q = INVALID_PAGE_ID
      BY <2>5, <1>1
    <3> HIDE DEF m, q
    <3>2. m[p] = lev[r] - lev[r] + 1
      BY <2>4, <2>5, <1>1
    <3>3. lev[r] \in Nat
      BY <1>1, <1>2
    <3>4. m[p] = 1
      BY <3>2, <3>3
    <3> QED BY <2>1, <2>2, <3>1, <3>4 DEF q
  <2>6. CASE p \in T /\ p # r
    <3>1. q \in T /\ lev[p] + 1 = lev[q]
      BY <2>6, <1>3
    <3>2. lev[q] \in Nat /\ lev[p] \in Nat /\ lev[r] \in Nat
      BY <3>1, <2>6, <1>1, <1>2
    <3> HIDE DEF m, q
    <3>3. m[q] < m[p]
      BY <3>1, <3>2, <2>3, <2>4, <2>6
    <3> QED BY <2>1, <3>3 DEF q
  <2>7. CASE p \notin T
    <3>1. q = INVALID_PAGE_ID \/ q \in T
      BY <2>1, <2>7, <1>4
    <3>2. lev[r] \in Nat /\ (q \in T => lev[q] \in Nat)
      BY <1>1, <1>2
    <3> HIDE DEF m, q
    <3>3. m[p] = lev[r] + 2
      BY <2>4, <2>7
    <3>4. m[q] < m[p]
      BY <3>1, <3>2, <3>3, <2>2, <2>3
    <3> QED BY <2>1, <3>4 DEF q
  <2> QED BY <2>5, <2>6, <2>7
<1>11. lev[r] + 2 \in Nat
  BY <1>1, <1>2
<1>12. PICK f \in [PageIds -> Nat] : IsRecursion(f, PageIds, B, b, comb, succ)
  <2> HIDE DEF B, b, comb, succ, m
  <2> QED BY <1>6, <1>7, <1>8, <1>9, <1>10, <1>11, LinearRecursion
<1>13. \A p \in PageIds : f[p] = IF p = INVALID_PAGE_ID THEN 0 ELSE 1 + f[V[p].parent]
  <2> TAKE p \in PageIds
  <2>1. f[p] = IF p \in B THEN b[p] ELSE comb[<<p, f[succ[p]]>>]
    BY <1>12 DEF IsRecursion
  <2>2. CASE p = INVALID_PAGE_ID
    BY <2>1, <2>2
  <2>3. CASE p # INVALID_PAGE_ID
    <3>1. succ[p] = V[p].parent /\ succ[p] \in PageIds
      BY <2>3, <1>7
    <3>2. f[succ[p]] \in Nat
      BY <3>1
    <3>3. comb[<<p, f[succ[p]]>>] = 1 + f[succ[p]]
      BY <3>2
    <3> QED BY <2>1, <2>3, <3>1, <3>3
  <2> QED BY <2>2, <2>3
<1>14. f = [p \in PageIds |-> f[p]]
  OBVIOUS
<1> QED BY <1>13, <1>14 DEF HeightWalk

(* The way up from a page has the levels above it. *)
LEMMA WayUp ==
    ASSUME NEW T, NEW lev, NEW R, IsTree(nodes, root_page_id, T, lev, R), NEW p \in T
    PROVE  Height(p) = lev[root_page_id] - lev[p] + 1
<1> DEFINE up == CHOOSE f : HeightWalk(f, nodes)
<1>1. HeightWalk(up, nodes)
  BY HeightWalkExists
<1>2. Height(p) = up[p]
  BY DEF Height, HeightWalk
<1> HIDE DEF up
<1>3. \A q \in PageIds : up[q] = IF q = INVALID_PAGE_ID THEN 0 ELSE 1 + up[nodes[q].parent]
  BY <1>1 DEF HeightWalk
<1>4. /\ root_page_id \in T /\ T \subseteq Pages /\ nodes[root_page_id].parent = INVALID_PAGE_ID
      /\ INVALID_PAGE_ID \notin T /\ T \subseteq PageIds /\ INVALID_PAGE_ID \in PageIds
  BY NoPage DEF IsTree, PageIds
<1>5. \A q \in T : lev[q] \in Nat /\ lev[q] <= lev[root_page_id] /\ lev[root_page_id] \in Nat
  BY RangeFacts
<1>6. \A q \in T : q # root_page_id => nodes[q].parent \in T /\ lev[q] + 1 = lev[nodes[q].parent]
  BY ParentFacts
<1> DEFINE S == { n \in Nat : \A q \in T : lev[root_page_id] - lev[q] = n => up[q] = n + 1 }
<1>7. up[INVALID_PAGE_ID] = 0
  BY <1>3, <1>4
<1>8. up[root_page_id] = 1
  BY <1>3, <1>4, <1>7
<1>9. 0 \in S
  <2>1. ASSUME NEW q \in T, lev[root_page_id] - lev[q] = 0 PROVE up[q] = 1
    <3>1. q = root_page_id
      <4> SUFFICES ASSUME q # root_page_id PROVE FALSE
        OBVIOUS
      <4>1. nodes[q].parent \in T /\ lev[q] + 1 = lev[nodes[q].parent]
        BY <1>6
      <4>2. lev[nodes[q].parent] <= lev[root_page_id] /\ lev[nodes[q].parent] \in Nat
        BY <4>1, <1>5
      <4> QED BY <4>1, <4>2, <2>1, <1>5
    <3> QED BY <3>1, <1>8
  <2> QED BY <2>1
<1>10. ASSUME NEW n \in S PROVE n + 1 \in S
  <2>1. ASSUME NEW q \in T, lev[root_page_id] - lev[q] = n + 1 PROVE up[q] = n + 1 + 1
    <3>1. n \in Nat /\ q # root_page_id
      BY <2>1, <1>5
    <3>2. nodes[q].parent \in T /\ lev[q] + 1 = lev[nodes[q].parent]
      BY <3>1, <1>6
    <3>3. lev[root_page_id] - lev[nodes[q].parent] = n
      BY <3>1, <3>2, <2>1, <1>5
    <3>4. up[nodes[q].parent] = n + 1
      BY <3>2, <3>3
    <3>5. up[q] = 1 + up[nodes[q].parent]
      BY <1>3, <1>4
    <3> QED BY <3>1, <3>4, <3>5
  <2> QED BY <2>1
<1>11. S = Nat
  <2> HIDE DEF S
  <2>1. S \in SUBSET Nat
    BY DEF S
  <2> QED BY <1>9, <1>10, <2>1, EveryRound
<1>12. lev[root_page_id] - lev[p] \in Nat
  BY <1>5
<1>13. lev[root_page_id] - lev[p] \in S
  <2> HIDE DEF S
  <2> QED BY <1>11, <1>12
<1>14. up[p] = lev[root_page_id] - lev[p] + 1
  BY <1>13
<1> QED BY <1>2, <1>14

-----------------------------------------------------------------------------
(* What the operations make of a node *)

NodeFits(n, used, p) ==
    /\ n.type = "none" <=> p >= used
    /\ Len(n.keys) <= Room(n.type)
    /\ n.type = "leaf" => Len(n.values) = Len(n.keys)
    /\ n.type = "internal" => Len(n.children) = Len(n.keys) + 1
    /\ n.type = "none" => n.next = INVALID_PAGE_ID

TypedPages(V, used) ==
    /\ V \in [Pages -> Node]
    /\ \A p \in Pages : NodeFits(V[p], used, p)

(* A node is made of its fields. *)
LEMMA RecordOf ==
    ASSUME NEW n \in Node
    PROVE  /\ n = [type |-> n.type, keys |-> n.keys, values |-> n.values, children |-> n.children,
                   parent |-> n.parent, next |-> n.next]
           /\ n.type \in {"none", "leaf", "internal"} /\ n.keys \in Seq(Keys) /\ n.values \in Seq(Values)
           /\ n.children \in Seq(Pages) /\ n.parent \in PageIds /\ n.next \in PageIds
           /\ Len(n.keys) \in Nat /\ Len(n.values) \in Nat /\ Len(n.children) \in Nat
<1>1. /\ n = [type |-> n.type, keys |-> n.keys, values |-> n.values, children |-> n.children,
              parent |-> n.parent, next |-> n.next]
      /\ n.type \in {"none", "leaf", "internal"} /\ n.keys \in Seq(Keys) /\ n.values \in Seq(Values)
      /\ n.children \in Seq(Pages) /\ n.parent \in PageIds /\ n.next \in PageIds
  BY DEF Node
<1>2. Len(n.keys) \in Nat
  BY <1>1
<1>3. Len(n.values) \in Nat
  BY <1>1
<1>4. Len(n.children) \in Nat
  BY <1>1
<1> QED BY <1>1, <1>2, <1>3, <1>4

(* m is n with other keys and values. *)
IsWith(m, n, ks, vs, nx) == m = [n EXCEPT !.keys = ks, !.values = vs, !.next = nx]

FieldsWith(m, n, ks, vs, nx) ==
    /\ m \in Node /\ m.keys = ks /\ m.values = vs /\ m.next = nx
    /\ m.type = n.type /\ m.children = n.children /\ m.parent = n.parent

(* A node with other keys and values has its other fields as they were. *)
LEMMA EntriesChanged ==
    ASSUME NEW n \in Node, NEW ks \in Seq(Keys), NEW vs \in Seq(Values), NEW nx \in PageIds,
           NEW m, IsWith(m, n, ks, vs, nx)
    PROVE  FieldsWith(m, n, ks, vs, nx)
<1>1. m = [n EXCEPT !.keys = ks, !.values = vs, !.next = nx]
  BY DEF IsWith
<1>2. m \in Node
  BY <1>1 DEF Node
<1>3. m.keys = ks /\ m.values = vs /\ m.next = nx
  BY <1>1 DEF Node
<1>4. m.type = n.type /\ m.children = n.children /\ m.parent = n.parent
  BY <1>1 DEF Node
<1> QED BY <1>2, <1>3, <1>4 DEF FieldsWith

(* Any place of binary_search lies in the keys. *)
LEMMA PositionType ==
    ASSUME NEW S, NEW ks \in Seq(S), NEW k
    PROVE  Position(ks, k) \in 1 .. Len(ks) + 1
<1> DEFINE n == Len(ks)
           B == { i \in DOMAIN ks : ks[i] < k }
<1>1. n \in Nat /\ DOMAIN ks = 1 .. n
  OBVIOUS
<1>2. B \subseteq 1 .. n
  BY <1>1
<1> HIDE DEF B, n
<1>3. IsFiniteSet(1 .. n) /\ Cardinality(1 .. n) = n
  <2>1. Cardinality(1 .. n) = IF 1 > n THEN 0 ELSE n - 1 + 1
    BY <1>1, FS_Interval
  <2>2. IsFiniteSet(1 .. n)
    BY <1>1, FS_Interval
  <2> QED BY <1>1, <2>1, <2>2
<1>4. Cardinality(B) <= n /\ IsFiniteSet(B)
  BY <1>2, <1>3, FS_Subset
<1>5. Cardinality(B) \in Nat
  BY <1>4, FS_CardinalityType
<1>6. Cardinality(B) + 1 \in 1 .. n + 1
  BY <1>1, <1>4, <1>5
<1> QED BY <1>6 DEF Position, B, n

(* What an insertion, a deletion, a merge and a split make of the fields of *)
(* a leaf. *)
LEMMA WithEntryFields ==
    ASSUME NEW n \in Node, NEW k \in Keys, NEW v \in Values, Len(n.values) = Len(n.keys),
           NEW m, m = WithEntry(n, k, v)
    PROVE  /\ m \in Node
           /\ m.type = n.type /\ m.parent = n.parent /\ m.next = n.next /\ m.children = n.children
           /\ m.keys \in Seq(Keys) /\ IsInserted(n.keys, Position(n.keys, k), k, m.keys)
           /\ m.values \in Seq(Values) /\ IsInserted(n.values, Position(n.keys, k), v, m.values)
<1> DEFINE i == Position(n.keys, k)
           ks == InsertAt(n.keys, i, k)
           vs == InsertAt(n.values, i, v)
<1>1. n.keys \in Seq(Keys) /\ n.values \in Seq(Values) /\ n.next \in PageIds
  BY RecordOf
<1>2. i \in 1 .. Len(n.keys) + 1
  BY <1>1, PositionType
<1>3. i \in 1 .. Len(n.values) + 1
  BY <1>2
<1> HIDE DEF i
<1>4. ks \in Seq(Keys) /\ IsInserted(n.keys, i, k, ks)
  BY <1>1, <1>2, InsertedAt
<1>5. vs \in Seq(Values) /\ IsInserted(n.values, i, v, vs)
  BY <1>1, <1>3, InsertedAt
<1>6. m = [n EXCEPT !.keys = ks, !.values = vs, !.next = n.next]
  <2>1. m = [n EXCEPT !.keys = ks, !.values = vs]
    BY DEF WithEntry, i
  <2> HIDE DEF ks, vs
  <2> QED BY <2>1, RecordOf
<1>8. IsWith(m, n, ks, vs, n.next)
  BY <1>6 DEF IsWith
<1> HIDE DEF ks, vs
<1>9. FieldsWith(m, n, ks, vs, n.next)
  BY <1>1, <1>4, <1>5, <1>8, EntriesChanged
<1>7. /\ m \in Node /\ m.keys = ks /\ m.values = vs /\ m.next = n.next
      /\ m.type = n.type /\ m.children = n.children /\ m.parent = n.parent
  BY <1>9 DEF FieldsWith
<1> QED BY <1>4, <1>5, <1>7 DEF i

LEMMA WithoutEntryFields ==
    ASSUME NEW n \in Node, NEW i \in 1 .. Len(n.keys), Len(n.values) = Len(n.keys),
           NEW m, m = [n EXCEPT !.keys = RemoveAt(@, i), !.values = RemoveAt(@, i)]
    PROVE  /\ m \in Node
           /\ m.type = n.type /\ m.parent = n.parent /\ m.next = n.next /\ m.children = n.children
           /\ m.keys \in Seq(Keys) /\ IsRemoved(n.keys, i, m.keys)
           /\ m.values \in Seq(Values) /\ IsRemoved(n.values, i, m.values)
<1> DEFINE ks == RemoveAt(n.keys, i)
           vs == RemoveAt(n.values, i)
<1>1. n.keys \in Seq(Keys) /\ n.values \in Seq(Values) /\ n.next \in PageIds
  BY RecordOf
<1>4. ks \in Seq(Keys) /\ IsRemoved(n.keys, i, ks)
  BY <1>1, RemovedAt
<1>5. vs \in Seq(Values) /\ IsRemoved(n.values, i, vs)
  BY <1>1, RemovedAt
<1>6. m = [n EXCEPT !.keys = ks, !.values = vs, !.next = n.next]
  <2>1. m = [n EXCEPT !.keys = ks, !.values = vs]
    OBVIOUS
  <2> HIDE DEF ks, vs
  <2> QED BY <2>1, RecordOf
<1>8. IsWith(m, n, ks, vs, n.next)
  BY <1>6 DEF IsWith
<1> HIDE DEF ks, vs
<1>9. FieldsWith(m, n, ks, vs, n.next)
  BY <1>1, <1>4, <1>5, <1>8, EntriesChanged
<1>7. /\ m \in Node /\ m.keys = ks /\ m.values = vs /\ m.next = n.next
      /\ m.type = n.type /\ m.children = n.children /\ m.parent = n.parent
  BY <1>9 DEF FieldsWith
<1> QED BY <1>4, <1>5, <1>7

LEMMA MergedFields ==
    ASSUME NEW n \in Node, NEW o \in Node, NEW m, m = Merged(n, o)
    PROVE  /\ m \in Node
           /\ m.type = n.type /\ m.parent = n.parent /\ m.next = o.next /\ m.children = n.children
           /\ m.keys \in Seq(Keys) /\ IsJoined(n.keys, o.keys, m.keys)
           /\ m.values \in Seq(Values) /\ IsJoined(n.values, o.values, m.values)
<1> DEFINE ks == n.keys \o o.keys
           vs == n.values \o o.values
<1>1. /\ n.keys \in Seq(Keys) /\ n.values \in Seq(Values)
      /\ o.keys \in Seq(Keys) /\ o.values \in Seq(Values) /\ o.next \in PageIds
  BY RecordOf
<1>4. ks \in Seq(Keys) /\ IsJoined(n.keys, o.keys, ks)
  BY <1>1, Joined
<1>5. vs \in Seq(Values) /\ IsJoined(n.values, o.values, vs)
  BY <1>1, Joined
<1>6. m = [n EXCEPT !.keys = ks, !.values = vs, !.next = o.next]
  BY DEF Merged
<1>8. IsWith(m, n, ks, vs, o.next)
  BY <1>6 DEF IsWith
<1> HIDE DEF ks, vs
<1>9. FieldsWith(m, n, ks, vs, o.next)
  BY <1>1, <1>4, <1>5, <1>8, EntriesChanged
<1>7. /\ m \in Node /\ m.keys = ks /\ m.values = vs /\ m.next = o.next
      /\ m.type = n.type /\ m.children = n.children /\ m.parent = n.parent
  BY <1>9 DEF FieldsWith
<1> QED BY <1>4, <1>5, <1>7

LEMMA HalvesFields ==
    ASSUME NEW n \in Node, NEW mid \in Nat, mid <= Len(n.keys), Len(n.values) = Len(n.keys),
           total_pages \in PageIds,
           NEW left, left = LeftHalf(n, mid), NEW right, right = RightHalf(n, mid)
    PROVE  /\ left \in Node
           /\ left.type = n.type /\ left.parent = n.parent /\ left.next = total_pages
           /\ left.children = n.children
           /\ left.keys \in Seq(Keys) /\ IsPart(n.keys, 0, mid, left.keys)
           /\ left.values \in Seq(Values) /\ IsPart(n.values, 0, mid, left.values)
           /\ right \in Node
           /\ right.type = n.type /\ right.parent = n.parent /\ right.next = n.next
           /\ right.children = n.children
           /\ right.keys \in Seq(Keys) /\ IsPart(n.keys, mid, Len(n.keys) - mid, right.keys)
           /\ right.values \in Seq(Values) /\ IsPart(n.values, mid, Len(n.keys) - mid, right.values)
<1> DEFINE lks == SubSeq(n.keys, 1, mid)
           lvs == SubSeq(n.values, 1, mid)
           rks == SubSeq(n.keys, mid + 1, Len(n.keys))
           rvs == SubSeq(n.values, mid + 1, Len(n.values))
<1>1. n.keys \in Seq(Keys) /\ n.values \in Seq(Values) /\ n.next \in PageIds /\ Len(n.keys) \in Nat
  BY RecordOf
<1>2. lks \in Seq(Keys) /\ IsPart(n.keys, 0, mid, lks)
  <2>1. 0 \in Nat /\ 0 <= mid /\ mid - 0 = mid /\ 0 + 1 = 1
    OBVIOUS
  <2>2. SubSeq(n.keys, 0 + 1, mid) \in Seq(Keys) /\ IsPart(n.keys, 0, mid - 0, SubSeq(n.keys, 0 + 1, mid))
    BY <1>1, <2>1, PartOf
  <2> QED BY <2>1, <2>2
<1>3. lvs \in Seq(Values) /\ IsPart(n.values, 0, mid, lvs)
  <2>1. 0 \in Nat /\ 0 <= mid /\ mid - 0 = mid /\ 0 + 1 = 1 /\ mid <= Len(n.values)
    OBVIOUS
  <2>2. SubSeq(n.values, 0 + 1, mid) \in Seq(Values) /\ IsPart(n.values, 0, mid - 0, SubSeq(n.values, 0 + 1, mid))
    BY <1>1, <2>1, PartOf
  <2> QED BY <2>1, <2>2
<1>4. rks \in Seq(Keys) /\ IsPart(n.keys, mid, Len(n.keys) - mid, rks)
  <2>1. Len(n.keys) <= Len(n.keys)
    BY <1>1
  <2> QED BY <1>1, <2>1, PartOf
<1>5. rvs \in Seq(Values) /\ IsPart(n.values, mid, Len(n.keys) - mid, rvs)
  <2>1. Len(n.values) <= Len(n.values) /\ mid <= Len(n.values) /\ Len(n.values) \in Nat
    BY <1>1
  <2>2. rvs \in Seq(Values) /\ IsPart(n.values, mid, Len(n.values) - mid, rvs)
    BY <1>1, <2>1, PartOf
  <2> QED BY <2>2
<1>6. left = [n EXCEPT !.keys = lks, !.values = lvs, !.next = total_pages]
  BY DEF LeftHalf
<1>7. right = [n EXCEPT !.keys = rks, !.values = rvs, !.next = n.next]
  <2>1. right = [n EXCEPT !.keys = rks, !.values = rvs]
    BY DEF RightHalf
  <2> HIDE DEF rks, rvs
  <2> QED BY <2>1, RecordOf
<1>10. IsWith(left, n, lks, lvs, total_pages) /\ IsWith(right, n, rks, rvs, n.next)
  BY <1>6, <1>7 DEF IsWith
<1> HIDE DEF lks, lvs, rks, rvs
<1>11. FieldsWith(left, n, lks, lvs, total_pages)
  BY <1>1, <1>2, <1>3, <1>10, EntriesChanged
<1>12. FieldsWith(right, n, rks, rvs, n.next)
  BY <1>1, <1>4, <1>5, <1>10, EntriesChanged
<1>8. /\ left \in Node /\ left.keys = lks /\ left.values = lvs /\ left.next = total_pages
      /\ left.type = n.type /\ left.children = n.children /\ left.parent = n.parent
  BY <1>11 DEF FieldsWith
<1>9. /\ right \in Node /\ right.keys = rks /\ right.values = rvs /\ right.next = n.next
      /\ right.type = n.type /\ right.children = n.children /\ right.parent = n.parent
  BY <1>12 DEF FieldsWith
<1> QED BY <1>2, <1>3, <1>4, <1>5, <1>8, <1>9

-----------------------------------------------------------------------------
(* The invariant *)

(* The nodes as they will be when the parent has got the new child: between *)
(* two levels of a climb this is what is a tree.                           *)
Attached(V, w, f) ==
    IF w.parent = INVALID_PAGE_ID
    THEN [V EXCEPT ![f] = Internal(<<w.key>>, <<w.old, w.new>>, INVALID_PAGE_ID),
                   ![w.old].parent = f, ![w.new].parent = f]
    ELSE [V EXCEPT ![w.parent] = WithChild(V[w.parent], w.key, w.new)]

WithWork(V, s, w, f) == IF s = "parent" THEN Attached(V, w, f) ELSE V
RootWith(r, s, w, f) == IF s = "parent" /\ w.parent = INVALID_PAGE_ID THEN f ELSE r
Waiting(s, w) == IF s = "merge" THEN w.old ELSE INVALID_PAGE_ID

(* The pages there are left are enough for the rest of the climb. *)
ClimbOK(r, used, w, T, lev) ==
    /\ w.key \in Keys
    /\ w.old \in Pages /\ w.old < used /\ w.new \in Pages /\ w.new < used /\ w.old # w.new
    /\ w.parent = INVALID_PAGE_ID => used < MaxPages
    /\ w.parent # INVALID_PAGE_ID =>
          w.parent \in T /\ lev[w.parent] # 0 /\ used + lev[r] - lev[w.parent] + 2 <= MaxPages

MergeOK(V, r, w, T, lev) ==
    w.old \in T /\ lev[w.old] = 0 /\ w.old # r /\ w.parent = V[w.old].parent

WorkTyped(s, w) ==
    s \in {"idle", "parent", "merge"} /\ w.old \in PageIds /\ w.new \in PageIds /\ w.parent \in PageIds

Holds(V, r, used, s, w, T, lev, R, c, rank) ==
    /\ TypedPages(V, used) /\ used \in 0 .. MaxPages /\ r \in Pages
    /\ WorkTyped(s, w)
    /\ Shape(WithWork(V, s, w, used), RootWith(r, s, w, used), used, Waiting(s, w), T, lev, R, c, rank)
    /\ s = "parent" => ClimbOK(r, used, w, T, lev)
    /\ s = "merge" => MergeOK(V, r, w, T, lev)

-----------------------------------------------------------------------------
(* One page gets other contents *)

LEMMA PageChanged ==
    ASSUME NEW V, NEW used, TypedPages(V, used), NEW p \in Pages, NEW m \in Node, NodeFits(m, used, p),
           NEW W, IsPut(W, V, p, m)
    PROVE  TypedPages(W, used) /\ W[p] = m /\ \A x \in Pages \ {p} : W[x] = V[x]
<1>1. V \in [Pages -> Node] /\ \A x \in Pages : NodeFits(V[x], used, x)
  BY DEF TypedPages
<1>2. W \in [Pages -> Node] /\ W[p] = m /\ \A x \in Pages \ {p} : W[x] = V[x]
  BY <1>1 DEF IsPut
<1>3. \A x \in Pages : NodeFits(W[x], used, x)
  BY <1>1, <1>2
<1> QED BY <1>2, <1>3 DEF TypedPages

(* A leaf that keeps its pointers, and whose keys stay in its range, leaves *)
(* the shape of the tree. *)
LEMMA LeafChanged ==
    ASSUME NEW V, NEW W, NEW r, NEW used \in Nat, NEW T, NEW lev, NEW R, NEW c, NEW rank,
           Shape(V, r, used, INVALID_PAGE_ID, T, lev, R, c, rank),
           NEW p \in T, lev[p] = 0, \A x \in Pages \ {p} : W[x] = V[x],
           W[p].type = V[p].type, W[p].parent = V[p].parent, W[p].children = V[p].children,
           W[p].next = V[p].next, LeafOK(W[p], R[p]),
           NEW except, W[p].keys # <<>> \/ p = r \/ except = p
    PROVE  Shape(W, r, used, except, T, lev, R, c, rank)
<1>1. /\ IsTree(V, r, T, lev, R) /\ IsChain(V, T, lev, R, c)
      /\ Ranked(V, used, rank) /\ NonEmpty(V, r, T, lev, INVALID_PAGE_ID)
  BY DEF Shape
<1>2. T \subseteq Pages /\ p \in Pages /\ r \in T
  BY <1>1 DEF IsTree
<1>3. \A x \in Pages : /\ W[x].type = V[x].type /\ W[x].parent = V[x].parent
                       /\ W[x].children = V[x].children /\ W[x].next = V[x].next
  OBVIOUS
<1>4. SameTree(V, W, T, lev, R)
  <2>1. \A x \in T : lev[x] # 0 => W[x].keys = V[x].keys
    BY <1>2
  <2>2. \A x \in T : lev[x] = 0 => LeafOK(V[x], R[x])
    BY <1>1 DEF IsTree, PageOK
  <2>3. \A x \in T : lev[x] = 0 => LeafOK(W[x], R[x])
    BY <2>2, <1>2
  <2> QED BY <1>3, <2>1, <2>3 DEF SameTree
<1>5. IsTree(W, r, T, lev, R)
  BY <1>1, <1>4, SameTreeKept
<1>6. IsChain(W, T, lev, R, c)
  BY <1>1, <1>3, ChainSame
<1>7. Ranked(W, used, rank)
  <2>1. used <= used
    OBVIOUS
  <2> QED BY <2>1, <1>1, <1>3, RankedSame
<1>8. NonEmpty(W, r, T, lev, except)
  <2> SUFFICES ASSUME NEW x \in T, lev[x] = 0, x # r, x # except, Len(W[W[x].parent].children) > 1
               PROVE  W[x].keys # <<>>
    BY DEF NonEmpty
  <2>1. CASE x = p
    BY <2>1
  <2>2. CASE x # p
    <3>1. W[x] = V[x] /\ x \in Pages /\ x # INVALID_PAGE_ID
      BY <2>2, <1>2, NoPage
    <3>2. V[x].parent \in T
      BY <1>1, ParentFacts
    <3>3. V[x].parent \in Pages /\ W[V[x].parent].children = V[V[x].parent].children
      BY <3>2, <1>2, <1>3
    <3>4. Len(V[V[x].parent].children) > 1
      BY <3>1, <3>3
    <3> QED BY <3>1, <3>4, <1>1 DEF NonEmpty
  <2> QED BY <2>1, <2>2
<1> QED BY <1>5, <1>6, <1>7, <1>8 DEF Shape

(* Between two operations the nodes as they are make a tree; and a tree with*)
(* nothing to do is what the invariant asks for. *)
LEMMA IdleShape ==
    ASSUME NEW V, NEW r, NEW used, NEW s, NEW w, NEW T, NEW lev, NEW R, NEW c, NEW rank,
           Holds(V, r, used, s, w, T, lev, R, c, rank), s = "idle"
    PROVE  /\ Shape(V, r, used, INVALID_PAGE_ID, T, lev, R, c, rank)
           /\ IsTree(V, r, T, lev, R)
           /\ TypedPages(V, used) /\ used \in 0 .. MaxPages /\ used \in Nat /\ r \in Pages /\ r \in T
<1>1. WithWork(V, s, w, used) = V /\ RootWith(r, s, w, used) = r /\ Waiting(s, w) = INVALID_PAGE_ID
  BY DEF WithWork, RootWith, Waiting
<1>2. Shape(V, r, used, INVALID_PAGE_ID, T, lev, R, c, rank)
  BY <1>1 DEF Holds
<1>3. IsTree(V, r, T, lev, R)
  BY <1>2 DEF Shape
<1>4. TypedPages(V, used) /\ used \in 0 .. MaxPages /\ r \in Pages
  BY DEF Holds
<1>5. r \in T
  BY <1>3 DEF IsTree
<1> QED BY <1>2, <1>3, <1>4, <1>5

LEMMA HoldsIdle ==
    ASSUME NEW V, NEW r \in Pages, NEW used \in 0 .. MaxPages, TypedPages(V, used),
           NEW T, NEW lev, NEW R, NEW c, NEW rank,
           Shape(V, r, used, INVALID_PAGE_ID, T, lev, R, c, rank)
    PROVE  \A w : WorkTyped("idle", w) => Holds(V, r, used, "idle", w, T, lev, R, c, rank)
<1> TAKE w
<1>1. WithWork(V, "idle", w, used) = V /\ RootWith(r, "idle", w, used) = r
      /\ Waiting("idle", w) = INVALID_PAGE_ID
  BY DEF WithWork, RootWith, Waiting
<1> QED BY <1>1 DEF Holds

(* v is one of the CTIDs that tuples of the key have. *)
LEMMA ValueOf ==
    ASSUME NEW k \in Keys, NEW v \in CTIDs[k]
    PROVE  v \in Values
<1>1. CTIDs[k] \in Range(CTIDs)
  BY BTreeAssumption DEF Range
<1> QED BY <1>1 DEF Values

(* The leaf of a key. *)
LEMMA LeafAt ==
    ASSUME NEW T, NEW lev, NEW R, NEW c, NEW rank, step = "idle", NEW k \in Keys,
           Holds(nodes, root_page_id, total_pages, step, work, T, lev, R, c, rank)
    PROVE  /\ FindLeafPage(k) \in T /\ FindLeafPage(k) \in Pages /\ lev[FindLeafPage(k)] = 0
           /\ k \in R[FindLeafPage(k)] /\ k \in Int
           /\ LeafOK(nodes[FindLeafPage(k)], R[FindLeafPage(k)])
           /\ nodes[FindLeafPage(k)] \in Node
           /\ NodeFits(nodes[FindLeafPage(k)], total_pages, FindLeafPage(k))
           /\ nodes[FindLeafPage(k)].type = "leaf"
<1>1. IsTree(nodes, root_page_id, T, lev, R) /\ TypedPages(nodes, total_pages)
  BY IdleShape
<1>2. k \in Int
  BY BTreeAssumption
<1> DEFINE p == FindLeafPage(k)
<1>3. p \in T /\ lev[p] = 0 /\ k \in R[p] /\ p \in Pages
  BY <1>1, <1>2, WayToLeaf
<1> HIDE DEF p
<1>4. LeafOK(nodes[p], R[p])
  BY <1>1, <1>3 DEF IsTree, PageOK
<1>5. nodes[p] \in Node /\ NodeFits(nodes[p], total_pages, p)
  BY <1>1, <1>3 DEF TypedPages
<1>6. nodes[p].type = "leaf"
  BY <1>4 DEF LeafOK
<1> QED BY <1>2, <1>3, <1>4, <1>5, <1>6 DEF p

(* A leaf with one entry more, or less. *)
LEMMA EntryAdded ==
    ASSUME NEW n \in Node, NEW S, LeafOK(n, S), Len(n.values) = Len(n.keys),
           NEW k \in Keys, k \in S, ~Has(n.keys, k), NEW v \in Values,
           NEW m, m = WithEntry(n, k, v)
    PROVE  /\ LeafOK(m, S) /\ Len(m.keys) = Len(n.keys) + 1 /\ Len(m.values) = Len(m.keys)
           /\ m.keys # <<>>
<1>1. /\ m \in Node /\ m.type = n.type /\ m.children = n.children
      /\ m.keys \in Seq(Keys) /\ IsInserted(n.keys, Position(n.keys, k), k, m.keys)
      /\ IsInserted(n.values, Position(n.keys, k), v, m.values)
  BY WithEntryFields
<1> DEFINE ks == n.keys
           kt == m.keys
           i == Position(ks, k)
<1>2. ks \in Seq(Int) /\ Sorted(ks) /\ n.type = "leaf" /\ n.children = <<>>
  BY DEF LeafOK
<1>3. \A j \in 1 .. Len(ks) : ks[j] \in S
  BY DEF LeafOK
<1>4. k \in Int
  BY BTreeAssumption
<1>5. kt \in Seq(Int)
  BY <1>1, KeysAreNumbers
<1>6. \A j \in 1 .. Len(ks) : ks[j] # k
  <2>1. DOMAIN ks = 1 .. Len(ks)
    BY <1>2
  <2> QED BY <2>1 DEF Has
<1>7. IsInserted(ks, i, k, kt)
  BY <1>1
<1> HIDE DEF ks, kt
<1>8. i \in 1 .. Len(ks) + 1 /\ \A j \in 1 .. Len(ks) : ks[j] < k <=> j < i
  BY <1>2, <1>4, PositionSplits
<1> HIDE DEF i
<1>9. Sorted(kt)
  BY <1>2, <1>4, <1>5, <1>6, <1>7, <1>8, InsertedSorted
<1>10. Len(ks) \in Nat
  BY <1>2
<1>11. \A j \in 1 .. Len(kt) : kt[j] \in S
  <2> TAKE j \in 1 .. Len(kt)
  <2>1. j \in 1 .. Len(ks) + 1
    BY <1>7 DEF IsInserted
  <2>2. kt[j] = IF j < i THEN ks[j] ELSE IF j = i THEN k ELSE ks[j - 1]
    BY <1>7, <2>1 DEF IsInserted
  <2>3. CASE j < i
    <3>1. j \in 1 .. Len(ks)
      BY <2>1, <2>3, <1>8, <1>10
    <3> QED BY <3>1, <2>2, <2>3, <1>3 DEF ks
  <2>4. CASE j = i
    BY <2>2, <2>4, <1>8
  <2>5. CASE i < j
    <3>1. j - 1 \in 1 .. Len(ks) /\ ~(j < i) /\ j # i
      BY <2>1, <2>5, <1>8, <1>10
    <3> QED BY <3>1, <2>2, <1>3 DEF ks
  <2> QED BY <2>1, <2>3, <2>4, <2>5, <1>8
<1>12. Len(kt) = Len(ks) + 1 /\ kt # <<>>
  <2>1. Len(kt) = Len(ks) + 1
    BY <1>7 DEF IsInserted
  <2> QED BY <2>1, <1>10
<1>13. Len(m.values) = Len(n.values) + 1
  BY <1>1 DEF IsInserted
<1>14. LeafOK(m, S)
  BY <1>1, <1>2, <1>5, <1>9, <1>11 DEF LeafOK, kt
<1> QED BY <1>12, <1>13, <1>14 DEF ks, kt

(* A leaf without one of its entries is a leaf still. *)
LEMMA EntryRemoved ==
    ASSUME NEW n \in Node, NEW S, LeafOK(n, S), Len(n.values) = Len(n.keys),
           NEW i \in 1 .. Len(n.keys),
           NEW m, m = [n EXCEPT !.keys = RemoveAt(@, i), !.values = RemoveAt(@, i)]
    PROVE  /\ LeafOK(m, S) /\ Len(m.keys) = Len(n.keys) - 1 /\ Len(m.values) = Len(m.keys)
<1>1. /\ m \in Node /\ m.type = n.type /\ m.children = n.children
      /\ m.keys \in Seq(Keys) /\ IsRemoved(n.keys, i, m.keys)
      /\ IsRemoved(n.values, i, m.values)
  BY WithoutEntryFields
<1> DEFINE ks == n.keys
           kt == m.keys
<1>2. ks \in Seq(Int) /\ Sorted(ks) /\ n.type = "leaf" /\ n.children = <<>>
  BY DEF LeafOK
<1>3. \A j \in 1 .. Len(ks) : ks[j] \in S
  BY DEF LeafOK
<1>5. kt \in Seq(Int)
  BY <1>1, KeysAreNumbers
<1>7. IsRemoved(ks, i, kt) /\ i \in 1 .. Len(ks)
  BY <1>1
<1> HIDE DEF ks, kt
<1>9. Sorted(kt)
  BY <1>2, <1>5, <1>7, RemovedSorted
<1>10. Len(ks) \in Nat
  BY <1>2
<1>11. \A j \in 1 .. Len(kt) : kt[j] \in S
  <2> TAKE j \in 1 .. Len(kt)
  <2>1. j \in 1 .. Len(ks) - 1
    BY <1>7 DEF IsRemoved
  <2>2. kt[j] = IF j < i THEN ks[j] ELSE ks[j + 1]
    BY <1>7, <2>1 DEF IsRemoved
  <2>3. j \in 1 .. Len(ks) /\ j + 1 \in 1 .. Len(ks)
    BY <2>1, <1>10
  <2> QED BY <2>2, <2>3, <1>3 DEF ks
<1>12. Len(kt) = Len(ks) - 1
  BY <1>7 DEF IsRemoved
<1>13. Len(m.values) = Len(n.values) - 1
  BY <1>1 DEF IsRemoved
<1>14. LeafOK(m, S)
  BY <1>1, <1>2, <1>5, <1>9, <1>11 DEF LeafOK, kt
<1> QED BY <1>12, <1>13, <1>14 DEF ks, kt

(* insert into a leaf with room keeps the invariant. *)
LEMMA InsertIntoLeafHolds ==
    ASSUME NEW T, NEW lev, NEW R, NEW c, NEW rank, NEW k \in Keys, NEW v \in CTIDs[k],
           Holds(nodes, root_page_id, total_pages, step, work, T, lev, R, c, rank),
           InsertIntoLeaf(k, v)
    PROVE  Holds(nodes', root_page_id', total_pages', step', work', T, lev, R, c, rank)
<1> DEFINE p == FindLeafPage(k)
           n == nodes[p]
           m == WithEntry(n, k, v)
<1>1. /\ step = "idle" /\ ~Has(n.keys, k) /\ Len(n.keys) < leaf_max_keys
      /\ nodes' = [nodes EXCEPT ![p] = m]
      /\ total_pages' = total_pages /\ root_page_id' = root_page_id /\ step' = step /\ work' = work
  BY DEF InsertIntoLeaf, Put
<1>2. /\ p \in T /\ p \in Pages /\ lev[p] = 0 /\ k \in R[p] /\ k \in Int
      /\ LeafOK(n, R[p]) /\ n \in Node /\ NodeFits(n, total_pages, p) /\ n.type = "leaf"
  BY <1>1, LeafAt
<1>3. v \in Values
  BY ValueOf
<1>4. /\ Shape(nodes, root_page_id, total_pages, INVALID_PAGE_ID, T, lev, R, c, rank)
      /\ TypedPages(nodes, total_pages) /\ total_pages \in 0 .. MaxPages /\ total_pages \in Nat
      /\ root_page_id \in Pages
  BY <1>1, IdleShape
<1>5. WorkTyped(step, work)
  BY DEF Holds
<1> HIDE DEF p, n, m
<1>6. Len(n.values) = Len(n.keys)
  BY <1>2 DEF NodeFits
<1>7. /\ m \in Node
      /\ m.type = n.type /\ m.parent = n.parent /\ m.next = n.next /\ m.children = n.children
  BY <1>2, <1>3, <1>6, WithEntryFields DEF m
<1>8. /\ LeafOK(m, R[p]) /\ Len(m.keys) = Len(n.keys) + 1 /\ Len(m.values) = Len(m.keys)
      /\ m.keys # <<>>
  BY <1>1, <1>2, <1>3, <1>6, EntryAdded DEF m
<1>9. NodeFits(m, total_pages, p)
  <2>1. Len(n.keys) \in Nat /\ leaf_max_keys \in Nat
    BY <1>2, RecordOf, BTreeAssumption
  <2>2. Len(m.keys) <= leaf_max_keys
    BY <2>1, <1>1, <1>8
  <2> QED BY <2>2, <1>2, <1>7, <1>8 DEF NodeFits, Room
<1>10. /\ TypedPages(nodes', total_pages)
       /\ nodes'[p] = m /\ \A x \in Pages \ {p} : nodes'[x] = nodes[x]
  <2>1. IsPut(nodes', nodes, p, m)
    BY <1>1 DEF IsPut
  <2> QED BY <2>1, <1>2, <1>4, <1>7, <1>9, PageChanged
<1>11. Shape(nodes', root_page_id, total_pages, INVALID_PAGE_ID, T, lev, R, c, rank)
  BY <1>2, <1>4, <1>7, <1>8, <1>10, LeafChanged DEF n
<1>12. Holds(nodes', root_page_id, total_pages, "idle", work, T, lev, R, c, rank)
  BY <1>1, <1>4, <1>5, <1>10, <1>11, HoldsIdle
<1> QED BY <1>1, <1>12

(* delete keeps the invariant; a leaf that gets empty is left to the merge. *)
LEMMA DeleteHolds ==
    ASSUME NEW T, NEW lev, NEW R, NEW c, NEW rank, NEW k \in Keys,
           Holds(nodes, root_page_id, total_pages, step, work, T, lev, R, c, rank),
           Delete(k)
    PROVE  Holds(nodes', root_page_id', total_pages', step', work', T, lev, R, c, rank)
<1> DEFINE p == FindLeafPage(k)
           n == nodes[p]
           i == Position(n.keys, k)
           m == [n EXCEPT !.keys = RemoveAt(@, i), !.values = RemoveAt(@, i)]
           short == p # root_page_id /\ Len(m.keys) < leaf_max_keys \div 2
<1>1. /\ step = "idle" /\ Has(n.keys, k)
      /\ nodes' = [nodes EXCEPT ![p] = m]
      /\ total_pages' = total_pages /\ root_page_id' = root_page_id
      /\ step' = IF short THEN "merge" ELSE "idle"
      /\ work' = IF short THEN Work(p, 0, INVALID_PAGE_ID, m.parent) ELSE Nothing
  BY DEF Delete, Put
<1>2. /\ p \in T /\ p \in Pages /\ lev[p] = 0 /\ k \in R[p] /\ k \in Int
      /\ LeafOK(n, R[p]) /\ n \in Node /\ NodeFits(n, total_pages, p) /\ n.type = "leaf"
  BY <1>1, LeafAt
<1>4. /\ Shape(nodes, root_page_id, total_pages, INVALID_PAGE_ID, T, lev, R, c, rank)
      /\ TypedPages(nodes, total_pages) /\ total_pages \in 0 .. MaxPages /\ total_pages \in Nat
      /\ root_page_id \in Pages /\ root_page_id \in T
  BY <1>1, IdleShape
<1> HIDE DEF p, n
<1>6. Len(n.values) = Len(n.keys)
  BY <1>2 DEF NodeFits
<1>5. i \in 1 .. Len(n.keys)
  <2>1. n.keys \in Seq(Int) /\ Sorted(n.keys)
    BY <1>2 DEF LeafOK
  <2>0. \E j \in DOMAIN n.keys : n.keys[j] = k
    BY <1>1 DEF Has
  <2>2. PICK j \in 1 .. Len(n.keys) : n.keys[j] = k
    BY <2>0, <2>1
  <2>3. Position(n.keys, n.keys[j]) = j
    BY <2>1, PositionOf
  <2> QED BY <2>2, <2>3
<1> HIDE DEF i, m, short
<1>7. /\ m \in Node
      /\ m.type = n.type /\ m.parent = n.parent /\ m.next = n.next /\ m.children = n.children
  <2>1. n \in Node
    BY <1>2
  <2> QED BY <2>1, <1>5, <1>6, WithoutEntryFields DEF m
<1>8. LeafOK(m, R[p]) /\ Len(m.keys) = Len(n.keys) - 1 /\ Len(m.values) = Len(m.keys)
  <2>1. n \in Node /\ LeafOK(n, R[p])
    BY <1>2
  <2> QED BY <2>1, <1>5, <1>6, EntryRemoved DEF m
<1>9. NodeFits(m, total_pages, p)
  <2>1. Len(n.keys) \in Nat /\ leaf_max_keys \in Nat /\ Len(n.keys) <= leaf_max_keys
    BY <1>2, RecordOf, BTreeAssumption DEF NodeFits, Room
  <2>2. Len(m.keys) <= leaf_max_keys
    BY <2>1, <1>8
  <2> QED BY <2>2, <1>2, <1>7, <1>8 DEF NodeFits, Room
<1>10. /\ TypedPages(nodes', total_pages)
       /\ nodes'[p] = m /\ \A x \in Pages \ {p} : nodes'[x] = nodes[x]
  <2>1. IsPut(nodes', nodes, p, m)
    BY <1>1 DEF IsPut
  <2> QED BY <2>1, <1>2, <1>4, <1>7, <1>9, PageChanged
<1>11. CASE ~short
  <2>1. m.keys # <<>> \/ p = root_page_id
    <3> SUFFICES ASSUME p # root_page_id PROVE m.keys # <<>>
      OBVIOUS
    <3>1. ~(Len(m.keys) < leaf_max_keys \div 2)
      BY <1>11 DEF short
    <3>2. leaf_max_keys \div 2 > 0
      BY BTreeAssumption
    <3>3. Len(<<>>) = 0
      OBVIOUS
    <3> QED BY <3>1, <3>2, <3>3
  <2>2. Shape(nodes', root_page_id, total_pages, INVALID_PAGE_ID, T, lev, R, c, rank)
    BY <2>1, <1>2, <1>4, <1>7, <1>8, <1>10, LeafChanged DEF n
  <2>3. WorkTyped("idle", Nothing)
    BY DEF WorkTyped, Nothing, PageIds
  <2>4. Holds(nodes', root_page_id, total_pages, "idle", Nothing, T, lev, R, c, rank)
    BY <2>2, <2>3, <1>4, <1>10, HoldsIdle
  <2> QED BY <2>4, <1>1, <1>11
<1>12. CASE short
  <2> DEFINE w == Work(p, 0, INVALID_PAGE_ID, m.parent)
  <2>1. w.old = p /\ w.new = INVALID_PAGE_ID /\ w.parent = m.parent
    BY DEF Work
  <2> HIDE DEF w
  <2>2. Shape(nodes', root_page_id, total_pages, p, T, lev, R, c, rank)
    BY <1>2, <1>4, <1>7, <1>8, <1>10, LeafChanged DEF n
  <2>3. WorkTyped("merge", w)
    <3>1. m.parent \in PageIds
      BY <1>7, RecordOf
    <3> QED BY <2>1, <3>1, <1>2 DEF WorkTyped, PageIds
  <2>4. /\ WithWork(nodes', "merge", w, total_pages) = nodes'
        /\ RootWith(root_page_id, "merge", w, total_pages) = root_page_id
        /\ Waiting("merge", w) = p
    BY <2>1 DEF WithWork, RootWith, Waiting
  <2>5. MergeOK(nodes', root_page_id, w, T, lev)
    BY <2>1, <1>2, <1>10, <1>12 DEF MergeOK, short
  <2>6. Holds(nodes', root_page_id, total_pages, "merge", w, T, lev, R, c, rank)
    BY <2>2, <2>3, <2>4, <2>5, <1>4, <1>10 DEF Holds
  <2> QED BY <2>6, <1>1, <1>12 DEF w
<1> QED BY <1>11, <1>12

(* create_new_root makes the root over the two pages. *)
LEMMA NewRootMade ==
    ASSUME NEW V \in [Pages -> Node], NEW w, NEW f \in Pages, w.parent = INVALID_PAGE_ID,
           w.old \in Pages, w.new \in Pages, w.old # w.new, w.old # f, w.new # f
    PROVE  GetsRoot(V, Attached(V, w, f), w.old, w.key, w.new, f)
<1> DEFINE p == w.old
           q == w.new
           n == Internal(<<w.key>>, <<w.old, w.new>>, INVALID_PAGE_ID)
           W == [V EXCEPT ![f] = n, ![p].parent = f, ![q].parent = f]
<1>1. Attached(V, w, f) = W
  BY DEF Attached
<1>2. p \in Pages /\ q \in Pages /\ p # q /\ p # f /\ q # f
  OBVIOUS
<1> HIDE DEF p, q, n
<1>3. /\ W[f] = n /\ W[p] = [V[p] EXCEPT !.parent = f] /\ W[q] = [V[q] EXCEPT !.parent = f]
      /\ \A x \in Pages \ {f, p, q} : W[x] = V[x]
  BY <1>2
<1> HIDE DEF W
<1> QED BY <1>1, <1>3 DEF GetsRoot, p, q, n

(* The node that is written for an internal page. *)
LEMMA InternalNode ==
    ASSUME NEW ks \in Seq(Keys), NEW cs \in Seq(Pages), NEW q \in PageIds
    PROVE  /\ Internal(ks, cs, q) \in Node
           /\ Internal(ks, cs, q).type = "internal" /\ Internal(ks, cs, q).keys = ks
           /\ Internal(ks, cs, q).children = cs /\ Internal(ks, cs, q).parent = q
           /\ Internal(ks, cs, q).next = INVALID_PAGE_ID /\ Internal(ks, cs, q).values = <<>>
<1>1. INVALID_PAGE_ID \in PageIds
  BY DEF PageIds
<1>2. <<>> \in Seq(Values)
  OBVIOUS
<1> QED BY <1>1, <1>2 DEF Internal, Node

(* A new root, and the two pages under it, are well typed. *)
LEMMA ParentTyped ==
    ASSUME NEW n \in Node, NEW f \in PageIds
    PROVE  [n EXCEPT !.parent = f] \in Node
BY DEF Node

LEMMA NewRootTyped ==
    ASSUME NEW V, NEW f \in Pages, TypedPages(V, f), NEW W, NEW p \in Pages, NEW q \in Pages,
           NEW key \in Keys, GetsRoot(V, W, p, key, q, f), W \in [Pages -> Node] \/ DOMAIN W = Pages,
           p < f, q < f, W = [x \in Pages |-> W[x]]
    PROVE  TypedPages(W, f + 1)
<1>1. V \in [Pages -> Node] /\ \A x \in Pages : NodeFits(V[x], f, x)
  BY DEF TypedPages
<1>2. /\ W[f] = Internal(<<key>>, <<p, q>>, INVALID_PAGE_ID)
      /\ W[p] = [V[p] EXCEPT !.parent = f] /\ W[q] = [V[q] EXCEPT !.parent = f]
      /\ \A x \in Pages \ {f, p, q} : W[x] = V[x]
  BY DEF GetsRoot
<1>3. f \in Nat /\ f \in PageIds
  BY DEF Pages, PageIds
<1>4. W[f] \in Node /\ NodeFits(W[f], f + 1, f)
  <2> DEFINE ks == <<key>>
             cs == <<p, q>>
  <2>1. ks \in Seq(Keys) /\ cs \in Seq(Pages) /\ Len(ks) = 1 /\ Len(cs) = 2
    OBVIOUS
  <2>5. W[f] = Internal(ks, cs, INVALID_PAGE_ID)
    BY <1>2
  <2> HIDE DEF ks, cs
  <2>2. INVALID_PAGE_ID \in PageIds
    BY DEF PageIds
  <2>3. W[f] \in Node /\ W[f].type = "internal" /\ W[f].keys = ks /\ W[f].children = cs
    BY <2>5, <2>1, <2>2, InternalNode
  <2>4. internal_max_keys \in Nat /\ internal_max_keys >= 1
    BY BTreeAssumption
  <2>6. Len(W[f].keys) = 1 /\ Len(W[f].children) = 2
    BY <2>1, <2>3
  <2>7. ~(f >= f + 1)
    BY <1>3
  <2>8. Len(W[f].keys) <= Room(W[f].type)
    BY <2>3, <2>4, <2>6 DEF Room
  <2>9. Len(W[f].children) = Len(W[f].keys) + 1
    <3>1. 2 = 1 + 1
      OBVIOUS
    <3> QED BY <2>6, <3>1
  <2>10. W[f].type # "none" /\ W[f].type # "leaf"
    BY <2>3
  <2> QED BY <2>3, <2>7, <2>8, <2>9, <2>10 DEF NodeFits
<1>5. ASSUME NEW x \in {p, q} PROVE W[x] \in Node /\ NodeFits(W[x], f + 1, x)
  <2>1. W[x] = [V[x] EXCEPT !.parent = f] /\ V[x] \in Node /\ x \in Pages /\ x < f
    BY <1>1, <1>2
  <2>2. W[x] \in Node
    BY <2>1, <1>3, ParentTyped
  <2>3. /\ W[x].type = V[x].type /\ W[x].keys = V[x].keys /\ W[x].values = V[x].values
        /\ W[x].children = V[x].children /\ W[x].next = V[x].next
    BY <2>1, ParentChanged
  <2>4. NodeFits(V[x], f, x) /\ (x >= f <=> x >= f + 1)
    BY <1>1, <1>3, <2>1 DEF Pages
  <2> QED BY <2>2, <2>3, <2>4 DEF NodeFits
<1>6. ASSUME NEW x \in Pages \ {f, p, q} PROVE W[x] \in Node /\ NodeFits(W[x], f + 1, x)
  <2>1. W[x] = V[x] /\ V[x] \in Node /\ NodeFits(V[x], f, x)
    BY <1>1, <1>2
  <2>2. x >= f <=> x >= f + 1
    BY <1>3, <1>6 DEF Pages
  <2> QED BY <2>1, <2>2 DEF NodeFits
<1>7. \A x \in Pages : W[x] \in Node /\ NodeFits(W[x], f + 1, x)
  BY <1>4, <1>5, <1>6
<1>8. W \in [Pages -> Node]
  BY <1>7
<1> QED BY <1>7, <1>8 DEF TypedPages

(* One more allocated page changes no tree. *)
LEMMA ShapeMore ==
    ASSUME NEW V, NEW r, NEW used \in Nat, NEW e, NEW T, NEW lev, NEW R, NEW c, NEW rank,
           Shape(V, r, used, e, T, lev, R, c, rank)
    PROVE  Shape(V, r, used + 1, e, T, lev, R, c, rank)
<1>1. Ranked(V, used + 1, rank)
  <2>1. Ranked(V, used, rank)
    BY DEF Shape
  <2>2. \A x \in Pages : x < used => x < used + 1
    BY DEF Pages
  <2> QED BY <2>1, <2>2 DEF Ranked
<1> QED BY <1>1 DEF Shape

(* Nothing is left to do at first. *)
LEMMA NothingTyped == WorkTyped("idle", Nothing)
BY DEF WorkTyped, Nothing, PageIds

(* create_new_root keeps the invariant: the tree there is now is the one    *)
(* with the pending child attached. *)
LEMMA CreateNewRootHolds ==
    ASSUME NEW T, NEW lev, NEW R, NEW c, NEW rank,
           Holds(nodes, root_page_id, total_pages, step, work, T, lev, R, c, rank),
           CreateNewRoot
    PROVE  Holds(nodes', root_page_id', total_pages', step', work', T, lev, R, c, rank)
<1>1. /\ step = "parent" /\ work.parent = INVALID_PAGE_ID
      /\ nodes' = Attached(nodes, work, total_pages)
      /\ total_pages' = total_pages + 1 /\ root_page_id' = total_pages
      /\ step' = "idle" /\ work' = Nothing
  BY DEF CreateNewRoot, Idle, Attached
<1>2. /\ TypedPages(nodes, total_pages) /\ total_pages \in 0 .. MaxPages
      /\ Shape(WithWork(nodes, step, work, total_pages), RootWith(root_page_id, step, work, total_pages),
               total_pages, Waiting(step, work), T, lev, R, c, rank)
      /\ ClimbOK(root_page_id, total_pages, work, T, lev)
  BY <1>1 DEF Holds
<1>3. /\ WithWork(nodes, step, work, total_pages) = nodes'
      /\ RootWith(root_page_id, step, work, total_pages) = total_pages
      /\ Waiting(step, work) = INVALID_PAGE_ID
  BY <1>1 DEF WithWork, RootWith, Waiting
<1>4. /\ work.key \in Keys /\ total_pages < MaxPages
      /\ work.old \in Pages /\ work.old < total_pages /\ work.new \in Pages /\ work.new < total_pages
      /\ work.old # work.new
  BY <1>1, <1>2 DEF ClimbOK
<1>5. total_pages \in Pages /\ total_pages \in Nat /\ total_pages + 1 \in 0 .. MaxPages
  BY <1>2, <1>4, BTreeAssumption DEF Pages
<1>6. nodes \in [Pages -> Node]
  BY <1>2 DEF TypedPages
<1>7. GetsRoot(nodes, nodes', work.old, work.key, work.new, total_pages)
  <2>1. work.old # total_pages /\ work.new # total_pages
    BY <1>4, <1>5 DEF Pages
  <2>2. GetsRoot(nodes, Attached(nodes, work, total_pages), work.old, work.key, work.new, total_pages)
    BY <2>1, <1>1, <1>4, <1>5, <1>6, NewRootMade
  <2> QED BY <2>2, <1>1
<1>8. nodes' = [x \in Pages |-> nodes'[x]] /\ DOMAIN nodes' = Pages
  BY <1>1, <1>6 DEF Attached
<1>9. TypedPages(nodes', total_pages + 1)
  BY <1>2, <1>4, <1>5, <1>7, <1>8, NewRootTyped
<1>10. Shape(nodes', total_pages, total_pages + 1, INVALID_PAGE_ID, T, lev, R, c, rank)
  BY <1>2, <1>3, <1>5, ShapeMore
<1>11. Holds(nodes', total_pages, total_pages + 1, "idle", Nothing, T, lev, R, c, rank)
  BY <1>5, <1>9, <1>10, NothingTyped, HoldsIdle
<1> QED BY <1>1, <1>11

(* So does the insertion of the pending child into a parent with room. *)
LEMMA InsertIntoParentHolds ==
    ASSUME NEW T, NEW lev, NEW R, NEW c, NEW rank,
           Holds(nodes, root_page_id, total_pages, step, work, T, lev, R, c, rank),
           InsertIntoParent
    PROVE  Holds(nodes', root_page_id', total_pages', step', work', T, lev, R, c, rank)
<1> DEFINE q == work.parent
           m == WithChild(nodes[q], work.key, work.new)
<1>1. /\ step = "parent" /\ work.parent # INVALID_PAGE_ID
      /\ Len(nodes[q].keys) < internal_max_keys
      /\ nodes' = Attached(nodes, work, total_pages)
      /\ nodes' = [nodes EXCEPT ![q] = m]
      /\ total_pages' = total_pages /\ root_page_id' = root_page_id
      /\ step' = "idle" /\ work' = Nothing
  BY DEF InsertIntoParent, Put, Idle, Attached
<1>2. /\ TypedPages(nodes, total_pages) /\ total_pages \in 0 .. MaxPages /\ root_page_id \in Pages
      /\ Shape(WithWork(nodes, step, work, total_pages), RootWith(root_page_id, step, work, total_pages),
               total_pages, Waiting(step, work), T, lev, R, c, rank)
      /\ ClimbOK(root_page_id, total_pages, work, T, lev) /\ WorkTyped(step, work)
  BY <1>1 DEF Holds
<1>3. /\ WithWork(nodes, step, work, total_pages) = nodes'
      /\ RootWith(root_page_id, step, work, total_pages) = root_page_id
      /\ Waiting(step, work) = INVALID_PAGE_ID
  BY <1>1 DEF WithWork, RootWith, Waiting
<1>4. work.key \in Keys /\ work.new \in Pages /\ q \in T /\ lev[q] # 0
  BY <1>1, <1>2 DEF ClimbOK
<1>5. Shape(nodes', root_page_id, total_pages, INVALID_PAGE_ID, T, lev, R, c, rank)
  BY <1>2, <1>3
<1>6. q \in Pages /\ nodes[q] \in Node /\ NodeFits(nodes[q], total_pages, q)
  BY <1>1, <1>2 DEF WorkTyped, PageIds, TypedPages
<1>7. nodes'[q] = m
  <2>1. nodes \in [Pages -> Node]
    BY <1>2 DEF TypedPages
  <2> QED BY <1>1, <1>6, <2>1
<1>8. nodes'[q].type = "internal"
  <2>1. IsTree(nodes', root_page_id, T, lev, R)
    BY <1>5 DEF Shape
  <2> QED BY <2>1, <1>4, <1>6, LeafType
<1>9. nodes[q].type = "internal"
  <2>1. m.type = nodes[q].type
    BY <1>6, RecordOf DEF WithChild
  <2> QED BY <2>1, <1>7, <1>8
<1> HIDE DEF q, m
<1>10. /\ m \in Node /\ m.type = "internal" /\ Len(m.keys) = Len(nodes[q].keys) + 1
       /\ Len(m.children) = Len(nodes[q].children) + 1
  <2>1. Len(nodes[q].children) = Len(nodes[q].keys) + 1 /\ nodes[q].keys \in Seq(Keys)
    BY <1>6, <1>9, RecordOf DEF NodeFits
  <2>2. Position(nodes[q].keys, work.key) \in 1 .. Len(nodes[q].keys) + 1
    BY <2>1, PositionType
  <2>3. /\ m \in Node /\ m.type = nodes[q].type
        /\ IsInserted(nodes[q].keys, Position(nodes[q].keys, work.key), work.key, m.keys)
        /\ IsInserted(nodes[q].children, Position(nodes[q].keys, work.key) + 1, work.new, m.children)
    BY <2>1, <2>2, <1>4, <1>6, <1>9, WithChildFields DEF m
  <2> QED BY <2>3, <1>9 DEF IsInserted
<1>11. NodeFits(m, total_pages, q)
  <2>1. Len(nodes[q].keys) \in Nat /\ internal_max_keys \in Nat
    BY <1>6, RecordOf, BTreeAssumption
  <2>2. Len(m.keys) <= internal_max_keys
    BY <2>1, <1>1, <1>10
  <2> QED BY <2>2, <1>6, <1>9, <1>10 DEF NodeFits, Room
<1>12. TypedPages(nodes', total_pages)
  <2>1. IsPut(nodes', nodes, q, m)
    BY <1>1 DEF IsPut
  <2> QED BY <2>1, <1>2, <1>6, <1>10, <1>11, PageChanged
<1>13. Holds(nodes', root_page_id, total_pages, "idle", Nothing, T, lev, R, c, rank)
  BY <1>2, <1>5, <1>12, NothingTyped, HoldsIdle
<1> QED BY <1>1, <1>13

(* While a short leaf waits for its merge the nodes are a tree, in which    *)
(* that leaf may be empty. *)
LEMMA MergeShape ==
    ASSUME NEW V, NEW r, NEW used, NEW s, NEW w, NEW T, NEW lev, NEW R, NEW c, NEW rank,
           Holds(V, r, used, s, w, T, lev, R, c, rank), s = "merge"
    PROVE  /\ Shape(V, r, used, w.old, T, lev, R, c, rank) /\ IsTree(V, r, T, lev, R)
           /\ TypedPages(V, used) /\ used \in 0 .. MaxPages /\ r \in Pages
           /\ w.old \in T /\ lev[w.old] = 0 /\ w.old # r /\ w.parent = V[w.old].parent
<1>1. WithWork(V, s, w, used) = V /\ RootWith(r, s, w, used) = r /\ Waiting(s, w) = w.old
  BY DEF WithWork, RootWith, Waiting
<1>2. Shape(V, r, used, w.old, T, lev, R, c, rank)
  BY <1>1 DEF Holds
<1>3. IsTree(V, r, T, lev, R)
  BY <1>2 DEF Shape
<1>4. MergeOK(V, r, w, T, lev)
  BY DEF Holds
<1>5. TypedPages(V, used) /\ used \in 0 .. MaxPages /\ r \in Pages
  BY DEF Holds
<1> QED BY <1>2, <1>3, <1>4, <1>5 DEF MergeOK

(* The leaf that is short, and where the pair to merge begins. *)
LEMMA SiblingFacts ==
    ASSUME NEW T, NEW lev, NEW R, NEW c, NEW rank, step = "merge",
           Holds(nodes, root_page_id, total_pages, step, work, T, lev, R, c, rank)
    PROVE  LET q == work.parent IN
           /\ q \in T /\ q \in Pages /\ lev[q] = 1
           /\ Len(nodes[q].keys) \in Nat /\ Len(nodes[q].children) = Len(nodes[q].keys) + 1
           /\ \A i \in Siblings :
                 /\ i \in 1 .. Len(nodes[q].keys)
                 /\ work.old = nodes[q].children[i] \/ work.old = nodes[q].children[i + 1]
           /\ Len(nodes[q].children) > 1 => Siblings # {}
<1> DEFINE q == work.parent
           cs == nodes[q].children
           at == CHOOSE i \in DOMAIN cs : cs[i] = work.old
<1>1. /\ IsTree(nodes, root_page_id, T, lev, R) /\ work.old \in T /\ lev[work.old] = 0
      /\ work.old # root_page_id /\ q = nodes[work.old].parent
  BY MergeShape
<1>2. /\ q \in T /\ lev[q] # 0 /\ lev[work.old] + 1 = lev[q]
      /\ \E i \in 1 .. Len(cs) : cs[i] = work.old
  BY <1>1, ParentFacts
<1>3. q \in Pages
  BY <1>1, <1>2, RangeFacts
<1>4. PageOK(nodes, root_page_id, T, lev, R, q)
  BY <1>1, <1>2 DEF IsTree
<1>5. InnerOK(nodes[q])
  BY <1>2, <1>4 DEF PageOK
<1>6. cs \in Seq(Pages) /\ Len(cs) = Len(nodes[q].keys) + 1 /\ nodes[q].keys \in Seq(Int)
  BY <1>5 DEF InnerOK
<1>7. Len(nodes[q].keys) \in Nat /\ DOMAIN cs = 1 .. Len(cs)
  BY <1>6
<1>8. at \in 1 .. Len(cs) /\ cs[at] = work.old
  BY <1>2, <1>7
<1>9. Siblings = IF at > 1 THEN {at - 1} ELSE IF Len(cs) > 1 THEN {1} ELSE {}
  BY DEF Siblings
<1> HIDE DEF at
<1>10. ASSUME NEW i \in Siblings
       PROVE  i \in 1 .. Len(nodes[q].keys) /\ (work.old = cs[i] \/ work.old = cs[i + 1])
  <2>1. CASE at > 1
    <3>1. i = at - 1
      BY <2>1, <1>9, <1>10
    <3>2. i + 1 = at /\ i \in 1 .. Len(nodes[q].keys)
      BY <3>1, <2>1, <1>6, <1>7, <1>8
    <3> QED BY <3>2, <1>8
  <2>2. CASE ~(at > 1)
    <3>1. at = 1
      BY <2>2, <1>8
    <3>2. i = 1 /\ Len(cs) > 1
      BY <2>2, <1>9, <1>10
    <3>3. 1 \in 1 .. Len(nodes[q].keys)
      BY <3>2, <1>6, <1>7
    <3> QED BY <3>1, <3>2, <3>3, <1>8
  <2> QED BY <2>1, <2>2
<1>11. Len(cs) > 1 => Siblings # {}
  BY <1>9
<1>12. lev[q] = 1
  BY <1>1, <1>2
<1> QED BY <1>2, <1>3, <1>6, <1>7, <1>10, <1>11, <1>12

(* A leaf that is not merged is not empty, or has no sibling. *)
LEMMA NoMergeHolds ==
    ASSUME NEW T, NEW lev, NEW R, NEW c, NEW rank,
           Holds(nodes, root_page_id, total_pages, step, work, T, lev, R, c, rank),
           NoMerge
    PROVE  Holds(nodes', root_page_id', total_pages', step', work', T, lev, R, c, rank)
<1>1. /\ step = "merge" /\ \A i \in Siblings : Combined(i) > leaf_max_keys
      /\ step' = "idle" /\ work' = Nothing
      /\ nodes' = nodes /\ total_pages' = total_pages /\ root_page_id' = root_page_id
  BY DEF NoMerge, Idle
<1>2. /\ Shape(nodes, root_page_id, total_pages, work.old, T, lev, R, c, rank)
      /\ IsTree(nodes, root_page_id, T, lev, R)
      /\ TypedPages(nodes, total_pages) /\ total_pages \in 0 .. MaxPages /\ root_page_id \in Pages
      /\ work.old \in T /\ lev[work.old] = 0 /\ work.old # root_page_id
      /\ work.parent = nodes[work.old].parent
  BY <1>1, MergeShape
<1> DEFINE q == work.parent
<1>3. /\ q \in T /\ q \in Pages /\ lev[q] = 1
      /\ Len(nodes[q].keys) \in Nat /\ Len(nodes[q].children) = Len(nodes[q].keys) + 1
      /\ \A i \in Siblings :
            /\ i \in 1 .. Len(nodes[q].keys)
            /\ work.old = nodes[q].children[i] \/ work.old = nodes[q].children[i + 1]
      /\ Len(nodes[q].children) > 1 => Siblings # {}
  BY <1>1, SiblingFacts
<1>4. Len(nodes[q].children) > 1 => nodes[work.old].keys # <<>>
  <2> SUFFICES ASSUME Len(nodes[q].children) > 1, nodes[work.old].keys = <<>> PROVE FALSE
    OBVIOUS
  <2>1. PICK i \in Siblings : TRUE
    BY <1>3
  <2> DEFINE a == nodes[q].children[i]
             b == nodes[q].children[i + 1]
  <2>2. Combined(i) > leaf_max_keys /\ Combined(i) = Len(nodes[a].keys) + Len(nodes[b].keys)
    BY <1>1 DEF Combined
  <2>3. i \in 1 .. Len(nodes[q].children) /\ i + 1 \in 1 .. Len(nodes[q].children)
    BY <1>3
  <2>13. lev[q] # 0 /\ q \in T /\ IsTree(nodes, root_page_id, T, lev, R)
    BY <1>2, <1>3
  <2> HIDE DEF q
  <2>4. a \in T /\ lev[a] + 1 = lev[q] /\ lev[a] \in Nat
    <3>1. i \in 1 .. Len(nodes[q].children)
      BY <2>3
    <3> QED BY <2>13, <3>1, ChildFacts
  <2>5. b \in T /\ lev[b] + 1 = lev[q] /\ lev[b] \in Nat
    <3>1. i + 1 \in 1 .. Len(nodes[q].children)
      BY <2>3
    <3> QED BY <2>13, <3>1, ChildFacts
  <2>6. a = work.old \/ b = work.old
    BY <1>3
  <2> HIDE DEF a, b
  <2>7. ASSUME NEW x \in T, lev[x] + 1 = lev[q], lev[x] \in Nat
        PROVE  Len(nodes[x].keys) <= leaf_max_keys /\ Len(nodes[x].keys) \in Nat
    <3>1. lev[x] = 0
      BY <2>7, <1>3
    <3>2. x \in Pages
      BY <1>2, <2>7, RangeFacts
    <3>3. LeafOK(nodes[x], R[x])
      BY <1>2, <2>7, <3>1 DEF IsTree, PageOK
    <3>4. nodes[x].type = "leaf" /\ NodeFits(nodes[x], total_pages, x) /\ nodes[x] \in Node
      BY <1>2, <3>2, <3>3 DEF TypedPages, LeafOK
    <3> QED BY <3>4, RecordOf DEF NodeFits, Room
  <2>8. Len(nodes[work.old].keys) = 0
    OBVIOUS
  <2>9. Len(nodes[a].keys) <= leaf_max_keys /\ Len(nodes[b].keys) <= leaf_max_keys
        /\ Len(nodes[a].keys) \in Nat /\ Len(nodes[b].keys) \in Nat
    BY <2>4, <2>5, <2>7
  <2>10. leaf_max_keys \in Nat
    BY BTreeAssumption
  <2>11. CASE a = work.old
    <3>1. Len(nodes[a].keys) = 0
      BY <2>8, <2>11
    <3> QED BY <2>2, <2>9, <2>10, <3>1
  <2>12. CASE b = work.old
    <3>1. Len(nodes[b].keys) = 0
      BY <2>8, <2>12
    <3> QED BY <2>2, <2>9, <2>10, <3>1
  <2> QED BY <2>6, <2>11, <2>12
<1>5. NonEmpty(nodes, root_page_id, T, lev, INVALID_PAGE_ID)
  <2>1. NonEmpty(nodes, root_page_id, T, lev, work.old)
    BY <1>2 DEF Shape
  <2> QED BY <2>1, <1>2, <1>4 DEF NonEmpty
<1>6. Shape(nodes, root_page_id, total_pages, INVALID_PAGE_ID, T, lev, R, c, rank)
  BY <1>2, <1>5 DEF Shape
<1>7. Holds(nodes, root_page_id, total_pages, "idle", Nothing, T, lev, R, c, rank)
  BY <1>2, <1>6, NothingTyped, HoldsIdle
<1> QED BY <1>1, <1>7

(* The keys of two leaves that follow one another. *)
LEMMA KeysJoined ==
    ASSUME NEW ks \in Seq(Int), Sorted(ks), NEW kt \in Seq(Int), Sorted(kt),
           NEW S, NEW U, \A j \in 1 .. Len(ks) : ks[j] \in S, \A j \in 1 .. Len(kt) : kt[j] \in U,
           Precedes(S, U), NEW ku \in Seq(Int), IsJoined(ks, kt, ku)
    PROVE  Sorted(ku) /\ \A j \in 1 .. Len(ku) : ku[j] \in S \union U
<1> DEFINE m == Len(ks)
           n == Len(kt)
<1>1. m \in Nat /\ n \in Nat /\ Len(ku) = m + n
  BY DEF IsJoined
<1>2. /\ \A j \in 1 .. m : ku[j] = ks[j]
      /\ \A j \in 1 .. n : ku[m + j] = kt[j]
  BY DEF IsJoined
<1> HIDE DEF m, n
<1>3. ASSUME NEW j \in 1 .. m + n
      PROVE  \/ j \in 1 .. m /\ ku[j] = ks[j] /\ ku[j] \in S
             \/ j - m \in 1 .. n /\ ku[j] = kt[j - m] /\ ku[j] \in U /\ j > m
  <2>1. CASE j <= m
    <3>1. j \in 1 .. m
      BY <2>1, <1>1
    <3> QED BY <3>1, <1>2 DEF m
  <2>2. CASE ~(j <= m)
    <3>1. j - m \in 1 .. n /\ m + (j - m) = j /\ j > m
      BY <2>2, <1>1
    <3>2. ku[m + (j - m)] = kt[j - m]
      BY <3>1, <1>2
    <3>3. kt[j - m] \in U
      BY <3>1 DEF n
    <3> QED BY <3>1, <3>2, <3>3
  <2> QED BY <2>1, <2>2
<1>4. ASSUME NEW i \in 1 .. m + n, NEW j \in 1 .. m + n, i < j PROVE ku[i] < ku[j]
  <2>1. CASE j <= m
    <3>1. i \in 1 .. m /\ j \in 1 .. m
      BY <2>1, <1>1, <1>4
    <3>2. ks[i] < ks[j]
      BY <3>1, <1>4 DEF Sorted, m
    <3> QED BY <3>1, <3>2, <1>2
  <2>2. CASE i <= m /\ ~(j <= m)
    <3>1. ku[i] \in S /\ ku[j] \in U
      BY <2>2, <1>1, <1>3
    <3> QED BY <3>1 DEF Precedes
  <2>3. CASE ~(i <= m)
    <3>1. i - m \in 1 .. n /\ j - m \in 1 .. n /\ i - m < j - m
      BY <2>3, <1>1, <1>4
    <3>2. kt[i - m] < kt[j - m]
      BY <3>1 DEF Sorted, n
    <3>3. ku[i] = kt[i - m] /\ ku[j] = kt[j - m]
      <4>1. ~(j <= m) /\ i \in Nat /\ j \in Nat
        BY <2>3, <1>1, <1>4
      <4>2. ku[i] = kt[i - m]
        BY <2>3, <1>3, <1>1
      <4>3. ku[j] = kt[j - m]
        BY <4>1, <1>3, <1>1
      <4> QED BY <4>2, <4>3
    <3> QED BY <3>2, <3>3
  <2> QED BY <2>1, <2>2, <2>3
<1>5. Sorted(ku)
  BY <1>1, <1>4 DEF Sorted
<1> QED BY <1>1, <1>3, <1>5

(* m is n without a key and the child to its right. *)
IsWithoutChild(m, n, i) == m = [n EXCEPT !.keys = RemoveAt(@, i), !.children = RemoveAt(@, i + 1)]

(* What a merge makes of the parent. *)
LEMMA WithoutChildFields ==
    ASSUME NEW n \in Node, Len(n.children) = Len(n.keys) + 1, NEW i \in 1 .. Len(n.keys),
           NEW m, IsWithoutChild(m, n, i)
    PROVE  /\ m \in Node
           /\ m.type = n.type /\ m.parent = n.parent /\ m.next = n.next /\ m.values = n.values
           /\ m.keys \in Seq(Keys) /\ IsRemoved(n.keys, i, m.keys)
           /\ m.children \in Seq(Pages) /\ IsRemoved(n.children, i + 1, m.children)
<1> DEFINE ks == RemoveAt(n.keys, i)
           cs == RemoveAt(n.children, i + 1)
<1>1. n.keys \in Seq(Keys) /\ n.children \in Seq(Pages) /\ Len(n.keys) \in Nat
  BY RecordOf
<1>2. ks \in Seq(Keys) /\ IsRemoved(n.keys, i, ks)
  BY <1>1, RemovedAt
<1>3. cs \in Seq(Pages) /\ IsRemoved(n.children, i + 1, cs)
  <2>1. i + 1 \in 1 .. Len(n.children)
    BY <1>1
  <2> QED BY <2>1, <1>1, RemovedAt
<1>4. m = [n EXCEPT !.keys = ks, !.children = cs]
  BY DEF IsWithoutChild
<1> HIDE DEF ks, cs
<1>5. m \in Node
  BY <1>2, <1>3, <1>4 DEF Node
<1>6. m.keys = ks /\ m.children = cs
  BY <1>4 DEF Node
<1>7. m.type = n.type /\ m.parent = n.parent /\ m.next = n.next /\ m.values = n.values
  BY <1>4 DEF Node
<1> QED BY <1>2, <1>3, <1>5, <1>6, <1>7

(* The entries of the leaf b go to the leaf a, and b is no leaf any more. *)
LeavesMerged(V, W, T, lev, U, l, a, b) ==
    /\ IsLeaf(T, lev, a) /\ IsLeaf(T, lev, b) /\ a # b /\ a \in Pages
    /\ \A x \in Pages : IsLeaf(U, l, x) <=> IsLeaf(T, lev, x) /\ x # b
    /\ IsJoined(V[a].keys, V[b].keys, W[a].keys)
    /\ IsJoined(V[a].values, V[b].values, W[a].values)
    /\ \A x \in Pages : IsLeaf(T, lev, x) /\ x # a => W[x] = V[x]

(* A merge keeps the invariant. *)
LEMMA MergeLeafHolds ==
    ASSUME NEW T, NEW lev, NEW R, NEW c, NEW rank,
           Holds(nodes, root_page_id, total_pages, step, work, T, lev, R, c, rank),
           MergeLeaf
    PROVE  \E U, S, d, a, b :
              /\ Holds(nodes', root_page_id', total_pages', step', work', U, lev, S, d, rank)
              /\ LeavesMerged(nodes, nodes', T, lev, U, lev, a, b)
<1> DEFINE q == work.parent
           cs == nodes[q].children
<1>1. /\ step = "merge"
      /\ step' = "idle" /\ work' = Nothing
      /\ total_pages' = total_pages /\ root_page_id' = root_page_id
  BY DEF MergeLeaf, Idle
<1>2. PICK i \in Siblings :
        /\ Combined(i) <= leaf_max_keys
        /\ nodes' = [nodes EXCEPT
              ![cs[i]] = Merged(@, nodes[cs[i + 1]]),
              ![q].keys = RemoveAt(@, i),
              ![q].children = RemoveAt(@, i + 1)]
  BY DEF MergeLeaf
<1>3. /\ Shape(nodes, root_page_id, total_pages, work.old, T, lev, R, c, rank)
      /\ IsTree(nodes, root_page_id, T, lev, R)
      /\ TypedPages(nodes, total_pages) /\ total_pages \in 0 .. MaxPages /\ root_page_id \in Pages
  BY <1>1, MergeShape
<1>4. /\ q \in T /\ q \in Pages /\ lev[q] = 1
      /\ Len(nodes[q].keys) \in Nat /\ Len(nodes[q].children) = Len(nodes[q].keys) + 1
      /\ i \in 1 .. Len(nodes[q].keys)
      /\ work.old = nodes[q].children[i] \/ work.old = nodes[q].children[i + 1]
  BY <1>1, SiblingFacts
<1> DEFINE a == cs[i]
           b == cs[i + 1]
<1>5. lev[q] # 0 /\ i \in 1 .. Len(cs) /\ i + 1 \in 1 .. Len(cs)
  BY <1>4
<1>6. Len(nodes[a].keys) + Len(nodes[b].keys) <= leaf_max_keys
  BY <1>2 DEF Combined
<1>7. /\ a \in T /\ a # q /\ a # root_page_id /\ lev[a] + 1 = lev[q] /\ lev[a] \in Nat
      /\ \A x \in Int : x \in R[a] <=> (x \in R[q] /\ Between(nodes[q].keys, i, x))
      /\ nodes[q].keys \in Seq(Int) /\ Sorted(nodes[q].keys)
  <2> HIDE DEF q
  <2>1. /\ cs[i] \in T /\ cs[i] # q /\ cs[i] # root_page_id
        /\ lev[cs[i]] + 1 = lev[q] /\ lev[cs[i]] \in Nat
        /\ \A x \in Int : x \in R[cs[i]] <=> (x \in R[q] /\ Between(nodes[q].keys, i, x))
        /\ nodes[q].keys \in Seq(Int) /\ Sorted(nodes[q].keys)
    BY <1>3, <1>4, <1>5, ChildFacts
  <2> QED BY <2>1
<1>8. /\ b \in T /\ b # q /\ b # root_page_id /\ lev[b] + 1 = lev[q] /\ lev[b] \in Nat
      /\ \A x \in Int : x \in R[b] <=> (x \in R[q] /\ Between(nodes[q].keys, i + 1, x))
  <2> DEFINE j == i + 1
  <2>1. j \in 1 .. Len(cs)
    BY <1>5
  <2> HIDE DEF q, j
  <2>2. /\ cs[j] \in T /\ cs[j] # q /\ cs[j] # root_page_id
        /\ lev[cs[j]] + 1 = lev[q] /\ lev[cs[j]] \in Nat
        /\ \A x \in Int : x \in R[cs[j]] <=> (x \in R[q] /\ Between(nodes[q].keys, j, x))
    <3>1. IsTree(nodes, root_page_id, T, lev, R) /\ q \in T /\ lev[q] # 0
      BY <1>3, <1>4, <1>5
    <3> QED BY <2>1, <3>1, ChildFacts
  <2> QED BY <2>2 DEF j
<1>9. a # b
  <2> SUFFICES ASSUME cs[i] = cs[i + 1] PROVE FALSE
    OBVIOUS
  <2> HIDE DEF q, a, b
  <2>1. i = i + 1
    BY <1>3, <1>4, <1>5, ChildOnce
  <2> QED BY <2>1, <1>4
<1>10. lev[a] = 0 /\ lev[b] = 0 /\ a \in Pages /\ b \in Pages
  <2> HIDE DEF q, a, b
  <2>1. a \in Pages
    BY <1>3, <1>7, RangeFacts
  <2>2. b \in Pages
    BY <1>3, <1>8, RangeFacts
  <2> QED BY <2>1, <2>2, <1>4, <1>7, <1>8
<1> DEFINE m == Merged(nodes[a], nodes[b])
           mq == [nodes[q] EXCEPT !.keys = RemoveAt(@, i), !.children = RemoveAt(@, i + 1)]
<1>11. nodes \in [Pages -> Node]
  BY <1>3 DEF TypedPages
<1>12. /\ nodes'[a] = m /\ nodes'[q] = mq
       /\ \A x \in Pages \ {a, q} : nodes'[x] = nodes[x]
       /\ nodes' = [x \in Pages |-> nodes'[x]]
  BY <1>2, <1>4, <1>7, <1>10, <1>11
<1>13. nodes[a] \in Node /\ nodes[b] \in Node /\ nodes[q] \in Node
  BY <1>4, <1>10, <1>11
<1>14. IsWithoutChild(mq, nodes[q], i)
  BY DEF IsWithoutChild
<1>15. /\ NodeFits(nodes[a], total_pages, a) /\ NodeFits(nodes[b], total_pages, b)
       /\ NodeFits(nodes[q], total_pages, q)
  BY <1>3, <1>4, <1>10 DEF TypedPages
<1> HIDE DEF m, mq
<1>16. /\ m \in Node
       /\ m.type = nodes[a].type /\ m.parent = nodes[a].parent /\ m.next = nodes[b].next
       /\ m.children = nodes[a].children
       /\ m.keys \in Seq(Keys) /\ IsJoined(nodes[a].keys, nodes[b].keys, m.keys)
       /\ m.values \in Seq(Values) /\ IsJoined(nodes[a].values, nodes[b].values, m.values)
  <2> HIDE DEF a, b
  <2>1. m = Merged(nodes[a], nodes[b])
    BY DEF m
  <2> QED BY <2>1, <1>13, MergedFields
<1> HIDE DEF a, b, q
<1>17. /\ mq \in Node
       /\ mq.type = nodes[q].type /\ mq.parent = nodes[q].parent /\ mq.next = nodes[q].next
       /\ mq.values = nodes[q].values
       /\ mq.keys \in Seq(Keys) /\ IsRemoved(nodes[q].keys, i, mq.keys)
       /\ mq.children \in Seq(Pages) /\ IsRemoved(nodes[q].children, i + 1, mq.children)
  BY <1>4, <1>13, <1>14, WithoutChildFields
<1>18. /\ LeafOK(nodes[a], R[a]) /\ LeafOK(nodes[b], R[b])
  BY <1>3, <1>7, <1>8, <1>10 DEF IsTree, PageOK
<1>19. Precedes(R[a], R[b])
  <2> SUFFICES ASSUME NEW x \in R[a], NEW y \in R[b] PROVE x < y
    BY DEF Precedes
  <2>1. x \in Int /\ y \in Int
    BY <1>3, <1>7, <1>8, RangeFacts
  <2>2. Between(nodes[q].keys, i, x) /\ Between(nodes[q].keys, i + 1, y)
    BY <2>1, <1>7, <1>8
  <2>3. x < nodes[q].keys[i]
    BY <2>2, <1>4 DEF Between
  <2>4. nodes[q].keys[i] <= y
    <3>1. i + 1 > 1 /\ (i + 1) - 1 = i
      BY <1>4
    <3> QED BY <2>2, <3>1 DEF Between
  <2>5. nodes[q].keys[i] \in Int
    BY <1>4, <1>7
  <2> QED BY <2>1, <2>3, <2>4, <2>5
<1>20. LeafOK(m, R[a] \union R[b])
  <2>1. m.keys \in Seq(Int)
    BY <1>16, KeysAreNumbers
  <2>2. /\ nodes[a].keys \in Seq(Int) /\ Sorted(nodes[a].keys)
        /\ \A j \in 1 .. Len(nodes[a].keys) : nodes[a].keys[j] \in R[a]
        /\ nodes[b].keys \in Seq(Int) /\ Sorted(nodes[b].keys)
        /\ \A j \in 1 .. Len(nodes[b].keys) : nodes[b].keys[j] \in R[b]
    BY <1>18 DEF LeafOK
  <2>3. Sorted(m.keys) /\ \A j \in 1 .. Len(m.keys) : m.keys[j] \in R[a] \union R[b]
    BY <2>1, <2>2, <1>16, <1>19, KeysJoined
  <2>4. m.type = "leaf" /\ m.children = <<>>
    BY <1>16, <1>18 DEF LeafOK
  <2> QED BY <2>1, <2>3, <2>4 DEF LeafOK
<1>21. a = nodes[q].children[i] /\ b = nodes[q].children[i + 1]
  BY DEF a, b
<1>22. IsMerge(nodes, nodes', T, lev, R, q, i, a, b)
  <2>1. mq.keys \in Seq(Int)
    BY <1>17, KeysAreNumbers
  <2>2. \A x \in Pages \ {q} :
          nodes'[x].type = nodes[x].type /\ nodes'[x].parent = nodes[x].parent
          /\ nodes'[x].children = nodes[x].children
    BY <1>12, <1>16
  <2>3. \A x \in Pages \ {q, a} : nodes'[x].keys = nodes[x].keys
    BY <1>12
  <2> QED BY <2>1, <2>2, <2>3, <1>4, <1>5, <1>10, <1>12, <1>17, <1>20, <1>21 DEF IsMerge
<1>23. /\ IsChain(nodes, T, lev, R, c) /\ Ranked(nodes, total_pages, rank)
       /\ NonEmpty(nodes, root_page_id, T, lev, work.old)
  BY <1>3 DEF Shape
<1> DEFINE U == T \ {b}
           S == MergeRange(R, a, b)
<1>24. IsTree(nodes', root_page_id, U, lev, S)
  BY <1>3, <1>22, MergeTree
<1>25. nodes'[a].next = nodes[b].next /\ \A x \in Pages \ {a} : nodes'[x].next = nodes[x].next
  BY <1>12, <1>16, <1>17
<1>26. \E d : \E e \in 1 .. Len(c) - 1 :
              /\ IsChain(nodes', U, lev, S, d)
              /\ c[e] = a /\ c[e + 1] = b /\ IsRemoved(c, e + 1, d)
  <2>1. nodes'[a].next = nodes[b].next
    BY <1>25
  <2>2. \A x \in Pages \ {a} : nodes'[x].next = nodes[x].next
    BY <1>25
  <2>3. IsTree(nodes, root_page_id, T, lev, R) /\ IsChain(nodes, T, lev, R, c)
    BY <1>3, <1>23
  <2>4. \E d : \E e \in 1 .. Len(c) - 1 :
              /\ IsChain(nodes', T \ {b}, lev, MergeRange(R, a, b), d)
              /\ c[e] = a /\ c[e + 1] = b /\ IsRemoved(c, e + 1, d)
    <3>1. ChainWithout(nodes', T, lev, R, c, a, b)
      BY <2>1, <2>2, <2>3, <1>22, ChainMerged
    <3> QED BY <3>1 DEF ChainWithout
  <2> QED BY <2>4
<1>27. nodes[a].next = b
  <2>1. PICK e \in 1 .. Len(c) - 1 : c[e] = a /\ c[e + 1] = b
    BY <1>26
  <2>2. Len(c) \in Nat
    BY <1>23 DEF IsChain
  <2>3. e \in 1 .. Len(c) /\ e # Len(c)
    BY <2>2
  <2>4. nodes[c[e]].next = IF e = Len(c) THEN INVALID_PAGE_ID ELSE c[e + 1]
    BY <1>23, <2>3 DEF IsChain
  <2> QED BY <2>1, <2>3, <2>4
<1>28. Ranked(nodes', total_pages, rank)
  BY <1>10, <1>23, <1>25, <1>27, RankedMerged
<1>29. NonEmpty(nodes', root_page_id, U, lev, INVALID_PAGE_ID)
  <2>1. work.old = a \/ work.old = b
    BY <1>4, <1>21
  <2>2. nodes[a].keys # <<>> \/ nodes[b].keys # <<>> => nodes'[a].keys # <<>>
    <3>1. Len(m.keys) = Len(nodes[a].keys) + Len(nodes[b].keys)
      BY <1>16 DEF IsJoined
    <3>2. nodes[a].keys \in Seq(Keys) /\ nodes[b].keys \in Seq(Keys) /\ m.keys \in Seq(Keys)
      BY <1>13, <1>16, RecordOf
    <3>3. Len(nodes[a].keys) \in Nat /\ Len(nodes[b].keys) \in Nat
      BY <3>2
    <3>4. nodes[a].keys # <<>> => Len(nodes[a].keys) > 0
      BY <3>2
    <3>5. nodes[b].keys # <<>> => Len(nodes[b].keys) > 0
      BY <3>2
    <3>6. m.keys = <<>> => Len(m.keys) = 0
      OBVIOUS
    <3> DEFINE la == Len(nodes[a].keys)
               lb == Len(nodes[b].keys)
               lm == Len(m.keys)
    <3>7. nodes'[a].keys = m.keys
      BY <1>12
    <3>8. lm = la + lb /\ la \in Nat /\ lb \in Nat
      BY <3>1, <3>3
    <3>9. (nodes[a].keys # <<>> => la > 0) /\ (nodes[b].keys # <<>> => lb > 0)
          /\ (m.keys = <<>> => lm = 0)
      BY <3>4, <3>5, <3>6
    <3> HIDE DEF la, lb, lm
    <3>10. nodes[a].keys # <<>> \/ nodes[b].keys # <<>> => lm # 0
      BY <3>8, <3>9
    <3> QED BY <3>7, <3>9, <3>10
  <2> QED BY <2>1, <2>2, <1>3, <1>22, <1>23, NonEmptyMerged
<1> HIDE DEF U, S
<1>30. PICK d : IsChain(nodes', U, lev, S, d)
  BY <1>26
<1>31. Shape(nodes', root_page_id, total_pages, INVALID_PAGE_ID, U, lev, S, d, rank)
  BY <1>24, <1>28, <1>29, <1>30 DEF Shape
<1>32. TypedPages(nodes', total_pages)
  <2>1. NodeFits(m, total_pages, a)
    <3>1. nodes[a].type = "leaf" /\ nodes[b].type = "leaf"
      BY <1>18 DEF LeafOK
    <3>2. Len(nodes[a].values) = Len(nodes[a].keys) /\ Len(nodes[b].values) = Len(nodes[b].keys)
      BY <1>15, <3>1 DEF NodeFits
    <3>3. Len(m.keys) = Len(nodes[a].keys) + Len(nodes[b].keys)
          /\ Len(m.values) = Len(nodes[a].values) + Len(nodes[b].values)
      BY <1>16 DEF IsJoined
    <3>4. Len(m.keys) <= leaf_max_keys /\ Len(m.values) = Len(m.keys)
      BY <3>2, <3>3, <1>6
    <3>5. m.type = "leaf"
      BY <3>1, <1>16
    <3>6. ~(a >= total_pages)
      BY <1>15, <3>1 DEF NodeFits
    <3> QED BY <3>4, <3>5, <3>6 DEF NodeFits, Room
  <2>2. NodeFits(mq, total_pages, q)
    <3>1. nodes[q].type = "internal"
      BY <1>3, <1>4, <1>5, LeafType
    <3>2. Len(mq.keys) = Len(nodes[q].keys) - 1 /\ Len(mq.children) = Len(nodes[q].children) - 1
      BY <1>17 DEF IsRemoved
    <3>3. Len(nodes[q].keys) <= internal_max_keys /\ internal_max_keys \in Nat
      BY <1>15, <3>1, BTreeAssumption DEF NodeFits, Room
    <3>4. Len(mq.keys) <= internal_max_keys /\ Len(mq.children) = Len(mq.keys) + 1
      BY <3>2, <3>3, <1>4
    <3>5. ~(q >= total_pages)
      BY <1>15, <3>1 DEF NodeFits
    <3> QED BY <3>1, <3>4, <3>5, <1>17 DEF NodeFits, Room
  <2>3. \A x \in Pages : nodes'[x] \in Node /\ NodeFits(nodes'[x], total_pages, x)
    <3> TAKE x \in Pages
    <3>1. CASE x = a
      BY <3>1, <2>1, <1>12, <1>16
    <3>2. CASE x = q
      BY <3>2, <2>2, <1>12, <1>17
    <3>3. CASE x # a /\ x # q
      BY <3>3, <1>3, <1>12 DEF TypedPages
    <3> QED BY <3>1, <3>2, <3>3
  <2>4. nodes' \in [Pages -> Node]
    BY <2>3, <1>12
  <2> QED BY <2>3, <2>4 DEF TypedPages
<1>33. Holds(nodes', root_page_id, total_pages, "idle", Nothing, U, lev, S, d, rank)
  BY <1>3, <1>31, <1>32, NothingTyped, HoldsIdle
<1>34. LeavesMerged(nodes, nodes', T, lev, U, lev, a, b)
  <2>1. \A x \in Pages : IsLeaf(U, lev, x) <=> IsLeaf(T, lev, x) /\ x # b
    BY DEF U, IsLeaf
  <2>2. \A x \in Pages : IsLeaf(T, lev, x) /\ x # a => nodes'[x] = nodes[x]
    BY <1>5, <1>12 DEF IsLeaf
  <2> QED BY <2>1, <2>2, <1>7, <1>8, <1>9, <1>10, <1>12, <1>16 DEF LeavesMerged, IsLeaf
<1>35. Holds(nodes', root_page_id', total_pages', step', work', U, lev, S, d, rank)
  BY <1>1, <1>33
<1> QED BY <1>34, <1>35

(* A split leaves the rest of the climb. *)
LEMMA CutHolds ==
    ASSUME NEW V, NEW N, NEW r \in Pages, NEW used \in Pages,
           NEW T, NEW lev, NEW R, NEW c, NEW rank,
           Shape(V, r, used, INVALID_PAGE_ID, T, lev, R, c, rank),
           NEW p, NEW key \in Keys, IsCut(V, N, T, lev, R, p, key, used),
           TypedPages(N, used + 1), p < used, used + 1 \notin T,
           V[p].parent = INVALID_PAGE_ID => used + 1 < MaxPages,
           V[p].parent # INVALID_PAGE_ID => used + lev[r] - lev[p] + 2 <= MaxPages,
           NEW w, w.old = p, w.key = key, w.new = used, w.parent = V[p].parent
    PROVE  \E U, l, S, d, rk :
              /\ Holds(N, r, used + 1, "parent", w, U, l, S, d, rk)
              /\ LeavesCut(T, lev, U, l, p, used)
<1> DEFINE f == used + 1
<1>1. IsTree(V, r, T, lev, R)
  BY DEF Shape
<1>2. p \in T /\ used \in Pages \ T
  BY DEF IsCut
<1>3. /\ p \in Pages /\ p # used /\ lev[p] \in Nat /\ lev[r] \in Nat /\ lev[p] <= lev[r]
  BY <1>1, <1>2, RangeFacts
<1>4. N \in [Pages -> Node]
  BY DEF TypedPages
<1>5. used \in Nat /\ MaxPages \in Nat /\ used < MaxPages
  BY BTreeAssumption DEF Pages
<1>6. f \in 0 .. MaxPages /\ p < f /\ used < f
  BY <1>3, <1>5 DEF Pages
<1>7. WithWork(N, "parent", w, f) = Attached(N, w, f) /\ Waiting("parent", w) = INVALID_PAGE_ID
  BY DEF WithWork, Waiting
<1>8. V[p].parent \in PageIds
  <2>1. N[p] \in Node /\ N[p].parent = V[p].parent
    BY <1>3, <1>4 DEF IsCut
  <2> QED BY <2>1, RecordOf
<1>9. WorkTyped("parent", w)
  BY <1>3, <1>8 DEF WorkTyped, PageIds
<1>10. CASE V[p].parent = INVALID_PAGE_ID
  <2>1. used + 1 < MaxPages
    BY <1>10
  <2>2. f \in Pages \ T /\ f # used
    BY <2>1, <1>5 DEF Pages
  <2> HIDE DEF f
  <2>3. p # f
    BY <1>2, <2>2
  <2>4. GetsRoot(N, Attached(N, w, f), w.old, w.key, w.new, f)
    BY <1>3, <1>4, <1>10, <2>2, <2>3, NewRootMade
  <2>5. GetsRoot(N, Attached(N, w, f), p, key, used, f)
    BY <2>4
  <2>6. \E U, l, S, d, rk :
              /\ Shape(Attached(N, w, f), f, used + 1, INVALID_PAGE_ID, U, l, S, d, rk)
              /\ LeavesCut(T, lev, U, l, p, used)
    BY <1>4, <1>10, <2>2, <2>5, CutRoot
  <2>7. PICK U, l, S, d, rk :
              /\ Shape(Attached(N, w, f), f, used + 1, INVALID_PAGE_ID, U, l, S, d, rk)
              /\ LeavesCut(T, lev, U, l, p, used)
    BY <2>6
  <2>8. RootWith(r, "parent", w, f) = f
    BY <1>10 DEF RootWith
  <2>9. ClimbOK(r, f, w, U, l)
    BY <1>3, <1>6, <1>10, <2>1 DEF ClimbOK, f
  <2>10. f = used + 1
    BY DEF f
  <2>11. Holds(N, r, f, "parent", w, U, l, S, d, rk)
    BY <1>6, <1>7, <1>9, <2>7, <2>8, <2>9, <2>10 DEF Holds
  <2> QED BY <2>7, <2>10, <2>11
<1>11. CASE V[p].parent # INVALID_PAGE_ID
  <2> DEFINE q == V[p].parent
             W == [N EXCEPT ![V[p].parent] = WithChild(N[V[p].parent], key, used)]
  <2>1. Attached(N, w, f) = W
    BY <1>11 DEF Attached
  <2>0. IsPut(W, N, V[p].parent, WithChild(N[V[p].parent], key, used))
    BY DEF IsPut
  <2> HIDE DEF W
  <2>2. CutGives(W, r, used, T, lev, p, V[p].parent)
    BY <1>4, <1>11, <2>0, CutUnder
  <2>3. PICK U, l, S, d, rk :
              /\ Shape(W, r, used + 1, INVALID_PAGE_ID, U, l, S, d, rk)
              /\ LeavesCut(T, lev, U, l, p, used)
              /\ V[p].parent \in U /\ l[V[p].parent] = lev[p] + 1 /\ l[r] = lev[r]
    BY <2>2 DEF CutGives
  <2>4. RootWith(r, "parent", w, f) = r
    BY <1>11 DEF RootWith
  <2>5. ClimbOK(r, f, w, U, l)
    <3>1. l[w.parent] = lev[p] + 1 /\ l[w.parent] # 0 /\ w.parent \in U
      BY <2>3, <1>3
    <3>2. used + lev[r] - lev[p] + 2 <= MaxPages
      BY <1>11
    <3>3. used + 1 + l[r] - l[w.parent] + 2 <= MaxPages
      BY <3>1, <3>2, <2>3, <1>3, <1>5
    <3> QED BY <3>1, <3>3, <1>3, <1>6, <1>11 DEF ClimbOK
  <2>6. Holds(N, r, used + 1, "parent", w, U, l, S, d, rk)
    BY <1>6, <1>7, <1>9, <2>1, <2>3, <2>4, <2>5 DEF Holds
  <2> QED BY <2>3, <2>6
<1> QED BY <1>10, <1>11

(* The parts of a leaf that is cut. *)
LeafHalves(n, S, mid, left, right, key) ==
    /\ key = n.keys[mid + 1] /\ key \in S /\ key \in Int /\ \E x \in S : x < key
    /\ LeafOK(left, Below(S, key)) /\ LeafOK(right, NotBelow(S, key))
    /\ Len(left.keys) = mid /\ Len(right.keys) = Len(n.keys) - mid
    /\ left.keys # <<>> /\ right.keys # <<>>

(* The two halves of a leaf are leaves, and the first key of the right one  *)
(* parts their ranges. *)
LEMMA LeafParted ==
    ASSUME NEW n, NEW S, LeafOK(n, S), NEW mid \in Nat, mid >= 1, mid < Len(n.keys),
           NEW left, left.type = n.type, left.children = n.children,
           left.keys \in Seq(Int), IsPart(n.keys, 0, mid, left.keys),
           NEW right, right.type = n.type, right.children = n.children,
           right.keys \in Seq(Int), IsPart(n.keys, mid, Len(n.keys) - mid, right.keys)
    PROVE  LeafHalves(n, S, mid, left, right, right.keys[1])
<1> DEFINE ks == n.keys
           m == Len(ks)
           key == ks[mid + 1]
<1>1. /\ ks \in Seq(Int) /\ Sorted(ks) /\ n.type = "leaf" /\ n.children = <<>>
      /\ \A j \in 1 .. m : ks[j] \in S
  BY DEF LeafOK
<1>2. m \in Nat /\ mid < m
  BY <1>1
<1>3. /\ Len(left.keys) = mid /\ \A j \in 1 .. mid : left.keys[j] = ks[0 + j]
      /\ Len(right.keys) = m - mid /\ \A j \in 1 .. m - mid : right.keys[j] = ks[mid + j]
  BY DEF IsPart
<1>4. \A j \in 1 .. m : ks[j] \in Int
  BY <1>1
<1>5. 1 \in 1 .. m - mid /\ mid + 1 \in 1 .. m /\ 1 \in 1 .. m /\ 1 < mid + 1
  BY <1>2
<1>6. right.keys[1] = key /\ key \in S /\ key \in Int /\ ks[1] \in S /\ ks[1] < key
  BY <1>1, <1>3, <1>4, <1>5 DEF Sorted
<1> HIDE DEF ks, m, key
<1>7. Sorted(left.keys)
  <2>1. mid + 0 <= Len(ks) /\ 0 \in Nat /\ 0 + mid <= Len(ks)
    BY <1>2 DEF m
  <2>2. IsPart(ks, 0, mid, left.keys)
    BY DEF ks
  <2> QED BY <1>1, <2>1, <2>2, PartSorted
<1>8. Sorted(right.keys)
  <2>1. m - mid \in Nat /\ mid + (m - mid) <= Len(ks)
    BY <1>2 DEF m
  <2>2. IsPart(ks, mid, m - mid, right.keys)
    BY DEF ks, m
  <2> HIDE DEF m
  <2> QED BY <1>1, <2>1, <2>2, PartSorted
<1>9. ASSUME NEW j \in 1 .. mid PROVE left.keys[j] \in Below(S, key)
  <2>1. j \in 1 .. m /\ j < mid + 1 /\ 0 + j = j
    BY <1>2
  <2>2. left.keys[j] = ks[j]
    BY <2>1, <1>3
  <2>3. ks[j] < key
    BY <2>1, <1>1, <1>5 DEF Sorted, key, m
  <2> QED BY <2>1, <2>2, <2>3, <1>1 DEF Below
<1>10. ASSUME NEW j \in 1 .. m - mid PROVE right.keys[j] \in NotBelow(S, key)
  <2>1. mid + j \in 1 .. m /\ (j = 1 \/ mid + 1 < mid + j)
    BY <1>2
  <2>2. right.keys[j] = ks[mid + j]
    BY <1>3
  <2>3. ~(ks[mid + j] < key)
    <3>1. CASE j = 1
      BY <3>1, <1>6 DEF key
    <3>2. CASE mid + 1 < mid + j
      <4>1. key < ks[mid + j]
        BY <3>2, <2>1, <1>1, <1>5 DEF Sorted, key, m
      <4> QED BY <4>1, <2>1, <1>4, <1>6
    <3> QED BY <2>1, <3>1, <3>2
  <2> QED BY <2>1, <2>2, <2>3, <1>1 DEF NotBelow
<1>11. LeafOK(left, Below(S, key))
  BY <1>1, <1>3, <1>7, <1>9 DEF LeafOK
<1>12. LeafOK(right, NotBelow(S, key))
  BY <1>1, <1>3, <1>8, <1>10 DEF LeafOK
<1>13. left.keys # <<>> /\ right.keys # <<>>
  <2>1. Len(<<>>) = 0 /\ mid # 0 /\ m - mid # 0
    BY <1>2
  <2> QED BY <2>1, <1>3
<1> QED BY <1>3, <1>6, <1>11, <1>12, <1>13 DEF key, ks, m, LeafHalves

(* The pages of the tree are allocated. *)
LEMMA TreeIsAllocated ==
    ASSUME NEW V, NEW used \in Nat, TypedPages(V, used),
           NEW r, NEW T, NEW lev, NEW R, IsTree(V, r, T, lev, R), NEW x \in T
    PROVE  x < used
<1>1. x \in Pages /\ PageOK(V, r, T, lev, R, x)
  BY DEF IsTree
<1>2. V[x].type # "none"
  BY <1>1 DEF PageOK, LeafOK, InnerOK
<1>3. NodeFits(V[x], used, x)
  BY <1>1 DEF TypedPages
<1>4. ~(x >= used)
  BY <1>2, <1>3 DEF NodeFits
<1> QED BY <1>4, <1>1, BTreeAssumption DEF Pages, TypedPages

IsPutTwice(W, V, p, m, q, n) == W = [[V EXCEPT ![p] = m] EXCEPT ![q] = n]

(* What is written to the next free page is well typed. *)
LEMMA NewPageTyped ==
    ASSUME NEW V, NEW used \in Pages, TypedPages(V, used), NEW p \in Pages, p < used,
           NEW m \in Node, NodeFits(m, used, p), NEW n \in Node, n.type # "none",
           NodeFits(n, used + 1, used), NEW W, IsPutTwice(W, V, p, m, used, n)
    PROVE  TypedPages(W, used + 1) /\ W[p] = m /\ W[used] = n /\ \A x \in Pages \ {p, used} : W[x] = V[x]
<1>1. V \in [Pages -> Node] /\ \A x \in Pages : NodeFits(V[x], used, x)
  BY DEF TypedPages
<1>2. p # used /\ p \in Nat /\ used \in Nat
  BY BTreeAssumption DEF Pages
<1>3. W \in [Pages -> Node] /\ W[p] = m /\ W[used] = n /\ \A x \in Pages \ {p, used} : W[x] = V[x]
  BY <1>1, <1>2 DEF IsPutTwice
<1>4. ASSUME NEW x \in Pages PROVE NodeFits(W[x], used + 1, x)
  <2>1. CASE x = used
    BY <2>1, <1>3
  <2>2. CASE x # used
    <3>1. NodeFits(W[x], used, x)
      BY <2>2, <1>1, <1>3
    <3>2. x >= used <=> x >= used + 1
      BY <2>2, <1>2 DEF Pages
    <3> QED BY <3>1, <3>2 DEF NodeFits
  <2> QED BY <2>1, <2>2
<1> QED BY <1>3, <1>4 DEF TypedPages

(* A leaf and the new page beside it are the tree that waits for the parent. *)
LEMMA NewLeafCut ==
    ASSUME NEW V, NEW N, NEW T, NEW lev, NEW R, NEW p \in T, NEW key, NEW new \in Pages \ T, lev[p] = 0,
           key \in Int, key \in R[p], \E x \in R[p] : x < key,
           LeafOK(N[p], Below(R[p], key)), LeafOK(N[new], NotBelow(R[p], key)),
           N[p].keys # <<>>, N[new].keys # <<>>, N[p].next = new, N[new].next = V[p].next,
           N[p].parent = V[p].parent, N[new].parent = V[p].parent,
           \A x \in Pages \ {p, new} : N[x] = V[x]
    PROVE  IsCut(V, N, T, lev, R, p, key, new)
<1>1. N[new].children = <<>>
  BY DEF LeafOK
<1>2. Len(<<>>) = 0 /\ 1 .. 0 = {}
  OBVIOUS
<1>3. \A x : ~IsChild(N[new], x)
  BY <1>1, <1>2 DEF IsChild
<1>4. \A x \in Pages \ {p, new} :
          /\ N[x].type = V[x].type /\ N[x].keys = V[x].keys /\ N[x].children = V[x].children
          /\ N[x].parent = IF IsChild(N[new], x) THEN new ELSE V[x].parent
          /\ N[x].next = V[x].next
  BY <1>3
<1> QED BY <1>4 DEF IsCut

(* What the split of a leaf makes of it. *)
LEMMA SplitLeafFacts ==
    ASSUME NEW T, NEW lev, NEW R, NEW c, NEW rank, NEW k \in Keys, NEW v \in CTIDs[k],
           Holds(nodes, root_page_id, total_pages, step, work, T, lev, R, c, rank),
           SplitLeaf(k, v)
    PROVE  LET p == FindLeafPage(k)
               all == WithEntry(nodes[p], k, v)
               mid == Len(nodes[p].keys) \div 2
               left == LeftHalf(all, mid)
               right == RightHalf(all, mid) IN
           /\ total_pages \in Pages /\ p < total_pages
           /\ total_pages + lev[root_page_id] + 2 <= MaxPages /\ total_pages + 1 < MaxPages
           /\ all \in Node /\ Len(all.keys) = Len(nodes[p].keys) + 1 /\ Len(all.values) = Len(all.keys)
           /\ mid \in Nat /\ mid >= 1 /\ mid < Len(all.keys)
           /\ left \in Node /\ right \in Node
           /\ Len(left.keys) <= leaf_max_keys /\ Len(left.values) = Len(left.keys)
           /\ Len(right.keys) <= leaf_max_keys /\ Len(right.values) = Len(right.keys)
           /\ left.parent = nodes[p].parent /\ right.parent = nodes[p].parent
           /\ left.next = total_pages /\ right.next = nodes[p].next
           /\ left.type = "leaf" /\ right.type = "leaf"
           /\ right.keys[1] \in R[p] /\ right.keys[1] \in Keys /\ \E x \in R[p] : x < right.keys[1]
           /\ LeafOK(left, Below(R[p], right.keys[1])) /\ LeafOK(right, NotBelow(R[p], right.keys[1]))
           /\ left.keys # <<>> /\ right.keys # <<>>
           /\ IsPart(all.keys, 0, mid, left.keys) /\ IsPart(all.values, 0, mid, left.values)
           /\ IsPart(all.keys, mid, Len(all.keys) - mid, right.keys)
           /\ IsPart(all.values, mid, Len(all.keys) - mid, right.values)
<1> DEFINE p == FindLeafPage(k)
           n == nodes[p]
           all == WithEntry(n, k, v)
           mid == Len(n.keys) \div 2
           left == LeftHalf(all, mid)
           right == RightHalf(all, mid)
<1>1. /\ step = "idle" /\ ~Has(n.keys, k) /\ Len(n.keys) >= leaf_max_keys
      /\ total_pages + Height(p) < MaxPages
  BY DEF SplitLeaf
<1>2. /\ Shape(nodes, root_page_id, total_pages, INVALID_PAGE_ID, T, lev, R, c, rank)
      /\ IsTree(nodes, root_page_id, T, lev, R)
      /\ TypedPages(nodes, total_pages) /\ total_pages \in Nat /\ root_page_id \in T
  BY <1>1, IdleShape
<1>3. /\ p \in T /\ p \in Pages /\ lev[p] = 0 /\ k \in R[p] /\ k \in Int
      /\ LeafOK(n, R[p]) /\ n \in Node /\ NodeFits(n, total_pages, p) /\ n.type = "leaf"
  BY <1>1, LeafAt
<1>4. Len(n.values) = Len(n.keys) /\ Len(n.keys) <= leaf_max_keys
  BY <1>3 DEF NodeFits, Room
<1>5. v \in Values
  BY ValueOf
<1>6. Height(p) = lev[root_page_id] - lev[p] + 1 /\ lev[root_page_id] \in Nat
  BY <1>2, <1>3, WayUp, RangeFacts
<1>7. p < total_pages
  BY <1>2, <1>3, TreeIsAllocated
<1> HIDE DEF p
<1>8. total_pages \in Pages /\ total_pages + lev[root_page_id] + 2 <= MaxPages /\ total_pages + 1 < MaxPages
  BY <1>1, <1>2, <1>3, <1>6, BTreeAssumption DEF Pages
<1>9. Len(n.keys) \in Nat /\ Len(n.keys) = leaf_max_keys /\ leaf_max_keys >= 2
  <2>1. Len(n.keys) \in Nat
    BY <1>3, RecordOf
  <2> HIDE DEF n
  <2> QED BY <2>1, <1>1, <1>4, BTreeAssumption
<1>10. /\ LeafOK(all, R[p]) /\ Len(all.keys) = Len(n.keys) + 1 /\ Len(all.values) = Len(all.keys)
  BY <1>1, <1>3, <1>4, <1>5, EntryAdded
<1>11. /\ all \in Node
       /\ all.type = n.type /\ all.parent = n.parent /\ all.next = n.next /\ all.children = n.children
  BY <1>3, <1>4, <1>5, WithEntryFields
<1> HIDE DEF all
<1>12. mid \in Nat /\ mid >= 1 /\ mid < Len(all.keys) /\ mid <= Len(all.keys)
  <2> DEFINE m == Len(n.keys)
  <2>1. m \in Nat /\ m >= 2 /\ Len(all.keys) = m + 1
    BY <1>9, <1>10
  <2> HIDE DEF m
  <2>2. m \div 2 \in Nat /\ m \div 2 >= 1 /\ m \div 2 < m + 1
    BY <2>1
  <2>3. mid = m \div 2
    BY DEF m
  <2> HIDE DEF mid
  <2> QED BY <2>1, <2>2, <2>3
<1>13. mid <= leaf_max_keys /\ Len(all.keys) - mid <= leaf_max_keys
  BY <1>9, <1>10, <1>12
<1>14. total_pages \in PageIds
  BY <1>8 DEF PageIds
<1> HIDE DEF mid
<1>15. /\ left \in Node
       /\ left.type = all.type /\ left.parent = all.parent /\ left.next = total_pages
       /\ left.children = all.children
       /\ left.keys \in Seq(Keys) /\ IsPart(all.keys, 0, mid, left.keys)
       /\ left.values \in Seq(Values) /\ IsPart(all.values, 0, mid, left.values)
       /\ right \in Node
       /\ right.type = all.type /\ right.parent = all.parent /\ right.next = all.next
       /\ right.children = all.children
       /\ right.keys \in Seq(Keys) /\ IsPart(all.keys, mid, Len(all.keys) - mid, right.keys)
       /\ right.values \in Seq(Values) /\ IsPart(all.values, mid, Len(all.keys) - mid, right.values)
  BY <1>10, <1>11, <1>12, <1>14, HalvesFields
<1> HIDE DEF left, right
<1>16. left.keys \in Seq(Int) /\ right.keys \in Seq(Int)
  BY <1>15, KeysAreNumbers
<1>17. LET key == right.keys[1] IN
           /\ key = all.keys[mid + 1] /\ key \in R[p] /\ key \in Int /\ \E x \in R[p] : x < key
           /\ LeafOK(left, Below(R[p], key)) /\ LeafOK(right, NotBelow(R[p], key))
           /\ Len(left.keys) = mid /\ Len(right.keys) = Len(all.keys) - mid
           /\ left.keys # <<>> /\ right.keys # <<>>
  <2>1. LeafHalves(all, R[p], mid, left, right, right.keys[1])
    <3>1. LeafOK(all, R[p])
      BY <1>10
    <3>2. mid \in Nat /\ mid >= 1 /\ mid < Len(all.keys)
      BY <1>12
    <3>3. left.type = all.type /\ left.children = all.children /\ IsPart(all.keys, 0, mid, left.keys)
      BY <1>15
    <3>4. right.type = all.type /\ right.children = all.children
          /\ IsPart(all.keys, mid, Len(all.keys) - mid, right.keys)
      BY <1>15
    <3> QED BY <3>1, <3>2, <3>3, <3>4, <1>16, LeafParted
  <2> QED BY <2>1 DEF LeafHalves
<1>18. right.keys[1] \in Keys
  <2>1. 1 \in 1 .. Len(right.keys)
    BY <1>17, <1>15
  <2> QED BY <2>1, <1>15
<1>19. Len(left.values) = mid /\ Len(right.values) = Len(all.keys) - mid
  BY <1>15 DEF IsPart
<1>20. Len(left.keys) <= leaf_max_keys /\ Len(right.keys) <= leaf_max_keys
  BY <1>13, <1>17
<1>21. left.type = "leaf" /\ right.type = "leaf" /\ left.parent = n.parent /\ right.parent = n.parent
       /\ right.next = n.next
  BY <1>3, <1>11, <1>15
<1>22. /\ total_pages \in Pages /\ p < total_pages
       /\ total_pages + lev[root_page_id] + 2 <= MaxPages /\ total_pages + 1 < MaxPages
       /\ all \in Node /\ Len(all.keys) = Len(n.keys) + 1 /\ Len(all.values) = Len(all.keys)
       /\ mid \in Nat /\ mid >= 1 /\ mid < Len(all.keys)
  BY <1>7, <1>8, <1>10, <1>11, <1>12
<1>23. /\ left \in Node /\ right \in Node
       /\ Len(left.keys) <= leaf_max_keys /\ Len(left.values) = Len(left.keys)
       /\ Len(right.keys) <= leaf_max_keys /\ Len(right.values) = Len(right.keys)
       /\ left.next = total_pages
  BY <1>15, <1>17, <1>19, <1>20
<1> QED
  BY <1>15, <1>17, <1>18, <1>21, <1>22, <1>23 DEF p, n, all, mid, left, right

(* A split of a leaf keeps the invariant: the two halves, with the separator*)
(* that the parent is to get, are a tree already. *)
LEMMA SplitLeafHolds ==
    ASSUME NEW T, NEW lev, NEW R, NEW c, NEW rank, NEW k \in Keys, NEW v \in CTIDs[k],
           Holds(nodes, root_page_id, total_pages, step, work, T, lev, R, c, rank),
           SplitLeaf(k, v)
    PROVE  \E U, l, S, d, rk :
              /\ Holds(nodes', root_page_id', total_pages', step', work', U, l, S, d, rk)
              /\ LeavesCut(T, lev, U, l, FindLeafPage(k), total_pages)
<1> DEFINE p == FindLeafPage(k)
           all == WithEntry(nodes[p], k, v)
           mid == Len(nodes[p].keys) \div 2
           left == LeftHalf(all, mid)
           right == RightHalf(all, mid)
           new == total_pages
           key == right.keys[1]
<1>1. /\ step = "idle"
      /\ nodes' = [Put(p, left) EXCEPT ![total_pages] = right]
      /\ total_pages' = total_pages + 1 /\ root_page_id' = root_page_id
      /\ step' = "parent" /\ work' = Work(p, right.keys[1], total_pages, all.parent)
  BY DEF SplitLeaf
<1>2. /\ Shape(nodes, root_page_id, total_pages, INVALID_PAGE_ID, T, lev, R, c, rank)
      /\ IsTree(nodes, root_page_id, T, lev, R) /\ root_page_id \in Pages
      /\ TypedPages(nodes, total_pages) /\ total_pages \in Nat /\ root_page_id \in T
  BY <1>1, IdleShape
<1>3. /\ p \in T /\ p \in Pages /\ lev[p] = 0 /\ LeafOK(nodes[p], R[p]) /\ nodes[p] \in Node
      /\ NodeFits(nodes[p], total_pages, p)
  BY <1>1, LeafAt
<1>4. /\ total_pages \in Pages /\ p < total_pages
      /\ total_pages + lev[root_page_id] + 2 <= MaxPages /\ total_pages + 1 < MaxPages
      /\ left \in Node /\ right \in Node
      /\ Len(left.keys) <= leaf_max_keys /\ Len(left.values) = Len(left.keys)
      /\ Len(right.keys) <= leaf_max_keys /\ Len(right.values) = Len(right.keys)
      /\ left.parent = nodes[p].parent /\ right.parent = nodes[p].parent
      /\ left.next = total_pages /\ right.next = nodes[p].next
      /\ left.type = "leaf" /\ right.type = "leaf"
  BY SplitLeafFacts, ZenonT(40)
<1>5. /\ key \in R[p] /\ key \in Keys /\ \E x \in R[p] : x < key
      /\ LeafOK(left, Below(R[p], key)) /\ LeafOK(right, NotBelow(R[p], key))
      /\ left.keys # <<>> /\ right.keys # <<>>
  BY SplitLeafFacts
<1>6. all.parent = nodes[p].parent
  <2>1. v \in Values /\ Len(nodes[p].values) = Len(nodes[p].keys)
    BY <1>3, ValueOf DEF NodeFits, LeafOK
  <2> QED BY <2>1, <1>3, WithEntryFields
<1>7. key \in Int
  BY <1>5, BTreeAssumption
<1> HIDE DEF p, all, left, right, mid, key
<1>8. IsPutTwice(nodes', nodes, p, left, total_pages, right)
  BY <1>1 DEF IsPutTwice, Put
<1>9. NodeFits(left, total_pages, p) /\ NodeFits(right, total_pages + 1, total_pages)
  <2>1. ~(p >= total_pages) /\ ~(total_pages >= total_pages + 1)
    BY <1>2, <1>3, <1>4, BTreeAssumption DEF Pages
  <2>2. Room("leaf") = leaf_max_keys
    BY DEF Room
  <2> QED BY <2>1, <2>2, <1>4 DEF NodeFits
<1>10. /\ TypedPages(nodes', total_pages + 1)
       /\ nodes'[p] = left /\ nodes'[total_pages] = right
       /\ \A x \in Pages \ {p, total_pages} : nodes'[x] = nodes[x]
  BY <1>2, <1>3, <1>4, <1>8, <1>9, NewPageTyped
<1>11. total_pages \notin T /\ total_pages + 1 \notin T
  <2>1. \A x \in T : x < total_pages
    BY <1>2, TreeIsAllocated
  <2> QED BY <2>1, <1>2
<1>12. IsCut(nodes, nodes', T, lev, R, p, key, total_pages)
  <2>1. /\ LeafOK(nodes'[p], Below(R[p], key)) /\ LeafOK(nodes'[total_pages], NotBelow(R[p], key))
        /\ nodes'[p].keys # <<>> /\ nodes'[total_pages].keys # <<>>
        /\ nodes'[p].next = total_pages /\ nodes'[total_pages].next = nodes[p].next
        /\ nodes'[p].parent = nodes[p].parent /\ nodes'[total_pages].parent = nodes[p].parent
    BY <1>4, <1>5, <1>10
  <2>2. total_pages \in Pages \ T
    BY <1>4, <1>11
  <2> QED BY <2>1, <2>2, <1>3, <1>5, <1>7, <1>10, NewLeafCut
<1>13. work'.old = p /\ work'.key = key /\ work'.new = total_pages /\ work'.parent = nodes[p].parent
  BY <1>1, <1>6 DEF Work, key
<1>14. /\ nodes[p].parent = INVALID_PAGE_ID => total_pages + 1 < MaxPages
       /\ nodes[p].parent # INVALID_PAGE_ID =>
             total_pages + lev[root_page_id] - lev[p] + 2 <= MaxPages
  <2>1. lev[root_page_id] \in Nat
    BY <1>2, RangeFacts
  <2> QED BY <2>1, <1>2, <1>3, <1>4
<1>15. \E U, l, S, d, rk :
              /\ Holds(nodes', root_page_id, total_pages + 1, "parent", work', U, l, S, d, rk)
              /\ LeavesCut(T, lev, U, l, p, total_pages)
  BY <1>2, <1>4, <1>5, <1>10, <1>11, <1>12, <1>13, <1>14, CutHolds
<1> QED BY <1>1, <1>15 DEF p

(* The parts of a sequence before and behind a place. *)
LEMMA PartBefore ==
    ASSUME NEW T, NEW s \in Seq(T), NEW b \in Nat, b <= Len(s)
    PROVE  SubSeq(s, 1, b) \in Seq(T) /\ IsPart(s, 0, b, SubSeq(s, 1, b))
<1>1. 0 \in Nat /\ 0 <= b /\ b - 0 = b /\ 0 + 1 = 1
  OBVIOUS
<1>2. SubSeq(s, 0 + 1, b) \in Seq(T) /\ IsPart(s, 0, b - 0, SubSeq(s, 0 + 1, b))
  BY <1>1, PartOf
<1> QED BY <1>1, <1>2

LEMMA PartAfter ==
    ASSUME NEW T, NEW s \in Seq(T), NEW m \in Nat, m + 1 <= Len(s)
    PROVE  /\ SubSeq(s, m + 2, Len(s)) \in Seq(T)
           /\ IsPart(s, m + 1, Len(s) - (m + 1), SubSeq(s, m + 2, Len(s)))
<1> DEFINE a == m + 1
<1>1. a \in Nat /\ a <= Len(s) /\ a + 1 = m + 2 /\ Len(s) \in Nat
  OBVIOUS
<1> HIDE DEF a
<1>2. SubSeq(s, a + 1, Len(s)) \in Seq(T) /\ IsPart(s, a, Len(s) - a, SubSeq(s, a + 1, Len(s)))
  <2>1. Len(s) <= Len(s)
    BY <1>1
  <2> QED BY <1>1, <2>1, PartOf
<1> QED BY <1>1, <1>2 DEF a

(* An internal node n is parted at its key mid + 1. *)
InnerHalves(n, mid, left, right) ==
    /\ left.type = "internal" /\ right.type = "internal"
    /\ left.keys \in Seq(Keys) /\ IsPart(n.keys, 0, mid, left.keys)
    /\ left.children \in Seq(Pages) /\ IsPart(n.children, 0, mid + 1, left.children)
    /\ right.keys \in Seq(Keys) /\ IsPart(n.keys, mid + 1, Len(n.keys) - (mid + 1), right.keys)
    /\ right.children \in Seq(Pages)
    /\ IsPart(n.children, mid + 1, Len(n.children) - (mid + 1), right.children)

(* The two halves of an internal node, with the key between them that moves *)
(* up. *)
LEMMA InnerParted ==
    ASSUME NEW n, InnerOK(n), NEW mid \in Nat, mid + 1 <= Len(n.keys),
           NEW left, NEW right, InnerHalves(n, mid, left, right)
    PROVE  PartsOK(n, left, right, n.keys[mid + 1])
<1> DEFINE ks == n.keys
           key == ks[mid + 1]
           m == Len(ks)
           t == Len(n.children)
<1>1. ks \in Seq(Int) /\ Sorted(ks) /\ n.children \in Seq(Pages) /\ t = m + 1 /\ m \in Nat /\ mid + 1 <= m
  BY DEF InnerOK
<1>2. /\ left.type = "internal" /\ right.type = "internal"
      /\ left.keys \in Seq(Int) /\ right.keys \in Seq(Int)
      /\ left.children \in Seq(Pages) /\ right.children \in Seq(Pages)
      /\ IsPart(ks, 0, mid, left.keys) /\ IsPart(n.children, 0, mid + 1, left.children)
      /\ IsPart(ks, mid + 1, m - (mid + 1), right.keys)
      /\ IsPart(n.children, mid + 1, t - (mid + 1), right.children)
  BY KeysAreNumbers DEF InnerHalves
<1>3. /\ Len(left.keys) = mid /\ Len(right.keys) = m - (mid + 1)
      /\ Len(left.children) = mid + 1 /\ Len(right.children) = t - (mid + 1)
      /\ \A j \in 1 .. mid + 1 : left.children[j] = n.children[0 + j]
      /\ \A j \in 1 .. t - (mid + 1) : right.children[j] = n.children[mid + 1 + j]
  BY <1>2 DEF IsPart
<1> HIDE DEF m, t
<1>4. Len(right.children) = m - mid /\ Len(left.children) + Len(right.children) = t
      /\ Len(right.children) = Len(right.keys) + 1 /\ Len(left.children) = Len(left.keys) + 1
  BY <1>1, <1>3
<1> HIDE DEF ks
<1>5. Sorted(left.keys)
  <2>1. 0 + mid <= Len(ks) /\ 0 \in Nat
    BY <1>1 DEF m
  <2> QED BY <2>1, <1>1, <1>2, PartSorted
<1>6. Sorted(right.keys)
  <2> DEFINE a == mid + 1
             b == m - a
  <2>1. a \in Nat /\ b \in Nat /\ a + b <= Len(ks)
    BY <1>1 DEF m
  <2>2. IsPart(ks, a, b, right.keys)
    BY <1>2
  <2> HIDE DEF a, b
  <2> QED BY <2>1, <2>2, <1>1, <1>2, PartSorted
<1>7. InnerOK(left) /\ InnerOK(right)
  BY <1>2, <1>4, <1>5, <1>6 DEF InnerOK
<1>8. ASSUME NEW x \in Int
      PROVE  /\ x < key => \A j \in 1 .. mid + 1 : Between(left.keys, j, x) <=> Between(ks, j, x)
             /\ ~(x < key) =>
                  \A j \in 1 .. m - mid : Between(right.keys, j, x) <=> Between(ks, mid + 1 + j, x)
             /\ \A j \in 1 .. m + 1 : Between(ks, j, x) => (j <= mid + 1 <=> x < key)
  <2>1. IsPart(ks, mid + 1, Len(ks) - (mid + 1), right.keys) /\ mid + 1 <= Len(ks)
    BY <1>1, <1>2 DEF m
  <2>2. /\ x < ks[mid + 1] => \A j \in 1 .. mid + 1 : Between(left.keys, j, x) <=> Between(ks, j, x)
        /\ ~(x < ks[mid + 1]) =>
             \A j \in 1 .. Len(ks) - mid : Between(right.keys, j, x) <=> Between(ks, mid + 1 + j, x)
        /\ \A j \in 1 .. Len(ks) + 1 : Between(ks, j, x) => (j <= mid + 1 <=> x < ks[mid + 1])
    BY <2>1, <1>1, <1>2, PartedBetween
  <2> QED BY <2>2 DEF key, m
<1>9. \A j \in 1 .. Len(left.children) : left.children[j] = n.children[j]
  BY <1>3
<1>10. \A j \in 1 .. Len(right.children) : right.children[j] = n.children[Len(left.children) + j]
  BY <1>3
<1> HIDE DEF key
<1>11. \A x \in Int : x < key => \A j \in 1 .. Len(left.children) :
          Between(left.keys, j, x) <=> Between(ks, j, x)
  BY <1>3, <1>8
<1>12. \A x \in Int : ~(x < key) => \A j \in 1 .. Len(right.children) :
          Between(right.keys, j, x) <=> Between(ks, Len(left.children) + j, x)
  BY <1>3, <1>4, <1>8
<1>13. \A x \in Int : \A j \in 1 .. t :
          Between(ks, j, x) => (j <= Len(left.children) <=> x < key)
  BY <1>1, <1>3, <1>8
<1>14. PartsOK(n, left, right, key)
  BY <1>4, <1>7, <1>9, <1>10, <1>11, <1>12, <1>13 DEF PartsOK, ks, t
<1> QED BY <1>14 DEF key, ks

(* The keys of an internal node lie in its range, with something before. *)
LEMMA KeyInside ==
    ASSUME NEW V, NEW r, NEW T, NEW lev, NEW R, IsTree(V, r, T, lev, R),
           NEW p \in T, lev[p] # 0, NEW j \in 1 .. Len(V[p].keys)
    PROVE  V[p].keys[j] \in Int /\ V[p].keys[j] \in R[p] /\ \E x \in R[p] : x < V[p].keys[j]
<1> DEFINE ks == V[p].keys
           k == j + 1
<1>1. /\ ks \in Seq(Int) /\ Len(V[p].children) = Len(ks) + 1 /\ Len(ks) \in Nat
      /\ V[p].children[1] \in T
  <2>1. PageOK(V, r, T, lev, R, p)
    BY DEF IsTree
  <2>2. InnerOK(V[p]) /\ \A i \in 1 .. Len(V[p].children) : ChildOK(V, T, lev, R, p, i)
    BY <2>1 DEF PageOK
  <2> QED BY <2>2 DEF InnerOK, ChildOK
<1>2. j \in 1 .. Len(V[p].children) /\ k \in 1 .. Len(V[p].children) /\ j >= 1 /\ j \in Int /\ j <= Len(ks)
  BY <1>1
<1> HIDE DEF k
<1>3. PICK x \in R[V[p].children[j]] : x \in Int
  <2>1. V[p].children[j] \in T
    BY <1>2, ChildFacts
  <2> QED BY <2>1, RangeFacts
<1>4. PICK y \in R[V[p].children[k]] : y \in Int
  <2>1. V[p].children[k] \in T
    BY <1>2, ChildFacts
  <2> QED BY <2>1, RangeFacts
<1>5. x \in R[p] /\ Between(ks, j, x)
  <2>1. \A i \in 1 .. Len(V[p].children) : \A z \in Int :
           z \in R[V[p].children[i]] <=> (z \in R[p] /\ Between(V[p].keys, i, z))
    BY ChildFacts
  <2> QED BY <2>1, <1>2, <1>3
<1>6. y \in R[p] /\ Between(ks, k, y)
  BY <1>2, <1>4, ChildFacts
<1>7. x < ks[j]
  BY <1>2, <1>5 DEF Between
<1>8. ks[j] <= y
  <2>1. k > 1 /\ k - 1 = j
    BY <1>2 DEF k
  <2> QED BY <2>1, <1>6 DEF Between
<1>9. ks[j] \in Int
  BY <1>1
<1>10. Convex(R[p])
  BY RangeFacts
<1>11. ks[j] \in R[p]
  BY <1>3, <1>5, <1>6, <1>7, <1>8, <1>9, <1>10 DEF Convex
<1> QED BY <1>5, <1>7, <1>9, <1>11

IsLeftPart(m, n, mid) ==
    m = [n EXCEPT !.keys = SubSeq(@, 1, mid), !.children = SubSeq(@, 1, mid + 1)]

IsRightPart(m, n, mid) ==
    m = Internal(SubSeq(n.keys, mid + 2, Len(n.keys)),
                 SubSeq(n.children, mid + 2, Len(n.children)), n.parent)

(* What a split makes of the fields of an internal node. *)
LEMMA InnerHalvesFields ==
    ASSUME NEW n \in Node, n.type = "internal", Len(n.children) = Len(n.keys) + 1,
           NEW mid \in Nat, mid + 1 <= Len(n.keys),
           NEW left, IsLeftPart(left, n, mid), NEW right, IsRightPart(right, n, mid)
    PROVE  /\ InnerHalves(n, mid, left, right) /\ left \in Node /\ right \in Node
           /\ left.parent = n.parent /\ left.next = n.next
           /\ right.parent = n.parent /\ right.next = INVALID_PAGE_ID
           /\ left.type = "internal" /\ right.type = "internal"
           /\ Len(left.keys) = mid /\ Len(left.children) = mid + 1
           /\ Len(right.keys) = Len(n.keys) - (mid + 1)
           /\ Len(right.children) = Len(n.keys) - mid
<1> DEFINE lks == SubSeq(n.keys, 1, mid)
           lcs == SubSeq(n.children, 1, mid + 1)
           rks == SubSeq(n.keys, mid + 2, Len(n.keys))
           rcs == SubSeq(n.children, mid + 2, Len(n.children))
<1>1. /\ n.keys \in Seq(Keys) /\ n.children \in Seq(Pages) /\ n.parent \in PageIds
      /\ Len(n.keys) \in Nat /\ Len(n.children) \in Nat
  BY RecordOf
<1>2. lks \in Seq(Keys) /\ IsPart(n.keys, 0, mid, lks)
  <2>1. mid <= Len(n.keys)
    BY <1>1
  <2> QED BY <2>1, <1>1, PartBefore
<1>3. lcs \in Seq(Pages) /\ IsPart(n.children, 0, mid + 1, lcs)
  <2> DEFINE b == mid + 1
  <2>1. b \in Nat /\ b <= Len(n.children)
    BY <1>1
  <2> HIDE DEF b
  <2>2. SubSeq(n.children, 1, b) \in Seq(Pages) /\ IsPart(n.children, 0, b, SubSeq(n.children, 1, b))
    BY <2>1, <1>1, PartBefore
  <2> QED BY <2>2 DEF b
<1>4. rks \in Seq(Keys) /\ IsPart(n.keys, mid + 1, Len(n.keys) - (mid + 1), rks)
  BY <1>1, PartAfter
<1>5. rcs \in Seq(Pages) /\ IsPart(n.children, mid + 1, Len(n.children) - (mid + 1), rcs)
  <2>1. mid + 1 <= Len(n.children)
    BY <1>1
  <2> QED BY <2>1, <1>1, PartAfter
<1>6. left = [n EXCEPT !.keys = lks, !.children = lcs]
  BY DEF IsLeftPart
<1>7. right = Internal(rks, rcs, n.parent)
  BY DEF IsRightPart
<1> HIDE DEF lks, lcs, rks, rcs
<1>8. left \in Node
  BY <1>2, <1>3, <1>6 DEF Node
<1>9. left.keys = lks /\ left.children = lcs
  BY <1>6 DEF Node
<1>10. left.type = n.type /\ left.parent = n.parent /\ left.next = n.next
  BY <1>6 DEF Node
<1>11. /\ right \in Node /\ right.type = "internal" /\ right.keys = rks /\ right.children = rcs
       /\ right.parent = n.parent /\ right.next = INVALID_PAGE_ID
  BY <1>1, <1>4, <1>5, <1>7, InternalNode
<1>12. InnerHalves(n, mid, left, right)
  BY <1>2, <1>3, <1>4, <1>5, <1>9, <1>10, <1>11 DEF InnerHalves
<1>13. Len(lks) = mid /\ Len(lcs) = mid + 1 /\ Len(rks) = Len(n.keys) - (mid + 1)
       /\ Len(rcs) = Len(n.children) - (mid + 1)
  BY <1>2, <1>3, <1>4, <1>5 DEF IsPart
<1>14. Len(rcs) = Len(n.keys) - mid
  BY <1>1, <1>13
<1> QED BY <1>8, <1>9, <1>10, <1>11, <1>12, <1>13, <1>14

(* The node p is parted into left and right, on the page new. *)
NodesParted(W, V, p, left, new, right) ==
    W = [q \in Pages |->
            CASE q = p -> left
              [] q = new -> right
              [] q \in Range(right.children) -> [V[q] EXCEPT !.parent = new]
              [] OTHER -> V[q]]

(* The children of a node, as a set and one by one. *)
LEMMA ChildrenOf ==
    ASSUME NEW n \in Node, NEW x
    PROVE  x \in Range(n.children) <=> IsChild(n, x)
<1>1. n.children \in Seq(Pages)
  BY RecordOf
<1>2. DOMAIN n.children = 1 .. Len(n.children)
  BY <1>1
<1> QED BY <1>2 DEF Range, IsChild

(* A split of an internal node changes it, its new sibling, and the parent  *)
(* pointers of the children that move. *)
LEMMA PartedPages ==
    ASSUME NEW V \in [Pages -> Node], NEW p \in Pages, NEW new \in Pages, p # new,
           NEW left \in Node, NEW right \in Node, ~IsChild(right, p), ~IsChild(right, new),
           NEW W, NodesParted(W, V, p, left, new, right)
    PROVE  /\ W \in [Pages -> Node] /\ W[p] = left /\ W[new] = right
           /\ \A x \in Pages \ {p, new} :
                 /\ W[x].type = V[x].type /\ W[x].keys = V[x].keys /\ W[x].children = V[x].children
                 /\ W[x].values = V[x].values /\ W[x].next = V[x].next
                 /\ W[x].parent = IF IsChild(right, x) THEN new ELSE V[x].parent
<1>1. p \notin Range(right.children) /\ new \notin Range(right.children)
  BY ChildrenOf
<1>2. W[p] = left
  BY <1>1 DEF NodesParted
<1>3. W[new] = right
  BY <1>1 DEF NodesParted
<1>4. ASSUME NEW x \in Pages \ {p, new}, IsChild(right, x)
      PROVE  W[x] = [V[x] EXCEPT !.parent = new]
  <2>1. x \in Range(right.children)
    BY <1>4, ChildrenOf
  <2> QED BY <2>1 DEF NodesParted
<1>5. ASSUME NEW x \in Pages \ {p, new}, ~IsChild(right, x)
      PROVE  W[x] = V[x]
  <2>1. x \notin Range(right.children)
    BY <1>5, ChildrenOf
  <2> QED BY <2>1 DEF NodesParted
<1>6. ASSUME NEW x \in Pages \ {p, new}
      PROVE  /\ W[x] \in Node
             /\ W[x].type = V[x].type /\ W[x].keys = V[x].keys /\ W[x].children = V[x].children
             /\ W[x].values = V[x].values /\ W[x].next = V[x].next
             /\ W[x].parent = IF IsChild(right, x) THEN new ELSE V[x].parent
  <2>1. CASE IsChild(right, x)
    <3>1. V[x] \in Node /\ new \in PageIds /\ W[x] = [V[x] EXCEPT !.parent = new]
      BY <2>1, <1>4 DEF PageIds
    <3>2. /\ W[x].type = V[x].type /\ W[x].keys = V[x].keys /\ W[x].children = V[x].children
          /\ W[x].values = V[x].values /\ W[x].next = V[x].next /\ W[x].parent = new
      BY <3>1, ParentChanged
    <3> QED BY <2>1, <3>1, <3>2, ParentTyped
  <2>2. CASE ~IsChild(right, x)
    <3>1. V[x] \in Node /\ W[x] = V[x]
      BY <2>2, <1>5
    <3> QED BY <2>2, <3>1
  <2> QED BY <2>1, <2>2
<1>7. W \in [Pages -> Node]
  <2>1. \A x \in Pages : W[x] \in Node
    BY <1>2, <1>3, <1>6
  <2>2. W = [x \in Pages |-> W[x]]
    BY DEF NodesParted
  <2> QED BY <2>1, <2>2
<1> QED BY <1>2, <1>3, <1>6, <1>7

(* The nodes are well typed after it. *)
LEMMA PartedTyped ==
    ASSUME NEW V, NEW new \in Pages, TypedPages(V, new), NEW p \in Pages, p < new,
           NEW W \in [Pages -> Node], NodeFits(W[p], new, p), NodeFits(W[new], new + 1, new),
           \A x \in Pages \ {p, new} :
              /\ W[x].type = V[x].type /\ W[x].keys = V[x].keys /\ W[x].children = V[x].children
              /\ W[x].values = V[x].values /\ W[x].next = V[x].next
    PROVE  TypedPages(W, new + 1)
<1>1. p # new /\ p \in Nat /\ new \in Nat
  BY BTreeAssumption DEF Pages
<1>2. ASSUME NEW x \in Pages PROVE NodeFits(W[x], new + 1, x)
  <2>1. CASE x = new
    BY <2>1
  <2>2. CASE x # new
    <3>1. NodeFits(W[x], new, x)
      <4>1. CASE x = p
        BY <4>1
      <4>2. CASE x # p
        <5>1. NodeFits(V[x], new, x)
          BY DEF TypedPages
        <5>2. /\ W[x].type = V[x].type /\ W[x].keys = V[x].keys /\ W[x].children = V[x].children
              /\ W[x].values = V[x].values /\ W[x].next = V[x].next
          BY <2>2, <4>2
        <5> QED BY <5>1, <5>2 DEF NodeFits
      <4> QED BY <4>1, <4>2
    <3>2. x >= new <=> x >= new + 1
      BY <2>2, <1>1 DEF Pages
    <3> QED BY <3>1, <3>2 DEF NodeFits
  <2> QED BY <2>1, <2>2
<1> QED BY <1>2 DEF TypedPages

(* The leaves and their entries are those there were. *)
LeavesKept(V, W, T, lev, U, l) ==
    \A x \in Pages :
        /\ IsLeaf(U, l, x) <=> IsLeaf(T, lev, x)
        /\ IsLeaf(T, lev, x) => W[x].keys = V[x].keys /\ W[x].values = V[x].values

(* The parent that is to get a key and a child. *)
LEMMA ParentFound ==
    ASSUME NEW T, NEW lev, NEW R, NEW c, NEW rank,
           Holds(nodes, root_page_id, total_pages, step, work, T, lev, R, c, rank),
           step = "parent", work.parent # INVALID_PAGE_ID,
           NEW V, V = Attached(nodes, work, total_pages)
    PROVE  /\ Shape(V, root_page_id, total_pages, INVALID_PAGE_ID, T, lev, R, c, rank)
           /\ IsTree(V, root_page_id, T, lev, R)
           /\ work.parent \in T /\ lev[work.parent] # 0 /\ work.parent \in Pages
           /\ nodes[work.parent] \in Node /\ nodes[work.parent].type = "internal"
           /\ NodeFits(nodes[work.parent], total_pages, work.parent)
           /\ V[work.parent] = WithChild(nodes[work.parent], work.key, work.new)
           /\ \A x \in Pages : x # work.parent => V[x] = nodes[x]
           /\ V[work.parent] \in Node /\ V[work.parent].type = "internal"
           /\ Len(V[work.parent].keys) = Len(nodes[work.parent].keys) + 1
           /\ Len(V[work.parent].children) = Len(V[work.parent].keys) + 1
<1> DEFINE q == work.parent
           m == WithChild(nodes[q], work.key, work.new)
<1>1. V = [nodes EXCEPT ![q] = m]
  BY DEF Attached
<1>2. /\ TypedPages(nodes, total_pages)
      /\ Shape(WithWork(nodes, step, work, total_pages), RootWith(root_page_id, step, work, total_pages),
               total_pages, Waiting(step, work), T, lev, R, c, rank)
      /\ ClimbOK(root_page_id, total_pages, work, T, lev) /\ WorkTyped(step, work)
  BY DEF Holds
<1>3. /\ WithWork(nodes, step, work, total_pages) = V
      /\ RootWith(root_page_id, step, work, total_pages) = root_page_id
      /\ Waiting(step, work) = INVALID_PAGE_ID
  BY DEF WithWork, RootWith, Waiting
<1>4. work.key \in Keys /\ work.new \in Pages /\ q \in T /\ lev[q] # 0
  BY <1>2 DEF ClimbOK
<1>5. Shape(V, root_page_id, total_pages, INVALID_PAGE_ID, T, lev, R, c, rank)
  BY <1>2, <1>3
<1>6. q \in Pages /\ nodes[q] \in Node /\ NodeFits(nodes[q], total_pages, q)
  BY <1>2 DEF WorkTyped, PageIds, TypedPages
<1>7. V[q] = m /\ \A x \in Pages : x # q => V[x] = nodes[x]
  <2>1. nodes \in [Pages -> Node]
    BY <1>2 DEF TypedPages
  <2> QED BY <1>1, <1>6, <2>1
<1>8. IsTree(V, root_page_id, T, lev, R)
  BY <1>5 DEF Shape
<1>9. V[q].type = "internal"
  BY <1>8, <1>4, <1>6, LeafType
<1>10. nodes[q].type = "internal"
  <2>1. m.type = nodes[q].type
    BY <1>6, RecordOf DEF WithChild
  <2> QED BY <2>1, <1>7, <1>9
<1> HIDE DEF q, m
<1>11. /\ m \in Node /\ Len(m.keys) = Len(nodes[q].keys) + 1
       /\ Len(m.children) = Len(nodes[q].children) + 1
       /\ Len(nodes[q].children) = Len(nodes[q].keys) + 1
  <2>1. Len(nodes[q].children) = Len(nodes[q].keys) + 1 /\ nodes[q].keys \in Seq(Keys)
    BY <1>6, <1>10, RecordOf DEF NodeFits
  <2>2. Position(nodes[q].keys, work.key) \in 1 .. Len(nodes[q].keys) + 1
    BY <2>1, PositionType
  <2>3. /\ m \in Node
        /\ IsInserted(nodes[q].keys, Position(nodes[q].keys, work.key), work.key, m.keys)
        /\ IsInserted(nodes[q].children, Position(nodes[q].keys, work.key) + 1, work.new, m.children)
    BY <2>1, <2>2, <1>4, <1>6, <1>10, WithChildFields DEF m
  <2> QED BY <2>1, <2>3 DEF IsInserted
<1> QED BY <1>4, <1>5, <1>6, <1>7, <1>8, <1>9, <1>10, <1>11 DEF q, m

InnerCutGives(V, nds, N, T, lev, R, p, key, new, left, right) ==
    /\ IsCut(V, N, T, lev, R, p, key, new) /\ N \in [Pages -> Node]
    /\ N[p] = left /\ N[new] = right
    /\ \A x \in Pages \ {p, new} :
          /\ N[x].type = nds[x].type /\ N[x].keys = nds[x].keys
          /\ N[x].children = nds[x].children /\ N[x].values = nds[x].values
          /\ N[x].next = nds[x].next

(* The part of a split of an internal node that does not depend on how the *)
(* code writes it down. *)
LEMMA InnerCut ==
    ASSUME NEW V, NEW nds, NEW N, NEW r, NEW T, NEW lev, NEW R, IsTree(V, r, T, lev, R),
           NEW p \in T, lev[p] # 0, NEW new \in Pages \ T, nds \in [Pages -> Node],
           \A x \in Pages : x # p => V[x] = nds[x],
           V[p] \in Node, V[p].type = "internal", Len(V[p].children) = Len(V[p].keys) + 1,
           NEW mid \in Nat, mid + 1 <= Len(V[p].keys),
           NEW left, IsLeftPart(left, V[p], mid), NEW right, IsRightPart(right, V[p], mid),
           NodesParted(N, nds, p, left, new, right)
    PROVE  InnerCutGives(V, nds, N, T, lev, R, p, V[p].keys[mid + 1], new, left, right)
<1> DEFINE n == V[p]
           key == n.keys[mid + 1]
<1>1. /\ InnerHalves(n, mid, left, right) /\ left \in Node /\ right \in Node
      /\ left.parent = n.parent /\ left.next = n.next
      /\ right.parent = n.parent /\ right.next = INVALID_PAGE_ID
  BY InnerHalvesFields
<1>2. p \in Pages /\ p # new
  BY RangeFacts
<1>3. PageOK(V, r, T, lev, R, p) /\ InnerOK(n)
  BY DEF IsTree, PageOK
<1>4. PartsOK(n, left, right, key)
  BY <1>1, <1>3, InnerParted
<1>5. ASSUME NEW x, IsChild(right, x) PROVE x \in T /\ x # p
  <2>1. PICK j \in 1 .. Len(right.children) : right.children[j] = x
    BY <1>5 DEF IsChild
  <2> DEFINE a == Len(left.children)
             b == Len(right.children)
             t == Len(n.children)
  <2>2. a \in Nat /\ b \in Nat /\ t \in Nat
    BY <1>1, RecordOf
  <2>3. a + b = t /\ right.children[j] = n.children[a + j] /\ j \in 1 .. b
    BY <1>4, <2>1 DEF PartsOK
  <2> HIDE DEF a, b, t
  <2>4. a + j \in 1 .. t
    BY <2>2, <2>3
  <2> DEFINE i == a + j
  <2>5. i \in 1 .. Len(V[p].children)
    BY <2>4 DEF t
  <2>6. n.children[i] = x
    BY <2>1, <2>3
  <2> HIDE DEF i
  <2> QED BY <2>5, <2>6, ChildFacts
<1>6. ~IsChild(right, p) /\ ~IsChild(right, new)
  BY <1>5
<1> HIDE DEF n
<1>7. /\ N \in [Pages -> Node] /\ N[p] = left /\ N[new] = right
      /\ \A x \in Pages \ {p, new} :
            /\ N[x].type = nds[x].type /\ N[x].keys = nds[x].keys /\ N[x].children = nds[x].children
            /\ N[x].values = nds[x].values /\ N[x].next = nds[x].next
            /\ N[x].parent = IF IsChild(right, x) THEN new ELSE nds[x].parent
  BY <1>1, <1>2, <1>6, PartedPages
<1>8. \A x \in Pages \ {p, new} :
          /\ N[x].type = V[x].type /\ N[x].keys = V[x].keys /\ N[x].children = V[x].children
          /\ N[x].parent = IF IsChild(N[new], x) THEN new ELSE V[x].parent
          /\ N[x].next = V[x].next
  BY <1>7
<1>9. key \in Int /\ key \in R[p] /\ \E x \in R[p] : x < key
  <2> DEFINE i == mid + 1
  <2>1. i \in 1 .. Len(V[p].keys)
    <3>1. Len(V[p].keys) \in Nat
      BY RecordOf
    <3> QED BY <3>1
  <2> HIDE DEF i
  <2>2. V[p].keys[i] \in Int /\ V[p].keys[i] \in R[p] /\ \E x \in R[p] : x < V[p].keys[i]
    BY <2>1, KeyInside
  <2> QED BY <2>2 DEF i, n
<1> HIDE DEF key
<1>10. /\ N[p].parent = V[p].parent /\ N[new].parent = V[p].parent
       /\ PartsOK(V[p], N[p], N[new], key) /\ N[p].next = V[p].next /\ N[new].next = INVALID_PAGE_ID
  BY <1>1, <1>4, <1>7 DEF n
<1>11. IsCut(V, N, T, lev, R, p, key, new)
  BY <1>8, <1>9, <1>10 DEF IsCut
<1> QED BY <1>7, <1>11 DEF key, n, InnerCutGives

(* A split of an internal node, with the pending child put in first, keeps  *)
(* the invariant and the leaves. *)
LEMMA SplitInternalHolds ==
    ASSUME NEW T, NEW lev, NEW R, NEW c, NEW rank,
           Holds(nodes, root_page_id, total_pages, step, work, T, lev, R, c, rank),
           SplitInternal
    PROVE  \E U, l, S, d, rk :
              /\ Holds(nodes', root_page_id', total_pages', step', work', U, l, S, d, rk)
              /\ LeavesKept(nodes, nodes', T, lev, U, l)
<1> DEFINE p == work.parent
           V == Attached(nodes, work, total_pages)
           all == WithChild(nodes[p], work.key, work.new)
           mid == Len(all.keys) \div 2
           left == [all EXCEPT !.keys = SubSeq(@, 1, mid), !.children = SubSeq(@, 1, mid + 1)]
           right == Internal(SubSeq(all.keys, mid + 2, Len(all.keys)),
                             SubSeq(all.children, mid + 2, Len(all.children)), all.parent)
           key == all.keys[mid + 1]
<1>1. /\ step = "parent" /\ p # INVALID_PAGE_ID /\ Len(nodes[p].keys) >= internal_max_keys
      /\ total_pages' = total_pages + 1 /\ root_page_id' = root_page_id /\ step' = "parent"
      /\ work' = Work(p, key, total_pages, all.parent)
  BY DEF SplitInternal
<1>2. NodesParted(nodes', nodes, p, left, total_pages, right)
  BY DEF SplitInternal, NodesParted, Adopted
<1>3. /\ Shape(V, root_page_id, total_pages, INVALID_PAGE_ID, T, lev, R, c, rank)
      /\ IsTree(V, root_page_id, T, lev, R)
      /\ p \in T /\ lev[p] # 0 /\ p \in Pages
      /\ nodes[p] \in Node /\ nodes[p].type = "internal"
      /\ NodeFits(nodes[p], total_pages, p)
      /\ V[p] = all
      /\ \A x \in Pages : x # p => V[x] = nodes[x]
      /\ V[p] \in Node /\ V[p].type = "internal"
      /\ Len(V[p].keys) = Len(nodes[p].keys) + 1
      /\ Len(V[p].children) = Len(V[p].keys) + 1
  BY <1>1, ParentFound
<1>4. /\ TypedPages(nodes, total_pages) /\ total_pages \in 0 .. MaxPages /\ root_page_id \in Pages
      /\ ClimbOK(root_page_id, total_pages, work, T, lev) /\ WorkTyped(step, work)
  BY <1>1 DEF Holds
<1>5. IsLeftPart(left, all, mid) /\ IsRightPart(right, all, mid)
  BY DEF IsLeftPart, IsRightPart
<1> HIDE DEF V, left, right, all, p, mid
<1>6. lev[p] \in Nat /\ lev[root_page_id] \in Nat /\ lev[p] <= lev[root_page_id]
  BY <1>3, RangeFacts
<1>7. total_pages + lev[root_page_id] - lev[p] + 2 <= MaxPages
  BY <1>1, <1>4 DEF ClimbOK, p
<1>8. total_pages \in Nat /\ total_pages \in Pages /\ total_pages + 1 < MaxPages
  BY <1>4, <1>6, <1>7, BTreeAssumption DEF Pages
<1>9. Len(nodes[p].keys) \in Nat /\ Len(nodes[p].keys) = internal_max_keys /\ internal_max_keys >= 2
  <2>1. Len(nodes[p].keys) \in Nat /\ Len(nodes[p].keys) <= internal_max_keys
    BY <1>3, RecordOf DEF NodeFits, Room
  <2> QED BY <2>1, <1>1, BTreeAssumption
<1>10. /\ Len(all.keys) = internal_max_keys + 1 /\ Len(all.keys) \in Nat
       /\ mid \in Nat /\ mid + 1 <= Len(all.keys)
       /\ mid <= internal_max_keys
  <2> DEFINE m == Len(all.keys)
  <2>1. m \in Nat /\ m >= 3 /\ m = internal_max_keys + 1
    BY <1>3, <1>9
  <2>2. mid = m \div 2
    BY DEF mid
  <2> HIDE DEF m
  <2>3. m \div 2 \in Nat /\ m \div 2 + 1 <= m
    BY <2>1
  <2>4. mid <= internal_max_keys
    BY <2>1, <2>2, <2>3, <1>9
  <2> QED BY <2>1, <2>2, <2>3, <2>4 DEF m
<1>11. /\ left \in Node /\ right \in Node
       /\ left.type = "internal" /\ right.type = "internal"
       /\ Len(left.keys) = mid /\ Len(left.children) = mid + 1
       /\ Len(right.keys) = Len(all.keys) - (mid + 1)
       /\ Len(right.children) = Len(all.keys) - mid
  <2>1. all \in Node /\ all.type = "internal" /\ Len(all.children) = Len(all.keys) + 1
    BY <1>3
  <2>2. mid \in Nat /\ mid + 1 <= Len(all.keys)
    BY <1>10
  <2> QED BY <2>1, <2>2, <1>5, InnerHalvesFields
<1>12. \A x \in T : x \in Pages /\ x < total_pages
  <2> SUFFICES ASSUME NEW x \in T PROVE x \in Pages /\ x < total_pages
    OBVIOUS
  <2>1. x \in Pages /\ PageOK(V, root_page_id, T, lev, R, x)
    BY <1>3 DEF IsTree
  <2>2. V[x].type # "none"
    BY <2>1 DEF PageOK, LeafOK, InnerOK
  <2>3. nodes[x].type # "none"
    BY <2>1, <2>2, <1>3
  <2>4. NodeFits(nodes[x], total_pages, x)
    BY <2>1, <1>4 DEF TypedPages
  <2>5. ~(x >= total_pages)
    BY <2>3, <2>4 DEF NodeFits
  <2> QED BY <2>1, <2>5, <1>8, BTreeAssumption DEF Pages
<1>13. total_pages \in Pages \ T /\ total_pages + 1 \notin T /\ p < total_pages
  BY <1>3, <1>8, <1>12
<1>14. /\ IsCut(V, nodes', T, lev, R, p, V[p].keys[mid + 1], total_pages)
       /\ nodes' \in [Pages -> Node] /\ nodes'[p] = left /\ nodes'[total_pages] = right
       /\ \A x \in Pages \ {p, total_pages} :
             /\ nodes'[x].type = nodes[x].type /\ nodes'[x].keys = nodes[x].keys
             /\ nodes'[x].children = nodes[x].children /\ nodes'[x].values = nodes[x].values
             /\ nodes'[x].next = nodes[x].next
  <2>1. nodes \in [Pages -> Node]
    BY <1>4 DEF TypedPages
  <2>2. IsLeftPart(left, V[p], mid) /\ IsRightPart(right, V[p], mid) /\ mid + 1 <= Len(V[p].keys)
    BY <1>3, <1>5, <1>10
  <2>3. InnerCutGives(V, nodes, nodes', T, lev, R, p, V[p].keys[mid + 1], total_pages, left, right)
    <3>1. total_pages \in Pages \ T /\ mid \in Nat
      BY <1>10, <1>13
    <3>2. \A x \in Pages : x # p => V[x] = nodes[x]
      BY <1>3
    <3>3. V[p] \in Node /\ V[p].type = "internal" /\ Len(V[p].children) = Len(V[p].keys) + 1
      BY <1>3
    <3>4. IsTree(V, root_page_id, T, lev, R) /\ p \in T /\ lev[p] # 0
      BY <1>3
    <3> QED BY <3>1, <3>2, <3>3, <3>4, <2>1, <2>2, <1>2, InnerCut
  <2> QED BY <2>3 DEF InnerCutGives
<1>15. NodeFits(left, total_pages, p) /\ NodeFits(right, total_pages + 1, total_pages)
  <2>1. ~(p >= total_pages) /\ ~(total_pages >= total_pages + 1)
    BY <1>3, <1>8, <1>13, BTreeAssumption DEF Pages
  <2>2. Room("internal") = internal_max_keys
    BY DEF Room
  <2>3. /\ Len(right.keys) <= internal_max_keys
        /\ Len(right.children) = Len(right.keys) + 1
    BY <1>10, <1>11, BTreeAssumption
  <2> QED BY <2>1, <2>2, <2>3, <1>10, <1>11 DEF NodeFits
<1>16. TypedPages(nodes', total_pages + 1)
  BY <1>3, <1>4, <1>8, <1>13, <1>14, <1>15, PartedTyped
<1>17. key \in Keys /\ key = V[p].keys[mid + 1]
  <2>1. V[p].keys \in Seq(Keys)
    BY <1>3, RecordOf
  <2>2. mid + 1 \in 1 .. Len(V[p].keys)
    BY <1>3, <1>10
  <2> QED BY <2>1, <2>2, <1>3
<1> HIDE DEF key
<1>18. work'.old = p /\ work'.key = key /\ work'.new = total_pages /\ work'.parent = V[p].parent
  BY <1>1, <1>3 DEF Work
<1>19. IsCut(V, nodes', T, lev, R, p, key, total_pages)
  BY <1>14, <1>17
<1>20. \E U, l, S, d, rk :
              /\ Holds(nodes', root_page_id, total_pages + 1, "parent", work', U, l, S, d, rk)
              /\ LeavesCut(T, lev, U, l, p, total_pages)
  BY <1>3, <1>4, <1>7, <1>8, <1>13, <1>16, <1>17, <1>18, <1>19, CutHolds
<1>21. PICK U, l, S, d, rk :
              /\ Holds(nodes', root_page_id, total_pages + 1, "parent", work', U, l, S, d, rk)
              /\ LeavesCut(T, lev, U, l, p, total_pages)
  BY <1>20
<1>22. LeavesKept(nodes, nodes', T, lev, U, l)
  <2> SUFFICES ASSUME NEW x \in Pages
               PROVE  /\ IsLeaf(U, l, x) <=> IsLeaf(T, lev, x)
                      /\ IsLeaf(T, lev, x) =>
                            nodes'[x].keys = nodes[x].keys /\ nodes'[x].values = nodes[x].values
    BY DEF LeavesKept
  <2>1. IsLeaf(T, lev, x) => x # p /\ x # total_pages
    BY <1>3, <1>13 DEF IsLeaf
  <2> QED BY <2>1, <1>3, <1>14, <1>21 DEF LeavesCut
<1> QED BY <1>1, <1>21, <1>22

(* Before the first insertion. *)
Empty(V, r, used, s, w) ==
    V = [p \in Pages |-> Zeros] /\ r = INVALID_PAGE_ID /\ used = 0 /\ s = "idle" /\ WorkTyped(s, w)

HasTree(V, r, used, s, w) == \E T, lev, R, c, rank : Holds(V, r, used, s, w, T, lev, R, c, rank)

Grown(V, r, used, s, w) == Empty(V, r, used, s, w) \/ HasTree(V, r, used, s, w)

TreeInv ==
    /\ deletes \in 0 .. MaxDeletes
    /\ Grown(nodes, root_page_id, total_pages, step, work)

(* A page of zeros, and a page that was made a leaf. *)
LEMMA ZerosTyped ==
    /\ Zeros \in Node /\ Zeros.type = "none" /\ Zeros.keys = <<>> /\ Zeros.children = <<>>
    /\ Zeros.parent = INVALID_PAGE_ID /\ Zeros.next = INVALID_PAGE_ID /\ Zeros.values = <<>>
<1>1. <<>> \in Seq(Keys) /\ <<>> \in Seq(Values) /\ <<>> \in Seq(Pages)
  OBVIOUS
<1> QED BY <1>1 DEF Zeros, Node, PageIds

(* The node that is written for a leaf. *)
LEMMA LeafNode ==
    ASSUME NEW ks \in Seq(Keys), NEW vs \in Seq(Values), NEW q \in PageIds, NEW x \in PageIds
    PROVE  /\ Leaf(ks, vs, q, x) \in Node /\ Leaf(ks, vs, q, x).type = "leaf"
           /\ Leaf(ks, vs, q, x).keys = ks /\ Leaf(ks, vs, q, x).values = vs
           /\ Leaf(ks, vs, q, x).children = <<>> /\ Leaf(ks, vs, q, x).parent = q
           /\ Leaf(ks, vs, q, x).next = x
<1>1. <<>> \in Seq(Pages)
  OBVIOUS
<1> QED BY <1>1 DEF Leaf, Node

(* A sequence of one. *)
LEMMA SingleEntry ==
    ASSUME NEW S, NEW x \in S
    PROVE  <<x>> \in Seq(S) /\ Len(<<x>>) = 1 /\ <<x>>[1] = x
OBVIOUS

(* A file without pages is well typed. *)
LEMMA EmptyTyped ==
    ASSUME NEW V, V = [p \in Pages |-> Zeros]
    PROVE  TypedPages(V, 0)
<1>1. V \in [Pages -> Node]
  BY ZerosTyped
<1>2. ASSUME NEW p \in Pages PROVE NodeFits(V[p], 0, p)
  <2>1. V[p] = Zeros /\ p >= 0
    BY BTreeAssumption DEF Pages
  <2>2. Len(<<>>) = 0 /\ Room("none") \in Nat
    BY BTreeAssumption DEF Room
  <2>3. Len(<<>>) <= Room("none")
    BY <2>2
  <2> QED BY <2>1, <2>3, ZerosTyped DEF NodeFits
<1> QED BY <1>1, <1>2 DEF TypedPages

(* The first leaf. *)
FirstLeaf(W, r, k, v) ==
    W = [[p \in Pages |-> Zeros] EXCEPT ![r] = Leaf(<<k>>, <<v>>, INVALID_PAGE_ID, INVALID_PAGE_ID)]

(* The first insertion makes a leaf of one entry. *)
LEMMA FirstLeafFacts ==
    ASSUME NEW W, NEW r \in Pages, r = 0, NEW k \in Keys, NEW v \in Values, FirstLeaf(W, r, k, v)
    PROVE  /\ TypedPages(W, 1) /\ LeafOK(W[r], Int) /\ W[r].parent = INVALID_PAGE_ID
           /\ W[r].keys = <<k>> /\ W[r].values = <<v>>
           /\ \A x \in Pages \ {r} : W[x] = Zeros
           /\ \A x \in Pages : W[x].next = INVALID_PAGE_ID
<1> DEFINE n == Leaf(<<k>>, <<v>>, INVALID_PAGE_ID, INVALID_PAGE_ID)
           V == [p \in Pages |-> Zeros]
<1>1. <<k>> \in Seq(Keys) /\ <<v>> \in Seq(Values) /\ INVALID_PAGE_ID \in PageIds
  BY DEF PageIds
<1>2. /\ n \in Node /\ n.type = "leaf" /\ n.keys = <<k>> /\ n.values = <<v>> /\ n.children = <<>>
      /\ n.parent = INVALID_PAGE_ID /\ n.next = INVALID_PAGE_ID
  <2> DEFINE ks == <<k>>
             vs == <<v>>
             m == Leaf(ks, vs, INVALID_PAGE_ID, INVALID_PAGE_ID)
  <2>1. ks \in Seq(Keys) /\ vs \in Seq(Values) /\ n = m
    BY <1>1
  <2> HIDE DEF ks, vs
  <2>2. /\ m \in Node /\ m.type = "leaf" /\ m.keys = ks /\ m.values = vs /\ m.children = <<>>
        /\ m.parent = INVALID_PAGE_ID /\ m.next = INVALID_PAGE_ID
    BY <1>1, <2>1, LeafNode
  <2> HIDE DEF m, n
  <2> QED BY <2>1, <2>2 DEF ks, vs
<1>3. W = [V EXCEPT ![r] = n]
  BY DEF FirstLeaf
<1> HIDE DEF n
<1>4. W[r] = n /\ \A x \in Pages \ {r} : W[x] = Zeros
  BY <1>3
<1>5. W \in [Pages -> Node]
  <2>1. V \in [Pages -> Node]
    BY ZerosTyped
  <2> HIDE DEF V
  <2> QED BY <2>1, <1>2, <1>3
<1>6. Len(<<k>>) = 1 /\ Len(<<v>>) = 1 /\ <<k>>[1] = k
  OBVIOUS
<1>7. k \in Int
  BY BTreeAssumption
<1>8. LeafOK(n, Int)
  <2> DEFINE ks == <<k>>
  <2>1. ks \in Seq(Int) /\ Len(ks) = 1 /\ ks[1] = k
    BY <1>7
  <2>2. n.keys = ks
    BY <1>2
  <2> HIDE DEF ks
  <2>3. \A i \in 1 .. Len(ks) : i = 1
    BY <2>1
  <2>4. Sorted(ks)
    BY <2>3 DEF Sorted
  <2>5. \A i \in 1 .. Len(ks) : ks[i] \in Int
    BY <2>1, <2>3, <1>7
  <2> QED BY <2>1, <2>2, <2>4, <2>5, <1>2 DEF LeafOK
<1>9. ASSUME NEW p \in Pages PROVE NodeFits(W[p], 1, p)
  <2>1. CASE p = r
    <3>1. ~(p >= 1)
      BY <2>1
    <3>2. Len(n.keys) = 1 /\ Len(n.values) = 1
      BY <1>2, <1>6
    <3>3. Len(n.keys) <= Room("leaf")
      BY <3>2, BTreeAssumption DEF Room
    <3> QED BY <2>1, <3>1, <3>2, <3>3, <1>2, <1>4 DEF NodeFits
  <2>2. CASE p # r
    <3>1. W[p] = Zeros
      BY <2>2, <1>4
    <3>2. p >= 1
      BY <2>2, BTreeAssumption DEF Pages
    <3>3. Len(<<>>) = 0 /\ Room("none") \in Nat
      BY BTreeAssumption DEF Room
    <3>4. Len(<<>>) <= Room("none")
      BY <3>3
    <3> QED BY <3>1, <3>2, <3>4, ZerosTyped DEF NodeFits
  <2> QED BY <2>1, <2>2
<1>10. \A x \in Pages : W[x].next = INVALID_PAGE_ID
  BY <1>2, <1>4, ZerosTyped
<1> QED BY <1>2, <1>4, <1>5, <1>8, <1>9, <1>10 DEF TypedPages

FirstLeaves(r, T, lev) == \A x \in Pages : IsLeaf(T, lev, x) <=> x = r

(* The first insertion makes a tree. *)
LEMMA CreateRootHolds ==
    ASSUME NEW k \in Keys, NEW v \in CTIDs[k],
           Empty(nodes, root_page_id, total_pages, step, work), CreateRootAndInsert(k, v)
    PROVE  \E T, lev, R, c, rank :
              /\ Holds(nodes', root_page_id', total_pages', step', work', T, lev, R, c, rank)
              /\ FirstLeaves(0, T, lev)
<1> DEFINE r == 0
           T == {r}
           lev == [x \in Pages |-> 0]
           R == [x \in Pages |-> Int]
           c == <<r>>
           rank == [x \in Pages |-> 0]
<1>1. /\ FirstLeaf(nodes', r, k, v) /\ root_page_id' = r /\ total_pages' = 1
      /\ step' = "idle" /\ work' = work /\ WorkTyped("idle", work) /\ 0 < MaxPages
  BY DEF Empty, CreateRootAndInsert, Put, FirstLeaf
<1>2. r \in Pages /\ 1 \in 0 .. MaxPages /\ MaxPages \in Nat
  BY <1>1, BTreeAssumption DEF Pages
<1>3. v \in Values
  BY ValueOf
<1>4. /\ TypedPages(nodes', 1) /\ LeafOK(nodes'[r], Int) /\ nodes'[r].parent = INVALID_PAGE_ID
      /\ \A x \in Pages \ {r} : nodes'[x] = Zeros
      /\ \A x \in Pages : nodes'[x].next = INVALID_PAGE_ID
  BY <1>1, <1>2, <1>3, FirstLeafFacts
<1>5. lev[r] = 0 /\ R[r] = Int /\ \A x \in Pages : lev[x] = 0 /\ R[x] = Int /\ rank[x] = 0
  BY <1>2
<1>6. c \in Seq(Pages) /\ Len(c) = 1 /\ c[1] = r
  BY <1>2, SingleEntry
<1> HIDE DEF lev, R, c, rank
<1>7. IsTree(nodes', r, {r}, lev, R)
  BY <1>2, <1>4, <1>5, FirstTree
<1>8. \A x \in Pages : IsLeaf(T, lev, x) <=> x = r
  BY <1>5 DEF IsLeaf
<1>9. \A i \in 1 .. Len(c) : i = 1 /\ i = Len(c) /\ c[i] = r
  BY <1>6
<1> HIDE DEF r, T
<1>10. IsChain(nodes', T, lev, R, c)
  <2>1. Len(c) > 0 /\ c[1] = 0 /\ 1 \in 1 .. Len(c)
    BY <1>6 DEF r
  <2>2. \A i \in 1 .. Len(c) : IsLeaf(T, lev, c[i])
    BY <1>2, <1>8, <1>9
  <2>3. \A p \in Pages : IsLeaf(T, lev, p) => \E i \in 1 .. Len(c) : c[i] = p
    BY <1>6, <1>8, <2>1
  <2>4. \A i \in 1 .. Len(c) : nodes'[c[i]].next = IF i = Len(c) THEN INVALID_PAGE_ID ELSE c[i + 1]
    BY <1>2, <1>4, <1>9
  <2>5. \A i, j \in 1 .. Len(c) : i < j => Precedes(R[c[i]], R[c[j]])
    <3>1. \A i, j \in 1 .. Len(c) : ~(i < j)
      BY <1>9
    <3> QED BY <3>1
  <2> QED BY <2>1, <2>2, <2>3, <2>4, <2>5, <1>6 DEF IsChain
<1>11. Ranked(nodes', 1, rank)
  BY <1>4, <1>5 DEF Ranked
<1>12. NonEmpty(nodes', r, T, lev, INVALID_PAGE_ID)
  BY DEF NonEmpty, T
<1>13. Shape(nodes', r, 1, INVALID_PAGE_ID, T, lev, R, c, rank)
  BY <1>7, <1>10, <1>11, <1>12 DEF Shape, T
<1>14. Holds(nodes', r, 1, "idle", work, T, lev, R, c, rank)
  BY <1>1, <1>2, <1>4, <1>13, HoldsIdle
<1>15. FirstLeaves(0, T, lev)
  BY <1>8 DEF FirstLeaves, r
<1>16. Holds(nodes', root_page_id', total_pages', step', work', T, lev, R, c, rank)
  BY <1>1, <1>14
<1> QED BY <1>15, <1>16

(* The invariant holds at first. *)
LEMMA InitHolds == Init => TreeInv
<1>1. WorkTyped("idle", Nothing)
  BY NothingTyped
<1>2. 0 \in 0 .. MaxDeletes
  BY BTreeAssumption
<1> QED BY <1>1, <1>2 DEF Init, TreeInv, Grown, Empty

(* Where there is a tree there is a root. *)
LEMMA HasTreeRoot ==
    ASSUME NEW V, NEW r, NEW used, NEW s, NEW w, HasTree(V, r, used, s, w)
    PROVE  r # INVALID_PAGE_ID
BY NoPage DEF HasTree, Holds

(* The bound of deletes is kept. *)
LEMMA DeletesStep ==
    ASSUME deletes \in 0 .. MaxDeletes, [Next]_vars
    PROVE  deletes' \in 0 .. MaxDeletes
<1>1. ASSUME NEW k \in Keys, Delete(k) PROVE deletes' \in 0 .. MaxDeletes
  BY <1>1, BTreeAssumption DEF Delete
<1>2. CASE UNCHANGED deletes
  BY <1>2
<1>3. ASSUME NEW k \in Keys, NEW v \in CTIDs[k],
             CreateRootAndInsert(k, v) \/ InsertIntoLeaf(k, v) \/ SplitLeaf(k, v)
      PROVE  UNCHANGED deletes
  BY <1>3 DEF CreateRootAndInsert, InsertIntoLeaf, SplitLeaf
<1>4. ASSUME DuplicateKey \/ KeyNotFound \/ CreateNewRoot \/ InsertIntoParent \/ SplitInternal
             \/ MergeLeaf \/ NoMerge \/ UNCHANGED vars
      PROVE  UNCHANGED deletes
  BY <1>4 DEF DuplicateKey, KeyNotFound, CreateNewRoot, InsertIntoParent, SplitInternal,
              MergeLeaf, NoMerge, vars
<1> QED BY <1>1, <1>2, <1>3, <1>4 DEF Next

(* Every step keeps the invariant: before the first insertion, and after it. *)
LEMMA EmptyStep ==
    ASSUME Empty(nodes, root_page_id, total_pages, step, work), [Next]_vars
    PROVE  Grown(nodes', root_page_id', total_pages', step', work')
<1>1. root_page_id = INVALID_PAGE_ID /\ step = "idle"
  BY DEF Empty
<1>2. ASSUME NEW k \in Keys, NEW v \in CTIDs[k], CreateRootAndInsert(k, v)
      PROVE  Grown(nodes', root_page_id', total_pages', step', work')
  BY <1>2, CreateRootHolds DEF Grown, HasTree
<1>3. ASSUME NEW k \in Keys, NEW v \in CTIDs[k], InsertIntoLeaf(k, v) \/ SplitLeaf(k, v)
      PROVE  FALSE
  BY <1>1, <1>3 DEF InsertIntoLeaf, SplitLeaf
<1>4. ASSUME NEW k \in Keys, Delete(k) PROVE FALSE
  BY <1>1, <1>4 DEF Delete
<1>5. ~(CreateNewRoot \/ InsertIntoParent \/ SplitInternal \/ MergeLeaf \/ NoMerge)
  BY <1>1 DEF CreateNewRoot, InsertIntoParent, SplitInternal, MergeLeaf, NoMerge
<1>6. ASSUME DuplicateKey \/ KeyNotFound \/ UNCHANGED vars
      PROVE  Grown(nodes', root_page_id', total_pages', step', work')
  <2>1. UNCHANGED vars
    BY <1>6 DEF DuplicateKey, KeyNotFound
  <2>2. /\ nodes' = nodes /\ root_page_id' = root_page_id /\ total_pages' = total_pages
        /\ step' = step /\ work' = work
    BY <2>1 DEF vars
  <2> QED BY <2>2 DEF Grown
<1> QED BY <1>2, <1>3, <1>4, <1>5, <1>6 DEF Next

LEMMA TreeStep ==
    ASSUME HasTree(nodes, root_page_id, total_pages, step, work), [Next]_vars
    PROVE  HasTree(nodes', root_page_id', total_pages', step', work')
<1>1. PICK T, lev, R, c, rank :
         Holds(nodes, root_page_id, total_pages, step, work, T, lev, R, c, rank)
  BY DEF HasTree
<1>2. ASSUME NEW k \in Keys, NEW v \in CTIDs[k], CreateRootAndInsert(k, v)
      PROVE  FALSE
  BY <1>2, HasTreeRoot DEF CreateRootAndInsert
<1>3. ASSUME NEW k \in Keys, NEW v \in CTIDs[k], InsertIntoLeaf(k, v)
      PROVE  HasTree(nodes', root_page_id', total_pages', step', work')
  BY <1>1, <1>3, InsertIntoLeafHolds DEF HasTree
<1>4. ASSUME NEW k \in Keys, NEW v \in CTIDs[k], SplitLeaf(k, v)
      PROVE  HasTree(nodes', root_page_id', total_pages', step', work')
  BY <1>1, <1>4, SplitLeafHolds DEF HasTree
<1>5. ASSUME NEW k \in Keys, Delete(k)
      PROVE  HasTree(nodes', root_page_id', total_pages', step', work')
  BY <1>1, <1>5, DeleteHolds DEF HasTree
<1>6. CASE CreateNewRoot
  BY <1>1, <1>6, CreateNewRootHolds DEF HasTree
<1>7. CASE InsertIntoParent
  BY <1>1, <1>7, InsertIntoParentHolds DEF HasTree
<1>8. CASE SplitInternal
  BY <1>1, <1>8, SplitInternalHolds DEF HasTree
<1>9. CASE MergeLeaf
  BY <1>1, <1>9, MergeLeafHolds DEF HasTree
<1>10. CASE NoMerge
  BY <1>1, <1>10, NoMergeHolds DEF HasTree
<1>11. ASSUME DuplicateKey \/ KeyNotFound \/ UNCHANGED vars
       PROVE  HasTree(nodes', root_page_id', total_pages', step', work')
  <2>1. UNCHANGED vars
    BY <1>11 DEF DuplicateKey, KeyNotFound
  <2>2. /\ nodes' = nodes /\ root_page_id' = root_page_id /\ total_pages' = total_pages
        /\ step' = step /\ work' = work
    BY <2>1 DEF vars
  <2> QED BY <2>2
<1> QED BY <1>2, <1>3, <1>4, <1>5, <1>6, <1>7, <1>8, <1>9, <1>10, <1>11 DEF Next

(* The inductive invariant holds: the file is empty, or the nodes, with the *)
(* child that a split has left for the parent attached, are a tree whose    *)
(* leaves the chain has in the order of their keys.  This is of every state,*)
(* also between two levels of a split (tree.rs, insert_into_parent) and     *)
(* between a delete and its merge (merge_leaf). *)
THEOREM TreeInvInvariant == Spec => []TreeInv
<1>1. Init => TreeInv
  BY InitHolds
<1>2. TreeInv /\ [Next]_vars => TreeInv'
  <2> SUFFICES ASSUME TreeInv, [Next]_vars PROVE TreeInv'
    OBVIOUS
  <2>1. deletes' \in 0 .. MaxDeletes
    BY DeletesStep DEF TreeInv
  <2>2. Grown(nodes', root_page_id', total_pages', step', work')
    BY EmptyStep, TreeStep DEF TreeInv, Grown
  <2> QED BY <2>1, <2>2 DEF TreeInv
<1> QED BY <1>1, <1>2, PTL DEF Spec

(* The invariant has the types of the state. *)
LEMMA TreeInvTypes == TreeInv => TypeOK
<1> SUFFICES ASSUME TreeInv PROVE TypeOK
  OBVIOUS
<1>1. /\ TypedPages(nodes, total_pages) /\ total_pages \in 0 .. MaxPages
      /\ root_page_id \in PageIds /\ WorkTyped(step, work)
  <2>1. CASE Empty(nodes, root_page_id, total_pages, step, work)
    <3>1. TypedPages(nodes, 0)
      BY <2>1, EmptyTyped DEF Empty
    <3>2. 0 \in 0 .. MaxPages
      BY BTreeAssumption
    <3> QED BY <2>1, <3>1, <3>2 DEF Empty, PageIds
  <2>2. CASE HasTree(nodes, root_page_id, total_pages, step, work)
    BY <2>2 DEF HasTree, Holds, PageIds
  <2> QED BY <2>1, <2>2 DEF TreeInv, Grown
<1>2. ASSUME NEW p \in Pages
      PROVE  LET n == nodes[p] IN
             /\ n.type \in {"none", "leaf", "internal"}
             /\ n.type = "none" <=> p >= total_pages
             /\ n.keys \in Seq(Keys) /\ Len(n.keys) <= Room(n.type)
             /\ n.values \in Seq(UNION Range(CTIDs))
             /\ n.type = "leaf" => Len(n.values) = Len(n.keys)
             /\ n.children \in Seq(Pages)
             /\ n.type = "internal" => Len(n.children) = Len(n.keys) + 1
             /\ n.parent \in PageIds /\ n.next \in PageIds
  <2>1. nodes[p] \in Node /\ NodeFits(nodes[p], total_pages, p)
    BY <1>1 DEF TypedPages
  <2> QED BY <2>1, RecordOf DEF NodeFits, Values
<1>3. deletes \in 0 .. MaxDeletes
  BY DEF TreeInv
<1> QED BY <1>1, <1>2, <1>3 DEF TypeOK, WorkTyped

(* Pages of one level cover different keys. *)
LEMMA LevelDisjoint ==
    ASSUME NEW V, NEW r, NEW T, NEW lev, NEW R, IsTree(V, r, T, lev, R)
    PROVE  \A x, y \in T : \A z \in Int :
              lev[x] = lev[y] /\ z \in R[x] /\ z \in R[y] => x = y
<1>1. r \in T /\ \A x \in T : lev[x] \in Nat /\ lev[x] <= lev[r] /\ R[x] \subseteq Int
  <2>1. \A x \in T : lev[x] \in Nat /\ lev[x] <= lev[r] /\ R[x] \subseteq Int
    BY RangeFacts
  <2> QED BY <2>1 DEF IsTree
<1>2. \A x \in T : x # r => V[x].parent \in T /\ lev[V[x].parent] # 0 /\ lev[x] + 1 = lev[V[x].parent]
  BY ParentFacts
<1>3. \A x \in T : lev[x] = lev[r] => x = r
  <2> SUFFICES ASSUME NEW x \in T, lev[x] = lev[r], x # r PROVE FALSE
    OBVIOUS
  <2>1. V[x].parent \in T /\ lev[x] + 1 = lev[V[x].parent]
    BY <1>2
  <2>2. lev[V[x].parent] <= lev[r] /\ lev[V[x].parent] \in Nat /\ lev[r] \in Nat
    BY <2>1, <1>1
  <2> QED BY <2>1, <2>2
<1> DEFINE Same(n) == \A x, y \in T : \A z \in Int :
              lev[r] - lev[x] = n /\ lev[x] = lev[y] /\ z \in R[x] /\ z \in R[y] => x = y
           S == { n \in Nat : Same(n) }
<1>4. 0 \in S
  <2>1. ASSUME NEW x \in T, NEW y \in T, lev[r] - lev[x] = 0, lev[x] = lev[y] PROVE x = y
    <3>1. lev[x] = lev[r] /\ lev[y] = lev[r]
      BY <2>1, <1>1
    <3> QED BY <3>1, <1>3
  <2> QED BY <2>1
<1>5. ASSUME NEW n \in S PROVE n + 1 \in S
  <2>1. ASSUME NEW x \in T, NEW y \in T, NEW z \in Int, lev[r] - lev[x] = n + 1, lev[x] = lev[y],
               z \in R[x], z \in R[y]
        PROVE  x = y
    <3> DEFINE q == V[x].parent
               u == V[y].parent
    <3>1. n \in Nat /\ x # r /\ y # r
      BY <2>1, <1>1
    <3>2. /\ q \in T /\ lev[q] # 0 /\ lev[x] + 1 = lev[q]
          /\ u \in T /\ lev[u] # 0 /\ lev[y] + 1 = lev[u]
      BY <3>1, <1>2
    <3>3. PICK i \in 1 .. Len(V[q].children) : V[q].children[i] = x
      BY <3>1, ParentFacts
    <3>4. PICK j \in 1 .. Len(V[u].children) : V[u].children[j] = y
      BY <3>1, ParentFacts
    <3> HIDE DEF q, u
    <3>5. z \in R[q] /\ Between(V[q].keys, i, z)
      BY <2>1, <3>2, <3>3, ChildFacts
    <3>6. z \in R[u] /\ Between(V[u].keys, j, z)
      BY <2>1, <3>2, <3>4, ChildFacts
    <3>7. lev[r] - lev[q] = n /\ lev[q] = lev[u]
      BY <3>1, <3>2, <2>1, <1>1
    <3>8. q = u
      BY <3>2, <3>5, <3>6, <3>7
    <3>9. /\ V[q].keys \in Seq(Int) /\ Sorted(V[q].keys)
          /\ Len(V[q].children) = Len(V[q].keys) + 1
      BY <3>2, <3>3, ChildFacts
    <3>10. i = j
      BY <3>4, <3>5, <3>6, <3>8, <3>9, BetweenOnce
    <3> QED BY <3>3, <3>4, <3>8, <3>10
  <2> QED BY <2>1
<1>6. S = Nat
  <2> HIDE DEF S
  <2>1. S \in SUBSET Nat
    BY DEF S
  <2> QED BY <1>4, <1>5, <2>1, EveryRound
<1>7. \A x \in T : Same(lev[r] - lev[x])
  <2> TAKE x \in T
  <2>1. lev[r] - lev[x] \in Nat
    BY <1>1
  <2> DEFINE n == lev[r] - lev[x]
  <2>2. n \in S
    <3> HIDE DEF S, n
    <3> QED BY <2>1, <1>6 DEF n
  <2> HIDE DEF n, Same
  <2>3. Same(n)
    BY <2>2
  <2> QED BY <2>3 DEF n
<1> QED BY <1>7

(* A page that covers something a higher one covers lies below it. *)
LEMMA LevelNested ==
    ASSUME NEW V, NEW r, NEW T, NEW lev, NEW R, IsTree(V, r, T, lev, R)
    PROVE  \A x, y \in T : \A z \in Int :
              lev[x] <= lev[y] /\ z \in R[x] /\ z \in R[y] => R[x] \subseteq R[y]
<1>1. r \in T /\ \A x \in T : lev[x] \in Nat /\ lev[x] <= lev[r] /\ R[x] \subseteq Int
  <2>1. \A x \in T : lev[x] \in Nat /\ lev[x] <= lev[r] /\ R[x] \subseteq Int
    BY RangeFacts
  <2> QED BY <2>1 DEF IsTree
<1>2. \A x \in T : x # r => V[x].parent \in T /\ lev[V[x].parent] # 0 /\ lev[x] + 1 = lev[V[x].parent]
  BY ParentFacts
<1> DEFINE Inside(n) == \A x, y \in T : \A z \in Int :
              lev[y] - lev[x] = n /\ z \in R[x] /\ z \in R[y] => R[x] \subseteq R[y]
           S == { n \in Nat : Inside(n) }
<1>3. 0 \in S
  <2>1. ASSUME NEW x \in T, NEW y \in T, NEW z \in Int, lev[y] - lev[x] = 0, z \in R[x], z \in R[y]
        PROVE  x = y
    <3>1. lev[x] = lev[y]
      BY <2>1, <1>1
    <3> QED BY <3>1, <2>1, LevelDisjoint
  <2> QED BY <2>1
<1>4. ASSUME NEW n \in S PROVE n + 1 \in S
  <2>1. ASSUME NEW x \in T, NEW y \in T, NEW z \in Int, lev[y] - lev[x] = n + 1,
               z \in R[x], z \in R[y]
        PROVE  R[x] \subseteq R[y]
    <3> DEFINE q == V[x].parent
    <3>1. n \in Nat /\ x # r
      <4>1. n \in Nat /\ lev[x] < lev[y] /\ lev[y] <= lev[r] /\ lev[x] \in Nat /\ lev[y] \in Nat
            /\ lev[r] \in Nat
        BY <2>1, <1>1
      <4> QED BY <4>1
    <3>2. q \in T /\ lev[q] # 0 /\ lev[x] + 1 = lev[q]
      BY <3>1, <1>2
    <3>3. PICK i \in 1 .. Len(V[q].children) : V[q].children[i] = x
      BY <3>1, ParentFacts
    <3> HIDE DEF q
    <3>4. \A t \in Int : t \in R[x] => t \in R[q]
      BY <3>2, <3>3, ChildFacts
    <3>5. R[x] \subseteq R[q] /\ z \in R[q]
      BY <3>4, <2>1, <1>1
    <3>6. lev[y] - lev[q] = n
      <4>1. lev[x] \in Nat /\ lev[y] \in Nat /\ lev[q] \in Nat
        BY <3>2, <1>1
      <4> QED BY <4>1, <3>1, <3>2, <2>1
    <3>7. R[q] \subseteq R[y]
      BY <3>2, <3>5, <3>6, <2>1
    <3> QED BY <3>5, <3>7
  <2> QED BY <2>1
<1>5. S = Nat
  <2> HIDE DEF S
  <2>1. S \in SUBSET Nat
    BY DEF S
  <2> QED BY <1>3, <1>4, <2>1, EveryRound
<1>6. \A x, y \in T : lev[x] <= lev[y] => Inside(lev[y] - lev[x])
  <2> TAKE x, y \in T
  <2> HAVE lev[x] <= lev[y]
  <2>1. lev[y] - lev[x] \in Nat
    BY <1>1
  <2> DEFINE n == lev[y] - lev[x]
  <2>2. n \in S
    <3> HIDE DEF S, n
    <3> QED BY <2>1, <1>5 DEF n
  <2> HIDE DEF n, Inside
  <2>3. Inside(n)
    BY <2>2
  <2> QED BY <2>3 DEF n
<1> QED BY <1>6

-----------------------------------------------------------------------------
(* The pages below a page *)

PagesBelow(T, lev, R, p) == { x \in T : lev[x] <= lev[p] /\ R[x] \subseteq R[p] }

(* The pages below a page are the page and those below its children. *)
LEMMA BelowChildren ==
    ASSUME NEW V, NEW r, NEW T, NEW lev, NEW R, IsTree(V, r, T, lev, R), NEW p \in T
    PROVE  \A x : x \in PagesBelow(T, lev, R, p) <=>
                     \/ x = p
                     \/ \E i \in 1 .. Len(V[p].children) : x \in PagesBelow(T, lev, R, V[p].children[i])
<1>1. \A x \in T : lev[x] \in Nat /\ R[x] \subseteq Int /\ R[x] # {}
  BY RangeFacts
<1>2. lev[p] = 0 => 1 .. Len(V[p].children) = {}
  <2> SUFFICES ASSUME lev[p] = 0 PROVE 1 .. Len(V[p].children) = {}
    OBVIOUS
  <2>1. V[p].children = <<>>
    BY DEF IsTree, PageOK, LeafOK
  <2>2. Len(<<>>) = 0 /\ 1 .. 0 = {}
    OBVIOUS
  <2> QED BY <2>1, <2>2
<1>3. ASSUME NEW i \in 1 .. Len(V[p].children), NEW x, x \in PagesBelow(T, lev, R, V[p].children[i])
      PROVE  x \in PagesBelow(T, lev, R, p)
  <2> DEFINE c == V[p].children[i]
  <2>1. lev[p] # 0
    BY <1>2
  <2>2. c \in T /\ lev[c] + 1 = lev[p] /\ \A z \in Int : z \in R[c] => z \in R[p]
    BY <2>1, ChildFacts
  <2>3. x \in T /\ lev[x] <= lev[c] /\ R[x] \subseteq R[c]
    BY <1>3 DEF PagesBelow
  <2> HIDE DEF c
  <2>4. R[x] \subseteq R[p]
    BY <2>2, <2>3, <1>1
  <2>5. lev[x] <= lev[p]
    BY <2>2, <2>3, <1>1
  <2> QED BY <2>3, <2>4, <2>5 DEF PagesBelow
<1>4. p \in PagesBelow(T, lev, R, p)
  BY <1>1 DEF PagesBelow
<1>5. ASSUME NEW x \in PagesBelow(T, lev, R, p), x # p
      PROVE  \E i \in 1 .. Len(V[p].children) : x \in PagesBelow(T, lev, R, V[p].children[i])
  <2>1. x \in T /\ lev[x] <= lev[p] /\ R[x] \subseteq R[p]
    BY DEF PagesBelow
  <2>2. PICK z \in R[x] : z \in Int /\ z \in R[p]
    BY <2>1, <1>1
  <2>3. lev[x] # lev[p]
    BY <2>1, <2>2, <1>5, LevelDisjoint
  <2>4. lev[x] < lev[p] /\ lev[p] # 0
    BY <2>1, <2>3, <1>1
  <2>5. PageOK(V, r, T, lev, R, p) /\ InnerOK(V[p])
    BY <2>4 DEF IsTree, PageOK
  <2> DEFINE ks == V[p].keys
             i == Cardinality({ j \in DOMAIN ks : ks[j] <= z }) + 1
  <2>6. ks \in Seq(Int) /\ Sorted(ks) /\ Len(V[p].children) = Len(ks) + 1
    BY <2>5 DEF InnerOK
  <2>7. i \in 1 .. Len(ks) + 1 /\ Between(ks, i, z)
    <3> HIDE DEF ks
    <3> QED BY <2>2, <2>6, ChildBetween DEF ks
  <2> HIDE DEF i
  <2>8. i \in 1 .. Len(V[p].children)
    BY <2>6, <2>7
  <2> DEFINE c == V[p].children[i]
  <2>9. c \in T /\ lev[c] + 1 = lev[p] /\ z \in R[c]
    BY <2>2, <2>4, <2>7, <2>8, ChildFacts
  <2> HIDE DEF c
  <2>10. lev[x] <= lev[c]
    BY <2>1, <2>4, <2>9, <1>1
  <2>11. R[x] \subseteq R[c]
    BY <2>1, <2>2, <2>9, <2>10, LevelNested
  <2>12. x \in PagesBelow(T, lev, R, c)
    BY <2>1, <2>10, <2>11 DEF PagesBelow
  <2> QED BY <2>8, <2>12 DEF c
<1> QED BY <1>3, <1>4, <1>5

BelowWalk(f, V) == f = [p \in Pages |-> {p} \union UNION { f[c] : c \in Range(V[p].children) }]

BelowWitness(T, lev, R) == [p \in Pages |-> IF p \in T THEN PagesBelow(T, lev, R, p) ELSE {p}]

(* The same for a union over the children. *)
LEMMA ChildrenIn ==
    ASSUME NEW V \in [Pages -> Node], NEW p \in Pages, NEW f
    PROVE  \A x : x \in {p} \union UNION { f[c] : c \in Range(V[p].children) } <=>
                     x = p \/ \E i \in 1 .. Len(V[p].children) : x \in f[V[p].children[i]]
<1>1. V[p].children \in Seq(Pages)
  BY RecordOf
<1>2. DOMAIN V[p].children = 1 .. Len(V[p].children)
  BY <1>1
<1> QED BY <1>2 DEF Range

(* The walk that collects the pages below a page is a function: each call   *)
(* goes one level down. *)
LEMMA BelowWalkExists ==
    ASSUME NEW V \in [Pages -> Node], NEW r, NEW T, NEW lev, NEW R, IsTree(V, r, T, lev, R)
    PROVE  \E f : BelowWalk(f, V)
<1> DEFINE f == BelowWitness(T, lev, R)
<1>1. T \subseteq Pages
  BY DEF IsTree
<1>2. ASSUME NEW p \in Pages
      PROVE  f[p] = {p} \union UNION { f[c] : c \in Range(V[p].children) }
  <2>1. \A x : x \in {p} \union UNION { f[c] : c \in Range(V[p].children) } <=>
                     x = p \/ \E i \in 1 .. Len(V[p].children) : x \in f[V[p].children[i]]
    <3> HIDE DEF f
    <3> QED BY ChildrenIn
  <2>2. CASE p \in T
    <3>1. f[p] = PagesBelow(T, lev, R, p)
      BY <2>2 DEF BelowWitness
    <3>2. \A i \in 1 .. Len(V[p].children) :
             f[V[p].children[i]] = PagesBelow(T, lev, R, V[p].children[i])
      <4>1. CASE lev[p] = 0
        <5>1. V[p].children = <<>>
          BY <2>2, <4>1 DEF IsTree, PageOK, LeafOK
        <5>2. Len(<<>>) = 0 /\ 1 .. 0 = {}
          OBVIOUS
        <5> QED BY <5>1, <5>2
      <4>2. CASE lev[p] # 0
        <5>1. \A i \in 1 .. Len(V[p].children) : V[p].children[i] \in T
          BY <2>2, <4>2, ChildFacts
        <5> QED BY <5>1, <1>1 DEF BelowWitness
      <4> QED BY <4>1, <4>2
    <3> HIDE DEF f
    <3>3. \A x : x \in f[p] <=> x \in {p} \union UNION { f[c] : c \in Range(V[p].children) }
      <4>1. \A x : x \in PagesBelow(T, lev, R, p) <=>
                     x = p \/ \E i \in 1 .. Len(V[p].children) : x \in PagesBelow(T, lev, R, V[p].children[i])
        BY <2>2, BelowChildren
      <4> TAKE x
      <4>2. (\E i \in 1 .. Len(V[p].children) : x \in PagesBelow(T, lev, R, V[p].children[i])) <=>
               \E i \in 1 .. Len(V[p].children) : x \in f[V[p].children[i]]
        BY <3>2
      <4>3. x \in f[p] <=> x = p \/ \E i \in 1 .. Len(V[p].children) : x \in f[V[p].children[i]]
        BY <4>1, <4>2, <3>1
      <4> QED BY <4>3, <2>1
    <3> QED BY <3>3
  <2>3. CASE p \notin T
    <3>1. V[p].children = <<>>
      BY <2>3 DEF IsTree, FreeOK
    <3>2. Len(<<>>) = 0 /\ 1 .. 0 = {}
      OBVIOUS
    <3>3. f[p] = {p}
      BY <2>3 DEF BelowWitness
    <3> HIDE DEF f
    <3>4. \A x : x \in f[p] <=> x \in {p} \union UNION { f[c] : c \in Range(V[p].children) }
      BY <2>1, <3>1, <3>2, <3>3
    <3> QED BY <3>4
  <2> QED BY <2>2, <2>3
<1>3. f = [p \in Pages |-> f[p]]
  BY DEF BelowWitness
<1> HIDE DEF f
<1>4. BelowWalk(f, V)
  BY <1>2, <1>3 DEF BelowWalk
<1> QED BY <1>4

(* What is reachable from the root is the tree. *)
LEMMA ReachableIsTree ==
    ASSUME NEW T, NEW lev, NEW R, IsTree(nodes, root_page_id, T, lev, R), nodes \in [Pages -> Node]
    PROVE  Reachable = T
<1> DEFINE below == CHOOSE f : BelowWalk(f, nodes)
<1>1. BelowWalk(below, nodes)
  BY BelowWalkExists
<1>2. root_page_id \in T /\ T \subseteq Pages /\ R[root_page_id] = Int /\ root_page_id # INVALID_PAGE_ID
  BY NoPage DEF IsTree
<1>3. Reachable = below[root_page_id]
  BY <1>2 DEF Reachable, BelowWalk
<1> HIDE DEF below
<1>4. ASSUME NEW p \in Pages
      PROVE  \A x : x \in below[p] <=>
                       x = p \/ \E i \in 1 .. Len(nodes[p].children) : x \in below[nodes[p].children[i]]
  <2>1. below[p] = {p} \union UNION { below[c] : c \in Range(nodes[p].children) }
    BY <1>1 DEF BelowWalk
  <2>2. \A x : x \in {p} \union UNION { below[c] : c \in Range(nodes[p].children) } <=>
                   x = p \/ \E i \in 1 .. Len(nodes[p].children) : x \in below[nodes[p].children[i]]
    BY ChildrenIn
  <2> QED BY <2>1, <2>2
<1>5. \A p \in T : lev[p] \in Nat /\ R[p] \subseteq Int /\ lev[p] <= lev[root_page_id]
  BY RangeFacts
<1> DEFINE Sub(n) == \A p \in T : lev[p] = n => \A x : x \in below[p] <=> x \in PagesBelow(T, lev, R, p)
           S == { n \in Nat : Sub(n) }
<1>6. 0 \in S
  <2>1. ASSUME NEW p \in T, lev[p] = 0, NEW x PROVE x \in below[p] <=> x \in PagesBelow(T, lev, R, p)
    <3>1. nodes[p].children = <<>>
      BY <2>1 DEF IsTree, PageOK, LeafOK
    <3>2. Len(<<>>) = 0 /\ 1 .. 0 = {}
      OBVIOUS
    <3>3. 1 .. Len(nodes[p].children) = {}
      BY <3>1, <3>2
    <3>4. x \in PagesBelow(T, lev, R, p) <=> x = p
      BY <3>3, BelowChildren
    <3>5. x \in below[p] <=> x = p
      BY <3>3, <1>2, <1>4
    <3> QED BY <3>4, <3>5
  <2> QED BY <2>1
<1>7. ASSUME NEW n \in S PROVE n + 1 \in S
  <2>1. ASSUME NEW p \in T, lev[p] = n + 1, NEW x
        PROVE  x \in below[p] <=> x \in PagesBelow(T, lev, R, p)
    <3>1. lev[p] # 0 /\ n \in Nat /\ p \in Pages
      BY <2>1, <1>2
    <3>2. \A i \in 1 .. Len(nodes[p].children) :
             nodes[p].children[i] \in T /\ lev[nodes[p].children[i]] = n
      <4> TAKE i \in 1 .. Len(nodes[p].children)
      <4>1. nodes[p].children[i] \in T /\ lev[nodes[p].children[i]] + 1 = lev[p]
            /\ lev[nodes[p].children[i]] \in Nat
        BY <3>1, ChildFacts
      <4> QED BY <4>1, <2>1, <3>1
    <3>3. \A i \in 1 .. Len(nodes[p].children) :
             x \in below[nodes[p].children[i]] <=> x \in PagesBelow(T, lev, R, nodes[p].children[i])
      BY <3>2
    <3>4. x \in PagesBelow(T, lev, R, p) <=>
             x = p \/ \E i \in 1 .. Len(nodes[p].children) : x \in PagesBelow(T, lev, R, nodes[p].children[i])
      BY BelowChildren
    <3>5. x \in below[p] <=>
             x = p \/ \E i \in 1 .. Len(nodes[p].children) : x \in below[nodes[p].children[i]]
      BY <3>1, <1>4
    <3> QED BY <3>3, <3>4, <3>5
  <2>2. n + 1 \in Nat
    OBVIOUS
  <2> QED BY <2>1, <2>2
<1>8. S = Nat
  <2> HIDE DEF S
  <2>1. S \in SUBSET Nat
    BY DEF S
  <2> QED BY <1>6, <1>7, <2>1, EveryRound
<1>9. lev[root_page_id] \in S
  <2> HIDE DEF S
  <2> QED BY <1>2, <1>5, <1>8
<1>10. \A x : x \in below[root_page_id] <=> x \in PagesBelow(T, lev, R, root_page_id)
  BY <1>2, <1>9
<1>11. \A x : x \in PagesBelow(T, lev, R, root_page_id) <=> x \in T
  BY <1>2, <1>5 DEF PagesBelow
<1> QED BY <1>3, <1>10, <1>11

(* There is a largest rank. *)
LEMMA RankBound ==
    ASSUME NEW V, NEW used, NEW rank, Ranked(V, used, rank)
    PROVE  \E most \in Nat : \A p \in Pages : rank[p] <= most
<1> DEFINE S == { n \in Nat : \E most \in Nat : \A p \in Pages : p < n => rank[p] <= most }
<1>1. \A p \in Pages : rank[p] \in Nat /\ p \in Nat
  BY BTreeAssumption DEF Ranked, Pages
<1>2. 0 \in S
  <2>1. \A p \in Pages : ~(p < 0)
    BY <1>1
  <2> QED BY <2>1
<1>3. ASSUME NEW n \in S PROVE n + 1 \in S
  <2>1. PICK most \in Nat : \A p \in Pages : p < n => rank[p] <= most
    OBVIOUS
  <2> DEFINE more == IF n \in Pages THEN most + rank[n] ELSE most
  <2>2. n \in Nat /\ more \in Nat /\ most <= more /\ (n \in Pages => rank[n] <= more)
    BY <1>1
  <2> HIDE DEF more
  <2>3. ASSUME NEW p \in Pages, p < n + 1 PROVE rank[p] <= more
    <3>1. p < n \/ p = n
      BY <2>2, <2>3, <1>1
    <3>2. CASE p < n
      <4>1. rank[p] <= most /\ rank[p] \in Nat
        BY <3>2, <2>1, <1>1
      <4> QED BY <4>1, <2>2
    <3>3. CASE p = n
      BY <3>3, <2>2
    <3> QED BY <3>1, <3>2, <3>3
  <2> QED BY <2>2, <2>3
<1>4. S = Nat
  <2> HIDE DEF S
  <2>1. S \in SUBSET Nat
    BY DEF S
  <2> QED BY <1>2, <1>3, <2>1, EveryRound
<1>5. MaxPages \in S
  <2> HIDE DEF S
  <2> QED BY <1>4, BTreeAssumption
<1>6. \A p \in Pages : p < MaxPages
  BY BTreeAssumption DEF Pages
<1> QED BY <1>5, <1>6

(* A recursion along the next pointers ends. *)
IsAlong(f, V, e, comb) ==
    \A p \in PageIds : f[p] = IF p = INVALID_PAGE_ID THEN e ELSE comb[<<p, f[V[p].next]>>]

(* A recursion along the next pointers is a function: each step has a       *)
(* smaller rank. *)
LEMMA AlongExists ==
    ASSUME NEW V \in [Pages -> Node], NEW used, NEW rank, Ranked(V, used, rank),
           NEW Val, NEW e \in Val, NEW comb \in [PageIds \X Val -> Val]
    PROVE  \E f \in [PageIds -> Val] : IsAlong(f, V, e, comb)
<1> DEFINE B == {INVALID_PAGE_ID}
           b == [p \in PageIds |-> e]
           succ == [p \in PageIds |-> IF p \in B THEN p ELSE V[p].next]
           m == [p \in PageIds |-> IF p \in B THEN 0 ELSE rank[p] + 1]
<1>1. \A p \in PageIds : p \in B \/ p \in Pages
  BY DEF PageIds
<1>2. \A p \in Pages : V[p].next \in PageIds /\ rank[p] \in Nat /\ p # INVALID_PAGE_ID /\ p \in PageIds
  BY RecordOf, NoPage DEF Ranked, PageIds
<1>3. b \in [PageIds -> Val]
  OBVIOUS
<1>5. succ \in [PageIds -> PageIds]
  BY <1>1, <1>2
<1>6. PICK most \in Nat : \A p \in Pages : rank[p] <= most
  BY RankBound
<1>7. m \in [PageIds -> Nat] /\ \A p \in PageIds : m[p] <= most + 1
  <2>1. ASSUME NEW p \in PageIds PROVE m[p] \in Nat /\ m[p] <= most + 1
    <3>1. CASE p \in B
      BY <3>1
    <3>2. CASE p \notin B
      <4>1. rank[p] \in Nat /\ rank[p] <= most /\ m[p] = rank[p] + 1
        BY <3>2, <1>1, <1>2, <1>6
      <4> QED BY <4>1
    <3> QED BY <3>1, <3>2
  <2>2. m = [p \in PageIds |-> m[p]]
    OBVIOUS
  <2> HIDE DEF m
  <2> QED BY <2>1, <2>2
<1>8. \A p \in PageIds : p \notin B => m[succ[p]] < m[p]
  <2> TAKE p \in PageIds
  <2> HAVE p \notin B
  <2> DEFINE q == V[p].next
  <2>1. p \in Pages /\ succ[p] = q /\ q \in PageIds /\ m[p] = rank[p] + 1 /\ rank[p] \in Nat
    BY <1>1, <1>2
  <2>2. CASE q = INVALID_PAGE_ID
    <3>1. m[q] = 0
      BY <2>1, <2>2
    <3> HIDE DEF m, succ
    <3> QED BY <2>1, <3>1
  <2>3. CASE q # INVALID_PAGE_ID
    <3>1. q \in Pages /\ rank[q] < rank[p] /\ rank[q] \in Nat
      BY <2>1, <2>3, <1>2 DEF Ranked
    <3>2. m[q] = rank[q] + 1
      BY <2>1, <2>3
    <3> HIDE DEF m, succ
    <3> QED BY <2>1, <3>1, <3>2
  <2> QED BY <2>2, <2>3
<1>9. PICK f \in [PageIds -> Val] : IsRecursion(f, PageIds, B, b, comb, succ)
  <2>1. most + 1 \in Nat
    BY <1>6
  <2> HIDE DEF B, b, succ, m
  <2> QED BY <1>3, <1>5, <1>7, <1>8, <2>1, LinearRecursion
<1>10. \A p \in PageIds : f[p] = IF p = INVALID_PAGE_ID THEN e ELSE comb[<<p, f[V[p].next]>>]
  <2> TAKE p \in PageIds
  <2>1. f[p] = IF p \in B THEN b[p] ELSE comb[<<p, f[succ[p]]>>]
    BY <1>9 DEF IsRecursion
  <2>2. p \notin B => succ[p] = V[p].next
    OBVIOUS
  <2>3. b[p] = e
    OBVIOUS
  <2> QED BY <2>1, <2>2, <2>3
<1> QED BY <1>10 DEF IsAlong

ChainWalk(f, V) == f = [p \in PageIds |-> IF p = INVALID_PAGE_ID THEN <<>> ELSE <<p>> \o f[V[p].next]]

(* The chain that starts at a page is such a recursion. *)
LEMMA ChainWalkExists ==
    ASSUME NEW V \in [Pages -> Node], NEW used, NEW rank, Ranked(V, used, rank)
    PROVE  \E f \in [PageIds -> Seq(Pages)] : ChainWalk(f, V)
<1> DEFINE comb == [z \in PageIds \X Seq(Pages) |->
                       IF z[1] \in Pages THEN <<z[1]>> \o z[2] ELSE <<>>]
<1>1. <<>> \in Seq(Pages)
  OBVIOUS
<1>2. comb \in [PageIds \X Seq(Pages) -> Seq(Pages)]
  <2>1. ASSUME NEW x \in Pages, NEW u \in Seq(Pages) PROVE <<x>> \o u \in Seq(Pages)
    OBVIOUS
  <2>2. \A z \in PageIds \X Seq(Pages) :
           (IF z[1] \in Pages THEN <<z[1]>> \o z[2] ELSE <<>>) \in Seq(Pages)
    <3> TAKE z \in PageIds \X Seq(Pages)
    <3>1. z[2] \in Seq(Pages)
      OBVIOUS
    <3>2. z[1] \in Pages => <<z[1]>> \o z[2] \in Seq(Pages)
      BY <3>1, <2>1
    <3> QED BY <3>2, <1>1
  <2> QED BY <2>2
<1>3. \A x \in PageIds : \A u \in Seq(Pages) :
         comb[<<x, u>>] = IF x \in Pages THEN <<x>> \o u ELSE <<>>
  OBVIOUS
<1> HIDE DEF comb
<1>4. PICK f \in [PageIds -> Seq(Pages)] : IsAlong(f, V, <<>>, comb)
  BY <1>1, <1>2, AlongExists
<1>5. \A p \in PageIds : f[p] = IF p = INVALID_PAGE_ID THEN <<>> ELSE <<p>> \o f[V[p].next]
  <2> TAKE p \in PageIds
  <2>1. p # INVALID_PAGE_ID => p \in Pages /\ V[p].next \in PageIds
    BY RecordOf DEF PageIds
  <2>2. f[p] = IF p = INVALID_PAGE_ID THEN <<>> ELSE comb[<<p, f[V[p].next]>>]
    BY <1>4 DEF IsAlong
  <2> QED BY <2>1, <2>2, <1>3
<1>6. f = [p \in PageIds |-> f[p]]
  OBVIOUS
<1> QED BY <1>5, <1>6 DEF ChainWalk

(* Sequences are equal that have the same length and elements. *)
LEMMA SameSequence ==
    ASSUME NEW S, NEW s \in Seq(S), NEW t \in Seq(S), Len(s) = Len(t),
           \A i \in 1 .. Len(s) : s[i] = t[i]
    PROVE  s = t
<1>1. s = [i \in 1 .. Len(s) |-> s[i]] /\ t = [i \in 1 .. Len(t) |-> t[i]]
  OBVIOUS
<1> QED BY <1>1

(* The rest of a sequence from a place on is the element there, and the rest*)
(* behind it. *)
LEMMA ConsPart ==
    ASSUME NEW S, NEW c \in Seq(S), NEW i \in 1 .. Len(c), NEW u \in Seq(S),
           IsPart(c, i, Len(c) - i, u)
    PROVE  <<c[i]>> \o u \in Seq(S) /\ IsPart(c, i - 1, Len(c) - i + 1, <<c[i]>> \o u)
<1> DEFINE n == Len(c)
           h == <<c[i]>>
           a == i - 1
           t == h \o u
<1>1. n \in Nat /\ i \in Int /\ 1 <= i /\ i <= n /\ c[i] \in S
  OBVIOUS
<1>2. h \in Seq(S) /\ Len(h) = 1 /\ h[1] = c[i]
  BY <1>1
<1> HIDE DEF h
<1>3. t \in Seq(S) /\ IsJoined(h, u, t)
  BY <1>2, Joined
<1> HIDE DEF t, n
<1>4. Len(u) = n - i /\ \A j \in 1 .. n - i : u[j] = c[i + j]
  BY DEF IsPart, n
<1>5. Len(t) = n - i + 1
  BY <1>1, <1>2, <1>3, <1>4 DEF IsJoined
<1>6. t[1] = c[i]
  BY <1>2, <1>3 DEF IsJoined
<1>7. ASSUME NEW j \in 1 .. n - i + 1 PROVE t[j] = c[i - 1 + j]
  <2>1. CASE j = 1
    BY <2>1, <1>1, <1>6
  <2>2. CASE j # 1
    <3> DEFINE k == j - 1
    <3>1. k \in 1 .. n - i /\ 1 + k = j /\ i + k = i - 1 + j
      BY <2>2, <1>1
    <3> HIDE DEF k
    <3>2. t[1 + k] = u[k]
      BY <3>1, <1>2, <1>3, <1>4 DEF IsJoined
    <3>3. u[k] = c[i + k]
      BY <3>1, <1>4
    <3> QED BY <3>1, <3>2, <3>3
  <2> QED BY <2>1, <2>2
<1>8. IsPart(c, i - 1, n - i + 1, t)
  BY <1>5, <1>7 DEF IsPart
<1> QED BY <1>3, <1>8 DEF n, t, h

(* The chain that is read from the first page is that of the invariant. *)
LEMMA ChainIsRead ==
    ASSUME NEW T, NEW lev, NEW R, NEW c, IsChain(nodes, T, lev, R, c), T \subseteq Pages,
           nodes \in [Pages -> Node], NEW used, NEW rank, Ranked(nodes, used, rank), total_pages # 0
    PROVE  Chain = c
<1> DEFINE from == CHOOSE f : ChainWalk(f, nodes)
           n == Len(c)
<1>1. ChainWalk(from, nodes)
  BY ChainWalkExists
<1>2. Chain = from[0]
  BY DEF Chain, ChainWalk
<1> HIDE DEF from
<1>3. \A p \in PageIds : from[p] = IF p = INVALID_PAGE_ID THEN <<>> ELSE <<p>> \o from[nodes[p].next]
  BY <1>1 DEF ChainWalk
<1>4. /\ c \in Seq(Pages) /\ n > 0 /\ c[1] = 0 /\ n \in Nat
      /\ \A i \in 1 .. n : nodes[c[i]].next = IF i = n THEN INVALID_PAGE_ID ELSE c[i + 1]
  BY DEF IsChain
<1>5. \A i \in 1 .. n : c[i] \in Pages /\ c[i] \in PageIds /\ c[i] # INVALID_PAGE_ID
  BY <1>4, NoPage DEF PageIds
<1>6. from[INVALID_PAGE_ID] = <<>>
  BY <1>3 DEF PageIds
<1> DEFINE Rest(i) == from[c[i]] \in Seq(Pages) /\ IsPart(c, i - 1, n - i + 1, from[c[i]])
           S == { k \in Nat : \A i \in 1 .. n : n - i = k => Rest(i) }
<1>7. ASSUME NEW i \in 1 .. n, NEW u \in Seq(Pages), IsPart(c, i, n - i, u), from[c[i]] = <<c[i]>> \o u
      PROVE  Rest(i)
  BY <1>4, <1>7, ConsPart
<1>8. ASSUME NEW i \in 1 .. n PROVE from[c[i]] = <<c[i]>> \o from[nodes[c[i]].next]
  BY <1>3, <1>5
<1> HIDE DEF n
<1>9. 0 \in S
  <2>1. ASSUME NEW i \in 1 .. n, n - i = 0 PROVE Rest(i)
    <3>1. i = n /\ nodes[c[i]].next = INVALID_PAGE_ID
      BY <2>1, <1>4
    <3>2. from[c[i]] = <<c[i]>> \o <<>>
      BY <3>1, <1>6, <1>8
    <3>3. <<>> \in Seq(Pages) /\ Len(<<>>) = 0
      OBVIOUS
    <3>4. IsPart(c, i, n - i, <<>>)
      BY <2>1, <3>3 DEF IsPart
    <3> HIDE DEF Rest
    <3> QED BY <3>2, <3>3, <3>4, <1>7
  <2> HIDE DEF Rest
  <2> QED BY <2>1
<1>10. ASSUME NEW k \in S PROVE k + 1 \in S
  <2>1. ASSUME NEW i \in 1 .. n, n - i = k + 1 PROVE Rest(i)
    <3> DEFINE j == i + 1
    <3>1. k \in Nat /\ i # n /\ j \in 1 .. n /\ n - j = k /\ j - 1 = i /\ n - j + 1 = n - i
      BY <2>1, <1>4
    <3>2. nodes[c[i]].next = c[j]
      BY <3>1, <1>4
    <3> HIDE DEF j
    <3>3. Rest(j)
      <4> HIDE DEF Rest
      <4> QED BY <3>1
    <3>4. from[c[j]] \in Seq(Pages) /\ IsPart(c, i, n - i, from[c[j]])
      BY <3>1, <3>3
    <3>5. from[c[i]] = <<c[i]>> \o from[c[j]]
      BY <3>2, <1>8
    <3> HIDE DEF Rest
    <3> QED BY <3>4, <3>5, <1>7
  <2>2. k + 1 \in Nat
    OBVIOUS
  <2> HIDE DEF Rest
  <2> QED BY <2>1, <2>2
<1>11. S = Nat
  <2> HIDE DEF S
  <2>1. S \in SUBSET Nat
    BY DEF S
  <2> QED BY <1>9, <1>10, <2>1, EveryRound
<1>12. n - 1 \in S
  <2>1. n - 1 \in Nat
    BY <1>4
  <2> HIDE DEF S
  <2> QED BY <2>1, <1>11
<1>13. Rest(1)
  <2>1. 1 \in 1 .. n
    BY <1>4
  <2> HIDE DEF Rest
  <2> QED BY <2>1, <1>12
<1>14. from[0] \in Seq(Pages) /\ IsPart(c, 0, n, from[0])
  <2>1. 1 - 1 = 0 /\ n - 1 + 1 = n
    BY <1>4
  <2> QED BY <2>1, <1>4, <1>13
<1>15. from[0] = c
  <2>1. Len(from[0]) = Len(c) /\ \A i \in 1 .. Len(c) : from[0][i] = c[0 + i]
    BY <1>14 DEF IsPart, n
  <2>2. \A i \in 1 .. Len(c) : 0 + i = i
    OBVIOUS
  <2>3. \A i \in 1 .. Len(from[0]) : from[0][i] = c[i]
    BY <2>1, <2>2
  <2> QED BY <2>1, <2>3, <1>4, <1>14, SameSequence
<1> QED BY <1>2, <1>15

(* Between operations: what is reachable from the root is the tree, and    *)
(* the chain from the first page is the leaves. *)
LEMMA IdleFacts ==
    ASSUME NEW T, NEW lev, NEW R, NEW c, NEW rank, step = "idle",
           Holds(nodes, root_page_id, total_pages, step, work, T, lev, R, c, rank)
    PROVE  /\ IsTree(nodes, root_page_id, T, lev, R) /\ IsChain(nodes, T, lev, R, c)
           /\ NonEmpty(nodes, root_page_id, T, lev, INVALID_PAGE_ID)
           /\ Reachable = T /\ Chain = c /\ nodes \in [Pages -> Node] /\ T \subseteq Pages
           /\ root_page_id # INVALID_PAGE_ID /\ root_page_id \in T
           /\ TypedPages(nodes, total_pages) /\ total_pages # 0
<1>1. /\ Shape(nodes, root_page_id, total_pages, INVALID_PAGE_ID, T, lev, R, c, rank)
      /\ IsTree(nodes, root_page_id, T, lev, R)
      /\ TypedPages(nodes, total_pages) /\ total_pages \in Nat
  BY IdleShape
<1>2. /\ IsChain(nodes, T, lev, R, c) /\ NonEmpty(nodes, root_page_id, T, lev, INVALID_PAGE_ID)
      /\ Ranked(nodes, total_pages, rank)
  BY <1>1 DEF Shape
<1>3. nodes \in [Pages -> Node]
  BY <1>1 DEF TypedPages
<1>4. T \subseteq Pages /\ root_page_id \in T /\ root_page_id # INVALID_PAGE_ID
  BY <1>1, NoPage DEF IsTree
<1>5. total_pages # 0
  <2>1. root_page_id < total_pages
    BY <1>1, <1>4, TreeIsAllocated
  <2>2. root_page_id \in Pages
    BY <1>4
  <2> QED BY <2>1, <2>2, BTreeAssumption DEF Pages
<1>6. Reachable = T
  BY <1>1, <1>3, ReachableIsTree
<1>7. Chain = c
  BY <1>2, <1>3, <1>4, <1>5, ChainIsRead
<1> QED BY <1>1, <1>2, <1>3, <1>4, <1>5, <1>6, <1>7

(* A sequence without repetitions has as many elements as places. *)
LEMMA DistinctCount ==
    ASSUME NEW S, NEW c \in Seq(S), \A i, j \in 1 .. Len(c) : c[i] = c[j] => i = j
    PROVE  Cardinality(Range(c)) = Len(c)
<1> DEFINE n == Len(c)
<1>1. n \in Nat /\ DOMAIN c = 1 .. n
  OBVIOUS
<1>2. c \in [1 .. n -> Range(c)] /\ \A x \in Range(c) : \E i \in 1 .. n : c[i] = x
  BY <1>1 DEF Range
<1>3. c \in Bijection(1 .. n, Range(c))
  BY <1>2 DEF Bijection, Injection, Surjection, IsInjective
<1>4. ExistsBijection(1 .. n, Range(c))
  BY <1>3 DEF ExistsBijection
<1> HIDE DEF n
<1>5. Cardinality(Range(c)) = n
  BY <1>1, <1>4, FS_CountingElements
<1> QED BY <1>5 DEF n

(* Before the first insertion nothing can be reached. *)
LEMMA EmptyIdle ==
    ASSUME Empty(nodes, root_page_id, total_pages, step, work)
    PROVE  Reachable = {} /\ Chain = <<>> /\ root_page_id = INVALID_PAGE_ID
<1>1. root_page_id = INVALID_PAGE_ID /\ total_pages = 0
  BY DEF Empty
<1>2. Reachable = {}
  BY <1>1 DEF Reachable
<1>3. Chain = <<>>
  BY <1>1 DEF Chain
<1> QED BY <1>1, <1>2, <1>3

(* What the invariant means for the properties: parent pointers, chain and  *)
(* leaves. *)
LEMMA SoundInTree ==
    ASSUME NEW T, NEW lev, NEW R, NEW c, NEW rank, step = "idle",
           Holds(nodes, root_page_id, total_pages, step, work, T, lev, R, c, rank)
    PROVE  ParentsAreRight /\ ChainIsLeaves /\ NoEmptyLeafBesideAnother
<1>1. /\ IsTree(nodes, root_page_id, T, lev, R) /\ IsChain(nodes, T, lev, R, c)
      /\ NonEmpty(nodes, root_page_id, T, lev, INVALID_PAGE_ID)
      /\ Reachable = T /\ Chain = c /\ nodes \in [Pages -> Node] /\ T \subseteq Pages
      /\ root_page_id # INVALID_PAGE_ID /\ root_page_id \in T
  BY IdleFacts
<1>2. ASSUME NEW p \in T, NEW x \in Range(nodes[p].children)
      PROVE  x \in T /\ nodes[x].parent = p /\ x # root_page_id /\ lev[p] # 0
  <2>1. nodes[p] \in Node
    BY <1>1
  <2>2. IsChild(nodes[p], x)
    BY <2>1, ChildrenOf
  <2>3. PICK i \in 1 .. Len(nodes[p].children) : nodes[p].children[i] = x
    BY <2>2 DEF IsChild
  <2>4. lev[p] # 0
    <3> SUFFICES ASSUME lev[p] = 0 PROVE FALSE
      OBVIOUS
    <3>1. nodes[p].children = <<>>
      BY <1>1 DEF IsTree, PageOK, LeafOK
    <3>2. Len(<<>>) = 0 /\ 1 .. 0 = {}
      OBVIOUS
    <3> QED BY <2>3, <3>1, <3>2
  <2> QED BY <1>1, <2>3, <2>4, ChildFacts
<1>3. ParentsAreRight
  <2>1. nodes[root_page_id].parent = INVALID_PAGE_ID
    BY <1>1 DEF IsTree
  <2>2. \A p \in T : \A x \in Range(nodes[p].children) : nodes[x].parent = p
    BY <1>2
  <2> QED BY <1>1, <2>1, <2>2 DEF ParentsAreRight
<1>4. \A p \in T : nodes[p].type = "leaf" <=> lev[p] = 0
  <2> TAKE p \in T
  <2>1. PageOK(nodes, root_page_id, T, lev, R, p)
    BY <1>1 DEF IsTree
  <2> QED BY <2>1 DEF PageOK, LeafOK, InnerOK
<1>5. ChainIsLeaves
  <2>1. c \in Seq(Pages)
    BY <1>1 DEF IsChain
  <2>2. DOMAIN c = 1 .. Len(c)
    BY <2>1
  <2>3. \A x : x \in Range(c) <=> \E i \in 1 .. Len(c) : c[i] = x
    BY <2>2 DEF Range
  <2>4. \A i \in 1 .. Len(c) : c[i] \in T /\ lev[c[i]] = 0
    BY <1>1 DEF IsChain, IsLeaf
  <2>5. \A p \in T : lev[p] = 0 => \E i \in 1 .. Len(c) : c[i] = p
    BY <1>1 DEF IsChain, IsLeaf
  <2>6. \A x : x \in Range(c) <=> x \in T /\ nodes[x].type = "leaf"
    BY <1>4, <2>3, <2>4, <2>5
  <2>7. Range(c) = { p \in T : nodes[p].type = "leaf" }
    BY <2>6
  <2>8. \A i, j \in 1 .. Len(c) : c[i] = c[j] => i = j
    BY <1>1, ChainPlaces
  <2>9. Cardinality(Range(c)) = Len(c)
    BY <2>1, <2>8, DistinctCount
  <2> QED BY <1>1, <2>7, <2>9 DEF ChainIsLeaves
<1>6. NoEmptyLeafBesideAnother
  <2> SUFFICES ASSUME NEW p \in T, Len(nodes[p].children) > 1,
                      NEW x \in Range(nodes[p].children), nodes[x].type = "leaf"
               PROVE  nodes[x].keys # <<>>
    BY <1>1 DEF NoEmptyLeafBesideAnother
  <2>1. x \in T /\ nodes[x].parent = p /\ x # root_page_id
    BY <1>2
  <2>2. lev[x] = 0 /\ x # INVALID_PAGE_ID
    BY <2>1, <1>1, <1>4, NoPage
  <2> QED BY <2>1, <2>2, <1>1 DEF NonEmpty
<1> QED BY <1>3, <1>5, <1>6

(* They hold of an empty file as well. *)
LEMMA EmptySound ==
    ASSUME Empty(nodes, root_page_id, total_pages, step, work)
    PROVE  ParentsAreRight /\ ChainIsLeaves /\ NoEmptyLeafBesideAnother
<1>1. Reachable = {} /\ Chain = <<>>
  BY EmptyIdle
<1>2. Range(<<>>) = {} /\ Len(<<>>) = 0 /\ Cardinality({}) = 0
  <2>1. DOMAIN <<>> = {}
    OBVIOUS
  <2>2. Range(<<>>) = {}
    BY <2>1 DEF Range
  <2>3. Cardinality({}) = 0
    BY FS_EmptySet
  <2> QED BY <2>2, <2>3
<1>3. ParentsAreRight
  BY <1>1 DEF ParentsAreRight
<1>4. ChainIsLeaves
  BY <1>1, <1>2 DEF ChainIsLeaves
<1>5. NoEmptyLeafBesideAnother
  BY <1>1 DEF NoEmptyLeafBesideAnother
<1> QED BY <1>3, <1>4, <1>5

(* TreeIsSound: no node ever holds more than its page has room for, and     *)
(* between two operations, whatever was inserted and deleted, every page    *)
(* that can be reached from the root says who its parent is, and the chain  *)
(* that range_search follows meets every leaf of the tree, once, and no     *)
(* other page. *)
THEOREM TreeIsAlwaysSound == Spec => []TreeIsSound
<1>1. TreeInv => TreeIsSound
  <2> SUFFICES ASSUME TreeInv PROVE TreeIsSound
    OBVIOUS
  <2>1. TypeOK
    BY TreeInvTypes
  <2>2. ASSUME step = "idle" PROVE ParentsAreRight /\ ChainIsLeaves
    <3>1. CASE Empty(nodes, root_page_id, total_pages, step, work)
      BY <3>1, EmptySound
    <3>2. CASE HasTree(nodes, root_page_id, total_pages, step, work)
      BY <3>2, <2>2, SoundInTree DEF HasTree
    <3> QED BY <3>1, <3>2 DEF TreeInv, Grown
  <2> QED BY <2>1, <2>2 DEF TreeIsSound
<1> QED BY <1>1, TreeInvInvariant, PTL

(* NoEmptyLeafBesideAnother: a delete leaves no empty leaf whose parent has *)
(* another child (tree.rs, delete and merge_leaf): a leaf that has nothing  *)
(* left can always be merged with its neighbour. *)
THEOREM NoLeafIsEmptyBesideAnother == Spec => []NoEmptyLeafBesideAnother
<1>1. TreeInv => NoEmptyLeafBesideAnother
  <2> SUFFICES ASSUME TreeInv, step = "idle" PROVE NoEmptyLeafBesideAnother
    BY DEF NoEmptyLeafBesideAnother
  <2>1. CASE Empty(nodes, root_page_id, total_pages, step, work)
    BY <2>1, EmptySound
  <2>2. CASE HasTree(nodes, root_page_id, total_pages, step, work)
    BY <2>2, SoundInTree DEF HasTree
  <2> QED BY <2>1, <2>2 DEF TreeInv, Grown
<1> QED BY <1>1, TreeInvInvariant, PTL

-----------------------------------------------------------------------------
(* The entries of the leaves *)

HasEntry(n, k, v) == \E i \in 1 .. Len(n.keys) : n.keys[i] = k /\ n.values[i] = v

EntryAt(V, T, lev, k, v) == \E x \in Pages : IsLeaf(T, lev, x) /\ HasEntry(V[x], k, v)

(* What every state says of the leaves. *)
LeavesOK(V, T, lev, R) ==
    /\ \A x \in Pages : IsLeaf(T, lev, x) =>
          /\ LeafOK(V[x], R[x]) /\ V[x] \in Node /\ Len(V[x].values) = Len(V[x].keys)
          /\ R[x] \subseteq Int
    /\ \A x, y \in Pages : IsLeaf(T, lev, x) /\ IsLeaf(T, lev, y) =>
          \A z \in Int : z \in R[x] /\ z \in R[y] => x = y

(* The next pointers and the leaves are the same before the parent has got *)
(* the new child and after it. *)
LEMMA AttachedSame ==
    ASSUME NEW T, NEW lev, NEW R, NEW c, NEW rank,
           Holds(nodes, root_page_id, total_pages, step, work, T, lev, R, c, rank),
           NEW V, V = WithWork(nodes, step, work, total_pages)
    PROVE  /\ \A x \in Pages : V[x].next = nodes[x].next
           /\ \A x \in Pages : IsLeaf(T, lev, x) =>
                 /\ V[x].type = nodes[x].type /\ V[x].keys = nodes[x].keys
                 /\ V[x].children = nodes[x].children
<1>1. /\ TypedPages(nodes, total_pages) /\ WorkTyped(step, work)
      /\ Shape(V, RootWith(root_page_id, step, work, total_pages),
               total_pages, Waiting(step, work), T, lev, R, c, rank)
      /\ step = "parent" => ClimbOK(root_page_id, total_pages, work, T, lev)
      /\ total_pages \in 0 .. MaxPages
  BY DEF Holds
<1>2. IsTree(V, RootWith(root_page_id, step, work, total_pages), T, lev, R)
  BY <1>1 DEF Shape
<1>3. nodes \in [Pages -> Node] /\ \A x \in Pages : NodeFits(nodes[x], total_pages, x)
  BY <1>1 DEF TypedPages
<1>4. CASE step # "parent"
  <2>1. V = nodes
    BY <1>4 DEF WithWork
  <2> QED BY <2>1
<1>5. CASE step = "parent" /\ work.parent = INVALID_PAGE_ID
  <2>1. V = Attached(nodes, work, total_pages)
    BY <1>5 DEF WithWork
  <2>2. /\ work.old \in Pages /\ work.old < total_pages /\ work.new \in Pages /\ work.new < total_pages
        /\ work.old # work.new /\ total_pages < MaxPages
    BY <1>1, <1>5 DEF ClimbOK
  <2>3. total_pages \in Pages /\ total_pages \in Nat
    BY <1>1, <2>2, BTreeAssumption DEF Pages
  <2>4. work.old # total_pages /\ work.new # total_pages
    BY <2>2, <2>3
  <2>5. GetsRoot(nodes, V, work.old, work.key, work.new, total_pages)
    BY <1>3, <1>5, <2>1, <2>2, <2>3, <2>4, NewRootMade
  <2> DEFINE f == total_pages
             ks == <<work.key>>
             cs == <<work.old, work.new>>
  <2>6. /\ V[f] = Internal(ks, cs, INVALID_PAGE_ID)
        /\ V[work.old] = [nodes[work.old] EXCEPT !.parent = f]
        /\ V[work.new] = [nodes[work.new] EXCEPT !.parent = f]
        /\ \A x \in Pages \ {f, work.old, work.new} : V[x] = nodes[x]
    BY <2>5 DEF GetsRoot
  <2> HIDE DEF f, ks, cs
  <2>7. V[f].next = INVALID_PAGE_ID /\ V[f].type = "internal"
    BY <2>6 DEF Internal
  <2>8. nodes[f].next = INVALID_PAGE_ID
    <3>1. NodeFits(nodes[f], f, f) /\ f >= f
      BY <1>3, <2>3 DEF f
    <3> QED BY <3>1 DEF NodeFits
  <2>9. ASSUME NEW x \in {work.old, work.new}
        PROVE  /\ V[x].next = nodes[x].next /\ V[x].type = nodes[x].type /\ V[x].keys = nodes[x].keys
               /\ V[x].children = nodes[x].children
    <3>1. nodes[x] \in Node /\ V[x] = [nodes[x] EXCEPT !.parent = f]
      BY <1>3, <2>2, <2>6
    <3> QED BY <3>1, ParentChanged
  <2>10. ~IsLeaf(T, lev, f)
    <3>1. lev[f] # 0
      BY <1>2, <2>3, <2>7, LeafType DEF f
    <3> QED BY <3>1 DEF IsLeaf
  <2>11. ASSUME NEW x \in Pages
         PROVE  /\ V[x].next = nodes[x].next
                /\ IsLeaf(T, lev, x) =>
                      /\ V[x].type = nodes[x].type /\ V[x].keys = nodes[x].keys
                      /\ V[x].children = nodes[x].children
    <3>1. CASE x = f
      BY <3>1, <2>7, <2>8, <2>10
    <3>2. CASE x \in {work.old, work.new}
      BY <3>2, <2>9
    <3>3. CASE x \in Pages \ {f, work.old, work.new}
      BY <3>3, <2>6
    <3> QED BY <3>1, <3>2, <3>3
  <2> QED BY <2>11
<1>6. CASE step = "parent" /\ work.parent # INVALID_PAGE_ID
  <2> DEFINE q == work.parent
  <2>1. V = Attached(nodes, work, total_pages)
    BY <1>6 DEF WithWork
  <2>2. /\ q \in T /\ lev[q] # 0 /\ nodes[q] \in Node
        /\ V[q] = WithChild(nodes[q], work.key, work.new)
        /\ \A x \in Pages : x # q => V[x] = nodes[x]
    BY <1>6, <2>1, ParentFound
  <2>3. V[q].next = nodes[q].next
    <3>1. WithChild(nodes[q], work.key, work.new).next = nodes[q].next
      <4> DEFINE n == nodes[q]
      <4>1. n \in Node
        BY <2>2
      <4> HIDE DEF n
      <4>2. WithChild(n, work.key, work.new).next = n.next
        BY <4>1, RecordOf DEF WithChild
      <4> QED BY <4>2 DEF n
    <3> QED BY <2>2, <3>1
  <2>4. ~IsLeaf(T, lev, q)
    BY <2>2 DEF IsLeaf
  <2> QED BY <2>2, <2>3, <2>4
<1> QED BY <1>4, <1>5, <1>6

(* Chain is the chain of the invariant, also while a split or a merge is    *)
(* under way. *)
LEMMA LeavesRead ==
    ASSUME NEW T, NEW lev, NEW R, NEW c, NEW rank,
           Holds(nodes, root_page_id, total_pages, step, work, T, lev, R, c, rank)
    PROVE  /\ Chain = c /\ c \in Seq(Pages)
           /\ \A x : x \in Range(c) <=> x \in Pages /\ IsLeaf(T, lev, x)
           /\ LeavesOK(nodes, T, lev, R)
<1> DEFINE V == WithWork(nodes, step, work, total_pages)
           r == RootWith(root_page_id, step, work, total_pages)
<1>1. /\ TypedPages(nodes, total_pages) /\ total_pages \in 0 .. MaxPages /\ root_page_id \in Pages
      /\ Shape(V, r, total_pages, Waiting(step, work), T, lev, R, c, rank)
  BY DEF Holds
<1>2. /\ \A x \in Pages : V[x].next = nodes[x].next
      /\ \A x \in Pages : IsLeaf(T, lev, x) =>
            /\ V[x].type = nodes[x].type /\ V[x].keys = nodes[x].keys
            /\ V[x].children = nodes[x].children
  BY AttachedSame
<1> HIDE DEF V, r
<1>3. IsTree(V, r, T, lev, R) /\ IsChain(V, T, lev, R, c) /\ Ranked(V, total_pages, rank)
  BY <1>1 DEF Shape
<1>4. T \subseteq Pages
  BY <1>3 DEF IsTree
<1>5. nodes \in [Pages -> Node] /\ \A x \in Pages : NodeFits(nodes[x], total_pages, x)
  BY <1>1 DEF TypedPages
<1>6. IsChain(nodes, T, lev, R, c)
  BY <1>2, <1>3, ChainSame
<1>7. Ranked(nodes, total_pages, rank)
  BY <1>1, <1>2, <1>3, RankedSame
<1>8. ASSUME NEW x \in Pages, IsLeaf(T, lev, x)
      PROVE  /\ LeafOK(nodes[x], R[x]) /\ nodes[x] \in Node /\ Len(nodes[x].values) = Len(nodes[x].keys)
             /\ R[x] \subseteq Int
  <2>1. x \in T /\ lev[x] = 0
    BY <1>8 DEF IsLeaf
  <2>2. PageOK(V, r, T, lev, R, x)
    BY <1>3, <2>1 DEF IsTree
  <2>3. LeafOK(V[x], R[x]) /\ R[x] \subseteq Int
    BY <2>1, <2>2 DEF PageOK, RangeOK
  <2>4. LeafOK(nodes[x], R[x])
    BY <1>2, <1>8, <2>3, LeafOKSame
  <2>5. Len(nodes[x].values) = Len(nodes[x].keys)
    BY <1>5, <2>4 DEF NodeFits, LeafOK
  <2> QED BY <1>5, <2>3, <2>4, <2>5
<1>9. ASSUME NEW x \in Pages, NEW y \in Pages, IsLeaf(T, lev, x), IsLeaf(T, lev, y),
             NEW z \in Int, z \in R[x], z \in R[y]
      PROVE  x = y
  <2>1. x \in T /\ y \in T /\ lev[x] = lev[y]
    BY <1>9 DEF IsLeaf
  <2> QED BY <2>1, <1>3, <1>9, LevelDisjoint
<1>10. LeavesOK(nodes, T, lev, R)
  BY <1>8, <1>9 DEF LeavesOK
<1>11. /\ c \in Seq(Pages) /\ Len(c) > 0
       /\ \A i \in 1 .. Len(c) : IsLeaf(T, lev, c[i])
       /\ \A p \in Pages : IsLeaf(T, lev, p) => \E i \in 1 .. Len(c) : c[i] = p
  BY <1>6 DEF IsChain
<1>12. \A x : x \in Range(c) <=> x \in Pages /\ IsLeaf(T, lev, x)
  <2>1. DOMAIN c = 1 .. Len(c)
    BY <1>11
  <2>2. \A x : x \in Range(c) <=> \E i \in 1 .. Len(c) : c[i] = x
    BY <2>1 DEF Range
  <2>3. \A i \in 1 .. Len(c) : c[i] \in Pages
    BY <1>11
  <2> QED BY <2>2, <2>3, <1>11
<1>13. total_pages # 0
  <2>1. 1 \in 1 .. Len(c)
    BY <1>11
  <2>2. c[1] \in Pages /\ IsLeaf(T, lev, c[1])
    BY <1>11, <2>1
  <2>3. nodes[c[1]].type = "leaf"
    BY <2>2, <1>8 DEF LeafOK
  <2>4. NodeFits(nodes[c[1]], total_pages, c[1])
    BY <2>2, <1>5
  <2>5. ~(c[1] >= total_pages)
    BY <2>3, <2>4 DEF NodeFits
  <2> QED BY <2>2, <2>5, BTreeAssumption DEF Pages
<1>14. Chain = c
  BY <1>4, <1>5, <1>6, <1>7, <1>13, ChainIsRead
<1> QED BY <1>10, <1>11, <1>12, <1>14

(* The entries, read from the chain, are those of the leaves. *)
EntriesIn(E, V, T, lev) ==
    /\ E = [k \in DOMAIN E |-> E[k]]
    /\ \A k : k \in DOMAIN E <=> \E v : EntryAt(V, T, lev, k, v)
    /\ \A k, v : EntryAt(V, T, lev, k, v) => E[k] = v

(* No key is in two places. *)
LEMMA EntryUnique ==
    ASSUME NEW V, NEW T, NEW lev, NEW R, LeavesOK(V, T, lev, R),
           NEW x \in Pages, IsLeaf(T, lev, x), NEW i \in 1 .. Len(V[x].keys),
           NEW y \in Pages, IsLeaf(T, lev, y), NEW j \in 1 .. Len(V[y].keys),
           V[x].keys[i] = V[y].keys[j]
    PROVE  x = y /\ i = j
<1>1. LeafOK(V[x], R[x]) /\ LeafOK(V[y], R[y])
  BY DEF LeavesOK
<1>2. V[x].keys[i] \in R[x] /\ V[y].keys[j] \in R[y] /\ V[x].keys \in Seq(Int) /\ Sorted(V[x].keys)
  BY <1>1 DEF LeafOK
<1>3. V[x].keys[i] \in Int
  BY <1>2
<1>4. x = y
  BY <1>2, <1>3 DEF LeavesOK
<1>5. i = j
  <2> DEFINE ks == V[x].keys
  <2>1. ks \in Seq(Int) /\ Sorted(ks) /\ i \in 1 .. Len(ks) /\ j \in 1 .. Len(ks) /\ ks[i] = ks[j]
    BY <1>2, <1>4
  <2> HIDE DEF ks
  <2>2. ks[i] \in Int
    BY <2>1
  <2>3. ~(i < j) /\ ~(j < i)
    BY <2>1, <2>2 DEF Sorted
  <2> QED BY <2>1, <2>3
<1> QED BY <1>4, <1>5

(* Entries is what is in the leaves. *)
LEMMA EntriesAre ==
    ASSUME NEW T, NEW lev, NEW R, NEW c, NEW rank,
           Holds(nodes, root_page_id, total_pages, step, work, T, lev, R, c, rank)
    PROVE  EntriesIn(Entries, nodes, T, lev)
<1>1. /\ Chain = c /\ \A x : x \in Range(c) <=> x \in Pages /\ IsLeaf(T, lev, x)
      /\ LeavesOK(nodes, T, lev, R)
  BY LeavesRead
<1> DEFINE slots == UNION { {p} \X DOMAIN nodes[p].keys : p \in Range(Chain) }
           key(s) == nodes[s[1]].keys[s[2]]
           D == { key(s) : s \in slots }
           chosen(k) == CHOOSE s \in slots : key(s) = k
           E == [k \in D |-> nodes[chosen(k)[1]].values[chosen(k)[2]]]
<1>2. Entries = E
  BY DEF Entries
<1>3. \A x \in Pages : IsLeaf(T, lev, x) => DOMAIN nodes[x].keys = 1 .. Len(nodes[x].keys)
  <2> SUFFICES ASSUME NEW x \in Pages, IsLeaf(T, lev, x)
               PROVE  DOMAIN nodes[x].keys = 1 .. Len(nodes[x].keys)
    OBVIOUS
  <2>1. nodes[x].keys \in Seq(Int)
    BY <1>1 DEF LeavesOK, LeafOK
  <2> QED BY <2>1
<1>4. \A s : s \in slots <=> \E x \in Pages : IsLeaf(T, lev, x) /\ \E i \in 1 .. Len(nodes[x].keys) : s = <<x, i>>
  <2> TAKE s
  <2>1. s \in slots <=> \E p \in Range(Chain) : s \in {p} \X DOMAIN nodes[p].keys
    OBVIOUS
  <2>2. \A p : s \in {p} \X DOMAIN nodes[p].keys <=> \E i \in DOMAIN nodes[p].keys : s = <<p, i>>
    OBVIOUS
  <2> HIDE DEF slots
  <2> QED BY <2>1, <2>2, <1>1, <1>3
<1> HIDE DEF slots
<1>5. ASSUME NEW x \in Pages, IsLeaf(T, lev, x), NEW i \in 1 .. Len(nodes[x].keys)
      PROVE  /\ nodes[x].keys[i] \in D
             /\ chosen(nodes[x].keys[i])[1] = x /\ chosen(nodes[x].keys[i])[2] = i
  <2> DEFINE s == <<x, i>>
             k == nodes[x].keys[i]
  <2>1. s \in slots /\ key(s) = k
    BY <1>4, <1>5
  <2>2. k \in D
    BY <2>1
  <2>3. chosen(k) \in slots /\ key(chosen(k)) = k
    BY <2>1
  <2> HIDE DEF chosen, k
  <2>4. PICK y \in Pages : IsLeaf(T, lev, y) /\ \E j \in 1 .. Len(nodes[y].keys) : chosen(k) = <<y, j>>
    BY <2>3, <1>4
  <2>5. PICK j \in 1 .. Len(nodes[y].keys) : chosen(k) = <<y, j>>
    BY <2>4
  <2>6. nodes[y].keys[j] = nodes[x].keys[i]
    BY <2>3, <2>5 DEF k
  <2>7. x = y /\ i = j
    BY <1>1, <1>5, <2>4, <2>6, EntryUnique
  <2> QED BY <2>2, <2>5, <2>7 DEF k
<1>6. E = [k \in DOMAIN E |-> E[k]] /\ DOMAIN E = D
  <2> HIDE DEF D, chosen
  <2> QED OBVIOUS
<1>7. ASSUME NEW k, NEW v, EntryAt(nodes, T, lev, k, v) PROVE k \in D /\ E[k] = v
  <2>1. PICK x \in Pages : IsLeaf(T, lev, x) /\ HasEntry(nodes[x], k, v)
    BY <1>7 DEF EntryAt
  <2>2. PICK i \in 1 .. Len(nodes[x].keys) : nodes[x].keys[i] = k /\ nodes[x].values[i] = v
    BY <2>1 DEF HasEntry
  <2>3. k \in D /\ chosen(k)[1] = x /\ chosen(k)[2] = i
    <3>1. nodes[x].keys[i] \in D /\ chosen(nodes[x].keys[i])[1] = x /\ chosen(nodes[x].keys[i])[2] = i
      BY <2>1, <2>2, <1>5
    <3> QED BY <3>1, <2>2
  <2> HIDE DEF D, chosen
  <2> QED BY <2>2, <2>3
<1>8. ASSUME NEW k \in D PROVE \E v : EntryAt(nodes, T, lev, k, v)
  <2>1. PICK s \in slots : key(s) = k
    OBVIOUS
  <2>2. PICK x \in Pages : IsLeaf(T, lev, x) /\ \E i \in 1 .. Len(nodes[x].keys) : s = <<x, i>>
    BY <1>4
  <2>3. PICK i \in 1 .. Len(nodes[x].keys) : s = <<x, i>>
    BY <2>2
  <2>4. nodes[x].keys[i] = k
    BY <2>1, <2>3
  <2>5. EntryAt(nodes, T, lev, k, nodes[x].values[i])
    BY <2>2, <2>4 DEF EntryAt, HasEntry
  <2> QED BY <2>5
<1> HIDE DEF E, D
<1>9. EntriesIn(E, nodes, T, lev)
  BY <1>6, <1>7, <1>8 DEF EntriesIn
<1> QED BY <1>2, <1>9

EmptyEntries == DOMAIN Entries = {}

(* A chain without leaves has no entries. *)
LEMMA NothingRead ==
    ASSUME Chain = <<>>
    PROVE  EmptyEntries
<1>1. DOMAIN <<>> = {}
  OBVIOUS
<1>2. Range(Chain) = {}
  BY <1>1 DEF Range
<1> DEFINE slots == UNION { {p} \X DOMAIN nodes[p].keys : p \in Range(Chain) }
           key(s) == nodes[s[1]].keys[s[2]]
           D == { key(s) : s \in slots }
           E == [k \in D |-> LET s == CHOOSE s \in slots : key(s) = k IN nodes[s[1]].values[s[2]]]
<1>3. slots = {}
  BY <1>2
<1> HIDE DEF slots
<1>4. D = {}
  BY <1>3
<1> HIDE DEF D
<1>5. Entries = E
  BY DEF Entries, slots, D
<1>6. DOMAIN E = D
  OBVIOUS
<1> QED BY <1>4, <1>5, <1>6 DEF EmptyEntries

(* Only the leaf a search goes to can hold the key. *)
LEMMA EntryOnWay ==
    ASSUME NEW T, NEW lev, NEW R, NEW c, NEW rank, step = "idle", NEW k \in Keys,
           Holds(nodes, root_page_id, total_pages, step, work, T, lev, R, c, rank)
    PROVE  /\ \A v : EntryAt(nodes, T, lev, k, v) <=> HasEntry(nodes[FindLeafPage(k)], k, v)
           /\ Has(nodes[FindLeafPage(k)].keys, k) <=> \E v : EntryAt(nodes, T, lev, k, v)
<1> DEFINE p == FindLeafPage(k)
           n == nodes[p]
<1>1. /\ p \in T /\ p \in Pages /\ lev[p] = 0 /\ k \in R[p] /\ k \in Int
      /\ LeafOK(n, R[p]) /\ n \in Node
  BY LeafAt
<1>2. LeavesOK(nodes, T, lev, R)
  BY LeavesRead
<1> HIDE DEF p
<1>3. IsLeaf(T, lev, p)
  BY <1>1 DEF IsLeaf
<1>4. ASSUME NEW v, EntryAt(nodes, T, lev, k, v) PROVE HasEntry(n, k, v)
  <2>1. PICK x \in Pages : IsLeaf(T, lev, x) /\ HasEntry(nodes[x], k, v)
    BY <1>4 DEF EntryAt
  <2>2. PICK i \in 1 .. Len(nodes[x].keys) : nodes[x].keys[i] = k
    BY <2>1 DEF HasEntry
  <2>3. LeafOK(nodes[x], R[x])
    BY <2>1, <1>2 DEF LeavesOK
  <2>4. k \in R[x]
    BY <2>2, <2>3 DEF LeafOK
  <2>5. x = p
    BY <2>1, <2>4, <1>1, <1>2, <1>3 DEF LeavesOK
  <2> QED BY <2>1, <2>5
<1>5. ASSUME NEW v, HasEntry(n, k, v) PROVE EntryAt(nodes, T, lev, k, v)
  BY <1>1, <1>3, <1>5 DEF EntryAt
<1>6. DOMAIN n.keys = 1 .. Len(n.keys)
  BY <1>1 DEF LeafOK
<1>7. Has(n.keys, k) <=> \E v : HasEntry(n, k, v)
  BY <1>6 DEF Has, HasEntry
<1>8. Has(n.keys, k) <=> \E v : EntryAt(nodes, T, lev, k, v)
  BY <1>4, <1>5, <1>7
<1> QED BY <1>4, <1>5, <1>8 DEF p

Found(k) == Search(k) = IF k \in DOMAIN Entries THEN <<Entries[k]>> ELSE <<>>

(* A search descends to the leaf whose range has the key, and the entry is  *)
(* there if it is anywhere. *)
LEMMA SearchInTree ==
    ASSUME NEW T, NEW lev, NEW R, NEW c, NEW rank, step = "idle", NEW k \in Keys,
           Holds(nodes, root_page_id, total_pages, step, work, T, lev, R, c, rank)
    PROVE  Found(k)
<1> DEFINE p == FindLeafPage(k)
           n == nodes[p]
           E == Entries
<1>1. EntriesIn(E, nodes, T, lev)
  BY EntriesAre
<1>2. /\ \A v : EntryAt(nodes, T, lev, k, v) <=> HasEntry(n, k, v)
      /\ Has(n.keys, k) <=> \E v : EntryAt(nodes, T, lev, k, v)
  BY EntryOnWay
<1>3. root_page_id # INVALID_PAGE_ID
  BY NoPage DEF Holds
<1>4. LeafOK(n, R[p])
  BY LeafAt
<1>5. Search(k) = IF Has(n.keys, k) THEN <<n.values[Position(n.keys, k)]>> ELSE <<>>
  BY <1>3 DEF Search
<1> HIDE DEF E, n, p
<1>6. k \in DOMAIN E <=> Has(n.keys, k)
  BY <1>1, <1>2 DEF EntriesIn
<1>7. CASE Has(n.keys, k)
  <2>1. n.keys \in Seq(Int) /\ Sorted(n.keys)
    BY <1>4 DEF LeafOK
  <2>2. PICK i \in 1 .. Len(n.keys) : n.keys[i] = k
    BY <1>7, <2>1 DEF Has
  <2>3. Position(n.keys, k) = i
    BY <2>1, <2>2, PositionOf
  <2>4. HasEntry(n, k, n.values[i])
    BY <2>2 DEF HasEntry
  <2>5. EntryAt(nodes, T, lev, k, n.values[i])
    BY <2>4, <1>2
  <2>6. E[k] = n.values[i]
    BY <2>5, <1>1 DEF EntriesIn
  <2> QED BY <2>3, <2>6, <1>5, <1>6, <1>7 DEF Found, E
<1>8. CASE ~Has(n.keys, k)
  BY <1>5, <1>6, <1>8 DEF Found, E
<1> QED BY <1>7, <1>8

(* SearchFindsEntries: between two operations, search finds for every key   *)
(* the CTID that the leaves have for it, and nothing for a key they do not  *)
(* have; a descent from the root never ends in the wrong leaf. *)
THEOREM SearchFindsAll == Spec => []SearchFindsEntries
<1>1. TreeInv => SearchFindsEntries
  <2> SUFFICES ASSUME TreeInv, step = "idle", NEW k \in Keys PROVE Found(k)
    BY DEF SearchFindsEntries, Found
  <2>1. CASE Empty(nodes, root_page_id, total_pages, step, work)
    <3>1. Chain = <<>> /\ root_page_id = INVALID_PAGE_ID
      BY <2>1, EmptyIdle
    <3>2. EmptyEntries
      BY <3>1, NothingRead
    <3>3. Search(k) = <<>>
      BY <3>1 DEF Search
    <3> QED BY <3>2, <3>3 DEF EmptyEntries, Found
  <2>2. CASE HasTree(nodes, root_page_id, total_pages, step, work)
    <3>1. PICK T, lev, R, c, rank :
             Holds(nodes, root_page_id, total_pages, step, work, T, lev, R, c, rank)
      BY <2>2 DEF HasTree
    <3> QED BY <3>1, SearchInTree
  <2> QED BY <2>1, <2>2 DEF TreeInv, Grown
<1> QED BY <1>1, TreeInvInvariant, PTL

-----------------------------------------------------------------------------
(* What the changes of a leaf do to its entries *)

GainedIn(n, m, k0, v0) == \A k, v : HasEntry(m, k, v) <=> HasEntry(n, k, v) \/ (k = k0 /\ v = v0)

(* What an inserted, a removed, joined or parted sequence of entries has. *)
LEMMA EntryGained ==
    ASSUME NEW n, NEW m, NEW i, NEW k0, NEW v0,
           Len(n.keys) \in Nat, Len(n.values) = Len(n.keys), i \in 1 .. Len(n.keys) + 1,
           IsInserted(n.keys, i, k0, m.keys), IsInserted(n.values, i, v0, m.values)
    PROVE  GainedIn(n, m, k0, v0)
<1> DEFINE ks == n.keys
           vs == n.values
           kt == m.keys
           vt == m.values
           l == Len(ks)
<1>1. /\ l \in Nat /\ i \in 1 .. l + 1 /\ Len(kt) = l + 1
      /\ \A j \in 1 .. l + 1 : kt[j] = IF j < i THEN ks[j] ELSE IF j = i THEN k0 ELSE ks[j - 1]
      /\ \A j \in 1 .. l + 1 : vt[j] = IF j < i THEN vs[j] ELSE IF j = i THEN v0 ELSE vs[j - 1]
  BY DEF IsInserted
<1>2. \A k, v : HasEntry(n, k, v) <=> \E j \in 1 .. l : ks[j] = k /\ vs[j] = v
  BY DEF HasEntry
<1>3. \A k, v : HasEntry(m, k, v) <=> \E j \in 1 .. l + 1 : kt[j] = k /\ vt[j] = v
  BY <1>1 DEF HasEntry
<1> HIDE DEF ks, vs, kt, vt, l
<1>4. ASSUME NEW k, NEW v, HasEntry(m, k, v) PROVE HasEntry(n, k, v) \/ (k = k0 /\ v = v0)
  <2>1. PICK j \in 1 .. l + 1 : kt[j] = k /\ vt[j] = v
    BY <1>3, <1>4
  <2>2. CASE j < i
    <3>1. j \in 1 .. l /\ ks[j] = k /\ vs[j] = v
      BY <2>1, <2>2, <1>1
    <3> QED BY <3>1, <1>2
  <2>3. CASE j = i
    BY <2>1, <2>3, <1>1
  <2>4. CASE i < j
    <3> DEFINE h == j - 1
    <3>1. h \in 1 .. l /\ ks[h] = k /\ vs[h] = v
      BY <2>1, <2>4, <1>1
    <3> HIDE DEF h
    <3> QED BY <3>1, <1>2
  <2> QED BY <2>1, <2>2, <2>3, <2>4, <1>1
<1>5. ASSUME NEW k, NEW v, HasEntry(n, k, v) PROVE HasEntry(m, k, v)
  <2>1. PICK j \in 1 .. l : ks[j] = k /\ vs[j] = v
    BY <1>2, <1>5
  <2>2. CASE j < i
    <3>1. j \in 1 .. l + 1 /\ kt[j] = k /\ vt[j] = v
      BY <2>1, <2>2, <1>1
    <3> QED BY <3>1, <1>3
  <2>3. CASE ~(j < i)
    <3> DEFINE h == j + 1
    <3>1. h \in 1 .. l + 1 /\ ~(h < i) /\ h # i /\ h - 1 = j
      BY <2>1, <2>3, <1>1
    <3> HIDE DEF h
    <3>2. kt[h] = k /\ vt[h] = v
      BY <3>1, <2>1, <1>1
    <3> QED BY <3>1, <3>2, <1>3
  <2> QED BY <2>2, <2>3
<1>6. HasEntry(m, k0, v0)
  <2>1. kt[i] = k0 /\ vt[i] = v0
    BY <1>1
  <2> QED BY <2>1, <1>1, <1>3
<1> QED BY <1>4, <1>5, <1>6 DEF GainedIn

LEMMA EntryLost ==
    ASSUME NEW n, NEW m, NEW i,
           n.keys \in Seq(Int), Sorted(n.keys), Len(n.values) = Len(n.keys), i \in 1 .. Len(n.keys),
           IsRemoved(n.keys, i, m.keys), IsRemoved(n.values, i, m.values)
    PROVE  \A k, v : HasEntry(m, k, v) <=> HasEntry(n, k, v) /\ k # n.keys[i]
<1> DEFINE ks == n.keys
           vs == n.values
           kt == m.keys
           vt == m.values
           l == Len(ks)
<1>1. /\ l \in Nat /\ i \in 1 .. l /\ Len(kt) = l - 1
      /\ \A j \in 1 .. l - 1 : kt[j] = IF j < i THEN ks[j] ELSE ks[j + 1]
      /\ \A j \in 1 .. l - 1 : vt[j] = IF j < i THEN vs[j] ELSE vs[j + 1]
  BY DEF IsRemoved
<1>2. \A k, v : HasEntry(n, k, v) <=> \E j \in 1 .. l : ks[j] = k /\ vs[j] = v
  BY DEF HasEntry
<1>3. \A k, v : HasEntry(m, k, v) <=> \E j \in 1 .. l - 1 : kt[j] = k /\ vt[j] = v
  BY <1>1 DEF HasEntry
<1>7. \A j \in 1 .. l : ks[j] \in Int
  OBVIOUS
<1>8. \A j, h \in 1 .. l : j < h => ks[j] < ks[h]
  BY DEF Sorted
<1> HIDE DEF ks, vs, kt, vt, l
<1>9. \A j \in 1 .. l : j # i => ks[j] # ks[i]
  <2> TAKE j \in 1 .. l
  <2>1. j # i => j < i \/ i < j
    BY <1>1
  <2> QED BY <2>1, <1>1, <1>7, <1>8
<1>4. ASSUME NEW k, NEW v, HasEntry(m, k, v) PROVE HasEntry(n, k, v) /\ k # ks[i]
  <2>1. PICK j \in 1 .. l - 1 : kt[j] = k /\ vt[j] = v
    BY <1>3, <1>4
  <2>2. CASE j < i
    <3>1. j \in 1 .. l /\ j # i /\ ks[j] = k /\ vs[j] = v
      BY <2>1, <2>2, <1>1
    <3> QED BY <3>1, <1>2, <1>9
  <2>3. CASE ~(j < i)
    <3> DEFINE h == j + 1
    <3>1. h \in 1 .. l /\ h # i /\ ks[h] = k /\ vs[h] = v
      BY <2>1, <2>3, <1>1
    <3> HIDE DEF h
    <3> QED BY <3>1, <1>2, <1>9
  <2> QED BY <2>2, <2>3
<1>5. ASSUME NEW k, NEW v, HasEntry(n, k, v), k # ks[i] PROVE HasEntry(m, k, v)
  <2>1. PICK j \in 1 .. l : ks[j] = k /\ vs[j] = v
    BY <1>2, <1>5
  <2>2. CASE j < i
    <3>1. j \in 1 .. l - 1 /\ kt[j] = k /\ vt[j] = v
      BY <2>1, <2>2, <1>1
    <3> QED BY <3>1, <1>3
  <2>3. CASE ~(j < i)
    <3> DEFINE h == j - 1
    <3>1. h \in 1 .. l - 1 /\ ~(h < i) /\ h + 1 = j
      BY <2>1, <2>3, <1>1, <1>5
    <3> HIDE DEF h
    <3>2. kt[h] = k /\ vt[h] = v
      BY <3>1, <2>1, <1>1
    <3> QED BY <3>1, <3>2, <1>3
  <2> QED BY <2>2, <2>3
<1> QED BY <1>4, <1>5 DEF ks

LEMMA EntriesJoined ==
    ASSUME NEW a, NEW b, NEW m, Len(a.keys) \in Nat, Len(b.keys) \in Nat,
           Len(a.values) = Len(a.keys), Len(b.values) = Len(b.keys),
           IsJoined(a.keys, b.keys, m.keys), IsJoined(a.values, b.values, m.values)
    PROVE  \A k, v : HasEntry(m, k, v) <=> HasEntry(a, k, v) \/ HasEntry(b, k, v)
<1> DEFINE x == Len(a.keys)
           y == Len(b.keys)
<1>1. /\ x \in Nat /\ y \in Nat /\ Len(m.keys) = x + y
      /\ \A j \in 1 .. x : m.keys[j] = a.keys[j] /\ m.values[j] = a.values[j]
      /\ \A j \in 1 .. y : m.keys[x + j] = b.keys[j] /\ m.values[x + j] = b.values[j]
  BY DEF IsJoined
<1>2. /\ \A k, v : HasEntry(a, k, v) <=> \E j \in 1 .. x : a.keys[j] = k /\ a.values[j] = v
      /\ \A k, v : HasEntry(b, k, v) <=> \E j \in 1 .. y : b.keys[j] = k /\ b.values[j] = v
  BY DEF HasEntry
<1>3. \A k, v : HasEntry(m, k, v) <=> \E j \in 1 .. x + y : m.keys[j] = k /\ m.values[j] = v
  BY <1>1 DEF HasEntry
<1> HIDE DEF x, y
<1>4. ASSUME NEW k, NEW v, HasEntry(m, k, v) PROVE HasEntry(a, k, v) \/ HasEntry(b, k, v)
  <2>1. PICK j \in 1 .. x + y : m.keys[j] = k /\ m.values[j] = v
    BY <1>3, <1>4
  <2>2. CASE j <= x
    <3>1. j \in 1 .. x
      BY <2>1, <2>2, <1>1
    <3> QED BY <3>1, <2>1, <1>1, <1>2
  <2>3. CASE x < j
    <3> DEFINE h == j - x
    <3>1. h \in 1 .. y /\ x + h = j
      BY <2>1, <2>3, <1>1
    <3> HIDE DEF h
    <3>2. b.keys[h] = k /\ b.values[h] = v
      BY <3>1, <2>1, <1>1
    <3> QED BY <3>1, <3>2, <1>2
  <2> QED BY <2>1, <2>2, <2>3, <1>1
<1>5. ASSUME NEW k, NEW v, HasEntry(a, k, v) PROVE HasEntry(m, k, v)
  <2>1. PICK j \in 1 .. x : a.keys[j] = k /\ a.values[j] = v
    BY <1>2, <1>5
  <2>2. j \in 1 .. x + y
    BY <2>1, <1>1
  <2> QED BY <2>1, <2>2, <1>1, <1>3
<1>6. ASSUME NEW k, NEW v, HasEntry(b, k, v) PROVE HasEntry(m, k, v)
  <2>1. PICK j \in 1 .. y : b.keys[j] = k /\ b.values[j] = v
    BY <1>2, <1>6
  <2> DEFINE h == x + j
  <2>2. h \in 1 .. x + y /\ m.keys[h] = k /\ m.values[h] = v
    BY <2>1, <1>1
  <2> HIDE DEF h
  <2> QED BY <2>2, <1>3
<1> QED BY <1>4, <1>5, <1>6

LEMMA EntriesParted ==
    ASSUME NEW m, NEW a, NEW b, NEW mid \in Nat, Len(m.keys) \in Nat, mid <= Len(m.keys),
           IsPart(m.keys, 0, mid, a.keys), IsPart(m.values, 0, mid, a.values),
           IsPart(m.keys, mid, Len(m.keys) - mid, b.keys),
           IsPart(m.values, mid, Len(m.keys) - mid, b.values)
    PROVE  \A k, v : HasEntry(m, k, v) <=> HasEntry(a, k, v) \/ HasEntry(b, k, v)
<1> DEFINE l == Len(m.keys)
           y == l - mid
<1>1. /\ l \in Nat /\ y \in Nat /\ l = mid + y /\ Len(a.keys) = mid /\ Len(b.keys) = y
      /\ \A j \in 1 .. mid : a.keys[j] = m.keys[0 + j] /\ a.values[j] = m.values[0 + j]
      /\ \A j \in 1 .. y : b.keys[j] = m.keys[mid + j] /\ b.values[j] = m.values[mid + j]
  BY DEF IsPart
<1>2. /\ \A k, v : HasEntry(a, k, v) <=> \E j \in 1 .. mid : a.keys[j] = k /\ a.values[j] = v
      /\ \A k, v : HasEntry(b, k, v) <=> \E j \in 1 .. y : b.keys[j] = k /\ b.values[j] = v
      /\ \A k, v : HasEntry(m, k, v) <=> \E j \in 1 .. l : m.keys[j] = k /\ m.values[j] = v
  <2> HIDE DEF y
  <2> QED BY <1>1 DEF HasEntry
<1> HIDE DEF l, y
<1>3. \A j \in 1 .. mid : 0 + j = j /\ j \in 1 .. l
  BY <1>1
<1>4. ASSUME NEW k, NEW v, HasEntry(m, k, v) PROVE HasEntry(a, k, v) \/ HasEntry(b, k, v)
  <2>1. PICK j \in 1 .. l : m.keys[j] = k /\ m.values[j] = v
    BY <1>2, <1>4
  <2>2. CASE j <= mid
    <3>1. j \in 1 .. mid
      BY <2>1, <2>2, <1>1
    <3>2. a.keys[j] = k /\ a.values[j] = v
      BY <3>1, <2>1, <1>1, <1>3
    <3> QED BY <3>1, <3>2, <1>2
  <2>3. CASE mid < j
    <3> DEFINE h == j - mid
    <3>1. h \in 1 .. y /\ mid + h = j
      BY <2>1, <2>3, <1>1
    <3> HIDE DEF h
    <3>2. b.keys[h] = k /\ b.values[h] = v
      BY <3>1, <2>1, <1>1
    <3> QED BY <3>1, <3>2, <1>2
  <2> QED BY <2>1, <2>2, <2>3, <1>1
<1>5. ASSUME NEW k, NEW v, HasEntry(a, k, v) PROVE HasEntry(m, k, v)
  <2>1. PICK j \in 1 .. mid : a.keys[j] = k /\ a.values[j] = v
    BY <1>2, <1>5
  <2>2. j \in 1 .. l /\ m.keys[j] = k /\ m.values[j] = v
    BY <2>1, <1>1, <1>3
  <2> QED BY <2>2, <1>2
<1>6. ASSUME NEW k, NEW v, HasEntry(b, k, v) PROVE HasEntry(m, k, v)
  <2>1. PICK j \in 1 .. y : b.keys[j] = k /\ b.values[j] = v
    BY <1>2, <1>6
  <2> DEFINE h == mid + j
  <2>2. h \in 1 .. l /\ m.keys[h] = k /\ m.values[h] = v
    BY <2>1, <1>1
  <2> HIDE DEF h
  <2> QED BY <2>2, <1>2
<1> QED BY <1>4, <1>5, <1>6

-----------------------------------------------------------------------------
(* What the operations do to the entries of the leaves *)

SameLeafEntries(V, W, T, lev, U, l) ==
    \A k, v : EntryAt(W, U, l, k, v) <=> EntryAt(V, T, lev, k, v)

Gained(V, W, T, lev, U, l, k0, v0) ==
    /\ \A v : ~EntryAt(V, T, lev, k0, v)
    /\ \A k, v : EntryAt(W, U, l, k, v) <=> EntryAt(V, T, lev, k, v) \/ (k = k0 /\ v = v0)

Lost(V, W, T, lev, U, l, k0) ==
    /\ \E v : EntryAt(V, T, lev, k0, v)
    /\ \A k, v : EntryAt(W, U, l, k, v) <=> EntryAt(V, T, lev, k, v) /\ k # k0

Elsewhere(V, T, lev, p, k, v) == \E x \in Pages : x # p /\ IsLeaf(T, lev, x) /\ HasEntry(V[x], k, v)

(* An entry is at this leaf or at another, where nothing changes. *)
LEMMA AtLeafOrElsewhere ==
    ASSUME NEW V, NEW T, NEW lev, NEW p \in Pages, IsLeaf(T, lev, p)
    PROVE  \A k, v : EntryAt(V, T, lev, k, v) <=> HasEntry(V[p], k, v) \/ Elsewhere(V, T, lev, p, k, v)
BY DEF EntryAt, Elsewhere

LEMMA ElsewhereSame ==
    ASSUME NEW V, NEW W, NEW T, NEW lev, NEW p, \A x \in Pages : x # p => W[x] = V[x]
    PROVE  \A k, v : Elsewhere(W, T, lev, p, k, v) <=> Elsewhere(V, T, lev, p, k, v)
BY DEF Elsewhere

(* An insertion gains its entry and changes no other. *)
LEMMA InsertIntoLeafEntries ==
    ASSUME NEW T, NEW lev, NEW R, NEW c, NEW rank, NEW k \in Keys, NEW v \in CTIDs[k],
           Holds(nodes, root_page_id, total_pages, step, work, T, lev, R, c, rank),
           InsertIntoLeaf(k, v)
    PROVE  Gained(nodes, nodes', T, lev, T, lev, k, v)
<1> DEFINE p == FindLeafPage(k)
           n == nodes[p]
           m == WithEntry(n, k, v)
           i == Position(n.keys, k)
<1>1. /\ step = "idle" /\ ~Has(n.keys, k)
      /\ nodes' = [nodes EXCEPT ![p] = m]
  BY DEF InsertIntoLeaf, Put
<1>2. /\ p \in T /\ p \in Pages /\ lev[p] = 0
      /\ LeafOK(n, R[p]) /\ n \in Node /\ NodeFits(n, total_pages, p) /\ n.type = "leaf"
  BY <1>1, LeafAt
<1>3. v \in Values
  BY ValueOf
<1>4. \A u : ~EntryAt(nodes, T, lev, k, u)
  BY <1>1, EntryOnWay
<1>5. nodes \in [Pages -> Node]
  BY DEF Holds, TypedPages
<1> HIDE DEF p, n, m
<1>6. Len(n.values) = Len(n.keys)
  BY <1>2 DEF NodeFits
<1>7. IsInserted(n.keys, i, k, m.keys) /\ IsInserted(n.values, i, v, m.values)
  BY <1>2, <1>3, <1>6, WithEntryFields DEF m
<1>8. i \in 1 .. Len(n.keys) + 1 /\ Len(n.keys) \in Nat
  <2>1. n.keys \in Seq(Keys) /\ Len(n.keys) \in Nat
    BY <1>2, RecordOf
  <2> QED BY <2>1, PositionType
<1> HIDE DEF i
<1>9. \A x, u : HasEntry(m, x, u) <=> HasEntry(n, x, u) \/ (x = k /\ u = v)
  <2>1. Len(n.keys) \in Nat /\ i \in 1 .. Len(n.keys) + 1
    BY <1>8
  <2>2. IsInserted(n.keys, i, k, m.keys) /\ IsInserted(n.values, i, v, m.values)
    BY <1>7
  <2>3. GainedIn(n, m, k, v)
    BY <2>1, <2>2, <1>6, EntryGained
  <2> QED BY <2>3 DEF GainedIn
<1>10. nodes'[p] = m /\ \A x \in Pages : x # p => nodes'[x] = nodes[x]
  BY <1>1, <1>2, <1>5
<1>11. IsLeaf(T, lev, p)
  BY <1>2 DEF IsLeaf
<1>12. \A x, u : EntryAt(nodes, T, lev, x, u) <=> HasEntry(n, x, u) \/ Elsewhere(nodes, T, lev, p, x, u)
  BY <1>2, <1>11, AtLeafOrElsewhere DEF n
<1>13. \A x, u : EntryAt(nodes', T, lev, x, u) <=> HasEntry(m, x, u) \/ Elsewhere(nodes', T, lev, p, x, u)
  <2>1. \A x, u : EntryAt(nodes', T, lev, x, u)
                    <=> HasEntry(nodes'[p], x, u) \/ Elsewhere(nodes', T, lev, p, x, u)
    BY <1>2, <1>11, AtLeafOrElsewhere
  <2> QED BY <2>1, <1>10
<1>14. \A x, u : Elsewhere(nodes', T, lev, p, x, u) <=> Elsewhere(nodes, T, lev, p, x, u)
  BY <1>10, ElsewhereSame
<1>15. \A x, u : EntryAt(nodes', T, lev, x, u) <=> EntryAt(nodes, T, lev, x, u) \/ (x = k /\ u = v)
  BY <1>9, <1>12, <1>13, <1>14
<1> QED BY <1>4, <1>15 DEF Gained

(* So does one that splits the leaf. *)
LEMMA SplitLeafEntries ==
    ASSUME NEW T, NEW lev, NEW R, NEW c, NEW rank, NEW k \in Keys, NEW v \in CTIDs[k],
           Holds(nodes, root_page_id, total_pages, step, work, T, lev, R, c, rank),
           SplitLeaf(k, v), NEW U, NEW l, LeavesCut(T, lev, U, l, FindLeafPage(k), total_pages)
    PROVE  Gained(nodes, nodes', T, lev, U, l, k, v)
<1> DEFINE p == FindLeafPage(k)
           n == nodes[p]
           all == WithEntry(n, k, v)
           mid == Len(n.keys) \div 2
           left == LeftHalf(all, mid)
           right == RightHalf(all, mid)
           i == Position(n.keys, k)
           new == total_pages
<1>1. /\ step = "idle" /\ ~Has(n.keys, k)
      /\ nodes' = [Put(p, left) EXCEPT ![new] = right]
  BY DEF SplitLeaf
<1>2. /\ p \in T /\ p \in Pages /\ lev[p] = 0
      /\ LeafOK(n, R[p]) /\ n \in Node /\ NodeFits(n, total_pages, p) /\ n.type = "leaf"
  BY <1>1, LeafAt
<1>3. v \in Values
  BY ValueOf
<1>4. \A u : ~EntryAt(nodes, T, lev, k, u)
  BY <1>1, EntryOnWay
<1>5. /\ nodes \in [Pages -> Node] /\ TypedPages(nodes, total_pages) /\ total_pages \in Nat
      /\ IsTree(nodes, root_page_id, T, lev, R)
  <2>1. TypedPages(nodes, total_pages) /\ IsTree(nodes, root_page_id, T, lev, R) /\ total_pages \in Nat
    BY <1>1, IdleShape
  <2> QED BY <2>1 DEF TypedPages
<1>6. /\ new \in Pages /\ p < new
      /\ Len(all.keys) = Len(n.keys) + 1 /\ mid \in Nat /\ mid < Len(all.keys)
      /\ IsPart(all.keys, 0, mid, left.keys) /\ IsPart(all.values, 0, mid, left.values)
      /\ IsPart(all.keys, mid, Len(all.keys) - mid, right.keys)
      /\ IsPart(all.values, mid, Len(all.keys) - mid, right.values)
  BY SplitLeafFacts
<1>7. LeavesCut(T, lev, U, l, p, new)
  OBVIOUS
<1> HIDE DEF p, n, all, mid, left, right
<1>8. Len(n.values) = Len(n.keys)
  BY <1>2 DEF NodeFits
<1>9. IsInserted(n.keys, i, k, all.keys) /\ IsInserted(n.values, i, v, all.values)
  BY <1>2, <1>3, <1>8, WithEntryFields DEF all
<1>10. i \in 1 .. Len(n.keys) + 1 /\ Len(n.keys) \in Nat
  <2>1. n.keys \in Seq(Keys) /\ Len(n.keys) \in Nat
    BY <1>2, RecordOf
  <2> QED BY <2>1, PositionType
<1> HIDE DEF i
<1>11. \A x, u : HasEntry(all, x, u) <=> HasEntry(n, x, u) \/ (x = k /\ u = v)
  <2>1. Len(n.keys) \in Nat /\ i \in 1 .. Len(n.keys) + 1
    BY <1>10
  <2>2. IsInserted(n.keys, i, k, all.keys) /\ IsInserted(n.values, i, v, all.values)
    BY <1>9
  <2>3. GainedIn(n, all, k, v)
    BY <2>1, <2>2, <1>8, EntryGained
  <2> QED BY <2>3 DEF GainedIn
<1>12. Len(all.keys) \in Nat /\ mid <= Len(all.keys)
  BY <1>6, <1>10
<1>13. \A x, u : HasEntry(all, x, u) <=> HasEntry(left, x, u) \/ HasEntry(right, x, u)
  BY <1>6, <1>12, EntriesParted
<1>14. \A x : IsLeaf(T, lev, x) => x # new
  <2> SUFFICES ASSUME NEW x \in T PROVE x # new
    BY DEF IsLeaf
  <2>1. x < total_pages
    BY <1>5, TreeIsAllocated
  <2> QED BY <2>1, <1>5
<1>15. p # new
  BY <1>6, <1>5
<1> HIDE DEF new
<1>16. nodes'[p] = left /\ nodes'[new] = right /\ \A x \in Pages : x # p /\ x # new => nodes'[x] = nodes[x]
  BY <1>1, <1>2, <1>5, <1>6, <1>15 DEF Put
<1>17. IsLeaf(T, lev, p)
  BY <1>2 DEF IsLeaf
<1>18. \A x \in Pages : IsLeaf(U, l, x) <=> IsLeaf(T, lev, x) \/ x = new
  BY <1>2, <1>7 DEF LeavesCut
<1>19. \A x, u : EntryAt(nodes, T, lev, x, u) <=> HasEntry(n, x, u) \/ Elsewhere(nodes, T, lev, p, x, u)
  BY <1>2, <1>17, AtLeafOrElsewhere DEF n
<1>20. \A x, u : EntryAt(nodes', U, l, x, u)
                   <=> HasEntry(left, x, u) \/ HasEntry(right, x, u) \/ Elsewhere(nodes, T, lev, p, x, u)
  <2> TAKE x, u
  <2>1. ASSUME EntryAt(nodes', U, l, x, u)
        PROVE  HasEntry(left, x, u) \/ HasEntry(right, x, u) \/ Elsewhere(nodes, T, lev, p, x, u)
    <3>1. PICK y \in Pages : IsLeaf(U, l, y) /\ HasEntry(nodes'[y], x, u)
      BY <2>1 DEF EntryAt
    <3>2. CASE y = p
      BY <3>1, <3>2, <1>16
    <3>3. CASE y = new
      BY <3>1, <3>3, <1>16
    <3>4. CASE y # p /\ y # new
      <4>1. IsLeaf(T, lev, y) /\ HasEntry(nodes[y], x, u)
        BY <3>1, <3>4, <1>16, <1>18
      <4> QED BY <4>1, <3>4 DEF Elsewhere
    <3> QED BY <3>2, <3>3, <3>4
  <2>2. ASSUME HasEntry(left, x, u) PROVE EntryAt(nodes', U, l, x, u)
    BY <2>2, <1>2, <1>16, <1>17, <1>18 DEF EntryAt
  <2>3. ASSUME HasEntry(right, x, u) PROVE EntryAt(nodes', U, l, x, u)
    BY <2>3, <1>6, <1>16, <1>18 DEF EntryAt
  <2>4. ASSUME Elsewhere(nodes, T, lev, p, x, u) PROVE EntryAt(nodes', U, l, x, u)
    <3>1. PICK y \in Pages : y # p /\ IsLeaf(T, lev, y) /\ HasEntry(nodes[y], x, u)
      BY <2>4 DEF Elsewhere
    <3>2. IsLeaf(U, l, y) /\ HasEntry(nodes'[y], x, u)
      BY <3>1, <1>14, <1>16, <1>18
    <3> QED BY <3>2 DEF EntryAt
  <2> QED BY <2>1, <2>2, <2>3, <2>4
<1>21. \A x, u : EntryAt(nodes', U, l, x, u) <=> EntryAt(nodes, T, lev, x, u) \/ (x = k /\ u = v)
  BY <1>11, <1>13, <1>19, <1>20
<1> QED BY <1>4, <1>21 DEF Gained

(* A deletion loses its entry and changes no other. *)
LEMMA DeleteEntries ==
    ASSUME NEW T, NEW lev, NEW R, NEW c, NEW rank, NEW k \in Keys,
           Holds(nodes, root_page_id, total_pages, step, work, T, lev, R, c, rank), Delete(k)
    PROVE  Lost(nodes, nodes', T, lev, T, lev, k)
<1> DEFINE p == FindLeafPage(k)
           n == nodes[p]
           i == Position(n.keys, k)
           m == [n EXCEPT !.keys = RemoveAt(@, i), !.values = RemoveAt(@, i)]
<1>1. /\ step = "idle" /\ Has(n.keys, k)
      /\ nodes' = [nodes EXCEPT ![p] = m]
  BY DEF Delete, Put
<1>2. /\ p \in T /\ p \in Pages /\ lev[p] = 0 /\ k \in R[p] /\ k \in Int
      /\ LeafOK(n, R[p]) /\ n \in Node /\ NodeFits(n, total_pages, p) /\ n.type = "leaf"
  BY <1>1, LeafAt
<1>3. \E u : EntryAt(nodes, T, lev, k, u)
  BY <1>1, EntryOnWay
<1>4. nodes \in [Pages -> Node]
  BY DEF Holds, TypedPages
<1>5. LeavesOK(nodes, T, lev, R)
  BY LeavesRead
<1> HIDE DEF p, n
<1>6. Len(n.values) = Len(n.keys) /\ n.keys \in Seq(Int) /\ Sorted(n.keys)
  BY <1>2 DEF NodeFits, LeafOK
<1>7. i \in 1 .. Len(n.keys) /\ n.keys[i] = k
  <2>1. PICK j \in 1 .. Len(n.keys) : n.keys[j] = k
    BY <1>1, <1>6 DEF Has
  <2>2. Position(n.keys, n.keys[j]) = j
    BY <1>6, PositionOf
  <2> QED BY <2>1, <2>2
<1> HIDE DEF i, m
<1>8. IsRemoved(n.keys, i, m.keys) /\ IsRemoved(n.values, i, m.values)
  BY <1>2, <1>6, <1>7, WithoutEntryFields DEF m
<1>9. \A x, u : HasEntry(m, x, u) <=> HasEntry(n, x, u) /\ x # k
  <2>1. \A x, u : HasEntry(m, x, u) <=> HasEntry(n, x, u) /\ x # n.keys[i]
    BY <1>6, <1>7, <1>8, EntryLost
  <2> QED BY <2>1, <1>7
<1>10. nodes'[p] = m /\ \A x \in Pages : x # p => nodes'[x] = nodes[x]
  BY <1>1, <1>2, <1>4
<1>11. IsLeaf(T, lev, p)
  BY <1>2 DEF IsLeaf
<1>12. \A x, u : EntryAt(nodes, T, lev, x, u) <=> HasEntry(n, x, u) \/ Elsewhere(nodes, T, lev, p, x, u)
  BY <1>2, <1>11, AtLeafOrElsewhere DEF n
<1>13. \A x, u : EntryAt(nodes', T, lev, x, u) <=> HasEntry(m, x, u) \/ Elsewhere(nodes', T, lev, p, x, u)
  <2>1. \A x, u : EntryAt(nodes', T, lev, x, u)
                    <=> HasEntry(nodes'[p], x, u) \/ Elsewhere(nodes', T, lev, p, x, u)
    BY <1>2, <1>11, AtLeafOrElsewhere
  <2> QED BY <2>1, <1>10
<1>14. \A x, u : Elsewhere(nodes', T, lev, p, x, u) <=> Elsewhere(nodes, T, lev, p, x, u)
  BY <1>10, ElsewhereSame
<1>15. \A u : ~Elsewhere(nodes, T, lev, p, k, u)
  <2> SUFFICES ASSUME NEW u, Elsewhere(nodes, T, lev, p, k, u) PROVE FALSE
    OBVIOUS
  <2>1. PICK x \in Pages : x # p /\ IsLeaf(T, lev, x) /\ HasEntry(nodes[x], k, u)
    BY DEF Elsewhere
  <2>2. PICK j \in 1 .. Len(nodes[x].keys) : nodes[x].keys[j] = k
    BY <2>1 DEF HasEntry
  <2>3. LeafOK(nodes[x], R[x])
    BY <2>1, <1>5 DEF LeavesOK
  <2>4. k \in R[x]
    BY <2>2, <2>3 DEF LeafOK
  <2> QED BY <2>1, <2>4, <1>2, <1>5, <1>11 DEF LeavesOK
<1>16. \A x, u : EntryAt(nodes', T, lev, x, u) <=> EntryAt(nodes, T, lev, x, u) /\ x # k
  BY <1>9, <1>12, <1>13, <1>14, <1>15
<1> QED BY <1>3, <1>16 DEF Lost

(* A merge moves entries and changes none. *)
LEMMA MergedEntries ==
    ASSUME NEW V, NEW W, NEW T, NEW lev, NEW R, LeavesOK(V, T, lev, R),
           NEW U, NEW l, NEW a, NEW b, LeavesMerged(V, W, T, lev, U, l, a, b), T \subseteq Pages
    PROVE  SameLeafEntries(V, W, T, lev, U, l)
<1>1. /\ IsLeaf(T, lev, a) /\ IsLeaf(T, lev, b) /\ a # b /\ a \in Pages /\ b \in Pages
      /\ \A x \in Pages : IsLeaf(U, l, x) <=> IsLeaf(T, lev, x) /\ x # b
      /\ IsJoined(V[a].keys, V[b].keys, W[a].keys)
      /\ IsJoined(V[a].values, V[b].values, W[a].values)
      /\ \A x \in Pages : IsLeaf(T, lev, x) /\ x # a => W[x] = V[x]
  BY DEF LeavesMerged, IsLeaf
<1>2. /\ Len(V[a].values) = Len(V[a].keys) /\ Len(V[b].values) = Len(V[b].keys)
      /\ V[a] \in Node /\ V[b] \in Node
  BY <1>1 DEF LeavesOK
<1>3. Len(V[a].keys) \in Nat /\ Len(V[b].keys) \in Nat
  BY <1>2, RecordOf
<1>4. \A k, v : HasEntry(W[a], k, v) <=> HasEntry(V[a], k, v) \/ HasEntry(V[b], k, v)
  BY <1>1, <1>2, <1>3, EntriesJoined
<1>5. ASSUME NEW k, NEW v, EntryAt(W, U, l, k, v) PROVE EntryAt(V, T, lev, k, v)
  <2>1. PICK x \in Pages : IsLeaf(U, l, x) /\ HasEntry(W[x], k, v)
    BY <1>5 DEF EntryAt
  <2>2. CASE x = a
    BY <2>1, <2>2, <1>1, <1>4 DEF EntryAt
  <2>3. CASE x # a
    BY <2>1, <2>3, <1>1 DEF EntryAt
  <2> QED BY <2>2, <2>3
<1>6. ASSUME NEW k, NEW v, EntryAt(V, T, lev, k, v) PROVE EntryAt(W, U, l, k, v)
  <2>1. PICK x \in Pages : IsLeaf(T, lev, x) /\ HasEntry(V[x], k, v)
    BY <1>6 DEF EntryAt
  <2>2. CASE x = a \/ x = b
    BY <2>1, <2>2, <1>1, <1>4 DEF EntryAt
  <2>3. CASE x # a /\ x # b
    BY <2>1, <2>3, <1>1 DEF EntryAt
  <2> QED BY <2>2, <2>3
<1> QED BY <1>5, <1>6 DEF SameLeafEntries

(* A step that keeps the leaves keeps the entries. *)
LEMMA KeptEntries ==
    ASSUME NEW V, NEW W, NEW T, NEW lev, NEW U, NEW l, LeavesKept(V, W, T, lev, U, l)
    PROVE  SameLeafEntries(V, W, T, lev, U, l)
<1>1. \A x \in Pages : IsLeaf(T, lev, x) => \A k, v : HasEntry(W[x], k, v) <=> HasEntry(V[x], k, v)
  BY DEF LeavesKept, HasEntry
<1>2. \A x \in Pages : IsLeaf(U, l, x) <=> IsLeaf(T, lev, x)
  BY DEF LeavesKept
<1> QED BY <1>1, <1>2 DEF SameLeafEntries, EntryAt

-----------------------------------------------------------------------------
(* The tree implements an index *)

EntriesChange(V, W, T, lev, U, l) ==
    \/ SameLeafEntries(V, W, T, lev, U, l)
    \/ \E k \in Keys : \E v \in Values : Gained(V, W, T, lev, U, l, k, v)
    \/ \E k \in Keys : Lost(V, W, T, lev, U, l, k)

TreeGoesTo(T, lev, V, W, r, used, s, w) ==
    \E U, l, S, d, rk :
       Holds(W, r, used, s, w, U, l, S, d, rk) /\ EntriesChange(V, W, T, lev, U, l)

(* A witness of the tree a step goes to. *)
LEMMA GoesTo ==
    ASSUME NEW V, NEW W, NEW r, NEW used, NEW s, NEW w, NEW T, NEW lev,
           NEW U, NEW l, NEW S, NEW d, NEW rk,
           Holds(W, r, used, s, w, U, l, S, d, rk), EntriesChange(V, W, T, lev, U, l)
    PROVE  TreeGoesTo(T, lev, V, W, r, used, s, w)
BY DEF TreeGoesTo

(* Steps that change no entry. *)
LEMMA SameEntriesChange ==
    ASSUME NEW V, NEW W, NEW T, NEW lev, NEW U, NEW l, SameLeafEntries(V, W, T, lev, U, l)
    PROVE  EntriesChange(V, W, T, lev, U, l)
BY DEF EntriesChange

LEMMA NodesSame ==
    ASSUME NEW V, NEW W, NEW T, NEW lev, V = W
    PROVE  SameLeafEntries(V, W, T, lev, T, lev)
BY DEF SameLeafEntries

(* What a step does for the parent changes no entry. *)
LEMMA AttachedEntries ==
    ASSUME NEW T, NEW lev, NEW R, NEW c, NEW rank, step = "parent",
           Holds(nodes, root_page_id, total_pages, step, work, T, lev, R, c, rank),
           CreateNewRoot \/ InsertIntoParent
    PROVE  SameLeafEntries(nodes, nodes', T, lev, T, lev)
<1>0. /\ TypedPages(nodes, total_pages)
      /\ ClimbOK(root_page_id, total_pages, work, T, lev)
      /\ Shape(WithWork(nodes, step, work, total_pages), RootWith(root_page_id, step, work, total_pages),
               total_pages, Waiting(step, work), T, lev, R, c, rank)
      /\ total_pages \in 0 .. MaxPages /\ WorkTyped(step, work)
  BY DEF Holds
<1>1. nodes' = Attached(nodes, work, total_pages)
  BY DEF CreateNewRoot, InsertIntoParent, Attached, Put
<1>2. nodes \in [Pages -> Node]
  BY <1>0 DEF TypedPages
<1>3. CASE work.parent = INVALID_PAGE_ID
  <2> DEFINE f == total_pages
  <2>1. /\ work.key \in Keys /\ f < MaxPages
        /\ work.old \in Pages /\ work.old < f /\ work.new \in Pages /\ work.new < f
        /\ work.old # work.new
    BY <1>0, <1>3 DEF ClimbOK
  <2>2. f \in Pages /\ f \in Nat
    BY <1>0, <2>1, BTreeAssumption DEF Pages
  <2>3. work.old # f /\ work.new # f
    BY <2>1, <2>2
  <2>4. GetsRoot(nodes, nodes', work.old, work.key, work.new, f)
    BY <1>1, <1>2, <1>3, <2>1, <2>2, <2>3, NewRootMade
  <2> DEFINE ks == <<work.key>>
             cs == <<work.old, work.new>>
  <2>5. /\ nodes'[f] = Internal(ks, cs, INVALID_PAGE_ID)
        /\ nodes'[work.old] = [nodes[work.old] EXCEPT !.parent = f]
        /\ nodes'[work.new] = [nodes[work.new] EXCEPT !.parent = f]
        /\ \A x \in Pages \ {f, work.old, work.new} : nodes'[x] = nodes[x]
    BY <2>4 DEF GetsRoot
  <2> HIDE DEF ks, cs
  <2>6. IsTree(nodes', f, T, lev, R)
    <3>1. WithWork(nodes, step, work, total_pages) = nodes'
      BY <1>1 DEF WithWork
    <3>2. RootWith(root_page_id, step, work, total_pages) = f
      BY <1>3 DEF RootWith
    <3> QED BY <3>1, <3>2, <1>0 DEF Shape
  <2>7. ~IsLeaf(T, lev, f)
    <3>1. nodes'[f].type = "internal"
      BY <2>5 DEF Internal
    <3> HIDE DEF f
    <3> QED BY <3>1, <2>2, <2>6, LeafType DEF IsLeaf
  <2>8. ASSUME NEW x \in {work.old, work.new}
        PROVE  nodes'[x].keys = nodes[x].keys /\ nodes'[x].values = nodes[x].values
    <3>1. nodes[x] \in Node /\ nodes'[x] = [nodes[x] EXCEPT !.parent = f]
      BY <1>2, <2>1, <2>5
    <3> QED BY <3>1 DEF Node
  <2>9. LeavesKept(nodes, nodes', T, lev, T, lev)
    <3> SUFFICES ASSUME NEW x \in Pages, IsLeaf(T, lev, x)
                 PROVE  nodes'[x].keys = nodes[x].keys /\ nodes'[x].values = nodes[x].values
      BY DEF LeavesKept
    <3>1. CASE x \in {work.old, work.new}
      BY <3>1, <2>8
    <3>2. CASE x \notin {work.old, work.new}
      BY <3>2, <2>5, <2>7
    <3> QED BY <3>1, <3>2
  <2> QED BY <2>9, KeptEntries
<1>4. CASE work.parent # INVALID_PAGE_ID
  <2> DEFINE q == work.parent
  <2>1. q \in T /\ lev[q] # 0 /\ q \in Pages
    BY <1>0, <1>4 DEF ClimbOK, WorkTyped, PageIds
  <2>2. \A x \in Pages : x # q => nodes'[x] = nodes[x]
    BY <1>1, <1>2, <1>4 DEF Attached
  <2>3. LeavesKept(nodes, nodes', T, lev, T, lev)
    BY <2>1, <2>2 DEF LeavesKept, IsLeaf
  <2> QED BY <2>3, KeptEntries
<1> QED BY <1>3, <1>4

(* Every step leads from a tree to one, and keeps the entries, gains one or *)
(* loses one. *)
LEMMA TreeChange ==
    ASSUME NEW T, NEW lev, NEW R, NEW c, NEW rank,
           Holds(nodes, root_page_id, total_pages, step, work, T, lev, R, c, rank), [Next]_vars
    PROVE  TreeGoesTo(T, lev, nodes, nodes', root_page_id', total_pages', step', work')
<1>0. root_page_id # INVALID_PAGE_ID
  BY NoPage DEF Holds
<1>2. ASSUME NEW k \in Keys, NEW v \in CTIDs[k], CreateRootAndInsert(k, v) PROVE FALSE
  BY <1>0, <1>2 DEF CreateRootAndInsert
<1>3. ASSUME NEW k \in Keys, NEW v \in CTIDs[k], InsertIntoLeaf(k, v)
      PROVE  TreeGoesTo(T, lev, nodes, nodes', root_page_id', total_pages', step', work')
  <2>1. Holds(nodes', root_page_id', total_pages', step', work', T, lev, R, c, rank)
    BY <1>3, InsertIntoLeafHolds
  <2>2. Gained(nodes, nodes', T, lev, T, lev, k, v)
    BY <1>3, InsertIntoLeafEntries
  <2>3. v \in Values
    BY ValueOf
  <2>4. EntriesChange(nodes, nodes', T, lev, T, lev)
    BY <2>2, <2>3 DEF EntriesChange
  <2> QED BY <2>1, <2>4, GoesTo
<1>4. ASSUME NEW k \in Keys, NEW v \in CTIDs[k], SplitLeaf(k, v)
      PROVE  TreeGoesTo(T, lev, nodes, nodes', root_page_id', total_pages', step', work')
  <2>1. PICK U, l, S, d, rk :
              /\ Holds(nodes', root_page_id', total_pages', step', work', U, l, S, d, rk)
              /\ LeavesCut(T, lev, U, l, FindLeafPage(k), total_pages)
    BY <1>4, SplitLeafHolds
  <2>2. Gained(nodes, nodes', T, lev, U, l, k, v)
    BY <1>4, <2>1, SplitLeafEntries
  <2>3. v \in Values
    BY ValueOf
  <2>4. EntriesChange(nodes, nodes', T, lev, U, l)
    BY <2>2, <2>3 DEF EntriesChange
  <2> QED BY <2>1, <2>4, GoesTo
<1>5. ASSUME NEW k \in Keys, Delete(k)
      PROVE  TreeGoesTo(T, lev, nodes, nodes', root_page_id', total_pages', step', work')
  <2>1. Holds(nodes', root_page_id', total_pages', step', work', T, lev, R, c, rank)
    BY <1>5, DeleteHolds
  <2>2. Lost(nodes, nodes', T, lev, T, lev, k)
    BY <1>5, DeleteEntries
  <2>4. EntriesChange(nodes, nodes', T, lev, T, lev)
    BY <2>2 DEF EntriesChange
  <2> QED BY <2>1, <2>4, GoesTo
<1>6. CASE CreateNewRoot
  <2>1. Holds(nodes', root_page_id', total_pages', step', work', T, lev, R, c, rank)
    BY <1>6, CreateNewRootHolds
  <2>2. step = "parent"
    BY <1>6 DEF CreateNewRoot
  <2>3. SameLeafEntries(nodes, nodes', T, lev, T, lev)
    BY <1>6, <2>2, AttachedEntries
  <2> QED BY <2>1, <2>3, SameEntriesChange, GoesTo
<1>7. CASE InsertIntoParent
  <2>1. Holds(nodes', root_page_id', total_pages', step', work', T, lev, R, c, rank)
    BY <1>7, InsertIntoParentHolds
  <2>2. step = "parent"
    BY <1>7 DEF InsertIntoParent
  <2>3. SameLeafEntries(nodes, nodes', T, lev, T, lev)
    BY <1>7, <2>2, AttachedEntries
  <2> QED BY <2>1, <2>3, SameEntriesChange, GoesTo
<1>8. CASE SplitInternal
  <2>1. PICK U, l, S, d, rk :
              /\ Holds(nodes', root_page_id', total_pages', step', work', U, l, S, d, rk)
              /\ LeavesKept(nodes, nodes', T, lev, U, l)
    BY <1>8, SplitInternalHolds
  <2>2. SameLeafEntries(nodes, nodes', T, lev, U, l)
    BY <2>1, KeptEntries
  <2> QED BY <2>1, <2>2, SameEntriesChange, GoesTo
<1>9. CASE MergeLeaf
  <2>1. PICK U, S, d, a, b :
              /\ Holds(nodes', root_page_id', total_pages', step', work', U, lev, S, d, rank)
              /\ LeavesMerged(nodes, nodes', T, lev, U, lev, a, b)
    BY <1>9, MergeLeafHolds
  <2>2. LeavesOK(nodes, T, lev, R)
    BY LeavesRead
  <2>3. T \subseteq Pages
    BY DEF Holds, Shape, IsTree
  <2>4. SameLeafEntries(nodes, nodes', T, lev, U, lev)
    BY <2>1, <2>2, <2>3, MergedEntries
  <2> QED BY <2>1, <2>4, SameEntriesChange, GoesTo
<1>10. CASE NoMerge
  <2>1. Holds(nodes', root_page_id', total_pages', step', work', T, lev, R, c, rank)
    BY <1>10, NoMergeHolds
  <2>2. nodes = nodes'
    BY <1>10 DEF NoMerge
  <2>3. SameLeafEntries(nodes, nodes', T, lev, T, lev)
    BY <2>2, NodesSame
  <2> QED BY <2>1, <2>3, SameEntriesChange, GoesTo
<1>11. ASSUME DuplicateKey \/ KeyNotFound \/ UNCHANGED vars
       PROVE  TreeGoesTo(T, lev, nodes, nodes', root_page_id', total_pages', step', work')
  <2>1. UNCHANGED vars
    BY <1>11 DEF DuplicateKey, KeyNotFound
  <2>2. /\ nodes' = nodes /\ root_page_id' = root_page_id /\ total_pages' = total_pages
        /\ step' = step /\ work' = work
    BY <2>1 DEF vars
  <2>3. SameLeafEntries(nodes, nodes', T, lev, T, lev)
    BY <2>2, NodesSame
  <2>4. Holds(nodes', root_page_id', total_pages', step', work', T, lev, R, c, rank)
    BY <2>2
  <2> QED BY <2>3, <2>4, SameEntriesChange, GoesTo
<1> QED BY <1>2, <1>3, <1>4, <1>5, <1>6, <1>7, <1>8, <1>9, <1>10, <1>11 DEF Next

(* E goes to F as an index may. *)
IndexGains(E, F, k, v) ==
    /\ k \notin DOMAIN E /\ DOMAIN F = DOMAIN E \union {k} /\ F[k] = v
    /\ \A x \in DOMAIN E : F[x] = E[x]

IndexLoses(E, F, k) ==
    /\ k \in DOMAIN E /\ DOMAIN F = DOMAIN E \ {k}
    /\ \A x \in DOMAIN E \ {k} : F[x] = E[x]

IndexStep(E, F) ==
    \/ E = F
    \/ \E k \in Keys : \E v \in Values : IndexGains(E, F, k, v)
    \/ \E k \in Keys : IndexLoses(E, F, k)

(* The same of the functions from keys to CTIDs. *)
LEMMA ChangeIsStep ==
    ASSUME NEW E, NEW F, NEW V, NEW W, NEW T, NEW lev, NEW U, NEW l,
           EntriesIn(E, V, T, lev), EntriesIn(F, W, U, l), EntriesChange(V, W, T, lev, U, l)
    PROVE  IndexStep(E, F)
<1>1. /\ E = [k \in DOMAIN E |-> E[k]] /\ F = [k \in DOMAIN F |-> F[k]]
      /\ \A k : k \in DOMAIN E <=> \E v : EntryAt(V, T, lev, k, v)
      /\ \A k, v : EntryAt(V, T, lev, k, v) => E[k] = v
      /\ \A k : k \in DOMAIN F <=> \E v : EntryAt(W, U, l, k, v)
      /\ \A k, v : EntryAt(W, U, l, k, v) => F[k] = v
  BY DEF EntriesIn
<1>2. CASE SameLeafEntries(V, W, T, lev, U, l)
  <2>1. \A k : k \in DOMAIN F <=> k \in DOMAIN E
    BY <1>1, <1>2 DEF SameLeafEntries
  <2>2. DOMAIN F = DOMAIN E
    BY <2>1
  <2>3. \A k \in DOMAIN E : F[k] = E[k]
    BY <1>1, <1>2 DEF SameLeafEntries
  <2>4. E = F
    BY <2>2, <2>3, <1>1
  <2> QED BY <2>4 DEF IndexStep
<1>3. ASSUME NEW k0 \in Keys, NEW v0 \in Values, Gained(V, W, T, lev, U, l, k0, v0)
      PROVE  IndexGains(E, F, k0, v0)
  <2>1. /\ \A v : ~EntryAt(V, T, lev, k0, v)
        /\ \A k, v : EntryAt(W, U, l, k, v) <=> EntryAt(V, T, lev, k, v) \/ (k = k0 /\ v = v0)
    BY <1>3 DEF Gained
  <2>2. k0 \notin DOMAIN E
    BY <2>1, <1>1
  <2>3. \A k : k \in DOMAIN F <=> k \in DOMAIN E \/ k = k0
    BY <2>1, <1>1
  <2>4. DOMAIN F = DOMAIN E \union {k0}
    BY <2>3
  <2>5. F[k0] = v0
    BY <2>1, <1>1
  <2>6. \A x \in DOMAIN E : F[x] = E[x]
    BY <2>1, <1>1
  <2> QED BY <2>2, <2>4, <2>5, <2>6 DEF IndexGains
<1>4. ASSUME NEW k0 \in Keys, Lost(V, W, T, lev, U, l, k0)
      PROVE  IndexLoses(E, F, k0)
  <2>1. /\ \E v : EntryAt(V, T, lev, k0, v)
        /\ \A k, v : EntryAt(W, U, l, k, v) <=> EntryAt(V, T, lev, k, v) /\ k # k0
    BY <1>4 DEF Lost
  <2>2. k0 \in DOMAIN E
    BY <2>1, <1>1
  <2>3. \A k : k \in DOMAIN F <=> k \in DOMAIN E /\ k # k0
    BY <2>1, <1>1
  <2>4. DOMAIN F = DOMAIN E \ {k0}
    BY <2>3
  <2>6. \A x \in DOMAIN E \ {k0} : F[x] = E[x]
    BY <2>1, <1>1
  <2> QED BY <2>2, <2>4, <2>6 DEF IndexLoses
<1> QED BY <1>2, <1>3, <1>4 DEF EntriesChange, IndexStep

(* What is known of the entries in every state. *)
EntriesTold ==
    /\ Empty(nodes, root_page_id, total_pages, step, work) => DOMAIN Entries = {}
    /\ \A T, lev, R, c, rank :
          Holds(nodes, root_page_id, total_pages, step, work, T, lev, R, c, rank) =>
             EntriesIn(Entries, nodes, T, lev)

(* Entries is determined by the leaves, in every state. *)
LEMMA EntriesAreTold == EntriesTold
<1>1. Empty(nodes, root_page_id, total_pages, step, work) => DOMAIN Entries = {}
  BY EmptyIdle, NothingRead DEF EmptyEntries
<1>2. ASSUME NEW T, NEW lev, NEW R, NEW c, NEW rank,
             Holds(nodes, root_page_id, total_pages, step, work, T, lev, R, c, rank)
      PROVE  EntriesIn(Entries, nodes, T, lev)
  BY <1>2, EntriesAre
<1> QED BY <1>1, <1>2 DEF EntriesTold

(* The first insertion gains its entry. *)
LEMMA FirstEntry ==
    ASSUME NEW k \in Keys, NEW v \in CTIDs[k],
           Empty(nodes, root_page_id, total_pages, step, work), CreateRootAndInsert(k, v),
           NEW T, NEW lev, FirstLeaves(0, T, lev), NEW E, DOMAIN E = {},
           NEW F, EntriesIn(F, nodes', T, lev)
    PROVE  IndexStep(E, F)
<1>1. FirstLeaf(nodes', 0, k, v) /\ 0 < MaxPages
  BY DEF Empty, CreateRootAndInsert, Put, FirstLeaf
<1>2. 0 \in Pages /\ v \in Values
  BY <1>1, BTreeAssumption, ValueOf DEF Pages
<1>3. nodes'[0].keys = <<k>> /\ nodes'[0].values = <<v>>
  <2> DEFINE r == 0
  <2>1. r = 0 /\ r \in Pages /\ FirstLeaf(nodes', r, k, v)
    BY <1>1, <1>2
  <2> HIDE DEF r
  <2>2. nodes'[r].keys = <<k>> /\ nodes'[r].values = <<v>>
    BY <2>1, <1>2, FirstLeafFacts
  <2> QED BY <2>1, <2>2
<1>4. \A x, u : HasEntry(nodes'[0], x, u) <=> x = k /\ u = v
  <2> DEFINE ks == <<k>>
             vs == <<v>>
  <2>1. Len(ks) = 1 /\ ks[1] = k /\ vs[1] = v
    OBVIOUS
  <2>2. nodes'[0].keys = ks /\ nodes'[0].values = vs
    BY <1>3
  <2> HIDE DEF ks, vs
  <2>3. \A i \in 1 .. Len(ks) : i = 1
    BY <2>1
  <2>4. 1 \in 1 .. Len(ks)
    BY <2>1
  <2> QED BY <2>1, <2>2, <2>3, <2>4 DEF HasEntry
<1>5. \A x, u : EntryAt(nodes', T, lev, x, u) <=> x = k /\ u = v
  BY <1>2, <1>4 DEF FirstLeaves, EntryAt
<1>6. /\ \A x : x \in DOMAIN F <=> \E u : EntryAt(nodes', T, lev, x, u)
      /\ \A x, u : EntryAt(nodes', T, lev, x, u) => F[x] = u
  BY DEF EntriesIn
<1>7. \A x : x \in DOMAIN F <=> x = k
  BY <1>5, <1>6
<1>8. DOMAIN F = DOMAIN E \union {k} /\ k \notin DOMAIN E /\ F[k] = v
  BY <1>5, <1>6, <1>7
<1>9. IndexGains(E, F, k, v)
  BY <1>8 DEF IndexGains
<1> QED BY <1>2, <1>9 DEF IndexStep

(* Such a change is a step of the index, or none. *)
LEMMA StepIsIndexStep ==
    ASSUME IndexStep(Entries, Entries')
    PROVE  [Index!Next]_Entries
<1>1. CASE Entries = Entries'
  BY <1>1
<1>2. ASSUME NEW k \in Keys, NEW v \in Values, IndexGains(Entries, Entries', k, v)
      PROVE  Index!Next
  <2>1. /\ k \notin DOMAIN Entries /\ DOMAIN Entries' = DOMAIN Entries \union {k} /\ Entries'[k] = v
        /\ \A x \in DOMAIN Entries : Entries'[x] = Entries[x]
    BY <1>2 DEF IndexGains
  <2>2. Index!Insert
    BY <2>1 DEF Index!Insert, Index!Present, Index!Keeps, Values
  <2> QED BY <2>2 DEF Index!Next
<1>3. ASSUME NEW k \in Keys, IndexLoses(Entries, Entries', k)
      PROVE  Index!Next
  <2>1. /\ k \in DOMAIN Entries /\ DOMAIN Entries' = DOMAIN Entries \ {k}
        /\ \A x \in DOMAIN Entries \ {k} : Entries'[x] = Entries[x]
    BY <1>3 DEF IndexLoses
  <2>2. Index!Delete
    BY <2>1 DEF Index!Delete, Index!Present, Index!Keeps
  <2> QED BY <2>2 DEF Index!Next
<1> QED BY <1>1, <1>2, <1>3 DEF IndexStep

(* So every step of the tree is. *)
LEMMA EveryStepIsIndexStep ==
    ASSUME TreeInv, EntriesTold, EntriesTold', [Next]_vars
    PROVE  IndexStep(Entries, Entries')
<1>1. CASE Empty(nodes, root_page_id, total_pages, step, work)
  <2>0. DOMAIN Entries = {}
    BY <1>1 DEF EntriesTold
  <2>1. root_page_id = INVALID_PAGE_ID /\ step = "idle"
    BY <1>1 DEF Empty
  <2>2. ASSUME NEW k \in Keys, NEW v \in CTIDs[k], CreateRootAndInsert(k, v)
        PROVE  IndexStep(Entries, Entries')
    <3>1. PICK T, lev, R, c, rank :
              /\ Holds(nodes', root_page_id', total_pages', step', work', T, lev, R, c, rank)
              /\ FirstLeaves(0, T, lev)
      BY <1>1, <2>2, CreateRootHolds
    <3>2. EntriesIn(Entries', nodes', T, lev)
      BY <3>1 DEF EntriesTold
    <3> QED BY <3>1, <3>2, <1>1, <2>0, <2>2, FirstEntry
  <2>3. ASSUME NEW k \in Keys, NEW v \in CTIDs[k], InsertIntoLeaf(k, v) \/ SplitLeaf(k, v)
        PROVE  FALSE
    BY <2>1, <2>3 DEF InsertIntoLeaf, SplitLeaf
  <2>4. ASSUME NEW k \in Keys, Delete(k) PROVE FALSE
    BY <2>1, <2>4 DEF Delete
  <2>5. ~(CreateNewRoot \/ InsertIntoParent \/ SplitInternal \/ MergeLeaf \/ NoMerge)
    BY <2>1 DEF CreateNewRoot, InsertIntoParent, SplitInternal, MergeLeaf, NoMerge
  <2>6. ASSUME DuplicateKey \/ KeyNotFound \/ UNCHANGED vars
        PROVE  IndexStep(Entries, Entries')
    <3>1. nodes' = nodes /\ total_pages' = total_pages
      BY <2>6 DEF DuplicateKey, KeyNotFound, vars
    <3>2. Chain' = Chain
      BY <3>1 DEF Chain
    <3>3. Entries' = Entries
      BY <3>1, <3>2 DEF Entries
    <3> QED BY <3>3 DEF IndexStep
  <2> QED BY <2>2, <2>3, <2>4, <2>5, <2>6 DEF Next
<1>2. CASE HasTree(nodes, root_page_id, total_pages, step, work)
  <2>1. PICK T, lev, R, c, rank :
           Holds(nodes, root_page_id, total_pages, step, work, T, lev, R, c, rank)
    BY <1>2 DEF HasTree
  <2>2. TreeGoesTo(T, lev, nodes, nodes', root_page_id', total_pages', step', work')
    BY <2>1, TreeChange
  <2>3. PICK U, l, S, d, rk :
           /\ Holds(nodes', root_page_id', total_pages', step', work', U, l, S, d, rk)
           /\ EntriesChange(nodes, nodes', T, lev, U, l)
    BY <2>2 DEF TreeGoesTo
  <2>4. EntriesIn(Entries, nodes, T, lev)
    BY <2>1 DEF EntriesTold
  <2>5. EntriesIn(Entries', nodes', U, l)
    BY <2>3 DEF EntriesTold
  <2> QED BY <2>3, <2>4, <2>5, ChangeIsStep
<1> QED BY <1>1, <1>2 DEF TreeInv, Grown

(* ImplementsIndex: the tree implements IndexMap.  An insert adds its entry *)
(* at its first step and a delete takes its entry away at its first step;   *)
(* the splits, the new roots and the merges that follow are stutters, which *)
(* no search by the chain can tell. *)
THEOREM TreeImplementsIndex == Spec => ImplementsIndex
<1>1. Init /\ EntriesTold => Index!Init
  <2> SUFFICES ASSUME Init, EntriesTold PROVE DOMAIN Entries = {}
    BY DEF Index!Init
  <2>1. Empty(nodes, root_page_id, total_pages, step, work)
    BY NothingTyped DEF Init, Empty
  <2> QED BY <2>1 DEF EntriesTold
<1>2. TreeInv /\ EntriesTold /\ EntriesTold' /\ [Next]_vars => [Index!Next]_Entries
  BY EveryStepIsIndexStep, StepIsIndexStep
<1>3. EntriesTold
  BY EntriesAreTold
<1> QED BY <1>1, <1>2, <1>3, TreeInvInvariant, PTL DEF Spec, ImplementsIndex, Index!Spec

-----------------------------------------------------------------------------
(* Lists in the order of their keys *)

NotAbove(W, k) == { x \in W : x <= k }

(* s is what f gives for the keys of W, in their order. *)
Lists(s, W, f) ==
    /\ IsFiniteSet(W) /\ W \subseteq Int /\ Len(s) = Cardinality(W)
    /\ \A k \in W : s[Cardinality(NotAbove(W, k))] = f[k]

(* Lists of nothing, of one key, and of the keys of one list and then of    *)
(* another. *)
LEMMA NothingListed ==
    ASSUME NEW f
    PROVE  Lists(<<>>, {}, f)
<1>1. IsFiniteSet({}) /\ Cardinality({}) = 0
  BY FS_EmptySet
<1>2. Len(<<>>) = 0
  OBVIOUS
<1> QED BY <1>1, <1>2 DEF Lists

LEMMA OneListed ==
    ASSUME NEW f, NEW k \in Int, NEW s, Len(s) = 1, s[1] = f[k]
    PROVE  Lists(s, {k}, f)
<1>1. IsFiniteSet({k}) /\ Cardinality({k}) = 1
  BY FS_Singleton
<1>2. NotAbove({k}, k) = {k}
  BY DEF NotAbove
<1> QED BY <1>1, <1>2 DEF Lists

(* How many are not above one of them. *)
LEMMA PlaceIn ==
    ASSUME NEW W, IsFiniteSet(W), W \subseteq Int, NEW k \in W
    PROVE  /\ IsFiniteSet(NotAbove(W, k)) /\ Cardinality(W) \in Nat
           /\ Cardinality(NotAbove(W, k)) \in 1 .. Cardinality(W)
<1>1. NotAbove(W, k) \in SUBSET W /\ k \in NotAbove(W, k)
  BY DEF NotAbove
<1>2. IsFiniteSet(NotAbove(W, k)) /\ Cardinality(NotAbove(W, k)) <= Cardinality(W)
  BY <1>1, FS_Subset
<1>3. Cardinality(NotAbove(W, k)) \in Nat /\ Cardinality(W) \in Nat
  BY <1>2, FS_CardinalityType
<1>4. NotAbove(W, k) # {}
  BY <1>1
<1>5. Cardinality(NotAbove(W, k)) # 0
  BY <1>2, <1>4, FS_EmptySet
<1> QED BY <1>2, <1>3, <1>5

LEMMA ListsJoined ==
    ASSUME NEW f, NEW s, NEW W, Lists(s, W, f), NEW u, NEW X, Lists(u, X, f), Precedes(W, X),
           NEW t, IsJoined(s, u, t)
    PROVE  Lists(t, W \union X, f)
<1>1. /\ IsFiniteSet(W) /\ W \subseteq Int /\ Len(s) = Cardinality(W)
      /\ \A k \in W : s[Cardinality(NotAbove(W, k))] = f[k]
      /\ IsFiniteSet(X) /\ X \subseteq Int /\ Len(u) = Cardinality(X)
      /\ \A k \in X : u[Cardinality(NotAbove(X, k))] = f[k]
  BY DEF Lists
<1>2. \A x \in W : \A y \in X : x < y /\ x \in Int /\ y \in Int
  BY <1>1 DEF Precedes
<1>3. W \cap X = {}
  BY <1>2
<1>4. Cardinality(W) \in Nat /\ Cardinality(X) \in Nat
  BY <1>1, FS_CardinalityType
<1> DEFINE Y == W \union X
<1>5. IsFiniteSet(Y) /\ Cardinality(Y) = Cardinality(W) + Cardinality(X)
  <2>1. IsFiniteSet(Y) /\ Cardinality(Y) = Cardinality(W) + Cardinality(X) - Cardinality(W \cap X)
    BY <1>1, FS_Union
  <2>2. Cardinality(W \cap X) = 0
    BY <1>3, FS_EmptySet
  <2> HIDE DEF Y
  <2> QED BY <2>1, <2>2, <1>4
<1>6. Len(t) = Cardinality(Y)
  BY <1>1, <1>5 DEF IsJoined
<1>7. ASSUME NEW k \in W PROVE t[Cardinality(NotAbove(Y, k))] = f[k]
  <2>1. NotAbove(Y, k) = NotAbove(W, k)
    <3>1. \A y \in X : ~(y <= k)
      BY <1>2
    <3> QED BY <3>1 DEF NotAbove
  <2>2. Cardinality(NotAbove(W, k)) \in 1 .. Len(s)
    BY <1>1, PlaceIn
  <2>3. t[Cardinality(NotAbove(W, k))] = s[Cardinality(NotAbove(W, k))]
    BY <2>2 DEF IsJoined
  <2> QED BY <2>1, <2>3, <1>1
<1>8. ASSUME NEW k \in X PROVE t[Cardinality(NotAbove(Y, k))] = f[k]
  <2> DEFINE Z == NotAbove(X, k)
             z == Cardinality(Z)
  <2>1. NotAbove(Y, k) = W \union Z
    <3>1. \A x \in W : x <= k
      BY <1>2
    <3> QED BY <3>1 DEF NotAbove
  <2>2. IsFiniteSet(Z) /\ z \in 1 .. Len(u)
    BY <1>1, PlaceIn
  <2>3. W \cap Z = {}
    BY <1>3 DEF NotAbove
  <2> HIDE DEF Z
  <2>4. Cardinality(W \union Z) = Len(s) + z
    <3>1. Cardinality(W \union Z) = Cardinality(W) + z - Cardinality(W \cap Z)
      BY <1>1, <2>2, FS_Union
    <3>2. Cardinality(W \cap Z) = 0
      BY <2>3, FS_EmptySet
    <3>3. z \in Int
      BY <2>2
    <3> HIDE DEF z
    <3> QED BY <3>1, <3>2, <3>3, <1>1, <1>4
  <2> HIDE DEF z
  <2>5. t[Len(s) + z] = u[z]
    BY <2>2 DEF IsJoined
  <2> QED BY <2>1, <2>4, <2>5, <1>1 DEF z, Z
<1>9. Y \subseteq Int
  BY <1>1
<1> QED BY <1>5, <1>6, <1>7, <1>8, <1>9 DEF Lists

(* Appending is joining a list of one. *)
LEMMA AppendJoins ==
    ASSUME NEW S, NEW s \in Seq(S), NEW v \in S
    PROVE  IsJoined(s, <<v>>, Append(s, v)) /\ Append(s, v) \in Seq(S)
<1> DEFINE t == Append(s, v)
           u == <<v>>
<1>1. /\ t \in Seq(S) /\ Len(t) = Len(s) + 1 /\ Len(s) \in Nat
      /\ \A i \in 1 .. Len(s) : t[i] = s[i]
      /\ t[Len(s) + 1] = v
  BY AppendEntries
<1>2. Len(u) = 1 /\ u[1] = v
  OBVIOUS
<1> HIDE DEF t, u
<1>3. \A i \in 1 .. Len(u) : t[Len(s) + i] = u[i]
  <2>1. \A i \in 1 .. Len(u) : i = 1
    BY <1>2
  <2> QED BY <2>1, <1>1, <1>2
<1>4. IsJoined(s, u, t)
  BY <1>1, <1>2, <1>3 DEF IsJoined
<1> QED BY <1>1, <1>4 DEF t, u

KeysIn(n, a, b) == { k \in Int : a <= k /\ k <= b /\ \E i \in 1 .. Len(n.keys) : n.keys[i] = k }

(* What a range search takes from a leaf. *)
LEMMA LeafListed ==
    ASSUME NEW n \in Node, n.keys \in Seq(Int), Sorted(n.keys), Len(n.values) = Len(n.keys),
           NEW a \in Int, NEW b \in Int, NEW f,
           \A i \in 1 .. Len(n.keys) : f[n.keys[i]] = n.values[i]
    PROVE  Lists(InRange(n, a, b), KeysIn(n, a, b), f)
<1> DEFINE ks == n.keys
           vs == n.values
           l == Len(ks)
           places == { i \in DOMAIN ks : a <= ks[i] /\ ks[i] <= b }
           Upto(m) == { k \in Int : a <= k /\ k <= b /\ \E i \in 1 .. m : ks[i] = k }
<1>1. /\ l \in Nat /\ DOMAIN ks = 1 .. l /\ Len(vs) = l /\ vs \in Seq(Values)
      /\ \A i \in 1 .. l : ks[i] \in Int /\ vs[i] \in Values
  BY RecordOf
<1>2. \A i \in 1 .. l : i \in places <=> a <= ks[i] /\ ks[i] <= b
  BY <1>1
<1>3. InRange(n, a, b) = Picked(vs, places)
  BY DEF InRange
<1>4. Sorted(ks) /\ \A i \in 1 .. l : f[ks[i]] = vs[i]
  OBVIOUS
<1>5. KeysIn(n, a, b) = Upto(l)
  BY DEF KeysIn
<1> HIDE DEF ks, vs, l, places
<1>6. PICK w : /\ w[0] = <<>>
               /\ \A m \in 1 .. Len(vs) :
                     w[m] = IF m \in places THEN Append(w[m - 1], vs[m]) ELSE w[m - 1]
               /\ Picked(vs, places) = w[Len(vs)]
  BY <1>1, PickedWalks
<1> DEFINE S == { m \in Nat : m <= l => w[m] \in Seq(Values) /\ Lists(w[m], Upto(m), f) }
<1>7. 0 \in S
  <2>1. Upto(0) = {}
    <3>1. 1 .. 0 = {}
      OBVIOUS
    <3> QED BY <3>1
  <2>2. <<>> \in Seq(Values)
    OBVIOUS
  <2>3. Lists(w[0], Upto(0), f)
    BY <2>1, <1>6, NothingListed
  <2> HIDE DEF Upto
  <2> QED BY <2>2, <2>3, <1>6
<1>8. ASSUME NEW m \in S PROVE m + 1 \in S
  <2> DEFINE h == m + 1
  <2>1. m \in Nat /\ h \in Nat
    OBVIOUS
  <2>2. ASSUME h <= l PROVE w[h] \in Seq(Values) /\ Lists(w[h], Upto(h), f)
    <3>1. h \in 1 .. l /\ m <= l /\ h - 1 = m
      <4>1. l \in Nat
        BY <1>1
      <4> QED BY <4>1, <2>1, <2>2
    <3>2. w[m] \in Seq(Values) /\ Lists(w[m], Upto(m), f)
      BY <3>1
    <3>3. w[h] = IF h \in places THEN Append(w[m], vs[h]) ELSE w[m]
      BY <3>1, <1>1, <1>6
    <3>4. \A i \in 1 .. h : i \in 1 .. m \/ i = h
      BY <2>1
    <3>5. \A i \in 1 .. m : i \in 1 .. h /\ i \in 1 .. l /\ i < h
      BY <3>1, <2>1, <1>1
    <3>6. h \in 1 .. h
      BY <3>1
    <3> HIDE DEF h
    <3>7. CASE h \in places
      <4>1. Upto(h) = Upto(m) \union {ks[h]}
        <5>1. a <= ks[h] /\ ks[h] <= b /\ ks[h] \in Int
          BY <3>1, <3>7, <1>1, <1>2
        <5>2. \A k : k \in Upto(h) <=> k \in Upto(m) \/ k = ks[h]
          BY <5>1, <3>4, <3>5, <3>6
        <5> QED BY <5>2
      <4>2. Precedes(Upto(m), {ks[h]})
        <5> SUFFICES ASSUME NEW x \in Upto(m) PROVE x < ks[h]
          BY DEF Precedes
        <5>1. PICK i \in 1 .. m : ks[i] = x
          OBVIOUS
        <5>2. i \in 1 .. l /\ i < h
          BY <3>5
        <5> QED BY <5>1, <5>2, <3>1, <1>4 DEF Sorted, l
      <4> HIDE DEF Upto
      <4>3. vs[h] \in Values /\ f[ks[h]] = vs[h] /\ ks[h] \in Int
        BY <3>1, <1>1, <1>4
      <4> DEFINE u == <<vs[h]>>
      <4>4. Len(u) = 1 /\ u[1] = vs[h]
        OBVIOUS
      <4>5. IsJoined(w[m], u, Append(w[m], vs[h])) /\ Append(w[m], vs[h]) \in Seq(Values)
        BY <3>2, <4>3, AppendJoins
      <4> HIDE DEF u
      <4>6. Lists(u, {ks[h]}, f)
        BY <4>3, <4>4, OneListed
      <4>7. Lists(Append(w[m], vs[h]), Upto(m) \union {ks[h]}, f)
        BY <3>2, <4>2, <4>5, <4>6, ListsJoined
      <4> QED BY <3>3, <3>7, <4>1, <4>5, <4>7
    <3>8. CASE h \notin places
      <4>1. ~(a <= ks[h] /\ ks[h] <= b)
        BY <3>1, <3>8, <1>2
      <4>2. \A k : k \in Upto(h) <=> k \in Upto(m)
        BY <4>1, <3>4, <3>5
      <4>3. Upto(h) = Upto(m)
        BY <4>2
      <4> HIDE DEF Upto
      <4> QED BY <4>3, <3>2, <3>3, <3>8
    <3> QED BY <3>7, <3>8
  <2> HIDE DEF Upto, h
  <2>3. h \in S
    BY <2>1, <2>2
  <2> QED BY <2>3 DEF h
<1>9. S = Nat
  <2> HIDE DEF S
  <2>1. S \in SUBSET Nat
    BY DEF S
  <2> QED BY <1>7, <1>8, <2>1, EveryRound
<1>10. l \in S
  <2> HIDE DEF S
  <2> QED BY <1>1, <1>9
<1> HIDE DEF Upto
<1>11. Lists(w[l], Upto(l), f)
  BY <1>1, <1>10
<1> QED BY <1>1, <1>3, <1>5, <1>6, <1>11

-----------------------------------------------------------------------------
(* The walk of a range search *)

Ends(n, b) == \E i \in DOMAIN n.keys : n.keys[i] > b

RangeWalk(f, V, a, b) ==
    f = [p \in PageIds |->
            IF p = INVALID_PAGE_ID THEN <<>>
            ELSE InRange(V[p], a, b) \o
                 (IF \E i \in DOMAIN V[p].keys : V[p].keys[i] > b THEN <<>> ELSE f[V[p].next])]

(* What a leaf has between two keys is a sequence of CTIDs. *)
LEMMA InRangeTyped ==
    ASSUME NEW n \in Node, NEW a, NEW b
    PROVE  InRange(n, a, b) \in Seq(Values)
<1>1. n.values \in Seq(Values)
  BY RecordOf
<1> QED BY <1>1, PickedPlaces DEF InRange

(* The walk of range_search along the next pointers is a function. *)
LEMMA RangeWalkExists ==
    ASSUME NEW V \in [Pages -> Node], NEW used, NEW rank, Ranked(V, used, rank), NEW a, NEW b
    PROVE  \E f \in [PageIds -> Seq(Values)] : RangeWalk(f, V, a, b)
<1> DEFINE take(p, u) == InRange(V[p], a, b) \o (IF Ends(V[p], b) THEN <<>> ELSE u)
           comb == [z \in PageIds \X Seq(Values) |-> IF z[1] \in Pages THEN take(z[1], z[2]) ELSE <<>>]
<1>1. <<>> \in Seq(Values)
  OBVIOUS
<1>2. ASSUME NEW p \in Pages, NEW u \in Seq(Values) PROVE take(p, u) \in Seq(Values)
  <2>1. InRange(V[p], a, b) \in Seq(Values)
    BY InRangeTyped
  <2>2. (IF Ends(V[p], b) THEN <<>> ELSE u) \in Seq(Values)
    BY <1>1
  <2> QED BY <2>1, <2>2, ConcatEntries
<1> HIDE DEF take
<1>3. comb \in [PageIds \X Seq(Values) -> Seq(Values)]
  <2>1. \A z \in PageIds \X Seq(Values) :
           (IF z[1] \in Pages THEN take(z[1], z[2]) ELSE <<>>) \in Seq(Values)
    <3> TAKE z \in PageIds \X Seq(Values)
    <3>1. z[2] \in Seq(Values)
      OBVIOUS
    <3> QED BY <3>1, <1>1, <1>2
  <2> QED BY <2>1
<1>4. \A x \in PageIds : \A u \in Seq(Values) :
         comb[<<x, u>>] = IF x \in Pages THEN take(x, u) ELSE <<>>
  OBVIOUS
<1> HIDE DEF comb
<1>5. PICK f \in [PageIds -> Seq(Values)] : IsAlong(f, V, <<>>, comb)
  BY <1>1, <1>3, AlongExists
<1>6. \A p \in PageIds : f[p] = IF p = INVALID_PAGE_ID THEN <<>> ELSE take(p, f[V[p].next])
  <2> TAKE p \in PageIds
  <2>1. p # INVALID_PAGE_ID => p \in Pages /\ V[p].next \in PageIds
    BY RecordOf DEF PageIds
  <2>2. f[p] = IF p = INVALID_PAGE_ID THEN <<>> ELSE comb[<<p, f[V[p].next]>>]
    BY <1>5 DEF IsAlong
  <2> QED BY <2>1, <2>2, <1>4
<1>7. f = [p \in PageIds |-> f[p]]
  OBVIOUS
<1>8. f = [p \in PageIds |-> IF p = INVALID_PAGE_ID THEN <<>> ELSE take(p, f[V[p].next])]
  BY <1>6, <1>7
<1> QED BY <1>8 DEF RangeWalk, take, Ends

HasKey(n, k) == \E i \in 1 .. Len(n.keys) : n.keys[i] = k

(* The keys from a to b that the chain holds from its place j on. *)
KeysFrom(V, c, a, b, j) ==
    { k \in Int : a <= k /\ k <= b /\ \E i \in 1 .. Len(c) : i >= j /\ HasKey(V[c[i]], k) }

(* The keys from a place of the chain on are those of the leaf there and,   *)
(* behind them, those of the rest; a leaf with a key above the bound ends   *)
(* the walk, and there is nothing behind it to be found. *)
LEMMA FromHere ==
    ASSUME NEW V, NEW T, NEW lev, NEW R, LeavesOK(V, T, lev, R), NEW c, IsChain(V, T, lev, R, c),
           NEW a \in Int, NEW b \in Int, NEW j \in 1 .. Len(c)
    PROVE  /\ KeysFrom(V, c, a, b, j) = KeysIn(V[c[j]], a, b) \union KeysFrom(V, c, a, b, j + 1)
           /\ Precedes(KeysIn(V[c[j]], a, b), KeysFrom(V, c, a, b, j + 1))
           /\ Ends(V[c[j]], b) => KeysFrom(V, c, a, b, j + 1) = {}
<1>1. /\ c \in Seq(Pages) /\ Len(c) \in Nat
      /\ \A i \in 1 .. Len(c) : IsLeaf(T, lev, c[i]) /\ c[i] \in Pages
      /\ \A i, h \in 1 .. Len(c) : i < h => Precedes(R[c[i]], R[c[h]])
  BY DEF IsChain
<1>2. \A i \in 1 .. Len(c) : \A k : HasKey(V[c[i]], k) => k \in R[c[i]]
  <2> SUFFICES ASSUME NEW i \in 1 .. Len(c), NEW k, HasKey(V[c[i]], k) PROVE k \in R[c[i]]
    OBVIOUS
  <2>1. LeafOK(V[c[i]], R[c[i]])
    BY <1>1 DEF LeavesOK
  <2> QED BY <2>1 DEF LeafOK, HasKey
<1>3. DOMAIN V[c[j]].keys = 1 .. Len(V[c[j]].keys) /\ \A k : HasKey(V[c[j]], k) => k \in Int
  <2>1. V[c[j]].keys \in Seq(Int)
    BY <1>1 DEF LeavesOK, LeafOK
  <2> QED BY <2>1 DEF HasKey
<1> DEFINE H == KeysIn(V[c[j]], a, b)
           G == KeysFrom(V, c, a, b, j + 1)
<1>4. \A k : k \in H <=> k \in Int /\ a <= k /\ k <= b /\ HasKey(V[c[j]], k)
  BY DEF KeysIn, HasKey
<1>5. \A k : k \in G <=> k \in Int /\ a <= k /\ k <= b /\ \E i \in 1 .. Len(c) : i > j /\ HasKey(V[c[i]], k)
  <2>1. \A i \in 1 .. Len(c) : i >= j + 1 <=> i > j
    BY <1>1
  <2> QED BY <2>1 DEF KeysFrom
<1> HIDE DEF H, G
<1>6. KeysFrom(V, c, a, b, j) = H \union G
  <2>1. \A i \in 1 .. Len(c) : i >= j <=> i = j \/ i > j
    BY <1>1
  <2>2. \A k : k \in KeysFrom(V, c, a, b, j) <=> k \in Int /\ a <= k /\ k <= b
                                           /\ \E i \in 1 .. Len(c) : i >= j /\ HasKey(V[c[i]], k)
    BY DEF KeysFrom
  <2>3. \A k : k \in KeysFrom(V, c, a, b, j) <=> k \in H \/ k \in G
    BY <2>1, <2>2, <1>4, <1>5
  <2> QED BY <2>3
<1>7. \A x, y : HasKey(V[c[j]], x) /\ y \in G => x < y
  <2> SUFFICES ASSUME NEW x, NEW y \in G, HasKey(V[c[j]], x) PROVE x < y
    OBVIOUS
  <2>1. PICK i \in 1 .. Len(c) : i > j /\ HasKey(V[c[i]], y)
    BY <1>5
  <2>2. Precedes(R[c[j]], R[c[i]])
    BY <2>1, <1>1
  <2> QED BY <2>1, <2>2, <1>2 DEF Precedes
<1>8. Precedes(H, G)
  BY <1>4, <1>7 DEF Precedes
<1>9. Ends(V[c[j]], b) => G = {}
  <2> SUFFICES ASSUME Ends(V[c[j]], b), NEW y \in G PROVE FALSE
    OBVIOUS
  <2>1. PICK i \in 1 .. Len(V[c[j]].keys) : V[c[j]].keys[i] > b
    BY <1>3 DEF Ends
  <2> DEFINE x == V[c[j]].keys[i]
  <2>2. HasKey(V[c[j]], x) /\ x > b
    BY <2>1 DEF HasKey
  <2> HIDE DEF x
  <2>3. x \in Int /\ x < y /\ y \in Int /\ y <= b
    BY <2>2, <1>3, <1>5, <1>7
  <2> QED BY <2>2, <2>3
<1> QED BY <1>6, <1>8, <1>9 DEF H, G

(* What the walk returns from a place of the chain. *)
LEMMA WalkLists ==
    ASSUME NEW V \in [Pages -> Node], NEW T, NEW lev, NEW R, LeavesOK(V, T, lev, R),
           NEW c, IsChain(V, T, lev, R, c), NEW a \in Int, NEW b \in Int,
           NEW E, EntriesIn(E, V, T, lev),
           NEW f, RangeWalk(f, V, a, b), NEW j \in 1 .. Len(c)
    PROVE  Lists(f[c[j]], KeysFrom(V, c, a, b, j), E)
<1> DEFINE n == Len(c)
<1>1. /\ c \in Seq(Pages) /\ n \in Nat
      /\ \A i \in 1 .. n : IsLeaf(T, lev, c[i]) /\ c[i] \in Pages /\ c[i] \in PageIds /\ c[i] # INVALID_PAGE_ID
      /\ \A i \in 1 .. n : V[c[i]].next = IF i = n THEN INVALID_PAGE_ID ELSE c[i + 1]
  BY NoPage DEF IsChain, PageIds
<1>2. \A p \in PageIds :
         f[p] = IF p = INVALID_PAGE_ID THEN <<>>
                ELSE InRange(V[p], a, b) \o (IF Ends(V[p], b) THEN <<>> ELSE f[V[p].next])
  BY DEF RangeWalk, Ends
<1>3. f[INVALID_PAGE_ID] = <<>>
  BY <1>2 DEF PageIds
<1>4. ASSUME NEW i \in 1 .. n
      PROVE  /\ InRange(V[c[i]], a, b) \in Seq(Values)
             /\ Lists(InRange(V[c[i]], a, b), KeysIn(V[c[i]], a, b), E)
  <2> DEFINE m == V[c[i]]
  <2>1. LeafOK(m, R[c[i]]) /\ m \in Node /\ Len(m.values) = Len(m.keys)
    BY <1>1 DEF LeavesOK
  <2>2. m.keys \in Seq(Int) /\ Sorted(m.keys)
    BY <2>1 DEF LeafOK
  <2>3. \A h \in 1 .. Len(m.keys) : E[m.keys[h]] = m.values[h]
    <3> TAKE h \in 1 .. Len(m.keys)
    <3>1. EntryAt(V, T, lev, m.keys[h], m.values[h])
      BY <1>1 DEF EntryAt, HasEntry
    <3> QED BY <3>1 DEF EntriesIn
  <2> HIDE DEF m
  <2>4. InRange(m, a, b) \in Seq(Values)
    BY <2>1, InRangeTyped
  <2>5. Lists(InRange(m, a, b), KeysIn(m, a, b), E)
    BY <2>1, <2>2, <2>3, LeafListed
  <2> QED BY <2>4, <2>5 DEF m
<1> DEFINE Right(i) == f[c[i]] \in Seq(Values) /\ Lists(f[c[i]], KeysFrom(V, c, a, b, i), E)
<1>5. ASSUME NEW i \in 1 .. n, NEW u \in Seq(Values), Lists(u, KeysFrom(V, c, a, b, i + 1), E),
             f[c[i]] = InRange(V[c[i]], a, b) \o u
      PROVE  Right(i)
  <2> DEFINE s == InRange(V[c[i]], a, b)
             t == s \o u
  <2>1. s \in Seq(Values) /\ Lists(s, KeysIn(V[c[i]], a, b), E)
    BY <1>4
  <2>2. /\ KeysFrom(V, c, a, b, i) = KeysIn(V[c[i]], a, b) \union KeysFrom(V, c, a, b, i + 1)
        /\ Precedes(KeysIn(V[c[i]], a, b), KeysFrom(V, c, a, b, i + 1))
    BY FromHere
  <2> HIDE DEF s
  <2>3. t \in Seq(Values) /\ IsJoined(s, u, t)
    BY <1>5, <2>1, Joined
  <2>4. f[c[i]] = t
    BY <1>5 DEF s
  <2> HIDE DEF t
  <2>5. Lists(t, KeysIn(V[c[i]], a, b) \union KeysFrom(V, c, a, b, i + 1), E)
    BY <1>5, <2>1, <2>2, <2>3, ListsJoined
  <2> QED BY <2>2, <2>3, <2>4, <2>5
<1>6. <<>> \in Seq(Values)
  OBVIOUS
<1>7. ASSUME NEW i \in 1 .. n, KeysFrom(V, c, a, b, i + 1) = {}, f[c[i]] = InRange(V[c[i]], a, b) \o <<>>
      PROVE  Right(i)
  <2>1. Lists(<<>>, KeysFrom(V, c, a, b, i + 1), E)
    BY <1>7, NothingListed
  <2> HIDE DEF Right
  <2> QED BY <2>1, <1>5, <1>6, <1>7
<1>8. ASSUME NEW i \in 1 .. n, Ends(V[c[i]], b) PROVE Right(i)
  <2>1. f[c[i]] = InRange(V[c[i]], a, b) \o <<>>
    BY <1>1, <1>2, <1>8
  <2>2. KeysFrom(V, c, a, b, i + 1) = {}
    BY <1>8, FromHere
  <2> HIDE DEF Right
  <2> QED BY <2>1, <2>2, <1>7
<1> DEFINE S == { k \in Nat : \A i \in 1 .. n : n - i = k => Right(i) }
<1>9. 0 \in S
  <2>1. ASSUME NEW i \in 1 .. n, n - i = 0 PROVE Right(i)
    <3>1. i = n /\ V[c[i]].next = INVALID_PAGE_ID
      BY <2>1, <1>1
    <3>2. f[c[i]] = InRange(V[c[i]], a, b) \o <<>>
      BY <3>1, <1>1, <1>2, <1>3
    <3>3. KeysFrom(V, c, a, b, i + 1) = {}
      <4>1. \A h \in 1 .. n : ~(h >= i + 1)
        BY <3>1, <1>1
      <4> QED BY <4>1 DEF KeysFrom
    <3> HIDE DEF Right
    <3> QED BY <3>2, <3>3, <1>7
  <2> HIDE DEF Right
  <2> QED BY <2>1
<1> HIDE DEF n
<1>10. ASSUME NEW k \in S PROVE k + 1 \in S
  <2>1. ASSUME NEW i \in 1 .. n, n - i = k + 1 PROVE Right(i)
    <3> DEFINE h == i + 1
    <3>1. k \in Nat /\ i # n /\ h \in 1 .. n /\ n - h = k
      BY <2>1, <1>1
    <3>2. V[c[i]].next = c[h]
      BY <3>1, <1>1
    <3> HIDE DEF h
    <3>3. Right(h)
      <4> HIDE DEF Right
      <4> QED BY <3>1
    <3>4. f[c[h]] \in Seq(Values) /\ Lists(f[c[h]], KeysFrom(V, c, a, b, h), E)
      BY <3>3
    <3> HIDE DEF Right
    <3>5. CASE Ends(V[c[i]], b)
      BY <3>5, <1>8
    <3>6. CASE ~Ends(V[c[i]], b)
      <4>1. f[c[i]] = InRange(V[c[i]], a, b) \o f[c[h]]
        BY <3>2, <3>6, <1>1, <1>2
      <4>2. Lists(f[c[h]], KeysFrom(V, c, a, b, i + 1), E)
        BY <3>4 DEF h
      <4> QED BY <3>4, <4>1, <4>2, <1>5
    <3> QED BY <3>5, <3>6
  <2>2. k + 1 \in Nat
    OBVIOUS
  <2> HIDE DEF Right
  <2> QED BY <2>1, <2>2
<1>11. S = Nat
  <2> HIDE DEF S
  <2>1. S \in SUBSET Nat
    BY DEF S
  <2> QED BY <1>9, <1>10, <2>1, EveryRound
<1>12. n - j \in S /\ j \in 1 .. n
  <2>1. n - j \in Nat /\ j \in 1 .. n
    BY <1>1 DEF n
  <2> HIDE DEF S
  <2> QED BY <2>1, <1>11
<1>13. Right(j)
  <2> HIDE DEF Right
  <2> QED BY <1>12
<1> QED BY <1>13

RangeComplete(a, b) ==
    LET entries == Entries
        wanted == { k \in DOMAIN entries : a <= k /\ k <= b }
        rank(k) == Cardinality({ x \in wanted : x <= k })
        results == RangeSearch(a, b) IN
    /\ Len(results) = Cardinality(wanted)
    /\ \A k \in wanted : results[rank(k)] = entries[k]

(* A list of all entries between two keys in their order is what            *)
(* RangeSearchIsComplete asks for. *)
LEMMA ListsComplete ==
    ASSUME NEW a, NEW b, NEW W, W = { k \in DOMAIN Entries : a <= k /\ k <= b },
           Lists(RangeSearch(a, b), W, Entries)
    PROVE  RangeComplete(a, b)
<1>1. \A k : NotAbove(W, k) = { x \in W : x <= k }
  BY DEF NotAbove
<1>2. /\ Len(RangeSearch(a, b)) = Cardinality(W)
      /\ \A k \in W : RangeSearch(a, b)[Cardinality({ x \in W : x <= k })] = Entries[k]
  BY <1>1 DEF Lists
<1> QED BY <1>2 DEF RangeComplete

(* A range search begins at the leaf of its lower bound, before which       *)
(* nothing is wanted, and lists what it wants. *)
LEMMA RangeSearchInTree ==
    ASSUME NEW T, NEW lev, NEW R, NEW c, NEW rank, step = "idle",
           NEW a \in Keys, NEW b \in Keys,
           Holds(nodes, root_page_id, total_pages, step, work, T, lev, R, c, rank)
    PROVE  RangeComplete(a, b)
<1>1. /\ EntriesIn(Entries, nodes, T, lev) /\ LeavesOK(nodes, T, lev, R)
  BY EntriesAre, LeavesRead
<1>2. /\ Shape(nodes, root_page_id, total_pages, INVALID_PAGE_ID, T, lev, R, c, rank)
      /\ TypedPages(nodes, total_pages) /\ root_page_id \in Pages
  BY IdleShape
<1>3. IsChain(nodes, T, lev, R, c) /\ Ranked(nodes, total_pages, rank) /\ T \subseteq Pages
  BY <1>2 DEF Shape, IsTree
<1>4. nodes \in [Pages -> Node] /\ root_page_id # INVALID_PAGE_ID
  BY <1>2, NoPage DEF TypedPages
<1>5. a \in Int /\ b \in Int
  BY BTreeAssumption
<1> DEFINE rest == CHOOSE f : RangeWalk(f, nodes, a, b)
           p == FindLeafPage(a)
<1>6. RangeWalk(rest, nodes, a, b)
  BY <1>3, <1>4, RangeWalkExists
<1>7. RangeSearch(a, b) = rest[p]
  BY <1>4 DEF RangeSearch, RangeWalk
<1>8. p \in T /\ p \in Pages /\ lev[p] = 0 /\ a \in R[p]
  BY LeafAt
<1> HIDE DEF rest, p
<1>9. PICK j \in 1 .. Len(c) : c[j] = p
  BY <1>3, <1>8 DEF IsChain, IsLeaf
<1>10. Lists(rest[c[j]], KeysFrom(nodes, c, a, b, j), Entries)
  BY <1>1, <1>3, <1>4, <1>5, <1>6, WalkLists
<1>11. /\ Len(c) \in Nat
       /\ \A i \in 1 .. Len(c) : IsLeaf(T, lev, c[i]) /\ c[i] \in Pages
       /\ \A x \in Pages : IsLeaf(T, lev, x) => \E i \in 1 .. Len(c) : c[i] = x
       /\ \A i, h \in 1 .. Len(c) : i < h => Precedes(R[c[i]], R[c[h]])
  BY <1>3 DEF IsChain
<1>12. \A i \in 1 .. Len(c) : \A k : HasKey(nodes[c[i]], k) => k \in R[c[i]] /\ k \in Int
  <2> SUFFICES ASSUME NEW i \in 1 .. Len(c), NEW k, HasKey(nodes[c[i]], k)
               PROVE  k \in R[c[i]] /\ k \in Int
    OBVIOUS
  <2>1. LeafOK(nodes[c[i]], R[c[i]])
    BY <1>1, <1>11 DEF LeavesOK
  <2> QED BY <2>1 DEF LeafOK, HasKey
<1>13. \A k : k \in DOMAIN Entries <=> \E i \in 1 .. Len(c) : HasKey(nodes[c[i]], k)
  <2> TAKE k
  <2>1. k \in DOMAIN Entries <=> \E x \in Pages : IsLeaf(T, lev, x) /\ HasKey(nodes[x], k)
    <3>1. k \in DOMAIN Entries => \E v : EntryAt(nodes, T, lev, k, v)
      BY <1>1 DEF EntriesIn
    <3>2. ASSUME NEW v, EntryAt(nodes, T, lev, k, v) PROVE k \in DOMAIN Entries
      BY <1>1, <3>2 DEF EntriesIn
    <3>3. ASSUME NEW v, EntryAt(nodes, T, lev, k, v)
          PROVE  \E x \in Pages : IsLeaf(T, lev, x) /\ HasKey(nodes[x], k)
      <4>1. PICK x \in Pages : IsLeaf(T, lev, x) /\ HasEntry(nodes[x], k, v)
        BY <3>3 DEF EntryAt
      <4>2. HasKey(nodes[x], k)
        BY <4>1 DEF HasEntry, HasKey
      <4> QED BY <4>1, <4>2
    <3>4. ASSUME NEW x \in Pages, IsLeaf(T, lev, x), HasKey(nodes[x], k)
          PROVE  k \in DOMAIN Entries
      <4>1. PICK i \in 1 .. Len(nodes[x].keys) : nodes[x].keys[i] = k
        BY <3>4 DEF HasKey
      <4>2. HasEntry(nodes[x], k, nodes[x].values[i])
        BY <4>1 DEF HasEntry
      <4>3. EntryAt(nodes, T, lev, k, nodes[x].values[i])
        BY <4>2, <3>4 DEF EntryAt
      <4> QED BY <4>3, <3>2
    <3> QED BY <3>1, <3>3, <3>4
  <2> QED BY <2>1, <1>11
<1>14. \A k : k \in KeysFrom(nodes, c, a, b, j) <=> k \in DOMAIN Entries /\ a <= k /\ k <= b
  <2> TAKE k
  <2>1. ASSUME NEW i \in 1 .. Len(c), HasKey(nodes[c[i]], k), a <= k PROVE i >= j /\ k \in Int
    <3>1. k \in R[c[i]] /\ k \in Int
      BY <2>1, <1>12
    <3>2. CASE i < j
      <4>1. k < a
        BY <3>1, <3>2, <1>8, <1>9, <1>11 DEF Precedes
      <4> QED BY <4>1, <3>1, <2>1, <1>5
    <3>3. CASE ~(i < j)
      <4>1. i \in Int /\ j \in Int
        BY <1>11
      <4> QED BY <4>1, <3>1, <3>3
    <3> QED BY <3>2, <3>3
  <2>2. k \in KeysFrom(nodes, c, a, b, j) <=>
           k \in Int /\ a <= k /\ k <= b /\ \E i \in 1 .. Len(c) : i >= j /\ HasKey(nodes[c[i]], k)
    BY DEF KeysFrom
  <2> QED BY <2>1, <2>2, <1>13
<1>15. KeysFrom(nodes, c, a, b, j) = { k \in DOMAIN Entries : a <= k /\ k <= b }
  BY <1>14
<1>16. Lists(RangeSearch(a, b), KeysFrom(nodes, c, a, b, j), Entries)
  BY <1>7, <1>9, <1>10
<1> QED BY <1>15, <1>16, ListsComplete

(* RangeSearchIsComplete: between two operations, range_search returns the  *)
(* CTIDs of all entries from its lower to its upper bound, each once, in the*)
(* order of the keys, although it follows the chain and looks at no internal*)
(* page behind its first leaf. *)
THEOREM RangeSearchIsAlwaysComplete == Spec => []RangeSearchIsComplete
<1>1. TreeInv => RangeSearchIsComplete
  <2> SUFFICES ASSUME TreeInv, step = "idle", NEW a \in Keys, NEW b \in Keys PROVE RangeComplete(a, b)
    BY DEF RangeSearchIsComplete, RangeComplete
  <2>1. CASE Empty(nodes, root_page_id, total_pages, step, work)
    <3>1. Chain = <<>> /\ root_page_id = INVALID_PAGE_ID
      BY <2>1, EmptyIdle
    <3>2. DOMAIN Entries = {}
      BY <3>1, NothingRead DEF EmptyEntries
    <3>3. RangeSearch(a, b) = <<>>
      BY <3>1 DEF RangeSearch
    <3>4. Lists(<<>>, {}, Entries)
      BY NothingListed
    <3>5. {} = { k \in DOMAIN Entries : a <= k /\ k <= b }
      BY <3>2
    <3> QED BY <3>3, <3>4, <3>5, ListsComplete
  <2>2. CASE HasTree(nodes, root_page_id, total_pages, step, work)
    <3>1. PICK T, lev, R, c, rank :
             Holds(nodes, root_page_id, total_pages, step, work, T, lev, R, c, rank)
      BY <2>2 DEF HasTree
    <3> QED BY <3>1, RangeSearchInTree
  <2> QED BY <2>1, <2>2 DEF TreeInv, Grown
<1> QED BY <1>1, TreeInvInvariant, PTL

=============================================================================
