-------------------------- MODULE SubsequencesProofs --------------------------
(***************************************************************************)
(* Lemmas about loops over lists and about what they collect, for the      *)
(* proofs of the log, the engine, the catalog and the heap table.          *)
(***************************************************************************)
EXTENDS Subsequences, TLAPS, WellFoundedInduction

(* A set of numbers has a smallest one.                                    *)
LEMMA SmallestNumber ==
    ASSUME NEW T \in SUBSET Nat, T # {}
    PROVE  \E m \in T : \A n \in T : ~ (n < m)
<1>1. IsWellFoundedOn(OpToRel(<, Nat), Nat)
  BY NatLessThanWellFounded
<1>2. PICK m \in T : \A n \in T : ~ (<<n, m>> \in OpToRel(<, Nat))
  BY <1>1, WFMin
<1>3. \A n \in T : ~ (n < m)
  BY <1>2 DEF OpToRel
<1> QED
  BY <1>3

(* Induction over the rounds of a loop goes through the set of the rounds  *)
(* a claim holds for: a set of numbers with zero and the successor of each *)
(* holds them all.                                                         *)
LEMMA EveryRound ==
    ASSUME NEW S \in SUBSET Nat, 0 \in S, \A n \in S : n + 1 \in S
    PROVE  S = Nat
<1> DEFINE T == Nat \ S
<1>1. SUFFICES ASSUME T # {} PROVE FALSE
  OBVIOUS
<1>2. PICK x \in T : \A y \in T : ~ (y < x)
  <2> HIDE DEF T
  <2>1. T \in SUBSET Nat
    BY DEF T
  <2> QED BY <1>1, <2>1, SmallestNumber
<1>3. x \in Nat /\ x \notin S /\ x # 0
  OBVIOUS
<1>4. x - 1 \in Nat /\ x - 1 < x /\ (x - 1) + 1 = x
  BY <1>3
<1>5. x - 1 \in S
  BY <1>2, <1>4
<1> QED
  BY <1>3, <1>4, <1>5

(* A set of numbers with a bound has a largest one.                        *)
LEMMA LargestNumber ==
    ASSUME NEW T \in SUBSET Nat, T # {}, NEW b \in Nat, \A x \in T : x <= b
    PROVE  \E m \in T : \A x \in T : m >= x
<1> DEFINE B == { n \in Nat : \A x \in T : x <= n }
<1>1. b \in B
  OBVIOUS
<1>2. PICK m \in B : \A n \in B : ~ (n < m)
  <2> HIDE DEF B
  <2>1. B \in SUBSET Nat /\ B # {}
    BY <1>1 DEF B
  <2> QED BY <2>1, SmallestNumber
<1>3. m \in T
  <2> SUFFICES ASSUME m \notin T PROVE FALSE
    OBVIOUS
  <2>0. m \in Nat /\ \A x \in T : x \in Nat /\ x <= m /\ x # m
    OBVIOUS
  <2>1. \A x \in T : x < m
    BY <2>0
  <2>2. m - 1 \in Nat
    <3>1. PICK x \in T : TRUE
      OBVIOUS
    <3>2. x \in Nat /\ x < m
      BY <2>0, <2>1
    <3> QED BY <2>0, <3>2
  <2>3. \A x \in T : x <= m - 1
    BY <2>0, <2>1
  <2>4. m - 1 \in B /\ m - 1 < m
    BY <2>0, <2>2, <2>3
  <2> QED BY <2>4, <1>2
<1> QED
  BY <1>3

-----------------------------------------------------------------------------
(* Sequences *)

(* Two sequences with the same entries are equal.                          *)
LEMMA SameEntries ==
    ASSUME NEW S, NEW s \in Seq(S), NEW u \in Seq(S), Len(s) = Len(u),
           \A i \in 1 .. Len(s) : s[i] = u[i]
    PROVE  s = u
<1>1. s = [i \in 1 .. Len(s) |-> s[i]] /\ u = [i \in 1 .. Len(u) |-> u[i]]
  OBVIOUS
<1> QED BY <1>1

(* The entries of a sequence with one more at its end.                     *)
LEMMA AppendEntries ==
    ASSUME NEW S, NEW s \in Seq(S), NEW e \in S
    PROVE  /\ Append(s, e) \in Seq(S)
           /\ Len(Append(s, e)) = Len(s) + 1
           /\ \A i \in 1 .. Len(s) : Append(s, e)[i] = s[i]
           /\ Append(s, e)[Len(s) + 1] = e
           /\ Len(s) \in Nat
OBVIOUS

(* The entries of two sequences, one after the other.                      *)
LEMMA ConcatEntries ==
    ASSUME NEW S, NEW s \in Seq(S), NEW u \in Seq(S)
    PROVE  /\ s \o u \in Seq(S)
           /\ Len(s \o u) = Len(s) + Len(u)
           /\ \A i \in 1 .. Len(s) : (s \o u)[i] = s[i]
           /\ \A i \in 1 .. Len(u) : (s \o u)[Len(s) + i] = u[i]
           /\ \A i \in 1 .. Len(s) + Len(u) :
                 i \in 1 .. Len(s) \/ (i - Len(s) \in 1 .. Len(u) /\ (s \o u)[i] = u[i - Len(s)])
           /\ Len(s) \in Nat /\ Len(u) \in Nat
<1>1. Len(s) \in Nat /\ Len(u) \in Nat
  OBVIOUS
<1>2. s \o u \in Seq(S) /\ Len(s \o u) = Len(s) + Len(u)
  OBVIOUS
<1>3. \A i \in 1 .. Len(s) : (s \o u)[i] = s[i]
  OBVIOUS
<1>4. \A i \in 1 .. Len(u) : (s \o u)[Len(s) + i] = u[i]
  BY <1>1
<1>5. \A i \in 1 .. Len(s) + Len(u) :
         i \in 1 .. Len(s) \/ (i - Len(s) \in 1 .. Len(u) /\ (s \o u)[i] = u[i - Len(s)])
  <2> TAKE i \in 1 .. Len(s) + Len(u)
  <2>1. CASE i <= Len(s)
    BY <2>1, <1>1
  <2>2. CASE ~ (i <= Len(s))
    <3>1. i - Len(s) \in 1 .. Len(u)
      BY <2>2, <1>1
    <3>2. Len(s) + (i - Len(s)) = i
      BY <1>1
    <3> QED BY <3>1, <3>2, <1>4
  <2> QED BY <2>1, <2>2
<1> QED
  BY <1>1, <1>2, <1>3, <1>4, <1>5

-----------------------------------------------------------------------------
(* What Picked returns *)

(* The function of its rounds exists.                                      *)
IsWalk(w, s, places) ==
    w = [n \in 0 .. Len(s) |->
            IF n = 0 THEN <<>>
            ELSE IF n \in places THEN Append(w[n - 1], s[n])
            ELSE w[n - 1]]

LEMMA WalkExists ==
    ASSUME NEW T, NEW s \in Seq(T), NEW places
    PROVE  \E w : IsWalk(w, s, places)
<1> DEFINE Round(n, v) == IF n \in places THEN Append(v, s[n]) ELSE v
           Walk(w, m) == w = [n \in 0 .. m |-> IF n = 0 THEN <<>> ELSE Round(n, w[n - 1])]
           S == { m \in Nat : \E w : Walk(w, m) }
<1> HIDE DEF Round
<1>1. 0 \in S
  <2> DEFINE w == [n \in 0 .. 0 |-> <<>>]
  <2>1. Walk(w, 0)
    OBVIOUS
  <2> QED BY <2>1
<1>2. ASSUME NEW m \in S PROVE m + 1 \in S
  <2>1. PICK w : Walk(w, m)
    OBVIOUS
  <2> DEFINE x == [n \in 0 .. m + 1 |-> IF n = m + 1 THEN Round(n, w[m]) ELSE w[n]]
  <2>2. \A n \in 0 .. m : x[n] = w[n]
    OBVIOUS
  <2>3. \A n \in 0 .. m + 1 : x[n] = IF n = 0 THEN <<>> ELSE Round(n, x[n - 1])
    <3> SUFFICES ASSUME NEW n \in 0 .. m + 1
                 PROVE  x[n] = IF n = 0 THEN <<>> ELSE Round(n, x[n - 1])
      OBVIOUS
    <3>1. CASE n = m + 1
      <4>1. x[n] = Round(n, w[m]) /\ n - 1 = m /\ n # 0
        BY <3>1
      <4> QED BY <4>1, <2>2
    <3>2. CASE n \in 0 .. m /\ n # 0
      <4>1. n - 1 \in 0 .. m
        BY <3>2
      <4>2. w[n] = Round(n, w[n - 1])
        BY <3>2, <2>1
      <4> QED BY <4>1, <4>2, <2>2, <3>2
    <3>3. CASE n = 0
      <4>1. w[0] = <<>>
        BY <2>1
      <4>2. x[0] = w[0]
        BY <2>2
      <4> QED BY <4>1, <4>2, <3>3
    <3> QED BY <3>1, <3>2, <3>3
  <2> HIDE DEF x
  <2>4. x = [n \in 0 .. m + 1 |-> x[n]]
    BY DEF x
  <2>5. Walk(x, m + 1)
    BY <2>3, <2>4
  <2> QED BY <2>5
<1>3. S = Nat
  <2> HIDE DEF S
  <2>1. S \in SUBSET Nat
    BY DEF S
  <2> QED BY <1>1, <1>2, <2>1, EveryRound
<1>4. Len(s) \in S
  BY <1>3
<1>5. PICK w : Walk(w, Len(s))
  BY <1>4
<1> QED
  BY <1>5 DEF Round, IsWalk

(* Its rounds.                                                             *)
LEMMA PickedWalks ==
    ASSUME NEW T, NEW s \in Seq(T), NEW places
    PROVE  \E w : /\ w[0] = <<>>
                  /\ \A n \in 1 .. Len(s) :
                        w[n] = IF n \in places THEN Append(w[n - 1], s[n]) ELSE w[n - 1]
                  /\ Picked(s, places) = w[Len(s)]
<1> DEFINE walked == CHOOSE w : IsWalk(w, s, places)
<1>1. IsWalk(walked, s, places)
  BY WalkExists
<1>2. Picked(s, places) = walked[Len(s)]
  BY DEF Picked, IsWalk
<1> HIDE DEF walked
<1>3. \A n \in 0 .. Len(s) : walked[n] = IF n = 0 THEN <<>>
                                          ELSE IF n \in places THEN Append(walked[n - 1], s[n])
                                          ELSE walked[n - 1]
  BY <1>1 DEF IsWalk
<1>4. Len(s) \in Nat
  OBVIOUS
<1>5. walked[0] = <<>>
  BY <1>3, <1>4
<1>6. \A n \in 1 .. Len(s) :
         walked[n] = IF n \in places THEN Append(walked[n - 1], s[n]) ELSE walked[n - 1]
  BY <1>3, <1>4
<1> QED
  BY <1>2, <1>5, <1>6

(* It takes the entry of every place once, and no other.                   *)
LEMMA PickedPlaces ==
    ASSUME NEW T, NEW s \in Seq(T), NEW places
    PROVE  /\ Picked(s, places) \in Seq(T)
           /\ \E at \in [1 .. Len(Picked(s, places)) -> 1 .. Len(s)] :
                 /\ \A k \in 1 .. Len(Picked(s, places)) :
                       at[k] \in places /\ Picked(s, places)[k] = s[at[k]]
                 /\ \A i \in 1 .. Len(s) : i \in places =>
                       \E k \in 1 .. Len(Picked(s, places)) : at[k] = i
                 /\ \A k, l \in 1 .. Len(Picked(s, places)) : at[k] = at[l] => k = l
<1>1. PICK w : /\ w[0] = <<>>
               /\ \A n \in 1 .. Len(s) :
                     w[n] = IF n \in places THEN Append(w[n - 1], s[n]) ELSE w[n - 1]
               /\ Picked(s, places) = w[Len(s)]
  BY PickedWalks
<1> DEFINE Places(v, m, at) ==
              /\ at \in [1 .. Len(v) -> 1 .. m]
              /\ \A k \in 1 .. Len(v) : at[k] \in places /\ v[k] = s[at[k]]
              /\ \A i \in 1 .. m : i \in places => \E k \in 1 .. Len(v) : at[k] = i
              /\ \A k, l \in 1 .. Len(v) : at[k] = at[l] => k = l
           Taken(v, m) == v \in Seq(T) /\ \E at : Places(v, m, at)
           S == { m \in Nat : m <= Len(s) => Taken(w[m], m) }
<1>2. Len(s) \in Nat /\ \A i \in 1 .. Len(s) : s[i] \in T
  OBVIOUS
<1>3. 0 \in S
  <2>1. <<>> \in Seq(T) /\ Len(<<>>) = 0
    OBVIOUS
  <2> DEFINE at == [k \in 1 .. 0 |-> 0]
  <2>2. Places(<<>>, 0, at)
    BY <2>1
  <2>3. Taken(<<>>, 0)
    <3> HIDE DEF Places, at
    <3> QED BY <2>1, <2>2
  <2> HIDE DEF Taken
  <2>4. Taken(w[0], 0)
    BY <2>3, <1>1
  <2> QED BY <2>4
<1>4. ASSUME NEW m \in S PROVE m + 1 \in S
  <2> HIDE DEF Taken
  <2> SUFFICES ASSUME m + 1 <= Len(s) PROVE Taken(w[m + 1], m + 1)
    OBVIOUS
  <2>1. m \in Nat /\ m + 1 \in 1 .. Len(s) /\ (m + 1) - 1 = m
    BY <1>2
  <2>2. Taken(w[m], m)
    BY <2>1
  <2>3. w[m + 1] = IF m + 1 \in places THEN Append(w[m], s[m + 1]) ELSE w[m]
    BY <1>1, <2>1
  <2> DEFINE e == s[m + 1]
             v == w[m]
             x == w[m + 1]
  <2>4. e \in T
    BY <1>2, <2>1
  <2> HIDE DEF e, v, x
  <2> HIDE DEF Places
  <2>5. PICK at : v \in Seq(T) /\ Places(v, m, at)
    BY <2>2 DEF v, Taken
  <2>6. Len(v) \in Nat
    BY <2>5
  <2>7. CASE m + 1 \notin places
    <3>1. x = v
      BY <2>3, <2>7 DEF v, x
    <3>2. Places(x, m + 1, at)
      <4>1. at \in [1 .. Len(v) -> 1 .. m + 1]
        BY <2>5, <2>1, <2>6 DEF Places
      <4>2. \A i \in 1 .. m + 1 : i \in places => \E k \in 1 .. Len(v) : at[k] = i
        <5> TAKE i \in 1 .. m + 1
        <5>1. i = m + 1 \/ i \in 1 .. m
          BY <2>1
        <5> QED BY <5>1, <2>5, <2>7 DEF Places
      <4> QED BY <4>1, <4>2, <2>5, <3>1 DEF Places
    <3> QED BY <3>1, <3>2, <2>5 DEF Taken, x
  <2>8. CASE m + 1 \in places
    <3> DEFINE to == [k \in 1 .. Len(v) + 1 |-> IF k = Len(v) + 1 THEN m + 1 ELSE at[k]]
    <3>1. x = Append(v, e)
      BY <2>3, <2>8 DEF e, v, x
    <3>2. /\ x \in Seq(T)
          /\ Len(x) = Len(v) + 1
          /\ \A k \in 1 .. Len(v) : x[k] = v[k]
          /\ x[Len(v) + 1] = e
      BY <3>1, <2>5, <2>4, AppendEntries
    <3>3. /\ \A k \in 1 .. Len(v) : to[k] = at[k] /\ at[k] \in 1 .. m
          /\ to[Len(v) + 1] = m + 1
          /\ \A k \in 1 .. Len(x) : k \in 1 .. Len(v) \/ k = Len(v) + 1
          /\ to = [k \in 1 .. Len(x) |-> to[k]]
      <4>1. at \in [1 .. Len(v) -> 1 .. m]
        BY <2>5 DEF Places
      <4>2. \A k \in 1 .. Len(v) : to[k] = at[k] /\ at[k] \in 1 .. m
        BY <4>1, <2>6
      <4>3. to[Len(v) + 1] = m + 1
        BY <2>6
      <4>4. \A k \in 1 .. Len(x) : k \in 1 .. Len(v) \/ k = Len(v) + 1
        BY <2>6, <3>2
      <4>5. to = [k \in 1 .. Len(v) + 1 |-> to[k]]
        OBVIOUS
      <4> HIDE DEF to
      <4> QED BY <4>2, <4>3, <4>4, <4>5, <3>2
    <3> HIDE DEF to
    <3>4. to \in [1 .. Len(x) -> 1 .. m + 1]
      <4>0. 1 .. m \subseteq 1 .. m + 1 /\ m + 1 \in 1 .. m + 1
        BY <2>1
      <4>1. \A k \in 1 .. Len(x) : to[k] \in 1 .. m + 1
        BY <3>3, <4>0
      <4> QED BY <4>1, <3>3
    <3>5. \A k \in 1 .. Len(x) : to[k] \in places /\ x[k] = s[to[k]]
      <4> TAKE k \in 1 .. Len(x)
      <4>1. CASE k \in 1 .. Len(v)
        BY <4>1, <3>2, <3>3, <2>5 DEF Places
      <4>2. CASE k = Len(v) + 1
        BY <4>2, <3>2, <3>3, <2>8 DEF e
      <4> QED BY <4>1, <4>2, <3>3
    <3>6. \A i \in 1 .. m + 1 : i \in places => \E k \in 1 .. Len(x) : to[k] = i
      <4> SUFFICES ASSUME NEW i \in 1 .. m + 1, i \in places
                   PROVE  \E k \in 1 .. Len(x) : to[k] = i
        OBVIOUS
      <4>1. CASE i = m + 1
        <5>1. Len(v) + 1 \in 1 .. Len(x)
          BY <3>2, <2>6
        <5> QED BY <5>1, <4>1, <3>3
      <4>2. CASE i \in 1 .. m
        <5>1. PICK k \in 1 .. Len(v) : at[k] = i
          BY <4>2, <2>5 DEF Places
        <5>2. k \in 1 .. Len(x)
          BY <3>2, <2>6
        <5> QED BY <5>1, <5>2, <3>3
      <4> QED BY <4>1, <4>2, <2>1
    <3>7. \A k, l \in 1 .. Len(x) : to[k] = to[l] => k = l
      <4> TAKE k, l \in 1 .. Len(x)
      <4>1. CASE k \in 1 .. Len(v) /\ l \in 1 .. Len(v)
        BY <4>1, <3>3, <2>5 DEF Places
      <4>2. CASE k = Len(v) + 1 \/ l = Len(v) + 1
        <5>0. m + 1 \notin 1 .. m
          BY <2>1
        <5>1. \A j \in 1 .. Len(v) : to[j] # m + 1
          BY <3>3, <5>0
        <5> QED BY <4>2, <5>1, <3>3
      <4> QED BY <4>1, <4>2, <3>3
    <3>8. Places(x, m + 1, to)
      BY <3>4, <3>5, <3>6, <3>7 DEF Places
    <3> QED BY <3>2, <3>8 DEF Taken, x
  <2> QED BY <2>7, <2>8
<1>5. S = Nat
  <2> HIDE DEF S
  <2>1. S \in SUBSET Nat
    BY DEF S
  <2> QED BY <1>3, <1>4, <2>1, EveryRound
<1>6. Taken(Picked(s, places), Len(s))
  <2>1. Len(s) \in S
    BY <1>5, <1>2
  <2> QED BY <2>1, <1>1, <1>2
<1> QED
  BY <1>6

(* When what it takes comes first, it takes the first so many records.     *)
LEMMA PickedFirst ==
    ASSUME NEW T, NEW s \in Seq(T), NEW places, NEW n \in 0 .. Len(s),
           \A i \in 1 .. Len(s) : i \in places <=> i <= n
    PROVE  Picked(s, places) = SubSeq(s, 1, n)
<1>1. PICK w : /\ w[0] = <<>>
               /\ \A k \in 1 .. Len(s) :
                     w[k] = IF k \in places THEN Append(w[k - 1], s[k]) ELSE w[k - 1]
               /\ Picked(s, places) = w[Len(s)]
  BY PickedWalks
<1> DEFINE First(v, m) ==
              /\ v \in Seq(T)
              /\ Len(v) = IF m <= n THEN m ELSE n
              /\ \A k \in 1 .. Len(v) : v[k] = s[k]
           S == { m \in Nat : m <= Len(s) => First(w[m], m) }
<1>2. Len(s) \in Nat /\ \A i \in 1 .. Len(s) : s[i] \in T
  OBVIOUS
<1>3. 0 \in S
  <2>1. <<>> \in Seq(T) /\ Len(<<>>) = 0 /\ 0 <= n
    OBVIOUS
  <2>2. First(<<>>, 0)
    BY <2>1
  <2> QED BY <2>2, <1>1
<1>4. ASSUME NEW m \in S PROVE m + 1 \in S
  <2> SUFFICES ASSUME m + 1 <= Len(s) PROVE First(w[m + 1], m + 1)
    OBVIOUS
  <2>1. m \in Nat /\ m + 1 \in 1 .. Len(s) /\ (m + 1) - 1 = m /\ s[m + 1] \in T
    BY <1>2
  <2>2. First(w[m], m)
    BY <2>1
  <2>3. w[m + 1] = IF m + 1 <= n THEN Append(w[m], s[m + 1]) ELSE w[m]
    BY <1>1, <2>1
  <2> DEFINE v == w[m]
             x == w[m + 1]
  <2> HIDE DEF v, x
  <2>4. First(v, m)
    BY <2>2 DEF v
  <2>5. CASE m + 1 <= n
    <3>1. x = Append(v, s[m + 1])
      BY <2>3, <2>5 DEF v, x
    <3>2. v \in Seq(T) /\ Len(v) = m
      BY <2>4, <2>5, <2>1
    <3>3. /\ x \in Seq(T)
          /\ Len(x) = Len(v) + 1
          /\ \A k \in 1 .. Len(v) : x[k] = v[k]
          /\ x[Len(v) + 1] = s[m + 1]
      BY <3>1, <3>2, <2>1, AppendEntries
    <3>4. \A k \in 1 .. Len(x) : x[k] = s[k]
      BY <3>2, <3>3, <2>4, <2>1
    <3>5. First(x, m + 1)
      BY <3>2, <3>3, <3>4, <2>5
    <3> QED BY <3>5 DEF x
  <2>6. CASE ~ (m + 1 <= n)
    <3>1. x = v
      BY <2>3, <2>6 DEF v, x
    <3>2. Len(v) = n
      BY <2>4, <2>6, <2>1
    <3>3. First(x, m + 1)
      BY <3>1, <3>2, <2>4, <2>6
    <3> QED BY <3>3 DEF x
  <2> QED BY <2>5, <2>6
<1>5. S = Nat
  <2> HIDE DEF S
  <2>1. S \in SUBSET Nat
    BY DEF S
  <2> QED BY <1>3, <1>4, <2>1, EveryRound
<1>6. First(Picked(s, places), Len(s))
  <2>1. Len(s) \in S
    BY <1>5, <1>2
  <2> QED BY <2>1, <1>1, <1>2
<1> DEFINE a == Picked(s, places)
<1> HIDE DEF a
<1>7. a \in Seq(T) /\ Len(a) = n /\ \A k \in 1 .. Len(a) : a[k] = s[k]
  BY <1>6, <1>2 DEF a
<1>8. /\ SubSeq(s, 1, n) \in Seq(T)
      /\ Len(SubSeq(s, 1, n)) = n
      /\ \A k \in 1 .. n : SubSeq(s, 1, n)[k] = s[k]
  BY <1>2
<1>9. a = SubSeq(s, 1, n)
  BY <1>7, <1>8, SameEntries
<1> QED
  BY <1>9 DEF a

(* When what it leaves comes first, it takes the rest.                     *)
LEMMA PickedRest ==
    ASSUME NEW T, NEW s \in Seq(T), NEW places, NEW n \in 0 .. Len(s),
           \A i \in 1 .. Len(s) : i \in places <=> ~ (i <= n)
    PROVE  Picked(s, places) = SubSeq(s, n + 1, Len(s))
<1>1. PICK w : /\ w[0] = <<>>
               /\ \A k \in 1 .. Len(s) :
                     w[k] = IF k \in places THEN Append(w[k - 1], s[k]) ELSE w[k - 1]
               /\ Picked(s, places) = w[Len(s)]
  BY PickedWalks
<1> DEFINE Rest(v, m) ==
              /\ v \in Seq(T)
              /\ Len(v) = IF m <= n THEN 0 ELSE m - n
              /\ \A k \in 1 .. Len(v) : v[k] = s[n + k]
           S == { m \in Nat : m <= Len(s) => Rest(w[m], m) }
<1>2. n \in Nat /\ Len(s) \in Nat /\ n <= Len(s) /\ \A i \in 1 .. Len(s) : s[i] \in T
  OBVIOUS
<1>3. 0 \in S
  <2>1. <<>> \in Seq(T) /\ Len(<<>>) = 0 /\ 0 <= n
    OBVIOUS
  <2>2. Rest(<<>>, 0)
    BY <2>1
  <2> QED BY <2>2, <1>1
<1>4. ASSUME NEW m \in S PROVE m + 1 \in S
  <2> SUFFICES ASSUME m + 1 <= Len(s) PROVE Rest(w[m + 1], m + 1)
    OBVIOUS
  <2>1. m \in Nat /\ m + 1 \in 1 .. Len(s) /\ (m + 1) - 1 = m /\ s[m + 1] \in T
    BY <1>2
  <2>2. Rest(w[m], m)
    BY <2>1
  <2>3. w[m + 1] = IF m + 1 <= n THEN w[m] ELSE Append(w[m], s[m + 1])
    BY <1>1, <2>1
  <2> DEFINE v == w[m]
             x == w[m + 1]
  <2> HIDE DEF v, x
  <2>4. Rest(v, m)
    BY <2>2 DEF v
  <2>5. CASE m + 1 <= n
    <3>1. x = v
      BY <2>3, <2>5 DEF v, x
    <3>2. Len(v) = 0
      BY <2>4, <2>5, <2>1, <1>2
    <3>3. Rest(x, m + 1)
      BY <3>1, <3>2, <2>4, <2>5
    <3> QED BY <3>3 DEF x
  <2>6. CASE ~ (m + 1 <= n)
    <3>1. x = Append(v, s[m + 1])
      BY <2>3, <2>6 DEF v, x
    <3>2. v \in Seq(T) /\ Len(v) = m - n
      BY <2>4, <2>6, <2>1, <1>2
    <3>3. /\ x \in Seq(T)
          /\ Len(x) = Len(v) + 1
          /\ \A k \in 1 .. Len(v) : x[k] = v[k]
          /\ x[Len(v) + 1] = s[m + 1]
      BY <3>1, <3>2, <2>1, AppendEntries
    <3>4. n + (Len(v) + 1) = m + 1
      BY <3>2, <1>2, <2>1
    <3>5. \A k \in 1 .. Len(x) : x[k] = s[n + k]
      <4> TAKE k \in 1 .. Len(x)
      <4>1. CASE k = Len(v) + 1
        BY <4>1, <3>3, <3>4
      <4>2. CASE k \in 1 .. Len(v)
        BY <4>2, <3>3, <2>4
      <4> QED BY <4>1, <4>2, <3>3, <3>2, <1>2, <2>1, <2>6
    <3>6. Len(x) = (m + 1) - n
      BY <3>2, <3>3, <1>2, <2>1
    <3>7. Rest(x, m + 1)
      BY <3>3, <3>5, <3>6, <2>6
    <3> QED BY <3>7 DEF x
  <2> QED BY <2>5, <2>6
<1>5. S = Nat
  <2> HIDE DEF S
  <2>1. S \in SUBSET Nat
    BY DEF S
  <2> QED BY <1>3, <1>4, <2>1, EveryRound
<1>6. Rest(Picked(s, places), Len(s))
  <2>1. Len(s) \in S
    BY <1>5, <1>2
  <2> QED BY <2>1, <1>1, <1>2
<1> DEFINE a == Picked(s, places)
<1> HIDE DEF a
<1>7. a \in Seq(T) /\ Len(a) = Len(s) - n /\ \A k \in 1 .. Len(a) : a[k] = s[n + k]
  BY <1>6, <1>2 DEF a
<1>8. /\ SubSeq(s, n + 1, Len(s)) \in Seq(T)
      /\ Len(SubSeq(s, n + 1, Len(s))) = Len(s) - n
      /\ \A k \in 1 .. Len(s) - n : SubSeq(s, n + 1, Len(s))[k] = s[n + k]
  BY <1>2
<1>9. a = SubSeq(s, n + 1, Len(s))
  BY <1>7, <1>8, SameEntries
<1> QED
  BY <1>9 DEF a

-----------------------------------------------------------------------------
IsWalkOf(w, s, places) ==
    /\ w[0] = <<>>
    /\ \A n \in 1 .. Len(s) :
          w[n] = IF n \in places THEN Append(w[n - 1], s[n]) ELSE w[n - 1]

LEMMA PickedIsWalk ==
    ASSUME NEW T, NEW s \in Seq(T), NEW places
    PROVE  \E w : IsWalkOf(w, s, places) /\ Picked(s, places) = w[Len(s)]
BY PickedWalks DEF IsWalkOf

(* Two walks agree as long as the sequences and the places do. *)
LEMMA WalksAgree ==
    ASSUME NEW T, NEW s \in Seq(T), NEW u \in Seq(T), NEW P, NEW Q,
           NEW m \in Nat, m <= Len(s), m <= Len(u),
           \A i \in 1 .. m : s[i] = u[i] /\ (i \in P <=> i \in Q),
           NEW w, IsWalkOf(w, s, P), NEW x, IsWalkOf(x, u, Q)
    PROVE  w[m] = x[m]
<1> DEFINE S == { n \in Nat : n <= m => w[n] = x[n] }
<1>1. 0 \in S
  BY DEF IsWalkOf
<1>2. ASSUME NEW n \in S PROVE n + 1 \in S
  <2> SUFFICES ASSUME n + 1 <= m PROVE w[n + 1] = x[n + 1]
    OBVIOUS
  <2>1. n \in Nat /\ n <= m /\ n + 1 \in 1 .. m /\ (n + 1) - 1 = n
    OBVIOUS
  <2>2. Len(s) \in Nat /\ Len(u) \in Nat
    OBVIOUS
  <2>3. n + 1 \in 1 .. Len(s) /\ n + 1 \in 1 .. Len(u)
    BY <2>1, <2>2
  <2>4. w[n] = x[n]
    BY <2>1
  <2>5. w[n + 1] = IF n + 1 \in P THEN Append(w[n], s[n + 1]) ELSE w[n]
    BY <2>1, <2>3 DEF IsWalkOf
  <2>6. x[n + 1] = IF n + 1 \in Q THEN Append(x[n], u[n + 1]) ELSE x[n]
    BY <2>1, <2>3 DEF IsWalkOf
  <2> QED BY <2>1, <2>4, <2>5, <2>6
<1>3. S = Nat
  <2> HIDE DEF S
  <2>1. S \in SUBSET Nat
    BY DEF S
  <2> QED BY <1>1, <1>2, <2>1, EveryRound
<1>4. m \in S
  BY <1>3
<1> QED
  BY <1>4

LEMMA PickedAgree ==
    ASSUME NEW T, NEW s \in Seq(T), NEW P, NEW Q, \A i \in 1 .. Len(s) : i \in P <=> i \in Q
    PROVE  Picked(s, P) = Picked(s, Q)
<1>1. PICK w : IsWalkOf(w, s, P) /\ Picked(s, P) = w[Len(s)]
  BY PickedIsWalk
<1>2. PICK x : IsWalkOf(x, s, Q) /\ Picked(s, Q) = x[Len(s)]
  BY PickedIsWalk
<1>3. Len(s) \in Nat /\ Len(s) <= Len(s)
  OBVIOUS
<1>4. w[Len(s)] = x[Len(s)]
  BY <1>1, <1>2, <1>3, WalksAgree
<1> QED
  BY <1>1, <1>2, <1>4

LEMMA PickedEmpty ==
    ASSUME NEW P
    PROVE  Picked(<<>>, P) = <<>>
<1>1. <<>> \in Seq({}) /\ Len(<<>>) = 0
  OBVIOUS
<1>2. PICK w : IsWalkOf(w, <<>>, P) /\ Picked(<<>>, P) = w[Len(<<>>)]
  BY <1>1, PickedIsWalk
<1> QED
  BY <1>1, <1>2 DEF IsWalkOf

LEMMA PickedAppend ==
    ASSUME NEW T, NEW s \in Seq(T), NEW e \in T, NEW P
    PROVE  Picked(Append(s, e), P) =
              IF Len(s) + 1 \in P THEN Append(Picked(s, P), e) ELSE Picked(s, P)
<1> DEFINE u == Append(s, e)
           m == Len(s)
<1>1. /\ u \in Seq(T) /\ Len(u) = m + 1 /\ m \in Nat
      /\ \A i \in 1 .. m : u[i] = s[i]
      /\ u[m + 1] = e
  BY AppendEntries
<1> HIDE DEF u
<1>2. PICK w : IsWalkOf(w, s, P) /\ Picked(s, P) = w[m]
  BY PickedIsWalk
<1>3. PICK x : IsWalkOf(x, u, P) /\ Picked(u, P) = x[Len(u)]
  BY <1>1, PickedIsWalk
<1>4. m <= Len(s) /\ m <= Len(u) /\ \A i \in 1 .. m : s[i] = u[i] /\ (i \in P <=> i \in P)
  BY <1>1
<1>5. w[m] = x[m]
  <2>1. m <= Len(u) /\ m <= Len(s) /\ m \in Nat
    BY <1>1
  <2> HIDE DEF m
  <2> QED BY <2>1, <1>1, <1>2, <1>3, <1>4, WalksAgree
<1>6. x[m + 1] = IF m + 1 \in P THEN Append(x[m], u[m + 1]) ELSE x[m]
  <2>1. m + 1 \in 1 .. Len(u) /\ (m + 1) - 1 = m
    BY <1>1
  <2> QED BY <1>3, <2>1 DEF IsWalkOf
<1> QED
  BY <1>1, <1>2, <1>3, <1>5, <1>6 DEF u

(* The entries of s that are in a set. *)
Only(s, K) == Picked(s, { i \in DOMAIN s : s[i] \in K })

LEMMA OnlyEmpty ==
    ASSUME NEW K
    PROVE  Only(<<>>, K) = <<>>
BY PickedEmpty DEF Only

LEMMA OnlyAppend ==
    ASSUME NEW T, NEW s \in Seq(T), NEW e \in T, NEW K
    PROVE  Only(Append(s, e), K) = IF e \in K THEN Append(Only(s, K), e) ELSE Only(s, K)
<1> DEFINE u == Append(s, e)
           P == { i \in DOMAIN u : u[i] \in K }
           Q == { i \in DOMAIN s : s[i] \in K }
<1>1. /\ u \in Seq(T) /\ Len(u) = Len(s) + 1 /\ Len(s) \in Nat
      /\ \A i \in 1 .. Len(s) : u[i] = s[i]
      /\ u[Len(s) + 1] = e
  BY AppendEntries
<1>2. DOMAIN u = 1 .. Len(s) + 1 /\ DOMAIN s = 1 .. Len(s)
  <2> HIDE DEF u
  <2>1. DOMAIN u = 1 .. Len(u)
    BY <1>1
  <2> QED BY <1>1, <2>1
<1> HIDE DEF u
<1>3. \A i \in 1 .. Len(s) : i \in P <=> i \in Q
  BY <1>1, <1>2
<1>4. Len(s) + 1 \in P <=> e \in K
  BY <1>1, <1>2
<1> HIDE DEF P, Q
<1>5. Picked(s, P) = Picked(s, Q)
  BY <1>3, PickedAgree
<1>6. Picked(u, P) = IF Len(s) + 1 \in P THEN Append(Picked(s, P), e) ELSE Picked(s, P)
  BY PickedAppend DEF u
<1> QED
  BY <1>4, <1>5, <1>6 DEF P, Q, u, Only

LEMMA OnlyInSeq ==
    ASSUME NEW T, NEW s \in Seq(T), NEW K
    PROVE  /\ Only(s, K) \in Seq(T)
           /\ \A e : (\E i \in 1 .. Len(Only(s, K)) : Only(s, K)[i] = e)
                     <=> (e \in K /\ \E i \in 1 .. Len(s) : s[i] = e)
<1> DEFINE P == { i \in DOMAIN s : s[i] \in K }
           v == Picked(s, P)
<1>1. v = Only(s, K)
  BY DEF Only
<1>2. DOMAIN s = 1 .. Len(s)
  OBVIOUS
<1>3. \A i : i \in P <=> i \in 1 .. Len(s) /\ s[i] \in K
  BY <1>2
<1> HIDE DEF P
<1>4. /\ v \in Seq(T)
      /\ \E at \in [1 .. Len(v) -> 1 .. Len(s)] :
            /\ \A k \in 1 .. Len(v) : at[k] \in P /\ v[k] = s[at[k]]
            /\ \A i \in 1 .. Len(s) : i \in P => \E k \in 1 .. Len(v) : at[k] = i
  BY PickedPlaces
<1> HIDE DEF v
<1>5. PICK at \in [1 .. Len(v) -> 1 .. Len(s)] :
            /\ \A k \in 1 .. Len(v) : at[k] \in P /\ v[k] = s[at[k]]
            /\ \A i \in 1 .. Len(s) : i \in P => \E k \in 1 .. Len(v) : at[k] = i
  BY <1>4
<1>6. ASSUME NEW e, NEW i \in 1 .. Len(v), v[i] = e
      PROVE  e \in K /\ \E j \in 1 .. Len(s) : s[j] = e
  BY <1>3, <1>5, <1>6
<1>7. ASSUME NEW e, e \in K, NEW j \in 1 .. Len(s), s[j] = e
      PROVE  \E i \in 1 .. Len(v) : v[i] = e
  <2>1. j \in P
    BY <1>3, <1>7
  <2>2. PICK k \in 1 .. Len(v) : at[k] = j
    BY <1>5, <2>1
  <2>3. v[k] = e
    BY <1>5, <2>2, <1>7
  <2> QED BY <2>3
<1> QED
  BY <1>1, <1>4, <1>6, <1>7

LEMMA ConcatAppend ==
    ASSUME NEW T, NEW s \in Seq(T), NEW u \in Seq(T), NEW e \in T
    PROVE  s \o Append(u, e) = Append(s \o u, e)
<1>1. Len(s) \in Nat /\ Len(u) \in Nat
  OBVIOUS
<1>2. s \o u \in Seq(T) /\ Append(u, e) \in Seq(T)
  OBVIOUS
<1>3. s \o Append(u, e) \in Seq(T) /\ Append(s \o u, e) \in Seq(T)
  BY <1>2
<1>4. Len(s \o Append(u, e)) = Len(s) + Len(u) + 1 /\ Len(Append(s \o u, e)) = Len(s) + Len(u) + 1
  BY <1>1, <1>2
<1>5. ASSUME NEW i \in 1 .. Len(s) + Len(u) + 1
      PROVE  (s \o Append(u, e))[i] = Append(s \o u, e)[i]
  <2>1. CASE i <= Len(s)
    BY <1>1, <1>2, <2>1
  <2>2. CASE Len(s) < i /\ i <= Len(s) + Len(u)
    BY <1>1, <1>2, <2>2
  <2>3. CASE i = Len(s) + Len(u) + 1
    BY <1>1, <1>2, <2>3
  <2> QED BY <1>1, <2>1, <2>2, <2>3
<1> QED
  BY <1>3, <1>4, <1>5, SameEntries

LEMMA ConcatEmpty ==
    ASSUME NEW T, NEW s \in Seq(T)
    PROVE  s \o <<>> = s /\ <<>> \o s = s
OBVIOUS

(* Every sequence is its first entries and the last one. *)
LEMMA OnlyConcat ==
    ASSUME NEW T, NEW s \in Seq(T), NEW K
    PROVE  \A u \in Seq(T) : Only(s \o u, K) = Only(s, K) \o Only(u, K)
<1> DEFINE S == { m \in Nat : \A u \in Seq(T) : Len(u) = m =>
                                 Only(s \o u, K) = Only(s, K) \o Only(u, K) }
<1>1. 0 \in S
  <2> SUFFICES ASSUME NEW u \in Seq(T), Len(u) = 0
               PROVE  Only(s \o u, K) = Only(s, K) \o Only(u, K)
    OBVIOUS
  <2>1. u = <<>>
    OBVIOUS
  <2>2. s \o u = s
    BY <2>1, ConcatEmpty
  <2>3. Only(u, K) = <<>> /\ Only(s, K) \in Seq(T)
    BY <2>1, OnlyEmpty, OnlyInSeq
  <2> QED BY <2>2, <2>3, ConcatEmpty
<1>2. ASSUME NEW m \in S PROVE m + 1 \in S
  <2> SUFFICES ASSUME NEW u \in Seq(T), Len(u) = m + 1
               PROVE  Only(s \o u, K) = Only(s, K) \o Only(u, K)
    OBVIOUS
  <2> DEFINE v == SubSeq(u, 1, m)
             e == u[m + 1]
  <2>1. m \in Nat
    OBVIOUS
  <2>2. v \in Seq(T) /\ Len(v) = m /\ e \in T /\ u = Append(v, e)
    <3>1. v \in Seq(T) /\ Len(v) = m /\ e \in T
      BY <2>1
    <3>2. \A i \in 1 .. m : v[i] = u[i]
      BY <2>1
    <3>3. Append(v, e) \in Seq(T) /\ Len(Append(v, e)) = m + 1
      BY <3>1
    <3>4. \A i \in 1 .. m + 1 : Append(v, e)[i] = u[i]
      <4> HIDE DEF v
      <4> QED BY <2>1, <3>1, <3>2
    <3> HIDE DEF v, e
    <3> QED BY <3>1, <3>3, <3>4, SameEntries
  <2> HIDE DEF v, e
  <2>3. Only(s \o v, K) = Only(s, K) \o Only(v, K)
    BY <2>2
  <2>4. s \o v \in Seq(T) /\ Only(v, K) \in Seq(T) /\ Only(s, K) \in Seq(T)
    BY <2>2, OnlyInSeq
  <2>5. s \o u = Append(s \o v, e)
    BY <2>2, ConcatAppend
  <2>6. Only(s \o u, K) = IF e \in K THEN Append(Only(s \o v, K), e) ELSE Only(s \o v, K)
    <3> DEFINE y == s \o v
    <3>1. y \in Seq(T) /\ e \in T
      BY <2>2, <2>4
    <3> HIDE DEF y, S
    <3>2. Only(Append(y, e), K) = IF e \in K THEN Append(Only(y, K), e) ELSE Only(y, K)
      BY <3>1, OnlyAppend
    <3> QED BY <2>5, <3>2 DEF y
  <2>7. Only(u, K) = IF e \in K THEN Append(Only(v, K), e) ELSE Only(v, K)
    BY <2>2, OnlyAppend
  <2>8. Only(s, K) \o Append(Only(v, K), e) = Append(Only(s, K) \o Only(v, K), e)
    BY <2>2, <2>4, ConcatAppend
  <2> QED BY <2>3, <2>6, <2>7, <2>8
<1>3. S = Nat
  <2> HIDE DEF S
  <2>1. S \in SUBSET Nat
    BY DEF S
  <2> QED BY <1>1, <1>2, <2>1, EveryRound
<1>4. ASSUME NEW u \in Seq(T) PROVE Len(u) \in S
  BY <1>3
<1> QED
  BY <1>4

(* What is kept of what was picked. *)
PlacesIn(s, P, K) == { i \in P : s[i] \in K }

LEMMA PickedOnly ==
    ASSUME NEW T, NEW s \in Seq(T), NEW P, NEW K
    PROVE  Only(Picked(s, P), K) = Picked(s, PlacesIn(s, P, K))
<1> DEFINE Q == PlacesIn(s, P, K)
<1>1. PICK w : IsWalkOf(w, s, P) /\ Picked(s, P) = w[Len(s)]
  BY PickedIsWalk
<1>2. PICK x : IsWalkOf(x, s, Q) /\ Picked(s, Q) = x[Len(s)]
  BY PickedIsWalk
<1> DEFINE S == { n \in Nat : n <= Len(s) => w[n] \in Seq(T) /\ Only(w[n], K) = x[n] }
<1>3. 0 \in S
  <2>1. w[0] = <<>> /\ x[0] = <<>>
    BY <1>1, <1>2 DEF IsWalkOf
  <2>2. w[0] \in Seq(T)
    BY <2>1
  <2> QED BY <2>1, <2>2, OnlyEmpty
<1>4. ASSUME NEW n \in S PROVE n + 1 \in S
  <2> SUFFICES ASSUME n + 1 <= Len(s) PROVE w[n + 1] \in Seq(T) /\ Only(w[n + 1], K) = x[n + 1]
    OBVIOUS
  <2>1. n \in Nat /\ n <= Len(s) /\ n + 1 \in 1 .. Len(s) /\ (n + 1) - 1 = n
    OBVIOUS
  <2>2. w[n] \in Seq(T) /\ Only(w[n], K) = x[n] /\ s[n + 1] \in T
    BY <2>1
  <2>3. w[n + 1] = IF n + 1 \in P THEN Append(w[n], s[n + 1]) ELSE w[n]
    BY <1>1, <2>1 DEF IsWalkOf
  <2> HIDE DEF Q
  <2>4. x[n + 1] = IF n + 1 \in Q THEN Append(x[n], s[n + 1]) ELSE x[n]
    BY <1>2, <2>1 DEF IsWalkOf
  <2>5. n + 1 \in Q <=> n + 1 \in P /\ s[n + 1] \in K
    BY DEF Q, PlacesIn
  <2>6. Only(Append(w[n], s[n + 1]), K) =
           IF s[n + 1] \in K THEN Append(Only(w[n], K), s[n + 1]) ELSE Only(w[n], K)
    <3> DEFINE y == w[n]
               e == s[n + 1]
    <3>1. y \in Seq(T) /\ e \in T
      BY <2>2
    <3> HIDE DEF y, e, S
    <3>2. Only(Append(y, e), K) = IF e \in K THEN Append(Only(y, K), e) ELSE Only(y, K)
      BY <3>1, OnlyAppend
    <3> QED BY <3>2 DEF y, e
  <2>7. Append(w[n], s[n + 1]) \in Seq(T)
    BY <2>2
  <2> QED BY <2>2, <2>3, <2>4, <2>5, <2>6, <2>7
<1>5. S = Nat
  <2> HIDE DEF S
  <2>1. S \in SUBSET Nat
    BY DEF S
  <2> QED BY <1>3, <1>4, <2>1, EveryRound
<1>6. Len(s) \in S
  BY <1>5
<1> QED
  BY <1>1, <1>2, <1>6

(* A function of every entry. *)
Mapped(s, f) == [k \in DOMAIN s |-> f[s[k]]]

LEMMA PickedMapped ==
    ASSUME NEW T, NEW s \in Seq(T), NEW P, NEW f
    PROVE  Mapped(Picked(s, P), f) = Picked(Mapped(s, f), P)
<1> DEFINE u == [i \in 1 .. Len(s) |-> f[s[i]]]
           Map(v) == [k \in DOMAIN v |-> f[v[k]]]
           U == { f[t] : t \in T }
<1>0. Len(s) \in Nat /\ (\A i \in 1 .. Len(s) : s[i] \in T) /\ \A t \in T : f[t] \in U
  OBVIOUS
<1> HIDE DEF U
<1>1. u \in Seq(U) /\ Len(u) = Len(s) /\ \A i \in 1 .. Len(s) : u[i] = f[s[i]]
  BY <1>0
<1> HIDE DEF u
<1>2. PICK w : IsWalkOf(w, s, P) /\ Picked(s, P) = w[Len(s)]
  BY PickedIsWalk
<1>3. PICK x : IsWalkOf(x, u, P) /\ Picked(u, P) = x[Len(u)]
  BY <1>1, PickedIsWalk
<1> DEFINE S == { n \in Nat : n <= Len(s) => w[n] \in Seq(T) /\ Map(w[n]) = x[n] }
<1>4. 0 \in S
  <2>1. w[0] = <<>> /\ x[0] = <<>>
    BY <1>2, <1>3 DEF IsWalkOf
  <2>2. w[0] \in Seq(T)
    BY <2>1
  <2>3. Map(<<>>) = <<>>
    OBVIOUS
  <2> QED BY <2>1, <2>2, <2>3
<1>5. ASSUME NEW n \in S PROVE n + 1 \in S
  <2> SUFFICES ASSUME n + 1 <= Len(s) PROVE w[n + 1] \in Seq(T) /\ Map(w[n + 1]) = x[n + 1]
    OBVIOUS
  <2>1. n \in Nat /\ n <= Len(s) /\ n + 1 \in 1 .. Len(s) /\ (n + 1) - 1 = n
    OBVIOUS
  <2>2. w[n] \in Seq(T) /\ Map(w[n]) = x[n] /\ s[n + 1] \in T
    BY <2>1
  <2>3. w[n + 1] = IF n + 1 \in P THEN Append(w[n], s[n + 1]) ELSE w[n]
    BY <1>2, <2>1 DEF IsWalkOf
  <2>4. x[n + 1] = IF n + 1 \in P THEN Append(x[n], f[s[n + 1]]) ELSE x[n]
    BY <1>1, <1>3, <2>1 DEF IsWalkOf
  <2> DEFINE v == w[n]
             e == s[n + 1]
  <2> HIDE DEF v, e
  <2>5. Map(Append(v, e)) = Append(Map(v), f[e])
    <3>1. v \in Seq(T) /\ e \in T /\ f[e] \in U
      BY <1>0, <2>2 DEF v, e
    <3>2. Append(v, e) \in Seq(T) /\ Len(Append(v, e)) = Len(v) + 1 /\ Len(v) \in Nat
          /\ (\A i \in 1 .. Len(v) : Append(v, e)[i] = v[i]) /\ Append(v, e)[Len(v) + 1] = e
      BY <3>1, AppendEntries
    <3>3. Map(v) \in Seq(U) /\ Len(Map(v)) = Len(v) /\ \A i \in 1 .. Len(v) : Map(v)[i] = f[v[i]]
      <4>1. DOMAIN v = 1 .. Len(v) /\ \A i \in 1 .. Len(v) : v[i] \in T
        BY <3>1
      <4>2. \A i \in 1 .. Len(v) : f[v[i]] \in U
        BY <4>1, <1>0
      <4>3. Map(v) = [i \in 1 .. Len(v) |-> f[v[i]]]
        BY <4>1
      <4> QED BY <4>2, <4>3, <3>2
    <3>4. Append(Map(v), f[e]) \in Seq(U) /\ Len(Append(Map(v), f[e])) = Len(v) + 1
          /\ (\A i \in 1 .. Len(v) : Append(Map(v), f[e])[i] = f[v[i]])
          /\ Append(Map(v), f[e])[Len(v) + 1] = f[e]
      <4> DEFINE y == Map(v)
      <4> HIDE DEF y
      <4>1. y \in Seq(U) /\ Len(y) = Len(v) /\ \A i \in 1 .. Len(v) : y[i] = f[v[i]]
        BY <3>3 DEF y
      <4>2. Append(y, f[e]) \in Seq(U) /\ Len(Append(y, f[e])) = Len(v) + 1
          /\ (\A i \in 1 .. Len(v) : Append(y, f[e])[i] = f[v[i]])
          /\ Append(y, f[e])[Len(v) + 1] = f[e]
        BY <4>1, <3>1, AppendEntries
      <4> QED BY <4>2 DEF y
    <3> DEFINE a == Append(v, e)
               b == Append(Map(v), f[e])
    <3> HIDE DEF a, b
    <3>5. a \in Seq(T) /\ Len(a) = Len(v) + 1 /\ b \in Seq(U) /\ Len(b) = Len(v) + 1 /\ Len(v) \in Nat
      BY <3>2, <3>4 DEF a, b
    <3>6. DOMAIN a = 1 .. Len(v) + 1 /\ b = [i \in 1 .. Len(v) + 1 |-> b[i]]
      BY <3>5
    <3>7. \A i \in 1 .. Len(v) + 1 : f[a[i]] = b[i]
      <4>1. \A i \in 1 .. Len(v) : f[a[i]] = b[i]
        BY <3>2, <3>4 DEF a, b
      <4>2. f[a[Len(v) + 1]] = b[Len(v) + 1]
        BY <3>2, <3>4 DEF a, b
      <4>3. \A i \in 1 .. Len(v) + 1 : i \in 1 .. Len(v) \/ i = Len(v) + 1
        <5>1. Len(v) \in Nat
          BY <3>5
        <5> QED BY <5>1
      <4> QED BY <4>1, <4>2, <4>3
    <3>8. Map(a) = b
      BY <3>6, <3>7
    <3> QED BY <3>8 DEF a, b
  <2>6. Append(w[n], s[n + 1]) \in Seq(T)
    BY <2>2
  <2>7. Map(Append(w[n], s[n + 1])) = Append(x[n], f[s[n + 1]])
    BY <2>2, <2>5 DEF v, e
  <2> HIDE DEF Map
  <2> QED BY <2>2, <2>3, <2>4, <2>6, <2>7
<1>6. S = Nat
  <2> HIDE DEF S
  <2>1. S \in SUBSET Nat
    BY DEF S
  <2> QED BY <1>4, <1>5, <2>1, EveryRound
<1>7. Len(s) \in S
  <2> HIDE DEF S
  <2> QED BY <1>0, <1>6
<1>8. Map(Picked(s, P)) = Picked(u, P)
  <2> HIDE DEF Map
  <2> QED BY <1>1, <1>2, <1>3, <1>7
<1>9. u = Mapped(s, f)
  <2>1. DOMAIN s = 1 .. Len(s)
    OBVIOUS
  <2> QED BY <2>1 DEF u, Mapped
<1>10. Map(Picked(s, P)) = Mapped(Picked(s, P), f)
  BY DEF Mapped
<1> HIDE DEF Map
<1> QED
  BY <1>8, <1>9, <1>10

-----------------------------------------------------------------------------
(* Of the numbers up to n some end a group and some are good.  A group all *)
(* of whose numbers are good may be found from its end or from its start.  *)
GoodFromEnd(n, Ends, Good) ==
    \E e \in 1 .. n : /\ e \in Ends \/ e = n
                      /\ \A j \in 1 .. e : (\A l \in j .. e - 1 : l \notin Ends) => j \in Good

GoodFromStart(n, Ends, Good) ==
    \E s \in 1 .. n : /\ s = 1 \/ s - 1 \in Ends
                      /\ \A i \in s .. n : (\A j \in s .. i - 1 : j \notin Ends) => i \in Good

LEMMA GroupsFromTheirEnds ==
    ASSUME NEW n \in Nat, NEW Ends, NEW Good
    PROVE  GoodFromEnd(n, Ends, Good) <=> GoodFromStart(n, Ends, Good)
<1>1. ASSUME NEW e \in 1 .. n, e \in Ends \/ e = n,
             \A j \in 1 .. e : (\A l \in j .. e - 1 : l \notin Ends) => j \in Good
      PROVE  GoodFromStart(n, Ends, Good)
  <2> DEFINE B == { s \in 1 .. e : \A l \in s .. e - 1 : l \notin Ends }
  <2>1. e \in B /\ B \in SUBSET Nat
    OBVIOUS
  <2>2. PICK s \in B : \A r \in B : ~ (r < s)
    <3> HIDE DEF B
    <3> QED BY <2>1, SmallestNumber
  <2>3. s \in 1 .. e /\ s \in 1 .. n /\ \A l \in s .. e - 1 : l \notin Ends
    OBVIOUS
  <2>4. s = 1 \/ s - 1 \in Ends
    <3> SUFFICES ASSUME s # 1, s - 1 \notin Ends PROVE FALSE
      OBVIOUS
    <3>1. s - 1 \in 1 .. e /\ s - 1 < s
      BY <2>3
    <3>2. \A l \in s - 1 .. e - 1 : l = s - 1 \/ l \in s .. e - 1
      BY <2>3
    <3>3. s - 1 \in B
      BY <2>3, <3>1, <3>2
    <3> HIDE DEF B
    <3> QED BY <2>2, <3>1, <3>3
  <2>5. ASSUME NEW i \in s .. n, \A j \in s .. i - 1 : j \notin Ends
        PROVE  i \in Good
    <3>1. i <= e
      <4> SUFFICES ASSUME e < i PROVE FALSE
        BY <2>3
      <4>1. e \in s .. i - 1
        BY <2>3
      <4>2. e \notin Ends /\ e # n
        BY <4>1, <2>5
      <4> QED BY <1>1, <4>2
    <3>2. i \in 1 .. e /\ \A l \in i .. e - 1 : l \in s .. e - 1
      BY <2>3, <3>1
    <3> QED BY <1>1, <2>3, <3>2
  <2> QED BY <2>3, <2>4, <2>5 DEF GoodFromStart
<1>2. ASSUME NEW s \in 1 .. n, s = 1 \/ s - 1 \in Ends,
             \A i \in s .. n : (\A j \in s .. i - 1 : j \notin Ends) => i \in Good
      PROVE  GoodFromEnd(n, Ends, Good)
  <2> DEFINE B == { i \in s .. n : \A j \in s .. i - 1 : j \notin Ends }
  <2>1. s \in B /\ B \in SUBSET Nat /\ \A x \in B : x <= n
    OBVIOUS
  <2>2. PICK e \in B : \A x \in B : e >= x
    <3> HIDE DEF B
    <3> QED BY <2>1, LargestNumber
  <2>3. e \in s .. n /\ e \in 1 .. n /\ \A j \in s .. e - 1 : j \notin Ends
    OBVIOUS
  <2>4. e \in Ends \/ e = n
    <3> SUFFICES ASSUME e \notin Ends, e # n PROVE FALSE
      OBVIOUS
    <3>1. e + 1 \in s .. n /\ \A j \in s .. (e + 1) - 1 : j = e \/ j \in s .. e - 1
      BY <2>3
    <3>2. e + 1 \in B
      BY <2>3, <3>1
    <3>3. e >= e + 1
      <4> HIDE DEF B
      <4> QED BY <2>2, <3>2
    <3> QED BY <2>3, <3>3
  <2>5. ASSUME NEW j \in 1 .. e, \A l \in j .. e - 1 : l \notin Ends
        PROVE  j \in Good
    <3>1. s <= j
      <4> SUFFICES ASSUME j < s PROVE FALSE
        OBVIOUS
      <4>1. s # 1 /\ s - 1 \in j .. e - 1
        BY <2>3
      <4> QED BY <1>2, <2>5, <4>1
    <3>2. j \in s .. n /\ \A l \in s .. j - 1 : l \in s .. e - 1
      BY <2>3, <3>1
    <3> QED BY <1>2, <2>3, <3>2
  <2> QED BY <2>3, <2>4, <2>5 DEF GoodFromEnd
<1>3. GoodFromEnd(n, Ends, Good) => GoodFromStart(n, Ends, Good)
  BY <1>1 DEF GoodFromEnd
<1>4. GoodFromStart(n, Ends, Good) => GoodFromEnd(n, Ends, Good)
  BY <1>2 DEF GoodFromStart
<1> QED
  BY <1>3, <1>4
=============================================================================
