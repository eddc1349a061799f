----------------------------- MODULE EngineProofs -----------------------------
(***************************************************************************)
(* Proofs about the engine: promised rows survive crashes, index and heap  *)
(* agree, when a recovery panics, and the files and the log hold what a    *)
(* crash needs, for any number of keys, rows, statements, checkpoints,     *)
(* crashes and errors of the disk.                                         *)
(***************************************************************************)
EXTENDS Engine, SubsequencesProofs, FiniteSetTheorems

-----------------------------------------------------------------------------
(* Replaying a log *)

(* The function of the rows that a key goes through exists.                *)
IsReplay(v, x, log, k) ==
    v = [n \in 0 .. Len(log) |-> IF n = 0 THEN x ELSE After(v[n - 1], log[n], k)]

LEMMA ReplayExists ==
    ASSUME NEW x, NEW log \in Seq(Record), NEW k
    PROVE  \E v : IsReplay(v, x, log, k)
<1> DEFINE Round(n, y) == After(y, log[n], k)
           Walk(w, m) == w = [n \in 0 .. m |-> IF n = 0 THEN x ELSE Round(n, w[n - 1])]
           S == { m \in Nat : \E w : Walk(w, m) }
<1> HIDE DEF Round
<1>1. 0 \in S
  <2> DEFINE w == [n \in 0 .. 0 |-> x]
  <2>1. Walk(w, 0)
    OBVIOUS
  <2> QED BY <2>1
<1>2. ASSUME NEW m \in S PROVE m + 1 \in S
  <2>1. PICK w : Walk(w, m)
    OBVIOUS
  <2> DEFINE z == [n \in 0 .. m + 1 |-> IF n = m + 1 THEN Round(n, w[m]) ELSE w[n]]
  <2>2. \A n \in 0 .. m : z[n] = w[n]
    OBVIOUS
  <2>3. \A n \in 0 .. m + 1 : z[n] = IF n = 0 THEN x ELSE Round(n, z[n - 1])
    <3> SUFFICES ASSUME NEW n \in 0 .. m + 1
                 PROVE  z[n] = IF n = 0 THEN x ELSE Round(n, z[n - 1])
      OBVIOUS
    <3>1. CASE n = m + 1
      <4>1. z[n] = Round(n, w[m]) /\ n - 1 = m /\ n # 0
        BY <3>1
      <4> QED BY <4>1, <2>2
    <3>2. CASE n \in 0 .. m /\ n # 0
      <4>1. n - 1 \in 0 .. m
        BY <3>2
      <4>2. w[n] = Round(n, w[n - 1])
        BY <3>2, <2>1
      <4> QED BY <4>1, <4>2, <2>2, <3>2
    <3>3. CASE n = 0
      <4>1. w[0] = x
        BY <2>1
      <4>2. z[0] = w[0]
        BY <2>2
      <4> QED BY <4>1, <4>2, <3>3
    <3> QED BY <3>1, <3>2, <3>3
  <2> HIDE DEF z
  <2>4. z = [n \in 0 .. m + 1 |-> z[n]]
    BY DEF z
  <2>5. Walk(z, m + 1)
    BY <2>3, <2>4
  <2> QED BY <2>5
<1>3. S = Nat
  <2> HIDE DEF S
  <2>1. S \in SUBSET Nat
    BY DEF S
  <2> QED BY <1>1, <1>2, <2>1, EveryRound
<1>4. Len(log) \in S
  BY <1>3
<1>5. PICK w : Walk(w, Len(log))
  BY <1>4
<1> QED
  BY <1>5 DEF Round, IsReplay

(* Its steps.                                                              *)
LEMMA ReplayedSteps ==
    ASSUME NEW x, NEW log \in Seq(Record), NEW k
    PROVE  /\ Replayed(x, log, k)[0] = x
           /\ \A n \in 1 .. Len(log) :
                 Replayed(x, log, k)[n] = After(Replayed(x, log, k)[n - 1], log[n], k)
<1> DEFINE value == CHOOSE v : IsReplay(v, x, log, k)
<1>1. IsReplay(value, x, log, k)
  BY ReplayExists
<1>2. Replayed(x, log, k) = value
  BY DEF Replayed, IsReplay
<1> HIDE DEF value
<1>3. \A n \in 0 .. Len(log) :
         value[n] = IF n = 0 THEN x ELSE After(value[n - 1], log[n], k)
  BY <1>1 DEF IsReplay
<1>4. Len(log) \in Nat
  OBVIOUS
<1>5. value[0] = x
  BY <1>3, <1>4
<1>6. \A n \in 1 .. Len(log) : value[n] = After(value[n - 1], log[n], k)
  BY <1>3, <1>4
<1> QED
  BY <1>2, <1>5, <1>6

LEMMA ReplayedNothing == ASSUME NEW x, NEW k PROVE Replayed(x, <<>>, k)[0] = x
<1>1. <<>> \in Seq(Record)
  OBVIOUS
<1>2. PICK log \in Seq(Record) : log = <<>>
  BY <1>1
<1>3. Replayed(x, log, k)[0] = x
  BY ReplayedSteps
<1> QED
  BY <1>2, <1>3

(* What the first records of a log make of a row does not depend on the    *)
(* rest.                                                                   *)
LEMMA ReplayedPrefix ==
    ASSUME NEW x, NEW k, NEW log \in Seq(Record), NEW u \in Seq(Record), NEW l \in Nat,
           l <= Len(log), l <= Len(u), \A i \in 1 .. l : log[i] = u[i]
    PROVE  \A n \in 0 .. l : Replayed(x, log, k)[n] = Replayed(x, u, k)[n]
<1> DEFINE v == Replayed(x, log, k)
           w == Replayed(x, u, k)
           S == { n \in Nat : n <= l => v[n] = w[n] }
<1>1. /\ v[0] = x /\ w[0] = x
      /\ \A n \in 1 .. Len(log) : v[n] = After(v[n - 1], log[n], k)
      /\ \A n \in 1 .. Len(u) : w[n] = After(w[n - 1], u[n], k)
      /\ Len(log) \in Nat /\ Len(u) \in Nat
  BY ReplayedSteps
<1> HIDE DEF v, w
<1>2. 0 \in S
  BY <1>1
<1>3. ASSUME NEW n \in S PROVE n + 1 \in S
  <2> SUFFICES ASSUME n + 1 <= l PROVE v[n + 1] = w[n + 1]
    OBVIOUS
  <2>1. n \in Nat /\ n + 1 \in 1 .. l /\ (n + 1) - 1 = n /\ v[n] = w[n]
    OBVIOUS
  <2>2. n + 1 \in 1 .. Len(log) /\ n + 1 \in 1 .. Len(u)
    BY <2>1, <1>1
  <2>3. v[n + 1] = After(v[n], log[n + 1], k) /\ w[n + 1] = After(w[n], u[n + 1], k)
    BY <2>1, <2>2, <1>1
  <2> QED BY <2>1, <2>3
<1>4. S = Nat
  <2> HIDE DEF S
  <2>1. S \in SUBSET Nat
    BY DEF S
  <2> QED BY <1>2, <1>3, <2>1, EveryRound
<1>5. \A n \in 0 .. l : v[n] = w[n]
  BY <1>4
<1> QED
  BY <1>5 DEF v, w

(* A log that is replayed on what it has made already changes nothing: a   *)
(* deletion in it forgets what was before, and without one a row stays.    *)
LEMMA ReplayedAgain ==
    ASSUME NEW x, NEW k, NEW log \in Seq(Record), NEW n \in 0 .. Len(log)
    PROVE  Replayed(Replayed(x, log, k)[n], log, k)[n] = Replayed(x, log, k)[n]
<1> DEFINE Value(y, m) == Replayed(y, log, k)[m]
           Forgets(m) == \A y, z : Value(y, m) = Value(z, m)
           Keeps(m) == \A y : y # 0 => Value(y, m) = y
           S == { m \in Nat : m <= Len(log) => Forgets(m) \/ Keeps(m) }
<1>1. ASSUME NEW y
      PROVE  /\ Value(y, 0) = y
             /\ \A m \in 1 .. Len(log) : Value(y, m) = After(Value(y, m - 1), log[m], k)
  BY ReplayedSteps
<1>2. Len(log) \in Nat
  OBVIOUS
<1> HIDE DEF Value
<1>3. 0 \in S
  BY <1>1
<1>4. ASSUME NEW m \in S PROVE m + 1 \in S
  <2> SUFFICES ASSUME m + 1 <= Len(log) PROVE Forgets(m + 1) \/ Keeps(m + 1)
    OBVIOUS
  <2>1. m \in Nat /\ m + 1 \in 1 .. Len(log) /\ (m + 1) - 1 = m
    BY <1>2
  <2>2. Forgets(m) \/ Keeps(m)
    BY <2>1, <1>2
  <2> DEFINE e == log[m + 1]
  <2>3. \A y : Value(y, m + 1) = After(Value(y, m), e, k)
    <3> TAKE y
    <3> QED BY <1>1, <2>1
  <2> HIDE DEF e
  <2>4. CASE Forgets(m)
    BY <2>3, <2>4
  <2>5. CASE Keeps(m) /\ e.key = k /\ e.op = "delete"
    BY <2>3, <2>5 DEF After
  <2>6. CASE Keeps(m) /\ ~ (e.key = k /\ e.op = "delete")
    BY <2>3, <2>6 DEF After
  <2> QED BY <2>2, <2>4, <2>5, <2>6
<1>5. S = Nat
  <2> HIDE DEF S
  <2>1. S \in SUBSET Nat
    BY DEF S
  <2> QED BY <1>3, <1>4, <2>1, EveryRound
<1>6. Forgets(n) \/ Keeps(n)
  BY <1>5, <1>2
<1>7. Value(Value(x, n), n) = Value(x, n)
  <2>1. CASE Value(x, n) = 0 /\ Keeps(n)
    <3>1. x = 0
      BY <2>1
    <3> QED BY <3>1, <2>1
  <2> QED BY <1>6, <2>1
<1> QED
  BY <1>7 DEF Value

(* Deletions at the end of a log: a key that is among them is gone at the  *)
(* end, may be gone before, and other keys stay.                           *)
LEMMA ReplayedDeletions ==
    ASSUME NEW x, NEW k, NEW log \in Seq(Record), NEW u \in Seq(Record),
           \A i \in 1 .. Len(u) : u[i].op = "delete"
    PROVE  /\ \A n \in Len(log) .. Len(log \o u) :
                 \/ Replayed(x, log \o u, k)[n] = Replayed(x, log, k)[Len(log)]
                 \/ Replayed(x, log \o u, k)[n] = 0 /\ \E i \in 1 .. Len(u) : u[i].key = k
           /\ (\E i \in 1 .. Len(u) : u[i].key = k) =>
                 Replayed(x, log \o u, k)[Len(log \o u)] = 0
<1> DEFINE g == log \o u
           v == Replayed(x, g, k)
           first == Replayed(x, log, k)[Len(log)]
           l == Len(log)
           S == { m \in Nat : m <= Len(u) =>
                     IF \E i \in 1 .. m : u[i].key = k THEN v[l + m] = 0 ELSE v[l + m] = first }
<1>1. /\ g \in Seq(Record) /\ Len(g) = l + Len(u)
      /\ \A i \in 1 .. l : g[i] = log[i]
      /\ \A i \in 1 .. Len(u) : g[l + i] = u[i]
      /\ l \in Nat /\ Len(u) \in Nat
  BY ConcatEntries
<1> HIDE DEF g
<1>2. \A n \in 1 .. Len(g) : v[n] = After(v[n - 1], g[n], k)
  <2>1. g \in Seq(Record)
    BY <1>1
  <2> HIDE DEF S, v, first, l
  <2>2. \A n \in 1 .. Len(g) : Replayed(x, g, k)[n] = After(Replayed(x, g, k)[n - 1], g[n], k)
    BY <2>1, ReplayedSteps
  <2> QED BY <2>2 DEF v
<1>3. v[l] = first
  <2>1. l <= Len(log) /\ l <= Len(g) /\ \A i \in 1 .. l : log[i] = g[i]
    BY <1>1
  <2>2. \A n \in 0 .. l : Replayed(x, log, k)[n] = Replayed(x, g, k)[n]
    <3>1. g \in Seq(Record) /\ l \in Nat
      BY <1>1
    <3> HIDE DEF v, first, l, S
    <3> QED BY <3>1, <2>1, ReplayedPrefix
  <2> QED BY <2>2, <1>1
<1> HIDE DEF v, first, l
<1>4. 0 \in S
  BY <1>1, <1>3
<1>5. ASSUME NEW m \in S PROVE m + 1 \in S
  <2> SUFFICES ASSUME m + 1 <= Len(u)
               PROVE  IF \E i \in 1 .. m + 1 : u[i].key = k THEN v[l + (m + 1)] = 0
                      ELSE v[l + (m + 1)] = first
    OBVIOUS
  <2>1. /\ m \in Nat /\ m + 1 \in 1 .. Len(u) /\ l + (m + 1) \in 1 .. Len(g)
        /\ (l + (m + 1)) - 1 = l + m
    BY <1>1
  <2>2. IF \E i \in 1 .. m : u[i].key = k THEN v[l + m] = 0 ELSE v[l + m] = first
    BY <2>1, <1>1
  <2>3. v[l + (m + 1)] = IF u[m + 1].key # k THEN v[l + m] ELSE 0
    <3>1. g[l + (m + 1)] = u[m + 1] /\ u[m + 1].op = "delete"
      BY <1>1, <2>1
    <3> QED BY <3>1, <1>2, <2>1, <1>1 DEF After
  <2>4. \A i \in 1 .. m + 1 : i \in 1 .. m \/ i = m + 1
    BY <2>1
  <2>5. 1 .. m \subseteq 1 .. m + 1 /\ m + 1 \in 1 .. m + 1
    BY <2>1
  <2> QED BY <2>2, <2>3, <2>4, <2>5
<1>6. S = Nat
  <2> HIDE DEF S
  <2>1. S \in SUBSET Nat
    BY DEF S
  <2> QED BY <1>4, <1>5, <2>1, EveryRound
<1>7. \A m \in 0 .. Len(u) :
         IF \E i \in 1 .. m : u[i].key = k THEN v[l + m] = 0 ELSE v[l + m] = first
  <2> TAKE m \in 0 .. Len(u)
  <2>1. m \in Nat /\ m <= Len(u)
    BY <1>1
  <2>2. m \in S
    BY <1>6, <2>1
  <2> QED BY <2>1, <2>2
<1>8. ASSUME NEW n \in l .. l + Len(u)
      PROVE  v[n] = first \/ (v[n] = 0 /\ \E i \in 1 .. Len(u) : u[i].key = k)
  <2>1. n - l \in 0 .. Len(u) /\ l + (n - l) = n /\ 1 .. (n - l) \subseteq 1 .. Len(u)
    BY <1>1
  <2> QED BY <2>1, <1>7
<1>9. (\E i \in 1 .. Len(u) : u[i].key = k) => v[l + Len(u)] = 0
  <2>1. Len(u) \in 0 .. Len(u)
    BY <1>1
  <2> QED BY <2>1, <1>7
<1> QED
  BY <1>1, <1>8, <1>9 DEF g, v, first, l

(* One record more at the end of a log.                                    *)
LEMMA ReplayedAppend ==
    ASSUME NEW x, NEW k, NEW log \in Seq(Record), NEW r \in Record
    PROVE  /\ \A n \in 0 .. Len(log) :
                 Replayed(x, Append(log, r), k)[n] = Replayed(x, log, k)[n]
           /\ Replayed(x, Append(log, r), k)[Len(log) + 1] =
                 After(Replayed(x, log, k)[Len(log)], r, k)
<1> DEFINE g == Append(log, r)
           l == Len(log)
<1>1. /\ g \in Seq(Record) /\ Len(g) = l + 1 /\ l \in Nat
      /\ \A i \in 1 .. l : g[i] = log[i]
      /\ g[l + 1] = r
  BY AppendEntries
<1> HIDE DEF g
<1>2. \A n \in 0 .. l : Replayed(x, g, k)[n] = Replayed(x, log, k)[n]
  <2>1. l <= Len(g) /\ l <= Len(log) /\ \A i \in 1 .. l : g[i] = log[i]
    BY <1>1
  <2>2. g \in Seq(Record) /\ l \in Nat
    BY <1>1
  <2> HIDE DEF l
  <2> QED BY <2>1, <2>2, ReplayedPrefix
<1>3. Replayed(x, g, k)[l + 1] = After(Replayed(x, g, k)[l], r, k)
  <2>1. g \in Seq(Record)
    BY <1>1
  <2>2. \A n \in 1 .. Len(g) : Replayed(x, g, k)[n] = After(Replayed(x, g, k)[n - 1], g[n], k)
    BY <2>1, ReplayedSteps
  <2>3. l + 1 \in 1 .. Len(g) /\ (l + 1) - 1 = l
    BY <1>1
  <2> QED BY <2>2, <2>3, <1>1
<1>4. Replayed(x, g, k)[l] = Replayed(x, log, k)[l]
  BY <1>1, <1>2
<1> QED
  BY <1>2, <1>3, <1>4 DEF g

-----------------------------------------------------------------------------
(* Pages of tuples *)

USE EngineAssumption

LEMMA CTIDsAre ==
    /\ \A c \in CTID : c = <<c[1], c[2]>> /\ c[1] \in Pages /\ c[2] \in 1 .. PageSlots
                       /\ c[1] \in Nat /\ c # NoCTID
    /\ \A p \in Pages : \A i \in 1 .. PageSlots : <<p, i>> \in CTID
BY DEF CTID, Pages, NoCTID

(* A tuple more at the end of a page.                                      *)
WithTuple(h, p, s) == [h EXCEPT ![p] = Append(h[p], s)]
NextOn(h, p) == <<p, Len(h[p]) + 1>>

LEMMA TupleAppended ==
    ASSUME NEW h \in [Pages -> Seq(Slot)], \A q \in Pages : Len(h[q]) <= PageSlots,
           NEW p \in Pages, NEW s \in Slot, s.live, Len(h[p]) < PageSlots
    PROVE  /\ WithTuple(h, p, s) \in [Pages -> Seq(Slot)]
           /\ \A q \in Pages : Len(WithTuple(h, p, s)[q]) <= PageSlots
           /\ \A q \in Pages : q # p => WithTuple(h, p, s)[q] = h[q]
           /\ NextOn(h, p) \in CTID
           /\ ~LiveIn(h, NextOn(h, p))
           /\ LiveIn(WithTuple(h, p, s), NextOn(h, p))
           /\ TupleIn(WithTuple(h, p, s), NextOn(h, p)) = s
           /\ \A c \in CTID \ {NextOn(h, p)} :
                 LiveIn(WithTuple(h, p, s), c) <=> LiveIn(h, c)
           /\ \A c \in CTID \ {NextOn(h, p)} :
                 LiveIn(h, c) => TupleIn(WithTuple(h, p, s), c) = TupleIn(h, c)
<1> DEFINE a == Append(h[p], s)
           l == Len(h[p])
           g == WithTuple(h, p, s)
           new == NextOn(h, p)
<1>1. h[p] \in Seq(Slot)
  OBVIOUS
<1>2. /\ a \in Seq(Slot) /\ Len(a) = l + 1 /\ l \in Nat
      /\ \A i \in 1 .. l : a[i] = h[p][i]
      /\ a[l + 1] = s
  BY <1>1, AppendEntries
<1>3. DOMAIN h[p] = 1 .. l /\ DOMAIN a = 1 .. l + 1
  BY <1>1, <1>2
<1> HIDE DEF a, l
<1>4. g = [h EXCEPT ![p] = a] /\ new = <<p, l + 1>> /\ l < PageSlots
  BY DEF a, l, WithTuple, NextOn
<1> HIDE DEF g, new
<1>5. g \in [Pages -> Seq(Slot)] /\ g[p] = a /\ \A q \in Pages : q # p => g[q] = h[q]
  BY <1>2, <1>4
<1>6. \A q \in Pages : Len(g[q]) <= PageSlots
  BY <1>2, <1>4, <1>5
<1>7. l + 1 \in 1 .. PageSlots
  BY <1>2, <1>4
<1>8. new \in CTID /\ new[1] = p /\ new[2] = l + 1
  BY <1>4, <1>7, CTIDsAre
<1>9. ~LiveIn(h, new) /\ LiveIn(g, new) /\ TupleIn(g, new) = s
  BY <1>2, <1>3, <1>5, <1>8 DEF LiveIn, TupleIn, Slot
<1>10. ASSUME NEW c \in CTID, c # new
       PROVE  (LiveIn(g, c) <=> LiveIn(h, c)) /\ (LiveIn(h, c) => TupleIn(g, c) = TupleIn(h, c))
  <2>1. CASE c[1] # p
    BY <2>1, <1>5, CTIDsAre DEF LiveIn, TupleIn
  <2>2. CASE c[1] = p
    <3>1. c[2] # l + 1
      BY <2>2, <1>4, <1>10, CTIDsAre
    <3>2. c[2] \in 1 .. l <=> c[2] \in 1 .. l + 1
      <4>1. c[2] \in 1 .. PageSlots
        BY CTIDsAre
      <4> QED BY <3>1, <4>1, <1>2
    <3> QED BY <2>2, <3>2, <1>2, <1>3, <1>5 DEF LiveIn, TupleIn
  <2> QED BY <2>1, <2>2
<1> QED
  BY <1>5, <1>6, <1>8, <1>9, <1>10 DEF g, new

LEMMA SequenceOf ==
    ASSUME NEW S, NEW l \in Nat, NEW m, m = [i \in 1 .. l |-> m[i]],
           \A i \in 1 .. l : m[i] \in S
    PROVE  m \in Seq(S) /\ Len(m) = l /\ DOMAIN m = 1 .. l
OBVIOUS

(* The tuples of some keys marked deleted on a page.                       *)
MarkedOn(h, p, ks) == [h EXCEPT ![p] = Marked(h[p], ks)]

LEMMA TuplesMarked ==
    ASSUME NEW h \in [Pages -> Seq(Slot)], \A q \in Pages : Len(h[q]) <= PageSlots,
           NEW p \in Pages, NEW ks
    PROVE  /\ MarkedOn(h, p, ks) \in [Pages -> Seq(Slot)]
           /\ \A q \in Pages : Len(MarkedOn(h, p, ks)[q]) = Len(h[q])
           /\ \A q \in Pages : q # p => MarkedOn(h, p, ks)[q] = h[q]
           /\ \A c \in CTID : LiveIn(MarkedOn(h, p, ks), c) <=>
                 LiveIn(h, c) /\ ~ (c[1] = p /\ TupleIn(h, c).key \in ks)
           /\ \A c \in CTID : LiveIn(h, c) =>
                 /\ TupleIn(MarkedOn(h, p, ks), c).key = TupleIn(h, c).key
                 /\ TupleIn(MarkedOn(h, p, ks), c).row = TupleIn(h, c).row
<1> DEFINE m == Marked(h[p], ks)
           l == Len(h[p])
           g == MarkedOn(h, p, ks)
<1>1. h[p] \in Seq(Slot) /\ l \in Nat /\ DOMAIN h[p] = 1 .. l /\ \A i \in 1 .. l : h[p][i] \in Slot
  OBVIOUS
<1>2. m = [i \in 1 .. l |-> [h[p][i] EXCEPT !.live = @ /\ h[p][i].key \notin ks]]
  BY <1>1 DEF Marked
<1>3. g = [h EXCEPT ![p] = m]
  BY DEF MarkedOn
<1> HIDE DEF m, l, g
<1>4. \A i \in 1 .. l : /\ m[i] \in Slot
                        /\ m[i].key = h[p][i].key /\ m[i].row = h[p][i].row
                        /\ m[i].live = (h[p][i].live /\ h[p][i].key \notin ks)
  BY <1>1, <1>2 DEF Slot
<1>5. m \in Seq(Slot) /\ Len(m) = l /\ DOMAIN m = 1 .. l
  <2>1. m = [i \in 1 .. l |-> m[i]]
    BY <1>2
  <2> QED BY <1>1, <1>4, <2>1, SequenceOf
<1>6. /\ g \in [Pages -> Seq(Slot)] /\ g[p] = m
      /\ \A q \in Pages : q # p => g[q] = h[q]
  BY <1>5, <1>3
<1>7. \A q \in Pages : Len(g[q]) = Len(h[q])
  BY <1>5, <1>6 DEF l
<1>8. ASSUME NEW c \in CTID
      PROVE  /\ LiveIn(g, c) <=> LiveIn(h, c) /\ ~ (c[1] = p /\ TupleIn(h, c).key \in ks)
             /\ LiveIn(h, c) =>
                  TupleIn(g, c).key = TupleIn(h, c).key /\ TupleIn(g, c).row = TupleIn(h, c).row
  <2>1. CASE c[1] # p
    BY <2>1, <1>6, CTIDsAre DEF LiveIn, TupleIn
  <2>2. CASE c[1] = p
    BY <2>2, <1>1, <1>4, <1>5, <1>6 DEF LiveIn, TupleIn
  <2> QED BY <2>1, <2>2
<1> QED
  BY <1>6, <1>7, <1>8 DEF g

(* One tuple marked deleted.                                               *)
LEMMA TupleMarked ==
    ASSUME TypeOK, NEW d \in CTID
    PROVE  /\ MarkedAt(d) \in [Pages -> Seq(Slot)]
           /\ \A q \in Pages : Len(MarkedAt(d)[q]) = Len(heap[q])
           /\ \A c \in CTID : LiveIn(MarkedAt(d), c) <=> LiveIn(heap, c) /\ c # d
           /\ \A c \in CTID : LiveIn(heap, c) =>
                 /\ TupleIn(MarkedAt(d), c).key = TupleIn(heap, c).key
                 /\ TupleIn(MarkedAt(d), c).row = TupleIn(heap, c).row
<1>1. /\ heap \in [Pages -> Seq(Slot)] /\ d[1] \in Pages /\ d[2] \in Nat
      /\ heap[d[1]] \in Seq(Slot)
  <2>1. heap \in [Pages -> Seq(Slot)]
    BY DEF TypeOK
  <2>2. d[1] \in Pages /\ d[2] \in Nat
    BY CTIDsAre
  <2> QED BY <2>1, <2>2
<1>2. CASE d[2] \notin DOMAIN heap[d[1]]
  <2>1. MarkedAt(d) = heap
    BY <1>2 DEF MarkedAt
  <2>2. ~LiveIn(heap, d)
    BY <1>2 DEF LiveIn
  <2> QED BY <1>1, <2>1, <2>2
<1>3. CASE d[2] \in DOMAIN heap[d[1]]
  <2> DEFINE p == d[1]
             l == Len(heap[p])
             m == [heap[p] EXCEPT ![d[2]] = [heap[p][d[2]] EXCEPT !.live = FALSE]]
             g == MarkedAt(d)
  <2>1. l \in Nat /\ DOMAIN heap[p] = 1 .. l /\ \A i \in 1 .. l : heap[p][i] \in Slot
    BY <1>1
  <2>2. g = [heap EXCEPT ![p] = m]
    BY <1>1, <1>3 DEF MarkedAt
  <2>3. /\ m = [i \in 1 .. l |-> m[i]]
        /\ \A i \in 1 .. l : /\ m[i] \in Slot
                             /\ m[i].key = heap[p][i].key /\ m[i].row = heap[p][i].row
                             /\ m[i].live = (heap[p][i].live /\ i # d[2])
    <3>1. m = [i \in 1 .. l |-> m[i]]
      BY <2>1
    <3>2. ASSUME NEW i \in 1 .. l
          PROVE  /\ m[i] \in Slot
                 /\ m[i].key = heap[p][i].key /\ m[i].row = heap[p][i].row
                 /\ m[i].live = (heap[p][i].live /\ i # d[2])
      <4>1. heap[p][i] \in Slot
        BY <2>1
      <4>2. CASE i = d[2]
        <5>1. m[i] = [heap[p][i] EXCEPT !.live = FALSE]
          BY <4>2, <2>1
        <5> HIDE DEF m
        <5> QED BY <4>1, <4>2, <5>1 DEF Slot
      <4>3. CASE i # d[2]
        <5>1. m[i] = heap[p][i]
          BY <4>3, <2>1
        <5> HIDE DEF m
        <5> QED BY <4>1, <4>3, <5>1 DEF Slot
      <4> QED BY <4>2, <4>3
    <3> QED BY <3>1, <3>2
  <2> HIDE DEF m
  <2>4. m \in Seq(Slot) /\ Len(m) = l /\ DOMAIN m = 1 .. l
    <3> HIDE DEF l
    <3> QED BY <2>1, <2>3, SequenceOf
  <2>5. g \in [Pages -> Seq(Slot)] /\ g[p] = m /\ \A q \in Pages : q # p => g[q] = heap[q]
    BY <2>2, <2>4, <1>1
  <2> HIDE DEF g, l
  <2>6. \A q \in Pages : Len(g[q]) = Len(heap[q])
    BY <2>4, <2>5 DEF l
  <2>7. ASSUME NEW c \in CTID
        PROVE  /\ LiveIn(g, c) <=> LiveIn(heap, c) /\ c # d
               /\ LiveIn(heap, c) => /\ TupleIn(g, c).key = TupleIn(heap, c).key
                                     /\ TupleIn(g, c).row = TupleIn(heap, c).row
    <3>1. CASE c[1] # p
      BY <3>1, <2>5, CTIDsAre DEF LiveIn, TupleIn
    <3>2. CASE c[1] = p
      <4>1. c # d <=> c[2] # d[2]
        BY <3>2, CTIDsAre
      <4> HIDE DEF p
      <4> QED BY <3>2, <4>1, <2>1, <2>3, <2>4, <2>5 DEF LiveIn, TupleIn
    <3> QED BY <3>1, <3>2
  <2> QED BY <2>5, <2>6, <2>7 DEF g
<1> QED
  BY <1>2, <1>3

-----------------------------------------------------------------------------
(* Types and what each step knows *)

USE DEF pageVars, fileVars, catalogVars, logVars, stmtVars, countVars, riskVars, historyVars, Step

Base == TypeOK /\ StepsSound /\ CalmSound

LEMMA InitBase == Init => Base
<1> SUFFICES ASSUME Init PROVE Base
  OBVIOUS
<1>1. TypeOK
  <2>1. /\ index \in Leaf \union {Zeros} /\ index_disk \in Leaf \union {Zeros}
        /\ root_page_num \in BOOLEAN /\ steal \in BOOLEAN
        /\ index # Zeros => root_page_num
    BY DEF Init, Leaf, EmptyLeaf
  <2>2. /\ heap \in [Pages -> Seq(Slot)] /\ heap_disk \in [Pages -> Seq(Slot)]
        /\ \A p \in Pages : Len(heap[p]) <= PageSlots /\ Len(heap_disk[p]) <= PageSlots
    BY DEF Init
  <2>3. /\ log_buffer \in Seq(Record) /\ log_file \in Seq(Record)
        /\ page_lsn \in [Pages -> 0 .. Len(log_buffer)]
    BY DEF Init
  <2>4. /\ pc \in Steps /\ at \in Nat
        /\ stmt \in [op : {"none", "insert", "delete"}, keys : SUBSET Keys,
                     row : Nat, ctid : CTID \union {NoCTID}]
    BY DEF Init, NoStmt, Steps
  <2>5. /\ heap_pages \in 0 .. MaxHeap /\ heap_len \in 0 .. heap_pages
        /\ num_records \in Nat
    BY DEF Init
  <2>7. torn \in BOOLEAN /\ at_risk \in BOOLEAN /\ spoilt \in BOOLEAN
    BY DEF Init
  <2>6. allowed \in [Keys -> SUBSET (0 .. MaxRows)]
    BY DEF Init
  <2> QED BY <2>1, <2>2, <2>3, <2>4, <2>5, <2>6, <2>7 DEF TypeOK
<1>2. StepsSound
  <2>1. /\ index_disk # Zeros => root_page_num
        /\ pc = "idle" /\ stmt = NoStmt /\ at_risk = FALSE
        /\ rows = 0 /\ crashes = 0
        /\ heap = [p \in Pages |-> <<>>] /\ heap_disk = heap
    BY DEF Init, EmptyLeaf
  <2> QED BY <2>1 DEF StepsSound, Recovering, NoStmt
<1>3. CalmSound
  BY DEF Init, CalmSound, Established, EmptyLeaf, Zeros
<1> QED
  BY <1>1, <1>2, <1>3 DEF Base

(* The key and the row of an INSERT.                                       *)
LEMMA InsertedKey ==
    ASSUME Base, stmt.op = "insert"
    PROVE  /\ KeyOf(stmt) \in Keys /\ stmt.keys = {KeyOf(stmt)}
           /\ stmt.row \in 1 .. MaxRows /\ stmt.row \in allowed[KeyOf(stmt)]
           /\ stmt.ctid \in CTID
<1>1. PICK k \in Keys : stmt.keys = {k} /\ stmt.row \in allowed[k] \ {0} /\ stmt.ctid \in CTID
  BY DEF Base, StepsSound
<1>2. KeyOf(stmt) = k
  BY <1>1 DEF KeyOf
<1>3. allowed[k] \subseteq 0 .. MaxRows
  BY DEF Base, TypeOK
<1>4. stmt.row \in 1 .. MaxRows
  <2>1. stmt.row \in 0 .. MaxRows /\ stmt.row # 0
    BY <1>1, <1>3
  <2> QED BY <2>1
<1> QED
  BY <1>1, <1>2, <1>4

(* A tuple that is written lies behind the others.                         *)
LEMMA TupleWritten ==
    ASSUME Base, NEW k \in Keys, NEW r \in 1 .. MaxRows, WriteTuple(k, r)
    PROVE  /\ heap' \in [Pages -> Seq(Slot)]
           /\ \A q \in Pages : Len(heap'[q]) <= PageSlots
           /\ heap_pages' \in 0 .. MaxHeap /\ heap_pages' >= heap_pages
           /\ \A q \in Pages : q >= heap_pages' => heap'[q] = <<>>
           /\ NextCTID \in CTID
           /\ ~LiveIn(heap, NextCTID) /\ LiveIn(heap', NextCTID)
           /\ TupleIn(heap', NextCTID).key = k /\ TupleIn(heap', NextCTID).row = r
           /\ \A c \in CTID \ {NextCTID} : LiveIn(heap', c) <=> LiveIn(heap, c)
           /\ \A c \in CTID \ {NextCTID} :
                 LiveIn(heap, c) => TupleIn(heap', c) = TupleIn(heap, c)
<1> DEFINE p == Target
           s == [key |-> k, row |-> r, live |-> TRUE]
<1>1. /\ heap \in [Pages -> Seq(Slot)] /\ \A q \in Pages : Len(heap[q]) <= PageSlots
      /\ heap_pages \in 0 .. MaxHeap
      /\ \A q \in Pages : q >= heap_pages => heap[q] = <<>>
  BY DEF Base, TypeOK, StepsSound
<1>2. /\ p \in Pages /\ p + 1 >= heap_pages /\ p + 1 \in 0 .. MaxHeap
      /\ Len(heap[p]) < PageSlots
  <2>1. CASE heap_pages > 0 /\ Len(heap[heap_pages - 1]) < PageSlots
    BY <2>1, <1>1 DEF Target, Pages
  <2>2. CASE ~ (heap_pages > 0 /\ Len(heap[heap_pages - 1]) < PageSlots)
    <3>1. p = heap_pages
      BY <2>2 DEF Target
    <3>2. p < MaxHeap
      BY DEF WriteTuple
    <3>3. p \in Pages /\ p + 1 >= heap_pages /\ p + 1 \in 0 .. MaxHeap
      <4> HIDE DEF p
      <4> QED BY <3>1, <3>2, <1>1 DEF Pages
    <3>4. heap[p] = <<>>
      <4> HIDE DEF p
      <4> QED BY <3>1, <3>3, <1>1 DEF Pages
    <3>5. Len(heap[p]) = 0
      BY <3>4
    <3> QED BY <3>3, <3>5
  <2> QED BY <2>1, <2>2
<1>3. s \in Slot
  BY DEF Slot
<1>4. heap' = WithTuple(heap, p, s) /\ heap_pages' = p + 1
  BY <1>1, <1>2 DEF WriteTuple, WithTuple
<1>5. NextCTID = NextOn(heap, p)
  BY DEF NextCTID, NextOn
<1> HIDE DEF p
<1>6. s.key = k /\ s.row = r /\ s.live
  OBVIOUS
<1> HIDE DEF s
<1>7. /\ heap' \in [Pages -> Seq(Slot)]
      /\ \A q \in Pages : Len(heap'[q]) <= PageSlots
      /\ \A q \in Pages : q # p => heap'[q] = heap[q]
      /\ NextCTID \in CTID
      /\ ~LiveIn(heap, NextCTID) /\ LiveIn(heap', NextCTID)
      /\ TupleIn(heap', NextCTID) = s
      /\ \A c \in CTID \ {NextCTID} : LiveIn(heap', c) <=> LiveIn(heap, c)
      /\ \A c \in CTID \ {NextCTID} : LiveIn(heap, c) => TupleIn(heap', c) = TupleIn(heap, c)
  <2> DEFINE g == WithTuple(heap, p, s)
             new == NextOn(heap, p)
  <2>1. /\ g \in [Pages -> Seq(Slot)]
        /\ \A q \in Pages : Len(g[q]) <= PageSlots
        /\ \A q \in Pages : q # p => g[q] = heap[q]
        /\ new \in CTID
        /\ ~LiveIn(heap, new) /\ LiveIn(g, new)
        /\ TupleIn(g, new) = s
        /\ \A c \in CTID \ {new} : LiveIn(g, c) <=> LiveIn(heap, c)
        /\ \A c \in CTID \ {new} : LiveIn(heap, c) => TupleIn(g, c) = TupleIn(heap, c)
    BY <1>1, <1>2, <1>3, <1>6, TupleAppended
  <2>2. heap' = g /\ NextCTID = new
    BY <1>4, <1>5
  <2> HIDE DEF g, new
  <2> QED BY <2>1, <2>2
<1>8. \A q \in Pages : q >= heap_pages' => heap'[q] = <<>>
  <2> SUFFICES ASSUME NEW q \in Pages, q >= heap_pages' PROVE heap'[q] = <<>>
    OBVIOUS
  <2>1. q # p /\ q >= heap_pages
    BY <1>1, <1>2, <1>4 DEF Pages
  <2> QED BY <2>1, <1>1, <1>7
<1> QED
  BY <1>2, <1>4, <1>6, <1>7, <1>8

(* A part of the log is forced.                                            *)
LEMMA LogForced ==
    ASSUME TypeOK, NEW n \in 0 .. Len(log_buffer), ForceTo(n)
    PROVE  /\ log_file' \in Seq(Record) /\ log_buffer' \in Seq(Record)
           /\ Len(log_buffer') = Len(log_buffer) - n
           /\ \A i \in 1 .. Len(log_buffer) - n : log_buffer'[i] = log_buffer[n + i]
           /\ page_lsn' \in [Pages -> 0 .. Len(log_buffer')]
           /\ torn' = torn
<1>1. log_buffer \in Seq(Record) /\ log_file \in Seq(Record) /\ Len(log_buffer) \in Nat
  BY DEF TypeOK
<1>2. SubSeq(log_buffer, 1, n) \in Seq(Record)
  BY <1>1
<1>3. Written(n) \in Seq(Record)
  BY <1>1, <1>2 DEF Written
<1>4. /\ SubSeq(log_buffer, n + 1, Len(log_buffer)) \in Seq(Record)
      /\ Len(SubSeq(log_buffer, n + 1, Len(log_buffer))) = Len(log_buffer) - n
      /\ \A i \in 1 .. Len(log_buffer) - n :
            SubSeq(log_buffer, n + 1, Len(log_buffer))[i] = log_buffer[n + i]
  BY <1>1
<1>5. \A p \in Pages : Minus(page_lsn[p], n) \in 0 .. Len(log_buffer) - n
  <2> SUFFICES ASSUME NEW p \in Pages PROVE Minus(page_lsn[p], n) \in 0 .. Len(log_buffer) - n
    OBVIOUS
  <2>1. page_lsn[p] \in 0 .. Len(log_buffer)
    BY DEF TypeOK
  <2> QED BY <2>1, <1>1 DEF Minus
<1> QED
  BY <1>3, <1>4, <1>5 DEF ForceTo

LEMMA AllForced ==
    ASSUME TypeOK, ForceLog
    PROVE  /\ log_file' = Log /\ log_file' \in Seq(Record)
           /\ log_buffer' = <<>>
           /\ page_lsn' \in [Pages -> 0 .. Len(log_buffer')]
           /\ torn' = torn
<1>1. log_buffer \in Seq(Record) /\ Len(log_buffer) \in Nat
  BY DEF TypeOK
<1>2. Len(log_buffer) \in 0 .. Len(log_buffer)
  BY <1>1
<1>3. SubSeq(log_buffer, Len(log_buffer) + 1, Len(log_buffer)) = <<>>
  BY <1>1
<1> QED
  BY <1>2, <1>3, LogForced DEF ForceLog, ForceTo, Log

LEMMA InsertTupleKeepsBase == ASSUME Base, NEW k \in Keys, InsertTuple(k) PROVE Base'
<1>1. /\ rows + 1 \in 1 .. MaxRows /\ rows' = rows + 1 /\ rows' \in 0 .. MaxRows
      /\ WriteTuple(k, rows + 1)
  BY DEF Base, StepsSound, InsertTuple
<1>2. /\ heap' \in [Pages -> Seq(Slot)]
      /\ \A q \in Pages : Len(heap'[q]) <= PageSlots
      /\ heap_pages' \in 0 .. MaxHeap /\ heap_pages' >= heap_pages
      /\ \A q \in Pages : q >= heap_pages' => heap'[q] = <<>>
      /\ NextCTID \in CTID
  BY <1>1, TupleWritten
<1>3. /\ pc = "idle" /\ pc' = "log" /\ at' = 0
      /\ stmt' = [op |-> "insert", keys |-> {k}, row |-> rows + 1, ctid |-> NextCTID]
      /\ allowed' = [allowed EXCEPT ![k] = @ \union {rows + 1}]
      /\ UNCHANGED <<index, fileVars, catalogVars, logVars, deletes, checkpoints, crashes,
                     faults, riskVars>>
  BY DEF InsertTuple
<1>4. /\ stmt'.op = "insert" /\ stmt'.keys = {k} /\ stmt'.row = rows + 1
      /\ stmt'.ctid = NextCTID
      /\ stmt' \in [op : {"none", "insert", "delete"}, keys : SUBSET Keys,
                    row : Nat, ctid : CTID \union {NoCTID}]
  BY <1>1, <1>2, <1>3
<1>5. allowed' \in [Keys -> SUBSET (0 .. MaxRows)] /\ rows + 1 \in allowed'[k] \ {0}
  BY <1>1, <1>3 DEF Base, TypeOK
<1>6. heap_len \in 0 .. heap_pages'
  BY <1>2 DEF Base, TypeOK
<1>7. TypeOK'
  BY <1>2, <1>3, <1>4, <1>5, <1>6 DEF Base, TypeOK, Steps
<1>8. StepsSound'
  BY <1>1, <1>2, <1>3, <1>4, <1>5 DEF Base, StepsSound, Recovering
<1>9. CalmSound'
  BY <1>3 DEF Base, CalmSound
<1> QED
  BY <1>7, <1>8, <1>9 DEF Base

LEMMA InsertLogKeepsBase == ASSUME Base, InsertLog PROVE Base'
<1>1. /\ pc = "log" /\ pc' = "index" /\ at' = 0 /\ stmt' = stmt
      /\ log_buffer' = Append(log_buffer, [op |-> "insert", key |-> KeyOf(stmt), row |-> stmt.row])
      /\ UNCHANGED <<pageVars, fileVars, catalogVars, log_file, torn, page_lsn, countVars,
                     historyVars>>
  BY DEF InsertLog
<1>2. [op |-> "insert", key |-> KeyOf(stmt), row |-> stmt.row] \in Record
  <2>1. stmt.op = "insert"
    BY <1>1 DEF Base, StepsSound
  <2> QED BY <2>1, InsertedKey DEF Record
<1>3. log_buffer \in Seq(Record)
  BY DEF Base, TypeOK
<1>4. log_buffer' \in Seq(Record) /\ Len(log_buffer') = Len(log_buffer) + 1 /\ Len(log_buffer) \in Nat
  BY <1>1, <1>2, <1>3, AppendEntries
<1>5. page_lsn \in [Pages -> 0 .. Len(log_buffer')]
  BY <1>4 DEF Base, TypeOK
<1>6. TypeOK'
  BY <1>1, <1>4, <1>5 DEF Base, TypeOK, Steps
<1>7. StepsSound'
  BY <1>1 DEF Base, StepsSound, Recovering
<1>8. CalmSound'
  BY <1>1 DEF Base, CalmSound
<1> QED
  BY <1>6, <1>7, <1>8 DEF Base

LEMMA IndexedLeaf ==
    ASSUME TypeOK, NEW k \in Keys, NEW c \in CTID
    PROVE  /\ IndexWith(k, c) \in Leaf /\ IndexWith(k, c) # Zeros
           /\ HasKey(IndexWith(k, c), k) /\ IndexWith(k, c)[k] = c
           /\ \A j \in Keys \ {k} :
                 /\ HasKey(IndexWith(k, c), j) <=> HasKey(index, j)
                 /\ HasKey(index, j) => IndexWith(k, c)[j] = index[j]
<1> DEFINE x == IF index = Zeros THEN EmptyLeaf ELSE index
<1>1. x \in Leaf
  BY DEF TypeOK, EmptyLeaf, Leaf
<1>2. IndexWith(k, c) = [x EXCEPT ![k] = c]
  BY DEF IndexWith
<1>3. \A l \in Leaf : l # Zeros
  BY DEF Leaf, Zeros
<1>4. \A j \in Keys : HasKey(index, j) <=> x[j] # NoCTID
  BY <1>1, <1>3 DEF HasKey, EmptyLeaf
<1>5. \A j \in Keys : HasKey(index, j) => x[j] = index[j]
  BY DEF HasKey
<1> HIDE DEF x
<1>6. IndexWith(k, c) \in Leaf /\ IndexWith(k, c)[k] = c /\ \A j \in Keys \ {k} : IndexWith(k, c)[j] = x[j]
  BY <1>1, <1>2 DEF Leaf
<1>7. c # NoCTID
  BY CTIDsAre
<1> QED
  BY <1>3, <1>4, <1>5, <1>6, <1>7 DEF HasKey

LEMMA InsertIndexKeepsBase == ASSUME Base, InsertIndex PROVE Base'
<1>1. /\ pc = "index" /\ pc' = "catalog" /\ at' = 0 /\ stmt' = stmt
      /\ index' = IndexWith(KeyOf(stmt), stmt.ctid)
      /\ UNCHANGED <<heap, heap_pages, fileVars, catalogVars, logVars, countVars, historyVars>>
  BY DEF InsertIndex
<1>2. stmt.op = "insert"
  BY <1>1 DEF Base, StepsSound
<1>3. index' \in Leaf /\ index' # Zeros
  <2>1. TypeOK
    BY DEF Base
  <2> QED BY <1>1, <1>2, <2>1, InsertedKey, IndexedLeaf
<1>4. TypeOK'
  BY <1>1, <1>3 DEF Base, TypeOK, Steps
<1>5. StepsSound'
  BY <1>1 DEF Base, StepsSound, Recovering
<1>6. CalmSound'
  BY <1>1, <1>3 DEF Base, CalmSound
<1> QED
  BY <1>4, <1>5, <1>6 DEF Base

LEMMA StmtTypes ==
    /\ NoStmt \in [op : {"none", "insert", "delete"}, keys : SUBSET Keys,
                   row : Nat, ctid : CTID \union {NoCTID}]
    /\ NoStmt.op = "none"
BY DEF NoStmt

LEMMA InsertFailsKeepsBase == ASSUME Base, InsertFails PROVE Base'
<1>1. /\ pc = "index" /\ pc' = "idle" /\ at' = 0 /\ stmt' = NoStmt /\ Corrupted
      /\ UNCHANGED <<pageVars, fileVars, catalogVars, logVars, countVars, historyVars>>
  BY DEF InsertFails
<1>2. TypeOK'
  BY <1>1, StmtTypes DEF Base, TypeOK, Steps
<1>3. StepsSound'
  BY <1>1, StmtTypes DEF Base, StepsSound, Recovering
<1>4. CalmSound'
  BY <1>1 DEF Base, CalmSound, Corrupted
<1> QED
  BY <1>2, <1>3, <1>4 DEF Base

LEMMA InsertRootKeepsBase == ASSUME Base, InsertRoot PROVE Base'
<1>1. /\ pc = "catalog" /\ root_page_num' = TRUE
      /\ UNCHANGED <<pageVars, fileVars, num_records, logVars, stmtVars, countVars, historyVars>>
  BY DEF InsertRoot
<1>2. TypeOK'
  BY <1>1 DEF Base, TypeOK
<1>3. StepsSound'
  BY <1>1 DEF Base, StepsSound, Recovering
<1>4. CalmSound'
  BY <1>1 DEF Base, CalmSound
<1> QED
  BY <1>2, <1>3, <1>4 DEF Base

LEMMA InsertCountKeepsBase == ASSUME Base, InsertCount PROVE Base'
<1>1. /\ pc = "catalog" /\ pc' = "commit" /\ stmt' = stmt /\ at' = 0 /\ root_page_num
      /\ num_records' = num_records + 1
      /\ UNCHANGED <<pageVars, fileVars, root_page_num, logVars, countVars, historyVars>>
  BY DEF InsertCount
<1>2. TypeOK'
  BY <1>1 DEF Base, TypeOK, Steps
<1>3. StepsSound'
  BY <1>1 DEF Base, StepsSound, Recovering
<1>4. CalmSound'
  BY <1>1 DEF Base, CalmSound
<1> QED
  BY <1>2, <1>3, <1>4 DEF Base

LEMMA BeginDeleteKeepsBase == ASSUME Base, NEW ks \in SUBSET Keys, BeginDelete(ks) PROVE Base'
<1>1. /\ pc = "idle" /\ pc' = "delete" /\ at' = 0
      /\ stmt' = [NoStmt EXCEPT !.op = "delete", !.keys = ks]
      /\ UNCHANGED <<pageVars, fileVars, catalogVars, logVars, rows, checkpoints,
                     crashes, faults, historyVars>>
  BY DEF BeginDelete
<1>2. /\ stmt'.op = "delete"
      /\ stmt' \in [op : {"none", "insert", "delete"}, keys : SUBSET Keys,
                    row : Nat, ctid : CTID \union {NoCTID}]
  BY <1>1 DEF NoStmt
<1>3. TypeOK'
  BY <1>1, <1>2 DEF Base, TypeOK, Steps
<1>4. StepsSound'
  <2>1. 0 <= heap_pages
    BY DEF Base, TypeOK
  <2> QED BY <1>1, <1>2, <2>1 DEF Base, StepsSound, Recovering
<1>5. CalmSound'
  BY <1>1 DEF Base, CalmSound
<1> QED
  BY <1>3, <1>4, <1>5 DEF Base

LEMMA DeleteCountKeepsBase == ASSUME Base, DeleteCount PROVE Base'
<1>1. /\ pc = "delete" /\ pc' = "commit" /\ stmt' = stmt /\ at' = 0
      /\ num_records' = Minus(num_records, stmt.row)
      /\ UNCHANGED <<pageVars, fileVars, root_page_num, logVars, countVars, historyVars>>
  BY DEF DeleteCount
<1>2. num_records' \in Nat
  BY <1>1 DEF Base, TypeOK, Minus
<1>3. TypeOK'
  BY <1>1, <1>2 DEF Base, TypeOK, Steps
<1>4. StepsSound'
  BY <1>1 DEF Base, StepsSound, Recovering
<1>5. CalmSound'
  BY <1>1 DEF Base, CalmSound
<1> QED
  BY <1>3, <1>4, <1>5 DEF Base

LEMMA ReturnsAre ==
    ASSUME Base, pc = "commit", Returns
    PROVE  /\ pc' = "idle" /\ at' = 0 /\ stmt' = NoStmt
           /\ allowed' \in [Keys -> SUBSET (0 .. MaxRows)]
           /\ allowed' = Promised
           /\ UNCHANGED <<pageVars, fileVars, catalogVars, steal, spoilt>>
<1>1. stmt.op = "insert" => stmt.row \in 0 .. MaxRows
  BY InsertedKey
<1>2. \A k \in Keys : allowed[k] \in SUBSET (0 .. MaxRows)
  BY DEF Base, TypeOK
<1>3. 0 \in 0 .. MaxRows
  OBVIOUS
<1>4. Promised \in [Keys -> SUBSET (0 .. MaxRows)]
  BY <1>1, <1>2, <1>3 DEF Promised
<1> QED
  BY <1>4 DEF Returns

LEMMA CommitKeepsBase == ASSUME Base, Commit PROVE Base'
<1>1. /\ pc' = "idle" /\ at' = 0 /\ stmt' = NoStmt
      /\ allowed' \in [Keys -> SUBSET (0 .. MaxRows)]
      /\ UNCHANGED <<pageVars, fileVars, catalogVars, steal, spoilt, countVars>>
  BY ReturnsAre DEF Commit
<1>2. at_risk' \in BOOLEAN /\ pc = "commit"
  BY DEF Commit, Base, TypeOK
<1>3. /\ log_file' \in Seq(Record) /\ log_buffer' = <<>>
      /\ page_lsn' \in [Pages -> 0 .. Len(log_buffer')] /\ torn' = torn
  BY AllForced DEF Base, Commit
<1>4. <<>> \in Seq(Record)
  OBVIOUS
<1>5. TypeOK'
  BY <1>1, <1>2, <1>3, <1>4, StmtTypes DEF Base, TypeOK, Steps
<1>6. StepsSound'
  BY <1>1, StmtTypes DEF Base, StepsSound, Recovering
<1>7. CalmSound'
  BY <1>1, <1>2, <1>3 DEF Base, CalmSound
<1> QED
  BY <1>5, <1>6, <1>7 DEF Base

LEMMA LogPartlyForced ==
    ASSUME TypeOK, PartlyForced
    PROVE  log_file' \in Seq(Record) /\ torn' \in BOOLEAN
<1>1. PICK n \in 0 .. Len(log_buffer) :
         log_file' = Written(n) /\ torn' \in {torn, torn \/ n < Len(log_buffer)}
  BY DEF PartlyForced
<1>2. log_buffer \in Seq(Record) /\ log_file \in Seq(Record) /\ torn \in BOOLEAN
  BY DEF TypeOK
<1>3. SubSeq(log_buffer, 1, n) \in Seq(Record)
  BY <1>2
<1>4. Written(n) \in Seq(Record)
  BY <1>2, <1>3 DEF Written
<1> QED
  BY <1>1, <1>2, <1>4

LEMMA CommitFailsKeepsBase == ASSUME Base, CommitFails PROVE Base'
<1>1. /\ pc' = "idle" /\ at' = 0 /\ stmt' = NoStmt
      /\ allowed' \in [Keys -> SUBSET (0 .. MaxRows)]
      /\ UNCHANGED <<pageVars, fileVars, catalogVars, steal, spoilt,
                     rows, deletes, checkpoints, crashes>>
  BY ReturnsAre DEF CommitFails
<1>2. at_risk' = TRUE /\ pc = "commit" /\ log_buffer' = <<>> /\ page_lsn' = [p \in Pages |-> 0]
  BY DEF CommitFails
<1>3. log_file' \in Seq(Record) /\ torn' \in BOOLEAN
  BY LogPartlyForced DEF Base, CommitFails
<1>4. <<>> \in Seq(Record) /\ 0 \in 0 .. Len(<<>>)
  OBVIOUS
<1>5. TypeOK'
  BY <1>1, <1>2, <1>3, <1>4, StmtTypes DEF Base, TypeOK, Steps
<1>6. StepsSound'
  BY <1>1, StmtTypes DEF Base, StepsSound, Recovering
<1>7. CalmSound'
  BY <1>1, <1>2, <1>3 DEF Base, CalmSound
<1> QED
  BY <1>5, <1>6, <1>7 DEF Base

(* The index without some keys.                                            *)
LEMMA UnindexedLeaf ==
    ASSUME TypeOK, NEW ks
    PROVE  /\ IndexWithout(ks) \in Leaf \union {Zeros}
           /\ IndexWithout(ks) = Zeros <=> index = Zeros
           /\ \A j \in Keys :
                 /\ HasKey(IndexWithout(ks), j) <=> HasKey(index, j) /\ j \notin ks
                 /\ HasKey(IndexWithout(ks), j) => IndexWithout(ks)[j] = index[j]
<1>1. \A l \in Leaf : l # Zeros
  BY DEF Leaf, Zeros
<1>2. CASE index = Zeros
  BY <1>2 DEF IndexWithout, HasKey
<1>3. CASE index # Zeros
  <2> DEFINE x == IndexWithout(ks)
  <2>1. index \in Leaf
    BY <1>3 DEF TypeOK
  <2>2. x = [k \in Keys |-> IF k \in ks THEN NoCTID ELSE index[k]]
    BY <1>3 DEF IndexWithout
  <2> HIDE DEF x
  <2>3. x \in Leaf
    BY <2>1, <2>2 DEF Leaf
  <2>4. \A j \in Keys : x[j] = IF j \in ks THEN NoCTID ELSE index[j]
    BY <2>2
  <2>5. x # Zeros
    BY <2>3, <1>1
  <2>6. \A j \in Keys : /\ HasKey(x, j) <=> HasKey(index, j) /\ j \notin ks
                        /\ HasKey(x, j) => x[j] = index[j]
    BY <2>4, <2>5, <1>3 DEF HasKey
  <2> QED BY <2>3, <2>5, <2>6, <1>3 DEF x
<1> QED
  BY <1>2, <1>3

LEMMA PickedSlots ==
    ASSUME NEW s \in Seq(Slot), NEW places, NEW found, found = Picked(s, places)
    PROVE  /\ found \in Seq(Slot)
           /\ \E place \in [1 .. Len(found) -> 1 .. Len(s)] :
                 /\ \A i \in 1 .. Len(found) : place[i] \in places /\ found[i] = s[place[i]]
                 /\ \A i \in 1 .. Len(s) : i \in places => \E j \in 1 .. Len(found) : place[j] = i
                 /\ \A i, j \in 1 .. Len(found) : place[i] = place[j] => i = j
<1> DEFINE a == Picked(s, places)
<1>1. /\ a \in Seq(Slot)
      /\ \E place \in [1 .. Len(a) -> 1 .. Len(s)] :
            /\ \A k \in 1 .. Len(a) : place[k] \in places /\ a[k] = s[place[k]]
            /\ \A i \in 1 .. Len(s) : i \in places => \E k \in 1 .. Len(a) : place[k] = i
            /\ \A k, l \in 1 .. Len(a) : place[k] = place[l] => k = l
  BY PickedPlaces, SMTT(60)
<1>2. found = a
  OBVIOUS
<1> HIDE DEF a
<1> QED BY <1>1, <1>2

(* The tuples that a DELETE finds on a page, each with its place.          *)
LEMMA VictimsAre ==
    ASSUME TypeOK, NEW p \in Pages, NEW ks
    PROVE  /\ Victims(p, ks) \in Seq(Slot) /\ Len(Victims(p, ks)) \in Nat
           /\ DOMAIN Victims(p, ks) = 1 .. Len(Victims(p, ks))
           /\ \E place \in [1 .. Len(Victims(p, ks)) -> 1 .. PageSlots] :
                 /\ \A i \in 1 .. Len(Victims(p, ks)) :
                       /\ LiveIn(heap, <<p, place[i]>>)
                       /\ TupleIn(heap, <<p, place[i]>>) = Victims(p, ks)[i]
                       /\ Victims(p, ks)[i].key \in ks
                 /\ \A c \in CTID : c[1] = p /\ LiveIn(heap, c) /\ TupleIn(heap, c).key \in ks
                       => \E i \in 1 .. Len(Victims(p, ks)) : place[i] = c[2]
                 /\ \A i, j \in 1 .. Len(Victims(p, ks)) : place[i] = place[j] => i = j
<1> DEFINE s == heap[p]
           places == { i \in DOMAIN s : s[i].live /\ s[i].key \in ks }
           found == Victims(p, ks)
<1>1. s \in Seq(Slot) /\ Len(s) <= PageSlots /\ Len(s) \in Nat /\ DOMAIN s = 1 .. Len(s)
  BY DEF TypeOK
<1>2. found = Picked(s, places)
  BY DEF Victims
<1>3. \A i \in 1 .. Len(s) : i \in places <=> s[i].live /\ s[i].key \in ks
  BY <1>1
<1>4. /\ \A i \in 1 .. PageSlots :
            LiveIn(heap, <<p, i>>) <=> i \in 1 .. Len(s) /\ s[i].live
      /\ \A i \in 1 .. PageSlots : TupleIn(heap, <<p, i>>) = s[i]
  BY <1>1 DEF LiveIn, TupleIn
<1>5. \A c \in CTID : c[1] = p => c = <<p, c[2]>> /\ c[2] \in 1 .. PageSlots
  BY CTIDsAre
<1> HIDE DEF s, places, found
<1>6. /\ found \in Seq(Slot)
      /\ \E place \in [1 .. Len(found) -> 1 .. Len(s)] :
            /\ \A i \in 1 .. Len(found) : place[i] \in places /\ found[i] = s[place[i]]
            /\ \A i \in 1 .. Len(s) : i \in places => \E j \in 1 .. Len(found) : place[j] = i
            /\ \A i, j \in 1 .. Len(found) : place[i] = place[j] => i = j
  <2>1. s \in Seq(Slot)
    BY <1>1
  <2> QED BY <2>1, <1>2, PickedSlots
<1>7. Len(found) \in Nat /\ DOMAIN found = 1 .. Len(found)
  BY <1>6
<1>8. PICK place \in [1 .. Len(found) -> 1 .. Len(s)] :
            /\ \A i \in 1 .. Len(found) : place[i] \in places /\ found[i] = s[place[i]]
            /\ \A i \in 1 .. Len(s) : i \in places => \E j \in 1 .. Len(found) : place[j] = i
            /\ \A i, j \in 1 .. Len(found) : place[i] = place[j] => i = j
  BY <1>6
<1>9. place \in [1 .. Len(found) -> 1 .. PageSlots]
  BY <1>1, <1>8
<1>10. \A i \in 1 .. Len(found) : /\ LiveIn(heap, <<p, place[i]>>)
                                  /\ TupleIn(heap, <<p, place[i]>>) = found[i]
                                  /\ found[i].key \in ks
  BY <1>3, <1>4, <1>8, <1>9
<1>11. \A c \in CTID : c[1] = p /\ LiveIn(heap, c) /\ TupleIn(heap, c).key \in ks
          => \E i \in 1 .. Len(found) : place[i] = c[2]
  <2> SUFFICES ASSUME NEW c \in CTID, c[1] = p, LiveIn(heap, c), TupleIn(heap, c).key \in ks
               PROVE  \E i \in 1 .. Len(found) : place[i] = c[2]
    OBVIOUS
  <2>1. c = <<p, c[2]>> /\ c[2] \in 1 .. PageSlots
    BY <1>5
  <2>2. c[2] \in 1 .. Len(s) /\ s[c[2]].live /\ s[c[2]].key \in ks
    BY <2>1, <1>4
  <2> QED BY <2>2, <1>3, <1>8
<1> QED
  BY <1>6, <1>7, <1>8, <1>9, <1>10, <1>11 DEF found

KeysOf(found) == { found[i].key : i \in DOMAIN found }
DeletionsOf(found) ==
    [i \in DOMAIN found |-> [op |-> "delete", key |-> found[i].key, row |-> found[i].row]]

LEMMA DeletionsAre ==
    ASSUME NEW found \in Seq(Slot)
    PROVE  /\ DeletionsOf(found) \in Seq(Record)
           /\ Len(DeletionsOf(found)) = Len(found)
           /\ \A i \in 1 .. Len(found) : /\ DeletionsOf(found)[i].op = "delete"
                                         /\ DeletionsOf(found)[i].key = found[i].key
           /\ KeysOf(found) \subseteq Keys
           /\ \A k : k \in KeysOf(found) <=> \E i \in 1 .. Len(found) : found[i].key = k
<1> DEFINE l == Len(found)
           m == DeletionsOf(found)
<1>1. l \in Nat /\ DOMAIN found = 1 .. l /\ \A i \in 1 .. l : found[i] \in Slot
  OBVIOUS
<1>2. m = [i \in 1 .. l |-> [op |-> "delete", key |-> found[i].key, row |-> found[i].row]]
  BY <1>1 DEF DeletionsOf
<1> HIDE DEF l, m
<1>3. \A i \in 1 .. l : m[i] \in Record /\ m[i].op = "delete" /\ m[i].key = found[i].key
  BY <1>1, <1>2 DEF Record, Slot
<1>4. m = [i \in 1 .. l |-> m[i]]
  BY <1>2
<1>5. m \in Seq(Record) /\ Len(m) = l
  BY <1>1, <1>3, <1>4, SequenceOf
<1>6. /\ KeysOf(found) \subseteq Keys
      /\ \A k : k \in KeysOf(found) <=> \E i \in 1 .. l : found[i].key = k
  BY <1>1 DEF KeysOf, Slot
<1> QED
  BY <1>3, <1>5, <1>6 DEF l, m

(* What a DELETE does to a page, with found what it finds there.           *)
DeletesFrom(p, found) ==
    /\ pc = "delete" /\ pc' = "delete" /\ at = p /\ at' = p + 1
    /\ p \in Pages /\ p < heap_pages
    /\ heap' = [heap EXCEPT ![p] = Marked(heap[p], stmt.keys)]
    /\ index' = IndexWithout(KeysOf(found))
    /\ log_buffer' = log_buffer \o DeletionsOf(found)
    /\ page_lsn' = IF found = <<>> THEN page_lsn
                   ELSE [page_lsn EXCEPT ![p] = Len(log_buffer')]
    /\ allowed' = [k \in Keys |-> IF k \in KeysOf(found) THEN allowed[k] \union {0} ELSE allowed[k]]
    /\ stmt' = [stmt EXCEPT !.row = stmt.row + Len(found)]
    /\ UNCHANGED <<heap_pages, fileVars, catalogVars, log_file, torn, countVars, riskVars>>

LEMMA DeleteOnPageIs == ASSUME Base, DeleteOnPage PROVE DeletesFrom(at, Victims(at, stmt.keys))
<1>1. /\ heap \in [Pages -> Seq(Slot)] /\ at \in Nat /\ heap_pages \in 0 .. MaxHeap
      /\ stmt \in [op : {"none", "insert", "delete"}, keys : SUBSET Keys,
                   row : Nat, ctid : CTID \union {NoCTID}]
  BY DEF Base, TypeOK
<1>2. at \in Pages
  BY <1>1 DEF DeleteOnPage, Pages
<1>3. /\ heap' = [heap EXCEPT ![at] = Marked(heap[at], stmt.keys)]
      /\ stmt' = [stmt EXCEPT !.row = stmt.row + Len(Victims(at, stmt.keys))]
  BY <1>1, <1>2 DEF DeleteOnPage
<1> QED
  BY <1>2, <1>3 DEF DeleteOnPage, DeletesFrom, KeysOf, DeletionsOf

LEMMA DeleteOnPageKeepsBase == ASSUME Base, DeleteOnPage PROVE Base'
<1> DEFINE found == Victims(at, stmt.keys)
           l == Len(found)
<1>1. DeletesFrom(at, found)
  BY DeleteOnPageIs
<1>2. found \in Seq(Slot) /\ l \in Nat
  BY <1>1, VictimsAre DEF Base, DeletesFrom
<1> HIDE DEF found
<1>3. /\ DeletionsOf(found) \in Seq(Record) /\ Len(DeletionsOf(found)) = l
      /\ KeysOf(found) \subseteq Keys
  BY <1>2, DeletionsAre
<1>4. log_buffer \in Seq(Record)
  BY DEF Base, TypeOK
<1>5. log_buffer' \in Seq(Record) /\ Len(log_buffer') = Len(log_buffer) + l /\ Len(log_buffer) \in Nat
  <2>1. PICK u \in Seq(Record) : u = DeletionsOf(found) /\ Len(u) = l
    BY <1>3
  <2>2. log_buffer' = log_buffer \o u
    BY <1>1, <2>1 DEF DeletesFrom
  <2> HIDE DEF l
  <2> QED BY <1>4, <2>1, <2>2, ConcatEntries
<1>6. page_lsn' \in [Pages -> 0 .. Len(log_buffer')]
  <2>1. page_lsn \in [Pages -> 0 .. Len(log_buffer')]
    BY <1>2, <1>5 DEF Base, TypeOK
  <2>2. Len(log_buffer') \in 0 .. Len(log_buffer')
    BY <1>2, <1>5
  <2> QED BY <1>1, <2>1, <2>2 DEF DeletesFrom
<1>7. /\ heap' \in [Pages -> Seq(Slot)]
      /\ \A q \in Pages : Len(heap'[q]) = Len(heap[q])
      /\ \A q \in Pages : q # at => heap'[q] = heap[q]
  <2>1. heap \in [Pages -> Seq(Slot)] /\ (\A q \in Pages : Len(heap[q]) <= PageSlots) /\ at \in Pages
    BY <1>1 DEF Base, TypeOK, DeletesFrom
  <2>2. heap' = MarkedOn(heap, at, stmt.keys)
    BY <1>1 DEF DeletesFrom, MarkedOn
  <2> QED BY <2>1, <2>2, TuplesMarked
<1>8. index' \in Leaf \union {Zeros} /\ (index' # Zeros => index # Zeros)
  BY <1>1, UnindexedLeaf DEF Base, DeletesFrom
<1>9. /\ stmt'.op = "delete"
      /\ stmt' \in [op : {"none", "insert", "delete"}, keys : SUBSET Keys,
                    row : Nat, ctid : CTID \union {NoCTID}]
  <2>1. /\ stmt.op = "delete"
        /\ stmt \in [op : {"none", "insert", "delete"}, keys : SUBSET Keys,
                     row : Nat, ctid : CTID \union {NoCTID}]
    BY <1>1 DEF Base, TypeOK, StepsSound, DeletesFrom
  <2>2. stmt' = [stmt EXCEPT !.row = stmt.row + l]
    BY <1>1 DEF DeletesFrom
  <2>3. stmt.row + l \in Nat
    BY <2>1, <1>2
  <2>4. PICK n \in Nat : stmt' = [stmt EXCEPT !.row = n]
    BY <2>2, <2>3
  <2> QED BY <2>1, <2>4
<1>10. allowed' \in [Keys -> SUBSET (0 .. MaxRows)]
  <2>1. \A k \in Keys : allowed[k] \in SUBSET (0 .. MaxRows)
    BY DEF Base, TypeOK
  <2>2. 0 \in 0 .. MaxRows
    OBVIOUS
  <2>3. allowed' = [k \in Keys |-> IF k \in KeysOf(found) THEN allowed[k] \union {0} ELSE allowed[k]]
    BY <1>1 DEF DeletesFrom
  <2> QED BY <2>1, <2>2, <2>3
<1>11. /\ pc = "delete" /\ pc' = "delete" /\ at' = at + 1 /\ at < heap_pages /\ at \in Pages
       /\ UNCHANGED <<heap_pages, fileVars, catalogVars, log_file, torn, countVars, riskVars>>
  BY <1>1 DEF DeletesFrom
<1>12. at' \in Nat /\ at' <= heap_pages
  BY <1>11 DEF Base, TypeOK
<1>13. TypeOK'
  BY <1>5, <1>6, <1>7, <1>8, <1>9, <1>10, <1>11, <1>12 DEF Base, TypeOK
<1>14. StepsSound'
  <2>1. \A q \in Pages : q >= heap_pages => heap'[q] = <<>>
    BY <1>7, <1>11 DEF Base, StepsSound, TypeOK, Pages
  <2> QED BY <2>1, <1>9, <1>11, <1>12 DEF Base, StepsSound, Recovering
<1>15. CalmSound'
  <2>1. index' = Zeros => index = Zeros
    BY <1>1, UnindexedLeaf DEF Base, DeletesFrom
  <2> QED BY <2>1, <1>11 DEF Base, CalmSound
<1> QED
  BY <1>13, <1>14, <1>15 DEF Base

(* The pages written, or all of them.                                      *)
LEMMA StealHeapKeepsBase == ASSUME Base, NEW p \in Pages, StealHeap(p) PROVE Base'
<1>1. PICK n \in 0 .. Len(log_buffer) : ForceTo(n)
  <2>1. page_lsn[p] \in 0 .. Len(log_buffer)
    BY DEF Base, TypeOK
  <2> QED BY <2>1 DEF StealHeap
<1>2. /\ steal /\ pc \in {"index", "idle", "delete", "checkpoint", "replay"} /\ p < heap_pages
      /\ heap_disk' = [heap_disk EXCEPT ![p] = heap[p]]
      /\ heap_len' = (IF p < heap_len THEN heap_len ELSE p + 1)
      /\ UNCHANGED <<index_disk, pageVars, catalogVars, stmtVars, countVars, historyVars>>
  BY DEF StealHeap, MayWrite, WriteHeap
<1>3. /\ log_file' \in Seq(Record) /\ log_buffer' \in Seq(Record)
      /\ page_lsn' \in [Pages -> 0 .. Len(log_buffer')] /\ torn' = torn
  BY <1>1, LogForced DEF Base
<1>4. /\ heap_disk' \in [Pages -> Seq(Slot)]
      /\ \A q \in Pages : Len(heap_disk'[q]) <= PageSlots
  BY <1>2 DEF Base, TypeOK
<1>5. heap_len' \in 0 .. heap_pages /\ heap_len' > p /\ heap_len' >= heap_len
  BY <1>2 DEF Base, TypeOK, Pages
<1>6. \A q \in Pages : q >= heap_len' => heap_disk'[q] = <<>>
  <2> SUFFICES ASSUME NEW q \in Pages, q >= heap_len' PROVE heap_disk'[q] = <<>>
    OBVIOUS
  <2>1. q # p /\ q >= heap_len
    <3>1. q \in Nat /\ p \in Nat /\ heap_len \in Nat /\ heap_len' \in Nat
      BY <1>5 DEF Pages, Base, TypeOK
    <3> QED BY <3>1, <1>5
  <2>2. heap_disk'[q] = heap_disk[q]
    BY <1>2, <2>1 DEF Base, TypeOK
  <2> QED BY <2>1, <2>2 DEF Base, StepsSound
<1>7. TypeOK'
  BY <1>2, <1>3, <1>4, <1>5 DEF Base, TypeOK
<1>8. StepsSound'
  BY <1>2, <1>6 DEF Base, StepsSound, Recovering
<1>9. CalmSound'
  BY <1>2 DEF Base, CalmSound
<1> QED
  BY <1>7, <1>8, <1>9 DEF Base

LEMMA StealIndexKeepsBase == ASSUME Base, StealIndex PROVE Base'
<1>1. /\ steal /\ pc \in {"idle", "delete", "checkpoint", "replay"}
      /\ index_disk' = index
      /\ UNCHANGED <<heap_disk, heap_len, pageVars, catalogVars, stmtVars,
                     countVars, historyVars>>
  BY DEF StealIndex, MayWrite
<1>2. /\ log_file' \in Seq(Record) /\ log_buffer' = <<>>
      /\ page_lsn' \in [Pages -> 0 .. Len(log_buffer')] /\ torn' = torn
  BY AllForced DEF Base, StealIndex
<1>3. <<>> \in Seq(Record)
  OBVIOUS
<1>4. TypeOK'
  BY <1>1, <1>2, <1>3 DEF Base, TypeOK
<1>5. StepsSound'
  BY <1>1 DEF Base, TypeOK, StepsSound, Recovering
<1>6. CalmSound'
  BY <1>1 DEF Base, CalmSound
<1> QED
  BY <1>4, <1>5, <1>6 DEF Base

LEMMA BeginCheckpointKeepsBase == ASSUME Base, BeginCheckpoint PROVE Base'
<1>1. /\ pc = "idle" /\ pc' = "checkpoint" /\ at' = 0 /\ stmt' = NoStmt
      /\ UNCHANGED <<pageVars, fileVars, catalogVars, logVars, rows, deletes,
                     crashes, faults, historyVars>>
  BY DEF BeginCheckpoint
<1>2. TypeOK'
  BY <1>1, StmtTypes DEF Base, TypeOK, Steps
<1>3. StepsSound'
  BY <1>1, StmtTypes DEF Base, StepsSound, Recovering
<1>4. CalmSound'
  BY <1>1 DEF Base, CalmSound
<1> QED
  BY <1>2, <1>3, <1>4 DEF Base

LEMMA CheckpointFlushKeepsBase == ASSUME Base, CheckpointFlush PROVE Base'
<1>1. /\ pc = "checkpoint" /\ pc' = "truncate" /\ at' = 1 /\ stmt' = NoStmt
      /\ heap_disk' = heap /\ heap_len' = heap_pages /\ index_disk' = index
      /\ UNCHANGED <<pageVars, catalogVars, countVars, historyVars>>
  BY DEF CheckpointFlush
<1>2. /\ log_file' \in Seq(Record) /\ log_buffer' = <<>>
      /\ page_lsn' \in [Pages -> 0 .. Len(log_buffer')] /\ torn' = torn
  BY AllForced DEF Base, CheckpointFlush
<1>3. <<>> \in Seq(Record)
  OBVIOUS
<1>4. heap_pages \in 0 .. heap_pages
  BY DEF Base, TypeOK
<1>5. TypeOK'
  BY <1>1, <1>2, <1>3, <1>4, StmtTypes DEF Base, TypeOK, Steps
<1>6. StepsSound'
  BY <1>1, StmtTypes DEF Base, TypeOK, StepsSound, Recovering, Clean
<1>7. CalmSound'
  BY <1>1, <1>2 DEF Base, CalmSound
<1> QED
  BY <1>5, <1>6, <1>7 DEF Base

(* The length of the file when some pages have been written.               *)
LEMMA FileGrows ==
    ASSUME TypeOK, NEW written \in SUBSET (0 .. heap_pages - 1)
    PROVE  LET l == Max({heap_len} \union { p + 1 : p \in written }) IN
           l \in heap_len .. heap_pages /\ \A p \in written : p < l
<1> DEFINE T == {heap_len} \union { p + 1 : p \in written }
<1>1. heap_len \in 0 .. heap_pages /\ heap_pages \in Nat
  BY DEF TypeOK
<1>2. T \in SUBSET Nat /\ T # {} /\ (\A x \in T : x <= heap_pages) /\ heap_len \in T
  BY <1>1
<1>3. \A p \in written : p + 1 \in T /\ p \in Nat
  BY <1>1
<1> HIDE DEF T
<1>4. \E m \in T : \A x \in T : m >= x
  BY <1>1, <1>2, LargestNumber
<1>5. Max(T) \in T /\ \A x \in T : Max(T) >= x
  BY <1>4 DEF Max
<1>6. Max(T) \in heap_len .. heap_pages
  <2>1. Max(T) \in Nat /\ Max(T) <= heap_pages /\ Max(T) >= heap_len
    BY <1>2, <1>5
  <2> QED BY <2>1, <1>1
<1>7. \A p \in written : p < Max(T)
  <2> SUFFICES ASSUME NEW p \in written PROVE p < Max(T)
    OBVIOUS
  <2>1. Max(T) >= p + 1 /\ p \in Nat /\ Max(T) \in Nat
    BY <1>1, <1>2, <1>3, <1>5
  <2> QED BY <2>1
<1> QED
  BY <1>6, <1>7 DEF T

LEMMA CheckpointFlushFailsKeepsBase == ASSUME Base, CheckpointFlushFails PROVE Base'
<1>1. /\ pc = "checkpoint" /\ pc' = "truncate" /\ at' = 0 /\ stmt' = NoStmt
      /\ index_disk' \in {index, index_disk} /\ at_risk' = TRUE
      /\ UNCHANGED <<pageVars, catalogVars, rows, deletes, checkpoints, crashes, allowed,
                     steal, spoilt>>
  BY DEF CheckpointFlushFails
<1>2. /\ log_file' \in Seq(Record) /\ log_buffer' = <<>>
      /\ page_lsn' \in [Pages -> 0 .. Len(log_buffer')] /\ torn' = torn
  BY AllForced DEF Base, CheckpointFlushFails
<1>3. <<>> \in Seq(Record)
  OBVIOUS
<1>4. PICK written \in SUBSET (0 .. heap_pages - 1) :
         /\ heap_disk' = [p \in Pages |-> IF p \in written THEN heap[p] ELSE heap_disk[p]]
         /\ heap_len' = Max({heap_len} \union { p + 1 : p \in written })
  BY DEF CheckpointFlushFails
<1>5. heap_len' \in heap_len .. heap_pages /\ \A p \in written : p < heap_len'
  BY <1>4, FileGrows DEF Base
<1>6. heap_len' \in 0 .. heap_pages
  BY <1>5 DEF Base, TypeOK
<1>7. /\ heap_disk' \in [Pages -> Seq(Slot)]
      /\ \A p \in Pages : Len(heap_disk'[p]) <= PageSlots
  BY <1>4 DEF Base, TypeOK
<1>8. \A p \in Pages : p >= heap_len' => heap_disk'[p] = <<>>
  <2> SUFFICES ASSUME NEW p \in Pages, p >= heap_len' PROVE heap_disk'[p] = <<>>
    OBVIOUS
  <2>1. p \notin written /\ p >= heap_len
    BY <1>5 DEF Pages, Base, TypeOK
  <2> QED BY <1>4, <2>1 DEF Base, StepsSound
<1>9. TypeOK'
  BY <1>1, <1>2, <1>3, <1>6, <1>7, StmtTypes DEF Base, TypeOK, Steps
<1>10. StepsSound'
  BY <1>1, <1>8, StmtTypes DEF Base, TypeOK, StepsSound, Recovering
<1>11. CalmSound'
  BY <1>1, <1>2 DEF Base, CalmSound
<1> QED
  BY <1>9, <1>10, <1>11 DEF Base

LEMMA CheckpointTruncateKeepsBase == ASSUME Base, CheckpointTruncate PROVE Base'
<1>1. /\ pc = "truncate" /\ pc' = "idle" /\ at' = 0 /\ stmt' = NoStmt
      /\ log_file' = <<>> /\ torn' = FALSE /\ at_risk' \in BOOLEAN
      /\ UNCHANGED <<pageVars, fileVars, catalogVars, log_buffer, page_lsn, countVars,
                     allowed, steal, spoilt>>
  BY DEF CheckpointTruncate
<1>2. <<>> \in Seq(Record)
  OBVIOUS
<1>3. TypeOK'
  BY <1>1, <1>2, StmtTypes DEF Base, TypeOK, Steps
<1>4. StepsSound'
  BY <1>1, StmtTypes DEF Base, StepsSound, Recovering
<1>5. CalmSound'
  BY <1>1 DEF Base, CalmSound
<1> QED
  BY <1>3, <1>4, <1>5 DEF Base

LEMMA CrashIs ==
    ASSUME Base, Crash
    PROVE  /\ pc' = "rebuild" /\ at' = 1 /\ stmt' = NoStmt
           /\ crashes' = crashes + 1 /\ crashes' \in 1 .. MaxCrashes
           /\ spoilt' = (spoilt \/ at_risk)
           /\ heap' = heap_disk /\ heap_pages' = heap_len /\ index' = index_disk
           /\ log_buffer' = <<>> /\ page_lsn' = [p \in Pages |-> 0]
           /\ log_file' \in Seq(Record) /\ torn' \in BOOLEAN
           /\ UNCHANGED <<fileVars, catalogVars, rows, deletes, checkpoints, allowed, steal, at_risk>>
<1>1. crashes + 1 \in 1 .. MaxCrashes
  BY DEF Base, StepsSound, Crash
<1>2. log_file' \in Seq(Record) /\ torn' \in BOOLEAN
  <2>1. CASE UNCHANGED <<log_file, torn, faults>>
    BY <2>1 DEF Base, TypeOK
  <2>2. CASE PartlyForced
    BY <2>2, LogPartlyForced DEF Base
  <2> QED BY <2>1, <2>2 DEF Crash
<1> QED
  BY <1>1, <1>2 DEF Crash

LEMMA CrashKeepsBase == ASSUME Base, Crash PROVE Base'
<1>1. /\ pc' = "rebuild" /\ at' = 1 /\ stmt' = NoStmt
      /\ crashes' \in 0 .. MaxCrashes /\ crashes' > 0
      /\ spoilt' = (spoilt \/ at_risk)
      /\ heap' = heap_disk /\ heap_pages' = heap_len /\ index' = index_disk
      /\ log_buffer' = <<>> /\ page_lsn' = [p \in Pages |-> 0]
      /\ log_file' \in Seq(Record) /\ torn' \in BOOLEAN
      /\ UNCHANGED <<fileVars, catalogVars, rows, deletes, checkpoints, allowed, steal, at_risk>>
  BY CrashIs
<1>2. <<>> \in Seq(Record) /\ page_lsn' \in [Pages -> 0 .. Len(log_buffer')]
  BY <1>1
<1>3. heap_len \in 0 .. MaxHeap /\ heap_len \in 0 .. heap_len
  BY DEF Base, TypeOK
<1>4. index_disk # Zeros => root_page_num
  BY DEF Base, StepsSound
<1>5. spoilt' \in BOOLEAN /\ at_risk \in BOOLEAN
  BY <1>1 DEF Base, TypeOK
<1>6. TypeOK'
  BY <1>1, <1>2, <1>3, <1>4, <1>5, StmtTypes DEF Base, TypeOK, Steps
<1>7. StepsSound'
  BY <1>1, <1>5, StmtTypes DEF Base, StepsSound, Recovering
<1>8. CalmSound'
  BY <1>1 DEF Base, CalmSound
<1> QED
  BY <1>6, <1>7, <1>8 DEF Base

(* Some CTIDs have a first one, as the scan meets them.                    *)
LEMMA FirstTuple ==
    ASSUME NEW S \in SUBSET CTID, S # {}
    PROVE  \E c \in S : \A d \in S : c[1] < d[1] \/ (c[1] = d[1] /\ c[2] <= d[2])
<1>1. \A c \in S : c[1] \in Nat /\ c[2] \in Nat
  BY CTIDsAre
<1> DEFINE T == { c[1] : c \in S }
<1>2. T \in SUBSET Nat /\ T # {}
  BY <1>1
<1>3. PICK p \in T : \A q \in T : ~ (q < p)
  <2> HIDE DEF T
  <2> QED BY <1>2, SmallestNumber
<1> DEFINE U == { c[2] : c \in { d \in S : d[1] = p } }
<1>4. U \in SUBSET Nat /\ U # {}
  BY <1>1
<1>5. PICK i \in U : \A j \in U : ~ (j < i)
  <2> HIDE DEF T, U
  <2> QED BY <1>4, SmallestNumber
<1>6. PICK c \in S : c[1] = p /\ c[2] = i
  OBVIOUS
<1>7. ASSUME NEW d \in S PROVE c[1] < d[1] \/ (c[1] = d[1] /\ c[2] <= d[2])
  <2>1. ~ (d[1] < c[1])
    BY <1>3, <1>6
  <2>2. d[1] = c[1] => ~ (d[2] < c[2])
    BY <1>5, <1>6
  <2>3. c[1] \in Nat /\ c[2] \in Nat /\ d[1] \in Nat /\ d[2] \in Nat
    BY <1>1
  <2> QED BY <2>1, <2>2, <2>3
<1> QED
  BY <1>7

LEMMA RebuiltLeaf == Rebuilt \in Leaf
<1> DEFINE Holds(k) == { c \in CTID : LiveAt(c) /\ KeyAt(c) = k }
           Upto(c, d) == c[1] < d[1] \/ (c[1] = d[1] /\ c[2] <= d[2])
           First(S) == CHOOSE c \in S : \A d \in S : Upto(c, d)
<1>1. \A S \in SUBSET CTID : S # {} => First(S) \in S
  <2> SUFFICES ASSUME NEW S \in SUBSET CTID, S # {} PROVE First(S) \in S
    OBVIOUS
  <2>1. \E c \in S : \A d \in S : Upto(c, d)
    BY FirstTuple
  <2> QED BY <2>1
<1>2. \A k : Holds(k) \in SUBSET CTID
  OBVIOUS
<1>3. Rebuilt = [k \in Keys |-> IF Holds(k) = {} THEN NoCTID ELSE First(Holds(k))]
  BY DEF Rebuilt
<1> HIDE DEF Holds, First
<1>4. \A k \in Keys : Holds(k) # {} => First(Holds(k)) \in CTID
  BY <1>1, <1>2
<1> QED
  BY <1>3, <1>4 DEF Leaf

LEMMA RebuildKeepsBase == ASSUME Base, Rebuild PROVE Base'
<1>1. /\ pc = "rebuild" /\ pc' = "replay" /\ at' = at /\ stmt' = NoStmt
      /\ index' = (IF Corrupted /\ Rebuilt # EmptyLeaf THEN Rebuilt ELSE index)
      /\ UNCHANGED <<heap, heap_pages, fileVars, catalogVars, logVars, countVars, historyVars>>
  BY DEF Rebuild
<1>2. /\ index' \in Leaf \union {Zeros}
      /\ index' # Zeros => root_page_num
      /\ index # Zeros => index' # Zeros
  BY <1>1, RebuiltLeaf DEF Base, TypeOK, Corrupted
<1>3. TypeOK'
  BY <1>1, <1>2, StmtTypes DEF Base, TypeOK, Steps
<1>4. StepsSound'
  BY <1>1, StmtTypes DEF Base, StepsSound, Recovering
<1>5. CalmSound'
  BY <1>1, <1>2 DEF Base, CalmSound
<1> QED
  BY <1>3, <1>4, <1>5 DEF Base

(* The record that the recovery is at.                                     *)
LEMMA RecordAt ==
    ASSUME Base, pc = "replay", at <= Len(log_file)
    PROVE  /\ at \in 1 .. Len(log_file) /\ at + 1 \in Nat
           /\ log_file[at] \in Record
           /\ log_file[at].key \in Keys /\ log_file[at].row \in 1 .. MaxRows
           /\ log_file[at].op \in {"insert", "delete"}
<1>1. at > 0 /\ at \in Nat /\ log_file \in Seq(Record)
  BY DEF Base, TypeOK, StepsSound, Recovering
<1>2. at \in 1 .. Len(log_file)
  BY <1>1
<1>3. log_file[at] \in Record
  BY <1>1, <1>2
<1> QED
  BY <1>1, <1>2, <1>3 DEF Record

LEMMA ReplayInsertKeepsBase == ASSUME Base, ReplayInsert PROVE Base'
<1> DEFINE r == log_file[at]
<1>1. /\ pc = "replay" /\ pc' = "replay" /\ at <= Len(log_file) /\ at' = at + 1 /\ stmt' = NoStmt
      /\ UNCHANGED <<fileVars, num_records, logVars, countVars, historyVars>>
  BY DEF ReplayInsert, Replaying
<1>2. at + 1 \in Nat /\ at + 1 > 0 /\ r.key \in Keys /\ r.row \in 1 .. MaxRows
  BY <1>1, RecordAt
<1>3. \/ UNCHANGED <<pageVars, root_page_num>>
      \/ /\ WriteTuple(r.key, r.row)
         /\ index' = IndexWith(r.key, NextCTID)
         /\ root_page_num' = TRUE
  BY DEF ReplayInsert
<1> HIDE DEF r
<1>4. /\ heap' \in [Pages -> Seq(Slot)]
      /\ \A q \in Pages : Len(heap'[q]) <= PageSlots
      /\ heap_pages' \in 0 .. MaxHeap /\ heap_len \in 0 .. heap_pages'
      /\ \A q \in Pages : q >= heap_pages' => heap'[q] = <<>>
      /\ index' \in Leaf \union {Zeros}
      /\ index' # Zeros => root_page_num'
      /\ index # Zeros => index' # Zeros
      /\ root_page_num' \in BOOLEAN
      /\ root_page_num => root_page_num'
  <2>1. CASE UNCHANGED <<pageVars, root_page_num>>
    BY <2>1, <1>1 DEF Base, TypeOK, StepsSound
  <2>2. CASE /\ WriteTuple(r.key, r.row)
             /\ index' = IndexWith(r.key, NextCTID)
             /\ root_page_num' = TRUE
    <3>1. /\ heap' \in [Pages -> Seq(Slot)]
          /\ \A q \in Pages : Len(heap'[q]) <= PageSlots
          /\ heap_pages' \in 0 .. MaxHeap /\ heap_pages' >= heap_pages
          /\ \A q \in Pages : q >= heap_pages' => heap'[q] = <<>>
          /\ NextCTID \in CTID
      BY <1>2, <2>2, TupleWritten
    <3>2. heap_len \in 0 .. heap_pages'
      BY <3>1 DEF Base, TypeOK
    <3>3. index' \in Leaf /\ index' # Zeros
      BY <1>2, <2>2, <3>1, IndexedLeaf DEF Base
    <3> QED BY <2>2, <3>1, <3>2, <3>3
  <2> QED BY <1>3, <2>1, <2>2
<1>5. TypeOK'
  BY <1>1, <1>2, <1>4, StmtTypes DEF Base, TypeOK, Steps
<1>6. StepsSound'
  BY <1>1, <1>2, <1>4, StmtTypes DEF Base, StepsSound, Recovering
<1>7. CalmSound'
  BY <1>1, <1>4 DEF Base, CalmSound
<1> QED
  BY <1>5, <1>6, <1>7 DEF Base

LEMMA ReplayPanicsKeepsBase == ASSUME Base, ReplayPanics PROVE Base'
<1> DEFINE r == log_file[at]
<1>1. /\ pc = "replay" /\ pc' = "panicked" /\ at <= Len(log_file) /\ at' = at /\ stmt' = NoStmt
      /\ WriteTuple(r.key, r.row) /\ Corrupted
      /\ UNCHANGED <<index, fileVars, catalogVars, logVars, countVars, historyVars>>
  BY DEF ReplayPanics, Replaying
<1>2. r.key \in Keys /\ r.row \in 1 .. MaxRows
  BY <1>1, RecordAt
<1> HIDE DEF r
<1>3. /\ heap' \in [Pages -> Seq(Slot)]
      /\ \A q \in Pages : Len(heap'[q]) <= PageSlots
      /\ heap_pages' \in 0 .. MaxHeap /\ heap_pages' >= heap_pages
      /\ \A q \in Pages : q >= heap_pages' => heap'[q] = <<>>
  BY <1>1, <1>2, TupleWritten
<1>4. heap_len \in 0 .. heap_pages'
  BY <1>3 DEF Base, TypeOK
<1>5. TypeOK'
  BY <1>1, <1>3, <1>4, StmtTypes DEF Base, TypeOK, Steps
<1>6. StepsSound'
  BY <1>1, <1>3, StmtTypes DEF Base, StepsSound, Recovering
<1>7. CalmSound'
  BY <1>1 DEF Base, CalmSound, Corrupted
<1> QED
  BY <1>5, <1>6, <1>7 DEF Base

LEMMA ReplayDeleteKeepsBase == ASSUME Base, ReplayDelete PROVE Base'
<1> DEFINE k == log_file[at].key
<1>1. /\ pc = "replay" /\ pc' = "replay" /\ at <= Len(log_file) /\ at' = at + 1 /\ stmt' = NoStmt
      /\ heap' = (IF Found(k) THEN MarkedAt(index[k]) ELSE heap)
      /\ index' = IndexWithout({k})
      /\ UNCHANGED <<heap_pages, fileVars, catalogVars, logVars, countVars, historyVars>>
  BY DEF ReplayDelete, Replaying
<1>2. at + 1 \in Nat /\ at + 1 > 0 /\ k \in Keys
  BY <1>1, RecordAt
<1> HIDE DEF k
<1>3. heap' \in [Pages -> Seq(Slot)] /\ \A q \in Pages : Len(heap'[q]) = Len(heap[q])
  <2>1. CASE ~Found(k)
    BY <1>1, <2>1 DEF Base, TypeOK
  <2>2. CASE Found(k)
    <3>1. index[k] \in CTID
      BY <1>2, <2>2 DEF Found, Base, TypeOK, Leaf
    <3> QED BY <1>1, <2>2, <3>1, TupleMarked DEF Base
  <2> QED BY <2>1, <2>2
<1>4. \A q \in Pages : Len(heap'[q]) <= PageSlots
  BY <1>3 DEF Base, TypeOK
<1>5. \A q \in Pages : q >= heap_pages => heap'[q] = <<>>
  <2> SUFFICES ASSUME NEW q \in Pages, q >= heap_pages PROVE heap'[q] = <<>>
    OBVIOUS
  <2>1. heap[q] = <<>>
    BY DEF Base, StepsSound
  <2>2. Len(heap'[q]) = 0 /\ heap'[q] \in Seq(Slot)
    BY <1>3, <2>1
  <2> QED BY <2>2
<1>6. index' \in Leaf \union {Zeros} /\ (index' = Zeros <=> index = Zeros)
  BY <1>1, UnindexedLeaf DEF Base
<1>7. TypeOK'
  BY <1>1, <1>2, <1>3, <1>4, <1>6, StmtTypes DEF Base, TypeOK, Steps
<1>8. StepsSound'
  BY <1>1, <1>2, <1>5, StmtTypes DEF Base, StepsSound, Recovering
<1>9. CalmSound'
  BY <1>1, <1>6 DEF Base, CalmSound
<1> QED
  BY <1>7, <1>8, <1>9 DEF Base

LEMMA RecoveryEndsKeepsBase == ASSUME Base, RecoveryEnds PROVE Base'
<1>1. /\ pc = "replay" /\ pc' = "idle" /\ at' = 0 /\ stmt' = NoStmt
      /\ UNCHANGED <<pageVars, fileVars, catalogVars, logVars, countVars, historyVars>>
  BY DEF RecoveryEnds
<1>2. TypeOK'
  BY <1>1, StmtTypes DEF Base, TypeOK, Steps
<1>3. StepsSound'
  BY <1>1, StmtTypes DEF Base, StepsSound, Recovering
<1>4. CalmSound'
  BY <1>1 DEF Base, CalmSound
<1> QED
  BY <1>2, <1>3, <1>4 DEF Base

-----------------------------------------------------------------------------
(* Memory *)

(* A live tuple.                                                           *)
LEMMA LiveTuple ==
    ASSUME TypeOK, NEW c \in CTID, LiveIn(heap, c)
    PROVE  TupleIn(heap, c).key \in Keys /\ TupleIn(heap, c).row \in 1 .. MaxRows
<1>1. heap[c[1]] \in Seq(Slot) /\ c[2] \in DOMAIN heap[c[1]]
  BY CTIDsAre DEF TypeOK, LiveIn
<1>2. heap[c[1]][c[2]] \in Slot
  BY <1>1
<1> QED
  BY <1>2 DEF TupleIn, Slot

(* Where the index leads.                                                  *)
LEMMA IndexLeads ==
    ASSUME TypeOK
    PROVE  \A k \in Keys : HasKey(index, k) => /\ index[k] \in CTID
                                              /\ index[k][1] \in Nat
BY CTIDsAre DEF TypeOK, HasKey, Leaf

(* The tuple of an INSERT is in the heap before the index leads to it.     *)
LEMMA InsertTupleKeepsMemory ==
    ASSUME Base, MemoryHolds, NEW k \in Keys, InsertTuple(k)
    PROVE  MemoryHolds' /\ \A j \in Keys : MemoryRow(j)' = MemoryRow(j)
<1>1. /\ pc = "idle" /\ pc' = "log" /\ ~Found(k)
      /\ stmt' = [op |-> "insert", keys |-> {k}, row |-> rows + 1, ctid |-> NextCTID]
      /\ allowed' = [allowed EXCEPT ![k] = @ \union {rows + 1}]
      /\ rows + 1 \in 1 .. MaxRows /\ WriteTuple(k, rows + 1)
      /\ UNCHANGED <<index, root_page_num>>
  BY DEF InsertTuple, Base, StepsSound
<1>2. /\ NextCTID \in CTID
      /\ ~LiveIn(heap, NextCTID) /\ LiveIn(heap', NextCTID)
      /\ TupleIn(heap', NextCTID).key = k /\ TupleIn(heap', NextCTID).row = rows + 1
      /\ \A c \in CTID \ {NextCTID} : LiveIn(heap', c) <=> LiveIn(heap, c)
      /\ \A c \in CTID \ {NextCTID} : LiveIn(heap, c) => TupleIn(heap', c) = TupleIn(heap, c)
  BY <1>1, TupleWritten
<1>3. Agree(heap, index, {})
  BY <1>1 DEF MemoryHolds, Inserting
<1>4. \A j \in Keys : HasKey(index, j) => index[j] \in CTID
  BY DEF Base, TypeOK, HasKey, Leaf
<1>5. /\ stmt'.op = "insert" /\ stmt'.keys = {k} /\ stmt'.row = rows + 1
      /\ stmt'.ctid = NextCTID
  BY <1>1
<1> DEFINE new == NextCTID
<1>6. ASSUME NEW j \in Keys, HasKey(index, j)
      PROVE  /\ LiveIn(heap', index[j]) /\ TupleIn(heap', index[j]).key = j
             /\ TupleIn(heap', index[j]) = TupleIn(heap, index[j])
  <2>1. index[j] \in CTID /\ LiveIn(heap, index[j]) /\ TupleIn(heap, index[j]).key = j
    BY <1>3, <1>4, <1>6 DEF Agree
  <2>2. index[j] # NextCTID
    BY <2>1, <1>2
  <2> QED BY <2>1, <2>2, <1>2
<1>7. \A c \in CTID \ {NextCTID} :
         LiveIn(heap', c) => index # Zeros /\ index[TupleIn(heap', c).key] = c
  BY <1>2, <1>3 DEF Agree
<1>8. Agree(heap', index, {NextCTID})
  BY <1>6, <1>7 DEF Agree
<1>9. \A j \in Keys : RowIn(heap', index, j) = RowIn(heap, index, j)
  BY <1>6 DEF RowIn
<1>10. Inserting' /\ ~Recovering' /\ ~Recovering
  BY <1>1 DEF Inserting, Recovering
<1>11. Agree(heap, index, IF Inserting THEN {stmt.ctid} ELSE {})'
  BY <1>1, <1>5, <1>8, <1>10
<1>12. StatementSound'
  BY <1>1, <1>2, <1>5 DEF StatementSound, Inserting, Found
<1>13. \A j \in Keys : MemoryRow(j)' \in allowed'[j]
  <2> SUFFICES ASSUME NEW j \in Keys PROVE MemoryRow(j)' \in allowed'[j]
    OBVIOUS
  <2>1. MemoryRow(j) \in allowed[j]
    BY <1>10 DEF MemoryHolds
  <2>2. MemoryRow(j)' = MemoryRow(j)
    BY <1>1, <1>9 DEF MemoryRow
  <2>3. allowed[j] \subseteq allowed'[j]
    BY <1>1 DEF Base, TypeOK
  <2> QED BY <2>1, <2>2, <2>3
<1>14. ~Corrupted' /\ pc' # "panicked"
  BY <1>1 DEF MemoryHolds, Corrupted
<1>15. \A j \in Keys : MemoryRow(j)' = MemoryRow(j)
  BY <1>1, <1>9 DEF MemoryRow
<1> QED
  BY <1>11, <1>12, <1>13, <1>14, <1>15 DEF MemoryHolds

LEMMA InsertLogKeepsMemory == ASSUME Base, MemoryHolds, InsertLog PROVE MemoryHolds'
<1>1. /\ pc = "log" /\ pc' = "index" /\ stmt' = stmt
      /\ UNCHANGED <<heap, index, root_page_num, allowed>>
  BY DEF InsertLog
<1>2. stmt.op = "insert"
  BY <1>1 DEF Base, StepsSound
<1> QED
  BY <1>1, <1>2 DEF MemoryHolds, Corrupted, Inserting, Recovering, StatementSound, Found, MemoryRow

LEMMA InsertIndexKeepsMemory ==
    ASSUME Base, MemoryHolds, InsertIndex
    PROVE  MemoryHolds' /\ \A j \in Keys : MemoryRow(j)' = Meant(j)
<1> DEFINE k == KeyOf(stmt)
           new == stmt.ctid
           x == IndexWith(k, new)
<1>1. /\ pc = "index" /\ pc' = "catalog" /\ stmt' = stmt /\ index' = x
      /\ UNCHANGED <<heap, root_page_num, allowed>>
  BY DEF InsertIndex
<1>2. stmt.op = "insert"
  BY <1>1 DEF Base, StepsSound
<1>3. /\ k \in Keys /\ stmt.keys = {k} /\ stmt.row \in 1 .. MaxRows
      /\ stmt.row \in allowed[k] /\ new \in CTID
  BY <1>2, InsertedKey
<1>4. TypeOK
  BY DEF Base
<1>5. /\ x # Zeros /\ HasKey(x, k) /\ x[k] = new
      /\ \A j \in Keys \ {k} : /\ HasKey(x, j) <=> HasKey(index, j)
                               /\ HasKey(index, j) => x[j] = index[j]
  BY <1>3, <1>4, IndexedLeaf
<1>6. Inserting /\ ~Inserting' /\ ~Recovering /\ ~Recovering'
  BY <1>1 DEF Inserting, Recovering
<1>7. Agree(heap, index, {new})
  BY <1>6 DEF MemoryHolds
<1>8. /\ ~HasKey(index, k) /\ LiveIn(heap, new)
      /\ TupleIn(heap, new).key = k /\ TupleIn(heap, new).row = stmt.row
  BY <1>3, <1>6 DEF MemoryHolds, StatementSound, Found, HasKey
<1> HIDE DEF k, new, x
<1>9. \A c \in CTID : LiveIn(heap, c) => TupleIn(heap, c).key \in Keys
  BY <1>4, LiveTuple
<1>10. Agree(heap, x, {})
  <2>1. ASSUME NEW j \in Keys, HasKey(x, j)
        PROVE  LiveIn(heap, x[j]) /\ TupleIn(heap, x[j]).key = j
    BY <2>1, <1>5, <1>7, <1>8 DEF Agree
  <2>2. ASSUME NEW c \in CTID, LiveIn(heap, c)
        PROVE  x[TupleIn(heap, c).key] = c
    <3>1. CASE c = new
      BY <3>1, <1>5, <1>8
    <3>2. CASE c # new
      <4>1. index # Zeros /\ index[TupleIn(heap, c).key] = c
        BY <2>2, <3>2, <1>7 DEF Agree
      <4>2. c # NoCTID /\ TupleIn(heap, c).key \in Keys
        BY <2>2, <1>9, CTIDsAre
      <4>3. HasKey(index, TupleIn(heap, c).key)
        BY <4>1, <4>2 DEF HasKey
      <4> QED BY <4>1, <4>2, <4>3, <1>5, <1>8
    <3> QED BY <3>1, <3>2
  <2> QED BY <2>1, <2>2, <1>5 DEF Agree
<1>11. RowIn(heap, x, k) = stmt.row
  BY <1>5, <1>8 DEF RowIn
<1>12. \A j \in Keys \ {k} : RowIn(heap, x, j) = RowIn(heap, index, j)
  BY <1>5 DEF RowIn
<1>13. \A j \in Keys : MemoryRow(j)' \in allowed'[j]
  <2>1. \A j \in Keys : MemoryRow(j)' = RowIn(heap, x, j)
    BY <1>1 DEF MemoryRow
  <2>2. \A j \in Keys : RowIn(heap, index, j) \in allowed[j]
    BY <1>6 DEF MemoryHolds, MemoryRow
  <2> QED BY <2>1, <2>2, <1>1, <1>3, <1>11, <1>12
<1>14. StatementSound'
  <2>1. \A j \in stmt.keys : MemoryRow(j)' = stmt.row
    BY <1>1, <1>3, <1>11 DEF MemoryRow
  <2> QED BY <2>1, <1>1, <1>2, <1>6 DEF StatementSound
<1>15. Agree(heap, index, IF Inserting THEN {stmt.ctid} ELSE {})'
  BY <1>1, <1>6, <1>10
<1>16. ~Corrupted' /\ pc' # "panicked"
  BY <1>1, <1>5 DEF Corrupted
<1>17. \A j \in Keys : MemoryRow(j)' = Meant(j)
  BY <1>1, <1>3, <1>11, <1>12 DEF MemoryRow, Meant
<1> QED
  BY <1>13, <1>14, <1>15, <1>16, <1>17 DEF MemoryHolds

LEMMA InsertRootKeepsMemory == ASSUME Base, MemoryHolds, InsertRoot PROVE MemoryHolds'
<1>1. /\ pc = "catalog" /\ UNCHANGED <<pc, stmt, at, heap, index, allowed>>
  BY DEF InsertRoot
<1>2. stmt.op = "insert"
  BY <1>1 DEF Base, StepsSound
<1>3. stmt.keys = {KeyOf(stmt)} /\ stmt.row \in 1 .. MaxRows
  BY <1>2, InsertedKey
<1>4. MemoryRow(KeyOf(stmt)) = stmt.row
  BY <1>1, <1>2, <1>3 DEF MemoryHolds, StatementSound
<1>5. index # Zeros
  BY <1>3, <1>4 DEF MemoryRow, RowIn, HasKey
<1> QED
  BY <1>1, <1>5 DEF MemoryHolds, Corrupted, Inserting, Recovering, StatementSound, Found, MemoryRow

LEMMA InsertCountKeepsMemory == ASSUME Base, MemoryHolds, InsertCount PROVE MemoryHolds'
<1>1. /\ pc = "catalog" /\ pc' = "commit" /\ stmt' = stmt
      /\ UNCHANGED <<heap, index, allowed, root_page_num>>
  BY DEF InsertCount
<1>2. stmt.op = "insert"
  BY <1>1 DEF Base, StepsSound
<1> QED
  BY <1>1, <1>2 DEF MemoryHolds, Corrupted, Inserting, Recovering, StatementSound, Found, MemoryRow

LEMMA BeginDeleteKeepsMemory ==
    ASSUME Base, MemoryHolds, NEW ks \in SUBSET Keys, BeginDelete(ks)
    PROVE  MemoryHolds'
<1>1. /\ pc = "idle" /\ pc' = "delete" /\ at' = 0
      /\ stmt' = [NoStmt EXCEPT !.op = "delete", !.keys = ks]
      /\ UNCHANGED <<heap, index, allowed, root_page_num>>
  BY DEF BeginDelete
<1>2. stmt'.op = "delete" /\ stmt'.keys = ks
  BY <1>1 DEF NoStmt
<1>3. \A k \in Keys : Found(k) => index[k][1] >= 0
  BY IndexLeads DEF Base, Found, HasKey
<1>4. StatementSound'
  BY <1>1, <1>2, <1>3 DEF StatementSound, Inserting, Found
<1> QED
  BY <1>1, <1>4 DEF MemoryHolds, Corrupted, Inserting, Recovering, MemoryRow

(* A DELETE takes from the index the keys of the tuples that it marks.     *)
LEMMA DeleteOnPageKeepsMemory ==
    ASSUME Base, MemoryHolds, DeleteOnPage
    PROVE  /\ MemoryHolds'
           /\ \A k \in Keys : MemoryRow(k)' =
                 IF k \in KeysOf(Victims(at, stmt.keys)) THEN 0 ELSE MemoryRow(k)
<1> DEFINE ks == stmt.keys
           found == Victims(at, ks)
           hit == KeysOf(found)
<1>1. DeletesFrom(at, found)
  BY DeleteOnPageIs
<1>2. TypeOK
  BY DEF Base
<1>3. at \in Pages /\ at \in Nat
  BY <1>1, <1>2 DEF DeletesFrom, TypeOK
<1>4. PICK place \in [1 .. Len(found) -> 1 .. PageSlots] :
         /\ \A i \in 1 .. Len(found) : /\ LiveIn(heap, <<at, place[i]>>)
                                       /\ TupleIn(heap, <<at, place[i]>>) = found[i]
                                       /\ found[i].key \in ks
         /\ \A c \in CTID : c[1] = at /\ LiveIn(heap, c) /\ TupleIn(heap, c).key \in ks
               => \E i \in 1 .. Len(found) : place[i] = c[2]
         /\ \A i, j \in 1 .. Len(found) : place[i] = place[j] => i = j
  BY <1>2, <1>3, VictimsAre
<1>5. found \in Seq(Slot)
  BY <1>2, <1>3, VictimsAre
<1>6. \A k : k \in hit <=> \E i \in 1 .. Len(found) : found[i].key = k
  BY <1>5, DeletionsAre
<1>7. /\ pc = "delete" /\ pc' = "delete" /\ at' = at + 1
      /\ heap' = MarkedOn(heap, at, ks)
      /\ index' = IndexWithout(hit)
      /\ allowed' = [k \in Keys |-> IF k \in hit THEN allowed[k] \union {0} ELSE allowed[k]]
      /\ stmt'.op = stmt.op /\ stmt'.keys = ks
      /\ UNCHANGED root_page_num
  <2>1. stmt' = [stmt EXCEPT !.row = stmt.row + Len(found)]
    BY <1>1 DEF DeletesFrom
  <2>2. stmt \in [op : {"none", "insert", "delete"}, keys : SUBSET Keys,
                  row : Nat, ctid : CTID \union {NoCTID}]
    BY <1>2 DEF TypeOK
  <2> HIDE DEF found
  <2>3. stmt'.op = stmt.op /\ stmt'.keys = ks
    BY <2>1, <2>2
  <2> QED BY <1>1, <2>3 DEF DeletesFrom, MarkedOn
<1>8. Agree(heap, index, {}) /\ ~Inserting /\ ~Inserting' /\ ~Recovering /\ ~Recovering'
  BY <1>7 DEF MemoryHolds, Inserting, Recovering
<1>9. stmt.op = "delete"
  BY <1>7 DEF Base, StepsSound
<1>10. \A k \in Keys : HasKey(index, k) => index[k] \in CTID /\ index[k][1] \in Nat
  BY <1>2, IndexLeads
<1>11. \A c \in CTID : LiveIn(heap, c) => TupleIn(heap, c).key \in Keys
  BY <1>2, LiveTuple
<1> HIDE DEF found, hit, ks
<1>12. /\ index' = Zeros <=> index = Zeros
       /\ \A k \in Keys : /\ HasKey(index', k) <=> HasKey(index, k) /\ k \notin hit
                          /\ HasKey(index', k) => index'[k] = index[k]
  BY <1>2, <1>7, UnindexedLeaf
<1>13. /\ \A c \in CTID : LiveIn(heap', c) <=>
             LiveIn(heap, c) /\ ~ (c[1] = at /\ TupleIn(heap, c).key \in ks)
       /\ \A c \in CTID : LiveIn(heap, c) => /\ TupleIn(heap', c).key = TupleIn(heap, c).key
                                             /\ TupleIn(heap', c).row = TupleIn(heap, c).row
  <2>1. heap \in [Pages -> Seq(Slot)] /\ \A q \in Pages : Len(heap[q]) <= PageSlots
    BY <1>2 DEF TypeOK
  <2> QED BY <1>3, <1>7, <2>1, TuplesMarked
(* A key of which the DELETE marks the tuple is hit, and no other.         *)
<1>14. ASSUME NEW c \in CTID, LiveIn(heap, c)
       PROVE  TupleIn(heap, c).key \in hit <=> c[1] = at /\ TupleIn(heap, c).key \in ks
  <2> DEFINE k == TupleIn(heap, c).key
  <2>1. ASSUME c[1] = at, k \in ks PROVE k \in hit
    <3>1. PICK i \in 1 .. Len(found) : place[i] = c[2]
      BY <1>4, <1>14, <2>1
    <3>2. c = <<at, place[i]>>
      BY <2>1, <3>1, CTIDsAre
    <3>3. found[i].key = k
      BY <1>4, <3>2
    <3> QED BY <1>6, <3>3
  <2>2. ASSUME k \in hit PROVE c[1] = at /\ k \in ks
    <3>1. PICK i \in 1 .. Len(found) : found[i].key = k
      BY <1>6, <2>2
    <3> DEFINE d == <<at, place[i]>>
    <3>2. LiveIn(heap, d) /\ TupleIn(heap, d).key = k /\ k \in ks
      BY <1>4, <3>1
    <3>3. d \in CTID /\ d[1] = at
      BY <1>3, <1>4, CTIDsAre
    <3> HIDE DEF d
    <3>4. index[k] = d /\ index[k] = c
      BY <1>8, <1>14, <3>2, <3>3 DEF Agree
    <3> QED BY <3>2, <3>3, <3>4
  <2> QED BY <2>1, <2>2
<1>15. ASSUME NEW k \in Keys, HasKey(index', k)
       PROVE  /\ LiveIn(heap', index'[k]) /\ TupleIn(heap', index'[k]).key = k
              /\ TupleIn(heap', index'[k]).row = TupleIn(heap, index[k]).row
              /\ index'[k] = index[k] /\ ~ (index[k][1] = at /\ k \in ks)
  <2>1. HasKey(index, k) /\ index'[k] = index[k] /\ index[k] \in CTID /\ k \notin hit
    BY <1>10, <1>12, <1>15
  <2>2. LiveIn(heap, index[k]) /\ TupleIn(heap, index[k]).key = k
    BY <1>8, <2>1 DEF Agree
  <2>3. ~ (index[k][1] = at /\ k \in ks)
    BY <1>14, <2>1, <2>2
  <2> QED BY <1>13, <2>1, <2>2, <2>3
<1>16. ASSUME NEW c \in CTID, LiveIn(heap', c)
       PROVE  index' # Zeros /\ index'[TupleIn(heap', c).key] = c
  <2> DEFINE k == TupleIn(heap, c).key
  <2>1. LiveIn(heap, c) /\ ~ (c[1] = at /\ k \in ks) /\ TupleIn(heap', c).key = k
    BY <1>13, <1>16
  <2>2. index # Zeros /\ index[k] = c
    BY <1>8, <2>1 DEF Agree
  <2>3. k \in Keys /\ k \notin hit /\ c # NoCTID
    BY <1>11, <1>14, <2>1, CTIDsAre
  <2>4. HasKey(index, k)
    BY <2>2, <2>3 DEF HasKey
  <2> QED BY <1>12, <2>1, <2>2, <2>3, <2>4
<1>17. Agree(heap', index', {})
  BY <1>15, <1>16 DEF Agree
<1>18. Agree(heap, index, IF Inserting THEN {stmt.ctid} ELSE {})'
  BY <1>8, <1>17
<1>19. StatementSound'
  <2>1. \A k \in ks : k \in Keys
    BY <1>2 DEF TypeOK, ks
  <2>2. ASSUME NEW k \in ks, HasKey(index', k)
        PROVE  index'[k][1] >= at + 1
    <3>1. k \in Keys /\ index'[k] = index[k] /\ index[k][1] # at /\ HasKey(index, k)
      BY <1>12, <1>15, <2>1, <2>2
    <3>2. index[k][1] >= at
      BY <1>9, <3>1 DEF MemoryHolds, StatementSound, Found, HasKey, ks
    <3>3. index[k][1] \in Nat
      BY <1>10, <3>1
    <3> QED BY <1>3, <3>1, <3>2, <3>3
  <2> QED BY <1>7, <1>8, <1>9, <2>2 DEF StatementSound, Found, HasKey
<1>20. \A k \in Keys : MemoryRow(k)' \in allowed'[k]
  <2> SUFFICES ASSUME NEW k \in Keys PROVE RowIn(heap', index', k) \in allowed'[k]
    BY DEF MemoryRow
  <2>1. RowIn(heap, index, k) \in allowed[k]
    BY <1>8 DEF MemoryHolds, MemoryRow
  <2>2. CASE HasKey(index', k)
    <3>1. RowIn(heap', index', k) = RowIn(heap, index, k)
      BY <1>12, <1>15, <2>2 DEF RowIn
    <3> QED BY <1>7, <2>1, <3>1
  <2>3. CASE ~HasKey(index', k)
    <3>1. RowIn(heap', index', k) = 0
      BY <2>3 DEF RowIn
    <3>2. HasKey(index, k) => k \in hit
      BY <1>12, <2>3
    <3>3. ~HasKey(index, k) => RowIn(heap, index, k) = 0
      BY DEF RowIn
    <3> QED BY <1>7, <2>1, <3>1, <3>2, <3>3
  <2> QED BY <2>2, <2>3
<1>21. ~Corrupted' /\ pc' # "panicked"
  BY <1>7, <1>12 DEF MemoryHolds, Corrupted
<1>22. ASSUME NEW k \in Keys
       PROVE  RowIn(heap', index', k) = IF k \in hit THEN 0 ELSE RowIn(heap, index, k)
  <2>1. CASE HasKey(index', k)
    BY <1>12, <1>15, <2>1 DEF RowIn
  <2>2. CASE ~HasKey(index', k)
    BY <1>12, <2>2 DEF RowIn
  <2> QED BY <2>1, <2>2
<1>23. \A k \in Keys : MemoryRow(k)' =
          IF k \in KeysOf(Victims(at, stmt.keys)) THEN 0 ELSE MemoryRow(k)
  BY <1>22 DEF MemoryRow, hit, found, ks
<1> QED
  BY <1>18, <1>19, <1>20, <1>21, <1>23 DEF MemoryHolds

LEMMA DeleteCountKeepsMemory == ASSUME Base, MemoryHolds, DeleteCount PROVE MemoryHolds'
<1>1. /\ pc = "delete" /\ pc' = "commit" /\ stmt' = stmt /\ at = heap_pages
      /\ UNCHANGED <<heap, index, allowed, root_page_num>>
  BY DEF DeleteCount
<1>2. stmt.op = "delete" /\ stmt.keys \subseteq Keys
  BY <1>1 DEF Base, StepsSound, TypeOK
<1>3. ASSUME NEW k \in stmt.keys PROVE ~Found(k)
  <2> SUFFICES ASSUME Found(k) PROVE FALSE
    OBVIOUS
  <2>1. k \in Keys /\ HasKey(index, k) /\ index[k][1] >= heap_pages
    BY <1>1, <1>2 DEF MemoryHolds, StatementSound, Found, HasKey
  <2>2. index[k] \in CTID
    BY <2>1, IndexLeads DEF Base
  <2>3. heap[index[k][1]] = <<>>
    BY <2>1, <2>2, CTIDsAre DEF Base, StepsSound
  <2>4. LiveIn(heap, index[k])
    BY <2>1 DEF MemoryHolds, Agree
  <2> QED BY <2>3, <2>4 DEF LiveIn
<1> QED
  BY <1>1, <1>2, <1>3 DEF MemoryHolds, Corrupted, Inserting, Recovering, StatementSound, Found, MemoryRow

(* What a statement promises is what it has done.                          *)
LEMMA ReturnKeepsMemory == ASSUME Base, MemoryHolds, pc = "commit", Returns PROVE MemoryHolds'
<1>1. /\ pc' = "idle" /\ stmt' = NoStmt /\ allowed' = Promised
      /\ UNCHANGED <<heap, index, root_page_num>>
  BY ReturnsAre
<1>2. /\ stmt.op = "insert" => \A k \in stmt.keys : MemoryRow(k) = stmt.row
      /\ stmt.op = "delete" => \A k \in stmt.keys : MemoryRow(k) = 0
      /\ \A k \in Keys : MemoryRow(k) \in allowed[k]
  BY DEF MemoryHolds, StatementSound, Found, MemoryRow, RowIn, HasKey, Recovering
<1>3. \A k \in Keys : MemoryRow(k) \in Promised[k]
  BY <1>2 DEF Promised
<1> QED
  BY <1>1, <1>3, StmtTypes
     DEF MemoryHolds, Corrupted, Inserting, Recovering, StatementSound, Found, MemoryRow

(* Steps that leave the memory alone.                                      *)
LEMMA MemoryKept ==
    ASSUME Base, MemoryHolds, UNCHANGED <<heap, index, root_page_num, allowed>>,
           \/ UNCHANGED <<pc, stmt, at>>
           \/ /\ pc \in {"idle", "checkpoint", "truncate"} /\ stmt' = NoStmt
              /\ pc' \in {"idle", "checkpoint", "truncate"}
    PROVE  MemoryHolds'
BY StmtTypes DEF MemoryHolds, Corrupted, Inserting, Recovering, StatementSound, Found, MemoryRow

LEMMA RebuildKeepsMemory == ASSUME Base, MemoryHolds, Rebuild PROVE MemoryHolds' /\ index' = index
<1>1. /\ pc = "rebuild" /\ pc' = "replay" /\ stmt' = NoStmt /\ index' = index
      /\ UNCHANGED <<heap, root_page_num, allowed>>
  BY DEF Rebuild, MemoryHolds
<1> QED
  BY <1>1, StmtTypes DEF MemoryHolds, Corrupted, Inserting, Recovering, StatementSound

(* What the replay of a record does to the row of each key.                *)
LEMMA ReplayInsertKeepsMemory ==
    ASSUME Base, MemoryHolds, ReplayInsert
    PROVE  /\ MemoryHolds'
           /\ \A k \in Keys : MemoryRow(k)' = After(MemoryRow(k), log_file[at], k)
<1> DEFINE r == log_file[at]
           new == NextCTID
           x == IndexWith(r.key, new)
<1>1. /\ pc = "replay" /\ pc' = "replay" /\ stmt' = NoStmt
      /\ at <= Len(log_file) /\ r.op = "insert"
      /\ allowed' = allowed
  BY DEF ReplayInsert, Replaying
<1>2. r.key \in Keys /\ r.row \in 1 .. MaxRows
  BY <1>1, RecordAt
<1>3. TypeOK
  BY DEF Base
<1>4. Agree(heap, index, {}) /\ ~Inserting' /\ Recovering'
  BY <1>1 DEF MemoryHolds, Inserting, Recovering
<1>5. \A k \in Keys : HasKey(index, k) => index[k] \in CTID
  BY <1>3, IndexLeads
<1>6. \A c \in CTID : LiveIn(heap, c) =>
         TupleIn(heap, c).key \in Keys /\ TupleIn(heap, c).row \in 1 .. MaxRows
  BY <1>3, LiveTuple
<1>7. StatementSound'
  BY <1>1, StmtTypes DEF StatementSound, Inserting
<1>8. SUFFICES /\ Agree(heap', index', {}) /\ ~Corrupted'
               /\ \A k \in Keys : RowIn(heap', index', k) = After(RowIn(heap, index, k), r, k)
  BY <1>1, <1>4, <1>7 DEF MemoryHolds, MemoryRow
<1>9. CASE Found(r.key) /\ UNCHANGED <<pageVars, root_page_num>>
  <2>1. HasKey(index, r.key)
    BY <1>9 DEF Found, HasKey
  <2>2. index[r.key] \in CTID /\ LiveIn(heap, index[r.key])
    BY <1>2, <1>4, <1>5, <2>1 DEF Agree
  <2>3. RowIn(heap, index, r.key) # 0
    BY <1>6, <2>1, <2>2 DEF RowIn
  <2>4. \A k \in Keys : RowIn(heap, index, k) = After(RowIn(heap, index, k), r, k)
    BY <1>1, <2>3 DEF After
  <2> QED BY <1>4, <1>9, <2>4 DEF MemoryHolds, Corrupted
<1>10. CASE /\ ~Found(r.key)
            /\ WriteTuple(r.key, r.row)
            /\ index' = x /\ root_page_num' = TRUE
  <2>1. /\ new \in CTID
        /\ ~LiveIn(heap, new) /\ LiveIn(heap', new)
        /\ TupleIn(heap', new).key = r.key /\ TupleIn(heap', new).row = r.row
        /\ \A c \in CTID \ {new} : LiveIn(heap', c) <=> LiveIn(heap, c)
        /\ \A c \in CTID \ {new} : LiveIn(heap, c) => TupleIn(heap', c) = TupleIn(heap, c)
    BY <1>2, <1>10, TupleWritten
  <2>2. /\ x # Zeros /\ HasKey(x, r.key) /\ x[r.key] = new
        /\ \A j \in Keys \ {r.key} : /\ HasKey(x, j) <=> HasKey(index, j)
                                     /\ HasKey(index, j) => x[j] = index[j]
    BY <1>2, <1>3, <2>1, IndexedLeaf
  <2>3. ~HasKey(index, r.key)
    BY <1>10 DEF Found, HasKey
  <2> HIDE DEF x, new, r
  <2>4. ASSUME NEW j \in Keys \ {r.key}, HasKey(index, j)
        PROVE  /\ x[j] = index[j] /\ LiveIn(heap', x[j]) /\ TupleIn(heap', x[j]).key = j
               /\ TupleIn(heap', x[j]) = TupleIn(heap, index[j])
    <3>1. index[j] \in CTID /\ LiveIn(heap, index[j]) /\ TupleIn(heap, index[j]).key = j
      BY <1>4, <1>5, <2>4 DEF Agree
    <3>2. index[j] # new
      BY <2>1, <3>1
    <3> QED BY <2>1, <2>2, <2>4, <3>1, <3>2
  <2>5. ASSUME NEW j \in Keys, HasKey(x, j)
        PROVE  LiveIn(heap', x[j]) /\ TupleIn(heap', x[j]).key = j
    BY <2>1, <2>2, <2>4, <2>5
  <2>6. ASSUME NEW c \in CTID, LiveIn(heap', c)
        PROVE  x[TupleIn(heap', c).key] = c
    <3>1. CASE c = new
      BY <3>1, <2>1, <2>2
    <3>2. CASE c # new
      <4>1. LiveIn(heap, c) /\ TupleIn(heap', c) = TupleIn(heap, c)
        BY <2>1, <2>6, <3>2
      <4>2. index # Zeros /\ index[TupleIn(heap, c).key] = c
        BY <1>4, <4>1 DEF Agree
      <4>3. c # NoCTID /\ TupleIn(heap, c).key \in Keys
        BY <1>6, <4>1, CTIDsAre
      <4>4. HasKey(index, TupleIn(heap, c).key)
        BY <4>2, <4>3 DEF HasKey
      <4> QED BY <4>1, <4>2, <4>3, <4>4, <2>2, <2>3
    <3> QED BY <3>1, <3>2
  <2>7. Agree(heap', x, {})
    BY <2>2, <2>5, <2>6 DEF Agree
  <2>8. ASSUME NEW k \in Keys PROVE RowIn(heap', x, k) = After(RowIn(heap, index, k), r, k)
    <3>1. CASE k = r.key
      <4>1. RowIn(heap, index, k) = 0 /\ RowIn(heap', x, k) = r.row
        BY <2>1, <2>2, <2>3, <3>1 DEF RowIn
      <4> QED BY <1>1, <3>1, <4>1 DEF After
    <3>2. CASE k # r.key
      BY <2>2, <2>4, <3>2 DEF RowIn, After
    <3> QED BY <3>1, <3>2
  <2> QED BY <1>10, <2>2, <2>7, <2>8 DEF Corrupted
<1> QED
  BY <1>9, <1>10 DEF ReplayInsert

LEMMA ReplayDeleteKeepsMemory ==
    ASSUME Base, MemoryHolds, ReplayDelete
    PROVE  /\ MemoryHolds'
           /\ \A k \in Keys : MemoryRow(k)' = After(MemoryRow(k), log_file[at], k)
<1> DEFINE r == log_file[at]
           d == r.key
           x == IndexWithout({d})
<1>1. /\ pc = "replay" /\ pc' = "replay" /\ stmt' = NoStmt
      /\ at <= Len(log_file) /\ r.op = "delete"
      /\ heap' = (IF Found(d) THEN MarkedAt(index[d]) ELSE heap)
      /\ index' = x
      /\ UNCHANGED <<allowed, root_page_num>>
  BY DEF ReplayDelete, Replaying
<1>2. d \in Keys
  BY <1>1, RecordAt
<1>3. TypeOK
  BY DEF Base
<1>4. Agree(heap, index, {}) /\ ~Inserting' /\ Recovering'
  BY <1>1 DEF MemoryHolds, Inserting, Recovering
<1>5. \A k \in Keys : HasKey(index, k) => index[k] \in CTID
  BY <1>3, IndexLeads
<1>6. \A c \in CTID : LiveIn(heap, c) => TupleIn(heap, c).key \in Keys
  BY <1>3, LiveTuple
<1>7. StatementSound'
  BY <1>1, StmtTypes DEF StatementSound, Inserting
<1>8. SUFFICES /\ Agree(heap', index', {}) /\ ~Corrupted'
               /\ \A k \in Keys : RowIn(heap', index', k) = After(RowIn(heap, index, k), r, k)
  BY <1>1, <1>4, <1>7 DEF MemoryHolds, MemoryRow
<1>9. /\ x = Zeros <=> index = Zeros
      /\ \A j \in Keys : /\ HasKey(x, j) <=> HasKey(index, j) /\ j # d
                         /\ HasKey(x, j) => x[j] = index[j]
  BY <1>3, UnindexedLeaf
<1>10. /\ \A c \in CTID : LiveIn(heap', c) <=> LiveIn(heap, c) /\ ~ (HasKey(index, d) /\ c = index[d])
       /\ \A c \in CTID : LiveIn(heap, c) => /\ TupleIn(heap', c).key = TupleIn(heap, c).key
                                             /\ TupleIn(heap', c).row = TupleIn(heap, c).row
  <2>1. Found(d) <=> HasKey(index, d)
    BY DEF Found, HasKey
  <2>2. CASE Found(d)
    <3>1. index[d] \in CTID
      BY <1>2, <1>5, <2>1, <2>2
    <3>2. heap' = MarkedAt(index[d])
      BY <1>1, <2>2
    <3> QED BY <1>3, <2>1, <2>2, <3>1, <3>2, TupleMarked
  <2>3. CASE ~Found(d)
    BY <1>1, <2>1, <2>3
  <2> QED BY <2>2, <2>3
<1> HIDE DEF d, x, r
<1>11. ASSUME NEW j \in Keys, HasKey(x, j)
       PROVE  /\ x[j] = index[j] /\ LiveIn(heap', x[j]) /\ TupleIn(heap', x[j]).key = j
              /\ TupleIn(heap', x[j]).row = TupleIn(heap, index[j]).row
  <2>1. HasKey(index, j) /\ j # d /\ x[j] = index[j] /\ index[j] \in CTID
    BY <1>5, <1>9, <1>11
  <2>2. LiveIn(heap, index[j]) /\ TupleIn(heap, index[j]).key = j
    BY <1>4, <2>1 DEF Agree
  <2>3. HasKey(index, d) => TupleIn(heap, index[d]).key = d
    BY <1>2, <1>4 DEF Agree
  <2> QED BY <1>10, <2>1, <2>2, <2>3
<1>12. ASSUME NEW c \in CTID, LiveIn(heap', c)
       PROVE  x # Zeros /\ x[TupleIn(heap', c).key] = c
  <2> DEFINE k == TupleIn(heap, c).key
  <2>1. LiveIn(heap, c) /\ TupleIn(heap', c).key = k /\ ~ (HasKey(index, d) /\ c = index[d])
    BY <1>10, <1>12
  <2>2. index # Zeros /\ index[k] = c /\ k \in Keys /\ c # NoCTID
    BY <1>4, <1>6, <2>1, CTIDsAre DEF Agree
  <2>3. HasKey(index, k)
    BY <2>2 DEF HasKey
  <2>4. k # d
    BY <2>1, <2>2, <2>3
  <2> QED BY <1>9, <2>1, <2>2, <2>3, <2>4
<1>13. Agree(heap', x, {})
  BY <1>11, <1>12 DEF Agree
<1>14. ASSUME NEW k \in Keys PROVE RowIn(heap', x, k) = After(RowIn(heap, index, k), r, k)
  <2>1. CASE k = d
    <3>1. RowIn(heap', x, k) = 0
      BY <1>9, <2>1 DEF RowIn
    <3> QED BY <1>1, <2>1, <3>1 DEF After, d
  <2>2. CASE k # d
    BY <1>9, <1>11, <2>2 DEF RowIn, After, d
  <2> QED BY <2>1, <2>2
<1> QED
  BY <1>1, <1>9, <1>13, <1>14 DEF MemoryHolds, Corrupted

-----------------------------------------------------------------------------
(* The files *)

LEMMA WholeLog == ASSUME NEW s \in Seq(Record) PROVE SubSeq(s, 1, Len(s)) = s
OBVIOUS

LEMMA LogIs ==
    ASSUME TypeOK
    PROVE  /\ Log \in Seq(Record) /\ Len(Log) \in Nat
           /\ log_file \in Seq(Record) /\ Len(log_file) \in Nat
           /\ Len(log_file) <= Len(Log)
           /\ \A i \in 1 .. Len(log_file) : Log[i] = log_file[i]
           /\ torn => Log = log_file
           /\ ~torn => Log = log_file \o log_buffer
           /\ log_buffer = <<>> => Log = log_file
<1>1. log_file \in Seq(Record) /\ log_buffer \in Seq(Record) /\ torn \in BOOLEAN
  BY DEF TypeOK
<1>2. SubSeq(log_buffer, 1, Len(log_buffer)) = log_buffer
  BY <1>1, WholeLog
<1>3. Log = IF torn THEN log_file ELSE log_file \o log_buffer
  BY <1>2 DEF Log, Written
<1> DEFINE g == log_file \o log_buffer
<1>4. /\ g \in Seq(Record) /\ Len(g) = Len(log_file) + Len(log_buffer)
      /\ \A i \in 1 .. Len(log_file) : g[i] = log_file[i]
      /\ Len(log_file) \in Nat /\ Len(log_buffer) \in Nat
  BY <1>1, ConcatEntries
<1>5. log_buffer = <<>> => g = log_file
  BY <1>1
<1> HIDE DEF g
<1>6. Log = IF torn THEN log_file ELSE g
  BY <1>3 DEF g
<1>7. Len(log_file) <= Len(g) /\ Len(g) \in Nat
  BY <1>4
<1> QED
  BY <1>1, <1>4, <1>5, <1>6, <1>7 DEF g

(* Steps that leave the files and the log alone, and rows as they are.     *)
LEMMA FilesKept ==
    ASSUME Base, FilesHold, UNCHANGED <<fileVars, log_file, log_buffer, torn>>,
           ~Recovering, ~Recovering',
           \A k \in Keys : allowed[k] \subseteq allowed'[k] /\ Meant(k)' = Meant(k),
           stmt'.op = "none" => stmt.op = "none"
    PROVE  FilesHold'
<1>1. Log' = Log
  BY DEF Log, Written
<1>2. \A k \in Keys : FileRow(k)' = FileRow(k)
  BY DEF FileRow
<1>3. CrashesAllowed'
  BY <1>1, <1>2 DEF CrashesAllowed, FilesHold
<1>4. LogMakesMemory'
  BY <1>1, <1>2 DEF LogMakesMemory, FilesHold
<1>5. RecoverySound'
  BY DEF RecoverySound, Recovering
<1> QED
  BY <1>3, <1>4, <1>5 DEF FilesHold

(* The log is empty where nothing is written but by checkpoints.           *)
LEMMA NothingBuffered ==
    ASSUME Base, FilesTrusted, pc \notin {"index", "catalog", "delete", "commit"}
    PROVE  log_buffer = <<>> /\ Log = log_file
<1>1. log_buffer = <<>> /\ TypeOK
  BY DEF Base, CalmSound, FilesTrusted
<1> QED
  BY <1>1, LogIs

LEMMA InsertTupleKeepsFiles ==
    ASSUME Base, MemoryHolds, FilesHold, NEW k \in Keys, InsertTuple(k)
    PROVE  FilesHold'
<1>1. /\ pc = "idle" /\ pc' = "log"
      /\ allowed' = [allowed EXCEPT ![k] = @ \union {rows + 1}]
      /\ UNCHANGED <<fileVars, logVars>>
  BY DEF InsertTuple
<1>2. stmt = NoStmt
  BY <1>1 DEF Base, StepsSound
<1>3. \A j \in Keys : allowed[j] \subseteq allowed'[j]
  BY <1>1 DEF Base, TypeOK
<1>4. \A j \in Keys : Meant(j)' = Meant(j)
  BY <1>1, InsertTupleKeepsMemory DEF Meant
<1> QED
  BY <1>1, <1>2, <1>3, <1>4, StmtTypes, FilesKept DEF Recovering

LEMMA InsertIndexKeepsFiles ==
    ASSUME Base, MemoryHolds, FilesHold, InsertIndex
    PROVE  FilesHold'
<1>1. pc = "index" /\ pc' = "catalog" /\ stmt' = stmt /\ UNCHANGED <<fileVars, logVars, allowed>>
  BY DEF InsertIndex
<1>2. \A j \in Keys : Meant(j)' = Meant(j)
  BY <1>1, InsertIndexKeepsMemory DEF Meant
<1> QED
  BY <1>1, <1>2, FilesKept DEF Recovering

LEMMA BeginDeleteKeepsFiles ==
    ASSUME Base, FilesHold, NEW ks \in SUBSET Keys, BeginDelete(ks)
    PROVE  FilesHold'
<1>1. /\ pc = "idle" /\ pc' = "delete"
      /\ UNCHANGED <<fileVars, logVars, allowed, heap, index>>
  BY DEF BeginDelete
<1>2. stmt = NoStmt
  BY <1>1 DEF Base, StepsSound
<1>3. \A j \in Keys : Meant(j)' = Meant(j)
  BY <1>1 DEF Meant, MemoryRow
<1> QED
  BY <1>1, <1>2, <1>3, StmtTypes, FilesKept DEF Recovering

(* Steps of statements that change nothing here.                           *)
LEMMA StatementKeepsFiles ==
    ASSUME Base, FilesHold, InsertRoot \/ InsertCount \/ DeleteCount \/ BeginCheckpoint
    PROVE  FilesHold'
<1>1. /\ pc \in {"catalog", "delete", "idle"} /\ pc' \in {"catalog", "commit", "checkpoint"}
      /\ UNCHANGED <<fileVars, logVars, allowed, heap, index>>
      /\ stmt' = stmt \/ (pc = "idle" /\ stmt' = NoStmt)
  BY DEF InsertRoot, InsertCount, DeleteCount, BeginCheckpoint
<1>2. stmt' = stmt
  BY <1>1 DEF Base, StepsSound
<1>3. \A j \in Keys : Meant(j)' = Meant(j)
  BY <1>1 DEF Meant, MemoryRow
<1> QED
  BY <1>1, <1>2, <1>3, FilesKept DEF Recovering

(* One record more: what the log makes of the row of its key is what the   *)
(* statement means to store.                                               *)
LEMMA InsertLogKeepsFiles ==
    ASSUME Base, MemoryHolds, FilesHold, InsertLog
    PROVE  FilesHold'
<1> DEFINE d == KeyOf(stmt)
           r == [op |-> "insert", key |-> d, row |-> stmt.row]
           g == Append(Log, r)
           l == Len(Log)
<1>1. /\ pc = "log" /\ pc' = "index" /\ stmt' = stmt
      /\ log_buffer' = Append(log_buffer, r)
      /\ UNCHANGED <<fileVars, log_file, torn, allowed, heap, index>>
  BY DEF InsertLog
<1>2. stmt.op = "insert" /\ TypeOK /\ TypeOK'
  BY <1>1, InsertLogKeepsBase DEF Base, StepsSound
<1>3. d \in Keys /\ stmt.keys = {d} /\ stmt.row \in allowed[d] /\ stmt.row \in 1 .. MaxRows
  BY <1>2, InsertedKey
<1>4. r \in Record
  BY <1>3 DEF Record
<1>5. ~Recovering /\ ~Recovering'
  BY <1>1 DEF Recovering
<1>6. /\ Log \in Seq(Record) /\ l \in Nat /\ Len(log_file) \in Nat /\ Len(log_file) <= l
      /\ torn => Log = log_file
      /\ ~torn => Log = log_file \o log_buffer
  BY <1>2, LogIs
<1>7. /\ torn => Log' = log_file
      /\ ~torn => Log' = log_file \o Append(log_buffer, r)
  <2>1. log_buffer' \in Seq(Record) /\ torn \in BOOLEAN
    BY <1>2 DEF TypeOK
  <2>2. SubSeq(log_buffer', 1, Len(log_buffer')) = log_buffer'
    BY <2>1, WholeLog
  <2> QED BY <1>1, <2>1, <2>2 DEF Log, Written
<1>8. \A k \in Keys : FileRow(k)' = FileRow(k)
  BY <1>1 DEF FileRow
<1>9. RecoverySound'
  BY <1>1 DEF RecoverySound
<1>10. CASE torn
  <2>1. Log' = Log
    BY <1>6, <1>7, <1>10
  <2>2. CrashesAllowed'
    BY <1>1, <1>8, <2>1 DEF CrashesAllowed, FilesHold
  <2>3. LogMakesMemory'
    BY <1>1, <1>2, <1>10 DEF LogMakesMemory
  <2> QED BY <1>1, <1>9, <2>2, <2>3 DEF FilesHold
<1>11. CASE ~torn
  <2>1. Log' = g
    <3>1. log_file \in Seq(Record) /\ log_buffer \in Seq(Record)
      BY <1>2 DEF TypeOK
    <3> HIDE DEF r
    <3>2. log_file \o Append(log_buffer, r) = Append(log_file \o log_buffer, r)
      BY <1>4, <3>1
    <3> QED BY <1>6, <1>7, <1>11, <3>2
  <2>2. Len(g) = l + 1
    <3> HIDE DEF r
    <3> QED BY <1>4, <1>6, AppendEntries
  <2>3. ASSUME NEW k \in Keys
        PROVE  /\ \A n \in 0 .. l :
                     Replayed(FileRow(k), g, k)[n] = Replayed(FileRow(k), Log, k)[n]
               /\ Replayed(FileRow(k), g, k)[l + 1] =
                     After(Replayed(FileRow(k), Log, k)[l], r, k)
    <3> DEFINE x == FileRow(k)
               log == Log
    <3>1. log \in Seq(Record)
      BY <1>6
    <3> HIDE DEF x, r, log
    <3>2. /\ \A n \in 0 .. Len(log) : Replayed(x, Append(log, r), k)[n] = Replayed(x, log, k)[n]
          /\ Replayed(x, Append(log, r), k)[Len(log) + 1] = After(Replayed(x, log, k)[Len(log)], r, k)
      BY <1>4, <3>1, ReplayedAppend
    <3> QED BY <3>2 DEF x, log
  <2>4. \A k \in Keys : Replayed(FileRow(k), Log, k)[l] = MemoryRow(k)
    BY <1>1, <1>5, <1>11 DEF FilesHold, LogMakesMemory, Meant
  <2>5. MemoryRow(d) = 0
    BY <1>1, <1>3 DEF MemoryHolds, StatementSound, Inserting, Found, MemoryRow, RowIn, HasKey
  <2> HIDE DEF g, d, l
  <2>6. \A k \in Keys : Replayed(FileRow(k), g, k)[l + 1] = IF k = d THEN stmt.row ELSE MemoryRow(k)
    BY <2>3, <2>4, <2>5 DEF After
  <2>7. \A k \in Keys : Meant(k)' = IF k = d THEN stmt.row ELSE MemoryRow(k)
    BY <1>1, <1>3 DEF Meant, MemoryRow
  <2>8. LogMakesMemory'
    BY <1>8, <2>1, <2>2, <2>6, <2>7 DEF LogMakesMemory
  <2>9. ASSUME NEW k \in Keys, NEW n \in Len(log_file) .. l + 1
        PROVE  Replayed(FileRow(k), g, k)[n] \in allowed[k]
    <3>1. CASE n = l + 1
      <4>1. MemoryRow(k) \in allowed[k]
        BY <1>5 DEF MemoryHolds
      <4> QED BY <1>3, <2>6, <3>1, <4>1
    <3>2. CASE n # l + 1
      <4>1. n \in Len(log_file) .. l /\ n \in 0 .. l
        BY <1>6, <3>2 DEF l
      <4>2. Replayed(FileRow(k), Log, k)[n] \in allowed[k]
        BY <4>1 DEF FilesHold, CrashesAllowed, l
      <4> QED BY <2>3, <4>1, <4>2
    <3> QED BY <3>1, <3>2
  <2>10. CrashesAllowed'
    BY <1>1, <1>8, <2>1, <2>2, <2>9 DEF CrashesAllowed
  <2> QED BY <1>1, <1>9, <2>8, <2>10 DEF FilesHold
<1> QED
  BY <1>10, <1>11, <1>2 DEF TypeOK

(* Deletions at the end of the log: a row that they make 0 was allowed to  *)
(* go when it was marked.                                                  *)
LEMMA DeleteOnPageKeepsFiles ==
    ASSUME Base, MemoryHolds, FilesHold, DeleteOnPage
    PROVE  FilesHold'
<1> DEFINE found == Victims(at, stmt.keys)
           hit == KeysOf(found)
           u == DeletionsOf(found)
           l == Len(Log)
<1>1. DeletesFrom(at, found) /\ TypeOK /\ TypeOK'
  BY DeleteOnPageIs, DeleteOnPageKeepsBase DEF Base
<1>2. /\ pc = "delete" /\ pc' = "delete" /\ at \in Pages
      /\ log_buffer' = log_buffer \o u
      /\ allowed' = [k \in Keys |-> IF k \in hit THEN allowed[k] \union {0} ELSE allowed[k]]
      /\ UNCHANGED <<fileVars, log_file, torn>>
  BY <1>1 DEF DeletesFrom
<1>3. found \in Seq(Slot)
  BY <1>1, <1>2, VictimsAre
<1>4. \A k \in Keys : MemoryRow(k)' = IF k \in hit THEN 0 ELSE MemoryRow(k)
  BY DeleteOnPageKeepsMemory
<1>5. stmt'.op = "delete"
  BY <1>2, DeleteOnPageKeepsBase DEF Base, StepsSound
<1> HIDE DEF found
<1>6. /\ u \in Seq(Record) /\ Len(u) = Len(found) /\ Len(u) \in Nat
      /\ \A i \in 1 .. Len(u) : u[i].op = "delete"
      /\ \A k : k \in hit <=> \E i \in 1 .. Len(u) : u[i].key = k
  <2>1. /\ u \in Seq(Record) /\ Len(u) = Len(found)
        /\ \A i \in 1 .. Len(found) : u[i].op = "delete" /\ u[i].key = found[i].key
        /\ \A k : k \in hit <=> \E i \in 1 .. Len(found) : found[i].key = k
    BY <1>3, DeletionsAre
  <2> HIDE DEF u, hit
  <2> QED BY <2>1
<1> HIDE DEF u, hit
<1>7. /\ Log \in Seq(Record) /\ l \in Nat /\ Len(log_file) \in Nat /\ Len(log_file) <= l
      /\ torn => Log = log_file
      /\ ~torn => Log = log_file \o log_buffer
  BY <1>1, LogIs
<1>8. IF torn THEN Log' = log_file ELSE Log' = log_file \o (log_buffer \o u)
  <2>1. log_buffer' \in Seq(Record) /\ torn \in BOOLEAN
    BY <1>1 DEF TypeOK
  <2>2. SubSeq(log_buffer', 1, Len(log_buffer')) = log_buffer'
    BY <2>1, WholeLog
  <2> QED BY <1>2, <2>1, <2>2 DEF Log, Written
<1>9. \A k \in Keys : FileRow(k)' = FileRow(k)
  BY <1>2 DEF FileRow
<1>10. RecoverySound'
  BY <1>2 DEF RecoverySound
<1>11. \A k \in Keys : allowed[k] \subseteq allowed'[k] /\ (k \in hit => 0 \in allowed'[k])
  BY <1>2
<1>12. ~Recovering /\ ~Recovering'
  BY <1>2 DEF Recovering
<1>13. CASE torn
  <2>1. Log' = Log
    BY <1>7, <1>8, <1>13
  <2>2. CrashesAllowed'
    BY <1>2, <1>9, <1>11, <2>1 DEF CrashesAllowed, FilesHold
  <2>3. LogMakesMemory'
    BY <1>2, <1>5, <1>13 DEF LogMakesMemory
  <2> QED BY <1>2, <1>10, <2>2, <2>3 DEF FilesHold
<1>14. CASE ~torn
  <2> DEFINE g == Log \o u
  <2>1. Log' = g
    <3>1. log_file \in Seq(Record) /\ log_buffer \in Seq(Record)
      BY <1>1 DEF TypeOK
    <3>2. (log_file \o log_buffer) \o u = log_file \o (log_buffer \o u)
      BY <1>6, <3>1
    <3> QED BY <1>7, <1>8, <1>14, <3>2
  <2>2. Len(g) = l + Len(u)
    <3>1. u \in Seq(Record)
      BY <1>6
    <3>2. Log \in Seq(Record)
      BY <1>7
    <3> QED BY <3>1, <3>2, ConcatEntries
  <2>3. ASSUME NEW k \in Keys
        PROVE  /\ \A n \in 0 .. l :
                     Replayed(FileRow(k), g, k)[n] = Replayed(FileRow(k), Log, k)[n]
               /\ \A n \in l .. l + Len(u) :
                     \/ Replayed(FileRow(k), g, k)[n] = Replayed(FileRow(k), Log, k)[l]
                     \/ Replayed(FileRow(k), g, k)[n] = 0 /\ k \in hit
               /\ k \in hit => Replayed(FileRow(k), g, k)[l + Len(u)] = 0
    <3> DEFINE x == FileRow(k)
               log == Log
    <3>1. log \in Seq(Record)
      BY <1>7
    <3> HIDE DEF x, log
    <3>2. /\ log \o u \in Seq(Record) /\ Len(log \o u) = Len(log) + Len(u)
          /\ \A i \in 1 .. Len(log) : log[i] = (log \o u)[i]
          /\ Len(log) \in Nat /\ Len(log) <= Len(log \o u)
      <4>1. u \in Seq(Record) /\ Len(u) \in Nat
        BY <1>6
      <4> QED BY <3>1, <4>1, ConcatEntries
    <3>3. \A n \in 0 .. Len(log) : Replayed(x, log, k)[n] = Replayed(x, log \o u, k)[n]
      <4> DEFINE h == log \o u
                 m == Len(log)
      <4>1. h \in Seq(Record) /\ m \in Nat /\ m <= Len(h) /\ \A i \in 1 .. m : log[i] = h[i]
        BY <3>2
      <4>2. m <= Len(log)
        BY <3>2
      <4> HIDE DEF h, m
      <4>3. \A n \in 0 .. m : Replayed(x, log, k)[n] = Replayed(x, h, k)[n]
        BY <3>1, <4>1, <4>2, ReplayedPrefix
      <4> QED BY <4>3 DEF h, m
    <3>4. /\ \A n \in Len(log) .. Len(log \o u) :
                \/ Replayed(x, log \o u, k)[n] = Replayed(x, log, k)[Len(log)]
                \/ Replayed(x, log \o u, k)[n] = 0 /\ \E i \in 1 .. Len(u) : u[i].key = k
          /\ (\E i \in 1 .. Len(u) : u[i].key = k) =>
                Replayed(x, log \o u, k)[Len(log \o u)] = 0
      <4>1. u \in Seq(Record)
        BY <1>6
      <4>2. \A i \in 1 .. Len(u) : u[i].op = "delete"
        BY <1>6
      <4> QED BY <3>1, <4>1, <4>2, ReplayedDeletions
    <3> QED BY <1>6, <3>2, <3>3, <3>4 DEF x, log
  <2>4. \A k \in Keys : Replayed(FileRow(k), Log, k)[l] = MemoryRow(k)
    BY <1>2, <1>12, <1>14 DEF FilesHold, LogMakesMemory, Meant
  <2> HIDE DEF g, l
  <2>5. l + Len(u) \in l .. l + Len(u) /\ l \in Nat
    BY <1>6, <1>7 DEF l
  <2>6. \A k \in Keys : Replayed(FileRow(k), g, k)[l + Len(u)] = IF k \in hit THEN 0 ELSE MemoryRow(k)
    BY <2>3, <2>4, <2>5
  <2>7. LogMakesMemory'
    BY <1>2, <1>4, <1>9, <2>1, <2>2, <2>6 DEF LogMakesMemory, Meant
  <2>8. ASSUME NEW k \in Keys, NEW n \in Len(log_file) .. l + Len(u)
        PROVE  Replayed(FileRow(k), g, k)[n] \in allowed'[k]
    <3>1. CASE n <= l
      <4>1. n \in Len(log_file) .. l /\ n \in 0 .. l
        BY <1>7, <2>5, <3>1
      <4>2. Replayed(FileRow(k), Log, k)[n] \in allowed[k]
        BY <4>1 DEF FilesHold, CrashesAllowed, l
      <4> QED BY <1>11, <2>3, <4>1, <4>2
    <3>2. CASE ~ (n <= l)
      <4>1. n \in l .. l + Len(u)
        BY <1>6, <1>7, <2>5, <3>2
      <4>2. MemoryRow(k) \in allowed[k]
        BY <1>12 DEF MemoryHolds
      <4> QED BY <1>11, <2>3, <2>4, <4>1, <4>2
    <3> QED BY <3>1, <3>2
  <2>9. CrashesAllowed'
    BY <1>2, <1>9, <2>1, <2>2, <2>8 DEF CrashesAllowed
  <2> QED BY <1>2, <1>10, <2>7, <2>9 DEF FilesHold
<1> QED
  BY <1>13, <1>14, <1>1 DEF TypeOK

LEMMA EmptyBuffer ==
    ASSUME log_buffer' = <<>>, log_file' \in Seq(Record)
    PROVE  Log' = log_file'
<1>1. SubSeq(log_buffer', 1, Len(log_buffer')) = <<>>
  OBVIOUS
<1>2. log_file' \o <<>> = log_file'
  OBVIOUS
<1> QED
  BY <1>1, <1>2 DEF Log, Written

(* The log reaches its file, and the statement returns.                    *)
LEMMA CommitKeepsFiles ==
    ASSUME Base, MemoryHolds, FilesHold, Commit, ~at_risk'
    PROVE  FilesHold'
<1>1. /\ pc = "commit" /\ pc' = "idle" /\ stmt' = NoStmt /\ ~torn
      /\ UNCHANGED <<fileVars, heap, index>>
  BY ReturnsAre DEF Commit
<1>2. log_file' = Log /\ log_file' \in Seq(Record) /\ log_buffer' = <<>> /\ torn' = torn
  BY AllForced DEF Base, Commit
<1>3. Log' = Log
  BY <1>2, EmptyBuffer
<1>4. Len(Log) \in Nat
  BY LogIs DEF Base
<1>5. ~Recovering /\ ~Recovering'
  BY <1>1 DEF Recovering
<1>6. MemoryHolds'
  BY ReturnKeepsMemory DEF Commit
<1>7. \A k \in Keys : /\ FileRow(k)' = FileRow(k) /\ MemoryRow(k)' = MemoryRow(k)
                      /\ Meant(k) = MemoryRow(k) /\ Meant(k)' = MemoryRow(k)'
  BY <1>1 DEF FileRow, MemoryRow, Meant
<1>8. \A k \in Keys : Replayed(FileRow(k), Log, k)[Len(Log)] = MemoryRow(k)
  BY <1>1, <1>5, <1>7 DEF FilesHold, LogMakesMemory
<1>9. \A k \in Keys : MemoryRow(k)' \in allowed'[k]
  BY <1>5, <1>6 DEF MemoryHolds
<1>10. LogMakesMemory'
  BY <1>3, <1>7, <1>8 DEF LogMakesMemory
<1>11. CrashesAllowed'
  BY <1>2, <1>3, <1>4, <1>7, <1>8, <1>9 DEF CrashesAllowed
<1>12. RecoverySound'
  BY <1>1 DEF RecoverySound
<1> QED
  BY <1>1, <1>10, <1>11, <1>12 DEF FilesHold

(* The pages reach their files, and the log, which has made of them what   *)
(* they are, changes nothing when it is replayed once more.                *)
LEMMA CheckpointFlushKeepsFiles ==
    ASSUME Base, MemoryHolds, FilesTrusted, FilesHold, CheckpointFlush
    PROVE  FilesHold'
<1>1. /\ pc = "checkpoint" /\ pc' = "truncate" /\ stmt' = NoStmt
      /\ heap_disk' = heap /\ index_disk' = index
      /\ UNCHANGED <<heap, index, allowed>>
  BY DEF CheckpointFlush
<1>2. /\ log_file' = Log /\ log_file' \in Seq(Record) /\ log_buffer' = <<>> /\ torn' = torn
  BY AllForced DEF Base, CheckpointFlush
<1>3. Log' = Log
  BY <1>2, EmptyBuffer
<1>4. stmt = NoStmt
  BY <1>1 DEF Base, StepsSound
<1>5. Log \in Seq(Record) /\ Len(Log) \in Nat
  BY LogIs DEF Base
<1>6. ~Recovering /\ ~Recovering' /\ ~Inserting
  BY <1>1 DEF Recovering, Inserting
<1>7. \A k \in Keys : Replayed(FileRow(k), Log, k)[Len(Log)] = MemoryRow(k)
  BY <1>1, <1>4, <1>6, StmtTypes DEF FilesHold, LogMakesMemory, Meant
<1>8. \A k \in Keys : Replayed(MemoryRow(k), Log, k)[Len(Log)] = MemoryRow(k)
  <2> SUFFICES ASSUME NEW k \in Keys PROVE Replayed(MemoryRow(k), Log, k)[Len(Log)] = MemoryRow(k)
    OBVIOUS
  <2> DEFINE x == FileRow(k)
             log == Log
             y == MemoryRow(k)
  <2>1. log \in Seq(Record) /\ Len(log) \in 0 .. Len(log) /\ Replayed(x, log, k)[Len(log)] = y
    BY <1>5, <1>7
  <2> HIDE DEF x, log, y
  <2>2. Replayed(Replayed(x, log, k)[Len(log)], log, k)[Len(log)] = Replayed(x, log, k)[Len(log)]
    BY <2>1, ReplayedAgain
  <2> QED BY <2>1, <2>2 DEF log, y
<1>9. \A k \in Keys : /\ FileRow(k)' = MemoryRow(k) /\ Meant(k)' = MemoryRow(k)
                      /\ MemoryRow(k) \in allowed'[k]
  BY <1>1, <1>6 DEF FileRow, MemoryRow, Meant, MemoryHolds
<1>10. LogMakesMemory'
  BY <1>3, <1>8, <1>9 DEF LogMakesMemory
<1>11. CrashesAllowed'
  BY <1>2, <1>3, <1>5, <1>8, <1>9 DEF CrashesAllowed
<1>12. RecoverySound'
  BY <1>1 DEF RecoverySound
<1>13. Agree(heap_disk', index_disk', {})
  BY <1>1, <1>6 DEF MemoryHolds
<1> QED
  BY <1>10, <1>11, <1>12, <1>13 DEF FilesHold

(* The pages are in their files, and nothing is to be replayed.            *)
LEMMA CheckpointTruncateKeepsFiles ==
    ASSUME Base, MemoryHolds, Established, ~steal, CheckpointTruncate, ~at_risk'
    PROVE  FilesHold'
<1>1. /\ pc = "truncate" /\ pc' = "idle" /\ stmt' = NoStmt
      /\ log_file' = <<>> /\ log_buffer' = log_buffer
      /\ UNCHANGED <<fileVars, heap, index, allowed>>
  BY DEF CheckpointTruncate
<1>2. Clean /\ log_buffer = <<>>
  BY <1>1 DEF CheckpointTruncate, Base, StepsSound, CalmSound
<1>3. <<>> \in Seq(Record) /\ Len(<<>>) = 0
  OBVIOUS
<1>4. Log' = <<>>
  BY <1>1, <1>2, <1>3, EmptyBuffer
<1>5. ~Recovering /\ ~Recovering' /\ ~Inserting
  BY <1>1 DEF Recovering, Inserting
<1>6. \A k \in Keys : /\ FileRow(k)' = MemoryRow(k) /\ Meant(k)' = MemoryRow(k)
                      /\ MemoryRow(k) \in allowed'[k]
  BY <1>1, <1>2, <1>5 DEF FileRow, MemoryRow, Meant, MemoryHolds, Clean
<1>7. \A k \in Keys : Replayed(MemoryRow(k), <<>>, k)[0] = MemoryRow(k)
  BY ReplayedNothing
<1>8. LogMakesMemory'
  BY <1>3, <1>4, <1>6, <1>7 DEF LogMakesMemory
<1>9. CrashesAllowed'
  BY <1>1, <1>3, <1>4, <1>6, <1>7 DEF CrashesAllowed
<1>10. RecoverySound'
  BY <1>1 DEF RecoverySound
<1>11. Agree(heap_disk', index_disk', {})
  BY <1>1, <1>2, <1>5 DEF MemoryHolds, Clean
<1> QED
  BY <1>8, <1>9, <1>10, <1>11 DEF FilesHold

(* The first entries of a sequence behind another one.                     *)
LEMMA CutOff ==
    ASSUME NEW f \in Seq(Record), NEW b \in Seq(Record), NEW n \in 0 .. Len(b)
    PROVE  /\ f \o SubSeq(b, 1, n) \in Seq(Record)
           /\ Len(f \o SubSeq(b, 1, n)) \in Nat
           /\ Len(f \o SubSeq(b, 1, n)) >= Len(f)
           /\ Len(f \o SubSeq(b, 1, n)) <= Len(f \o b)
           /\ \A i \in 1 .. Len(f \o SubSeq(b, 1, n)) : (f \o SubSeq(b, 1, n))[i] = (f \o b)[i]
<1> DEFINE s == SubSeq(b, 1, n)
           g == f \o s
           h == f \o b
<1>1. s \in Seq(Record) /\ Len(s) = n /\ Len(b) \in Nat
  OBVIOUS
<1>2. \A i \in 1 .. n : s[i] = b[i]
  OBVIOUS
<1> HIDE DEF s
<1>3. s \in Seq(Record)
  BY <1>1
<1>4. /\ g \in Seq(Record) /\ Len(g) = Len(f) + n /\ Len(f) \in Nat
      /\ \A i \in 1 .. Len(f) : g[i] = f[i]
      /\ \A i \in 1 .. n : g[Len(f) + i] = s[i]
  <2>1. /\ g \in Seq(Record) /\ Len(g) = Len(f) + Len(s) /\ Len(f) \in Nat
        /\ \A i \in 1 .. Len(f) : g[i] = f[i]
        /\ \A i \in 1 .. Len(s) : g[Len(f) + i] = s[i]
    BY <1>3, ConcatEntries
  <2> QED BY <2>1, <1>1
<1>5. /\ Len(h) = Len(f) + Len(b)
      /\ \A i \in 1 .. Len(f) : h[i] = f[i]
      /\ \A i \in 1 .. Len(b) : h[Len(f) + i] = b[i]
  BY ConcatEntries
<1> HIDE DEF g, h
<1>6. ASSUME NEW i \in 1 .. Len(g) PROVE g[i] = h[i]
  <2>1. CASE i <= Len(f)
    <3>1. i \in 1 .. Len(f)
      BY <1>4, <2>1
    <3> QED BY <1>4, <1>5, <3>1
  <2>2. CASE ~ (i <= Len(f))
    <3> DEFINE j == i - Len(f)
    <3>1. j \in 1 .. n /\ Len(f) + j = i /\ j \in 1 .. Len(b)
      BY <1>1, <1>4, <2>2
    <3> HIDE DEF j
    <3>2. g[i] = s[j] /\ h[i] = b[j] /\ s[j] = b[j]
      BY <1>2, <1>4, <1>5, <3>1
    <3> QED BY <3>2
  <2> QED BY <2>1, <2>2
<1> QED
  BY <1>1, <1>4, <1>5, <1>6 DEF g, h, s

(* After a crash there is in memory what is in the files, and the log file *)
(* ends somewhere in what the log was.                                     *)
LEMMA LogCutOff ==
    ASSUME TypeOK, Crash
    PROVE  /\ log_file' \in Seq(Record) /\ Len(log_file') \in Nat
           /\ Len(log_file') >= Len(log_file) /\ Len(log_file') <= Len(Log)
           /\ \A i \in 1 .. Len(log_file') : log_file'[i] = Log[i]
<1>1. /\ Log \in Seq(Record) /\ Len(Log) \in Nat
      /\ log_file \in Seq(Record) /\ Len(log_file) \in Nat
      /\ Len(log_file) <= Len(Log)
      /\ \A i \in 1 .. Len(log_file) : Log[i] = log_file[i]
      /\ torn => Log = log_file
      /\ ~torn => Log = log_file \o log_buffer
  BY LogIs
<1>2. CASE log_file' = log_file
  BY <1>1, <1>2
<1>3. CASE PartlyForced
  <2>1. PICK n \in 0 .. Len(log_buffer) : log_file' = Written(n)
    BY <1>3 DEF PartlyForced
  <2>2. CASE torn
    <3>1. log_file' = log_file
      BY <2>1, <2>2 DEF Written
    <3> QED BY <1>1, <3>1
  <2>3. CASE ~torn
    <3>1. log_buffer \in Seq(Record) /\ log_file \in Seq(Record)
      BY <1>1 DEF TypeOK
    <3>2. log_file' = log_file \o SubSeq(log_buffer, 1, n) /\ Log = log_file \o log_buffer
      BY <1>1, <2>1, <2>3 DEF Written
    <3> QED BY <3>1, <3>2, CutOff
  <2> QED BY <2>2, <2>3 DEF TypeOK
<1> QED
  BY <1>2, <1>3 DEF Crash

LEMMA CrashKeepsAll ==
    ASSUME Base, FilesTrusted, FilesHold, Crash
    PROVE  MemoryHolds' /\ FilesHold'
<1>1. /\ pc' = "rebuild" /\ at' = 1 /\ stmt' = NoStmt
      /\ heap' = heap_disk /\ heap_pages' = heap_len /\ index' = index_disk
      /\ log_buffer' = <<>> /\ log_file' \in Seq(Record)
      /\ UNCHANGED <<fileVars, catalogVars, allowed>>
  BY CrashIs
<1>2. ~Inserting' /\ Recovering'
  BY <1>1 DEF Inserting, Recovering
<1>3. MemoryHolds'
  <2>1. Agree(heap', index', {})
    BY <1>1 DEF FilesHold
  <2>2. StatementSound'
    BY <1>1, <1>2, StmtTypes DEF StatementSound
  <2>3. ~Corrupted' /\ pc' # "panicked"
    BY <1>1 DEF FilesTrusted, Base, CalmSound, Corrupted
  <2> QED BY <1>2, <2>1, <2>2, <2>3 DEF MemoryHolds
<1>4. Log' = log_file'
  BY <1>1, EmptyBuffer
<1>5. /\ Len(log_file') \in Nat /\ Len(log_file') >= Len(log_file) /\ Len(log_file') <= Len(Log)
      /\ \A i \in 1 .. Len(log_file') : log_file'[i] = Log[i]
  BY LogCutOff DEF Base
<1>6. \A k \in Keys : FileRow(k)' = FileRow(k)
  BY <1>1 DEF FileRow
<1>7. Log \in Seq(Record) /\ Len(Log) \in Nat /\ Len(log_file) \in Nat
  BY LogIs DEF Base
<1>8. \A k \in Keys : Replayed(FileRow(k), log_file', k)[Len(log_file')] \in allowed[k]
  <2> SUFFICES ASSUME NEW k \in Keys
               PROVE  Replayed(FileRow(k), log_file', k)[Len(log_file')] \in allowed[k]
    OBVIOUS
  <2>1. PICK f \in Seq(Record) : f = log_file'
    BY <1>1
  <2> DEFINE l == Len(f)
             x == FileRow(k)
             g == Log
  <2>2. /\ g \in Seq(Record) /\ l \in Nat /\ l <= Len(f) /\ l <= Len(g)
        /\ \A i \in 1 .. l : f[i] = g[i]
    BY <1>5, <1>7, <2>1
  <2>3. Replayed(x, g, k)[l] \in allowed[k]
    <3>1. l \in Len(log_file) .. Len(Log)
      BY <1>5, <1>7, <2>1
    <3> QED BY <3>1 DEF FilesHold, CrashesAllowed
  <2> HIDE DEF l, x, g
  <2>4. \A n \in 0 .. l : Replayed(x, f, k)[n] = Replayed(x, g, k)[n]
    BY <2>2, ReplayedPrefix
  <2>5. Replayed(x, f, k)[l] = Replayed(x, g, k)[l]
    BY <2>2, <2>4
  <2> QED BY <2>1, <2>3, <2>5 DEF l, x
<1>9. CrashesAllowed'
  BY <1>1, <1>4, <1>5, <1>6, <1>8 DEF CrashesAllowed
<1>10. LogMakesMemory' /\ RecoverySound'
  BY <1>1, <1>2 DEF LogMakesMemory, RecoverySound, Clean
<1>11. Agree(heap_disk', index_disk', {})
  BY <1>1 DEF FilesHold
<1> QED
  BY <1>3, <1>9, <1>10, <1>11 DEF FilesHold

(* Steps of the recovery: the records up to here have been replayed.       *)
LEMMA RecoveryKeepsFiles ==
    ASSUME Base, FilesHold, UNCHANGED <<fileVars, logVars, allowed>>,
           pc' = "replay", at' \in 1 .. Len(log_file) + 1,
           \A k \in Keys : MemoryRow(k)' = Replayed(FileRow(k), log_file, k)[at' - 1]
    PROVE  FilesHold'
<1>1. Log' = Log
  BY DEF Log, Written
<1>2. \A k \in Keys : FileRow(k)' = FileRow(k)
  BY DEF FileRow
<1>3. CrashesAllowed'
  BY <1>1, <1>2 DEF CrashesAllowed, FilesHold
<1>4. LogMakesMemory'
  BY DEF LogMakesMemory, Recovering
<1>5. RecoverySound'
  BY <1>2 DEF RecoverySound
<1> QED
  BY <1>3, <1>4, <1>5 DEF FilesHold

LEMMA RebuildKeepsFiles ==
    ASSUME Base, MemoryHolds, FilesHold, Rebuild
    PROVE  FilesHold'
<1>1. /\ pc = "rebuild" /\ pc' = "replay" /\ at' = at
      /\ UNCHANGED <<heap, fileVars, logVars, allowed>>
  BY DEF Rebuild
<1>2. index' = index
  BY RebuildKeepsMemory
<1>3. at = 1 /\ Clean
  BY <1>1 DEF FilesHold, RecoverySound
<1>4. log_file \in Seq(Record) /\ Len(log_file) \in Nat
  BY DEF Base, TypeOK
<1>5. \A k \in Keys : MemoryRow(k)' = FileRow(k)
  BY <1>1, <1>2, <1>3 DEF MemoryRow, FileRow, Clean
<1>6. \A k \in Keys : Replayed(FileRow(k), log_file, k)[0] = FileRow(k)
  BY <1>4, ReplayedSteps
<1>7. at' \in 1 .. Len(log_file) + 1 /\ at' - 1 = 0
  BY <1>1, <1>3, <1>4
<1>8. \A k \in Keys : MemoryRow(k)' = Replayed(FileRow(k), log_file, k)[at' - 1]
  BY <1>5, <1>6, <1>7
<1> QED
  BY <1>1, <1>7, <1>8, RecoveryKeepsFiles

LEMMA ReplayKeepsFiles ==
    ASSUME Base, MemoryHolds, FilesHold, ReplayInsert \/ ReplayDelete
    PROVE  FilesHold'
<1>1. /\ pc = "replay" /\ pc' = "replay" /\ at <= Len(log_file) /\ at' = at + 1
      /\ UNCHANGED <<fileVars, logVars, allowed>>
  BY DEF ReplayInsert, ReplayDelete, Replaying
<1>2. \A k \in Keys : MemoryRow(k)' = After(MemoryRow(k), log_file[at], k)
  BY ReplayInsertKeepsMemory, ReplayDeleteKeepsMemory
<1>3. log_file \in Seq(Record) /\ Len(log_file) \in Nat /\ at \in 1 .. Len(log_file)
  BY <1>1, RecordAt DEF Base, TypeOK
<1>4. \A k \in Keys : MemoryRow(k) = Replayed(FileRow(k), log_file, k)[at - 1]
  BY <1>1 DEF FilesHold, RecoverySound
<1>5. \A k \in Keys : Replayed(FileRow(k), log_file, k)[at] =
                         After(Replayed(FileRow(k), log_file, k)[at - 1], log_file[at], k)
  BY <1>3, ReplayedSteps
<1>6. at' \in 1 .. Len(log_file) + 1 /\ at' - 1 = at
  BY <1>1, <1>3
<1>7. \A k \in Keys : MemoryRow(k)' = Replayed(FileRow(k), log_file, k)[at' - 1]
  BY <1>2, <1>4, <1>5, <1>6
<1> QED
  BY <1>1, <1>6, <1>7, RecoveryKeepsFiles

(* All records have been replayed.                                         *)
LEMMA RecoveryEndsKeepsAll ==
    ASSUME Base, MemoryHolds, FilesTrusted, FilesHold, RecoveryEnds
    PROVE  MemoryHolds' /\ FilesHold'
<1>1. /\ pc = "replay" /\ pc' = "idle" /\ stmt' = NoStmt /\ at = Len(log_file) + 1
      /\ UNCHANGED <<heap, index, root_page_num, fileVars, logVars, allowed>>
  BY DEF RecoveryEnds
<1>2. log_file \in Seq(Record) /\ Len(log_file) \in Nat /\ TypeOK
  BY DEF Base, TypeOK
<1>3. Log = log_file
  BY <1>1, NothingBuffered
<1>4. Log' = Log
  BY <1>1 DEF Log, Written
<1>5. at - 1 = Len(log_file)
  BY <1>1, <1>2
<1>6. \A k \in Keys : MemoryRow(k) = Replayed(FileRow(k), log_file, k)[Len(log_file)]
  BY <1>1, <1>5 DEF FilesHold, RecoverySound
<1>7. \A k \in Keys : MemoryRow(k) \in allowed[k]
  BY <1>2, <1>3, <1>6 DEF FilesHold, CrashesAllowed
<1>8. ~Inserting /\ ~Inserting' /\ ~Recovering'
  BY <1>1 DEF Inserting, Recovering
<1>9. \A k \in Keys : /\ FileRow(k)' = FileRow(k) /\ MemoryRow(k)' = MemoryRow(k)
                      /\ Meant(k)' = MemoryRow(k)
  BY <1>1 DEF FileRow, MemoryRow, Meant
<1>10. MemoryHolds'
  <2>1. StatementSound'
    BY <1>1, <1>8, StmtTypes DEF StatementSound
  <2>2. Agree(heap, index, IF Inserting THEN {stmt.ctid} ELSE {})'
    BY <1>1, <1>8 DEF MemoryHolds
  <2>3. ~Corrupted' /\ pc' # "panicked"
    BY <1>1 DEF MemoryHolds, Corrupted
  <2> QED BY <1>1, <1>7, <1>9, <2>1, <2>2, <2>3 DEF MemoryHolds
<1>11. LogMakesMemory'
  BY <1>3, <1>4, <1>6, <1>9 DEF LogMakesMemory
<1>12. CrashesAllowed'
  BY <1>1, <1>4, <1>9 DEF CrashesAllowed, FilesHold
<1>13. RecoverySound'
  BY <1>1 DEF RecoverySound
<1>14. Agree(heap_disk', index_disk', {})
  BY <1>1 DEF FilesHold
<1> QED
  BY <1>10, <1>11, <1>12, <1>13, <1>14 DEF FilesHold

-----------------------------------------------------------------------------
(* The number of records *)

LEMMA LiveTuplesFinite ==
    /\ LiveTuples = { c \in CTID : LiveIn(heap, c) }
    /\ IsFiniteSet(LiveTuples) /\ Cardinality(LiveTuples) \in Nat
<1>1. LiveTuples = { c \in CTID : LiveIn(heap, c) }
  BY DEF LiveTuples, LiveAt, LiveIn
<1>2. IsFiniteSet(0 .. MaxHeap - 1) /\ IsFiniteSet(1 .. PageSlots)
  BY FS_Interval
<1>3. IsFiniteSet(CTID)
  BY <1>2, FS_Product DEF CTID, Pages
<1>4. IsFiniteSet(LiveTuples)
  BY <1>1, <1>3, FS_Subset
<1> QED
  BY <1>1, <1>4, FS_CardinalityType

LEMMA InsertTupleKeepsCount ==
    ASSUME Base, CountSound, NEW k \in Keys, InsertTuple(k)
    PROVE  CountSound'
<1>1. /\ pc = "idle" /\ pc' = "log" /\ rows + 1 \in 1 .. MaxRows /\ WriteTuple(k, rows + 1)
      /\ UNCHANGED <<num_records, crashes>>
  BY DEF InsertTuple, Base, StepsSound
<1>2. /\ NextCTID \in CTID
      /\ ~LiveIn(heap, NextCTID) /\ LiveIn(heap', NextCTID)
      /\ \A c \in CTID \ {NextCTID} : LiveIn(heap', c) <=> LiveIn(heap, c)
  BY <1>1, TupleWritten
<1> DEFINE new == NextCTID
           live == LiveTuples
           next == { c \in CTID : LiveIn(heap', c) }
<1>3. live = { c \in CTID : LiveIn(heap, c) } /\ IsFiniteSet(live) /\ Cardinality(live) \in Nat
  BY LiveTuplesFinite
<1>4. LiveTuples' = next
  BY DEF LiveTuples, LiveAt, LiveIn
<1>5. next = live \union {new} /\ new \notin live
  BY <1>2, <1>3
<1> HIDE DEF new, live, next
<1>6. Cardinality(next) = Cardinality(live) + 1
  BY <1>3, <1>5, FS_AddElement
<1>7. crashes = 0 => num_records = Cardinality(live)
  BY <1>1, <1>3 DEF CountSound, live, Base, TypeOK
<1> QED
  BY <1>1, <1>3, <1>4, <1>6, <1>7 DEF CountSound, Base, TypeOK

(* As many live tuples fewer as were found.                                *)
LEMMA DeleteOnPageKeepsCount ==
    ASSUME Base, CountSound, DeleteOnPage
    PROVE  CountSound'
<1> DEFINE ks == stmt.keys
           found == Victims(at, ks)
           l == Len(found)
           live == LiveTuples
           next == { c \in CTID : LiveIn(heap', c) }
           gone == { c \in CTID : c[1] = at /\ LiveIn(heap, c) /\ TupleIn(heap, c).key \in ks }
<1>1. DeletesFrom(at, found)
  BY DeleteOnPageIs
<1>2. /\ pc = "delete" /\ pc' = "delete" /\ at \in Pages
      /\ stmt' = [stmt EXCEPT !.row = stmt.row + l]
      /\ heap' = MarkedOn(heap, at, ks)
      /\ UNCHANGED <<num_records, crashes>>
  BY <1>1 DEF DeletesFrom, MarkedOn
<1>3. /\ l \in Nat
      /\ \E place \in [1 .. l -> 1 .. PageSlots] :
            /\ \A i \in 1 .. l : /\ LiveIn(heap, <<at, place[i]>>)
                                 /\ TupleIn(heap, <<at, place[i]>>) = found[i]
                                 /\ found[i].key \in ks
            /\ \A c \in CTID : c[1] = at /\ LiveIn(heap, c) /\ TupleIn(heap, c).key \in ks
                  => \E i \in 1 .. l : place[i] = c[2]
            /\ \A i, j \in 1 .. l : place[i] = place[j] => i = j
  <2>1. TypeOK /\ at \in Pages
    BY <1>2 DEF Base
  <2> QED BY <2>1, VictimsAre, ZenonT(60)
<1>4. live = { c \in CTID : LiveIn(heap, c) } /\ IsFiniteSet(live) /\ Cardinality(live) \in Nat
  BY LiveTuplesFinite
<1>5. LiveTuples' = next
  BY DEF LiveTuples, LiveAt, LiveIn
<1>6. \A c \in CTID : LiveIn(heap', c) <=>
         LiveIn(heap, c) /\ ~ (c[1] = at /\ TupleIn(heap, c).key \in ks)
  <2>1. heap \in [Pages -> Seq(Slot)] /\ (\A q \in Pages : Len(heap[q]) <= PageSlots) /\ at \in Pages
    BY <1>2 DEF Base, TypeOK
  <2> QED BY <2>1, <1>2, TuplesMarked
<1>7. next = live \ gone /\ live \cap gone = gone
  BY <1>4, <1>6
<1>8. IsFiniteSet(gone) /\ Cardinality(gone) = l
  <2>1. PICK place \in [1 .. l -> 1 .. PageSlots] :
            /\ \A i \in 1 .. l : /\ LiveIn(heap, <<at, place[i]>>)
                                 /\ TupleIn(heap, <<at, place[i]>>) = found[i]
                                 /\ found[i].key \in ks
            /\ \A c \in CTID : c[1] = at /\ LiveIn(heap, c) /\ TupleIn(heap, c).key \in ks
                  => \E i \in 1 .. l : place[i] = c[2]
            /\ \A i, j \in 1 .. l : place[i] = place[j] => i = j
    BY <1>3
  <2> DEFINE f == [i \in 1 .. l |-> <<at, place[i]>>]
  <2>2. \A i \in 1 .. l : f[i] \in gone
    BY <1>2, <2>1, CTIDsAre
  <2>3. \A c \in gone : \E i \in 1 .. l : f[i] = c
    BY <2>1, CTIDsAre
  <2>4. \A i, j \in 1 .. l : f[i] = f[j] => i = j
    BY <2>1
  <2>5. f \in [1 .. l -> gone]
    BY <2>2
  <2> HIDE DEF f, gone
  <2>6. f \in Bijection(1 .. l, gone)
    BY <2>3, <2>4, <2>5 DEF Bijection, Injection, Surjection, IsInjective
  <2>7. ExistsBijection(1 .. l, gone)
    BY <2>6 DEF ExistsBijection
  <2>8. IsFiniteSet(1 .. l) /\ Cardinality(1 .. l) = l
    <3> HIDE DEF l
    <3> QED BY <1>3, FS_Interval
  <2> QED BY <2>7, <2>8, FS_Bijection
<1> HIDE DEF l, live, next, gone
<1>9. Cardinality(next) = Cardinality(live) - l
  <2>1. Cardinality(live \ gone) = Cardinality(live) - Cardinality(live \cap gone)
    BY <1>4, FS_Difference
  <2> QED BY <2>1, <1>7, <1>8
<1>10. stmt.row \in Nat /\ stmt'.row = stmt.row + l
  <2>1. stmt \in [op : {"none", "insert", "delete"}, keys : SUBSET Keys,
                  row : Nat, ctid : CTID \union {NoCTID}]
    BY DEF Base, TypeOK
  <2> QED BY <2>1, <1>2
<1>11. crashes = 0 => num_records = Cardinality(live) + stmt.row
  BY <1>2, <1>4 DEF CountSound, live, Base, TypeOK
<1> QED
  BY <1>2, <1>3, <1>4, <1>5, <1>9, <1>10, <1>11 DEF CountSound, Base, TypeOK

(* The other steps leave the tuples alone, and count what they must.       *)
LEMMA CountKept ==
    ASSUME Base, CountSound, UNCHANGED <<heap, crashes>>,
           \/ UNCHANGED num_records /\ pc' \in {"log", "index", "catalog"}
                                    /\ pc \in {"log", "index", "catalog"}
           \/ /\ UNCHANGED num_records
              /\ pc \notin {"log", "index", "catalog", "delete"}
              /\ pc' \notin {"log", "index", "catalog", "delete"}
           \/ UNCHANGED <<num_records, pc, stmt>>
    PROVE  CountSound'
<1>1. LiveTuples' = LiveTuples
  BY DEF LiveTuples, LiveAt
<1> QED
  BY <1>1 DEF CountSound

LEMMA StatementKeepsCount ==
    ASSUME Base, CountSound,
           InsertCount \/ DeleteCount \/ \E ks \in SUBSET Keys : BeginDelete(ks)
    PROVE  CountSound'
<1>1. LiveTuples' = LiveTuples /\ crashes' = crashes
  BY DEF InsertCount, DeleteCount, BeginDelete, LiveTuples, LiveAt
<1>2. num_records \in Nat /\ Cardinality(LiveTuples) \in Nat
  BY LiveTuplesFinite DEF Base, TypeOK
<1>3. CASE InsertCount
  BY <1>1, <1>2, <1>3 DEF InsertCount, CountSound
<1>4. CASE DeleteCount
  <2>1. stmt.row \in Nat
    BY DEF Base, TypeOK
  <2>2. pc = "delete" /\ pc' = "commit" /\ num_records' = Minus(num_records, stmt.row)
    BY <1>4 DEF DeleteCount
  <2> QED BY <1>1, <1>2, <2>1, <2>2 DEF CountSound, Minus
<1>5. CASE \E ks \in SUBSET Keys : BeginDelete(ks)
  <2>1. /\ pc = "idle" /\ pc' = "delete" /\ num_records' = num_records
        /\ stmt'.row = 0
    BY <1>5 DEF BeginDelete, NoStmt
  <2> QED BY <1>1, <1>2, <2>1 DEF CountSound
<1> QED
  BY <1>3, <1>4, <1>5

-----------------------------------------------------------------------------
(* The invariant *)

LEMMA InitSound == Init => EngineSound
<1> SUFFICES ASSUME Init PROVE EngineSound
  OBVIOUS
<1>1. Base
  BY InitBase
<1>2. /\ heap = [p \in Pages |-> <<>>] /\ heap_disk = heap
      /\ index \in {Zeros, EmptyLeaf} /\ index_disk = index
      /\ root_page_num \in BOOLEAN /\ (index = Zeros => ~root_page_num)
      /\ log_buffer = <<>> /\ log_file = <<>>
      /\ pc = "idle" /\ stmt = NoStmt /\ crashes = 0 /\ num_records = 0
      /\ allowed = [k \in Keys |-> {0}]
  BY DEF Init, EmptyLeaf, Zeros
<1>3. ~Inserting /\ ~Recovering
  BY <1>2 DEF Inserting, Recovering
<1>4. \A k \in Keys : ~HasKey(index, k) /\ MemoryRow(k) = 0 /\ FileRow(k) = 0 /\ Meant(k) = 0
  BY <1>2 DEF HasKey, EmptyLeaf, MemoryRow, FileRow, RowIn, Meant
<1>5. \A c \in CTID : ~LiveIn(heap, c)
  BY <1>2, CTIDsAre DEF LiveIn
<1>6. Agree(heap, index, {}) /\ Agree(heap_disk, index_disk, {})
  BY <1>2, <1>4, <1>5 DEF Agree
<1>7. MemoryHolds
  BY <1>2, <1>3, <1>4, <1>6, StmtTypes DEF MemoryHolds, Corrupted, StatementSound
<1>8. FilesHold
  <2>1. Log = <<>> /\ Len(<<>>) = 0 /\ <<>> \in Seq(Record)
    BY <1>1, <1>2, LogIs DEF Base
  <2>2. \A k \in Keys : Replayed(0, <<>>, k)[0] = 0
    BY ReplayedNothing
  <2> QED BY <1>2, <1>3, <1>4, <1>6, <2>1, <2>2
         DEF FilesHold, CrashesAllowed, LogMakesMemory, RecoverySound
<1>9. CountSound
  <2>1. LiveTuples = {}
    BY <1>5, LiveTuplesFinite
  <2> QED BY <1>2, <2>1, FS_EmptySet DEF CountSound
<1> QED
  BY <1>1, <1>7, <1>8, <1>9 DEF Base, EngineSound, MemorySound, FilesSound

LEMMA NextKeepsBase == ASSUME Base, Next PROVE Base'
<1>1. ASSUME NEW k \in Keys, InsertTuple(k) PROVE Base'
  BY <1>1, InsertTupleKeepsBase
<1>2. CASE InsertLog \/ InsertIndex \/ InsertFails \/ InsertRoot \/ InsertCount
  BY <1>2, InsertLogKeepsBase, InsertIndexKeepsBase, InsertFailsKeepsBase, InsertRootKeepsBase,
     InsertCountKeepsBase
<1>3. ASSUME NEW ks \in SUBSET Keys, BeginDelete(ks) PROVE Base'
  BY <1>3, BeginDeleteKeepsBase
<1>4. CASE DeleteOnPage \/ DeleteCount
  BY <1>4, DeleteOnPageKeepsBase, DeleteCountKeepsBase
<1>5. CASE Commit \/ CommitFails
  BY <1>5, CommitKeepsBase, CommitFailsKeepsBase
<1>6. ASSUME NEW p \in Pages, StealHeap(p) PROVE Base'
  BY <1>6, StealHeapKeepsBase
<1>7. CASE StealIndex
  BY <1>7, StealIndexKeepsBase
<1>8. CASE BeginCheckpoint \/ CheckpointFlush \/ CheckpointFlushFails \/ CheckpointTruncate
  BY <1>8, BeginCheckpointKeepsBase, CheckpointFlushKeepsBase, CheckpointFlushFailsKeepsBase,
     CheckpointTruncateKeepsBase
<1>9. CASE Crash
  BY <1>9, CrashKeepsBase
<1>10. CASE Rebuild \/ ReplayInsert \/ ReplayPanics \/ ReplayDelete \/ RecoveryEnds
  BY <1>10, RebuildKeepsBase, ReplayInsertKeepsBase, ReplayPanicsKeepsBase,
     ReplayDeleteKeepsBase, RecoveryEndsKeepsBase
<1>11. \A k \in Keys : {k} \in SUBSET Keys
  OBVIOUS
<1> QED
  BY <1>1, <1>2, <1>3, <1>4, <1>5, <1>6, <1>7, <1>8, <1>9, <1>10, <1>11 DEF Next

(* Only a crash changes what the trust in memory rests on.                 *)
LEMMA CrashesKept ==
    ASSUME Base, Next, ~Crash
    PROVE  UNCHANGED <<crashes, steal, spoilt>>
<1>1. CASE InsertLog \/ InsertIndex \/ InsertFails \/ InsertRoot \/ InsertCount
  BY <1>1 DEF InsertLog, InsertIndex, InsertFails, InsertRoot, InsertCount
<1>2. CASE DeleteOnPage \/ DeleteCount \/ Commit \/ CommitFails
  BY <1>2 DEF DeleteOnPage, DeleteCount, Commit, CommitFails, Returns
<1>3. CASE \E p \in Pages : StealHeap(p)
  BY <1>3 DEF StealHeap
<1>4. CASE StealIndex
  BY <1>4 DEF StealIndex
<1>5. CASE BeginCheckpoint \/ CheckpointFlush \/ CheckpointFlushFails \/ CheckpointTruncate
  BY <1>5 DEF BeginCheckpoint, CheckpointFlush, CheckpointFlushFails, CheckpointTruncate
<1>6. CASE Rebuild \/ ReplayInsert \/ ReplayPanics \/ ReplayDelete \/ RecoveryEnds
  BY <1>6 DEF Rebuild, ReplayInsert, ReplayPanics, ReplayDelete, RecoveryEnds
<1>7. ASSUME NEW k \in Keys, InsertTuple(k) PROVE UNCHANGED <<crashes, steal, spoilt>>
  BY <1>7 DEF InsertTuple
<1>8. ASSUME NEW ks \in SUBSET Keys, BeginDelete(ks) PROVE UNCHANGED <<crashes, steal, spoilt>>
  BY <1>8 DEF BeginDelete
<1>9. \A k \in Keys : {k} \in SUBSET Keys
  OBVIOUS
<1> QED
  BY <1>1, <1>2, <1>3, <1>4, <1>5, <1>6, <1>7, <1>8, <1>9 DEF Next

(* A statement or a recovery that meets a corrupted root, and pages that   *)
(* are written one by one.                                                 *)
LEMMA NotCorrupted == ASSUME MemoryHolds PROVE ~InsertFails /\ ~ReplayPanics
BY DEF MemoryHolds, InsertFails, ReplayPanics

LEMMA Stolen ==
    ASSUME StealIndex \/ \E p \in Pages : StealHeap(p)
    PROVE  steal /\ UNCHANGED <<heap, index, root_page_num, allowed, pc, stmt, at, num_records>>
BY DEF StealIndex, StealHeap, MayWrite

LEMMA NextKeepsMemory ==
    ASSUME Base, MemorySound, FilesSound, Next
    PROVE  MemorySound'
<1> SUFFICES ASSUME MemoryTrusted' PROVE MemoryHolds'
  BY DEF MemorySound
<1>1. CASE Crash
  <2>1. crashes' # 0
    <3>1. crashes' \in 1 .. MaxCrashes
      BY <1>1, CrashIs
    <3> QED BY <3>1
  <2>2. FilesTrusted
    <3>1. spoilt' = (spoilt \/ at_risk) /\ steal' = steal
      BY <1>1, CrashIs
    <3> QED BY <2>1, <3>1 DEF MemoryTrusted, FilesTrusted
  <2> QED BY <1>1, <2>2, CrashKeepsAll DEF FilesSound
<1>2. CASE ~Crash
  <2>1. MemoryTrusted /\ MemoryHolds
    <3>1. UNCHANGED <<crashes, steal, spoilt>>
      BY <1>2, CrashesKept
    <3>2. MemoryTrusted
      BY <3>1 DEF MemoryTrusted
    <3> QED BY <3>2 DEF MemorySound
  <2>2. ASSUME NEW k \in Keys, InsertTuple(k) PROVE MemoryHolds'
    BY <2>1, <2>2, InsertTupleKeepsMemory
  <2>3. CASE InsertLog \/ InsertIndex \/ InsertRoot \/ InsertCount
    BY <2>1, <2>3, InsertLogKeepsMemory, InsertIndexKeepsMemory, InsertRootKeepsMemory,
       InsertCountKeepsMemory
  <2>4. ~InsertFails /\ ~ReplayPanics
    BY <2>1, NotCorrupted
  <2>5. ASSUME NEW ks \in SUBSET Keys, BeginDelete(ks) PROVE MemoryHolds'
    BY <2>1, <2>5, BeginDeleteKeepsMemory
  <2>6. CASE DeleteOnPage \/ DeleteCount
    BY <2>1, <2>6, DeleteOnPageKeepsMemory, DeleteCountKeepsMemory
  <2>7. CASE Commit \/ CommitFails
    <3>1. pc = "commit" /\ Returns
      BY <2>7 DEF Commit, CommitFails
    <3> QED BY <2>1, <3>1, ReturnKeepsMemory
  <2>8. CASE StealIndex \/ \E p \in Pages : StealHeap(p)
    <3>1. UNCHANGED <<heap, index, root_page_num, allowed, pc, stmt, at>>
      BY <2>8, Stolen
    <3> QED BY <2>1, <3>1, MemoryKept
  <2>9. CASE BeginCheckpoint \/ CheckpointFlush \/ CheckpointFlushFails \/ CheckpointTruncate
    <3>1. /\ UNCHANGED <<heap, index, root_page_num, allowed>>
          /\ pc \in {"idle", "checkpoint", "truncate"} /\ stmt' = NoStmt
          /\ pc' \in {"idle", "checkpoint", "truncate"}
      BY <2>9 DEF BeginCheckpoint, CheckpointFlush, CheckpointFlushFails, CheckpointTruncate
    <3> QED BY <2>1, <3>1, MemoryKept
  <2>10. CASE Rebuild \/ ReplayInsert \/ ReplayDelete
    BY <2>1, <2>10, RebuildKeepsMemory, ReplayInsertKeepsMemory, ReplayDeleteKeepsMemory
  <2>11. CASE RecoveryEnds
    <3>1. Recovering
      BY <2>11 DEF RecoveryEnds, Recovering
    <3>2. crashes > 0 /\ (~spoilt => ~at_risk)
      BY <3>1 DEF Base, StepsSound
    <3>3. FilesTrusted
      BY <2>1, <3>2 DEF MemoryTrusted, FilesTrusted
    <3> QED BY <2>1, <2>11, <3>3, RecoveryEndsKeepsAll DEF FilesSound
  <2>12. \A k \in Keys : {k} \in SUBSET Keys
    OBVIOUS
  <2> QED
    BY <1>2, <2>2, <2>3, <2>4, <2>5, <2>6, <2>7, <2>8, <2>9, <2>10, <2>11, <2>12 DEF Next
<1> QED
  BY <1>1, <1>2

LEMMA NextKeepsFiles ==
    ASSUME Base, MemorySound, FilesSound, Next
    PROVE  FilesSound'
<1> SUFFICES ASSUME FilesTrusted' PROVE FilesHold'
  BY DEF FilesSound
<1>1. Established /\ ~steal /\ ~spoilt /\ MemoryTrusted /\ MemoryHolds /\ ~at_risk'
  <2>1. CASE Crash
    <3>1. spoilt' = (spoilt \/ at_risk) /\ steal' = steal
      BY <2>1, CrashIs
    <3> QED BY <3>1 DEF FilesTrusted, MemoryTrusted, MemorySound
  <2>2. CASE ~Crash
    <3>1. UNCHANGED <<crashes, steal, spoilt>>
      BY <2>2, CrashesKept
    <3> QED BY <3>1 DEF FilesTrusted, MemoryTrusted, MemorySound
  <2> QED BY <2>1, <2>2
<1>2. ASSUME UNCHANGED at_risk PROVE FilesTrusted /\ FilesHold
  BY <1>1, <1>2 DEF FilesTrusted, FilesSound
<1>3. ASSUME NEW k \in Keys, InsertTuple(k) PROVE FilesHold'
  <2>1. UNCHANGED at_risk
    BY <1>3 DEF InsertTuple
  <2> QED BY <1>1, <1>2, <1>3, <2>1, InsertTupleKeepsFiles
<1>4. CASE InsertLog \/ InsertIndex \/ DeleteOnPage
  <2>1. UNCHANGED at_risk
    BY <1>4 DEF InsertLog, InsertIndex, DeleteOnPage
  <2> QED BY <1>1, <1>2, <1>4, <2>1, InsertLogKeepsFiles, InsertIndexKeepsFiles,
             DeleteOnPageKeepsFiles
<1>5. ~InsertFails /\ ~ReplayPanics
  BY <1>1, NotCorrupted
<1>6. CASE InsertRoot \/ InsertCount \/ DeleteCount \/ BeginCheckpoint
  <2>1. UNCHANGED at_risk
    BY <1>6 DEF InsertRoot, InsertCount, DeleteCount, BeginCheckpoint
  <2> QED BY <1>1, <1>2, <1>6, <2>1, StatementKeepsFiles
<1>7. ASSUME NEW ks \in SUBSET Keys, BeginDelete(ks) PROVE FilesHold'
  <2>1. UNCHANGED at_risk
    BY <1>7 DEF BeginDelete
  <2> QED BY <1>1, <1>2, <1>7, <2>1, BeginDeleteKeepsFiles
<1>8. CASE Commit
  <2>1. ~at_risk
    BY <1>1, <1>8 DEF Commit
  <2>2. FilesHold
    BY <1>1, <2>1 DEF FilesTrusted, FilesSound
  <2> QED BY <1>1, <1>8, <2>2, CommitKeepsFiles
<1>9. ~CommitFails /\ ~CheckpointFlushFails /\ ~StealIndex /\ \A p \in Pages : ~StealHeap(p)
  BY <1>1, Stolen DEF CommitFails, CheckpointFlushFails
<1>10. CASE CheckpointFlush
  <2>1. UNCHANGED at_risk
    BY <1>10 DEF CheckpointFlush
  <2> QED BY <1>1, <1>2, <1>10, <2>1, CheckpointFlushKeepsFiles
<1>11. CASE CheckpointTruncate
  BY <1>1, <1>11, CheckpointTruncateKeepsFiles
<1>12. CASE Crash
  <2>1. UNCHANGED at_risk
    BY <1>12, CrashIs
  <2> QED BY <1>2, <1>12, <2>1, CrashKeepsAll
<1>13. CASE Rebuild \/ ReplayInsert \/ ReplayDelete \/ RecoveryEnds
  <2>1. UNCHANGED at_risk
    BY <1>13 DEF Rebuild, ReplayInsert, ReplayDelete, RecoveryEnds
  <2> QED BY <1>1, <1>2, <1>13, <2>1, RebuildKeepsFiles, ReplayKeepsFiles, RecoveryEndsKeepsAll
<1>14. \A k \in Keys : {k} \in SUBSET Keys
  OBVIOUS
<1> QED
  BY <1>3, <1>4, <1>5, <1>6, <1>7, <1>8, <1>9, <1>10, <1>11, <1>12, <1>13, <1>14 DEF Next

LEMMA NextKeepsCount ==
    ASSUME Base, MemorySound, CountSound, Next
    PROVE  CountSound'
<1>1. CASE Crash
  BY <1>1, CrashIs DEF CountSound
<1>2. CASE ~Crash
  <2>1. crashes' = crashes
    BY <1>2, CrashesKept
  <2>2. CASE crashes # 0
    BY <2>1, <2>2 DEF CountSound
  <2>3. CASE crashes = 0
    <3>1. ~InsertFails /\ ~ReplayPanics
      BY <2>3, NotCorrupted DEF MemorySound, MemoryTrusted
    <3>2. pc \notin {"rebuild", "replay"}
      BY <2>3 DEF Base, StepsSound, Recovering
    <3>3. ~Rebuild /\ ~ReplayInsert /\ ~ReplayDelete /\ ~RecoveryEnds
      BY <3>2 DEF Rebuild, ReplayInsert, ReplayDelete, RecoveryEnds, Replaying
    <3>4. ASSUME NEW k \in Keys, InsertTuple(k) PROVE CountSound'
      BY <3>4, InsertTupleKeepsCount
    <3>5. CASE InsertLog \/ InsertIndex \/ InsertRoot
      <4>1. /\ UNCHANGED <<heap, num_records>>
            /\ pc \in {"log", "index", "catalog"} /\ pc' \in {"log", "index", "catalog"}
        BY <3>5 DEF InsertLog, InsertIndex, InsertRoot
      <4> QED BY <2>1, <4>1, CountKept
    <3>6. CASE InsertCount \/ DeleteCount
      BY <3>6, StatementKeepsCount
    <3>7. ASSUME NEW ks \in SUBSET Keys, BeginDelete(ks) PROVE CountSound'
      BY <3>7, StatementKeepsCount
    <3>8. CASE DeleteOnPage
      BY <3>8, DeleteOnPageKeepsCount
    <3>9. CASE Commit \/ CommitFails
      <4>1. /\ UNCHANGED <<heap, num_records>> /\ pc = "commit" /\ pc' = "idle"
        BY <3>9 DEF Commit, CommitFails, Returns
      <4> QED BY <2>1, <4>1, CountKept
    <3>10. CASE StealIndex \/ \E p \in Pages : StealHeap(p)
      <4>1. UNCHANGED <<heap, num_records, pc, stmt>>
        BY <3>10, Stolen
      <4> QED BY <2>1, <4>1, CountKept
    <3>11. CASE BeginCheckpoint \/ CheckpointFlush \/ CheckpointFlushFails \/ CheckpointTruncate
      <4>1. /\ UNCHANGED <<heap, num_records>>
            /\ pc \in {"idle", "checkpoint", "truncate"} /\ pc' \in {"idle", "checkpoint", "truncate"}
        BY <3>11 DEF BeginCheckpoint, CheckpointFlush, CheckpointFlushFails, CheckpointTruncate
      <4> QED BY <2>1, <4>1, CountKept
    <3>12. \A k \in Keys : {k} \in SUBSET Keys
      OBVIOUS
    <3> QED
      BY <1>2, <3>1, <3>3, <3>4, <3>5, <3>6, <3>7, <3>8, <3>9, <3>10, <3>11, <3>12 DEF Next
  <2> QED BY <2>2, <2>3
<1> QED
  BY <1>1, <1>2

LEMMA NextKeepsSound == ASSUME EngineSound, [Next]_vars PROVE EngineSound'
<1>1. Base /\ MemorySound /\ FilesSound /\ CountSound
  BY DEF EngineSound, Base
<1>2. CASE Next
  BY <1>1, <1>2, NextKeepsBase, NextKeepsMemory, NextKeepsFiles, NextKeepsCount
     DEF EngineSound, Base
<1>3. CASE UNCHANGED vars
  <2>1. Base'
    BY <1>1, <1>3 DEF vars, Base, TypeOK, StepsSound, CalmSound, Recovering, Clean
  <2>2. MemorySound'
    BY <1>1, <1>3, MemoryKept DEF vars, MemorySound, MemoryTrusted
  <2>3. FilesSound'
    BY <1>1, <1>3
       DEF vars, FilesSound, FilesTrusted, FilesHold, CrashesAllowed, LogMakesMemory, RecoverySound,
           FileRow, MemoryRow, Meant, Log, Written, Recovering, Clean
  <2>4. CountSound'
    BY <1>1, <1>3, CountKept DEF vars
  <2> QED BY <2>1, <2>2, <2>3, <2>4 DEF EngineSound, Base
<1> QED
  BY <1>2, <1>3

-----------------------------------------------------------------------------
(* Theorems *)

(***************************************************************************)
(* The types, what each step knows, and what makes the rest true: memory   *)
(* is as the statements left it, until a crash loses what cannot come      *)
(* back; the files and the log make up for a crash at any step, until an   *)
(* error of the disk is ignored (dml.rs execute_dml, the checkpointer and  *)
(* the recovery of main.rs).                                               *)
(***************************************************************************)
THEOREM EngineInvariant == Spec => []EngineSound
<1>1. Init => EngineSound
  BY InitSound
<1>2. EngineSound /\ [Next]_vars => EngineSound'
  BY NextKeepsSound
<1> QED
  BY <1>1, <1>2, PTL DEF Spec

LEMMA RowIsMemoryRow ==
    ASSUME Base, MemoryHolds, pc = "idle", NEW k \in Keys
    PROVE  RowAt(k) = MemoryRow(k) /\ RowAt(k) \in allowed[k]
<1>1. ~Recovering /\ ~Inserting
  BY DEF Recovering, Inserting
<1>2. Found(k) => LiveIn(heap, index[k])
  BY <1>1 DEF MemoryHolds, Agree, HasKey, Found
<1>3. RowAt(k) = MemoryRow(k)
  BY <1>2 DEF RowAt, MemoryRow, RowIn, HasKey, Found, TupleIn, LiveIn, LiveAt
<1> QED
  BY <1>1, <1>3 DEF MemoryHolds

(***************************************************************************)
(* What a statement that returned has stored or removed is what a client   *)
(* finds from then on, after any number of statements, checkpoints and     *)
(* crashes, also crashes during a statement, a checkpoint or a recovery,   *)
(* and errors of the disk made up for by a later checkpoint.  The table    *)
(* had a root in its file before: EngineFresh shows what a crash may do    *)
(* to one that had none, and EngineSteal what evictions may do.            *)
(***************************************************************************)
THEOREM RowsSurviveCrashes ==
    ASSUME Established
    PROVE  Spec => []RowsAreDurable
<1>1. EngineSound => RowsAreDurable
  BY RowIsMemoryRow
     DEF EngineSound, Base, MemorySound, MemoryTrusted, RowsAreDurable, StatementsAreDurable
<1> QED
  BY <1>1, EngineInvariant, PTL

(***************************************************************************)
(* Until a first crash this is so for every table, with pages evicted at   *)
(* any time and every error of the disk ignored.                           *)
(***************************************************************************)
THEOREM RowsAreFoundUntilACrash == Spec => [](crashes = 0 => StatementsAreDurable)
<1>1. EngineSound => (crashes = 0 => StatementsAreDurable)
  BY RowIsMemoryRow DEF EngineSound, Base, MemorySound, MemoryTrusted, StatementsAreDurable
<1> QED
  BY <1>1, EngineInvariant, PTL

(***************************************************************************)
(* Between statements every live tuple of the heap is the one the index    *)
(* has for its key, and every entry of the index leads to a live tuple of  *)
(* its key, crashes or not: the recovery, which asks the index whether a   *)
(* tuple is there already, never stores a row twice.                       *)
(***************************************************************************)
THEOREM IndexAndHeapAgree ==
    ASSUME Established
    PROVE  Spec => []IndexMatchesHeap
<1>1. ASSUME EngineSound PROVE IndexMatchesHeap
  <2> SUFFICES ASSUME pc = "idle", ~steal, ~spoilt
               PROVE  /\ \A c \in LiveTuples : index # Zeros /\ index[KeyAt(c)] = c
                      /\ \A k \in Keys : Found(k) => LiveAt(index[k]) /\ KeyAt(index[k]) = k
    BY DEF IndexMatchesHeap
  <2>1. MemoryHolds
    BY <1>1 DEF EngineSound, MemorySound, MemoryTrusted
  <2>2. Agree(heap, index, {})
    BY <2>1 DEF MemoryHolds, Inserting
  <2> QED BY <2>2 DEF Agree, LiveTuples, LiveAt, LiveIn, KeyAt, TupleIn, Found, HasKey
<1> QED
  BY <1>1, EngineInvariant, PTL

(***************************************************************************)
(* Until a first crash the number of records in the catalog is that of the *)
(* live tuples of the heap, whatever is inserted, deleted or evicted and   *)
(* whatever the disk refuses.                                              *)
(***************************************************************************)
THEOREM CountsAreRows == Spec => []CountIsRows
<1>1. EngineSound => CountIsRows
  BY LiveTuplesFinite DEF EngineSound, CountSound, CountIsRows, TypeOK
<1> QED
  BY <1>1, EngineInvariant, PTL

-----------------------------------------------------------------------------
(* When a recovery panics *)

(* Nothing in the files tells the recovery that the table has rows, or     *)
(* where its root is, and the log has an INSERT to replay.                 *)
NothingFiled == index_disk = Zeros /\ \A c \in CTID : ~LiveIn(heap_disk, c)

Hopeless ==
    /\ Recovering \/ pc = "panicked"
    /\ Corrupted /\ NothingFiled
    /\ Recovering => Clean
    /\ \E i \in DOMAIN log_file : log_file[i].op = "insert" /\ (Recovering => at <= i)

(* The root stays once it is there, in memory and in the file.             *)
RootSound ==
    /\ index_disk # Zeros => index # Zeros
    /\ pc = "rebuild" => Clean
    /\ pc = "replay" /\ Corrupted => Clean /\ NothingFiled
    /\ pc = "panicked" => Hopeless

LEMMA InitRoot == Init => RootSound
BY DEF Init, RootSound

LEMMA NoRootRebuilt ==
    ASSUME TypeOK, Rebuilt = EmptyLeaf
    PROVE  \A c \in CTID : ~LiveIn(heap, c)
<1> SUFFICES ASSUME NEW c \in CTID, LiveIn(heap, c) PROVE FALSE
  OBVIOUS
<1> DEFINE Holds(k) == { d \in CTID : LiveAt(d) /\ KeyAt(d) = k }
           Upto(d, e) == d[1] < e[1] \/ (d[1] = e[1] /\ d[2] <= e[2])
           First(S) == CHOOSE d \in S : \A e \in S : Upto(d, e)
<1>1. PICK k \in Keys : KeyAt(c) = k
  BY LiveTuple DEF KeyAt, TupleIn
<1>2. c \in Holds(k)
  BY <1>1 DEF LiveAt, LiveIn
<1>3. First(Holds(k)) \in Holds(k)
  <2>1. \E d \in Holds(k) : \A e \in Holds(k) : Upto(d, e)
    BY <1>2, FirstTuple
  <2> QED BY <2>1
<1>4. Rebuilt[k] = IF Holds(k) = {} THEN NoCTID ELSE First(Holds(k))
  BY DEF Rebuilt
<1> HIDE DEF First
<1>5. Rebuilt[k] \in CTID
  BY <1>2, <1>3, <1>4
<1>6. Rebuilt[k] = NoCTID
  BY DEF EmptyLeaf
<1> QED
  BY <1>5, <1>6, CTIDsAre

LEMMA NothingToRebuild ==
    ASSUME \A c \in CTID : ~LiveIn(heap, c)
    PROVE  Rebuilt = EmptyLeaf
<1>1. \A k \in Keys : { c \in CTID : LiveAt(c) /\ KeyAt(c) = k } = {}
  BY DEF LiveAt, LiveIn
<1> QED
  BY <1>1 DEF Rebuilt, EmptyLeaf

(* A step outside of the recovery. *)
LEMMA StatementKeepsRoot ==
    ASSUME RootSound, pc' \notin {"rebuild", "replay", "panicked"},
           index' = index \/ index' # Zeros, index_disk' \in {index, index_disk}
    PROVE  RootSound'
BY DEF RootSound

(* A page that is written: never one of a recovery without a root, whose   *)
(* pages are as they are in the files.                                     *)
LEMMA StealKeepsRoot ==
    ASSUME Base, RootSound, StealIndex \/ \E p \in Pages : StealHeap(p)
    PROVE  RootSound'
<1>1. UNCHANGED <<heap, index, root_page_num, pc>> /\ index_disk' \in {index, index_disk}
  BY Stolen DEF StealIndex, StealHeap, WriteHeap
<1>2. pc \notin {"rebuild", "panicked"}
  BY DEF StealIndex, StealHeap, MayWrite
<1>3. ~(pc = "replay" /\ Corrupted)
  BY DEF RootSound, Clean, StealIndex, StealHeap
<1> QED
  BY <1>1, <1>2, <1>3 DEF RootSound, Corrupted

LEMMA CrashKeepsRoot == ASSUME Base, Crash PROVE RootSound'
BY CrashIs DEF RootSound, Clean

LEMMA RebuildKeepsRoot == ASSUME Base, RootSound, Rebuild PROVE RootSound'
<1>1. /\ pc = "rebuild" /\ pc' = "replay"
      /\ index' = (IF Corrupted /\ Rebuilt # EmptyLeaf THEN Rebuilt ELSE index)
      /\ UNCHANGED <<heap, heap_pages, fileVars, catalogVars>>
  BY DEF Rebuild
<1>2. Rebuilt # Zeros
  BY RebuiltLeaf, EngineAssumption DEF Leaf, Zeros
<1>3. CASE Corrupted /\ Rebuilt # EmptyLeaf
  BY <1>1, <1>2, <1>3 DEF RootSound, Corrupted
<1>4. CASE Corrupted /\ Rebuilt = EmptyLeaf
  BY <1>1, <1>4, NoRootRebuilt DEF Base, RootSound, NothingFiled, Clean, Corrupted, LiveIn
<1>5. CASE ~Corrupted
  BY <1>1, <1>5 DEF RootSound, Corrupted
<1> QED
  BY <1>3, <1>4, <1>5

LEMMA ReplayInsertKeepsRoot == ASSUME Base, RootSound, ReplayInsert PROVE RootSound'
<1> DEFINE r == log_file[at]
<1>1. /\ pc = "replay" /\ pc' = "replay" /\ at <= Len(log_file)
      /\ UNCHANGED fileVars
      /\ \/ Found(r.key) /\ UNCHANGED <<pageVars, root_page_num>>
         \/ WriteTuple(r.key, r.row) /\ index' = IndexWith(r.key, NextCTID)
  BY DEF ReplayInsert, Replaying
<1>2. r.key \in Keys /\ r.row \in 1 .. MaxRows
  BY <1>1, RecordAt
<1> HIDE DEF r
<1>3. CASE Found(r.key) /\ UNCHANGED <<pageVars, root_page_num>>
  BY <1>1, <1>3 DEF RootSound, Found, Corrupted
<1>4. CASE WriteTuple(r.key, r.row) /\ index' = IndexWith(r.key, NextCTID)
  <2>1. NextCTID \in CTID
    BY <1>2, <1>4, TupleWritten
  <2>2. index' # Zeros
    BY <1>2, <1>4, <2>1, IndexedLeaf DEF Base
  <2> QED BY <1>1, <2>2 DEF RootSound, Corrupted
<1> QED
  BY <1>1, <1>3, <1>4

LEMMA ReplayPanicsKeepsRoot == ASSUME Base, RootSound, ReplayPanics PROVE RootSound'
<1>1. /\ pc = "replay" /\ pc' = "panicked" /\ at' = at /\ Corrupted
      /\ at <= Len(log_file) /\ log_file[at].op = "insert"
      /\ UNCHANGED <<index, fileVars, catalogVars, logVars>>
  BY DEF ReplayPanics, Replaying
<1>2. at \in DOMAIN log_file
  BY <1>1, RecordAt DEF Base, TypeOK
<1>3. Hopeless'
  BY <1>1, <1>2 DEF Hopeless, RootSound, Recovering, Corrupted, NothingFiled
<1> QED
  BY <1>1, <1>3 DEF RootSound

LEMMA ReplayDeleteKeepsRoot == ASSUME Base, RootSound, ReplayDelete PROVE RootSound'
<1> DEFINE k == log_file[at].key
<1>1. /\ pc = "replay" /\ pc' = "replay"
      /\ heap' = (IF Found(k) THEN MarkedAt(index[k]) ELSE heap)
      /\ index' = IndexWithout({k})
      /\ UNCHANGED <<heap_pages, fileVars, catalogVars>>
  BY DEF ReplayDelete, Replaying
<1> HIDE DEF k
<1>2. index' = Zeros <=> index = Zeros
  BY <1>1, UnindexedLeaf DEF Base
<1>3. CASE index = Zeros
  BY <1>1, <1>2, <1>3 DEF RootSound, Corrupted, NothingFiled, Clean, Found
<1>4. CASE index # Zeros
  BY <1>1, <1>2, <1>4 DEF RootSound, Corrupted
<1> QED
  BY <1>3, <1>4

LEMMA NextKeepsRoot == ASSUME Base, RootSound, [Next]_vars PROVE RootSound'
<1>1. ASSUME NEW k \in Keys, InsertTuple(k) PROVE RootSound'
  BY <1>1, StatementKeepsRoot DEF InsertTuple
<1>2. CASE InsertLog \/ InsertFails \/ InsertRoot \/ InsertCount
  BY <1>2, StatementKeepsRoot DEF InsertLog, InsertFails, InsertRoot, InsertCount
<1>3. CASE InsertIndex
  <2>1. index' # Zeros
    <3>1. stmt.op = "insert"
      BY <1>3 DEF InsertIndex, Base, StepsSound
    <3> QED BY <1>3, <3>1, InsertedKey, IndexedLeaf DEF InsertIndex, Base
  <2> QED BY <1>3, <2>1, StatementKeepsRoot DEF InsertIndex
<1>4. ASSUME NEW ks \in SUBSET Keys, BeginDelete(ks) PROVE RootSound'
  BY <1>4, StatementKeepsRoot DEF BeginDelete
<1>5. CASE DeleteOnPage
  <2>1. index' = index \/ index' # Zeros
    BY <1>5, UnindexedLeaf DEF DeleteOnPage, Base
  <2> QED BY <1>5, <2>1, StatementKeepsRoot DEF DeleteOnPage
<1>6. CASE DeleteCount \/ Commit \/ CommitFails
  BY <1>6, StatementKeepsRoot DEF DeleteCount, Commit, CommitFails, Returns
<1>7. CASE StealIndex \/ \E p \in Pages : StealHeap(p)
  BY <1>7, StealKeepsRoot
<1>8. CASE BeginCheckpoint \/ CheckpointFlush \/ CheckpointFlushFails \/ CheckpointTruncate
  BY <1>8, StatementKeepsRoot
     DEF BeginCheckpoint, CheckpointFlush, CheckpointFlushFails, CheckpointTruncate
<1>9. CASE Crash \/ Rebuild \/ ReplayInsert \/ ReplayPanics \/ ReplayDelete
  BY <1>9, CrashKeepsRoot, RebuildKeepsRoot, ReplayInsertKeepsRoot, ReplayPanicsKeepsRoot,
     ReplayDeleteKeepsRoot
<1>10. CASE RecoveryEnds
  BY <1>10, StatementKeepsRoot DEF RecoveryEnds
<1>11. CASE UNCHANGED vars
  BY <1>11 DEF vars, RootSound, Hopeless, Recovering, Corrupted, NothingFiled, Clean, LiveIn
<1>12. \A k \in Keys : {k} \in SUBSET Keys
  OBVIOUS
<1> QED
  BY <1>1, <1>2, <1>3, <1>4, <1>5, <1>6, <1>7, <1>8, <1>9, <1>10, <1>11, <1>12 DEF Next

LEMMA RootInvariant == Spec => []RootSound
<1>1. Init => RootSound
  BY InitRoot
<1>2. EngineSound /\ RootSound /\ [Next]_vars => RootSound'
  BY NextKeepsRoot DEF EngineSound, Base
<1> QED
  BY <1>1, <1>2, EngineInvariant, PTL DEF Spec

LEMMA IndexFileWritten == ASSUME [Next]_vars PROVE index_disk' \in {index, index_disk}
<1>1. CASE InsertLog \/ InsertIndex \/ InsertFails \/ InsertRoot \/ InsertCount
  BY <1>1 DEF InsertLog, InsertIndex, InsertFails, InsertRoot, InsertCount
<1>2. CASE DeleteOnPage \/ DeleteCount \/ Commit \/ CommitFails
  BY <1>2 DEF DeleteOnPage, DeleteCount, Commit, CommitFails, Returns
<1>3. CASE StealIndex \/ \E p \in Pages : StealHeap(p)
  BY <1>3 DEF StealIndex, StealHeap, WriteHeap
<1>4. CASE BeginCheckpoint \/ CheckpointFlush \/ CheckpointFlushFails \/ CheckpointTruncate
  BY <1>4 DEF BeginCheckpoint, CheckpointFlush, CheckpointFlushFails, CheckpointTruncate
<1>5. CASE Crash \/ Rebuild \/ ReplayInsert \/ ReplayPanics \/ ReplayDelete \/ RecoveryEnds
  BY <1>5 DEF Crash, Rebuild, ReplayInsert, ReplayPanics, ReplayDelete, RecoveryEnds
<1>6. ASSUME NEW k \in Keys, InsertTuple(k) PROVE index_disk' \in {index, index_disk}
  BY <1>6 DEF InsertTuple
<1>7. ASSUME NEW ks, BeginDelete(ks) PROVE index_disk' \in {index, index_disk}
  BY <1>7 DEF BeginDelete
<1>8. CASE UNCHANGED vars
  BY <1>8 DEF vars
<1> QED
  BY <1>1, <1>2, <1>3, <1>4, <1>5, <1>6, <1>7, <1>8 DEF Next

(***************************************************************************)
(* For every table, new or not, with pages written at any time and errors  *)
(* of the disk: a recovery panics (main.rs, "BTree insert error during WAL *)
(* replay") only where the catalog has a root that never reached its file  *)
(* and the heap file has no live tuple to build another from.              *)
(***************************************************************************)
THEOREM PanicsFindNothing ==
    Spec => [](pc = "panicked" =>
                  /\ root_page_num /\ index_disk = Zeros
                  /\ \A c \in CTID : ~LiveIn(heap_disk, c))
<1>1. RootSound => (pc = "panicked" =>
                        /\ root_page_num /\ index_disk = Zeros
                        /\ \A c \in CTID : ~LiveIn(heap_disk, c))
  BY DEF RootSound, Hopeless, Corrupted, NothingFiled
<1> QED
  BY <1>1, RootInvariant, PTL

(***************************************************************************)
(* So the window is open until the root is first written: from then on no  *)
(* recovery of the table ever panics.                                      *)
(***************************************************************************)
THEOREM WrittenRootsAreSafe == Spec => [](index_disk # Zeros => [](pc # "panicked"))
<1>1. RootSound => (index_disk # Zeros => pc # "panicked")
  BY DEF RootSound, Hopeless, NothingFiled
<1>2. EngineSound /\ RootSound /\ index_disk # Zeros /\ [Next]_vars => (index_disk # Zeros)'
  <2> SUFFICES ASSUME RootSound, index_disk # Zeros, [Next]_vars PROVE index_disk' # Zeros
    OBVIOUS
  <2>1. index_disk' \in {index, index_disk}
    BY IndexFileWritten
  <2> QED BY <2>1 DEF RootSound
<1> QED
  BY <1>1, <1>2, EngineInvariant, RootInvariant, PTL DEF Spec

(* A recovery without hope gets to the INSERT it cannot replay. *)
LEMMA NextKeepsHopeless ==
    ASSUME Base, Base', RootSound, RootSound', Hopeless, [Next]_vars
    PROVE  Hopeless'
<1>1. PICK i \in DOMAIN log_file : log_file[i].op = "insert" /\ (Recovering => at <= i)
  BY DEF Hopeless
<1>2. i \in 1 .. Len(log_file) /\ Len(log_file) \in Nat /\ at \in Nat
  BY <1>1 DEF Base, TypeOK
<1>3. pc \in {"rebuild", "replay", "panicked"} /\ Corrupted /\ NothingFiled
  BY DEF Hopeless, Recovering
<1>4. CASE Crash
  <2>1. pc' = "rebuild" /\ at' = 1 /\ index' = index_disk /\ UNCHANGED <<fileVars, catalogVars>>
    BY <1>4, CrashIs
  <2>2. log_file' = log_file
    BY <1>3, <1>4 DEF Crash
  <2> QED BY <1>1, <1>2, <1>3, <2>1, <2>2
          DEF RootSound, Hopeless, Recovering, Corrupted, NothingFiled
<1>5. CASE Rebuild
  <2>1. pc = "rebuild" /\ Clean
    BY <1>5 DEF Rebuild, RootSound
  <2>2. Rebuilt = EmptyLeaf
    BY <1>3, <2>1, NothingToRebuild DEF NothingFiled, Clean
  <2>3. /\ pc' = "replay" /\ at' = at
        /\ UNCHANGED <<pageVars, fileVars, catalogVars, log_file>>
    BY <1>5, <2>2 DEF Rebuild
  <2> QED BY <1>1, <1>3, <2>1, <2>3
          DEF Hopeless, Recovering, Corrupted, NothingFiled, Clean
<1>6. ~ReplayInsert
  BY <1>3 DEF ReplayInsert, Found, Corrupted
<1>7. CASE ReplayPanics
  BY <1>7 DEF ReplayPanics, RootSound
<1>8. CASE ReplayDelete
  <2>1. /\ pc = "replay" /\ log_file[at].op = "delete" /\ pc' = "replay" /\ at' = at + 1
        /\ UNCHANGED <<heap, heap_pages, fileVars, catalogVars, log_file>>
        /\ index' = Zeros
    BY <1>3, <1>8 DEF ReplayDelete, Replaying, Found, Corrupted, IndexWithout
  <2>2. at # i /\ at <= i
    BY <1>1, <2>1 DEF Recovering
  <2>3. at' <= i
    BY <1>2, <2>1, <2>2
  <2>4. Corrupted' /\ NothingFiled'
    BY <1>3, <2>1 DEF Corrupted, NothingFiled
  <2> QED BY <1>1, <2>1, <2>3, <2>4 DEF Hopeless, Recovering, RootSound
<1>9. ~RecoveryEnds
  BY <1>1, <1>2 DEF RecoveryEnds, Recovering
<1>10. ~StealIndex /\ \A p \in Pages : ~StealHeap(p)
  BY <1>3 DEF Hopeless, Recovering, Clean, StealIndex, StealHeap, MayWrite
<1>11. CASE UNCHANGED vars
  BY <1>11 DEF vars, Hopeless, Recovering, Corrupted, NothingFiled, Clean
<1>12. Crash \/ Rebuild \/ ReplayPanics \/ ReplayDelete \/ UNCHANGED vars
  <2>1. ~(InsertLog \/ InsertIndex \/ InsertFails \/ InsertRoot \/ InsertCount)
    BY <1>3 DEF InsertLog, InsertIndex, InsertFails, InsertRoot, InsertCount
  <2>2. ~(DeleteOnPage \/ DeleteCount \/ Commit \/ CommitFails)
    BY <1>3 DEF DeleteOnPage, DeleteCount, Commit, CommitFails
  <2>3. ~(BeginCheckpoint \/ CheckpointFlush \/ CheckpointFlushFails \/ CheckpointTruncate)
    BY <1>3 DEF BeginCheckpoint, CheckpointFlush, CheckpointFlushFails, CheckpointTruncate
  <2>4. \A k : ~InsertTuple(k) /\ ~BeginDelete(k)
    BY <1>3 DEF InsertTuple, BeginDelete
  <2> QED BY <1>6, <1>9, <1>10, <2>1, <2>2, <2>3, <2>4 DEF Next
<1> QED
  BY <1>4, <1>5, <1>7, <1>8, <1>11, <1>12

(***************************************************************************)
(* And a panic is for good: every later start finds the files and the log  *)
(* as they were and panics again, so that no statement ever runs on the    *)
(* database any more.  The tuple the replay stored is on a page that is    *)
(* pinned and not yet marked dirty, which nothing writes (main.rs, crash   *)
(* recovery).                                                              *)
(***************************************************************************)
THEOREM PanicsAreForGood ==
    Spec => [](pc = "panicked" => [](Recovering \/ pc = "panicked"))
<1>1. RootSound => (pc = "panicked" => Hopeless)
  BY DEF RootSound
<1>2. /\ EngineSound /\ EngineSound' /\ RootSound /\ RootSound' /\ Hopeless /\ [Next]_vars
      => Hopeless'
  BY NextKeepsHopeless DEF EngineSound, Base
<1>3. Hopeless => (Recovering \/ pc = "panicked")
  BY DEF Hopeless
<1> QED
  BY <1>1, <1>2, <1>3, EngineInvariant, RootInvariant, PTL DEF Spec

-----------------------------------------------------------------------------
(* What the log says while pages are written at any time *)

(* A log that grows by some records: its last word on a key is theirs, if  *)
(* they have one, and what it was otherwise.                               *)
LEMMA WordsAdded ==
    ASSUME NEW log \in Seq(Record), NEW b \in Seq(Record), NEW k, NEW w
    PROVE  /\ (\A i \in 1 .. Len(b) : b[i].key # k)
                  => LastWord(log \o b, k) \subseteq LastWord(log, k)
           /\ /\ \E i \in 1 .. Len(b) : b[i].key = k
              /\ \A i \in 1 .. Len(b) : b[i].key = k => Word(b[i]) = w
              => LastWord(log \o b, k) \subseteq {w}
<1> DEFINE g == log \o b
           l == Len(log)
<1>1. /\ g \in Seq(Record) /\ Len(g) = l + Len(b) /\ l \in Nat /\ Len(b) \in Nat
      /\ \A i \in 1 .. l : g[i] = log[i]
      /\ \A i \in 1 .. Len(b) : g[l + i] = b[i]
  BY ConcatEntries
<1>2. DOMAIN g = 1 .. Len(g) /\ DOMAIN log = 1 .. l
  BY <1>1
<1> HIDE DEF g
<1>3. \A i \in 1 .. Len(g) : i <= l \/ (i - l \in 1 .. Len(b) /\ g[i] = b[i - l])
  <2> SUFFICES ASSUME NEW i \in 1 .. Len(g), ~ (i <= l)
               PROVE  i - l \in 1 .. Len(b) /\ g[i] = b[i - l]
    OBVIOUS
  <2>1. i - l \in 1 .. Len(b) /\ l + (i - l) = i
    BY <1>1
  <2> QED BY <1>1, <2>1
<1>4. ASSUME NEW x \in LastWord(g, k)
      PROVE  \E i \in 1 .. Len(g) :
                /\ g[i].key = k /\ x = Word(g[i])
                /\ \A j \in 1 .. Len(g) : g[j].key = k => j <= i
  BY <1>2 DEF LastWord
<1>5. ASSUME \A i \in 1 .. Len(b) : b[i].key # k, NEW x \in LastWord(g, k)
      PROVE  x \in LastWord(log, k)
  <2>1. PICK i \in 1 .. Len(g) : /\ g[i].key = k /\ x = Word(g[i])
                                 /\ \A j \in 1 .. Len(g) : g[j].key = k => j <= i
    BY <1>4, <1>5
  <2>2. i \in 1 .. l
    BY <1>1, <1>3, <1>5, <2>1
  <2>3. log[i].key = k /\ x = Word(log[i])
    BY <1>1, <2>1, <2>2
  <2>4. \A j \in 1 .. l : log[j].key = k => j <= i
    BY <1>1, <2>1
  <2> QED BY <1>2, <2>2, <2>3, <2>4 DEF LastWord
<1>6. ASSUME \E i \in 1 .. Len(b) : b[i].key = k,
             \A i \in 1 .. Len(b) : b[i].key = k => Word(b[i]) = w,
             NEW x \in LastWord(g, k)
      PROVE  x = w
  <2>1. PICK i \in 1 .. Len(g) : /\ g[i].key = k /\ x = Word(g[i])
                                 /\ \A j \in 1 .. Len(g) : g[j].key = k => j <= i
    BY <1>4, <1>6
  <2>2. PICK j \in 1 .. Len(b) : b[j].key = k
    BY <1>6
  <2>3. l + j \in 1 .. Len(g) /\ g[l + j].key = k
    BY <1>1, <2>2
  <2>4. ~ (i <= l)
    BY <1>1, <2>1, <2>3
  <2> QED BY <1>3, <1>6, <2>1, <2>4
<1> QED
  BY <1>5, <1>6 DEF g

LEMMA LastWordAdded ==
    ASSUME NEW log \in Seq(Record), NEW b \in Seq(Record), NEW k, NEW w,
           \E i \in 1 .. Len(b) : b[i].key = k,
           \A i \in 1 .. Len(b) : b[i].key = k => Word(b[i]) = w
    PROVE  LastWord(log \o b, k) \subseteq {w}
BY WordsAdded

(* A part of the log is forced: what the log says stays, and what was in   *)
(* that part is in the file.                                               *)
LEMMA ForceKeepsLog ==
    ASSUME TypeOK, ~torn, NEW n \in 0 .. Len(log_buffer), ForceTo(n)
    PROVE  /\ Log' = Log /\ ~torn'
           /\ \A i \in DOMAIN log_file : i \in DOMAIN log_file' /\ log_file'[i] = log_file[i]
           /\ \A k : \A m \in 0 .. Len(log_buffer) :
                 DeletionLogged(log_file, log_buffer, m, k) =>
                    /\ DeletionLogged(log_file', log_buffer', Minus(m, n), k)
                    /\ m <= n => DeletionLogged(log_file', log_buffer', 0, k)
<1> DEFINE s == SubSeq(log_buffer, 1, n)
           f == log_file \o s
           l == Len(log_file)
<1>1. /\ log_file \in Seq(Record) /\ log_buffer \in Seq(Record) /\ torn \in BOOLEAN
      /\ l \in Nat /\ Len(log_buffer) \in Nat /\ n \in Nat
  BY DEF TypeOK
<1>2. /\ log_file' = f /\ torn' = torn
      /\ log_buffer' = SubSeq(log_buffer, n + 1, Len(log_buffer))
  BY DEF ForceTo, Written
<1>3. s \in Seq(Record) /\ Len(s) = n /\ \A i \in 1 .. n : s[i] = log_buffer[i]
  BY <1>1
<1> HIDE DEF s
<1>4. /\ f \in Seq(Record) /\ Len(f) = l + n
      /\ \A i \in 1 .. l : f[i] = log_file[i]
      /\ \A i \in 1 .. n : f[l + i] = s[i]
  <2>1. /\ f \in Seq(Record) /\ Len(f) = Len(log_file) + Len(s)
        /\ \A i \in 1 .. Len(log_file) : f[i] = log_file[i]
        /\ \A i \in 1 .. Len(s) : f[Len(log_file) + i] = s[i]
    <3>1. log_file \in Seq(Record) /\ s \in Seq(Record)
      BY <1>1, <1>3
    <3> QED BY <3>1, ConcatEntries
  <2> HIDE DEF f
  <2> QED BY <1>3, <2>1
<1>5. DOMAIN f = 1 .. l + n /\ DOMAIN log_file = 1 .. l
  BY <1>1, <1>4
<1>6. /\ log_buffer' \in Seq(Record) /\ Len(log_buffer') = Len(log_buffer) - n
      /\ \A i \in 1 .. Len(log_buffer) - n : log_buffer'[i] = log_buffer[n + i]
  BY LogForced
<1> HIDE DEF f
<1>7. Log' = Log
  <2> DEFINE b == log_buffer'
             g == log_file \o log_buffer
             h == f \o b
  <2>1. Log = g
    BY LogIs
  <2>2. Log' = h
    <3>1. SubSeq(log_buffer', 1, Len(log_buffer')) = log_buffer'
      BY <1>6, WholeLog
    <3> QED BY <1>2, <3>1 DEF Log, Written
  <2>3. /\ g \in Seq(Record) /\ Len(g) = l + Len(log_buffer)
        /\ \A i \in 1 .. l : g[i] = log_file[i]
        /\ \A i \in 1 .. Len(log_buffer) : g[l + i] = log_buffer[i]
    BY <1>1, ConcatEntries
  <2>4. /\ h \in Seq(Record) /\ Len(h) = (l + n) + Len(b)
        /\ \A i \in 1 .. l + n : h[i] = f[i]
        /\ \A i \in 1 .. Len(b) : h[(l + n) + i] = b[i]
    <3>1. /\ h \in Seq(Record) /\ Len(h) = Len(f) + Len(b)
          /\ \A i \in 1 .. Len(f) : h[i] = f[i]
          /\ \A i \in 1 .. Len(b) : h[Len(f) + i] = b[i]
      <4>1. f \in Seq(Record) /\ b \in Seq(Record)
        BY <1>4, <1>6
      <4> QED BY <4>1, ConcatEntries
    <3> HIDE DEF h
    <3> QED BY <1>4, <3>1
  <2> HIDE DEF g, h
  <2>5. Len(g) = Len(h) /\ Len(g) \in Nat
    BY <1>1, <1>6, <2>3, <2>4
  <2>6. ASSUME NEW i \in 1 .. Len(g) PROVE g[i] = h[i]
    <3>1. CASE i <= l
      BY <1>1, <1>4, <2>3, <2>4, <3>1
    <3>2. CASE l < i /\ i <= l + n
      <4>1. i - l \in 1 .. n /\ i - l \in 1 .. Len(log_buffer) /\ l + (i - l) = i
        BY <1>1, <3>2
      <4>2. g[i] = log_buffer[i - l]
        BY <2>3, <4>1
      <4>3. h[i] = f[i] /\ f[i] = s[i - l]
        BY <1>1, <1>4, <2>4, <3>2, <4>1
      <4> QED BY <1>3, <4>1, <4>2, <4>3
    <3>3. CASE l + n < i
      <4>1. /\ i - (l + n) \in 1 .. Len(b) /\ (l + n) + (i - (l + n)) = i
            /\ i - l \in 1 .. Len(log_buffer) /\ l + (i - l) = i
            /\ n + (i - (l + n)) = i - l
        BY <1>1, <1>6, <2>3, <3>3
      <4>2. g[i] = log_buffer[i - l]
        BY <2>3, <4>1
      <4>3. h[i] = b[i - (l + n)]
        BY <2>4, <4>1
      <4>4. b[i - (l + n)] = log_buffer[n + (i - (l + n))]
        BY <1>6, <4>1
      <4> QED BY <4>1, <4>2, <4>3, <4>4
    <3> QED BY <1>1, <3>1, <3>2, <3>3
  <2> QED BY <2>1, <2>2, <2>3, <2>4, <2>5, <2>6, SameEntries
<1>8. ASSUME NEW k, NEW m \in 0 .. Len(log_buffer), DeletionLogged(log_file, log_buffer, m, k)
      PROVE  /\ DeletionLogged(log_file', log_buffer', Minus(m, n), k)
             /\ m <= n => DeletionLogged(log_file', log_buffer', 0, k)
  <2> DEFINE In(r) == r.op = "delete" /\ r.key = k
  <2> HIDE DEF In
  <2>1. \/ \E i \in DOMAIN log_file : In(log_file[i])
        \/ \E i \in 1 .. m : In(log_buffer[i])
    BY <1>8 DEF DeletionLogged, In
  <2>2. /\ Minus(m, n) \in Nat
        /\ Minus(m, n) = 0 \/ Minus(m, n) = m - n
    BY <1>1 DEF Minus
  <2>3. \/ \E i \in DOMAIN f : In(f[i])
        \/ ~(m <= n) /\ \E i \in 1 .. Minus(m, n) : In(log_buffer'[i])
    <3>1. CASE \E i \in DOMAIN log_file : In(log_file[i])
      BY <1>1, <1>4, <1>5, <3>1
    <3>2. ASSUME NEW i \in 1 .. m, In(log_buffer[i]), i <= n
          PROVE  \E j \in DOMAIN f : In(f[j])
      <4>1. f[l + i] = log_buffer[i] /\ l + i \in 1 .. l + n
        <5>1. m \in Nat /\ i \in Nat /\ i \in 1 .. n
          BY <1>1, <3>2
        <5> QED BY <1>1, <1>3, <1>4, <5>1
      <4> QED BY <1>5, <3>2, <4>1
    <3>3. ASSUME NEW i \in 1 .. m, In(log_buffer[i]), ~ (i <= n)
          PROVE  ~(m <= n) /\ \E j \in 1 .. Minus(m, n) : In(log_buffer'[j])
      <4>1. Minus(m, n) = m - n /\ ~(m <= n)
        BY <1>1, <3>3 DEF Minus
      <4>2. i - n \in 1 .. Minus(m, n) /\ i - n \in 1 .. Len(log_buffer) - n /\ n + (i - n) = i
        BY <1>1, <3>3, <4>1
      <4>3. log_buffer'[i - n] = log_buffer[i]
        BY <1>6, <4>2
      <4> QED BY <3>3, <4>1, <4>2, <4>3
    <3> QED BY <2>1, <3>1, <3>2, <3>3
  <2> QED BY <1>2, <2>3 DEF DeletionLogged, In
<1> QED
  BY <1>2, <1>4, <1>5, <1>7, <1>8

(* A log that grows in memory keeps what it has.                           *)
LEMMA LogGrows ==
    ASSUME TypeOK, ~torn, NEW u \in Seq(Record), log_buffer' = log_buffer \o u,
           UNCHANGED <<log_file, torn>>
    PROVE  /\ Log' = Log \o u /\ ~torn'
           /\ Len(log_buffer') \in Nat /\ Len(log_buffer') >= Len(log_buffer)
           /\ \A i \in DOMAIN Log : i \in DOMAIN Log' /\ Log'[i] = Log[i]
           /\ \A k : \A m \in 0 .. Len(log_buffer) : \A n \in m .. Len(log_buffer') :
                 DeletionLogged(log_file, log_buffer, m, k)
                    => DeletionLogged(log_file', log_buffer', n, k)
           /\ \A i \in 1 .. Len(u) :
                 u[i].op = "delete"
                    => DeletionLogged(log_file', log_buffer', Len(log_buffer'), u[i].key)
<1> DEFINE b == log_buffer \o u
           l == Len(log_buffer)
<1>1. log_file \in Seq(Record) /\ log_buffer \in Seq(Record) /\ Len(log_buffer) \in Nat
  BY DEF TypeOK
<1>2. /\ b \in Seq(Record) /\ Len(b) = Len(log_buffer) + Len(u)
      /\ \A i \in 1 .. Len(log_buffer) : b[i] = log_buffer[i]
      /\ \A i \in 1 .. Len(u) : b[Len(log_buffer) + i] = u[i]
      /\ Len(u) \in Nat
  BY <1>1, ConcatEntries
<1>3. Log = log_file \o log_buffer
  BY LogIs
<1>4. Log' = log_file \o b
  <2>1. SubSeq(b, 1, Len(b)) = b
    BY <1>2, WholeLog
  <2> QED BY <2>1 DEF Log, Written
<1>5. log_file \o b = Log \o u
  BY <1>1, <1>3
<1>6. Log \in Seq(Record)
  BY LogIs
<1>7. \A i \in DOMAIN Log : i \in DOMAIN Log' /\ Log'[i] = Log[i]
  <2> DEFINE g == Log \o u
  <2>1. /\ g \in Seq(Record) /\ Len(g) = Len(Log) + Len(u)
        /\ \A i \in 1 .. Len(Log) : g[i] = Log[i]
    BY <1>6, ConcatEntries
  <2>2. Log' = g
    BY <1>4, <1>5
  <2> HIDE DEF g
  <2>3. DOMAIN Log = 1 .. Len(Log) /\ DOMAIN g = 1 .. Len(g) /\ Len(Log) \in Nat
    BY <1>6, <2>1
  <2> QED BY <1>2, <2>1, <2>2, <2>3
<1> HIDE DEF b
<1>8. log_buffer' = b
  BY DEF b
<1>9. ASSUME NEW k, NEW m \in 0 .. l, NEW n \in m .. Len(b),
             DeletionLogged(log_file, log_buffer, m, k)
      PROVE  DeletionLogged(log_file, b, n, k)
  BY <1>1, <1>2, <1>9 DEF DeletionLogged
<1>10. ASSUME NEW i \in 1 .. Len(u), u[i].op = "delete"
       PROVE  DeletionLogged(log_file, b, Len(b), u[i].key)
  <2>1. l + i \in 1 .. Len(b) /\ b[l + i] = u[i]
    BY <1>1, <1>2
  <2> QED BY <1>10, <2>1 DEF DeletionLogged
<1>11. Log' = Log \o u
  BY <1>4, <1>5
<1>12. log_file' = log_file /\ torn' = torn
  OBVIOUS
<1>13. Len(b) \in Nat /\ Len(b) >= l
  BY <1>1, <1>2
<1>14. \A k : \A m \in 0 .. Len(log_buffer) : \A n \in m .. Len(log_buffer') :
          DeletionLogged(log_file, log_buffer, m, k)
             => DeletionLogged(log_file', log_buffer', n, k)
  BY <1>8, <1>9, <1>12
<1>15. \A i \in 1 .. Len(u) :
          u[i].op = "delete"
             => DeletionLogged(log_file', log_buffer', Len(log_buffer'), u[i].key)
  BY <1>8, <1>10, <1>12
<1>16. ~torn' /\ Len(log_buffer') \in Nat /\ Len(log_buffer') >= Len(log_buffer)
  BY <1>8, <1>12, <1>13
<1> QED
  BY <1>7, <1>11, <1>14, <1>15, <1>16, Zenon

(* Steps that leave pages, files and log alone.                            *)
LEMMA LogKept ==
    ASSUME LogHolds, UNCHANGED <<heap, index, fileVars, logVars, allowed>>,
           \A k \in Keys : Meant(k)' = Meant(k),
           pc' \in {"index", "catalog", "commit"} /\ stmt'.op = "insert" =>
              /\ pc \in {"index", "catalog", "commit"} /\ stmt.op = "insert"
              /\ stmt'.keys = stmt.keys /\ stmt'.row = stmt.row
    PROVE  LogHolds'
<1>1. Log' = Log
  BY DEF Log, Written
<1>2. LogSpeaksOfMemory'
  BY <1>1 DEF LogSpeaksOfMemory, LogHolds
<1>3. RowsKept'
  BY DEF RowsKept, LogHolds, Found
<1>4. DeletionsKept'
  BY DEF DeletionsKept, LogHolds, WillBeLogged, IsLogged, LoggedWithPage
<1> QED
  BY <1>2, <1>3, <1>4 DEF LogHolds

LEMMA DiskTuple ==
    ASSUME TypeOK, NEW c \in CTID, LiveIn(heap_disk, c)
    PROVE  TupleIn(heap_disk, c).key \in Keys
<1>1. heap_disk \in [Pages -> Seq(Slot)]
  BY DEF TypeOK
<1>2. c[1] \in Pages
  BY CTIDsAre
<1>3. heap_disk[c[1]] \in Seq(Slot) /\ c[2] \in DOMAIN heap_disk[c[1]]
  BY <1>1, <1>2 DEF LiveIn
<1>4. heap_disk[c[1]][c[2]] \in Slot
  BY <1>3
<1> QED BY <1>4 DEF Slot, TupleIn

(* What is dead stays dead under its key, and an appended tuple is live.   *)
LEMMA DeadUnderAppend ==
    ASSUME TypeOK, NEW p \in Pages, NEW s \in Slot, s.live,
           NEW c \in CTID, DeadIn([heap EXCEPT ![p] = Append(@, s)], c)
    PROVE  /\ DeadIn(heap, c)
           /\ TupleIn([heap EXCEPT ![p] = Append(@, s)], c) = TupleIn(heap, c)
<1> DEFINE h == [heap EXCEPT ![p] = Append(@, s)]
<1>1. heap \in [Pages -> Seq(Slot)]
  BY DEF TypeOK
<1>2. c[1] \in Pages /\ c[2] \in 1 .. PageSlots
  BY CTIDsAre
<1>3. CASE c[1] # p
  <2>1. h[c[1]] = heap[c[1]]
    BY <1>1, <1>2, <1>3
  <2> QED BY <2>1 DEF DeadIn, TupleIn
<1>4. CASE c[1] = p
  <2> DEFINE t == heap[p]
             e == Append(t, s)
  <2>1. t \in Seq(Slot) /\ h[p] = e
    BY <1>1
  <2>2. /\ e \in Seq(Slot) /\ Len(e) = Len(t) + 1 /\ e[Len(t) + 1] = s
        /\ \A i \in 1 .. Len(t) : e[i] = t[i]
    BY <2>1, AppendEntries
  <2> HIDE DEF e, h
  <2>3. DOMAIN e = 1 .. Len(e) /\ DOMAIN t = 1 .. Len(t) /\ Len(t) \in Nat
    BY <2>1, <2>2
  <2>4. c[2] \in 1 .. Len(e) /\ ~e[c[2]].live
    BY <1>4, <2>1, <2>3 DEF DeadIn, h
  <2>5. c[2] # Len(t) + 1
    BY <2>2, <2>4
  <2>6. c[2] \in 1 .. Len(t) /\ e[c[2]] = t[c[2]]
    BY <2>2, <2>3, <2>4, <2>5
  <2> QED BY <1>4, <2>1, <2>3, <2>4, <2>6 DEF DeadIn, TupleIn, h
<1> QED
  BY <1>3, <1>4

(* The tuple of an INSERT is in memory alone.                              *)
LEMMA InsertTupleKeepsLog ==
    ASSUME Base, MemoryHolds, LogHolds, NEW k \in Keys, InsertTuple(k)
    PROVE  LogHolds'
<1> DEFINE r == rows + 1
<1>1. TypeOK /\ r \in 1 .. MaxRows
  BY DEF Base, StepsSound, TypeOK, InsertTuple
<1>2. /\ pc = "idle" /\ pc' = "log" /\ WriteTuple(k, r) /\ ~Found(k)
      /\ allowed' = [allowed EXCEPT ![k] = @ \union {r}]
      /\ UNCHANGED <<index, fileVars, log_file, log_buffer, torn, page_lsn>>
  BY DEF InsertTuple, Step
<1>3. \A j \in Keys : MemoryRow(j)' = MemoryRow(j) /\ MemoryRow(j) \in allowed[j]
  BY <1>2, InsertTupleKeepsMemory DEF MemoryHolds, Recovering
<1>4. 0 \in allowed[k]
  BY <1>2, <1>3 DEF MemoryRow, RowIn, HasKey, Found
<1>5. \A j \in Keys : /\ allowed'[j] # {0} \/ allowed'[j] = allowed[j]
                      /\ \A row \in 1 .. MaxRows : allowed'[j] = {row} => allowed[j] = {row}
  <2>1. allowed \in [Keys -> SUBSET (0 .. MaxRows)]
    BY <1>1 DEF TypeOK
  <2>2. r # 0 /\ r \in allowed'[k] /\ 0 \in allowed'[k]
    BY <1>1, <1>2, <1>4, <2>1
  <2>3. \A j \in Keys : j # k => allowed'[j] = allowed[j]
    BY <1>2, <2>1
  <2> QED BY <2>2, <2>3
<1>6. LogSpeaksOfMemory'
  <2>1. Log' = Log
    BY <1>2 DEF Log, Written
  <2>2. \A j \in Keys : Meant(j)' = Meant(j)
    BY <1>2, <1>3 DEF Meant
  <2> QED BY <1>2, <2>1, <2>2 DEF LogHolds, LogSpeaksOfMemory
<1>7. RowsKept'
  BY <1>2, <1>5 DEF LogHolds, RowsKept, Found
<1>8. /\ NextCTID \in CTID /\ ~LiveIn(heap, NextCTID)
      /\ \A c \in CTID \ {NextCTID} : LiveIn(heap', c) <=> LiveIn(heap, c)
      /\ \A c \in CTID \ {NextCTID} : LiveIn(heap, c) => TupleIn(heap', c) = TupleIn(heap, c)
  BY <1>1, <1>2, TupleWritten
<1>9. ASSUME NEW c \in CTID, DeadIn(heap', c)
      PROVE  DeadIn(heap, c) /\ TupleIn(heap', c) = TupleIn(heap, c)
  <2> DEFINE s == [key |-> k, row |-> r, live |-> TRUE]
  <2>1. Target \in Pages /\ heap' = [heap EXCEPT ![Target] = Append(@, s)]
    <3>1. NextCTID[1] \in Pages /\ NextCTID[1] = Target
      BY <1>8, CTIDsAre DEF NextCTID
    <3> QED BY <1>2, <3>1 DEF WriteTuple
  <2>2. s \in Slot /\ s.live
    BY <1>1 DEF Slot
  <2> HIDE DEF s
  <2> QED BY <1>1, <1>9, <2>1, <2>2, DeadUnderAppend
<1>10. DeletionsKept'
  <2>1. \A j \in Keys : (WillBeLogged(j)' <=> WillBeLogged(j)) /\ (IsLogged(j)' <=> IsLogged(j))
    BY <1>2 DEF WillBeLogged, IsLogged
  <2>2. ASSUME NEW c \in CTID, LiveIn(heap_disk', c), NEW j, j = TupleIn(heap_disk', c).key
        PROVE  /\ (LiveIn(heap', c) /\ TupleIn(heap', c).key = j) \/ WillBeLogged(j)'
               /\ allowed'[j] = {0} => IsLogged(j)'
    <3>1. /\ (LiveIn(heap, c) /\ TupleIn(heap, c).key = j) \/ WillBeLogged(j)
          /\ allowed[j] = {0} => IsLogged(j)
      BY <1>2, <2>2 DEF LogHolds, DeletionsKept
    <3>2. j \in Keys
      BY <1>1, <1>2, <2>2, DiskTuple
    <3> QED BY <1>5, <1>8, <2>1, <3>1, <3>2
  <2>3. ASSUME NEW c \in CTID, DeadIn(heap', c), ~DeadIn(heap_disk', c)
        PROVE  DeletionLogged(log_file', log_buffer', page_lsn'[c[1]], TupleIn(heap', c).key)
    BY <1>2, <1>9, <2>3 DEF LogHolds, DeletionsKept, LoggedWithPage
  <2> QED BY <1>2, <2>1, <2>2, <2>3 DEF LogHolds, DeletionsKept, LoggedWithPage
<1> QED
  BY <1>6, <1>7, <1>10 DEF LogHolds

(* Deletions that are logged stay so when the log grows.                   *)
LEMMA DeletionsStayLogged ==
    ASSUME TypeOK, LogHolds, NEW u \in Seq(Record), log_buffer' = log_buffer \o u,
           UNCHANGED <<log_file, torn>>
    PROVE  /\ \A k : WillBeLogged(k) => DeletionLogged(log_file', log_buffer', Len(log_buffer'), k)
           /\ \A k : IsLogged(k) => DeletionLogged(log_file', log_buffer', 0, k)
           /\ \A k : \A p \in Pages : \A n \in page_lsn[p] .. Len(log_buffer') :
                 LoggedWithPage(p, k) => DeletionLogged(log_file', log_buffer', n, k)
<1>1. page_lsn \in [Pages -> 0 .. Len(log_buffer)] /\ Len(log_buffer) \in Nat
  BY DEF TypeOK
<1>2. /\ Len(log_buffer') \in Nat /\ Len(log_buffer') >= Len(log_buffer)
      /\ \A k : \A m \in 0 .. Len(log_buffer) : \A n \in m .. Len(log_buffer') :
            DeletionLogged(log_file, log_buffer, m, k)
               => DeletionLogged(log_file', log_buffer', n, k)
  BY LogGrows DEF LogHolds, LogSpeaksOfMemory
<1>3. \A k : WillBeLogged(k) => DeletionLogged(log_file', log_buffer', Len(log_buffer'), k)
  <2>1. Len(log_buffer) \in 0 .. Len(log_buffer) /\ Len(log_buffer') \in Len(log_buffer) .. Len(log_buffer')
    BY <1>1, <1>2
  <2> QED BY <1>2, <2>1 DEF WillBeLogged
<1>4. \A k : IsLogged(k) => DeletionLogged(log_file', log_buffer', 0, k)
  <2>1. 0 \in 0 .. Len(log_buffer) /\ 0 \in 0 .. Len(log_buffer')
    BY <1>1, <1>2
  <2> QED BY <1>2, <2>1 DEF IsLogged
<1>5. \A k : \A p \in Pages : \A n \in page_lsn[p] .. Len(log_buffer') :
         LoggedWithPage(p, k) => DeletionLogged(log_file', log_buffer', n, k)
  BY <1>1, <1>2 DEF LoggedWithPage
<1> QED
  BY <1>3, <1>4, <1>5, Zenon

(* The record of an INSERT says what the statement means to store.         *)
LEMMA InsertLogKeepsLog ==
    ASSUME Base, MemoryHolds, LogHolds, InsertLog
    PROVE  LogHolds'
<1> DEFINE d == KeyOf(stmt)
           r == [op |-> "insert", key |-> d, row |-> stmt.row]
           u == <<r>>
<1>1. /\ pc = "log" /\ pc' = "index" /\ stmt' = stmt
      /\ log_buffer' = Append(log_buffer, r)
      /\ UNCHANGED <<heap, index, fileVars, log_file, torn, page_lsn, allowed>>
  BY DEF InsertLog
<1>2. TypeOK /\ stmt.op = "insert"
  BY <1>1 DEF Base, StepsSound
<1>3. d \in Keys /\ stmt.keys = {d} /\ stmt.row \in 1 .. MaxRows
  BY <1>2, InsertedKey
<1>4. r \in Record
  BY <1>3 DEF Record
<1>5. u \in Seq(Record) /\ Len(u) = 1 /\ u[1] = r
  BY <1>4
<1>6. log_buffer' = log_buffer \o u
  <2>1. log_buffer \in Seq(Record)
    BY <1>2 DEF TypeOK
  <2> QED BY <1>1, <1>4, <2>1
<1> HIDE DEF u
<1>7. /\ ~torn /\ ~torn'
      /\ Log' = Log \o u
      /\ \A i \in DOMAIN Log : i \in DOMAIN Log' /\ Log'[i] = Log[i]
  BY <1>1, <1>2, <1>5, <1>6, LogGrows DEF LogHolds, LogSpeaksOfMemory
<1>8. Log \in Seq(Record)
  BY <1>2, LogIs
<1>9. \A k \in Keys : Meant(k)' = IF k = d THEN stmt.row ELSE Meant(k)
  BY <1>1, <1>3 DEF Meant, MemoryRow, RowIn
<1>10. LogSpeaksOfMemory'
  <2>1. ASSUME NEW k \in Keys, k # d PROVE LastWord(Log', k) \subseteq {Meant(k)'}
    <3>1. \A i \in 1 .. Len(u) : u[i].key # k
      BY <1>5, <2>1
    <3>2. LastWord(Log \o u, k) \subseteq LastWord(Log, k)
      BY <1>5, <1>8, <3>1, WordsAdded
    <3> QED BY <1>7, <1>9, <2>1, <3>2 DEF LogHolds, LogSpeaksOfMemory
  <2>2. LastWord(Log', d) \subseteq {stmt.row}
    <3>1. /\ \E i \in 1 .. Len(u) : u[i].key = d
          /\ \A i \in 1 .. Len(u) : u[i].key = d => Word(u[i]) = stmt.row
      BY <1>5 DEF Word
    <3>2. LastWord(Log \o u, d) \subseteq {stmt.row}
      BY <1>5, <1>8, <3>1, LastWordAdded
    <3> QED BY <1>7, <3>2
  <2>3. \E i \in DOMAIN Log' : Log'[i].key = d /\ Log'[i].row = stmt.row
    <3> DEFINE g == Log \o u
    <3>1. /\ g \in Seq(Record) /\ Len(g) = Len(Log) + Len(u) /\ Len(Log) \in Nat
          /\ \A i \in 1 .. Len(u) : g[Len(Log) + i] = u[i]
      BY <1>5, <1>8, ConcatEntries
    <3>2. DOMAIN g = 1 .. Len(g)
      BY <3>1
    <3>3. Log' = g
      BY <1>7
    <3> HIDE DEF g
    <3>4. g[Len(Log) + 1] = r /\ Len(Log) + 1 \in DOMAIN g
      BY <1>5, <3>1, <3>2
    <3> QED BY <3>3, <3>4
  <2>4. \A k \in Keys : LastWord(Log', k) \subseteq {Meant(k)'}
    BY <1>9, <2>1, <2>2
  <2> QED BY <1>1, <1>3, <1>7, <2>3, <2>4 DEF LogSpeaksOfMemory
<1>11. RowsKept'
  <2>1. RowsKept
    BY DEF LogHolds
  <2>2. UNCHANGED <<index, heap_disk, log_file, allowed>>
    BY <1>1
  <2> QED BY <2>1, <2>2 DEF RowsKept, Found, LiveIn, TupleIn
<1>12. DeletionsKept'
  <2>1. /\ \A k : WillBeLogged(k) => DeletionLogged(log_file', log_buffer', Len(log_buffer'), k)
        /\ \A k : IsLogged(k) => DeletionLogged(log_file', log_buffer', 0, k)
        /\ \A k : \A p \in Pages : \A n \in page_lsn[p] .. Len(log_buffer') :
              LoggedWithPage(p, k) => DeletionLogged(log_file', log_buffer', n, k)
    BY <1>1, <1>2, <1>5, <1>6, DeletionsStayLogged
  <2>2. \A p \in Pages : page_lsn'[p] \in page_lsn[p] .. Len(log_buffer')
    <3>1. TypeOK'
      BY InsertLogKeepsBase DEF Base
    <3> QED BY <1>1, <3>1 DEF TypeOK
  <2>3. \A c \in CTID : c[1] \in Pages
    BY CTIDsAre
  <2>4. \A k : /\ WillBeLogged(k) => WillBeLogged(k)'
               /\ IsLogged(k) => IsLogged(k)'
    BY <2>1 DEF WillBeLogged, IsLogged
  <2>5. ASSUME NEW c \in CTID, DeadIn(heap, c), ~DeadIn(heap_disk, c)
        PROVE  DeletionLogged(log_file', log_buffer', page_lsn'[c[1]], TupleIn(heap, c).key)
    BY <2>1, <2>2, <2>3, <2>5 DEF LogHolds, DeletionsKept
  <2> QED BY <1>1, <2>4, <2>5 DEF LogHolds, DeletionsKept, LoggedWithPage
<1> QED
  BY <1>10, <1>11, <1>12 DEF LogHolds

(* The index gets a key of which both a row and none were allowed.         *)
LEMMA InsertIndexKeepsLog ==
    ASSUME Base, MemoryHolds, LogHolds, InsertIndex
    PROVE  LogHolds'
<1> DEFINE d == KeyOf(stmt)
<1>1. /\ pc = "index" /\ pc' = "catalog" /\ stmt' = stmt
      /\ index' = IndexWith(d, stmt.ctid)
      /\ UNCHANGED <<heap, fileVars, log_file, log_buffer, torn, page_lsn, allowed>>
  BY DEF InsertIndex
<1>2. TypeOK /\ stmt.op = "insert"
  BY <1>1 DEF Base, StepsSound
<1>3. d \in Keys /\ stmt.keys = {d} /\ stmt.ctid \in CTID
  BY <1>2, InsertedKey
<1>4. /\ index' # Zeros
      /\ \A j \in Keys \ {d} : /\ HasKey(index', j) <=> HasKey(index, j)
                               /\ HasKey(index, j) => index'[j] = index[j]
      /\ HasKey(index', d)
  BY <1>1, <1>2, <1>3, IndexedLeaf
<1>5. 0 \in allowed[d]
  <2>1. ~Found(d)
    BY <1>1, <1>3 DEF MemoryHolds, StatementSound, Inserting
  <2>2. MemoryRow(d) = 0
    BY <2>1 DEF Found, MemoryRow, RowIn, HasKey
  <2>3. MemoryRow(d) \in allowed[d]
    BY <1>1, <1>3 DEF MemoryHolds, Recovering
  <2> QED BY <2>2, <2>3
<1>6. LogSpeaksOfMemory'
  <2>1. Log' = Log
    BY <1>1 DEF Log, Written
  <2>2. \A j \in Keys : Meant(j)' = Meant(j)
    <3>1. \A j \in Keys : MemoryRow(j)' = Meant(j)
      BY InsertIndexKeepsMemory
    <3> QED BY <1>1, <3>1 DEF Meant
  <2> QED BY <1>1, <2>1, <2>2 DEF LogHolds, LogSpeaksOfMemory
<1>7. RowsKept'
  <2>1. ASSUME NEW k \in Keys, NEW row \in 1 .. MaxRows, allowed[k] = {row}
        PROVE  /\ k # d
               /\ \/ \E i \in DOMAIN log_file : log_file[i].key = k /\ log_file[i].row = row
                  \/ /\ HasKey(index, k) /\ LiveIn(heap_disk, index[k])
                     /\ TupleIn(heap_disk, index[k]).key = k
                     /\ TupleIn(heap_disk, index[k]).row = row
    BY <1>5, <2>1 DEF LogHolds, RowsKept, Found, HasKey
  <2>2. ASSUME NEW k \in Keys, NEW row \in 1 .. MaxRows, allowed[k] = {row}
        PROVE  \/ \E i \in DOMAIN log_file : log_file[i].key = k /\ log_file[i].row = row
               \/ /\ HasKey(index', k) /\ LiveIn(heap_disk, index'[k])
                  /\ TupleIn(heap_disk, index'[k]).key = k
                  /\ TupleIn(heap_disk, index'[k]).row = row
    BY <1>4, <2>1, <2>2
  <2> QED BY <1>1, <2>2 DEF RowsKept, Found, HasKey
<1>8. DeletionsKept'
  <2>1. \A j \in Keys : HasKey(index, j) => HasKey(index', j)
    BY <1>4
  <2>2. \A k : /\ WillBeLogged(k)' <=> WillBeLogged(k)
               /\ IsLogged(k)' <=> IsLogged(k)
    BY <1>1 DEF WillBeLogged, IsLogged
  <2> QED BY <1>1, <1>4, <2>1, <2>2 DEF LogHolds, DeletionsKept, LoggedWithPage
<1> QED
  BY <1>6, <1>7, <1>8 DEF LogHolds

(* What is dead after a DELETE was so before, or was marked by it.         *)
LEMMA DeadUnderMark ==
    ASSUME TypeOK, NEW p \in Pages, NEW ks, NEW c \in CTID, DeadIn(MarkedOn(heap, p, ks), c)
    PROVE  /\ TupleIn(MarkedOn(heap, p, ks), c).key = TupleIn(heap, c).key
           /\ \/ DeadIn(heap, c)
              \/ c[1] = p /\ LiveIn(heap, c) /\ TupleIn(heap, c).key \in ks
<1>1. heap \in [Pages -> Seq(Slot)]
  BY DEF TypeOK
<1>2. c[1] \in Pages
  BY CTIDsAre
<1>3. CASE c[1] # p
  <2>1. MarkedOn(heap, p, ks)[c[1]] = heap[c[1]]
    BY <1>1, <1>2, <1>3 DEF MarkedOn
  <2> QED BY <2>1 DEF DeadIn, TupleIn
<1>4. CASE c[1] = p
  <2> DEFINE t == heap[p]
             m == Marked(t, ks)
  <2>1. MarkedOn(heap, p, ks)[p] = m /\ t \in Seq(Slot)
    BY <1>1 DEF MarkedOn
  <2>2. DOMAIN m = DOMAIN t /\ \A i \in DOMAIN t : m[i] = [t[i] EXCEPT !.live = @ /\ t[i].key \notin ks]
    BY DEF Marked
  <2> HIDE DEF m
  <2>3. c[2] \in DOMAIN t /\ ~m[c[2]].live
    BY <1>4, <2>1, <2>2 DEF DeadIn
  <2>4. t[c[2]] \in Slot
    BY <2>1, <2>3
  <2>5. m[c[2]].key = t[c[2]].key /\ (m[c[2]].live <=> t[c[2]].live /\ t[c[2]].key \notin ks)
    BY <2>2, <2>3, <2>4 DEF Slot
  <2> QED BY <1>4, <2>1, <2>3, <2>5 DEF DeadIn, LiveIn, TupleIn
<1> QED
  BY <1>3, <1>4

(* A DELETE finds what is live of its keys on the page.                    *)
LEMMA VictimsFound ==
    ASSUME TypeOK, NEW p \in Pages, NEW ks, NEW c \in CTID, c[1] = p, LiveIn(heap, c),
           TupleIn(heap, c).key \in ks
    PROVE  TupleIn(heap, c).key \in KeysOf(Victims(p, ks))
<1> DEFINE found == Victims(p, ks)
<1>1. /\ found \in Seq(Slot) /\ DOMAIN found = 1 .. Len(found)
      /\ \E place \in [1 .. Len(found) -> 1 .. PageSlots] :
            /\ \A i \in 1 .. Len(found) : TupleIn(heap, <<p, place[i]>>) = found[i]
            /\ \E i \in 1 .. Len(found) : place[i] = c[2]
  BY VictimsAre
<1> HIDE DEF found
<1>2. PICK place \in [1 .. Len(found) -> 1 .. PageSlots] :
            /\ \A i \in 1 .. Len(found) : TupleIn(heap, <<p, place[i]>>) = found[i]
            /\ \E i \in 1 .. Len(found) : place[i] = c[2]
  BY <1>1
<1>3. PICK i \in 1 .. Len(found) : place[i] = c[2]
  BY <1>2
<1>4. c = <<p, place[i]>>
  BY <1>3, CTIDsAre
<1>5. TupleIn(heap, c) = found[i]
  BY <1>2, <1>4
<1>6. TupleIn(heap, c).key \in KeysOf(found)
  BY <1>1, <1>5 DEF KeysOf
<1> QED
  BY <1>6 DEF found

(* The deletions of a page are in the log before the page can be written.  *)
LEMMA DeleteOnPageKeepsLog ==
    ASSUME Base, MemoryHolds, LogHolds, DeleteOnPage
    PROVE  LogHolds'
<1> DEFINE found == Victims(at, stmt.keys)
           hit == KeysOf(found)
           u == DeletionsOf(found)
<1>1. DeletesFrom(at, found) /\ TypeOK /\ TypeOK'
  BY DeleteOnPageIs, DeleteOnPageKeepsBase DEF Base
<1>2. /\ pc = "delete" /\ pc' = "delete" /\ at \in Pages
      /\ heap' = MarkedOn(heap, at, stmt.keys)
      /\ index' = IndexWithout(hit)
      /\ log_buffer' = log_buffer \o u
      /\ page_lsn' = IF found = <<>> THEN page_lsn
                     ELSE [page_lsn EXCEPT ![at] = Len(log_buffer')]
      /\ allowed' = [k \in Keys |-> IF k \in hit THEN allowed[k] \union {0} ELSE allowed[k]]
      /\ UNCHANGED <<fileVars, log_file, torn>>
  BY <1>1 DEF DeletesFrom, MarkedOn
<1>3. found \in Seq(Slot) /\ \A c \in CTID : c[1] = at /\ LiveIn(heap, c) /\ TupleIn(heap, c).key \in stmt.keys
                                 => TupleIn(heap, c).key \in hit
  BY <1>1, <1>2, VictimsAre, VictimsFound
<1>4. \A k \in Keys : MemoryRow(k)' = IF k \in hit THEN 0 ELSE MemoryRow(k)
  BY DeleteOnPageKeepsMemory
<1>5. stmt'.op = "delete"
  BY <1>2, DeleteOnPageKeepsBase DEF Base, StepsSound
<1> HIDE DEF found
<1>6. /\ u \in Seq(Record) /\ Len(u) = Len(found) /\ Len(u) \in Nat
      /\ \A i \in 1 .. Len(u) : u[i].op = "delete"
      /\ \A k : k \in hit <=> \E i \in 1 .. Len(u) : u[i].key = k
      /\ hit \subseteq Keys
  <2>1. /\ u \in Seq(Record) /\ Len(u) = Len(found)
        /\ \A i \in 1 .. Len(found) : u[i].op = "delete" /\ u[i].key = found[i].key
        /\ \A k : k \in hit <=> \E i \in 1 .. Len(found) : found[i].key = k
        /\ hit \subseteq Keys
    BY <1>3, DeletionsAre
  <2> HIDE DEF u, hit
  <2> QED BY <2>1
<1> HIDE DEF u, hit
<1>7. /\ ~torn /\ ~torn'
      /\ Log' = Log \o u
      /\ \A i \in 1 .. Len(u) :
            u[i].op = "delete" => DeletionLogged(log_file', log_buffer', Len(log_buffer'), u[i].key)
      /\ Len(log_buffer') \in Nat /\ Len(log_buffer') >= Len(log_buffer)
  <2>1. ~torn
    BY DEF LogHolds, LogSpeaksOfMemory
  <2>2. u \in Seq(Record) /\ log_buffer' = log_buffer \o u /\ UNCHANGED <<log_file, torn>>
    BY <1>2, <1>6
  <2> QED BY <1>1, <2>1, <2>2, LogGrows
<1>8. \A k \in hit : DeletionLogged(log_file', log_buffer', Len(log_buffer'), k)
  BY <1>6, <1>7
<1>9. \A k \in Keys : MemoryRow(k) \in allowed[k]
  BY <1>2 DEF MemoryHolds, Recovering
<1>10. LogSpeaksOfMemory'
  <2>1. \A k \in Keys : Meant(k)' = IF k \in hit THEN 0 ELSE Meant(k)
    BY <1>2, <1>4 DEF Meant
  <2>2. Log \in Seq(Record)
    BY <1>1, LogIs
  <2>3. ASSUME NEW k \in Keys, k \notin hit PROVE LastWord(Log', k) \subseteq {Meant(k)'}
    <3>1. \A i \in 1 .. Len(u) : u[i].key # k
      BY <1>6, <2>3
    <3>2. LastWord(Log \o u, k) \subseteq LastWord(Log, k)
      BY <1>6, <2>2, <3>1, WordsAdded
    <3> QED BY <1>7, <2>1, <2>3, <3>2 DEF LogHolds, LogSpeaksOfMemory
  <2>4. ASSUME NEW k \in Keys, k \in hit PROVE LastWord(Log', k) \subseteq {Meant(k)'}
    <3>1. /\ \E i \in 1 .. Len(u) : u[i].key = k
          /\ \A i \in 1 .. Len(u) : u[i].key = k => Word(u[i]) = 0
      BY <1>6, <2>4 DEF Word
    <3>2. LastWord(Log \o u, k) \subseteq {0}
      BY <1>6, <2>2, <3>1, WordsAdded
    <3> QED BY <1>7, <2>1, <2>4, <3>2
  <2> QED BY <1>5, <1>7, <2>3, <2>4 DEF LogSpeaksOfMemory
<1>11. \A k \in Keys : /\ allowed'[k] = {0} => allowed[k] = {0}
                       /\ \A row \in 1 .. MaxRows :
                             allowed'[k] = {row} => k \notin hit /\ allowed[k] = {row}
  <2> SUFFICES ASSUME NEW k \in Keys
               PROVE  /\ allowed'[k] = {0} => allowed[k] = {0}
                      /\ \A row \in 1 .. MaxRows :
                            allowed'[k] = {row} => k \notin hit /\ allowed[k] = {row}
    OBVIOUS
  <2>1. MemoryRow(k) \in allowed[k]
    BY <1>9
  <2>2. allowed'[k] = IF k \in hit THEN allowed[k] \union {0} ELSE allowed[k]
    BY <1>2
  <2> QED BY <2>1, <2>2
<1>12. /\ index' = Zeros <=> index = Zeros
       /\ \A j \in Keys : /\ HasKey(index', j) <=> HasKey(index, j) /\ j \notin hit
                          /\ HasKey(index', j) => index'[j] = index[j]
  BY <1>1, <1>2, UnindexedLeaf
<1>13. RowsKept'
  <2>1. ASSUME NEW k \in Keys, NEW row \in 1 .. MaxRows, allowed'[k] = {row}
        PROVE  \/ \E i \in DOMAIN log_file : log_file[i].key = k /\ log_file[i].row = row
               \/ /\ HasKey(index', k) /\ LiveIn(heap_disk, index'[k])
                  /\ TupleIn(heap_disk, index'[k]).key = k
                  /\ TupleIn(heap_disk, index'[k]).row = row
    <3>1. k \notin hit /\ allowed[k] = {row}
      BY <1>11, <2>1
    <3>2. \/ \E i \in DOMAIN log_file : log_file[i].key = k /\ log_file[i].row = row
          \/ /\ HasKey(index, k) /\ LiveIn(heap_disk, index[k])
             /\ TupleIn(heap_disk, index[k]).key = k
             /\ TupleIn(heap_disk, index[k]).row = row
      BY <3>1 DEF LogHolds, RowsKept, Found, HasKey
    <3> QED BY <1>12, <3>1, <3>2
  <2>2. UNCHANGED <<heap_disk, log_file>>
    BY <1>2
  <2> QED BY <2>1, <2>2 DEF RowsKept, Found, HasKey
<1>14. DeletionsKept'
  <2>1. /\ \A k : WillBeLogged(k) => DeletionLogged(log_file', log_buffer', Len(log_buffer'), k)
        /\ \A k : IsLogged(k) => DeletionLogged(log_file', log_buffer', 0, k)
        /\ \A k : \A p \in Pages : \A n \in page_lsn[p] .. Len(log_buffer') :
              LoggedWithPage(p, k) => DeletionLogged(log_file', log_buffer', n, k)
    BY <1>1, <1>2, <1>6, DeletionsStayLogged
  <2>2. /\ page_lsn \in [Pages -> 0 .. Len(log_buffer)] /\ page_lsn' \in [Pages -> 0 .. Len(log_buffer')]
        /\ Len(log_buffer) \in Nat
    BY <1>1 DEF TypeOK
  <2>3. found # <<>> => page_lsn'[at] = Len(log_buffer')
    BY <1>2, <2>2
  <2>4. \A p \in Pages : page_lsn'[p] \in page_lsn[p] .. Len(log_buffer')
    BY <1>2, <1>7, <2>2, <2>3
  <2>5. \A c \in CTID : c[1] \in Pages
    BY CTIDsAre
  <2>6. \A k : /\ WillBeLogged(k)' <=> DeletionLogged(log_file', log_buffer', Len(log_buffer'), k)
               /\ IsLogged(k)' <=> DeletionLogged(log_file', log_buffer', 0, k)
    BY DEF WillBeLogged, IsLogged
  <2>7. /\ \A c \in CTID : LiveIn(heap', c) <=>
              LiveIn(heap, c) /\ ~ (c[1] = at /\ TupleIn(heap, c).key \in stmt.keys)
        /\ \A c \in CTID : LiveIn(heap, c) => TupleIn(heap', c).key = TupleIn(heap, c).key
    <3> DEFINE h == MarkedOn(heap, at, stmt.keys)
    <3>1. heap \in [Pages -> Seq(Slot)] /\ \A q \in Pages : Len(heap[q]) <= PageSlots
      BY <1>1 DEF TypeOK
    <3>2. /\ \A c \in CTID : LiveIn(h, c) <=>
                LiveIn(heap, c) /\ ~ (c[1] = at /\ TupleIn(heap, c).key \in stmt.keys)
          /\ \A c \in CTID : LiveIn(heap, c) => TupleIn(h, c).key = TupleIn(heap, c).key
      <4>1. at \in Pages
        BY <1>2
      <4> QED BY <3>1, <4>1, TuplesMarked
    <3>3. heap' = h
      BY <1>2
    <3> HIDE DEF h
    <3> QED BY <3>2, <3>3, Zenon
  <2>8. ASSUME NEW c \in CTID, LiveIn(heap_disk, c), NEW k, k = TupleIn(heap_disk, c).key
        PROVE  /\ (LiveIn(heap', c) /\ TupleIn(heap', c).key = k) \/ WillBeLogged(k)'
               /\ allowed'[k] = {0} => IsLogged(k)'
    <3>1. /\ (LiveIn(heap, c) /\ TupleIn(heap, c).key = k) \/ WillBeLogged(k)
          /\ allowed[k] = {0} => IsLogged(k)
      BY <2>8 DEF LogHolds, DeletionsKept
    <3>2. k \in Keys
      BY <1>1, <2>8, DiskTuple
    <3>3. CASE k \in hit
      BY <1>8, <1>11, <2>1, <2>6, <3>1, <3>2, <3>3
    <3>4. CASE k \notin hit
      <4>1. LiveIn(heap, c) /\ TupleIn(heap, c).key = k => ~ (c[1] = at /\ k \in stmt.keys)
        BY <1>3, <3>4 DEF hit
      <4> QED BY <1>11, <2>1, <2>6, <2>7, <3>1, <3>2, <4>1
    <3> QED BY <3>3, <3>4
  <2>9. ASSUME NEW c \in CTID, DeadIn(heap', c), ~DeadIn(heap_disk, c)
        PROVE  DeletionLogged(log_file', log_buffer', page_lsn'[c[1]], TupleIn(heap', c).key)
    <3> DEFINE k == TupleIn(heap, c).key
    <3>1. /\ TupleIn(heap', c).key = k
          /\ DeadIn(heap, c) \/ (c[1] = at /\ LiveIn(heap, c) /\ k \in stmt.keys)
      BY <1>1, <1>2, <2>9, DeadUnderMark
    <3>2. CASE DeadIn(heap, c)
      <4>1. LoggedWithPage(c[1], k)
        BY <2>9, <3>2 DEF LogHolds, DeletionsKept
      <4> QED BY <2>1, <2>4, <2>5, <3>1, <4>1
    <3>3. CASE c[1] = at /\ LiveIn(heap, c) /\ k \in stmt.keys
      <4>1. k \in hit
        BY <1>3, <3>3
      <4>2. found # <<>>
        BY <1>6, <4>1
      <4> QED BY <1>8, <2>3, <3>1, <3>3, <4>1, <4>2
    <3> QED BY <3>1, <3>2, <3>3
  <2>10. ASSUME NEW k \in Keys, HasKey(index_disk, k), ~HasKey(index', k)
         PROVE  WillBeLogged(k)'
    <3>1. ~HasKey(index, k) \/ k \in hit
      BY <1>12, <2>10
    <3> QED BY <1>8, <2>1, <2>6, <2>10, <3>1 DEF LogHolds, DeletionsKept
  <2> QED BY <1>2, <1>12, <2>8, <2>9, <2>10 DEF LogHolds, DeletionsKept, LoggedWithPage
<1> QED
  BY <1>10, <1>13, <1>14 DEF LogHolds

(* Deletions that are logged stay so when a part of the log is forced, and *)
(* those of that part are in the file.                                     *)
LEMMA DeletionsForced ==
    ASSUME TypeOK, LogHolds, NEW n \in 0 .. Len(log_buffer), ForceTo(n)
    PROVE  /\ \A k : WillBeLogged(k) => DeletionLogged(log_file', log_buffer', Len(log_buffer'), k)
           /\ \A k : IsLogged(k) => DeletionLogged(log_file', log_buffer', 0, k)
           /\ \A k : \A p \in Pages : LoggedWithPage(p, k) =>
                 /\ DeletionLogged(log_file', log_buffer', page_lsn'[p], k)
                 /\ page_lsn[p] <= n => DeletionLogged(log_file', log_buffer', 0, k)
           /\ \A k : n = Len(log_buffer) /\ WillBeLogged(k)
                 => DeletionLogged(log_file', log_buffer', 0, k)
<1> DEFINE l == Len(log_buffer)
<1>1. page_lsn \in [Pages -> 0 .. l] /\ l \in Nat /\ n \in Nat
  BY DEF TypeOK
<1>2. \A k : \A m \in 0 .. Len(log_buffer) :
         DeletionLogged(log_file, log_buffer, m, k) =>
            /\ DeletionLogged(log_file', log_buffer', Minus(m, n), k)
            /\ m <= n => DeletionLogged(log_file', log_buffer', 0, k)
  BY ForceKeepsLog DEF LogHolds, LogSpeaksOfMemory
<1>3. Minus(l, n) = Len(log_buffer') /\ Minus(0, n) = 0
  <2>1. Len(log_buffer') = l - n
    BY LogForced
  <2> QED BY <1>1, <2>1 DEF Minus
<1>4. \A p \in Pages : page_lsn'[p] = Minus(page_lsn[p], n)
  BY DEF ForceTo
<1>5. l \in 0 .. l /\ 0 \in 0 .. l /\ \A p \in Pages : page_lsn[p] \in 0 .. l
  BY <1>1
<1>6. ASSUME NEW k, WillBeLogged(k)
      PROVE  /\ DeletionLogged(log_file', log_buffer', Len(log_buffer'), k)
             /\ n = l => DeletionLogged(log_file', log_buffer', 0, k)
  <2>1. DeletionLogged(log_file, log_buffer, l, k)
    BY <1>6 DEF WillBeLogged
  <2>2. n = l => l <= n
    BY <1>1
  <2> QED BY <1>2, <1>3, <1>5, <2>1, <2>2
<1>7. ASSUME NEW k, IsLogged(k) PROVE DeletionLogged(log_file', log_buffer', 0, k)
  BY <1>2, <1>3, <1>5, <1>7 DEF IsLogged
<1>8. ASSUME NEW k, NEW p \in Pages, LoggedWithPage(p, k)
      PROVE  /\ DeletionLogged(log_file', log_buffer', page_lsn'[p], k)
             /\ page_lsn[p] <= n => DeletionLogged(log_file', log_buffer', 0, k)
  BY <1>2, <1>4, <1>5, <1>8 DEF LoggedWithPage
<1> QED
  BY <1>6, <1>7, <1>8, Zenon

(* The log reaches its file, and with it what the statement promises.      *)
LEMMA CommitKeepsLog ==
    ASSUME Base, MemoryHolds, LogHolds, Commit
    PROVE  LogHolds'
<1>1. TypeOK /\ pc = "commit" /\ ForceLog /\ Returns /\ ~torn
  BY DEF Base, Commit, LogHolds, LogSpeaksOfMemory
<1>2. /\ pc' = "idle" /\ allowed' = Promised
      /\ UNCHANGED <<heap, index, heap_disk, index_disk>>
  BY <1>1, ReturnsAre
<1>3. /\ log_file' = Log /\ log_buffer' = <<>> /\ torn' = torn
  BY <1>1, AllForced
<1>4. Len(log_buffer) \in 0 .. Len(log_buffer) /\ ForceTo(Len(log_buffer))
  BY <1>1 DEF ForceLog, TypeOK
<1>5. /\ Log' = Log /\ ~torn'
      /\ \A i \in DOMAIN log_file : i \in DOMAIN log_file' /\ log_file'[i] = log_file[i]
  BY <1>1, <1>4, ForceKeepsLog
<1>6. \A k \in Keys : allowed'[k] = IF stmt.op = "insert" /\ k \in stmt.keys THEN {stmt.row}
                                    ELSE IF stmt.op = "delete" /\ k \in stmt.keys THEN {0}
                                    ELSE allowed[k]
  BY <1>2 DEF Promised
<1>7. stmt.op = "insert" => stmt.row # 0 /\ stmt.keys \subseteq Keys
  BY <1>1, InsertedKey
<1>8. LogSpeaksOfMemory'
  <2>1. \A k \in Keys : Meant(k)' = Meant(k)
    BY <1>1, <1>2 DEF Meant, MemoryRow
  <2> QED BY <1>2, <1>5, <2>1 DEF LogHolds, LogSpeaksOfMemory
<1>9. RowsKept'
  <2>1. ASSUME NEW k \in Keys, NEW row \in 1 .. MaxRows, allowed'[k] = {row}
        PROVE  \/ \E i \in DOMAIN log_file' : log_file'[i].key = k /\ log_file'[i].row = row
               \/ /\ Found(k) /\ LiveIn(heap_disk, index[k])
                  /\ TupleIn(heap_disk, index[k]).key = k
                  /\ TupleIn(heap_disk, index[k]).row = row
    <3>1. CASE stmt.op = "insert" /\ k \in stmt.keys
      <4>1. row = stmt.row
        BY <1>6, <2>1, <3>1
      <4>2. \E i \in DOMAIN Log : Log[i].key = k /\ Log[i].row = stmt.row
        BY <1>1, <3>1 DEF LogHolds, LogSpeaksOfMemory
      <4> QED BY <1>3, <4>1, <4>2
    <3>2. CASE ~(stmt.op = "insert" /\ k \in stmt.keys)
      <4>1. allowed[k] = {row}
        <5>1. row # 0
          OBVIOUS
        <5> QED BY <1>6, <2>1, <3>2, <5>1
      <4>2. \/ \E i \in DOMAIN log_file : log_file[i].key = k /\ log_file[i].row = row
            \/ /\ Found(k) /\ LiveIn(heap_disk, index[k])
               /\ TupleIn(heap_disk, index[k]).key = k
               /\ TupleIn(heap_disk, index[k]).row = row
        BY <4>1 DEF LogHolds, RowsKept
      <4> QED BY <1>5, <4>2
    <3> QED BY <3>1, <3>2
  <2> QED BY <1>2, <2>1 DEF RowsKept, Found
<1>10. DeletionsKept'
  <2>1. /\ \A k : WillBeLogged(k) => DeletionLogged(log_file', log_buffer', Len(log_buffer'), k)
        /\ \A k : IsLogged(k) => DeletionLogged(log_file', log_buffer', 0, k)
        /\ \A k : \A p \in Pages : LoggedWithPage(p, k) =>
              DeletionLogged(log_file', log_buffer', page_lsn'[p], k)
        /\ \A k : WillBeLogged(k) => DeletionLogged(log_file', log_buffer', 0, k)
    BY <1>1, <1>4, DeletionsForced
  <2>2. \A k : /\ WillBeLogged(k)' <=> DeletionLogged(log_file', log_buffer', Len(log_buffer'), k)
               /\ IsLogged(k)' <=> DeletionLogged(log_file', log_buffer', 0, k)
    BY DEF WillBeLogged, IsLogged
  <2>3. ASSUME NEW c \in CTID, LiveIn(heap_disk, c), NEW k, k = TupleIn(heap_disk, c).key
        PROVE  /\ (LiveIn(heap, c) /\ TupleIn(heap, c).key = k) \/ WillBeLogged(k)'
               /\ allowed'[k] = {0} => IsLogged(k)'
    <3>1. /\ (LiveIn(heap, c) /\ TupleIn(heap, c).key = k) \/ WillBeLogged(k)
          /\ allowed[k] = {0} => IsLogged(k)
      BY <2>3 DEF LogHolds, DeletionsKept
    <3>2. k \in Keys
      BY <1>1, <2>3, DiskTuple
    <3>3. ASSUME allowed'[k] = {0} PROVE IsLogged(k)'
      <4>1. allowed[k] = {0} \/ (stmt.op = "delete" /\ k \in stmt.keys)
        BY <1>6, <1>7, <3>2, <3>3
      <4>2. CASE stmt.op = "delete" /\ k \in stmt.keys
        <5>1. ~Found(k)
          BY <1>1, <4>2 DEF MemoryHolds, StatementSound
        <5>2. ~ (LiveIn(heap, c) /\ TupleIn(heap, c).key = k)
          BY <1>1, <5>1, CTIDsAre DEF MemoryHolds, Agree, Inserting, Found
        <5> QED BY <2>1, <2>2, <3>1, <5>2
      <4> QED BY <2>1, <2>2, <3>1, <4>1, <4>2
    <3> QED BY <2>1, <2>2, <3>1, <3>3
  <2>4. \A c \in CTID : c[1] \in Pages
    BY CTIDsAre
  <2>5. ASSUME NEW c \in CTID, DeadIn(heap, c), ~DeadIn(heap_disk, c)
        PROVE  DeletionLogged(log_file', log_buffer', page_lsn'[c[1]], TupleIn(heap, c).key)
    BY <2>1, <2>4, <2>5 DEF LogHolds, DeletionsKept
  <2>6. ASSUME NEW k \in Keys, HasKey(index_disk, k), ~HasKey(index, k)
        PROVE  WillBeLogged(k)'
    BY <2>1, <2>2, <2>6 DEF LogHolds, DeletionsKept
  <2>7. index_disk # Zeros => index # Zeros
    BY DEF LogHolds, DeletionsKept
  <2> QED BY <1>2, <2>3, <2>5, <2>6, <2>7 DEF DeletionsKept, LoggedWithPage
<1> QED
  BY <1>8, <1>9, <1>10 DEF LogHolds

(* Some pages of the heap reach their file, maybe the index, and a part of *)
(* the log.                                                                *)
Writes(written, n) ==
    /\ heap_disk' \in [Pages -> Seq(Slot)]
    /\ \A p \in Pages : heap_disk'[p] = IF p \in written THEN heap[p] ELSE heap_disk[p]
    /\ index_disk' \in {index, index_disk}
    /\ n \in 0 .. Len(log_buffer) /\ ForceTo(n)
    /\ UNCHANGED <<heap, index, allowed>>

(* A tuple that is live in memory belongs to a key that may have a row.    *)
LEMMA LiveIsAllowed ==
    ASSUME Base, MemoryHolds, ~Recovering, NEW c \in CTID, LiveIn(heap, c)
    PROVE  allowed[TupleIn(heap, c).key] # {0}
<1> DEFINE k == TupleIn(heap, c).key
<1>1. TypeOK /\ k \in Keys /\ TupleIn(heap, c).row \in 1 .. MaxRows
  BY LiveTuple DEF Base
<1>2. CASE Inserting /\ c = stmt.ctid
  <2>1. stmt.op = "insert"
    BY <1>2 DEF Base, StepsSound, Inserting
  <2>2. KeyOf(stmt) \in stmt.keys /\ stmt.row \in 1 .. MaxRows /\ stmt.row \in allowed[KeyOf(stmt)]
    BY <2>1, InsertedKey
  <2>3. k = KeyOf(stmt)
    BY <1>2, <2>2 DEF MemoryHolds, StatementSound
  <2>4. stmt.row # 0
    BY <2>2
  <2> QED BY <2>2, <2>3, <2>4
<1>3. CASE ~ (Inserting /\ c = stmt.ctid)
  <2>1. index # Zeros /\ index[k] = c
    BY <1>3 DEF MemoryHolds, Agree
  <2>2. MemoryRow(k) = TupleIn(heap, c).row
    BY <2>1, CTIDsAre DEF MemoryRow, RowIn, HasKey
  <2>3. MemoryRow(k) \in allowed[k] /\ MemoryRow(k) # 0
    BY <1>1, <2>2 DEF MemoryHolds
  <2> QED BY <2>3
<1> QED
  BY <1>2, <1>3

LEMMA WritesKeepLog ==
    ASSUME Base, MemoryHolds, LogHolds, ~Recovering, NEW written, NEW n, Writes(written, n),
           UNCHANGED <<pc, stmt>> \/ (pc = "checkpoint" /\ pc' = "truncate")
    PROVE  LogHolds'
<1>1. TypeOK /\ ~torn /\ n \in 0 .. Len(log_buffer) /\ ForceTo(n)
      /\ UNCHANGED <<heap, index, allowed>>
  BY DEF Base, LogHolds, LogSpeaksOfMemory, Writes
<1>2. /\ Log' = Log /\ ~torn'
      /\ \A i \in DOMAIN log_file : i \in DOMAIN log_file' /\ log_file'[i] = log_file[i]
  BY <1>1, ForceKeepsLog
<1>3. \A c \in CTID :
         /\ c[1] \in Pages
         /\ LiveIn(heap_disk', c) <=> IF c[1] \in written THEN LiveIn(heap, c) ELSE LiveIn(heap_disk, c)
         /\ DeadIn(heap_disk', c) <=> IF c[1] \in written THEN DeadIn(heap, c) ELSE DeadIn(heap_disk, c)
         /\ TupleIn(heap_disk', c) = IF c[1] \in written THEN TupleIn(heap, c) ELSE TupleIn(heap_disk, c)
  <2> SUFFICES ASSUME NEW c \in CTID
      PROVE  /\ c[1] \in Pages
             /\ LiveIn(heap_disk', c) <=> IF c[1] \in written THEN LiveIn(heap, c) ELSE LiveIn(heap_disk, c)
             /\ DeadIn(heap_disk', c) <=> IF c[1] \in written THEN DeadIn(heap, c) ELSE DeadIn(heap_disk, c)
             /\ TupleIn(heap_disk', c) = IF c[1] \in written THEN TupleIn(heap, c) ELSE TupleIn(heap_disk, c)
    OBVIOUS
  <2>1. c[1] \in Pages
    BY CTIDsAre
  <2>2. heap_disk'[c[1]] = IF c[1] \in written THEN heap[c[1]] ELSE heap_disk[c[1]]
    BY <2>1 DEF Writes
  <2> QED BY <2>1, <2>2 DEF LiveIn, DeadIn, TupleIn
<1>4. LogSpeaksOfMemory'
  <2>1. \A k \in Keys : Meant(k)' = Meant(k)
    BY <1>1 DEF Meant, MemoryRow
  <2> QED BY <1>2, <2>1 DEF LogHolds, LogSpeaksOfMemory
<1>5. RowsKept'
  <2>1. ASSUME NEW k \in Keys, NEW row \in 1 .. MaxRows, allowed[k] = {row}
        PROVE  \/ \E i \in DOMAIN log_file' : log_file'[i].key = k /\ log_file'[i].row = row
               \/ /\ Found(k) /\ LiveIn(heap_disk', index[k])
                  /\ TupleIn(heap_disk', index[k]).key = k
                  /\ TupleIn(heap_disk', index[k]).row = row
    <3>1. CASE \E i \in DOMAIN log_file : log_file[i].key = k /\ log_file[i].row = row
      BY <1>2, <3>1
    <3>2. CASE /\ Found(k) /\ LiveIn(heap_disk, index[k])
               /\ TupleIn(heap_disk, index[k]).key = k
               /\ TupleIn(heap_disk, index[k]).row = row
      <4> DEFINE c == index[k]
      <4>1. HasKey(index, k) /\ c \in CTID
        BY <1>1, <3>2, IndexLeads DEF Found, HasKey
      <4>2. LiveIn(heap, c) /\ TupleIn(heap, c).key = k
        BY <4>1 DEF MemoryHolds, Agree
      <4>3. TupleIn(heap, c).row = row
        BY <2>1, <4>1 DEF MemoryHolds, MemoryRow, RowIn
      <4> HIDE DEF c
      <4> QED BY <1>3, <3>2, <4>1, <4>2, <4>3 DEF c
    <3> QED BY <2>1, <3>1, <3>2 DEF LogHolds, RowsKept
  <2> QED BY <1>1, <2>1 DEF RowsKept, Found
<1>6. DeletionsKept'
  <2>1. /\ \A k : WillBeLogged(k) => DeletionLogged(log_file', log_buffer', Len(log_buffer'), k)
        /\ \A k : IsLogged(k) => DeletionLogged(log_file', log_buffer', 0, k)
        /\ \A k : \A p \in Pages : LoggedWithPage(p, k) =>
              DeletionLogged(log_file', log_buffer', page_lsn'[p], k)
    BY <1>1, DeletionsForced
  <2>2. \A k : /\ WillBeLogged(k)' <=> DeletionLogged(log_file', log_buffer', Len(log_buffer'), k)
               /\ IsLogged(k)' <=> DeletionLogged(log_file', log_buffer', 0, k)
    BY DEF WillBeLogged, IsLogged
  <2>3. ASSUME NEW c \in CTID, LiveIn(heap_disk', c), NEW k, k = TupleIn(heap_disk', c).key
        PROVE  /\ (LiveIn(heap, c) /\ TupleIn(heap, c).key = k) \/ WillBeLogged(k)'
               /\ allowed[k] = {0} => IsLogged(k)'
    <3>1. CASE c[1] \in written
      <4>1. LiveIn(heap, c) /\ TupleIn(heap, c).key = k
        BY <1>3, <2>3, <3>1
      <4> QED BY <4>1, LiveIsAllowed
    <3>2. CASE c[1] \notin written
      <4>1. LiveIn(heap_disk, c) /\ TupleIn(heap_disk, c).key = k
        BY <1>3, <2>3, <3>2
      <4>2. /\ (LiveIn(heap, c) /\ TupleIn(heap, c).key = k) \/ WillBeLogged(k)
            /\ allowed[k] = {0} => IsLogged(k)
        BY <4>1 DEF LogHolds, DeletionsKept
      <4> QED BY <2>1, <2>2, <4>2
    <3> QED BY <3>1, <3>2
  <2>4. ASSUME NEW c \in CTID, DeadIn(heap, c), ~DeadIn(heap_disk', c)
        PROVE  DeletionLogged(log_file', log_buffer', page_lsn'[c[1]], TupleIn(heap, c).key)
    <3>1. ~DeadIn(heap_disk, c)
      BY <1>3, <2>4
    <3>2. LoggedWithPage(c[1], TupleIn(heap, c).key)
      BY <2>4, <3>1 DEF LogHolds, DeletionsKept
    <3> QED BY <1>3, <2>1, <3>2
  <2>5. index_disk' # Zeros => index # Zeros
    BY DEF Writes, LogHolds, DeletionsKept
  <2>6. ASSUME NEW k \in Keys, HasKey(index_disk', k), ~HasKey(index, k)
        PROVE  WillBeLogged(k)'
    <3>1. index_disk' = index_disk
      BY <2>6 DEF Writes
    <3>2. WillBeLogged(k)
      BY <2>6, <3>1 DEF LogHolds, DeletionsKept
    <3> QED BY <2>1, <2>2, <3>2
  <2> QED BY <1>1, <2>3, <2>4, <2>5, <2>6 DEF DeletionsKept, LoggedWithPage
<1> QED
  BY <1>4, <1>5, <1>6 DEF LogHolds

(* The log is cut when the files are what memory is.                       *)
LEMMA CheckpointTruncateKeepsLog ==
    ASSUME Base, MemoryHolds, log_buffer = <<>>, CheckpointTruncate, ~at_risk'
    PROVE  LogHolds'
<1>1. /\ pc = "truncate" /\ pc' = "idle" /\ log_file' = <<>> /\ torn' = FALSE
      /\ at_risk' = (at_risk /\ at = 0)
      /\ UNCHANGED <<heap, index, fileVars, log_buffer, page_lsn, allowed>>
  BY DEF CheckpointTruncate
<1>2. TypeOK /\ heap = heap_disk /\ index = index_disk
  BY <1>1 DEF Base, StepsSound, Clean
<1>3. ~Recovering /\ ~Inserting
  BY <1>1 DEF Recovering, Inserting
<1>4. Log' = <<>>
  <2>1. log_file' \in Seq(Record)
    BY <1>1
  <2>2. Log' = log_file'
    BY <1>1, <2>1, EmptyBuffer
  <2> QED BY <1>1, <2>2
<1>5. LogSpeaksOfMemory'
  <2>1. \A k : LastWord(<<>>, k) = {}
    BY DEF LastWord
  <2> QED BY <1>1, <1>4, <2>1 DEF LogSpeaksOfMemory
<1>6. \A k \in Keys : MemoryRow(k) \in allowed[k]
  BY <1>3 DEF MemoryHolds
<1>7. RowsKept'
  <2>1. ASSUME NEW k \in Keys, NEW row \in 1 .. MaxRows, allowed[k] = {row}
        PROVE  /\ Found(k) /\ LiveIn(heap, index[k])
               /\ TupleIn(heap, index[k]).key = k
               /\ TupleIn(heap, index[k]).row = row
    <3>1. MemoryRow(k) = row /\ row # 0
      BY <1>6, <2>1
    <3>2. HasKey(index, k) /\ TupleIn(heap, index[k]).row = row
      BY <3>1 DEF MemoryRow, RowIn
    <3> QED BY <3>2 DEF MemoryHolds, Agree, Found, HasKey
  <2> QED BY <1>1, <1>2, <2>1 DEF RowsKept, Found
<1>8. DeletionsKept'
  <2>1. ASSUME NEW c \in CTID, LiveIn(heap, c)
        PROVE  allowed[TupleIn(heap, c).key] # {0}
    BY <1>3, <2>1, LiveIsAllowed
  <2> QED BY <1>1, <1>2, <2>1 DEF DeletionsKept
<1> QED
  BY <1>5, <1>7, <1>8 DEF LogHolds

(* The steps of statements that are about neither.                         *)
LEMMA StatementKeepsLog ==
    ASSUME Base, LogHolds,
           \/ InsertRoot \/ InsertCount \/ DeleteCount \/ BeginCheckpoint
           \/ \E ks \in SUBSET Keys : BeginDelete(ks)
    PROVE  LogHolds'
<1>1. pc = "delete" => stmt.op = "delete"
  BY DEF Base, StepsSound
<1>2. UNCHANGED <<heap, index, fileVars, logVars, allowed>>
  BY DEF InsertRoot, InsertCount, DeleteCount, BeginCheckpoint, BeginDelete
<1>3. \A k \in Keys : Meant(k)' = Meant(k)
  BY <1>2 DEF Meant, MemoryRow, InsertRoot, InsertCount, DeleteCount, BeginCheckpoint, BeginDelete
<1>4. pc' \in {"index", "catalog", "commit"} /\ stmt'.op = "insert" =>
         /\ pc \in {"index", "catalog", "commit"} /\ stmt.op = "insert"
         /\ stmt'.keys = stmt.keys /\ stmt'.row = stmt.row
  BY <1>1 DEF InsertRoot, InsertCount, DeleteCount, BeginCheckpoint, BeginDelete
<1> QED
  BY <1>2, <1>3, <1>4, LogKept

(* The steps that write pages.                                             *)
LEMMA StealHeapWrites ==
    ASSUME Base, NEW p \in Pages, StealHeap(p)
    PROVE  /\ UNCHANGED <<pc, stmt>>
           /\ \E n : Writes({p}, n) /\ page_lsn[p] <= n /\ index_disk' = index_disk
<1>1. TypeOK /\ TypeOK'
  BY StealHeapKeepsBase DEF Base
<1>2. /\ heap_disk' = [heap_disk EXCEPT ![p] = heap[p]] /\ index_disk' = index_disk
      /\ UNCHANGED <<heap, index, allowed, pc, stmt>>
      /\ IF page_lsn[p] > 0 THEN ForceTo(page_lsn[p])
         ELSE \E n \in 0 .. Len(log_buffer) : ForceTo(n)
  BY DEF StealHeap, WriteHeap
<1>3. /\ page_lsn[p] \in 0 .. Len(log_buffer)
      /\ heap_disk' \in [Pages -> Seq(Slot)]
      /\ \A q \in Pages : heap_disk'[q] = IF q \in {p} THEN heap[q] ELSE heap_disk[q]
  BY <1>1, <1>2 DEF TypeOK
<1>4. \E n \in 0 .. Len(log_buffer) : ForceTo(n) /\ page_lsn[p] <= n
  BY <1>2, <1>3
<1> QED
  BY <1>2, <1>3, <1>4 DEF Writes

LEMMA StealIndexWrites ==
    ASSUME Base, StealIndex
    PROVE  UNCHANGED <<pc, stmt>> /\ Writes({}, Len(log_buffer))
<1>1. /\ heap_disk \in [Pages -> Seq(Slot)] /\ Len(log_buffer) \in Nat
  BY DEF Base, TypeOK
<1> QED
  BY <1>1 DEF StealIndex, ForceLog, Writes

LEMMA CheckpointFlushWrites ==
    ASSUME Base, CheckpointFlush \/ CheckpointFlushFails
    PROVE  /\ pc = "checkpoint" /\ pc' = "truncate"
           /\ \E written : Writes(written, Len(log_buffer))
<1>1. /\ heap \in [Pages -> Seq(Slot)] /\ heap_disk \in [Pages -> Seq(Slot)] /\ Len(log_buffer) \in Nat
      /\ Len(log_buffer) \in 0 .. Len(log_buffer)
  BY DEF Base, TypeOK
<1>2. CASE CheckpointFlush
  <2>1. Writes(Pages, Len(log_buffer))
    BY <1>1, <1>2 DEF CheckpointFlush, ForceLog, Writes
  <2> QED BY <1>2, <2>1 DEF CheckpointFlush
<1>3. CASE CheckpointFlushFails
  <2>1. PICK written \in SUBSET (0 .. heap_pages - 1) :
           heap_disk' = [p \in Pages |-> IF p \in written THEN heap[p] ELSE heap_disk[p]]
    BY <1>3 DEF CheckpointFlushFails
  <2>2. /\ \A p \in Pages : heap_disk'[p] = IF p \in written THEN heap[p] ELSE heap_disk[p]
        /\ heap_disk' \in [Pages -> Seq(Slot)]
    BY <1>1, <2>1
  <2>3. Writes(written, Len(log_buffer))
    BY <1>1, <1>3, <2>2 DEF CheckpointFlushFails, ForceLog, Writes
  <2> QED BY <1>3, <2>3 DEF CheckpointFlushFails
<1> QED
  BY <1>2, <1>3

(* The log is right until a first crash, unless an error was ignored.      *)
LEMMA NextKeepsLog ==
    ASSUME Base, MemorySound, LogSound, Next
    PROVE  LogSound'
<1> SUFFICES ASSUME crashes' = 0 PROVE LogSound'
  BY DEF LogSound
<1>1. crashes = 0 /\ ~Crash
  <2>1. crashes \in Nat
    BY DEF Base, StepsSound
  <2> QED BY <2>1, CrashesKept DEF Crash
<1>2. /\ MemoryHolds /\ ~Recovering /\ pc \notin {"rebuild", "replay", "panicked"}
      /\ pc \notin {"index", "catalog", "delete", "commit"} => log_buffer = <<>>
      /\ ~at_risk => LogHolds
      /\ TypeOK
  BY <1>1 DEF MemorySound, MemoryTrusted, LogSound, Base, StepsSound, Recovering
<1>3. ~InsertFails /\ ~ReplayPanics /\ ~Rebuild /\ ~ReplayInsert /\ ~ReplayDelete /\ ~RecoveryEnds
  BY <1>2, NotCorrupted DEF Rebuild, ReplayInsert, ReplayDelete, RecoveryEnds, Replaying
<1>4. LogSound' <=> /\ pc' \notin {"index", "catalog", "delete", "commit"} => log_buffer' = <<>>
                    /\ ~at_risk' => LogHolds'
  BY DEF LogSound
<1>5. ASSUME NEW k \in Keys, InsertTuple(k) PROVE LogSound'
  <2>1. pc = "idle" /\ UNCHANGED <<log_buffer, at_risk>>
    BY <1>5 DEF InsertTuple
  <2> QED BY <1>2, <1>4, <1>5, <2>1, InsertTupleKeepsLog
<1>6. CASE InsertLog
  BY <1>2, <1>4, <1>6, InsertLogKeepsLog DEF InsertLog
<1>7. CASE InsertIndex
  BY <1>2, <1>4, <1>7, InsertIndexKeepsLog DEF InsertIndex
<1>8. CASE InsertRoot \/ InsertCount \/ DeleteCount
  <2>1. pc' \in {"catalog", "commit"} /\ UNCHANGED at_risk
    BY <1>8 DEF InsertRoot, InsertCount, DeleteCount
  <2> QED BY <1>2, <1>4, <1>8, <2>1, StatementKeepsLog
<1>9. CASE \E ks \in SUBSET Keys : BeginDelete(ks)
  <2>1. pc' = "delete" /\ UNCHANGED at_risk
    BY <1>9 DEF BeginDelete
  <2> QED BY <1>2, <1>4, <1>9, <2>1, StatementKeepsLog
<1>10. CASE DeleteOnPage
  BY <1>2, <1>4, <1>10, DeleteOnPageKeepsLog DEF DeleteOnPage
<1>11. CASE Commit
  <2>1. log_buffer' = <<>> /\ (at_risk => at_risk')
    BY <1>2, <1>11, AllForced DEF Commit
  <2> QED BY <1>2, <1>4, <1>11, <2>1, CommitKeepsLog
<1>12. CASE CommitFails
  BY <1>4, <1>12 DEF CommitFails
<1>13. ASSUME NEW p \in Pages, StealHeap(p) PROVE LogSound'
  <2>1. PICK n : Writes({p}, n)
    BY <1>13, StealHeapWrites
  <2>2. UNCHANGED <<pc, stmt, at_risk>>
    BY <1>13 DEF StealHeap
  <2>3. log_buffer = <<>> => log_buffer' = <<>>
    <3>1. n \in 0 .. Len(log_buffer) /\ ForceTo(n)
      BY <2>1 DEF Writes
    <3>2. /\ log_buffer' \in Seq(Record) /\ Len(log_buffer') = Len(log_buffer) - n
      BY <1>2, <3>1, LogForced
    <3> QED BY <3>1, <3>2
  <2> QED BY <1>2, <1>4, <2>1, <2>2, <2>3, WritesKeepLog
<1>14. CASE StealIndex
  <2>1. UNCHANGED <<pc, stmt, at_risk>> /\ log_buffer' = <<>>
    BY <1>2, <1>14, AllForced DEF StealIndex
  <2> QED BY <1>2, <1>4, <1>14, <2>1, StealIndexWrites, WritesKeepLog
<1>15. CASE BeginCheckpoint
  <2>1. pc = "idle" /\ UNCHANGED <<log_buffer, at_risk>>
    BY <1>15 DEF BeginCheckpoint
  <2> QED BY <1>2, <1>4, <1>15, <2>1, StatementKeepsLog
<1>16. CASE CheckpointFlush
  <2>1. UNCHANGED at_risk /\ log_buffer' = <<>>
    BY <1>2, <1>16, AllForced DEF CheckpointFlush
  <2>2. PICK written : Writes(written, Len(log_buffer))
    BY <1>16, CheckpointFlushWrites
  <2> QED BY <1>2, <1>4, <1>16, <2>1, <2>2, CheckpointFlushWrites, WritesKeepLog
<1>17. CASE CheckpointFlushFails
  <2>1. at_risk' /\ log_buffer' = <<>>
    BY <1>2, <1>17, AllForced DEF CheckpointFlushFails
  <2> QED BY <1>4, <2>1
<1>18. CASE CheckpointTruncate
  <2>1. pc = "truncate" /\ UNCHANGED log_buffer
    BY <1>18 DEF CheckpointTruncate
  <2> QED BY <1>2, <1>4, <1>18, <2>1, CheckpointTruncateKeepsLog
<1> QED
  BY <1>1, <1>3, <1>5, <1>6, <1>7, <1>8, <1>9, <1>10, <1>11, <1>12, <1>13, <1>14, <1>15,
     <1>16, <1>17, <1>18 DEF Next

LEMMA InitLogSound == Init => LogSound
<1> SUFFICES ASSUME Init PROVE LogSound
  OBVIOUS
<1>1. TypeOK
  BY InitBase DEF Base
<1>2. /\ heap = [p \in Pages |-> <<>>] /\ heap_disk = heap
      /\ index_disk = index /\ ~torn /\ pc = "idle"
      /\ log_buffer = <<>> /\ log_file = <<>>
      /\ allowed = [k \in Keys |-> {0}]
  BY DEF Init
<1>3. Log = <<>>
  BY <1>1, <1>2, LogIs
<1>4. LogSpeaksOfMemory
  BY <1>2, <1>3 DEF LogSpeaksOfMemory, LastWord
<1>5. RowsKept
  BY <1>2 DEF RowsKept
<1>6. DeletionsKept
  BY <1>2, CTIDsAre DEF DeletionsKept, LiveIn, DeadIn
<1> QED
  BY <1>2, <1>4, <1>5, <1>6 DEF LogSound, LogHolds

(* What the log says and keeps is in variables that a stutter leaves.      *)
LEMMA StutterKeepsLog == ASSUME LogSound, UNCHANGED vars PROVE LogSound'
<1> SUFFICES ASSUME crashes' = 0 PROVE LogSound'
  BY DEF LogSound
<1>1. /\ UNCHANGED <<heap, index, fileVars, logVars, allowed, pc, stmt, crashes, at_risk>>
      /\ crashes = 0
  BY DEF vars
<1>2. \A k \in Keys : Meant(k)' = Meant(k)
  BY <1>1 DEF Meant, MemoryRow
<1>3. LogHolds => LogHolds'
  BY <1>1, <1>2, LogKept
<1> QED
  BY <1>1, <1>3 DEF LogSound

(***************************************************************************)
(* Until a first crash, and unless an error of the disk was ignored, the   *)
(* log is never behind memory and the files never ahead of the log: its    *)
(* last word on a key is the row in memory, a promised row is in it or in  *)
(* the heap file, and so is the deletion of every tuple or key that memory *)
(* has lost and a file has not, as far as the LSN of its page reaches.     *)
(***************************************************************************)
THEOREM LogIsSound == Spec => []LogSound
<1>1. Init => LogSound
  BY InitLogSound
<1>2. EngineSound /\ LogSound /\ [Next]_vars => LogSound'
  <2> SUFFICES ASSUME EngineSound, LogSound, [Next]_vars PROVE LogSound'
    OBVIOUS
  <2>1. Base /\ MemorySound
    BY DEF EngineSound, Base
  <2> QED BY <2>1, NextKeepsLog, StutterKeepsLog
<1> QED
  BY <1>1, <1>2, EngineInvariant, PTL DEF Spec

LEMMA WhatIsLogged ==
    ASSUME TypeOK, EngineSound, LogSound, crashes = 0, ~at_risk
    PROVE  LogIsCurrent /\ PromisesAreOnDisk
<1>1. /\ MemoryHolds /\ ~Recovering /\ LogHolds
      /\ pc = "idle" => log_buffer = <<>>
  BY DEF EngineSound, MemorySound, MemoryTrusted, LogSound, StepsSound, Recovering
<1>2. \A k \in Keys : MemoryRow(k) \in allowed[k]
  BY <1>1 DEF MemoryHolds
<1>3. LogIsCurrent
  <2> SUFFICES ASSUME pc = "idle", NEW k \in Keys PROVE LastWord(log_file, k) \subseteq allowed[k]
    BY DEF LogIsCurrent
  <2>1. Log = log_file
    BY <1>1, LogIs
  <2>2. LastWord(Log, k) \subseteq {Meant(k)}
    BY <1>1 DEF LogHolds, LogSpeaksOfMemory
  <2>3. Meant(k) = MemoryRow(k)
    BY DEF Meant
  <2> QED BY <1>2, <2>1, <2>2, <2>3
<1>4. ASSUME NEW c \in CTID, LiveIn(heap_disk, c)
      PROVE  TupleIn(heap_disk, c) \in LiveOnDisk
  <2>1. c[1] \in Pages
    BY CTIDsAre
  <2> QED BY <1>4, <2>1 DEF LiveIn, TupleIn, LiveOnDisk, Range
<1>5. ASSUME NEW s \in LiveOnDisk
      PROVE  \E c \in CTID : LiveIn(heap_disk, c) /\ TupleIn(heap_disk, c) = s
  <2>1. PICK p \in Pages : s \in Range(heap_disk[p]) /\ s.live
    BY <1>5 DEF LiveOnDisk
  <2>2. PICK i \in DOMAIN heap_disk[p] : s = heap_disk[p][i]
    BY <2>1 DEF Range
  <2>3. i \in 1 .. PageSlots
    <3>1. heap_disk[p] \in Seq(Slot) /\ Len(heap_disk[p]) <= PageSlots
      BY DEF TypeOK
    <3> QED BY <2>2, <3>1
  <2>4. <<p, i>> \in CTID
    BY <2>3, CTIDsAre
  <2> QED BY <2>1, <2>2, <2>4 DEF LiveIn, TupleIn
<1>6. ASSUME NEW k \in Keys, NEW row \in 1 .. MaxRows, allowed[k] = {row}
      PROVE  \E r \in { r \in Range(log_file) : r.key = k } \union { s \in LiveOnDisk : s.key = k } :
                r.row = row
  <2>1. CASE \E i \in DOMAIN log_file : log_file[i].key = k /\ log_file[i].row = row
    BY <2>1 DEF Range
  <2>2. CASE /\ Found(k) /\ LiveIn(heap_disk, index[k])
             /\ TupleIn(heap_disk, index[k]).key = k /\ TupleIn(heap_disk, index[k]).row = row
    <3>1. index[k] \in CTID
      BY <2>2 DEF Found, TypeOK, Leaf
    <3> QED BY <1>4, <2>2, <3>1
  <2> QED BY <1>1, <1>6, <2>1, <2>2 DEF LogHolds, RowsKept
<1>7. ASSUME NEW k \in Keys, allowed[k] = {0}, NEW s \in LiveOnDisk, s.key = k
      PROVE  \E r \in { r \in Range(log_file) : r.key = k } : r.op = "delete"
  <2>1. PICK c \in CTID : LiveIn(heap_disk, c) /\ TupleIn(heap_disk, c) = s
    BY <1>5
  <2>2. IsLogged(k)
    BY <1>1, <1>7, <2>1 DEF LogHolds, DeletionsKept
  <2>3. \E i \in DOMAIN log_file : log_file[i].op = "delete" /\ log_file[i].key = k
    BY <2>2 DEF IsLogged, DeletionLogged
  <2> QED BY <2>3 DEF Range
<1> QED
  BY <1>3, <1>6, <1>7 DEF PromisesAreOnDisk

(***************************************************************************)
(* A crash at any step of the first process finds what it needs, with      *)
(* pages evicted at any time: the log is up to date between statements,    *)
(* and a promise is in the log or in the heap file at every moment, also   *)
(* when a checkpoint cuts the log (main.rs, the checkpointer).             *)
(***************************************************************************)
THEOREM CrashesFindWhatTheyNeed == Spec => []Recoverable
<1>1. EngineSound /\ LogSound => Recoverable
  BY WhatIsLogged DEF Recoverable, EngineSound
<1> QED
  BY <1>1, EngineInvariant, LogIsSound, PTL

(* The tuples that a write adds to the dead ones of the heap file, and the *)
(* keys that it takes from the index file.                                 *)
LEMMA WritesAfterLog ==
    ASSUME Base, LogHolds, NEW written, NEW n, Writes(written, n),
           \A p \in written : p \in Pages => page_lsn[p] <= n,
           index_disk' = index_disk \/ n = Len(log_buffer)
    PROVE  DeletionsLogged
<1>1. TypeOK /\ n \in 0 .. Len(log_buffer) /\ ForceTo(n) /\ UNCHANGED <<heap, index>>
  BY DEF Base, Writes
<1>2. ASSUME NEW k, DeletionLogged(log_file', log_buffer', 0, k)
      PROVE  \E r \in { r \in Range(log_file') : r.op = "delete" } : r.key = k
  <2>1. \E i \in DOMAIN log_file' : log_file'[i].op = "delete" /\ log_file'[i].key = k
    BY <1>2 DEF DeletionLogged
  <2> QED BY <2>1 DEF Range
<1>3. ASSUME NEW p \in Pages, NEW i \in Dead(heap_disk', p) \ Dead(heap_disk, p)
      PROVE  DeletionLogged(log_file', log_buffer', 0, heap_disk'[p][i].key)
  <2>1. heap_disk'[p] = IF p \in written THEN heap[p] ELSE heap_disk[p]
    BY DEF Writes
  <2>2. p \in written /\ heap_disk'[p] = heap[p]
    BY <1>3, <2>1 DEF Dead
  <2>3. i \in DOMAIN heap[p] /\ ~heap[p][i].live
    BY <1>3, <2>2 DEF Dead
  <2>4. i \in 1 .. PageSlots
    <3>1. heap[p] \in Seq(Slot) /\ Len(heap[p]) <= PageSlots
      BY <1>1 DEF TypeOK
    <3> QED BY <2>3, <3>1
  <2>5. <<p, i>> \in CTID /\ <<p, i>>[1] = p /\ <<p, i>>[2] = i
    BY <2>4, CTIDsAre
  <2>6. DeadIn(heap, <<p, i>>) /\ ~DeadIn(heap_disk, <<p, i>>)
    BY <1>3, <2>3, <2>5 DEF Dead, DeadIn
  <2>7. LoggedWithPage(p, heap[p][i].key)
    BY <2>5, <2>6 DEF LogHolds, DeletionsKept, TupleIn
  <2> QED BY <1>1, <2>2, <2>7, DeletionsForced
<1>4. ASSUME index_disk # Zeros, NEW k \in Keys, index_disk[k] # NoCTID, index_disk'[k] = NoCTID
      PROVE  DeletionLogged(log_file', log_buffer', 0, k)
  <2>1. index_disk' # index_disk
    BY <1>4
  <2>2. index_disk' = index /\ n = Len(log_buffer)
    BY <2>1 DEF Writes
  <2>3. HasKey(index_disk, k) /\ ~HasKey(index, k)
    BY <1>4, <2>2 DEF HasKey
  <2>4. WillBeLogged(k)
    BY <2>3 DEF LogHolds, DeletionsKept
  <2> QED BY <1>1, <2>2, <2>4, DeletionsForced
<1> DEFINE deleted == { r \in Range(log_file') : r.op = "delete" }
<1>5. \A p \in Pages : \A i \in Dead(heap_disk', p) \ Dead(heap_disk, p) :
         \E r \in deleted : r.key = heap_disk'[p][i].key
  BY <1>2, <1>3
<1>6. index_disk # Zeros => \A k \in Keys :
         index_disk[k] # NoCTID /\ index_disk'[k] = NoCTID => \E r \in deleted : r.key = k
  BY <1>2, <1>4
<1> QED
  BY <1>5, <1>6 DEF DeletionsLogged

LEMMA FilesUntouched ==
    ASSUME heap_disk' = heap_disk, index_disk' = index_disk
    PROVE  DeletionsLogged
<1>1. ASSUME NEW p \in Pages, NEW i \in Dead(heap_disk', p) \ Dead(heap_disk, p)
      PROVE  FALSE
  BY DEF Dead
<1>2. ASSUME NEW k \in Keys, index_disk[k] # NoCTID
      PROVE  index_disk'[k] # NoCTID
  BY <1>2
<1> QED
  BY <1>1, <1>2 DEF DeletionsLogged

LEMMA NextLogsDeletions ==
    ASSUME EngineSound, LogSound, [Next]_vars
    PROVE  DeletionsLogged
<1> SUFFICES ASSUME crashes = 0, ~at_risk PROVE DeletionsLogged
  BY DEF DeletionsLogged
<1>1. Base /\ TypeOK /\ LogHolds
  BY DEF EngineSound, Base, LogSound
<1>2. page_lsn \in [Pages -> 0 .. Len(log_buffer)] /\ Len(log_buffer) \in Nat
  BY <1>1 DEF TypeOK
<1>3. \A p \in Pages : page_lsn[p] <= Len(log_buffer)
  BY <1>2
<1>4. ASSUME NEW p \in Pages, StealHeap(p) PROVE DeletionsLogged
  <2>1. PICK n : Writes({p}, n) /\ page_lsn[p] <= n /\ index_disk' = index_disk
    BY <1>1, <1>4, StealHeapWrites
  <2> QED BY <1>1, <2>1, WritesAfterLog
<1>5. CASE StealIndex
  BY <1>1, <1>5, StealIndexWrites, WritesAfterLog
<1>6. CASE CheckpointFlush \/ CheckpointFlushFails
  <2>1. PICK written : Writes(written, Len(log_buffer))
    BY <1>1, <1>6, CheckpointFlushWrites
  <2>2. \A p \in written : p \in Pages => page_lsn[p] <= Len(log_buffer)
    BY <1>3
  <2> QED BY <1>1, <2>1, <2>2, WritesAfterLog
<1>7. CASE heap_disk' = heap_disk /\ index_disk' = index_disk
  BY <1>7, FilesUntouched
<1>8. CASE UNCHANGED vars
  BY <1>7, <1>8 DEF vars
<1>9. ASSUME Next, \A p \in Pages : ~StealHeap(p), ~StealIndex, ~CheckpointFlush, ~CheckpointFlushFails
      PROVE  heap_disk' = heap_disk /\ index_disk' = index_disk
  <2>1. CASE \/ \E k \in Keys : InsertTuple(k)
             \/ InsertLog \/ InsertIndex \/ InsertFails \/ InsertRoot \/ InsertCount
    BY <2>1 DEF InsertTuple, InsertLog, InsertIndex, InsertFails, InsertRoot, InsertCount
  <2>2. CASE \/ \E k \in Keys : BeginDelete({k})
             \/ BeginDelete(Keys)
             \/ DeleteOnPage \/ DeleteCount
    BY <2>2 DEF BeginDelete, DeleteOnPage, DeleteCount
  <2>3. CASE Commit \/ CommitFails
    BY <2>3 DEF Commit, CommitFails, Returns
  <2>4. CASE BeginCheckpoint \/ CheckpointTruncate \/ Crash
    BY <2>4 DEF BeginCheckpoint, CheckpointTruncate, Crash
  <2>5. CASE Rebuild \/ ReplayInsert \/ ReplayPanics \/ ReplayDelete \/ RecoveryEnds
    BY <2>5 DEF Rebuild, ReplayInsert, ReplayPanics, ReplayDelete, RecoveryEnds
  <2> QED BY <1>9, <2>1, <2>2, <2>3, <2>4, <2>5 DEF Next
<1> QED
  BY <1>4, <1>5, <1>6, <1>7, <1>8, <1>9

(***************************************************************************)
(* WAL before data for deletions, in the first process: a page never       *)
(* reaches its file with a tuple newly marked deleted, or without a key    *)
(* the file had, before the record of the deletion is in the log file, in  *)
(* whichever order evictions, forces and checkpoints come.                 *)
(***************************************************************************)
THEOREM DeletionsWriteLogFirst == Spec => DeletionsAfterLog
<1>1. EngineSound /\ LogSound /\ [Next]_vars => [DeletionsLogged]_vars
  BY NextLogsDeletions
<1> QED
  BY <1>1, EngineInvariant, LogIsSound, PTL DEF Spec, DeletionsAfterLog

=============================================================================
