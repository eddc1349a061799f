--------------------------- MODULE DiskLogProofs ---------------------------
(***************************************************************************)
(* Proofs about the write-ahead log: what DiskLog's properties say, for    *)
(* any number of threads, records, checkpoints and restarts.               *)
(***************************************************************************)
EXTENDS DiskLog, SubsequencesProofs

USE LogAssumption

-----------------------------------------------------------------------------
(* The loop of flush_up_to takes what it should, each record as often as   *)
(* it is there.                                                            *)
LEMMA PickedElements ==
    ASSUME NEW s \in Seq(Record), NEW places
    PROVE  /\ Picked(s, places) \in Seq(Record)
           /\ ToSet(Picked(s, places)) = { s[i] : i \in places \intersect DOMAIN s }
           /\ (\A i, j \in DOMAIN s : s[i] = s[j] => i = j) =>
                 \A i, j \in DOMAIN Picked(s, places) :
                    Picked(s, places)[i] = Picked(s, places)[j] => i = j
<1> DEFINE a == Picked(s, places)
<1>1. /\ a \in Seq(Record)
      /\ \E at \in [1 .. Len(a) -> 1 .. Len(s)] :
            /\ \A k \in 1 .. Len(a) : at[k] \in places /\ a[k] = s[at[k]]
            /\ \A i \in 1 .. Len(s) : i \in places => \E k \in 1 .. Len(a) : at[k] = i
            /\ \A k, l \in 1 .. Len(a) : at[k] = at[l] => k = l
  BY PickedPlaces
<1> HIDE DEF a
<1>2. PICK at \in [1 .. Len(a) -> 1 .. Len(s)] :
            /\ \A k \in 1 .. Len(a) : at[k] \in places /\ a[k] = s[at[k]]
            /\ \A i \in 1 .. Len(s) : i \in places => \E k \in 1 .. Len(a) : at[k] = i
            /\ \A k, l \in 1 .. Len(a) : at[k] = at[l] => k = l
  BY <1>1
<1>3. DOMAIN s = 1 .. Len(s) /\ DOMAIN a = 1 .. Len(a) /\ \A k \in 1 .. Len(a) : at[k] \in 1 .. Len(s)
  BY <1>1, <1>2
<1>4. ToSet(a) = { s[i] : i \in places \intersect DOMAIN s }
  <2>1. ToSet(a) = { a[k] : k \in 1 .. Len(a) }
    BY <1>3 DEF ToSet
  <2>2. ASSUME NEW k \in 1 .. Len(a) PROVE a[k] \in { s[i] : i \in places \intersect DOMAIN s }
    BY <1>2, <1>3
  <2>3. ASSUME NEW i \in places \intersect DOMAIN s PROVE s[i] \in { a[k] : k \in 1 .. Len(a) }
    <3>1. PICK k \in 1 .. Len(a) : at[k] = i
      BY <1>2, <1>3
    <3>2. s[i] = a[k]
      BY <1>2, <3>1
    <3> QED BY <3>2
  <2> QED BY <2>1, <2>2, <2>3
<1>5. (\A i, j \in DOMAIN s : s[i] = s[j] => i = j) =>
           \A i, j \in DOMAIN a : a[i] = a[j] => i = j
  BY <1>2, <1>3
<1> QED
  BY <1>1, <1>4, <1>5 DEF a

-----------------------------------------------------------------------------
(* The invariant *)

(* A call that appends has a record, and LSNs do not run ahead of the      *)
(* records that got one.                                                   *)
CallsSound ==
    /\ \A t \in Threads : pc[t] = "append" => rec[t] \in Record
    /\ next_lsn <= ids + 1

(* Where a record can be before it leaves the log for good.                *)
Held == ToSet(log_buffer) \union ToSet(file)

(* Records are told apart by their numbers, and none is in two places.     *)
OnePlace ==
    /\ \A r \in Held \union truncated : r.id <= ids
    /\ \A i, j \in DOMAIN log_buffer : log_buffer[i] = log_buffer[j] => i = j
    /\ \A i, j \in DOMAIN file : file[i] = file[j] /\ i # j => file[i] = Torn
    /\ ToSet(log_buffer) \intersect ToSet(file) = {}
    /\ Held \intersect truncated = {}
    /\ acked \subseteq Held \union truncated \union refused
    /\ \A t \in Threads : pc[t] = "append" =>
          /\ rec[t].id <= ids
          /\ rec[t] \notin Held \union truncated
          /\ \A u \in Threads : pc[u] = "append" /\ rec[u] = rec[t] => t = u

(* Callers that take turns: one at most is inside, what is not yet forced  *)
(* is in the order of the LSNs and behind what is, the record of a call    *)
(* comes last, and nobody moves flushed_lsn or appends while a flush is on *)
(* its way.                                                                *)
TurnsTaken == serial =>
    /\ \A t, u \in Threads : pc[t] # "idle" /\ pc[u] # "idle" => t = u
    /\ flushed_lsn < next_lsn
    /\ \A i \in DOMAIN log_buffer :
          /\ flushed_lsn < log_buffer[i].lsn /\ log_buffer[i].lsn < next_lsn
          /\ \A j \in DOMAIN log_buffer : i < j => log_buffer[i].lsn < log_buffer[j].lsn
    /\ \A t \in Threads : pc[t] = "append" =>
          /\ flushed_lsn < rec[t].lsn /\ rec[t].lsn < next_lsn
          /\ \A r \in ToSet(log_buffer) : r.lsn < rec[t].lsn
          /\ \A r \in Held : r.id < rec[t].id
    /\ \A t \in Threads : pc[t] = "flush" =>
          /\ seen[t] = flushed_lsn /\ flushed_lsn < upto[t]
          /\ owed[t] \subseteq UpTo(acked, upto[t])

LogSound == TypeOK /\ CallsSound /\ OnePlace /\ TurnsTaken

-----------------------------------------------------------------------------
(* Sequences and sets of the steps *)

(* A set of LSNs has a largest one.                                        *)
LEMMA LargestLsn ==
    ASSUME NEW T \in SUBSET Lsns, T # {}
    PROVE  Max(T) \in T /\ \A x \in T : x <= Max(T)
<1> DEFINE B == { n \in Nat : \A x \in T : x <= n }
<1>1. \A x \in T : x \in Nat /\ x <= MaxRecords
  BY DEF Lsns
<1>2. MaxRecords \in B
  BY <1>1
<1>3. IsWellFoundedOn(OpToRel(<, Nat), Nat)
  BY NatLessThanWellFounded
<1>4. PICK m \in B : \A n \in B : ~ (<<n, m>> \in OpToRel(<, Nat))
  <2> HIDE DEF B
  <2>1. B \subseteq Nat /\ B # {}
    BY <1>2 DEF B
  <2> QED BY <1>3, <2>1, WFMin
<1>5. \A n \in B : ~ (n < m)
  BY <1>4 DEF OpToRel
<1>6. m \in T
  <2> SUFFICES ASSUME m \notin T PROVE FALSE
    OBVIOUS
  <2>1. \A x \in T : x < m
    BY <1>1
  <2>2. m - 1 \in Nat /\ \A x \in T : x <= m - 1
    BY <2>1, <1>1
  <2>3. m - 1 \in B /\ m - 1 < m
    BY <2>2
  <2> QED BY <2>3, <1>5
<1>7. \E x \in T : \A y \in T : x >= y
  BY <1>6, <1>1
<1>8. Max(T) \in T /\ \A y \in T : Max(T) >= y
  BY <1>7 DEF Max
<1> QED
  BY <1>8, <1>1

LEMMA ElementsAre ==
    ASSUME NEW S, NEW s \in Seq(S)
    PROVE  /\ ToSet(s) = { s[i] : i \in 1 .. Len(s) }
           /\ DOMAIN s = 1 .. Len(s)
           /\ Len(s) \in Nat
           /\ ToSet(s) \subseteq S
BY DEF ToSet

LEMMA AppendElements ==
    ASSUME NEW S, NEW s \in Seq(S), NEW e \in S
    PROVE  Append(s, e) \in Seq(S) /\ ToSet(Append(s, e)) = ToSet(s) \union {e}
<1> DEFINE x == Append(s, e)
<1>1. /\ x \in Seq(S)
      /\ Len(x) = Len(s) + 1
      /\ \A i \in 1 .. Len(s) : x[i] = s[i]
      /\ x[Len(s) + 1] = e
      /\ Len(s) \in Nat
  BY AppendEntries
<1> HIDE DEF x
<1>2. ToSet(x) = { x[i] : i \in 1 .. Len(x) } /\ ToSet(s) = { s[i] : i \in 1 .. Len(s) }
  BY <1>1, ElementsAre
<1>3. 1 .. Len(x) = 1 .. Len(s) \union {Len(s) + 1}
  BY <1>1
<1>4. ToSet(x) = ToSet(s) \union {e}
  BY <1>1, <1>2, <1>3
<1> QED BY <1>1, <1>4 DEF x

LEMMA ConcatElements ==
    ASSUME NEW S, NEW s \in Seq(S), NEW u \in Seq(S)
    PROVE  s \o u \in Seq(S) /\ ToSet(s \o u) = ToSet(s) \union ToSet(u)
<1> DEFINE x == s \o u
<1>1. /\ x \in Seq(S)
      /\ Len(x) = Len(s) + Len(u)
      /\ \A i \in 1 .. Len(s) : x[i] = s[i]
      /\ \A i \in 1 .. Len(u) : x[Len(s) + i] = u[i]
      /\ \A i \in 1 .. Len(s) + Len(u) :
            i \in 1 .. Len(s) \/ (i - Len(s) \in 1 .. Len(u) /\ x[i] = u[i - Len(s)])
      /\ Len(s) \in Nat /\ Len(u) \in Nat
  BY ConcatEntries
<1> HIDE DEF x
<1>2. /\ ToSet(x) = { x[i] : i \in 1 .. Len(x) }
      /\ ToSet(s) = { s[i] : i \in 1 .. Len(s) }
      /\ ToSet(u) = { u[i] : i \in 1 .. Len(u) }
  BY <1>1, ElementsAre
<1>3. ASSUME NEW r \in ToSet(x) PROVE r \in ToSet(s) \union ToSet(u)
  <2>1. PICK i \in 1 .. Len(s) + Len(u) : r = x[i]
    BY <1>1, <1>2
  <2>2. CASE i \in 1 .. Len(s)
    BY <2>1, <2>2, <1>1, <1>2
  <2>3. CASE i - Len(s) \in 1 .. Len(u) /\ x[i] = u[i - Len(s)]
    BY <2>1, <2>3, <1>2
  <2> QED BY <2>2, <2>3, <1>1
<1>4. ASSUME NEW r \in ToSet(s) PROVE r \in ToSet(x)
  <2>1. PICK i \in 1 .. Len(s) : r = s[i]
    BY <1>2
  <2>2. i \in 1 .. Len(x) /\ x[i] = r
    BY <2>1, <1>1
  <2> QED BY <2>2, <1>2
<1>5. ASSUME NEW r \in ToSet(u) PROVE r \in ToSet(x)
  <2>1. PICK i \in 1 .. Len(u) : r = u[i]
    BY <1>2
  <2>2. Len(s) + i \in 1 .. Len(x) /\ x[Len(s) + i] = r
    BY <2>1, <1>1
  <2> QED BY <2>2, <1>2
<1>6. ToSet(x) = ToSet(s) \union ToSet(u)
  BY <1>3, <1>4, <1>5
<1> QED BY <1>1, <1>6 DEF x

LEMMA OneBehind ==
    ASSUME NEW S, NEW s \in Seq(S), NEW e \in S
    PROVE  s \o <<e>> = Append(s, e)
OBVIOUS

(* The first so many entries of a sequence.                                *)
LEMMA FirstEntries ==
    ASSUME NEW S, NEW s \in Seq(S), NEW n \in 0 .. Len(s)
    PROVE  /\ SubSeq(s, 1, n) \in Seq(S)
           /\ Len(SubSeq(s, 1, n)) = n
           /\ \A k \in 1 .. n : SubSeq(s, 1, n)[k] = s[k]
           /\ ToSet(SubSeq(s, 1, n)) \subseteq ToSet(s)
<1> DEFINE x == SubSeq(s, 1, n)
<1>1. Len(s) \in Nat /\ n \in Nat /\ n <= Len(s)
  OBVIOUS
<1>2. /\ x \in Seq(S)
      /\ Len(x) = n
      /\ \A k \in 1 .. n : x[k] = s[k]
  BY <1>1
<1> HIDE DEF x
<1>3. ToSet(x) = { x[i] : i \in 1 .. Len(x) } /\ ToSet(s) = { s[i] : i \in 1 .. Len(s) }
  BY <1>2, ElementsAre
<1>4. ToSet(x) \subseteq ToSet(s)
  BY <1>1, <1>2, <1>3
<1> QED BY <1>2, <1>4 DEF x

LEMMA LastEntries ==
    ASSUME NEW S, NEW s \in Seq(S), NEW n \in 0 .. Len(s)
    PROVE  /\ SubSeq(s, n + 1, Len(s)) \in Seq(S)
           /\ DOMAIN SubSeq(s, n + 1, Len(s)) = 1 .. Len(s) - n
           /\ \A k \in 1 .. Len(s) - n : SubSeq(s, n + 1, Len(s))[k] = s[n + k]
<1>1. Len(s) \in Nat /\ n \in Nat /\ n <= Len(s)
  OBVIOUS
<1>2. SubSeq(s, n + 1, Len(s)) \in Seq(S) /\ Len(SubSeq(s, n + 1, Len(s))) = Len(s) - n
  BY <1>1
<1>3. DOMAIN SubSeq(s, n + 1, Len(s)) = 1 .. Len(s) - n
  BY <1>2
<1>4. \A k \in 1 .. Len(s) - n : SubSeq(s, n + 1, Len(s))[k] = s[n + k]
  BY <1>1
<1> QED BY <1>2, <1>3, <1>4

-----------------------------------------------------------------------------
(* What the steps do *)

LEMMA TornIsNoRecord == Torn \notin Record /\ Torn.id = 0 /\ Torn.lsn = 0
BY DEF Torn, Record

LEMMA RecordNumbers ==
    \A r \in Record : r.lsn \in 1 .. MaxRecords /\ r.id \in 1 .. MaxRecords
BY DEF Record

(* What a flush puts in the file and what it leaves in the buffer.         *)
LEMMA DrainSplits ==
    ASSUME TypeOK, OnePlace, NEW t \in Threads
    PROVE  /\ Drained(t) \in Seq(Record) /\ Retained(t) \in Seq(Record)
           /\ ToSet(Drained(t)) = { r \in ToSet(log_buffer) : r.lsn <= upto[t] }
           /\ ToSet(Retained(t)) = { r \in ToSet(log_buffer) : ~ (r.lsn <= upto[t]) }
           /\ \A i, j \in DOMAIN Drained(t) : Drained(t)[i] = Drained(t)[j] => i = j
           /\ \A i, j \in DOMAIN Retained(t) : Retained(t)[i] = Retained(t)[j] => i = j
<1>1. log_buffer \in Seq(Record) /\ upto[t] \in Lsns
  BY DEF TypeOK
<1>2. \A i, j \in DOMAIN log_buffer : log_buffer[i] = log_buffer[j] => i = j
  BY DEF OnePlace
<1>3. log_buffer \in Seq(Record) /\ ToSet(log_buffer) = { log_buffer[i] : i \in DOMAIN log_buffer }
  BY <1>1 DEF ToSet
<1>4. ASSUME NEW places, NEW chosen,
             \A i \in DOMAIN log_buffer : i \in places <=> log_buffer[i] \in chosen
      PROVE  /\ Picked(log_buffer, places) \in Seq(Record)
             /\ ToSet(Picked(log_buffer, places)) = { r \in ToSet(log_buffer) : r \in chosen }
             /\ \A i, j \in DOMAIN Picked(log_buffer, places) :
                   Picked(log_buffer, places)[i] = Picked(log_buffer, places)[j] => i = j
  <2>1. /\ Picked(log_buffer, places) \in Seq(Record)
        /\ ToSet(Picked(log_buffer, places)) = { log_buffer[i] : i \in places \intersect DOMAIN log_buffer }
        /\ \A i, j \in DOMAIN Picked(log_buffer, places) :
              Picked(log_buffer, places)[i] = Picked(log_buffer, places)[j] => i = j
    BY <1>1, <1>2, PickedElements
  <2>2. { log_buffer[i] : i \in places \intersect DOMAIN log_buffer } = { r \in ToSet(log_buffer) : r \in chosen }
    BY <1>3, <1>4
  <2> QED BY <2>1, <2>2
<1>5. /\ Drained(t) \in Seq(Record)
      /\ ToSet(Drained(t)) = { r \in ToSet(log_buffer) : r.lsn <= upto[t] }
      /\ \A i, j \in DOMAIN Drained(t) : Drained(t)[i] = Drained(t)[j] => i = j
  <2> DEFINE chosen == { r \in ToSet(log_buffer) : r.lsn <= upto[t] }
             places == Due(t)
  <2>1. \A i \in DOMAIN log_buffer : i \in places <=> log_buffer[i] \in chosen
    BY <1>3 DEF Due
  <2> HIDE DEF chosen, places
  <2>2. /\ Picked(log_buffer, places) \in Seq(Record)
        /\ ToSet(Picked(log_buffer, places)) = { r \in ToSet(log_buffer) : r \in chosen }
        /\ \A i, j \in DOMAIN Picked(log_buffer, places) :
              Picked(log_buffer, places)[i] = Picked(log_buffer, places)[j] => i = j
    BY <2>1, <1>4
  <2> QED BY <2>2 DEF Drained, chosen, places
<1>6. /\ Retained(t) \in Seq(Record)
      /\ ToSet(Retained(t)) = { r \in ToSet(log_buffer) : ~ (r.lsn <= upto[t]) }
      /\ \A i, j \in DOMAIN Retained(t) : Retained(t)[i] = Retained(t)[j] => i = j
  <2> DEFINE chosen == { r \in ToSet(log_buffer) : ~ (r.lsn <= upto[t]) }
             places == DOMAIN log_buffer \ Due(t)
  <2>1. \A i \in DOMAIN log_buffer : i \in places <=> log_buffer[i] \in chosen
    BY <1>3 DEF Due
  <2> HIDE DEF chosen, places
  <2>2. /\ Picked(log_buffer, places) \in Seq(Record)
        /\ ToSet(Picked(log_buffer, places)) = { r \in ToSet(log_buffer) : r \in chosen }
        /\ \A i, j \in DOMAIN Picked(log_buffer, places) :
              Picked(log_buffer, places)[i] = Picked(log_buffer, places)[j] => i = j
    BY <2>1, <1>4
  <2> QED BY <2>2 DEF Retained, chosen, places
<1> QED
  BY <1>5, <1>6

Once(s) == \A i, j \in DOMAIN s : s[i] = s[j] => i = j
OnceOrTorn(s) == \A i, j \in DOMAIN s : s[i] = s[j] /\ i # j => s[i] = Torn

(* Nothing is twice in two sequences that have nothing in common.          *)
LEMMA ConcatOnce ==
    ASSUME NEW S, NEW f \in Seq(S), NEW p \in Seq(S),
           OnceOrTorn(f), OnceOrTorn(p), ToSet(f) \intersect ToSet(p) = {}
    PROVE  OnceOrTorn(f \o p)
<1> DEFINE h == f \o p
<1>1. /\ h \in Seq(S)
      /\ Len(h) = Len(f) + Len(p)
      /\ \A i \in 1 .. Len(f) : h[i] = f[i]
      /\ \A i \in 1 .. Len(f) + Len(p) :
            i \in 1 .. Len(f) \/ (i - Len(f) \in 1 .. Len(p) /\ h[i] = p[i - Len(f)])
      /\ Len(f) \in Nat /\ Len(p) \in Nat
  BY ConcatEntries
<1> HIDE DEF h
<1>2. DOMAIN f = 1 .. Len(f) /\ DOMAIN p = 1 .. Len(p) /\ DOMAIN h = 1 .. Len(h)
  BY <1>1, ElementsAre
<1>3. \A i \in 1 .. Len(f) : f[i] \in ToSet(f)
  BY ElementsAre
<1>4. \A i \in 1 .. Len(p) : p[i] \in ToSet(p)
  BY ElementsAre
<1>5. ASSUME NEW i \in DOMAIN h, NEW j \in DOMAIN h, h[i] = h[j], i # j
      PROVE  h[i] = Torn
  <2>1. i \in 1 .. Len(f) + Len(p) /\ j \in 1 .. Len(f) + Len(p)
    BY <1>1, <1>2
  <2>2. CASE i \in 1 .. Len(f) /\ j \in 1 .. Len(f)
    BY <2>2, <1>1, <1>2, <1>5 DEF OnceOrTorn
  <2>3. CASE i \in 1 .. Len(f) /\ j \notin 1 .. Len(f)
    <3>1. h[i] \in ToSet(f) /\ h[j] \in ToSet(p)
      BY <2>3, <1>1, <1>3, <1>4, <2>1
    <3> QED BY <3>1, <1>5
  <2>4. CASE i \notin 1 .. Len(f) /\ j \in 1 .. Len(f)
    <3>1. h[j] \in ToSet(f) /\ h[i] \in ToSet(p)
      BY <2>4, <1>1, <1>3, <1>4, <2>1
    <3> QED BY <3>1, <1>5
  <2>5. CASE i \notin 1 .. Len(f) /\ j \notin 1 .. Len(f)
    <3>1. /\ i - Len(f) \in 1 .. Len(p) /\ j - Len(f) \in 1 .. Len(p)
          /\ h[i] = p[i - Len(f)] /\ h[j] = p[j - Len(f)]
      BY <2>5, <1>1, <2>1
    <3>2. i - Len(f) # j - Len(f)
      BY <1>5, <2>1, <1>1
    <3> QED BY <3>1, <3>2, <1>2, <1>5 DEF OnceOrTorn
  <2> QED BY <2>2, <2>3, <2>4, <2>5
<1> QED
  BY <1>5 DEF OnceOrTorn, h

(* Records that are not in the file yet go behind it, the last in part.    *)
LEMMA FileGrows ==
    ASSUME NEW f \in Seq(Record \union {Torn}), NEW p \in Seq(Record), NEW g,
           OnceOrTorn(f), Once(p),
           ToSet(f) \intersect ToSet(p) = {},
           g = f \o p \/ g = f \o p \o <<Torn>>
    PROVE  /\ g \in Seq(Record \union {Torn})
           /\ ToSet(f) \union ToSet(p) \subseteq ToSet(g)
           /\ ToSet(g) \subseteq ToSet(f) \union ToSet(p) \union {Torn}
           /\ OnceOrTorn(g)
<1> USE DEF Once, OnceOrTorn
<1> DEFINE R == Record \union {Torn}
           h == f \o p
<1>1. f \in Seq(R) /\ p \in Seq(R) /\ <<Torn>> \in Seq(R)
  OBVIOUS
<1> HIDE DEF R
<1>2. h \in Seq(R) /\ ToSet(h) = ToSet(f) \union ToSet(p)
  BY <1>1, ConcatElements
<1>3. OnceOrTorn(h)
  <2>1. OnceOrTorn(p)
    OBVIOUS
  <2> HIDE DEF OnceOrTorn
  <2> QED BY <1>1, <2>1, ConcatOnce
<1>4. CASE g = h
  BY <1>2, <1>3, <1>4 DEF R
<1>5. CASE g = h \o <<Torn>>
  <2> HIDE DEF h
  <2>0. Torn \in R
    BY DEF R
  <2>1. g = Append(h, Torn)
    <3>1. h \o <<Torn>> = Append(h, Torn)
      BY <1>2, <2>0, OneBehind
    <3> QED BY <3>1, <1>5
  <2>2. g \in Seq(R) /\ ToSet(g) = ToSet(h) \union {Torn}
    BY <1>2, <2>0, <2>1, AppendElements
  <2>3. /\ Len(g) = Len(h) + 1
        /\ \A i \in 1 .. Len(h) : g[i] = h[i]
        /\ g[Len(h) + 1] = Torn
        /\ Len(h) \in Nat
    BY <1>2, <2>0, <2>1, AppendEntries
  <2>4. DOMAIN g = 1 .. Len(g) /\ DOMAIN h = 1 .. Len(h)
    BY <1>2, <2>2, ElementsAre
  <2>5. \A i, j \in DOMAIN g : g[i] = g[j] /\ i # j => g[i] = Torn
    <3> SUFFICES ASSUME NEW i \in DOMAIN g, NEW j \in DOMAIN g, g[i] = g[j], i # j
                 PROVE  g[i] = Torn
      OBVIOUS
    <3>1. CASE i = Len(h) + 1
      BY <3>1, <2>3
    <3>2. CASE j = Len(h) + 1
      BY <3>2, <2>3
    <3>3. CASE i \in 1 .. Len(h) /\ j \in 1 .. Len(h)
      BY <3>3, <2>3, <2>4, <1>3
    <3> QED BY <3>1, <3>2, <3>3, <2>3, <2>4
  <2> QED BY <2>2, <2>5, <1>2 DEF R, h
<1> QED
  BY <1>4, <1>5

(* The same of the log's file.                                             *)
LEMMA FileTakes ==
    ASSUME LogSound, NEW p \in Seq(Record),
           \A i, j \in DOMAIN p : p[i] = p[j] => i = j,
           ToSet(p) \subseteq ToSet(log_buffer),
           file' = file \o p \/ file' = file \o p \o <<Torn>>
    PROVE  /\ file' \in Seq(Record \union {Torn})
           /\ ToSet(file) \union ToSet(p) \subseteq ToSet(file')
           /\ ToSet(file') \subseteq ToSet(file) \union ToSet(p) \union {Torn}
           /\ \A i, j \in DOMAIN file' : file'[i] = file'[j] /\ i # j => file'[i] = Torn
<1>1. file \in Seq(Record \union {Torn}) /\ OnceOrTorn(file)
  BY DEF LogSound, TypeOK, OnePlace, OnceOrTorn
<1>2. Once(p) /\ ToSet(file) \intersect ToSet(p) = {}
  BY DEF LogSound, OnePlace, Once
<1>3. /\ file' \in Seq(Record \union {Torn})
      /\ ToSet(file) \union ToSet(p) \subseteq ToSet(file')
      /\ ToSet(file') \subseteq ToSet(file) \union ToSet(p) \union {Torn}
      /\ OnceOrTorn(file')
  BY <1>1, <1>2, FileGrows
<1> QED
  BY <1>3 DEF OnceOrTorn

(* A write that stops anywhere leaves a prefix of what it was to write.    *)
LEMMA PartOfDrained ==
    ASSUME TypeOK, OnePlace, NEW t \in Threads, PartlyWritten(t)
    PROVE  \E p \in Seq(Record) :
              /\ ToSet(p) \subseteq ToSet(Drained(t))
              /\ \A i, j \in DOMAIN p : p[i] = p[j] => i = j
              /\ file' = file \o p \/ file' = file \o p \o <<Torn>>
<1> DEFINE d == Drained(t)
<1>1. d \in Seq(Record) /\ \A i, j \in DOMAIN d : d[i] = d[j] => i = j
  BY DrainSplits
<1>2. PICK n \in 0 .. Len(d) :
         \/ file' = file \o SubSeq(d, 1, n)
         \/ file' = file \o SubSeq(d, 1, n) \o <<Torn>>
  BY DEF PartlyWritten
<1> HIDE DEF d
<1> DEFINE p == SubSeq(d, 1, n)
<1>3. p \in Seq(Record) /\ Len(p) = n /\ ToSet(p) \subseteq ToSet(d) /\ \A k \in 1 .. n : p[k] = d[k]
  BY <1>1, FirstEntries
<1> HIDE DEF p
<1>4. DOMAIN p = 1 .. n /\ DOMAIN d = 1 .. Len(d) /\ Len(d) \in Nat
  BY <1>1, <1>3, ElementsAre
<1>5. \A i, j \in DOMAIN p : p[i] = p[j] => i = j
  BY <1>1, <1>3, <1>4
<1>6. file' = file \o p \/ file' = file \o p \o <<Torn>>
  BY <1>2 DEF p
<1> QED
  BY <1>3, <1>5, <1>6 DEF d

-----------------------------------------------------------------------------
(* The invariant is inductive: one lemma per action. *)

LEMMA InitSound == Init => LogSound
<1> SUFFICES ASSUME Init PROVE LogSound
  OBVIOUS
<1>1. MaxRecords \in Nat \ {0}
  OBVIOUS
<1>2. ToSet(<<>>) = {} /\ DOMAIN <<>> = {}
  BY DEF ToSet
<1>3. TypeOK
  BY <1>1 DEF Init, TypeOK, Lsns, NoRecord
<1>4. CallsSound
  BY DEF Init, CallsSound
<1>5. OnePlace
  BY <1>2 DEF Init, OnePlace, Held
<1>6. TurnsTaken
  BY <1>2 DEF Init, TurnsTaken, Held
<1> QED
  BY <1>3, <1>4, <1>5, <1>6 DEF LogSound

(* A step that leaves all alone.                                           *)
LEMMA StutterKeeps == LogSound /\ UNCHANGED vars => LogSound'
BY DEF LogSound, TypeOK, CallsSound, OnePlace, TurnsTaken, Held, UpTo, vars, fileVars, lsnVars,
       callVars, countVars

LEMMA AppendBeginKeeps ==
    ASSUME LogSound, NEW t \in Threads, AppendBegin(t)
    PROVE  LogSound'
<1> DEFINE r == [lsn |-> next_lsn, id |-> ids + 1]
<1>1. MaxRecords \in Nat \ {0} /\ next_lsn \in Nat /\ ids \in Nat /\ 1 <= next_lsn
      /\ next_lsn <= ids + 1 /\ ids + 1 <= MaxRecords
  BY DEF LogSound, TypeOK, CallsSound, AppendBegin
<1>2. r \in Record /\ r.lsn = next_lsn /\ r.id = ids + 1
  BY <1>1 DEF Record
<1>3. /\ pc[t] = "idle"
      /\ serial => \A u \in Threads : pc[u] = "idle"
      /\ ids' = ids + 1 /\ next_lsn' = next_lsn + 1
      /\ pc' = [pc EXCEPT ![t] = "append"] /\ rec' = [rec EXCEPT ![t] = r]
      /\ upto' = [upto EXCEPT ![t] = 0] /\ seen' = [seen EXCEPT ![t] = 0]
      /\ owed' = [owed EXCEPT ![t] = {}]
      /\ serial' = serial /\ flushed_lsn' = flushed_lsn /\ log_buffer' = log_buffer /\ file' = file
      /\ truncations' = truncations /\ crashes' = crashes /\ acked' = acked
      /\ truncated' = truncated /\ refused' = refused
  BY DEF AppendBegin, Enters, Call, fileVars
<1> HIDE DEF r
<1>4. TypeOK'
  <2>1. next_lsn' \in 1 .. MaxRecords + 1 /\ ids' \in 0 .. MaxRecords /\ 0 \in Lsns
    BY <1>1, <1>3 DEF Lsns
  <2> QED BY <1>2, <1>3, <2>1 DEF LogSound, TypeOK
<1>5. \A u \in Threads : /\ pc'[u] = (IF u = t THEN "append" ELSE pc[u])
                         /\ rec'[u] = (IF u = t THEN r ELSE rec[u])
                         /\ upto'[u] = (IF u = t THEN 0 ELSE upto[u])
                         /\ seen'[u] = (IF u = t THEN 0 ELSE seen[u])
                         /\ owed'[u] = (IF u = t THEN {} ELSE owed[u])
  BY <1>3 DEF LogSound, TypeOK
<1>6. CallsSound'
  BY <1>1, <1>2, <1>3, <1>5 DEF LogSound, CallsSound
<1>7. Held' = Held
  BY <1>3 DEF Held
<1>8. \A q \in Held \union truncated : q.id <= ids
  BY DEF LogSound, OnePlace
<1>9. Held \subseteq Record \union {Torn} /\ truncated \subseteq Record
  <2>1. log_buffer \in Seq(Record) /\ file \in Seq(Record \union {Torn}) /\ truncated \subseteq Record
    BY DEF LogSound, TypeOK
  <2> QED BY <2>1, ElementsAre DEF Held
<1>10. \A q \in Held \union truncated : q.id \in Nat
  BY <1>9, RecordNumbers, TornIsNoRecord
<1>11. OnePlace'
  <2>1. \A q \in (Held \union truncated)' : q.id <= ids'
    BY <1>1, <1>3, <1>7, <1>8, <1>10
  <2>2. r \notin Held \union truncated
    BY <1>1, <1>2, <1>8
  <2>3. \A u \in Threads : pc[u] = "append" => rec[u].id <= ids /\ rec[u] # r /\ rec[u].id <= ids + 1
    <3> SUFFICES ASSUME NEW u \in Threads, pc[u] = "append"
                 PROVE  rec[u].id <= ids /\ rec[u] # r /\ rec[u].id <= ids + 1
      OBVIOUS
    <3>1. rec[u] \in Record /\ rec[u].id <= ids
      BY DEF LogSound, CallsSound, OnePlace
    <3>2. rec[u].id \in Nat
      BY <3>1, RecordNumbers
    <3> QED BY <3>1, <3>2, <1>1, <1>2
  <2>4. ASSUME NEW u \in Threads, pc'[u] = "append"
        PROVE  /\ rec'[u].id <= ids'
               /\ rec'[u] \notin (Held \union truncated)'
               /\ \A v \in Threads : pc'[v] = "append" /\ rec'[v] = rec'[u] => u = v
    <3>1. CASE u = t
      BY <3>1, <1>1, <1>2, <1>3, <1>5, <1>7, <2>2, <2>3
    <3>2. CASE u # t
      <4>1. pc[u] = "append" /\ rec'[u] = rec[u]
        BY <3>2, <2>4, <1>5
      <4>2. rec'[u].id <= ids' /\ rec'[u] \notin (Held \union truncated)'
        BY <4>1, <2>3, <1>3, <1>7 DEF LogSound, OnePlace
      <4>3. \A v \in Threads : pc'[v] = "append" /\ rec'[v] = rec'[u] => u = v
        BY <4>1, <2>3, <1>5, <3>2 DEF LogSound, OnePlace
      <4> QED BY <4>2, <4>3
    <3> QED BY <3>1, <3>2
  <2> QED BY <2>1, <2>4, <1>3, <1>7 DEF LogSound, OnePlace
<1>12. TurnsTaken'
  <2> SUFFICES ASSUME serial' PROVE TurnsTaken'
    BY DEF TurnsTaken
  <2>1. serial /\ \A u \in Threads : pc[u] = "idle"
    BY <1>3
  <2>2. \A u \in Threads : pc'[u] # "idle" => u = t /\ pc'[u] = "append"
    BY <2>1, <1>5
  <2>3. flushed_lsn \in Nat /\ flushed_lsn < next_lsn
    BY <2>1 DEF LogSound, TypeOK, TurnsTaken, Lsns
  <2>4. flushed_lsn' < next_lsn'
    BY <2>3, <1>1, <1>3
  <2>5. log_buffer \in Seq(Record)
    BY DEF LogSound, TypeOK
  <2>6. \A i \in DOMAIN log_buffer : log_buffer[i].lsn \in Nat /\ log_buffer[i] \in ToSet(log_buffer)
    <3>1. \A i \in DOMAIN log_buffer : log_buffer[i] \in ToSet(log_buffer) /\ log_buffer[i] \in Record
      BY <2>5, ElementsAre
    <3> QED BY <3>1, RecordNumbers
  <2>7. \A i \in DOMAIN log_buffer :
           /\ flushed_lsn < log_buffer[i].lsn /\ log_buffer[i].lsn < next_lsn
           /\ log_buffer[i].lsn < next_lsn + 1
           /\ \A j \in DOMAIN log_buffer : i < j => log_buffer[i].lsn < log_buffer[j].lsn
    BY <2>1, <2>6, <1>1 DEF LogSound, TurnsTaken
  <2>8. \A q \in ToSet(log_buffer) : q.lsn < next_lsn
    BY <2>5, <2>7, ElementsAre
  <2>9. \A q \in Held : q.id < ids + 1
    BY <1>1, <1>8, <1>10
  <2>10. /\ flushed_lsn' < rec'[t].lsn /\ rec'[t].lsn < next_lsn'
         /\ \A q \in ToSet(log_buffer') : q.lsn < rec'[t].lsn
         /\ \A q \in Held' : q.id < rec'[t].id
    BY <2>3, <2>8, <2>9, <1>1, <1>2, <1>3, <1>5, <1>7
  <2>11. \A u, v \in Threads : pc'[u] # "idle" /\ pc'[v] # "idle" => u = v
    BY <2>2
  <2> QED BY <2>2, <2>4, <2>7, <2>10, <2>11, <1>3 DEF TurnsTaken
<1> QED
  BY <1>4, <1>6, <1>11, <1>12 DEF LogSound

LEMMA AppendPushKeeps ==
    ASSUME LogSound, NEW t \in Threads, AppendPush(t)
    PROVE  LogSound'
<1> DEFINE r == rec[t]
<1>1. /\ pc[t] = "append"
      /\ log_buffer' = Append(log_buffer, r) /\ acked' = acked \union {r}
      /\ pc' = [pc EXCEPT ![t] = "idle"] /\ rec' = [rec EXCEPT ![t] = NoRecord]
      /\ upto' = [upto EXCEPT ![t] = 0] /\ seen' = [seen EXCEPT ![t] = 0]
      /\ owed' = [owed EXCEPT ![t] = {}]
      /\ next_lsn' = next_lsn /\ flushed_lsn' = flushed_lsn /\ file' = file
      /\ serial' = serial /\ ids' = ids /\ truncations' = truncations /\ crashes' = crashes
      /\ truncated' = truncated /\ refused' = refused
  BY DEF AppendPush, Return, Call, lsnVars, countVars
<1>2. /\ r \in Record /\ r.id <= ids /\ r \notin Held \union truncated
      /\ log_buffer \in Seq(Record)
  BY <1>1 DEF LogSound, TypeOK, CallsSound, OnePlace
<1>3. \A u \in Threads : /\ pc'[u] = (IF u = t THEN "idle" ELSE pc[u])
                         /\ rec'[u] = (IF u = t THEN NoRecord ELSE rec[u])
                         /\ upto'[u] = (IF u = t THEN 0 ELSE upto[u])
                         /\ seen'[u] = (IF u = t THEN 0 ELSE seen[u])
                         /\ owed'[u] = (IF u = t THEN {} ELSE owed[u])
  BY <1>1 DEF LogSound, TypeOK
<1> HIDE DEF r
<1>4. log_buffer' \in Seq(Record) /\ ToSet(log_buffer') = ToSet(log_buffer) \union {r}
  BY <1>1, <1>2, AppendElements
<1>5. /\ Len(log_buffer') = Len(log_buffer) + 1
      /\ \A i \in 1 .. Len(log_buffer) : log_buffer'[i] = log_buffer[i]
      /\ log_buffer'[Len(log_buffer) + 1] = r
      /\ Len(log_buffer) \in Nat
  BY <1>1, <1>2, AppendEntries
<1>6. DOMAIN log_buffer = 1 .. Len(log_buffer) /\ DOMAIN log_buffer' = 1 .. Len(log_buffer) + 1
  BY <1>2, <1>4, <1>5, ElementsAre
<1>7. \A i \in 1 .. Len(log_buffer) : log_buffer[i] \in ToSet(log_buffer)
  BY <1>2, ElementsAre
<1>8. Held' = Held \union {r}
  BY <1>1, <1>4 DEF Held
<1>9. TypeOK'
  <2>1. 0 \in Lsns
    BY DEF Lsns
  <2> QED BY <1>1, <1>2, <1>4, <2>1 DEF LogSound, TypeOK
<1>10. CallsSound'
  BY <1>1, <1>3 DEF LogSound, CallsSound
<1>11. OnePlace'
  <2>1. \A q \in (Held \union truncated)' : q.id <= ids'
    BY <1>1, <1>2, <1>8 DEF LogSound, OnePlace
  <2>2. \A i, j \in DOMAIN log_buffer' : log_buffer'[i] = log_buffer'[j] => i = j
    <3> SUFFICES ASSUME NEW i \in DOMAIN log_buffer', NEW j \in DOMAIN log_buffer',
                        log_buffer'[i] = log_buffer'[j], i # j
                 PROVE  FALSE
      OBVIOUS
    <3>1. \A k \in 1 .. Len(log_buffer) : log_buffer'[k] # r
      BY <1>2, <1>5, <1>7 DEF Held
    <3>2. CASE i \in 1 .. Len(log_buffer) /\ j \in 1 .. Len(log_buffer)
      BY <3>2, <1>5, <1>6 DEF LogSound, OnePlace
    <3>3. CASE i = Len(log_buffer) + 1
      BY <3>1, <3>3, <1>5, <1>6
    <3>4. CASE j = Len(log_buffer) + 1
      BY <3>1, <3>4, <1>5, <1>6
    <3> QED BY <3>2, <3>3, <3>4, <1>5, <1>6
  <2>3. ToSet(log_buffer') \intersect ToSet(file') = {}
    BY <1>1, <1>2, <1>4 DEF LogSound, OnePlace, Held
  <2>4. Held' \intersect truncated' = {}
    BY <1>1, <1>2, <1>8 DEF LogSound, OnePlace
  <2>5. acked' \subseteq Held' \union truncated' \union refused'
    BY <1>1, <1>8 DEF LogSound, OnePlace
  <2>6. ASSUME NEW u \in Threads, pc'[u] = "append"
        PROVE  /\ rec'[u].id <= ids'
               /\ rec'[u] \notin (Held \union truncated)'
               /\ \A v \in Threads : pc'[v] = "append" /\ rec'[v] = rec'[u] => u = v
    <3>1. u # t /\ pc[u] = "append" /\ rec'[u] = rec[u]
      BY <2>6, <1>3
    <3>2. rec[u] # r
      BY <3>1, <1>1 DEF LogSound, OnePlace, r
    <3>3. rec[u].id <= ids /\ rec[u] \notin Held \union truncated
      BY <3>1 DEF LogSound, OnePlace
    <3>4. ASSUME NEW v \in Threads, pc'[v] = "append", rec'[v] = rec'[u] PROVE u = v
      <4>1. pc[v] = "append" /\ rec[v] = rec[u]
        BY <3>1, <3>4, <1>3
      <4> QED BY <3>1, <4>1 DEF LogSound, OnePlace
    <3> QED BY <3>1, <3>2, <3>3, <3>4, <1>1, <1>8
  <2>7. \A i, j \in DOMAIN file' : file'[i] = file'[j] /\ i # j => file'[i] = Torn
    BY <1>1 DEF LogSound, OnePlace
  <2> QED BY <2>1, <2>2, <2>3, <2>4, <2>5, <2>6, <2>7 DEF OnePlace
<1>12. TurnsTaken'
  <2> SUFFICES ASSUME serial' PROVE TurnsTaken'
    BY DEF TurnsTaken
  <2>1. serial /\ \A u \in Threads : pc'[u] = "idle"
    BY <1>1, <1>3 DEF LogSound, TurnsTaken
  <2>2. flushed_lsn < next_lsn /\ flushed_lsn < r.lsn /\ r.lsn < next_lsn
        /\ \A q \in ToSet(log_buffer) : q.lsn < r.lsn
    BY <1>1, <2>1 DEF LogSound, TurnsTaken, r
  <2>3. \A i \in 1 .. Len(log_buffer) :
           /\ flushed_lsn < log_buffer'[i].lsn /\ log_buffer'[i].lsn < next_lsn
           /\ log_buffer'[i].lsn < r.lsn
           /\ \A j \in 1 .. Len(log_buffer) : i < j => log_buffer'[i].lsn < log_buffer'[j].lsn
    BY <1>5, <1>6, <1>7, <2>1, <2>2 DEF LogSound, TurnsTaken
  <2>4. ASSUME NEW i \in DOMAIN log_buffer'
        PROVE  /\ flushed_lsn < log_buffer'[i].lsn /\ log_buffer'[i].lsn < next_lsn
               /\ \A j \in DOMAIN log_buffer' : i < j => log_buffer'[i].lsn < log_buffer'[j].lsn
    <3>1. CASE i = Len(log_buffer) + 1
      BY <3>1, <2>2, <1>5, <1>6
    <3>2. CASE i \in 1 .. Len(log_buffer)
      <4>1. ASSUME NEW j \in DOMAIN log_buffer', i < j
            PROVE  log_buffer'[i].lsn < log_buffer'[j].lsn
        <5>1. CASE j = Len(log_buffer) + 1
          BY <5>1, <3>2, <2>3, <1>5
        <5>2. CASE j \in 1 .. Len(log_buffer)
          BY <5>2, <4>1, <3>2, <2>3
        <5> QED BY <5>1, <5>2, <1>5, <1>6
      <4> QED BY <4>1, <3>2, <2>3
    <3> QED BY <3>1, <3>2, <1>5, <1>6
  <2> QED BY <2>1, <2>2, <2>4, <1>1 DEF TurnsTaken
<1> QED
  BY <1>9, <1>10, <1>11, <1>12 DEF LogSound

LEMMA FlushBeginKeeps ==
    ASSUME LogSound, NEW t \in Threads, NEW lsn \in Lsns, FlushBegin(t, lsn)
    PROVE  LogSound'
<1>1. /\ pc[t] = "idle"
      /\ serial => \A u \in Threads : pc[u] = "idle"
      /\ lsn > flushed_lsn
      /\ pc' = [pc EXCEPT ![t] = "flush"] /\ rec' = [rec EXCEPT ![t] = NoRecord]
      /\ upto' = [upto EXCEPT ![t] = lsn] /\ seen' = [seen EXCEPT ![t] = flushed_lsn]
      /\ owed' = [owed EXCEPT ![t] = UpTo(acked, lsn)]
      /\ next_lsn' = next_lsn /\ flushed_lsn' = flushed_lsn /\ file' = file /\ log_buffer' = log_buffer
      /\ serial' = serial /\ ids' = ids /\ truncations' = truncations /\ crashes' = crashes
      /\ acked' = acked /\ truncated' = truncated /\ refused' = refused
  BY DEF FlushBegin, Enters, Call, lsnVars, countVars, fileVars
<1>2. \A u \in Threads : /\ pc'[u] = (IF u = t THEN "flush" ELSE pc[u])
                         /\ rec'[u] = (IF u = t THEN NoRecord ELSE rec[u])
                         /\ upto'[u] = (IF u = t THEN lsn ELSE upto[u])
                         /\ seen'[u] = (IF u = t THEN flushed_lsn ELSE seen[u])
                         /\ owed'[u] = (IF u = t THEN UpTo(acked, lsn) ELSE owed[u])
  BY <1>1 DEF LogSound, TypeOK
<1>3. TypeOK'
  <2>1. UpTo(acked, lsn) \subseteq Record /\ flushed_lsn \in Lsns
    BY DEF LogSound, TypeOK, UpTo
  <2> QED BY <1>1, <2>1 DEF LogSound, TypeOK
<1>4. CallsSound'
  BY <1>1, <1>2 DEF LogSound, CallsSound
<1>5. Held' = Held
  BY <1>1 DEF Held
<1>6. OnePlace'
  <2>1. \A u \in Threads : pc'[u] = "append" => pc[u] = "append" /\ rec'[u] = rec[u]
    BY <1>2
  <2> QED BY <1>1, <1>5, <2>1 DEF LogSound, OnePlace
<1>7. TurnsTaken'
  <2> SUFFICES ASSUME serial' PROVE TurnsTaken'
    BY DEF TurnsTaken
  <2>1. serial /\ \A u \in Threads : pc'[u] # "idle" => u = t
    BY <1>1, <1>2
  <2>2. pc'[t] = "flush" /\ seen'[t] = flushed_lsn' /\ flushed_lsn' < upto'[t]
        /\ owed'[t] = UpTo(acked', upto'[t])
    <3>1. flushed_lsn < lsn
      BY <1>1 DEF LogSound, TypeOK, Lsns
    <3> QED BY <3>1, <1>1, <1>2
  <2>3. \A u \in Threads : pc'[u] # "append" /\ (pc'[u] = "flush" => u = t)
    BY <2>1, <2>2
  <2> QED BY <1>1, <2>1, <2>2, <2>3 DEF LogSound, TurnsTaken
<1> QED
  BY <1>3, <1>4, <1>6, <1>7 DEF LogSound

LEMMA CheckpointKeeps ==
    ASSUME LogSound, NEW t \in Threads, Checkpoint(t)
    PROVE  LogSound'
<1>1. /\ pc[t] = "idle"
      /\ serial => \A u \in Threads : pc[u] = "idle"
      /\ truncations < MaxTruncations /\ truncations' = truncations + 1
      /\ truncated' = truncated \union (ToSet(file) \ {Torn})
      /\ file' = <<>>
      /\ serial' = serial /\ log_buffer' = log_buffer
      /\ next_lsn' = next_lsn /\ flushed_lsn' = flushed_lsn
      /\ pc' = pc /\ rec' = rec /\ upto' = upto /\ seen' = seen /\ owed' = owed
      /\ ids' = ids /\ crashes' = crashes /\ acked' = acked /\ refused' = refused
  BY DEF Checkpoint, Enters, lsnVars, callVars
<1>2. ToSet(file') = {} /\ DOMAIN file' = {}
  BY <1>1 DEF ToSet
<1>3. ToSet(file) \subseteq Record \union {Torn} /\ ToSet(log_buffer) \subseteq Record
  <2>1. file \in Seq(Record \union {Torn}) /\ log_buffer \in Seq(Record)
    BY DEF LogSound, TypeOK
  <2> QED BY <2>1, ElementsAre
<1>4. Held' = ToSet(log_buffer)
  BY <1>1, <1>2 DEF Held
<1>5. TypeOK'
  <2>1. truncations' \in 0 .. MaxTruncations
    BY <1>1, LogAssumption DEF LogSound, TypeOK
  <2>2. file' \in Seq(Record \union {Torn})
    BY <1>1
  <2>3. truncated' \subseteq Record
    BY <1>1, <1>3 DEF LogSound, TypeOK
  <2> QED BY <1>1, <2>1, <2>2, <2>3 DEF LogSound, TypeOK
<1>6. CallsSound'
  BY <1>1 DEF LogSound, CallsSound
<1>7. OnePlace'
  <2>1. \A q \in (Held \union truncated)' : q.id <= ids'
    BY <1>1, <1>4 DEF LogSound, OnePlace, Held
  <2>2. Held' \intersect truncated' = {}
    BY <1>1, <1>4 DEF LogSound, OnePlace, Held
  <2>3. acked' \subseteq Held' \union truncated' \union refused'
    <3>1. acked \subseteq Record
      BY DEF LogSound, TypeOK
    <3>2. Torn \notin acked
      BY <3>1, TornIsNoRecord
    <3> QED BY <3>2, <1>1, <1>4 DEF LogSound, OnePlace, Held
  <2>4. \A u \in Threads : pc'[u] = "append" => rec'[u] \notin Held' \union truncated'
    BY <1>1, <1>4 DEF LogSound, OnePlace, Held
  <2>5. ToSet(log_buffer') \intersect ToSet(file') = {}
    BY <1>2
  <2> QED BY <1>1, <1>2, <2>1, <2>2, <2>3, <2>4, <2>5 DEF LogSound, OnePlace
<1>8. TurnsTaken'
  <2> SUFFICES ASSUME serial' PROVE TurnsTaken'
    BY DEF TurnsTaken
  <2>1. \A u \in Threads : pc'[u] = "idle"
    BY <1>1
  <2> QED BY <1>1, <2>1 DEF LogSound, TurnsTaken
<1> QED
  BY <1>5, <1>6, <1>7, <1>8 DEF LogSound

(* When callers take turns, a flush takes the first records of the buffer. *)
LEMMA DrainIsPrefix ==
    ASSUME LogSound, serial, NEW t \in Threads
    PROVE  \E n \in 0 .. Len(log_buffer) :
              /\ Drained(t) = SubSeq(log_buffer, 1, n)
              /\ Retained(t) = SubSeq(log_buffer, n + 1, Len(log_buffer))
<1> DEFINE s == log_buffer
           u == upto[t]
           B == { k \in Nat : \A i \in 1 .. Len(s) : k < i => ~ (s[i].lsn <= u) }
<1>1. s \in Seq(Record) /\ u \in Nat /\ u <= MaxRecords
  BY DEF LogSound, TypeOK, Lsns
<1>2. \A i, j \in 1 .. Len(s) : i < j => s[i].lsn < s[j].lsn
  <2>1. DOMAIN s = 1 .. Len(s)
    BY <1>1
  <2> QED BY <2>1 DEF LogSound, TurnsTaken
<1> HIDE DEF s, u
<1>3. Len(s) \in Nat /\ \A i \in 1 .. Len(s) : s[i].lsn \in 1 .. MaxRecords
  <2>1. \A i \in 1 .. Len(s) : s[i] \in Record
    BY <1>1
  <2> QED BY <1>1, <2>1, RecordNumbers
<1>4. Len(s) \in B
  BY <1>3
<1>5. IsWellFoundedOn(OpToRel(<, Nat), Nat)
  BY NatLessThanWellFounded
<1>6. PICK n \in B : \A k \in B : ~ (<<k, n>> \in OpToRel(<, Nat))
  <2> HIDE DEF B
  <2>1. B \subseteq Nat /\ B # {}
    BY <1>4 DEF B
  <2> QED BY <1>5, <2>1, WFMin
<1>7. \A k \in B : ~ (k < n)
  BY <1>6 DEF OpToRel
<1>8. n \in 0 .. Len(s)
  BY <1>4, <1>7, <1>3
<1>9. n # 0 => s[n].lsn <= u
  <2> SUFFICES ASSUME n # 0, ~ (s[n].lsn <= u) PROVE FALSE
    OBVIOUS
  <2>1. n - 1 \in Nat /\ n - 1 < n
    BY <1>8
  <2>2. \A i \in 1 .. Len(s) : n - 1 < i => ~ (s[i].lsn <= u)
    <3> SUFFICES ASSUME NEW i \in 1 .. Len(s), n - 1 < i PROVE ~ (s[i].lsn <= u)
      OBVIOUS
    <3>1. i = n \/ n < i
      BY <1>8
    <3> QED BY <3>1
  <2>3. n - 1 \in B
    BY <2>1, <2>2
  <2> QED BY <2>1, <2>3, <1>7
<1>10. \A i \in 1 .. Len(s) : s[i].lsn <= u <=> i <= n
  <2> SUFFICES ASSUME NEW i \in 1 .. Len(s) PROVE s[i].lsn <= u <=> i <= n
    OBVIOUS
  <2>1. CASE n < i
    BY <2>1, <1>8
  <2>2. CASE i = n
    BY <2>2, <1>9, <1>8
  <2>3. CASE i < n
    <3>1. s[i].lsn < s[n].lsn /\ s[n].lsn <= u /\ n \in 1 .. Len(s)
      BY <2>3, <1>2, <1>8, <1>9
    <3>2. s[i].lsn \in Nat /\ s[n].lsn \in Nat
      BY <3>1, <1>3
    <3> QED BY <3>1, <3>2, <2>3, <1>1
  <2> QED BY <2>1, <2>2, <2>3, <1>8
<1>11. DOMAIN s = 1 .. Len(s)
  BY <1>1
<1>12. Drained(t) = SubSeq(log_buffer, 1, n)
  <2>1. \A i \in 1 .. Len(s) : i \in Due(t) <=> i <= n
    BY <1>10, <1>11 DEF Due, s, u
  <2>2. Picked(s, Due(t)) = SubSeq(s, 1, n)
    BY <1>1, <1>8, <2>1, PickedFirst
  <2> QED BY <2>2 DEF Drained, s
<1>13. Retained(t) = SubSeq(log_buffer, n + 1, Len(log_buffer))
  <2> DEFINE places == DOMAIN s \ Due(t)
  <2>1. \A i \in 1 .. Len(s) : i \in places <=> ~ (i <= n)
    BY <1>10, <1>11 DEF Due, s, u
  <2> HIDE DEF places
  <2>2. Picked(s, places) = SubSeq(s, n + 1, Len(s))
    BY <1>1, <1>8, <2>1, PickedRest
  <2> QED BY <2>2 DEF Retained, s, places
<1> QED
  BY <1>8, <1>12, <1>13 DEF s

(* What a flush does, whether it wrote all or a part.                      *)
LEMMA FlushMoves ==
    ASSUME LogSound, NEW t \in Threads, pc[t] = "flush",
           log_buffer' = Retained(t),
           NEW p \in Seq(Record),
           ToSet(p) \subseteq ToSet(Drained(t)),
           \A i, j \in DOMAIN p : p[i] = p[j] => i = j,
           file' = file \o p \/ file' = file \o p \o <<Torn>>,
           Return(t),
           UNCHANGED <<next_lsn, countVars, acked, truncated>>,
           refused \subseteq refused', refused' \subseteq Record,
           ToSet(Drained(t)) \subseteq ToSet(p) \union refused',
           flushed_lsn' \in Lsns,
           serial => flushed_lsn' < next_lsn,
           serial => \A r \in ToSet(Retained(t)) : flushed_lsn' < r.lsn
    PROVE  LogSound'
<1>1. /\ pc' = [pc EXCEPT ![t] = "idle"] /\ rec' = [rec EXCEPT ![t] = NoRecord]
      /\ upto' = [upto EXCEPT ![t] = 0] /\ seen' = [seen EXCEPT ![t] = 0]
      /\ owed' = [owed EXCEPT ![t] = {}]
      /\ next_lsn' = next_lsn /\ acked' = acked /\ truncated' = truncated
      /\ serial' = serial /\ ids' = ids /\ truncations' = truncations /\ crashes' = crashes
  BY DEF Return, Call, countVars
<1>2. \A u \in Threads : /\ pc'[u] = (IF u = t THEN "idle" ELSE pc[u])
                         /\ rec'[u] = (IF u = t THEN NoRecord ELSE rec[u])
  BY <1>1 DEF LogSound, TypeOK
<1>3. /\ Drained(t) \in Seq(Record) /\ Retained(t) \in Seq(Record)
      /\ ToSet(Drained(t)) = { r \in ToSet(log_buffer) : r.lsn <= upto[t] }
      /\ ToSet(Retained(t)) = { r \in ToSet(log_buffer) : ~ (r.lsn <= upto[t]) }
      /\ \A i, j \in DOMAIN Retained(t) : Retained(t)[i] = Retained(t)[j] => i = j
  BY DrainSplits DEF LogSound
<1>4. /\ ToSet(p) \subseteq ToSet(log_buffer)
      /\ ToSet(log_buffer) \subseteq ToSet(log_buffer') \union ToSet(Drained(t))
      /\ ToSet(log_buffer') \subseteq ToSet(log_buffer)
      /\ ToSet(log_buffer') \intersect ToSet(p) = {}
  BY <1>3
<1>5. ToSet(file) \intersect ToSet(p) = {}
  BY <1>4 DEF LogSound, OnePlace
<1>6. /\ file' \in Seq(Record \union {Torn})
      /\ ToSet(file) \union ToSet(p) \subseteq ToSet(file')
      /\ ToSet(file') \subseteq ToSet(file) \union ToSet(p) \union {Torn}
      /\ \A i, j \in DOMAIN file' : file'[i] = file'[j] /\ i # j => file'[i] = Torn
  BY <1>4, FileTakes
<1>7. Held' \subseteq Held \union {Torn} /\ Held \subseteq Held' \union refused'
  BY <1>4, <1>6 DEF Held
<1>8. TypeOK'
  <2>1. 0 \in Lsns
    BY DEF Lsns
  <2> QED BY <1>1, <1>3, <1>6, <2>1 DEF LogSound, TypeOK
<1>9. CallsSound'
  BY <1>1, <1>2 DEF LogSound, CallsSound
<1>10. truncated \subseteq Record /\ ToSet(log_buffer) \subseteq Record
  <2>1. log_buffer \in Seq(Record) /\ truncated \subseteq Record
    BY DEF LogSound, TypeOK
  <2> QED BY <2>1, ElementsAre
<1>11. OnePlace'
  <2>1. \A q \in (Held \union truncated)' : q.id <= ids'
    <3>1. \A q \in Held \union truncated : q.id <= ids
      BY DEF LogSound, OnePlace
    <3>2. 0 <= ids
      BY DEF LogSound, TypeOK
    <3> QED BY <3>1, <3>2, <1>1, <1>7, TornIsNoRecord
  <2>2. ToSet(log_buffer') \intersect ToSet(file') = {}
    <3>1. Torn \notin ToSet(log_buffer')
      BY <1>4, <1>10, TornIsNoRecord
    <3>2. ToSet(log_buffer') \intersect ToSet(file) = {}
      BY <1>4 DEF LogSound, OnePlace
    <3> QED BY <3>1, <3>2, <1>4, <1>6
  <2>3. Held' \intersect truncated' = {}
    <3>1. Torn \notin truncated
      BY <1>10, TornIsNoRecord
    <3> QED BY <3>1, <1>1, <1>7 DEF LogSound, OnePlace
  <2>4. acked' \subseteq Held' \union truncated' \union refused'
    BY <1>1, <1>7 DEF LogSound, OnePlace
  <2>5. ASSUME NEW u \in Threads, pc'[u] = "append"
        PROVE  /\ rec'[u].id <= ids'
               /\ rec'[u] \notin (Held \union truncated)'
               /\ \A v \in Threads : pc'[v] = "append" /\ rec'[v] = rec'[u] => u = v
    <3>1. u # t /\ pc[u] = "append" /\ rec'[u] = rec[u] /\ rec[u] # Torn
      BY <2>5, <1>2, TornIsNoRecord DEF LogSound, CallsSound
    <3>2. rec[u].id <= ids /\ rec[u] \notin Held \union truncated
      BY <3>1 DEF LogSound, OnePlace
    <3>3. ASSUME NEW v \in Threads, pc'[v] = "append", rec'[v] = rec'[u] PROVE u = v
      <4>1. pc[v] = "append" /\ rec[v] = rec[u]
        BY <3>1, <3>3, <1>2
      <4> QED BY <3>1, <4>1 DEF LogSound, OnePlace
    <3> QED BY <3>1, <3>2, <3>3, <1>1, <1>7
  <2> QED BY <2>1, <2>2, <2>3, <2>4, <2>5, <1>3, <1>6 DEF OnePlace
<1>12. TurnsTaken'
  <2> SUFFICES ASSUME serial' PROVE TurnsTaken'
    BY DEF TurnsTaken
  <2>1. serial
    BY <1>1
  <2>2. \A u \in Threads : pc'[u] = "idle"
    BY <2>1, <1>2 DEF LogSound, TurnsTaken
  <2>3. PICK n \in 0 .. Len(log_buffer) : Retained(t) = SubSeq(log_buffer, n + 1, Len(log_buffer))
    BY <2>1, DrainIsPrefix
  <2> DEFINE m == Len(log_buffer)
  <2>4. log_buffer \in Seq(Record) /\ m \in Nat /\ n \in Nat /\ n <= m
    BY DEF LogSound, TypeOK
  <2>5. DOMAIN log_buffer' = 1 .. m - n /\ \A i \in 1 .. m - n : log_buffer'[i] = log_buffer[n + i]
    <3>1. /\ DOMAIN SubSeq(log_buffer, n + 1, m) = 1 .. m - n
          /\ \A i \in 1 .. m - n : SubSeq(log_buffer, n + 1, m)[i] = log_buffer[n + i]
      BY <2>4, LastEntries
    <3> QED BY <2>3, <3>1
  <2>6. \A i \in DOMAIN log_buffer' : log_buffer'[i] \in ToSet(Retained(t))
    <3>1. \A i \in DOMAIN Retained(t) : Retained(t)[i] \in ToSet(Retained(t))
      BY DEF ToSet
    <3> QED BY <3>1
  <2>7. ASSUME NEW i \in DOMAIN log_buffer'
        PROVE  /\ flushed_lsn' < log_buffer'[i].lsn /\ log_buffer'[i].lsn < next_lsn'
               /\ \A j \in DOMAIN log_buffer' : i < j => log_buffer'[i].lsn < log_buffer'[j].lsn
    <3>1. n + i \in DOMAIN log_buffer /\ log_buffer'[i] = log_buffer[n + i]
      BY <2>4, <2>5
    <3>2. log_buffer[n + i].lsn < next_lsn
      BY <2>1, <3>1 DEF LogSound, TurnsTaken
    <3>3. ASSUME NEW j \in DOMAIN log_buffer', i < j
          PROVE  log_buffer'[i].lsn < log_buffer'[j].lsn
      <4>1. n + j \in DOMAIN log_buffer /\ log_buffer'[j] = log_buffer[n + j] /\ n + i < n + j
        BY <2>4, <2>5, <3>3
      <4> QED BY <2>1, <3>1, <4>1 DEF LogSound, TurnsTaken
    <3> QED BY <1>1, <2>1, <2>6, <3>1, <3>2, <3>3
  <2> QED BY <1>1, <2>1, <2>2, <2>7 DEF TurnsTaken
<1> QED
  BY <1>8, <1>9, <1>11, <1>12 DEF LogSound

(* The new flushed_lsn stays below the LSNs given out and those in memory. *)
LEMMA NewFlushedBounds ==
    ASSUME LogSound, NEW t \in Threads, pc[t] = "flush"
    PROVE  /\ NewFlushed(t) \in Lsns
           /\ serial => /\ NewFlushed(t) < next_lsn
                        /\ NewFlushed(t) <= upto[t]
<1> DEFINE T == {seen[t]} \union { r.lsn : r \in ToSet(Drained(t)) }
<1>1. /\ Drained(t) \in Seq(Record)
      /\ ToSet(Drained(t)) = { r \in ToSet(log_buffer) : r.lsn <= upto[t] }
  BY DrainSplits DEF LogSound
<1>2. T \in SUBSET Lsns /\ T # {}
  <2>1. ToSet(Drained(t)) \subseteq Record
    BY <1>1, ElementsAre
  <2> QED BY <2>1, RecordNumbers DEF LogSound, TypeOK, Lsns
<1>3. NewFlushed(t) \in T
  <2> HIDE DEF T
  <2>1. Max(T) \in T
    BY <1>2, LargestLsn
  <2> QED BY <2>1 DEF NewFlushed, T
<1>4. ASSUME serial, NEW x \in T PROVE x < next_lsn /\ x <= upto[t]
  <2>1. CASE x = seen[t]
    <3>1. x = flushed_lsn /\ flushed_lsn < upto[t] /\ flushed_lsn < next_lsn
      BY <1>4, <2>1 DEF LogSound, TurnsTaken
    <3>2. flushed_lsn \in Nat /\ upto[t] \in Nat
      BY DEF LogSound, TypeOK, Lsns
    <3> QED BY <3>1, <3>2
  <2>2. CASE \E r \in ToSet(Drained(t)) : x = r.lsn
    <3>1. PICK r \in ToSet(log_buffer) : x = r.lsn /\ r.lsn <= upto[t]
      BY <1>1, <2>2
    <3>2. log_buffer \in Seq(Record)
      BY DEF LogSound, TypeOK
    <3>3. PICK i \in DOMAIN log_buffer : r = log_buffer[i]
      BY <3>2, ElementsAre
    <3>4. r.lsn < next_lsn
      BY <1>4, <3>3 DEF LogSound, TurnsTaken
    <3> QED BY <3>1, <3>4
  <2> QED BY <2>1, <2>2
<1> QED
  BY <1>2, <1>3, <1>4

LEMMA FlushWriteKeeps ==
    ASSUME LogSound, NEW t \in Threads, FlushWrite(t)
    PROVE  LogSound'
<1>1. /\ pc[t] = "flush" /\ log_buffer' = Retained(t) /\ file' = file \o Drained(t) /\ Return(t)
      /\ flushed_lsn' = (IF Drained(t) = <<>> THEN flushed_lsn ELSE NewFlushed(t))
      /\ UNCHANGED <<next_lsn, countVars, acked, truncated>> /\ refused' = refused
  BY DEF FlushWrite
<1>2. /\ Drained(t) \in Seq(Record)
      /\ ToSet(Retained(t)) = { r \in ToSet(log_buffer) : ~ (r.lsn <= upto[t]) }
      /\ \A i, j \in DOMAIN Drained(t) : Drained(t)[i] = Drained(t)[j] => i = j
  BY DrainSplits DEF LogSound
<1>3. flushed_lsn \in Lsns /\ refused \subseteq Record /\ log_buffer \in Seq(Record) /\ upto[t] \in Nat
  BY DEF LogSound, TypeOK, Lsns
<1>4. flushed_lsn' \in Lsns /\ (serial => flushed_lsn' < next_lsn)
  BY <1>1, <1>3, NewFlushedBounds DEF LogSound, TurnsTaken
<1>5. ASSUME serial, NEW r \in ToSet(Retained(t)) PROVE flushed_lsn' < r.lsn
  <2>1. r \in ToSet(log_buffer) /\ ~ (r.lsn <= upto[t])
    BY <1>2, <1>5
  <2>2. PICK i \in DOMAIN log_buffer : r = log_buffer[i]
    BY <1>3, <2>1, ElementsAre
  <2>3. r.lsn \in Nat
    <3>1. r \in Record
      BY <1>3, <2>1, ElementsAre
    <3> QED BY <3>1, RecordNumbers
  <2>4. flushed_lsn < r.lsn
    BY <1>5, <2>2 DEF LogSound, TurnsTaken
  <2>5. NewFlushed(t) <= upto[t] /\ NewFlushed(t) \in Nat
    BY <1>1, <1>5, NewFlushedBounds DEF Lsns
  <2>6. NewFlushed(t) < r.lsn
    BY <2>1, <2>3, <2>5, <1>3
  <2> QED BY <1>1, <2>4, <2>6
<1> DEFINE d == Drained(t)
<1> HIDE DEF d
<1>6. /\ d \in Seq(Record) /\ ToSet(d) \subseteq ToSet(Drained(t))
      /\ \A i, j \in DOMAIN d : d[i] = d[j] => i = j
      /\ file' = file \o d
      /\ ToSet(Drained(t)) \subseteq ToSet(d) \union refused'
  BY <1>1, <1>2 DEF d
<1> QED
  BY <1>1, <1>3, <1>4, <1>5, <1>6, FlushMoves

LEMMA FlushFailsKeeps ==
    ASSUME LogSound, NEW t \in Threads, FlushFails(t)
    PROVE  LogSound'
<1>1. /\ pc[t] = "flush" /\ log_buffer' = Retained(t) /\ Return(t) /\ PartlyWritten(t)
      /\ flushed_lsn' = flushed_lsn
      /\ UNCHANGED <<next_lsn, countVars, acked, truncated>>
      /\ refused' = refused \union ToSet(Drained(t))
  BY DEF FlushFails, lsnVars
<1>2. PICK p \in Seq(Record) : /\ ToSet(p) \subseteq ToSet(Drained(t))
                               /\ \A i, j \in DOMAIN p : p[i] = p[j] => i = j
                               /\ file' = file \o p \/ file' = file \o p \o <<Torn>>
  BY <1>1, PartOfDrained DEF LogSound
<1>3. /\ Drained(t) \in Seq(Record)
      /\ ToSet(Retained(t)) = { r \in ToSet(log_buffer) : ~ (r.lsn <= upto[t]) }
  BY DrainSplits DEF LogSound
<1>4. flushed_lsn \in Lsns /\ refused \subseteq Record /\ log_buffer \in Seq(Record)
  BY DEF LogSound, TypeOK
<1>5. ToSet(Drained(t)) \subseteq Record
  BY <1>3, ElementsAre
<1>6. ASSUME serial
      PROVE  flushed_lsn' < next_lsn /\ \A r \in ToSet(Retained(t)) : flushed_lsn' < r.lsn
  <2>1. \A r \in ToSet(log_buffer) : flushed_lsn < r.lsn
    <3> SUFFICES ASSUME NEW r \in ToSet(log_buffer) PROVE flushed_lsn < r.lsn
      OBVIOUS
    <3>1. PICK i \in DOMAIN log_buffer : r = log_buffer[i]
      BY <1>4, ElementsAre
    <3> QED BY <1>6, <3>1 DEF LogSound, TurnsTaken
  <2>2. flushed_lsn < next_lsn
    BY <1>6 DEF LogSound, TurnsTaken
  <2> QED BY <1>1, <1>3, <2>1, <2>2
<1>7. refused \subseteq refused' /\ refused' \subseteq Record
      /\ ToSet(Drained(t)) \subseteq ToSet(p) \union refused'
  BY <1>1, <1>4, <1>5
<1> QED
  BY <1>1, <1>2, <1>4, <1>6, <1>7, FlushMoves

LEMMA CrashKeeps ==
    ASSUME LogSound, Crash
    PROVE  LogSound'
<1>1. /\ crashes < MaxCrashes /\ crashes' = crashes + 1
      /\ next_lsn' = 1 /\ flushed_lsn' = 0 /\ log_buffer' = <<>>
      /\ pc' = [u \in Threads |-> "idle"] /\ rec' = [u \in Threads |-> NoRecord]
      /\ upto' = [u \in Threads |-> 0] /\ seen' = [u \in Threads |-> 0]
      /\ owed' = [u \in Threads |-> {}] /\ acked' = {}
      /\ serial' = serial /\ ids' = ids /\ truncations' = truncations
      /\ truncated' = truncated /\ refused' = refused
  BY DEF Crash
<1>2. ToSet(log_buffer') = {} /\ DOMAIN log_buffer' = {}
  BY <1>1 DEF ToSet
<1>3. /\ file' \in Seq(Record \union {Torn})
      /\ ToSet(file') \subseteq Held \union {Torn}
      /\ \A i, j \in DOMAIN file' : file'[i] = file'[j] /\ i # j => file'[i] = Torn
  <2>1. CASE file' = file
    BY <2>1 DEF LogSound, TypeOK, OnePlace, Held
  <2>2. CASE \E t \in Threads : PartlyWritten(t)
    <3>1. PICK t \in Threads : PartlyWritten(t)
      BY <2>2
    <3>2. PICK p \in Seq(Record) : /\ ToSet(p) \subseteq ToSet(Drained(t))
                                   /\ \A i, j \in DOMAIN p : p[i] = p[j] => i = j
                                   /\ file' = file \o p \/ file' = file \o p \o <<Torn>>
      BY <3>1, PartOfDrained DEF LogSound
    <3>3. ToSet(Drained(t)) \subseteq ToSet(log_buffer)
      BY DrainSplits DEF LogSound
    <3>4. ToSet(file) \intersect ToSet(p) = {}
      BY <3>2, <3>3 DEF LogSound, OnePlace
    <3>5. /\ file' \in Seq(Record \union {Torn})
          /\ ToSet(file') \subseteq ToSet(file) \union ToSet(p) \union {Torn}
          /\ \A i, j \in DOMAIN file' : file'[i] = file'[j] /\ i # j => file'[i] = Torn
      BY <3>2, <3>3, FileTakes
    <3> QED BY <3>2, <3>3, <3>5 DEF Held
  <2> QED BY <2>1, <2>2 DEF Crash
<1>4. Held' \subseteq Held \union {Torn}
  BY <1>2, <1>3 DEF Held
<1>5. TypeOK'
  <2>1. crashes' \in 0 .. MaxCrashes
    BY <1>1, LogAssumption DEF LogSound, TypeOK
  <2>2. 0 \in Lsns /\ 1 \in 1 .. MaxRecords + 1 /\ log_buffer' \in Seq(Record)
    BY <1>1 DEF Lsns
  <2> QED BY <1>1, <1>3, <2>1, <2>2 DEF LogSound, TypeOK
<1>6. CallsSound'
  BY <1>1 DEF LogSound, TypeOK, CallsSound
<1>7. OnePlace'
  <2>1. \A q \in (Held \union truncated)' : q.id <= ids'
    <3>1. \A q \in Held \union truncated : q.id <= ids
      BY DEF LogSound, OnePlace
    <3>2. 0 <= ids
      BY DEF LogSound, TypeOK
    <3> QED BY <3>1, <3>2, <1>1, <1>4, TornIsNoRecord
  <2>2. Held' \intersect truncated' = {}
    <3>1. Torn \notin truncated
      BY TornIsNoRecord DEF LogSound, TypeOK
    <3> QED BY <3>1, <1>1, <1>4 DEF LogSound, OnePlace
  <2> QED BY <1>1, <1>2, <1>3, <2>1, <2>2 DEF OnePlace
<1>8. TurnsTaken'
  BY <1>1, <1>2 DEF TurnsTaken
<1> QED
  BY <1>5, <1>6, <1>7, <1>8 DEF LogSound

LEMMA StepKeeps == LogSound /\ [Next]_vars => LogSound'
<1> SUFFICES ASSUME LogSound, [Next]_vars PROVE LogSound'
  OBVIOUS
<1>1. CASE \E t \in Threads : AppendBegin(t)
  BY <1>1, AppendBeginKeeps
<1>2. CASE \E t \in Threads : AppendPush(t)
  BY <1>2, AppendPushKeeps
<1>3. CASE \E t \in Threads : \E lsn \in Lsns : FlushSkip(t, lsn)
  BY <1>3, StutterKeeps DEF FlushSkip
<1>4. CASE \E t \in Threads : \E lsn \in Lsns : FlushBegin(t, lsn)
  BY <1>4, FlushBeginKeeps
<1>5. CASE \E t \in Threads : FlushWrite(t)
  BY <1>5, FlushWriteKeeps
<1>6. CASE \E t \in Threads : FlushFails(t)
  BY <1>6, FlushFailsKeeps
<1>7. CASE \E t \in Threads : Checkpoint(t)
  BY <1>7, CheckpointKeeps
<1>8. CASE Crash
  BY <1>8, CrashKeeps
<1>9. CASE UNCHANGED vars
  BY <1>9, StutterKeeps
<1> QED
  BY <1>1, <1>2, <1>3, <1>4, <1>5, <1>6, <1>7, <1>8, <1>9 DEF Next

(* In every state that can be reached the log is sound, however calls of   *)
(* append_record, flush_up_to and checkpoint interleave, whatever writes   *)
(* fail and wherever a crash tears one.                                    *)
THEOREM LogInvariant == Spec => []LogSound
<1>1. Init => LogSound
  BY InitSound
<1>2. LogSound /\ [Next]_vars => LogSound'
  BY StepKeeps
<1> QED
  BY <1>1, <1>2, PTL DEF Spec

-----------------------------------------------------------------------------
(* What the log promises *)

LEMMA SoundKeepsRecords == LogSound => EveryRecordOnce
<1> SUFFICES ASSUME LogSound PROVE EveryRecordOnce
  OBVIOUS
<1> DEFINE R == Record \union {Torn}
           records == log_buffer \o file
<1>1. log_buffer \in Seq(Record) /\ log_buffer \in Seq(R) /\ file \in Seq(R)
  BY DEF LogSound, TypeOK
<1> HIDE DEF R
<1>2. ToSet(records) = ToSet(log_buffer) \union ToSet(file)
  BY <1>1, ConcatElements
<1>3. OnceOrTorn(records)
  <2>1. OnceOrTorn(log_buffer) /\ OnceOrTorn(file)
    BY DEF LogSound, OnePlace, OnceOrTorn
  <2>2. ToSet(log_buffer) \intersect ToSet(file) = {}
    BY DEF LogSound, OnePlace
  <2> QED BY <1>1, <2>1, <2>2, ConcatOnce
<1> HIDE DEF records
<1>4. acked \subseteq ToSet(records) \union truncated \union refused
  BY <1>2 DEF LogSound, OnePlace, Held
<1>5. ToSet(records) \intersect truncated = {}
  BY <1>2 DEF LogSound, OnePlace, Held
<1> QED
  BY <1>3, <1>4, <1>5 DEF LogSound, EveryRecordOnce, OnceOrTorn, records

(* A record that a caller appended is in one place, in the buffer or in    *)
(* the file, once, until a checkpoint removes it, and then it does not     *)
(* come back: for threads that call the log at the same time, with failing *)
(* and torn writes (EveryRecordOnce).                                      *)
THEOREM RecordsAreKept == Spec => []EveryRecordOnce
  BY LogInvariant, SoundKeepsRecords, PTL

(* All of a file without a torn record can be read.                        *)
LEMMA WholeIsReadable == Whole => Readable = file
BY DEF Whole, Readable

LEMMA ShortCutIsRight == LogSound => FlushedLsnIsTrue
<1> SUFFICES ASSUME LogSound, serial, Whole, NEW r \in UpTo(acked, flushed_lsn)
             PROVE  r \in Safe \union refused
  BY DEF FlushedLsnIsTrue
<1>1. r \in acked /\ r.lsn <= flushed_lsn
  BY DEF UpTo
<1>2. r \notin ToSet(log_buffer)
  <2> SUFFICES ASSUME r \in ToSet(log_buffer) PROVE FALSE
    OBVIOUS
  <2>1. log_buffer \in Seq(Record) /\ flushed_lsn \in Nat
    BY DEF LogSound, TypeOK, Lsns
  <2>2. PICK i \in DOMAIN log_buffer : r = log_buffer[i]
    BY <2>1, ElementsAre
  <2>3. r.lsn \in Nat
    <3>1. r \in Record
      BY <2>1, ElementsAre
    <3> QED BY <3>1, RecordNumbers
  <2>4. flushed_lsn < r.lsn
    BY <2>2 DEF LogSound, TurnsTaken
  <2> QED BY <1>1, <2>1, <2>3, <2>4
<1>3. r \in ToSet(file) \union truncated \union refused
  BY <1>1, <1>2 DEF LogSound, OnePlace, Held
<1> QED
  BY <1>3, WholeIsReadable DEF Safe

(* When flush_up_to returns early because lsn <= flushed_lsn, the records  *)
(* up to lsn are durable: when callers take turns, unless a flush failed   *)
(* with them or a torn record hides them (FlushedLsnIsTrue).               *)
THEOREM FlushedLsnNeverLies == Spec => []FlushedLsnIsTrue
  BY LogInvariant, ShortCutIsRight, PTL

(* What a flush of a log without torn records leaves can be read.          *)
LEMMA FlushReaches ==
    ASSUME LogSound, NEW t \in Threads, serial, Whole, FlushWrite(t)
    PROVE  owed[t] \subseteq Safe' \union refused
<1> SUFFICES ASSUME NEW r \in owed[t] PROVE r \in Safe' \union refused
  OBVIOUS
<1>1. pc[t] = "flush" /\ file' = file \o Drained(t) /\ truncated' = truncated
  BY DEF FlushWrite
<1>2. r \in acked /\ r.lsn <= upto[t]
  BY <1>1 DEF LogSound, TurnsTaken, UpTo
<1>3. r \in ToSet(log_buffer) \union ToSet(file) \union truncated \union refused
  BY <1>2 DEF LogSound, OnePlace, Held
<1>4. /\ Drained(t) \in Seq(Record)
      /\ ToSet(Drained(t)) = { q \in ToSet(log_buffer) : q.lsn <= upto[t] }
  BY DrainSplits DEF LogSound
<1>5. file \in Seq(Record \union {Torn}) /\ Drained(t) \in Seq(Record \union {Torn})
  BY <1>4 DEF LogSound, TypeOK
<1>6. /\ file' \in Seq(Record \union {Torn})
      /\ ToSet(file') = ToSet(file) \union ToSet(Drained(t))
  BY <1>1, <1>5, ConcatElements
<1>7. Whole'
  <2>1. Torn \notin ToSet(file)
    BY <1>5, ElementsAre DEF Whole, Contains
  <2>2. Torn \notin ToSet(Drained(t))
    BY <1>4, ElementsAre, TornIsNoRecord
  <2>3. Torn \notin ToSet(file')
    BY <1>6, <2>1, <2>2
  <2>4. \A i \in 1 .. Len(file') : file'[i] # Torn
    BY <1>6, <2>3, ElementsAre
  <2> QED BY <2>4 DEF Whole, Contains
<1>8. Readable' = file'
  BY <1>7 DEF Whole, Readable
<1>9. r \in ToSet(file') \union truncated' \union refused
  BY <1>1, <1>2, <1>3, <1>4, <1>6
<1> QED
  BY <1>8, <1>9 DEF Safe

(* A flush_up_to(lsn) that wrote and returns Ok has made durable what was  *)
(* appended up to lsn before it was called, for callers that take turns    *)
(* (FlushedIsDurable).                                                     *)
THEOREM FlushesAreDurable == Spec => FlushedIsDurable
<1>1. ASSUME LogSound, NEW t \in Threads, serial /\ Whole /\ FlushWrite(t)
      PROVE  owed[t] \subseteq Safe' \union refused
  BY <1>1, FlushReaches
<1>2. LogSound => [\A t \in Threads :
                     serial /\ Whole /\ FlushWrite(t) => owed[t] \subseteq Safe' \union refused]_vars
  BY <1>1
<1> QED
  BY <1>2, LogInvariant, PTL DEF FlushedIsDurable

-----------------------------------------------------------------------------
(* The log is a sequence *)

LEMMA SubSeqWhole ==
    ASSUME NEW S, NEW s \in Seq(S)
    PROVE  /\ SubSeq(s, 1, 0) = <<>>
           /\ SubSeq(s, 0 + 1, Len(s)) = s
           /\ s \o <<>> = s
<1>1. Len(s) \in Nat
  OBVIOUS
<1>2. SubSeq(s, 1, 0) = <<>>
  OBVIOUS
<1>3. /\ SubSeq(s, 0 + 1, Len(s)) \in Seq(S)
      /\ DOMAIN SubSeq(s, 0 + 1, Len(s)) = 1 .. Len(s) - 0
      /\ \A k \in 1 .. Len(s) - 0 : SubSeq(s, 0 + 1, Len(s))[k] = s[0 + k]
  BY <1>1, LastEntries
<1> DEFINE x == SubSeq(s, 0 + 1, Len(s))
<1> HIDE DEF x
<1>4. x \in Seq(S) /\ DOMAIN x = 1 .. Len(s) /\ \A k \in 1 .. Len(s) : x[k] = s[k]
  BY <1>1, <1>3 DEF x
<1>5. Len(x) = Len(s)
  BY <1>1, <1>4
<1>6. x = s
  BY <1>4, <1>5, SameEntries
<1>7. s \o <<>> = s
  OBVIOUS
<1> QED
  BY <1>2, <1>6, <1>7 DEF x

LEMMA SubSeqOfSubSeq ==
    ASSUME NEW S, NEW s \in Seq(S), NEW n \in 0 .. Len(s), NEW m \in 0 .. n
    PROVE  SubSeq(SubSeq(s, 1, n), 1, m) = SubSeq(s, 1, m)
<1> DEFINE x == SubSeq(s, 1, n)
<1>1. Len(s) \in Nat /\ n \in Nat /\ m \in Nat /\ m <= n /\ n <= Len(s)
  OBVIOUS
<1>2. x \in Seq(S) /\ Len(x) = n /\ \A k \in 1 .. n : x[k] = s[k]
  BY FirstEntries
<1> HIDE DEF x
<1>3. /\ SubSeq(x, 1, m) \in Seq(S) /\ Len(SubSeq(x, 1, m)) = m
      /\ \A k \in 1 .. m : SubSeq(x, 1, m)[k] = x[k]
  BY <1>1, <1>2, FirstEntries
<1>4. /\ SubSeq(s, 1, m) \in Seq(S) /\ Len(SubSeq(s, 1, m)) = m
      /\ \A k \in 1 .. m : SubSeq(s, 1, m)[k] = s[k]
  BY <1>1, FirstEntries
<1>5. \A k \in 1 .. m : SubSeq(x, 1, m)[k] = SubSeq(s, 1, m)[k]
  BY <1>1, <1>2, <1>3, <1>4
<1>6. SubSeq(x, 1, m) = SubSeq(s, 1, m)
  BY <1>3, <1>4, <1>5, SameEntries
<1> QED
  BY <1>6 DEF x

LEMMA InitIsLog == Init => Log!Init
BY DEF Init, Log!Init

(* The record of a call follows all others.                                *)
LEMMA AppendPushWrites ==
    ASSUME LogSound, serial, NEW t \in Threads, AppendPush(t)
    PROVE  Log!Next
<1>1. /\ pc[t] = "append" /\ log_buffer' = Append(log_buffer, rec[t])
      /\ file' = file /\ truncations' = truncations /\ crashes' = crashes
  BY DEF AppendPush, countVars
<1>2. rec[t] \in Record
  BY <1>1 DEF LogSound, CallsSound
<1>3. \A q \in Held : q.id < rec[t].id
  BY <1>1 DEF LogSound, TurnsTaken
<1>4. log_buffer \in Seq(Record) /\ file \in Seq(Record \union {Torn})
  BY DEF LogSound, TypeOK
<1>5. /\ \A i \in 1 .. Len(log_buffer) : log_buffer[i] \in Held
      /\ \A i \in 1 .. Len(file) : file[i] \in Held
  BY <1>4, ElementsAre DEF Held
<1>6. Log!Write(rec[t])
  BY <1>1, <1>3, <1>5 DEF Log!Write
<1> QED
  BY <1>2, <1>6 DEF Log!Next

(* A flush forces the first records of the buffer, or there are none.      *)
LEMMA FlushWriteForces ==
    ASSUME LogSound, serial, NEW t \in Threads, FlushWrite(t)
    PROVE  [Log!Next]_(Log!walVars)
<1>1. /\ log_buffer' = Retained(t) /\ file' = file \o Drained(t)
      /\ truncations' = truncations /\ crashes' = crashes
  BY DEF FlushWrite, countVars
<1>2. log_buffer \in Seq(Record) /\ file \in Seq(Record \union {Torn})
  BY DEF LogSound, TypeOK
<1>3. PICK n \in 0 .. Len(log_buffer) :
         /\ Drained(t) = SubSeq(log_buffer, 1, n)
         /\ Retained(t) = SubSeq(log_buffer, n + 1, Len(log_buffer))
  BY DrainIsPrefix
<1>4. CASE n = 0
  <2>1. Drained(t) = <<>> /\ Retained(t) = log_buffer
    BY <1>2, <1>3, <1>4, SubSeqWhole
  <2>2. file' = file /\ log_buffer' = log_buffer
    BY <1>1, <1>2, <2>1, SubSeqWhole
  <2> QED BY <1>1, <2>2 DEF Log!walVars
<1>5. CASE n # 0
  <2>1. n \in 1 .. Len(log_buffer)
    BY <1>2, <1>5
  <2>2. Log!Force(n)
    BY <1>1, <1>3 DEF Log!Force
  <2> QED BY <2>1, <2>2 DEF Log!Next
<1> QED
  BY <1>4, <1>5

(* A crash loses the last records.                                         *)
LEMMA CrashLosesTheLast ==
    ASSUME LogSound, serial, Whole', Crash
    PROVE  Log!Next
<1>1. log_buffer' = <<>> /\ crashes' = crashes + 1 /\ truncations' = truncations
  BY DEF Crash
<1>2. log_buffer \in Seq(Record) /\ file \in Seq(Record \union {Torn})
  BY DEF LogSound, TypeOK
<1>3. \E n \in 0 .. Len(log_buffer) : file' = file \o SubSeq(log_buffer, 1, n)
  <2>1. CASE file' = file
    <3>1. 0 \in 0 .. Len(log_buffer) /\ file \o SubSeq(log_buffer, 1, 0) = file
      BY <1>2, SubSeqWhole
    <3> QED BY <2>1, <3>1
  <2>2. CASE \E t \in Threads : PartlyWritten(t)
    <3>1. PICK t \in Threads : PartlyWritten(t)
      BY <2>2
    <3>2. PICK n \in 0 .. Len(log_buffer) : Drained(t) = SubSeq(log_buffer, 1, n)
      BY DrainIsPrefix
    <3>3. Len(Drained(t)) = n /\ Len(log_buffer) \in Nat /\ Drained(t) \in Seq(Record)
      BY <1>2, <3>2, FirstEntries
    <3>4. PICK m \in 0 .. n : \/ file' = file \o SubSeq(Drained(t), 1, m)
                              \/ file' = file \o SubSeq(Drained(t), 1, m) \o <<Torn>>
      BY <3>1, <3>3 DEF PartlyWritten
    <3>5. CASE file' = file \o SubSeq(Drained(t), 1, m)
      <4>1. SubSeq(Drained(t), 1, m) = SubSeq(log_buffer, 1, m)
        BY <1>2, <3>2, SubSeqOfSubSeq
      <4>2. m \in 0 .. Len(log_buffer)
        BY <3>3
      <4> QED BY <3>5, <4>1, <4>2
    <3>6. CASE file' = file \o SubSeq(Drained(t), 1, m) \o <<Torn>>
      <4> DEFINE R == Record \union {Torn}
                 d == SubSeq(Drained(t), 1, m)
                 h == file \o d
      <4>1. d \in Seq(Record)
        BY <3>3, FirstEntries
      <4>2. file \in Seq(R) /\ d \in Seq(R) /\ Torn \in R
        BY <1>2, <4>1
      <4> HIDE DEF R, d
      <4>3. h \in Seq(R)
        BY <4>2, ConcatElements
      <4>4. file' = h \o <<Torn>>
        BY <3>6 DEF d
      <4> HIDE DEF h
      <4>5. h \o <<Torn>> = Append(h, Torn)
        BY <4>2, <4>3, OneBehind
      <4>6. Len(file') = Len(h) + 1 /\ file'[Len(h) + 1] = Torn /\ Len(h) \in Nat
        BY <4>2, <4>3, <4>4, <4>5, AppendEntries
      <4>7. \E i \in 1 .. Len(file') : file'[i] = Torn
        BY <4>6
      <4> QED BY <4>7 DEF Whole, Contains
    <3> QED BY <3>4, <3>5, <3>6
  <2> QED BY <2>1, <2>2 DEF Crash
<1>4. Log!Crash
  BY <1>1, <1>3 DEF Log!Crash
<1> QED
  BY <1>4 DEF Log!Next

LEMMA StepIsLogStep ==
    ASSUME LogSound, [Next]_vars, serial, refused' = {}, Whole, Whole'
    PROVE  [Log!Next]_(Log!walVars)
<1>1. CASE \E t \in Threads : AppendBegin(t)
  BY <1>1 DEF AppendBegin, fileVars, Log!walVars
<1>2. CASE \E t \in Threads : AppendPush(t)
  BY <1>2, AppendPushWrites
<1>3. CASE \E t \in Threads : \E lsn \in Lsns : FlushSkip(t, lsn)
  BY <1>3 DEF FlushSkip, vars, fileVars, countVars, Log!walVars
<1>4. CASE \E t \in Threads : \E lsn \in Lsns : FlushBegin(t, lsn)
  BY <1>4 DEF FlushBegin, fileVars, countVars, Log!walVars
<1>5. CASE \E t \in Threads : FlushWrite(t)
  BY <1>5, FlushWriteForces
<1>6. CASE \E t \in Threads : FlushFails(t)
  <2>1. PICK t \in Threads : Drained(t) # <<>> /\ refused' = refused \union ToSet(Drained(t))
    BY <1>6 DEF FlushFails
  <2>2. Drained(t) \in Seq(Record)
    BY DrainSplits DEF LogSound
  <2>3. Len(Drained(t)) # 0 /\ Len(Drained(t)) \in Nat
    BY <2>1, <2>2
  <2>4. Drained(t)[1] \in ToSet(Drained(t))
    BY <2>2, <2>3, ElementsAre
  <2> QED BY <2>1, <2>4
<1>7. CASE \E t \in Threads : Checkpoint(t)
  <2>1. Log!Truncate
    BY <1>7 DEF Checkpoint, Log!Truncate
  <2> QED BY <2>1 DEF Log!Next
<1>8. CASE Crash
  BY <1>8, CrashLosesTheLast
<1>9. CASE UNCHANGED vars
  BY <1>9 DEF vars, fileVars, countVars, Log!walVars
<1> QED
  BY <1>1, <1>2, <1>3, <1>4, <1>5, <1>6, <1>7, <1>8, <1>9 DEF Next

(* For callers that take turns, and until a write fails or is torn, the    *)
(* log does what the LogManager trait promises: every step appends behind  *)
(* all records, forces the first of those in memory, truncates, loses the  *)
(* last in a crash, or changes nothing (ImplementsLog).                    *)
THEOREM FileImplementsLog == Spec => ImplementsLog
<1>1. Init => Log!Init
  BY InitIsLog
<1>2. LogSound /\ [Next]_vars =>
         [serial /\ refused' = {} /\ Whole /\ Whole' => [Log!Next]_(Log!walVars)]_vars
  BY StepIsLogStep
<1> QED
  BY <1>1, <1>2, LogInvariant, PTL DEF Spec, ImplementsLog

=============================================================================
