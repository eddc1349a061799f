--------------------------- MODULE WriteAheadLog ---------------------------
(***************************************************************************)
(* What the LogManager trait promises (wackdb_buffer, log_manager.rs), for *)
(* callers that take turns: a log that grows at one end, of which a prefix *)
(* is safe from a crash.                                                   *)
(***************************************************************************)
EXTENDS Naturals, Sequences

CONSTANT Record

VARIABLES
    pending,                    \* appended, lost in a crash
    safe,                       \* forced to the disk
    truncations, crashes        \* how often the log was cut, and how

walVars == <<pending, safe, truncations, crashes>>

Init ==
    /\ pending = <<>>
    /\ safe = <<>>
    /\ truncations = 0
    /\ crashes = 0

(* A record follows all records appended before it. *)
Write(r) ==
    /\ \A i \in 1 .. Len(pending) : pending[i].id < r.id
    /\ \A i \in 1 .. Len(safe) : safe[i].id < r.id
    /\ pending' = Append(pending, r)
    /\ UNCHANGED <<safe, truncations, crashes>>

Force(n) ==
    /\ safe' = safe \o SubSeq(pending, 1, n)
    /\ pending' = SubSeq(pending, n + 1, Len(pending))
    /\ UNCHANGED <<truncations, crashes>>

(* Truncation removes what is safe, never what is not. *)
Truncate ==
    /\ safe' = <<>>
    /\ truncations' = truncations + 1
    /\ UNCHANGED <<pending, crashes>>

(* What is pending is lost, but for what was just being forced. *)
Crash ==
    /\ \E n \in 0 .. Len(pending) : safe' = safe \o SubSeq(pending, 1, n)
    /\ pending' = <<>>
    /\ crashes' = crashes + 1
    /\ UNCHANGED truncations

Next ==
    \/ \E r \in Record : Write(r)
    \/ \E n \in 1 .. Len(pending) : Force(n)
    \/ Truncate
    \/ Crash

Spec == Init /\ [][Next]_walVars

=============================================================================
