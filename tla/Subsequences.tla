----------------------------- MODULE Subsequences -----------------------------
(* What a loop collects that goes through a list and keeps some of it.     *)
EXTENDS Integers, Sequences

(* The entries of s at some places, in the order of s. *)
Picked(s, places) ==
    LET walked[n \in 0 .. Len(s)] ==
            IF n = 0 THEN <<>>
            ELSE IF n \in places THEN Append(walked[n - 1], s[n])
            ELSE walked[n - 1]
    IN  walked[Len(s)]

=============================================================================
