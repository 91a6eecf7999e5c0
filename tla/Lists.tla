-------------------------------- MODULE Lists --------------------------------
(***************************************************************************)
(* The loop that goes over a list and appends to another what passes a     *)
(* test, as the code selects interfaces, networks and lines of the log.    *)
(***************************************************************************)
EXTENDS Naturals, Sequences

\* What the loop has kept of the first n elements of s: those in S.
Kept(s, S) ==
    LET kept[n \in 0..Len(s)] ==
          IF n = 0 THEN <<>>
          ELSE IF s[n] \in S THEN Append(kept[n - 1], s[n]) ELSE kept[n - 1]
    IN  kept

\* The elements of s that are in S, in their order.
Only(s, S) == Kept(s, S)[Len(s)]

=============================================================================
