----------------------------- MODULE MCRegistry -----------------------------
(* Registry with unrestricted callers, on a small instance. *)
EXTENDS Registry, TLC

Symmetry == Permutations(Agents) \cup Permutations(Cmds)
            \cup Permutations(Polls) \cup Permutations(Chans)

=============================================================================
