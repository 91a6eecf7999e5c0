--------------------------- MODULE MCCommandPath ---------------------------
(* The composed command path on a small instance.  Without symmetry, as the *)
(* run checks liveness.                                                     *)
EXTENDS CommandPath

=============================================================================
