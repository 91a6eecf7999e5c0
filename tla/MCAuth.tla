------------------------------- MODULE MCAuth -------------------------------
(* Operator authentication on a small instance. *)
EXTENDS Auth, TLC

=============================================================================
