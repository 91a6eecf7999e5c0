---------------------------- MODULE MCHubRecords ----------------------------
(* Enrollment and agent records on a small instance: every token has Uses uses. *)
EXTENDS HubRecords, TLC

CONSTANT Uses

MCMaxUses == [t \in Tokens |-> Uses]
Symmetry == Permutations(Ids) \cup Permutations(Tokens)

=============================================================================
