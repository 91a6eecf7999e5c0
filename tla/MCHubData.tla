------------------------------ MODULE MCHubData ------------------------------
(* Hosts, history and audit log on a small instance. *)
EXTENDS HubData, TLC

CONSTANTS a1, a2, x

MCOrder  == <<a1, a2>>
MCSubnet == (a1 :> {}) @@ (a2 :> {x})
Symmetry == Permutations(Reqs)

=============================================================================
