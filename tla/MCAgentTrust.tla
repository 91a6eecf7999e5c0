---------------------------- MODULE MCAgentTrust ----------------------------
(* One agent and the hub's authority on a small instance. *)
EXTENDS AgentTrust

\* Every enrollment reaches the hub under the same name.
MCHubURL == [e \in Enrollments |-> CHOOSE n \in Names : TRUE]

=============================================================================
