----------------------------- MODULE MCAgentLoop -----------------------------
(* A running agent on a small instance: addresses of three bits, two          *)
(* interfaces that can be scanned and one that cannot, a subnet that is too   *)
(* large, and one on no interface.                                            *)
EXTENDS AgentLoop, TLC

CONSTANTS s1, k1, w1

Net(ip, ones) == [ip |-> ip, ones |-> ones]
MCLinks == << [up |-> TRUE,  kind |-> "loopback", nets |-> <<Net(5, 3)>>],
              [up |-> TRUE,  kind |-> "ethernet", nets |-> <<Net(0, 1)>>],
              [up |-> TRUE,  kind |-> "ethernet", nets |-> <<Net(4, 3)>>] >>
MCSubnets == {Net(0, 0), Net(6, 3)}
MCAsked == k1 :> {1, 6}

=============================================================================
