------------------------------ MODULE NetUtil ------------------------------
(***************************************************************************)
(* Addresses and interfaces (internal/netutil/netutil.go), for addresses   *)
(* of Width bits: 32 in the code.  A network is an address in it and a     *)
(* prefix length.                                                          *)
(***************************************************************************)
EXTENDS Lists

CONSTANTS Width,     \* bits of an address
          MaxHosts,  \* MaxScanHosts
          Links      \* the machine's network interfaces, in order

\* 1 << k.
Pow2[k \in 0..Width] == IF k = 0 THEN 1 ELSE 2 * Pow2[k - 1]

Addrs == 0 .. Pow2[Width] - 1
Networks == [ip : Addrs, ones : 0..Width]
Kinds == {"ethernet", "loopback", "pointtopoint", "other"}
Interfaces == [up : BOOLEAN, kind : Kinds, nets : Seq(Networks)]

ASSUME WidthAssumption == Width \in Nat \ {0, 1} /\ MaxHosts \in Nat
ASSUME LinksAssumption == Links \in Seq(Interfaces)

Size(n) == Pow2[Width - n.ones]

\* ip.Mask(mask): the address with its host bits cleared.
Masked(n) == (n.ip \div Size(n)) * Size(n)

\* IPNet.Contains.
Contains(n, a) == a \div Size(n) = n.ip \div Size(n)

\* BroadcastAddr: the host bits of the address all set.
BroadcastAddr(n) == Masked(n) + Size(n) - 1

TooMany(n) == n.ones < Width - 1 /\ Size(n) - 2 > MaxHosts

\* Faulty: leaves the last host out.
HostsInOffByOne(n) ==
    IF n.ones >= Width - 1 THEN [i \in 1..Size(n) |-> (Masked(n) + i - 1) % Pow2[Width]]
    ELSE [i \in 1..Size(n) - 3 |-> (Masked(n) + i) % Pow2[Width]]

\* HostsIn, for a network that is not too large: of the two longest prefixes
\* every address, of others all but the first and the last.
HostsIn(n) ==
    IF n.ones >= Width - 1 THEN [i \in 1..Size(n) |-> (Masked(n) + i - 1) % Pow2[Width]]
    ELSE [i \in 1..Size(n) - 2 |-> (Masked(n) + i) % Pow2[Width]]

\* Reference: the addresses of a network that a host can have.
UsableHosts(n) ==
    {a \in Addrs : /\ Contains(n, a)
                   /\ n.ones < Width - 1 => a # BroadcastAddr(n) /\ a # Masked(n)}

\* eligible: what can carry an ARP scan.
eligible(l) == l.up /\ l.kind = "ethernet" /\ l.nets # <<>>

\* EligibleInterfaces, each by the network of its first IPv4 address
\* (PrimarySourceIP), which its broadcast address is computed from too.
EligibleInterfaces ==
    LET good == Only(Links, {l \in Interfaces : eligible(l)})
    IN  [i \in DOMAIN good |-> good[i].nets[1]]

=============================================================================
