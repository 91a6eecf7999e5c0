------------------------------- MODULE Scanner -------------------------------
(***************************************************************************)
(* The agent's scanner (internal/scan/scan.go, status.go): scans of one or *)
(* more segments and status checks of single hosts, side by side, with one *)
(* mutex around every ARP sweep.  A request's timeout starts before it     *)
(* waits for the mutex, and waiting does not end with it.                  *)
(***************************************************************************)
EXTENDS ArpSweep, FiniteSets

CONSTANTS
    Scans,    \* scan commands
    Checks,   \* status commands
    Asked,    \* the hosts each status command asks about
    Subnets,  \* networks a scan may name
    Slots,    \* concurrent probes of a status command
    Free      \* the mutex is not held

Ifaces == EligibleInterfaces

\* A probe of a status command, one goroutine each.
Probes == {p \in Checks \X Addrs : p[2] \in Asked[p[1]]}

ASSUME AskedAssumption == Asked \in [Checks -> SUBSET Addrs]
ASSUME SlotsAssumption == Slots \in Nat \ {0}
ASSUME SubnetsAssumption == Subnets \subseteq Networks
ASSUME FreeAssumption == Free \notin Scans \cup Probes
ASSUME KindsAssumption == Scans \cap (Checks \cup Probes) = {}

VARIABLES
    raw,     \* rawARPAvailable
    lock,    \* Scanner.mu: the scan or probe that holds it
    scan,    \* where each scan is
    left,    \* segments it has yet to sweep
    report,  \* history: what it reported of the others
    probe,   \* where each probe is
    turn,    \* interfaces a probe has asked its host from
    asked,   \* history: a probe has asked its host by TCP
    late,    \* commands whose context is done
    noisy    \* icmpProbe fell back to a raw socket, and others' ICMP keeps coming in

scannerVars == <<sweepVars, raw, lock, scan, left, report, probe, turn, asked, late,
                 noisy>>

ScanStates  == {"off", "wait", "hold", "sweep", "fallback", "ok", "error"}
ProbeStates == {"off", "new", "slot", "arp", "icmp", "ping", "tcp", "online", "offline"}
Methods     == {"arp-raw", "arp-scan", "neigh", "none"}

\* A reported segment: the method, whether an error came with it and, for a
\* sweep, how it really went: "full" if all hosts were asked Retries times,
\* "cut" if sending failed, "stray" if an address no host can have was asked.
Reports == [method : Methods, error : BOOLEAN, how : {"full", "cut", "short", "stray", "none"}]

ScannerTypeOK ==
    /\ SweepTypeOK
    /\ raw \in BOOLEAN
    /\ lock \in Scans \cup Probes \cup {Free}
    /\ scan \in [Scans -> ScanStates]
    /\ left \in [Scans -> Seq(Networks)]
    /\ report \in [Scans -> SUBSET Reports]
    /\ probe \in [Probes -> ProbeStates]
    /\ turn \in [Probes -> 0..Len(Ifaces)]
    /\ asked \subseteq Probes
    /\ late \subseteq Scans \cup Checks
    /\ noisy \in BOOLEAN

ScannerInit ==
    /\ SweepInit
    /\ raw \in BOOLEAN
    /\ lock = Free
    /\ scan = [c \in Scans |-> "off"]
    /\ left = [c \in Scans |-> <<>>]
    /\ report = [c \in Scans |-> {}]
    /\ probe = [p \in Probes |-> "off"]
    /\ turn = [p \in Probes |-> 0]
    /\ asked = {}
    /\ late = {}
    /\ noisy \in BOOLEAN

scanVars  == <<scan, left, report>>
probeVars == <<probe, turn, asked>>

-----------------------------------------------------------------------------
(* Scan *)

\* plan: the own network of every interface or of a named one; or a named
\* subnet, from a named interface or from every one whose network its base
\* address is in.  No segment is an error.
Reaching(n) == Only(Ifaces, {i \in Networks : Contains(i, Masked(n))})
Plans ==
    {Ifaces} \cup {<<Ifaces[i]>> : i \in DOMAIN Ifaces}
    \cup {[i \in DOMAIN Reaching(n) |-> n] : n \in Subnets}
    \cup {<<n>> : n \in {m \in Subnets : Ifaces # <<>>}}

StartScan(c) ==
    /\ scan[c] = "off"
    /\ \E p \in Plans :
         /\ left' = [left EXCEPT ![c] = p]
         /\ scan' = [scan EXCEPT ![c] = IF p = <<>> THEN "error" ELSE "wait"]
    /\ UNCHANGED <<sweepVars, raw, lock, report, probeVars, late, noisy>>

LockScan(c) ==
    /\ scan[c] = "wait"
    /\ lock = Free
    /\ lock' = c
    /\ scan' = [scan EXCEPT ![c] = "hold"]
    /\ UNCHANGED <<sweepVars, raw, left, report, probeVars, late, noisy>>

\* The head of left has been dealt with.
Reported(c, r) ==
    /\ report' = [report EXCEPT ![c] = @ \cup {r}]
    /\ left' = [left EXCEPT ![c] = Tail(@)]
    /\ scan' = [scan EXCEPT ![c] = "hold"]

\* scanSegment, down to the sweep; the socket may fail to open.
BeginSegment(c) ==
    /\ scan[c] = "hold" /\ left[c] # <<>> /\ c \notin late
    /\ LET n == Head(left[c]) IN
         \/ /\ TooMany(n)
            /\ Reported(c, [method |-> "none", error |-> TRUE, how |-> "none"])
            /\ UNCHANGED sweepVars
         \/ /\ ~TooMany(n) /\ raw
            /\ BeginSweep(HostsIn(n))
            /\ scan' = [scan EXCEPT ![c] = "sweep"]
            /\ UNCHANGED <<left, report>>
         \/ /\ ~TooMany(n)
            /\ scan' = [scan EXCEPT ![c] = "fallback"]
            /\ UNCHANGED <<left, report, sweepVars>>
    /\ UNCHANGED <<raw, lock, probeVars, late, noisy>>

HowSwept(n) ==
    CASE Stray(n) # {}     -> "stray"
      [] Neglected(n) = {} -> "full"
      [] sendErr           -> "cut"
      [] OTHER             -> "short"

EndSegment(c) ==
    /\ scan[c] = "sweep" /\ phase = "done"
    /\ IF SweepFailed
       THEN scan' = [scan EXCEPT ![c] = "fallback"] /\ UNCHANGED <<left, report>>
       ELSE Reported(c, [method |-> "arp-raw", error |-> FALSE,
                         how |-> HowSwept(Head(left[c]))])
    /\ SweepReset
    /\ UNCHANGED <<raw, lock, probeVars, late, noisy>>

\* arp-scan if it is there and works, else the neighbour table: an error goes
\* with that only if raw ARP should have worked.
Fallback(c) ==
    /\ scan[c] = "fallback"
    /\ \/ Reported(c, [method |-> "arp-scan", error |-> FALSE, how |-> "none"])
       \/ Reported(c, [method |-> "neigh", error |-> raw, how |-> "none"])
    /\ UNCHANGED <<sweepVars, raw, lock, probeVars, late, noisy>>

\* All segments are swept, or the context is done; the results are merged and
\* names looked up, and the mutex released.
EndScan(c) ==
    /\ scan[c] = "hold"
    /\ left[c] = <<>> \/ c \in late
    /\ scan' = [scan EXCEPT ![c] = IF report[c] = {} THEN "error" ELSE "ok"]
    /\ lock' = Free
    /\ UNCHANGED <<sweepVars, raw, left, report, probeVars, late, noisy>>

-----------------------------------------------------------------------------
(* Status *)

Move(p, s) == probe' = [probe EXCEPT ![p] = s]

StartCheck(c) ==
    /\ \A p \in Probes : p[1] = c => probe[p] = "off"
    /\ probe' = [p \in Probes |-> IF p[1] = c THEN "new" ELSE probe[p]]
    /\ UNCHANGED <<sweepVars, raw, lock, scanVars, turn, asked, late, noisy>>

\* Faulty: a slot is not given back.
InSlotLeaky(c) == {p \in Probes : p[1] = c /\ probe[p] \notin {"off", "new"}}

InSlot(c) == {p \in Probes : p[1] = c /\ probe[p] \in {"slot", "arp", "icmp", "ping", "tcp"}}

\* Faulty: does not wait for a slot.
TakeSlotOrLeave(p) ==
    /\ probe[p] = "new"
    /\ Move(p, IF Cardinality(InSlot(p[1])) < Slots THEN "slot" ELSE "offline")
    /\ UNCHANGED <<sweepVars, raw, lock, scanVars, turn, asked, late, noisy>>

TakeSlot(p) ==
    /\ probe[p] = "new"
    /\ \/ Cardinality(InSlot(p[1])) < Slots /\ Move(p, "slot")
       \/ p[1] \in late /\ Move(p, "offline")
    /\ UNCHANGED <<sweepVars, raw, lock, scanVars, turn, asked, late, noisy>>

\* The interfaces that own the host's subnet; none if raw ARP does not work.
Owning(a) == IF raw THEN {i \in DOMAIN Ifaces : Contains(Ifaces[i], a)} ELSE {}

\* arpProbe, on one such interface after the other.  The mutex is waited for
\* whether the context is done or not.  The socket may fail to open.
BeginArp(p) ==
    /\ probe[p] = "slot"
    /\ \/ /\ turn[p] = Cardinality(Owning(p[2]))
          /\ Move(p, "icmp")
          /\ UNCHANGED <<sweepVars, lock, turn>>
       \/ /\ turn[p] < Cardinality(Owning(p[2])) /\ lock = Free
          /\ turn' = [turn EXCEPT ![p] = @ + 1]
          /\ \/ BeginSweep(<<p[2]>>) /\ lock' = p /\ Move(p, "arp")
             \/ UNCHANGED <<sweepVars, lock, probe>>
    /\ UNCHANGED <<raw, scanVars, asked, late, noisy>>

\* Faulty: returns with the mutex held when the sweep failed.
EndArpHolding(p) ==
    /\ probe[p] = "arp" /\ phase = "done"
    /\ Move(p, IF seen # {} THEN "online" ELSE "slot")
    /\ SweepReset
    /\ lock' = IF SweepFailed THEN lock ELSE Free
    /\ UNCHANGED <<raw, scanVars, turn, asked, late, noisy>>

EndArp(p) ==
    /\ probe[p] = "arp" /\ phase = "done"
    /\ Move(p, IF seen # {} THEN "online" ELSE "slot")
    /\ SweepReset
    /\ lock' = Free
    /\ UNCHANGED <<raw, scanVars, turn, asked, late, noisy>>

\* icmpProbe, up to the request that is out.  The context is looked at here
\* only; the socket may fail to open or to send.
AskIcmp(p) ==
    /\ probe[p] = "icmp"
    /\ \/ Move(p, "tcp")
       \/ p[1] \notin late /\ Move(p, "ping")
    /\ UNCHANGED <<sweepVars, raw, lock, scanVars, turn, asked, late, noisy>>

\* Its receive loop ends with a receive that times out.  The time starts again
\* with every receive, and a packet of another host leads to the next one: on a
\* raw socket, which gets everybody's ICMP, that goes on as long as it is noisy.
\* A datagram socket gets nothing but the replies to its own requests.
GiveUpIcmp(p) ==
    /\ probe[p] = "ping"
    /\ ~noisy
    /\ Move(p, "tcp")
    /\ UNCHANGED <<sweepVars, raw, lock, scanVars, turn, asked, late, noisy>>

\* Or with a packet of the host itself: the reply, or, once the deadline has
\* passed, any other.
IcmpFromHost(p) ==
    /\ probe[p] = "ping"
    /\ p[2] \in Hosts
    /\ Move(p, "online") \/ Move(p, "tcp")
    /\ UNCHANGED <<sweepVars, raw, lock, scanVars, turn, asked, late, noisy>>

\* Other hosts cease to send ICMP.
Quiet ==
    /\ noisy
    /\ noisy' = FALSE
    /\ UNCHANGED <<sweepVars, raw, lock, scanVars, probeVars, late>>

\* A host that is up answers, or does not.
Asks(p, next) == Move(p, next) \/ (p[2] \in Hosts /\ Move(p, "online"))

\* tcpProbe, the last resort, over all its ports; it gives up likewise.
AskTcp(p) ==
    /\ probe[p] = "tcp"
    /\ \/ p[1] \in late /\ Move(p, "offline") /\ UNCHANGED asked
       \/ p[1] \notin late /\ Asks(p, "offline") /\ asked' = asked \cup {p}
    /\ UNCHANGED <<sweepVars, raw, lock, scanVars, turn, late, noisy>>

ProbeStep(p) ==
    \/ TakeSlot(p) \/ BeginArp(p) \/ EndArp(p)
    \/ AskIcmp(p) \/ GiveUpIcmp(p) \/ AskTcp(p)

ScanStep(c) ==
    \/ LockScan(c) \/ BeginSegment(c) \/ EndSegment(c)
    \/ Fallback(c) \/ EndScan(c)

CommandOf(o) == IF o \in Scans THEN o ELSE o[1]

\* A step of the sweep of whoever holds the mutex.
Sweeping ==
    /\ lock # Free
    /\ SweepStep(CommandOf(lock) \in late)
    /\ UNCHANGED <<raw, lock, scanVars, probeVars, late, noisy>>

-----------------------------------------------------------------------------
ScanEnded(c)  == scan[c] \in {"ok", "error"}
CheckEnded(c) == \A p \in Probes : p[1] = c => probe[p] \in {"online", "offline"}
Started(c) == IF c \in Scans THEN scan[c] # "off"
              ELSE \E p \in Probes : p[1] = c /\ probe[p] # "off"
Ended(c)   == IF c \in Scans THEN ScanEnded(c) ELSE CheckEnded(c)

\* The timeout of a request, or the command's budget, runs out.
Expire(c) ==
    /\ Started(c) /\ ~Ended(c) /\ c \notin late
    /\ late' = late \cup {c}
    /\ UNCHANGED <<sweepVars, raw, lock, scanVars, probeVars, noisy>>

\* The command's goroutines have returned.
Forget(c) ==
    /\ scan' = [d \in Scans |-> IF d = c THEN "off" ELSE scan[d]]
    /\ left' = [d \in Scans |-> IF d = c THEN <<>> ELSE left[d]]
    /\ report' = [d \in Scans |-> IF d = c THEN {} ELSE report[d]]
    /\ probe' = [p \in Probes |-> IF p[1] = c THEN "off" ELSE probe[p]]
    /\ turn' = [p \in Probes |-> IF p[1] = c THEN 0 ELSE turn[p]]
    /\ asked' = {p \in asked : p[1] # c}
    /\ late' = late \ {c}
    /\ UNCHANGED <<sweepVars, raw, lock, noisy>>

\* The process ends.
ScannerGone ==
    /\ SweepReset
    /\ lock' = Free
    /\ scan' = [c \in Scans |-> "off"]
    /\ left' = [c \in Scans |-> <<>>]
    /\ report' = [c \in Scans |-> {}]
    /\ probe' = [p \in Probes |-> "off"]
    /\ turn' = [p \in Probes |-> 0]
    /\ asked' = {} /\ late' = {}
    /\ UNCHANGED <<raw, noisy>>

-----------------------------------------------------------------------------
(* Properties *)

\* One ARP sweep at a time, by the holder of the mutex, and the mutex is never
\* held by anyone who has ended ("two raw ARP sweeps on the same segment
\* interleave badly").
OneSweeper ==
    /\ lock = Free => phase = "off"
    /\ \A c \in Scans : scan[c] \in {"hold", "sweep", "fallback"} <=> lock = c
    /\ \A p \in Probes : probe[p] = "arp" <=> lock = p

\* A segment reported as swept by raw ARP had every host that did not answer
\* asked Retries times and no network or broadcast address asked, unless the
\* scan ran out of time or sending failed in the middle (the report does not
\* tell that apart); and a planned segment is left out only for lack of time.
ScanHonest ==
    \A c \in Scans :
        /\ \A r \in report[c] : r.how # "stray" /\ (r.how = "short" => c \in late)
        /\ ScanEnded(c) /\ left[c] # <<>> => c \in late

\* "Only silence means down": a host is reported down only after it was tried
\* from every interface on its subnet and asked by TCP in vain, unless its
\* check ran out of time, for which waiting behind a scan is enough; and a host
\* that is not up is not reported up.
DownMeansSilent ==
    \A p \in Probes :
        /\ probe[p] = "offline" /\ p[1] \notin late =>
              p \in asked /\ turn[p] = Cardinality(Owning(p[2]))
        /\ probe[p] = "online" => p[2] \in Hosts

=============================================================================
