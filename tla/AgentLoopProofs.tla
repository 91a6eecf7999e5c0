--------------------------- MODULE AgentLoopProofs ---------------------------
(***************************************************************************)
(* Proofs about a running agent, for any interfaces, commands, slots and   *)
(* hosts: ARP sweeps never overlap and the mutex is held only by whoever   *)
(* sweeps or scans; a wake reports what it really sent; HostsIn lists      *)
(* usable hosts once each; a scan reports what its sweeps covered; a       *)
(* status check calls a host down only when nothing of it answered.        *)
(***************************************************************************)
EXTENDS AgentLoop, ListProofs, FiniteSetTheorems

-----------------------------------------------------------------------------
(* The mutex *)

\* A sweep is under way only for a scan or a probe that holds the mutex and is
\* at its sweep: others that hold it, or let it go, find the sweep over.
SweptByHolder ==
    phase # "off" => \/ \E c \in Scans : lock = c /\ scan[c] = "sweep"
                     \/ \E p \in Probes : lock = p /\ probe[p] = "arp"

LockInv ==
    /\ scan \in [Scans -> ScanStates]
    /\ probe \in [Probes -> ProbeStates]
    /\ OneSweeper
    /\ SweptByHolder

\* Scans and probes that do not hold the mutex, and go on without taking it.
Bystanders ==
    /\ scan' \in [Scans -> ScanStates] /\ probe' \in [Probes -> ProbeStates]
    /\ \A c \in Scans :
          \/ scan'[c] = scan[c]
          \/ /\ scan[c] \in {"off", "wait", "ok", "error"}
             /\ scan'[c] \in {"off", "wait", "ok", "error"}
    /\ \A p \in Probes : probe'[p] = probe[p] \/ (probe[p] # "arp" /\ probe'[p] # "arp")

\* Steps of bystanders, and of the sweep itself, keep LockInv.
LEMMA LockKept ==
    ASSUME LockInv, UNCHANGED lock, phase' = phase \/ (phase # "off" /\ lock # Free),
           Bystanders
    PROVE  LockInv'
<1> USE DEF LockInv, OneSweeper, SweptByHolder, Bystanders
<1>1. (lock = Free => phase = "off")' OBVIOUS
<1>2. \A c \in Scans : (scan[c] \in {"hold", "sweep", "fallback"} <=> lock = c)' OBVIOUS
<1>3. \A p \in Probes : (probe[p] = "arp" <=> lock = p)' OBVIOUS
<1>4. SweptByHolder' OBVIOUS
<1> QED BY <1>1, <1>2, <1>3, <1>4

\* The steps of a scan.
LEMMA ScanStepKeeps ==
    ASSUME LockInv, NEW c \in Scans, ScanStep(c) PROVE LockInv'
<1> USE DEF LockInv, OneSweeper, SweptByHolder, ScanStates, probeVars, sweepVars
<1>0. /\ \A d \in Scans : d # Free /\ \A p \in Probes : d # p
      /\ \A p \in Probes : p # Free
  BY FreeAssumption, KindsAssumption
<1>1. CASE LockScan(c)
  <2>1. phase = "off" /\ UNCHANGED <<phase, probe>> /\ lock = Free /\ lock' = c
        /\ scan' = [scan EXCEPT ![c] = "hold"]
    BY <1>1 DEF LockScan
  <2> QED BY <1>0, <2>1
<1>2. CASE BeginSegment(c)
  <2>1. scan[c] = "hold" /\ lock = c /\ UNCHANGED <<lock, probe>>
    BY <1>2 DEF BeginSegment
  <2>2. \/ scan' = [scan EXCEPT ![c] = "hold"] /\ UNCHANGED phase
        \/ scan' = [scan EXCEPT ![c] = "sweep"]
        \/ scan' = [scan EXCEPT ![c] = "fallback"] /\ UNCHANGED phase
    BY <1>2 DEF BeginSegment, Reported
  <2>3. phase = "off" BY <1>0, <2>1
  <2> QED BY <1>0, <2>1, <2>2, <2>3
<1>3. CASE EndSegment(c)
  <2>1. scan[c] = "sweep" /\ lock = c /\ UNCHANGED <<lock, probe>> /\ phase' = "off"
    BY <1>3 DEF EndSegment, SweepReset
  <2>2. scan' = [scan EXCEPT ![c] = "hold"] \/ scan' = [scan EXCEPT ![c] = "fallback"]
    BY <1>3 DEF EndSegment, Reported
  <2> QED BY <1>0, <2>1, <2>2
<1>4. CASE Fallback(c)
  <2>1. scan[c] = "fallback" /\ UNCHANGED <<lock, phase, probe>>
        /\ scan' = [scan EXCEPT ![c] = "hold"]
    BY <1>4 DEF Fallback, Reported
  <2>2. phase = "off" /\ lock = c BY <1>0, <2>1
  <2> QED BY <1>0, <2>1, <2>2
<1>5. CASE EndScan(c)
  <2>1. scan[c] = "hold" /\ UNCHANGED <<phase, probe>> /\ lock' = Free
    BY <1>5 DEF EndScan
  <2>2. scan' = [scan EXCEPT ![c] = "error"] \/ scan' = [scan EXCEPT ![c] = "ok"]
    BY <1>5 DEF EndScan
  <2>3. phase = "off" /\ lock = c BY <1>0, <2>1
  <2> QED BY <1>0, <2>1, <2>2, <2>3
<1> QED BY <1>1, <1>2, <1>3, <1>4, <1>5 DEF ScanStep

\* The steps of a probe, a packet that comes in for it included.
LEMMA ProbeStepKeeps ==
    ASSUME LockInv, NEW p \in Probes, ProbeStep(p) \/ IcmpFromHost(p) PROVE LockInv'
<1> USE DEF LockInv, OneSweeper, SweptByHolder, Bystanders, ProbeStates, scanVars, sweepVars
<1>0. /\ \A c \in Scans : c # Free /\ \A q \in Probes : c # q
      /\ \A q \in Probes : q # Free
  BY FreeAssumption, KindsAssumption
<1>1. CASE TakeSlot(p) \/ AskIcmp(p) \/ GiveUpIcmp(p) \/ IcmpFromHost(p) \/ AskTcp(p)
  <2>1. UNCHANGED <<lock, phase, scan>> /\ probe[p] \in {"new", "icmp", "ping", "tcp"}
    BY <1>1 DEF TakeSlot, AskIcmp, GiveUpIcmp, IcmpFromHost, AskTcp
  <2>2. \E s \in {"slot", "offline", "ping", "tcp", "online"} : probe' = [probe EXCEPT ![p] = s]
    BY <1>1 DEF TakeSlot, AskIcmp, GiveUpIcmp, IcmpFromHost, AskTcp, Asks, Move
  <2> QED BY <2>1, <2>2, LockKept
<1>2. CASE BeginArp(p)
  <2>1. probe[p] = "slot" /\ UNCHANGED scan BY <1>2 DEF BeginArp
  <2>2. \/ probe' = [probe EXCEPT ![p] = "icmp"] /\ UNCHANGED <<lock, phase>>
        \/ lock = Free /\ lock' = p /\ probe' = [probe EXCEPT ![p] = "arp"]
        \/ UNCHANGED <<lock, phase, probe>>
    BY <1>2 DEF BeginArp, Move
  <2>3. CASE probe' = [probe EXCEPT ![p] = "icmp"] /\ UNCHANGED <<lock, phase>>
    BY <2>1, <2>3, LockKept
  <2>4. CASE lock = Free /\ lock' = p /\ probe' = [probe EXCEPT ![p] = "arp"]
    BY <1>0, <2>1, <2>4
  <2>5. CASE UNCHANGED <<lock, phase, probe>> BY <2>1, <2>5, LockKept
  <2> QED BY <2>2, <2>3, <2>4, <2>5
<1>3. CASE EndArp(p)
  <2>1. probe[p] = "arp" /\ UNCHANGED scan /\ phase' = "off" /\ lock' = Free
    BY <1>3 DEF EndArp, SweepReset
  <2>2. probe' = [probe EXCEPT ![p] = "online"] \/ probe' = [probe EXCEPT ![p] = "slot"]
    BY <1>3 DEF EndArp, Move
  <2>3. lock = p BY <2>1
  <2> QED BY <1>0, <2>1, <2>2, <2>3
<1> QED BY <1>1, <1>2, <1>3 DEF ProbeStep

\* Every step of the agent keeps LockInv.
LEMMA LockStep == LockInv /\ [Next]_vars => LockInv'
<1> SUFFICES ASSUME LockInv, [Next]_vars PROVE LockInv'
  OBVIOUS
<1>0. scan \in [Scans -> ScanStates] /\ probe \in [Probes -> ProbeStates] BY DEF LockInv
<1>1. ASSUME UNCHANGED scannerVars PROVE LockInv'
  BY <1>1 DEF scannerVars, sweepVars, LockInv, OneSweeper, SweptByHolder
<1>2. ASSUME NEW c \in Commands, PollCommand(c) PROVE LockInv'
  <2>1. CASE c \in Scans /\ StartScan(c)
    <3>1. UNCHANGED <<lock, phase, probe>> /\ scan[c] = "off"
          /\ (scan' = [scan EXCEPT ![c] = "error"] \/ scan' = [scan EXCEPT ![c] = "wait"])
      BY <2>1 DEF StartScan, sweepVars, probeVars
    <3>2. Bystanders BY <1>0, <2>1, <3>1 DEF Bystanders, ScanStates
    <3> QED BY <3>1, <3>2, LockKept
  <2>2. CASE c \in Checks /\ StartCheck(c)
    <3>1. /\ UNCHANGED <<lock, phase, scan>>
          /\ \A p \in Probes : p[1] = c => probe[p] = "off"
          /\ probe' = [p \in Probes |-> IF p[1] = c THEN "new" ELSE probe[p]]
      BY <2>2 DEF StartCheck, sweepVars, scanVars
    <3>2. Bystanders BY <1>0, <3>1 DEF Bystanders, ProbeStates
    <3> QED BY <3>1, <3>2, LockKept
  <2> QED BY <1>1, <1>2, <2>1, <2>2 DEF PollCommand, Begin
<1>3. ASSUME NEW c \in Commands, Work(c) PROVE LockInv'
  BY <1>1, <1>3, ScanStepKeeps DEF Work
<1>4. ASSUME NEW p \in Probes, ProbeWork(p) PROVE LockInv'
  BY <1>4, ProbeStepKeeps DEF ProbeWork
<1>5. CASE SweepWork
  <2>1. UNCHANGED <<lock, scan, probe>> /\ lock # Free
    BY <1>5 DEF SweepWork, Sweeping, scanVars, probeVars
  <2>2. phase' = phase \/ phase # "off"
    BY <1>5 DEF SweepWork, Sweeping, SweepStep, ProbeNext, Receive, ReaderEnds, StopReading,
                Collect, Settle
  <2>3. Bystanders BY <1>0, <2>1 DEF Bystanders
  <2> QED BY <2>1, <2>2, <2>3, LockKept
<1>6. ASSUME NEW c \in Scans \cup Checks, TimeOut(c) PROVE LockInv'
  <2>1. UNCHANGED <<lock, phase, scan, probe>>
    BY <1>6 DEF TimeOut, Expire, sweepVars, scanVars, probeVars
  <2>2. Bystanders BY <1>0, <2>1 DEF Bystanders
  <2> QED BY <2>1, <2>2, LockKept
<1>7. ASSUME NEW c \in Commands, PostResult(c) PROVE LockInv'
  <2>1. /\ UNCHANGED <<lock, phase>>
        /\ scan' = [d \in Scans |-> IF d = c THEN "off" ELSE scan[d]]
        /\ probe' = [p \in Probes |-> IF p[1] = c THEN "off" ELSE probe[p]]
    BY <1>7 DEF PostResult, Forget, sweepVars
  <2>2. scan' \in [Scans -> ScanStates] /\ probe' \in [Probes -> ProbeStates]
    BY <1>0, <2>1 DEF ScanStates, ProbeStates
  <2>3. \A p \in Probes : p[1] \in Checks BY DEF Probes
  <2>4. CASE c \in Wakes
    <3>1. c \notin Scans /\ c \notin Checks BY <2>4, WakesAssumption
    <3>2. Bystanders BY <1>0, <2>1, <2>2, <2>3, <3>1 DEF Bystanders
    <3> QED BY <2>1, <3>2, LockKept
  <2>5. CASE c \in Scans
    <3>1. c \notin Wakes /\ c \notin Checks BY <2>5, WakesAssumption, KindsAssumption
    <3>2. scan[c] \in {"ok", "error"}
      BY <1>7, <2>5, <3>1 DEF PostResult, Returned, Ended, ScanEnded
    <3>3. Bystanders BY <1>0, <2>1, <2>2, <2>3, <3>1, <3>2 DEF Bystanders
    <3> QED BY <2>1, <3>3, LockKept
  <2>6. CASE c \in Checks
    <3>1. c \notin Wakes /\ c \notin Scans BY <2>6, WakesAssumption, KindsAssumption
    <3>2. \A p \in Probes : p[1] = c => probe[p] \in {"online", "offline"}
      BY <1>7, <2>6, <3>1 DEF PostResult, Returned, Ended, CheckEnded
    <3>3. Bystanders BY <1>0, <2>1, <2>2, <3>1, <3>2 DEF Bystanders
    <3> QED BY <2>1, <3>3, LockKept
  <2> QED BY <2>4, <2>5, <2>6 DEF Commands
<1>8. CASE Stop
  <2>1. /\ phase' = "off" /\ lock' = Free
        /\ scan' = [c \in Scans |-> "off"] /\ probe' = [p \in Probes |-> "off"]
    BY <1>8 DEF Stop, ScannerGone, SweepReset
  <2>2. (\A d \in Scans : d # Free) /\ (\A p \in Probes : p # Free) BY FreeAssumption
  <2> QED BY <2>1, <2>2 DEF LockInv, OneSweeper, SweptByHolder, ScanStates, ProbeStates
<1>9. CASE \/ HelloOk \/ RequestFails \/ WakeUp \/ GoDown \/ ComeUp \/ Start
           \/ UNCHANGED vars
  BY <1>1, <1>9 DEF HelloOk, RequestFails, WakeUp, GoDown, ComeUp, Start, vars, work
<1>10. CASE Network
  <2>1. CASE Quiet
    <3>1. UNCHANGED <<lock, phase, scan, probe>>
      BY <2>1 DEF Quiet, sweepVars, scanVars, probeVars
    <3>2. Bystanders BY <1>0, <3>1 DEF Bystanders
    <3> QED BY <3>1, <3>2, LockKept
  <2>2. ASSUME NEW p \in Probes, IcmpFromHost(p) PROVE LockInv' BY <2>2, ProbeStepKeeps
  <2> QED BY <1>10, <2>1, <2>2 DEF Network
<1> QED BY <1>2, <1>3, <1>4, <1>5, <1>6, <1>7, <1>8, <1>9, <1>10 DEF Next, LoopStep

\* Nobody holds the mutex at first.
LEMMA LockInit == Init => LockInv
<1> SUFFICES ASSUME Init PROVE LockInv
  OBVIOUS
<1>1. /\ phase = "off" /\ lock = Free
      /\ scan = [c \in Scans |-> "off"] /\ probe = [p \in Probes |-> "off"]
  BY DEF Init, ScannerInit, SweepInit
<1>2. (\A d \in Scans : d # Free) /\ (\A p \in Probes : p # Free) BY FreeAssumption
<1> QED BY <1>1, <1>2 DEF LockInv, OneSweeper, SweptByHolder, ScanStates, ProbeStates

\* ARP sweeps never overlap, whatever commands run side by side, time out or
\* are stopped, and the mutex is held by exactly the scan or probe that needs it.
THEOREM SweepsNeverOverlap == Spec => []OneSweeper
<1>1. LockInv => OneSweeper BY DEF LockInv
<1> QED BY <1>1, LockInit, LockStep, PTL DEF Spec

-----------------------------------------------------------------------------
(* Wakes *)

\* What a wake has dealt with, and what is left, is what it began with; sent
\* counts; and the outcome follows from the count when nothing is left.
WakeShape(w) ==
    /\ {g[1] : g \in gone[w]} \cup dests[w] = whole[w]
    /\ sent[w] \in Nat
    /\ sent[w] > 0 <=> \E g \in gone[w] : g[2] > 0
    /\ wake[w] = "off" => gone[w] = {} /\ dests[w] = {} /\ sent[w] = 0
    /\ wake[w] \in {"ok", "error"} => dests[w] = {} /\ (wake[w] = "ok" <=> sent[w] > 0)

WakeInv ==
    /\ wake  = [w \in Wakes |-> wake[w]] /\ dests = [w \in Wakes |-> dests[w]]
    /\ sent  = [w \in Wakes |-> sent[w]] /\ whole = [w \in Wakes |-> whole[w]]
    /\ gone  = [w \in Wakes |-> gone[w]]
    /\ \A w \in Wakes : WakeShape(w)

\* Adding a pair to a set of them.
LEMMA PairSet ==
    ASSUME NEW S, NEW d, NEW k \in Nat
    PROVE  /\ {g[1] : g \in S \cup {<<d, k>>}} = {g[1] : g \in S} \cup {d}
           /\ (\E g \in S \cup {<<d, k>>} : g[2] > 0) <=> (\E g \in S : g[2] > 0) \/ k > 0
<1>1. <<d, k>>[1] = d /\ <<d, k>>[2] = k OBVIOUS
<1>2. {g[1] : g \in S \cup {<<d, k>>}} = {g[1] : g \in S} \cup {d} BY <1>1
<1>3. (\E g \in S \cup {<<d, k>>} : g[2] > 0) <=> (\E g \in S : g[2] > 0) \/ k > 0 BY <1>1
<1> QED BY <1>2, <1>3

\* Every step of the agent keeps WakeInv.
LEMMA WakeStep == WakeInv /\ [Next]_vars => WakeInv'
<1> SUFFICES ASSUME WakeInv, [Next]_vars PROVE WakeInv'
  OBVIOUS
<1> USE DEF WakeInv
<1>1. ASSUME UNCHANGED wolVars PROVE WakeInv'
  BY <1>1 DEF wolVars, WakeShape
<1>2. ASSUME NEW c \in Wakes, StartWake(c) PROVE WakeInv'
  <2>1. CASE wake' = [wake EXCEPT ![c] = "error"] /\ UNCHANGED <<dests, whole, sent, gone>>
    BY <1>2, <2>1 DEF StartWake, WakeShape
  <2>2. ASSUME NEW ds, wake' = [wake EXCEPT ![c] = "sending"],
               dests' = [dests EXCEPT ![c] = ds], whole' = [whole EXCEPT ![c] = ds],
               UNCHANGED <<sent, gone>>
        PROVE  WakeInv'
    <3>1. wake[c] = "off" BY <1>2 DEF StartWake
    <3>2. gone[c] = {} /\ sent[c] = 0 BY <3>1 DEF WakeShape
    <3>3. {g[1] : g \in gone'[c]} = {} /\ ~ \E g \in gone'[c] : g[2] > 0 BY <2>2, <3>2
    <3>4. WakeShape(c)' BY <2>2, <3>2, <3>3 DEF WakeShape
    <3>5. ASSUME NEW w \in Wakes, w # c PROVE WakeShape(w)'
      BY <2>2, <3>5 DEF WakeShape
    <3> QED BY <2>2, <3>4, <3>5
  <2> QED BY <1>2, <2>1, <2>2 DEF StartWake
<1>3. ASSUME NEW c \in Wakes, SendTo(c) PROVE WakeInv'
  <2>1. PICK d \in dests[c], k \in 0..Copies :
          /\ dests' = [dests EXCEPT ![c] = @ \ {d}]
          /\ sent' = [sent EXCEPT ![c] = @ + k]
          /\ gone' = [gone EXCEPT ![c] = @ \cup {<<d, k>>}]
    BY <1>3 DEF SendTo
  <2>2. wake[c] = "sending" /\ UNCHANGED <<wake, whole>> BY <1>3 DEF SendTo
  <2>3. k \in Nat BY <2>1, CopiesAssumption
  <2>4. gone'[c] = gone[c] \cup {<<d, k>>} /\ dests'[c] = dests[c] \ {d} /\ sent'[c] = sent[c] + k
    BY <2>1
  <2>5. {g[1] : g \in gone'[c]} = {g[1] : g \in gone[c]} \cup {d}
    <3>1. {g[1] : g \in gone[c] \cup {<<d, k>>}} = {g[1] : g \in gone[c]} \cup {d}
      BY <2>3, PairSet
    <3> QED BY <2>4, <3>1, Zenon
  <2>6. {g[1] : g \in gone'[c]} \cup dests'[c] = whole'[c]
    BY <2>2, <2>4, <2>5 DEF WakeShape
  <2>7. sent'[c] \in Nat /\ (sent'[c] > 0 <=> sent[c] > 0 \/ k > 0)
    BY <2>3, <2>4 DEF WakeShape
  <2>8. (\E g \in gone'[c] : g[2] > 0) <=> (\E g \in gone[c] : g[2] > 0) \/ k > 0
    BY <2>3, <2>4, PairSet
  <2>9. WakeShape(c)' BY <2>2, <2>6, <2>7, <2>8 DEF WakeShape
  <2>10. ASSUME NEW w \in Wakes, w # c PROVE WakeShape(w)'
    BY <2>1, <2>2, <2>10 DEF WakeShape
  <2> QED BY <2>1, <2>2, <2>9, <2>10
<1>4. ASSUME NEW c \in Wakes, EndWake(c) PROVE WakeInv'
  BY <1>4 DEF EndWake, WakeShape
<1>5. ASSUME NEW c \in Commands, PostResult(c) PROVE WakeInv'
  <2>1. c \in Wakes => wake[c] \in {"ok", "error"}
    BY <1>5 DEF PostResult, Returned, WakeEnded
  <2>2. WolForget(c) BY <1>5 DEF PostResult
  <2> QED BY <2>1, <2>2 DEF WolForget, WakeShape
<1>6. CASE Stop BY <1>6 DEF Stop, WolGone, WakeShape
<1>7. ASSUME NEW c \in Commands, PollCommand(c) PROVE WakeInv'
  BY <1>1, <1>2, <1>7 DEF PollCommand, Begin
<1>8. ASSUME NEW c \in Commands, Work(c) PROVE WakeInv'
  BY <1>1, <1>3, <1>4, <1>8 DEF Work
<1>9. CASE \/ HelloOk \/ RequestFails \/ WakeUp \/ GoDown \/ ComeUp \/ Start
           \/ UNCHANGED vars \/ SweepWork \/ Network
           \/ \E p \in Probes : ProbeWork(p)
           \/ \E c \in Scans \cup Checks : TimeOut(c)
  BY <1>1, <1>9 DEF HelloOk, RequestFails, WakeUp, GoDown, ComeUp, Start, vars, work,
                    SweepWork, ProbeWork, Network, TimeOut
<1> HIDE DEF WakeInv
<1> QED BY <1>5, <1>6, <1>7, <1>8, <1>9 DEF Next, LoopStep

\* A wake reports success exactly when a packet left, and has tried every
\* destination, whichever of them failed.
THEOREM WakesReportWhatLeft == Spec => []WakeHonest
<1>1. Init => WakeInv
  BY DEF Init, WolInit, WakeInv, WakeShape
<1>2. WakeInv => WakeHonest
  BY DEF WakeInv, WakeShape, WakeHonest, WakeEnded
<1> QED BY <1>1, <1>2, WakeStep, PTL DEF Spec

-----------------------------------------------------------------------------
(* Addresses *)

\* Division with a rest.
LEMMA Division ==
    ASSUME NEW a \in Nat, NEW s \in Nat \ {0}
    PROVE  /\ a \div s \in Nat /\ a % s \in 0..s - 1
           /\ a = (a \div s) * s + (a % s)
<1>1. a \div s \in Int /\ a % s \in Int OBVIOUS
<1>2. a % s \in 0..s - 1 OBVIOUS
<1>3. a = s * (a \div s) + (a % s) OBVIOUS
<1>4. a \div s >= 0 OBVIOUS
<1>5. s * (a \div s) = (a \div s) * s BY <1>1
<1> QED BY <1>1, <1>2, <1>3, <1>4, <1>5

\* Multiples of s are s apart.
LEMMA Multiples ==
    ASSUME NEW s \in Nat, NEW p \in Nat, NEW q \in Nat, p < q
    PROVE  p * s + s <= q * s
<1>1. PICK d \in Nat : q = p + 1 + d
  <2>1. q - p - 1 \in Nat /\ q = p + 1 + (q - p - 1) OBVIOUS
  <2> QED BY <2>1
<1>2. (p + 1 + d) * s = p * s + s + d * s OBVIOUS
<1>3. d * s \in Nat /\ p * s \in Nat OBVIOUS
<1> QED BY <1>1, <1>2, <1>3

\* A number is divided in one way only.
LEMMA Quotient ==
    ASSUME NEW s \in Nat \ {0}, NEW q \in Nat, NEW r \in 0..s - 1
    PROVE  (q * s + r) \div s = q /\ (q * s + r) % s = r
<1> DEFINE a == q * s + r
           p == a \div s
           t == a % s
<1>0. q * s \in Nat /\ a \in Nat OBVIOUS
<1>1. p \in Nat /\ t \in 0..s - 1 /\ a = p * s + t BY <1>0, Division
<1>2. a = q * s + r OBVIOUS
<1> HIDE DEF a, p, t
<1>3. p * s \in Nat BY <1>1
<1>4. ~(p < q)
  <2> SUFFICES ASSUME p < q PROVE FALSE
    OBVIOUS
  <2>1. p * s + s <= q * s BY <1>1, Multiples
  <2> QED BY <1>0, <1>1, <1>2, <1>3, <2>1
<1>5. ~(q < p)
  <2> SUFFICES ASSUME q < p PROVE FALSE
    OBVIOUS
  <2>1. q * s + s <= p * s BY <1>1, Multiples
  <2> QED BY <1>0, <1>1, <1>2, <1>3, <2>1
<1>6. p = q BY <1>1, <1>4, <1>5
<1>7. t = r BY <1>0, <1>1, <1>2, <1>3, <1>6
<1> QED BY <1>6, <1>7 DEF a, p, t

\* The equation that defines Pow2.
PowAt(f, i) == IF i = 0 THEN 1 ELSE 2 * f[i - 1]

\* The powers of two are defined, and positive.
LEMMA Pow2Def ==
    /\ Pow2 \in [0..Width -> Nat \ {0}]
    /\ \A i \in 0..Width : Pow2[i] = PowAt(Pow2, i)
<1> DEFINE Powers(f, n) == f \in [0..n -> Nat \ {0}] /\ \A i \in 0..n : f[i] = PowAt(f, i)
           Defined(n) == \E f : Powers(f, n)
           Bad == {n \in 0..Width : ~Defined(n)}
<1>0. Width \in Nat BY WidthAssumption
<1>1. Defined(0)
  <2> DEFINE f == [i \in 0..0 |-> 1]
  <2>1. Powers(f, 0) BY DEF PowAt
  <2> QED BY <2>1
<1>2. ASSUME NEW n \in 0..Width, n > 0, Defined(n - 1) PROVE Defined(n)
  <2>1. PICK f : Powers(f, n - 1) BY <1>2
  <2> DEFINE x == 2 * f[n - 1]
             g == [i \in 0..n |-> IF i = n THEN x ELSE f[i]]
  <2>2. x \in Nat \ {0} BY <1>0, <1>2, <2>1
  <2>3. g \in [0..n -> Nat \ {0}] BY <1>2, <2>1, <2>2
  <2>4. ASSUME NEW i \in 0..n PROVE g[i] = PowAt(g, i)
    <3>1. i > 0 => g[i - 1] = f[i - 1] BY <1>2
    <3>2. PowAt(g, i) = PowAt(f, i) BY <3>1 DEF PowAt
    <3>3. CASE i = n BY <1>2, <3>2, <3>3 DEF PowAt
    <3>4. CASE i # n
      <4>1. i \in 0..n - 1 /\ g[i] = f[i] BY <1>2, <3>4
      <4> QED BY <2>1, <3>2, <4>1
    <3> QED BY <3>3, <3>4
  <2>5. Powers(g, n) BY <2>3, <2>4
  <2> QED BY <2>5
<1> HIDE DEF Defined
<1>3. Bad = {}
  <2>1. Bad \subseteq Nat /\ 0 \notin Bad BY <1>1
  <2>2. \A n \in Bad : n > 0 => n - 1 \in Bad BY <1>0, <1>2
  <2> QED BY <2>1, <2>2, NoLeast
<1>4. Defined(Width) BY <1>0, <1>3
<1>5. PICK f : Powers(f, Width) BY <1>4 DEF Defined
<1> DEFINE E(g) == [k \in 0..Width |-> IF k = 0 THEN 1 ELSE 2 * g[k - 1]]
<1>6. f = E(f) BY <1>5 DEF PowAt
<1>7. Pow2 = CHOOSE g : g = E(g) BY DEF Pow2
<1>8. Pow2 = E(Pow2) BY <1>6, <1>7
<1>9. \A i \in 0..Width : Pow2[i] = PowAt(Pow2, i) BY <1>8 DEF PowAt
<1> DEFINE Worse == {i \in 0..Width : Pow2[i] \notin Nat \ {0}}
<1>10. Worse = {}
  <2>1. Worse \subseteq Nat OBVIOUS
  <2>2. 0 \notin Worse BY <1>0, <1>9 DEF PowAt
  <2>3. ASSUME NEW i \in Worse, i > 0 PROVE i - 1 \in Worse
    <3>1. i \in 0..Width /\ i - 1 \in 0..Width /\ Pow2[i] \notin Nat \ {0} BY <1>0, <2>3
    <3>2. Pow2[i] = 2 * Pow2[i - 1] BY <1>9, <2>3, <3>1 DEF PowAt
    <3>3. Pow2[i - 1] \in Nat \ {0} => 2 * Pow2[i - 1] \in Nat \ {0} OBVIOUS
    <3> QED BY <3>1, <3>2, <3>3
  <2> HIDE DEF Worse
  <2> QED BY <2>1, <2>2, <2>3, NoLeast
<1>11. Pow2 \in [0..Width -> Nat \ {0}] BY <1>8, <1>10
<1> QED BY <1>9, <1>11

\* Each divides the one all addresses are below.
LEMMA Pow2Divides ==
    ASSUME NEW k \in 0..Width PROVE \E q \in Nat \ {0} : Pow2[Width] = q * Pow2[k]
<1> DEFINE Divides(i) == \E q \in Nat \ {0} : Pow2[Width] = q * Pow2[Width - i]
           Bad == {i \in 0..Width : ~Divides(i)}
<1>0. Width \in Nat BY WidthAssumption
<1>1. Divides(0)
  <2>1. Pow2[Width] \in Nat /\ Width - 0 = Width BY <1>0, Pow2Def
  <2>2. Pow2[Width] = 1 * Pow2[Width - 0] BY <2>1
  <2> QED BY <2>2
<1>2. ASSUME NEW i \in 0..Width, i > 0, Divides(i - 1) PROVE Divides(i)
  <2>1. PICK q \in Nat \ {0} : Pow2[Width] = q * Pow2[Width - (i - 1)] BY <1>2
  <2>2. Width - (i - 1) \in 0..Width /\ Width - i \in 0..Width /\ Width - (i - 1) # 0
        /\ (Width - (i - 1)) - 1 = Width - i
    BY <1>0, <1>2
  <2>3. Pow2[Width - (i - 1)] = 2 * Pow2[Width - i] BY <2>2, Pow2Def DEF PowAt
  <2>4. Pow2[Width - i] \in Nat BY <2>2, Pow2Def
  <2>5. q * (2 * Pow2[Width - i]) = (q * 2) * Pow2[Width - i] BY <2>4
  <2>6. q * 2 \in Nat \ {0} OBVIOUS
  <2> QED BY <2>1, <2>3, <2>5, <2>6
<1> HIDE DEF Divides
<1>3. Bad = {}
  <2>1. Bad \subseteq Nat /\ 0 \notin Bad BY <1>1
  <2>2. \A i \in Bad : i > 0 => i - 1 \in Bad BY <1>0, <1>2
  <2> QED BY <2>1, <2>2, NoLeast
<1>4. Width - k \in 0..Width /\ Width - (Width - k) = k BY <1>0
<1>5. Divides(Width - k) BY <1>3, <1>4
<1> QED BY <1>4, <1>5 DEF Divides

\* The block of addresses of a network.
LEMMA Block ==
    ASSUME NEW n \in Networks
    PROVE  /\ Size(n) \in Nat \ {0} /\ Masked(n) \in Nat /\ Pow2[Width] \in Nat \ {0}
           /\ Masked(n) + Size(n) <= Pow2[Width]
           /\ n.ones < Width - 1 => Size(n) >= 4
           /\ \A a \in Addrs : Contains(n, a) <=> a \in Masked(n) .. Masked(n) + Size(n) - 1
<1> DEFINE S == Size(n)
           W == Pow2[Width]
           h == n.ip \div S
           M == h * S
<1>0. Width \in Nat /\ n.ones \in 0..Width /\ Width - n.ones \in 0..Width /\ Width \in 0..Width
  BY WidthAssumption DEF Networks
<1>1. W \in Nat \ {0} /\ S \in Nat \ {0} BY <1>0, Pow2Def DEF Size
<1>2. PICK q \in Nat \ {0} : W = q * S BY <1>0, Pow2Divides DEF Size
<1>3. n.ip \in 0..W - 1 BY DEF Networks, Addrs
<1>4. n.ones < Width - 1 => S >= 4
  <2> SUFFICES ASSUME n.ones < Width - 1 PROVE S >= 4
    OBVIOUS
  <2> DEFINE k == Width - n.ones
  <2>1. k \in 0..Width /\ k - 1 \in 0..Width /\ (k - 1) - 1 \in 0..Width /\ k # 0 /\ k - 1 # 0
    BY <1>0
  <2>2. S = Pow2[k] BY DEF Size
  <2> HIDE DEF k
  <2>3. Pow2[k] = 2 * Pow2[k - 1] /\ Pow2[k - 1] = 2 * Pow2[(k - 1) - 1]
        /\ Pow2[(k - 1) - 1] \in Nat \ {0}
    BY <2>1, Pow2Def DEF PowAt
  <2> HIDE DEF S
  <2> QED BY <2>2, <2>3
<1>5. Masked(n) = M BY DEF Masked
<1> HIDE DEF W, S
<1>6. h \in Nat /\ n.ip % S \in 0..S - 1 /\ n.ip = h * S + (n.ip % S)
  <2>1. n.ip \in Nat BY <1>1, <1>3
  <2> QED BY <1>1, <2>1, Division
<1> HIDE DEF h
<1>7. M \in Nat BY <1>1, <1>6
<1>8. h < q
  <2> SUFFICES ASSUME q <= h PROVE FALSE
    BY <1>2, <1>6
  <2>1. q * S <= h * S
    <3>1. CASE q = h BY <1>1, <1>6, <3>1
    <3>2. CASE q < h
      <4>1. q * S + S <= h * S BY <1>1, <1>2, <1>6, <3>2, Multiples
      <4>2. q * S \in Nat BY <1>1, <1>2
      <4> QED BY <1>1, <1>7, <4>1, <4>2
    <3> QED BY <1>2, <1>6, <3>1, <3>2
  <2>2. h * S >= W BY <1>2, <2>1
  <2> QED BY <1>1, <1>3, <1>6, <1>7, <2>2
<1>9. M + S <= W BY <1>1, <1>2, <1>6, <1>8, Multiples
<1>10. ASSUME NEW a \in Addrs PROVE Contains(n, a) <=> a \in M .. M + S - 1
  <2>0. a \in Nat BY <1>1 DEF Addrs, W
  <2>1. a \div S \in Nat /\ a % S \in 0..S - 1 /\ a = (a \div S) * S + (a % S)
    BY <1>1, <2>0, Division
  <2>2. Contains(n, a) <=> a \div S = h BY DEF Contains, S, h
  <2>3. ASSUME a \div S = h PROVE a \in M .. M + S - 1
    BY <1>1, <1>7, <2>0, <2>1, <2>3
  <2>4. ASSUME a \in M .. M + S - 1 PROVE a \div S = h
    <3>1. a - M \in 0..S - 1 /\ a = M + (a - M) BY <1>1, <1>7, <2>0, <2>4
    <3>2. (h * S + (a - M)) \div S = h BY <1>1, <1>6, <3>1, Quotient
    <3> QED BY <3>1, <3>2
  <2> QED BY <2>2, <2>3, <2>4
<1> QED BY <1>1, <1>4, <1>5, <1>7, <1>9, <1>10 DEF W, S

\* An address below 2^Width is not wrapped.
LEMMA NoWrap ==
    ASSUME NEW w \in Nat \ {0}, NEW x \in 0..w - 1 PROVE x % w = x
<1>1. (0 * w + x) % w = x BY Quotient
<1> QED BY <1>1

\* No element of s occurs twice.
Unique(s) == \A i, j \in DOMAIN s : s[i] = s[j] => i = j

\* HostsIn lists exactly the addresses a host of the network can have, each
\* once, and without wrapping around at the end of the address space.
THEOREM HostsInListsUsable ==
    \A n \in Networks :
        /\ HostsIn(n) \in Seq(Addrs)
        /\ {HostsIn(n)[i] : i \in DOMAIN HostsIn(n)} = UsableHosts(n)
        /\ Unique(HostsIn(n))
<1> SUFFICES ASSUME NEW n \in Networks
             PROVE  /\ HostsIn(n) \in Seq(Addrs)
                    /\ {HostsIn(n)[i] : i \in DOMAIN HostsIn(n)} = UsableHosts(n)
                    /\ Unique(HostsIn(n))
  OBVIOUS
<1> DEFINE S == Size(n)
           W == Pow2[Width]
           M == Masked(n)
<1>1. /\ S \in Nat \ {0} /\ M \in Nat /\ W \in Nat \ {0} /\ M + S <= W
      /\ n.ones < Width - 1 => S >= 4
      /\ \A a \in Addrs : Contains(n, a) <=> a \in M .. M + S - 1
  BY Block
<1>2. Addrs = 0..W - 1 BY DEF Addrs
<1>3. Width \in Nat /\ n.ones \in 0..Width BY WidthAssumption DEF Networks
<1>4. CASE n.ones >= Width - 1
  <2>1. HostsIn(n) = [i \in 1..S |-> (M + i - 1) % W] BY <1>4 DEF HostsIn
  <2>2. UsableHosts(n) = {a \in Addrs : Contains(n, a)} BY <1>3, <1>4 DEF UsableHosts
  <2> HIDE DEF S, W, M
  <2>3. ASSUME NEW i \in 1..S PROVE (M + i - 1) % W = M + i - 1 /\ M + i - 1 \in Addrs
    <3>1. M + i - 1 \in 0..W - 1 BY <1>1
    <3> QED BY <1>1, <1>2, <3>1, NoWrap
  <2>4. HostsIn(n) = [i \in 1..S |-> M + i - 1] BY <2>1, <2>3
  <2>5. HostsIn(n) \in Seq(Addrs) /\ DOMAIN HostsIn(n) = 1..S
    <3>1. S \in Nat BY <1>1
    <3> QED BY <2>3, <2>4, <3>1, IsASeq
  <2>6. Unique(HostsIn(n)) BY <1>1, <2>4 DEF Unique
  <2>7. ASSUME NEW a \in UsableHosts(n) PROVE \E i \in 1..S : HostsIn(n)[i] = a
    <3>1. a \in Addrs /\ a \in M .. M + S - 1 BY <1>1, <2>2
    <3>2. a - M + 1 \in 1..S /\ M + (a - M + 1) - 1 = a BY <1>1, <3>1
    <3> QED BY <2>4, <3>2
  <2>8. ASSUME NEW i \in 1..S PROVE HostsIn(n)[i] \in UsableHosts(n)
    <3>1. M + i - 1 \in M .. M + S - 1 BY <1>1
    <3> QED BY <1>1, <2>2, <2>3, <2>4, <3>1
  <2> QED BY <2>5, <2>6, <2>7, <2>8
<1>5. CASE n.ones < Width - 1
  <2>1. HostsIn(n) = [i \in 1..S - 2 |-> (M + i) % W] BY <1>3, <1>5 DEF HostsIn
  <2>2. UsableHosts(n) = {a \in Addrs : Contains(n, a) /\ a # M + S - 1 /\ a # M}
    BY <1>5 DEF UsableHosts, BroadcastAddr
  <2> HIDE DEF S, W, M
  <2>3. ASSUME NEW i \in 1..S - 2 PROVE (M + i) % W = M + i /\ M + i \in Addrs
    <3>1. M + i \in 0..W - 1 BY <1>1
    <3> QED BY <1>1, <1>2, <3>1, NoWrap
  <2>4. HostsIn(n) = [i \in 1..S - 2 |-> M + i] BY <2>1, <2>3
  <2>5. HostsIn(n) \in Seq(Addrs) /\ DOMAIN HostsIn(n) = 1..S - 2
    <3>1. S - 2 \in Nat BY <1>1, <1>5
    <3> QED BY <2>3, <2>4, <3>1, IsASeq
  <2>6. Unique(HostsIn(n)) BY <1>1, <2>4 DEF Unique
  <2>7. ASSUME NEW a \in UsableHosts(n) PROVE \E i \in 1..S - 2 : HostsIn(n)[i] = a
    <3>1. a \in Addrs /\ a \in M .. M + S - 1 /\ a # M + S - 1 /\ a # M BY <1>1, <2>2
    <3>2. a - M \in 1..S - 2 /\ M + (a - M) = a BY <1>1, <3>1
    <3> QED BY <2>4, <3>2
  <2>8. ASSUME NEW i \in 1..S - 2 PROVE HostsIn(n)[i] \in UsableHosts(n)
    <3>1. M + i \in M .. M + S - 1 /\ M + i # M + S - 1 /\ M + i # M BY <1>1
    <3> QED BY <1>1, <2>2, <2>3, <2>4, <3>1
  <2> QED BY <2>5, <2>6, <2>7, <2>8
<1> QED BY <1>3, <1>4, <1>5

-----------------------------------------------------------------------------
(* Interfaces and plans *)

\* The interfaces have networks.
LEMMA EligibleTyped == EligibleInterfaces \in Seq(Networks)
<1> DEFINE S == {l \in Interfaces : eligible(l)}
           good == Only(Links, S)
<1>0. Links \in Seq(Interfaces) BY LinksAssumption
<1>1. good \in Seq(Interfaces) /\ \E g : Places(g, good, Links, Len(Links), S) BY <1>0, OnlyPlaces
<1>2. \A i \in 1..Len(good) : good[i] \in S BY <1>1 DEF Places
<1>3. EligibleInterfaces = [i \in DOMAIN good |-> good[i].nets[1]] BY DEF EligibleInterfaces
<1> HIDE DEF good
<1>4. ASSUME NEW i \in 1..Len(good) PROVE good[i].nets[1] \in Networks
  <2>1. good[i].nets \in Seq(Networks) /\ good[i].nets # <<>>
    BY <1>2 DEF eligible, Interfaces
  <2> QED BY <2>1
<1>5. DOMAIN good = 1..Len(good) /\ Len(good) \in Nat BY <1>1
<1> QED BY <1>3, <1>4, <1>5, IsASeq

\* What a scan plans is networks.
LEMMA PlansTyped == \A p \in Plans : p \in Seq(Networks)
<1> SUFFICES ASSUME NEW p \in Plans PROVE p \in Seq(Networks)
  OBVIOUS
<1>0. Ifaces \in Seq(Networks) BY EligibleTyped DEF Ifaces
<1>1. CASE p = Ifaces BY <1>0, <1>1
<1>2. CASE \E i \in DOMAIN Ifaces : p = <<Ifaces[i]>> BY <1>0, <1>2
<1>3. CASE \E n \in Subnets : p = [i \in DOMAIN Reaching(n) |-> n]
  <2>1. PICK n \in Subnets : p = [i \in DOMAIN Reaching(n) |-> n] BY <1>3
  <2>2. n \in Networks BY SubnetsAssumption
  <2>3. Reaching(n) \in Seq(Networks) BY <1>0, OnlyPlaces DEF Reaching
  <2>4. DOMAIN Reaching(n) = 1..Len(Reaching(n)) /\ Len(Reaching(n)) \in Nat BY <2>3
  <2> QED BY <2>1, <2>2, <2>4, IsASeq
<1>4. CASE \E n \in Subnets : p = <<n>> BY <1>4, SubnetsAssumption
<1> QED BY <1>1, <1>2, <1>3, <1>4 DEF Plans

-----------------------------------------------------------------------------
(* One sweep *)

\* The targets that the present pass has yet to come to.
Pending == {todo[i] : i \in DOMAIN todo}

\* What a pass has yet to come to is an end of the targets. A target it has come
\* to that has not answered was asked once in it and in every pass before; nobody
\* was asked more often, and nobody who is not a target.
SweepInv ==
    /\ SweepTypeOK
    /\ Unique(targets)
    /\ Len(todo) <= Len(targets)
    /\ \A i \in DOMAIN todo : todo[i] = targets[i + (Len(targets) - Len(todo))]
    /\ seen \subseteq Hosts
    /\ \A a \in Addrs : probes[a] > 0 => a \in Wanted
    /\ \A a \in Wanted : probes[a] <= IF a \in Pending THEN pass - 1 ELSE pass
    /\ \A a \in Wanted \ seen : probes[a] = IF a \in Pending THEN pass - 1 ELSE pass

\* The sender stopped early only for an error or for lack of time.
Complete(l) ==
    phase \in {"settle", "drain", "done"} => sendErr \/ l \/ (todo = <<>> /\ pass = Retries)

\* A new sweep.
LEMMA SweepBegins ==
    ASSUME NEW ts \in Seq(Addrs), Unique(ts), BeginSweep(ts)
    PROVE  SweepInv' /\ targets' = ts /\ phase' = "send"
<1>1. /\ phase' = "send" /\ targets' = ts /\ pass' = 1 /\ todo' = ts
      /\ probes' = [a \in Addrs |-> 0] /\ seen' = {}
      /\ reading' = TRUE /\ sendErr' = FALSE
  BY DEF BeginSweep
<1>2. Retries \in Nat \ {0} BY RetriesAssumption
<1>3. SweepTypeOK'
  <2>1. 1 \in 1..Retries /\ [a \in Addrs |-> 0] \in [Addrs -> 0..Retries] BY <1>2
  <2> QED BY <1>1, <2>1 DEF SweepTypeOK, Phases
<1>4. Pending' = Wanted' BY <1>1 DEF Pending, Wanted
<1>5. Len(ts) \in Nat /\ DOMAIN ts = 1..Len(ts) OBVIOUS
<1>6. \A i \in DOMAIN ts : ts[i] = ts[i + (Len(ts) - Len(ts))] BY <1>5
<1>7. \A a \in Wanted' : a \in Addrs /\ probes'[a] = 0 BY <1>1 DEF Wanted
<1> QED BY <1>1, <1>3, <1>4, <1>5, <1>6, <1>7 DEF SweepInv

\* No sweep.
LEMMA SweepIsOff == SweepInit => SweepInv
<1> SUFFICES ASSUME SweepInit PROVE SweepInv
  OBVIOUS
<1> USE DEF SweepInit
<1>2. Retries \in Nat \ {0} BY RetriesAssumption
<1>3. SweepTypeOK
  <2>1. 1 \in 1..Retries /\ [a \in Addrs |-> 0] \in [Addrs -> 0..Retries] BY <1>2
  <2>2. <<>> \in Seq(Addrs) OBVIOUS
  <2> QED BY <2>1, <2>2 DEF SweepTypeOK, Phases
<1>4. DOMAIN targets = {} /\ DOMAIN todo = {} /\ Len(todo) = 0 /\ Len(targets) = 0 OBVIOUS
<1>5. Pending = {} /\ Wanted = {} BY <1>4 DEF Pending, Wanted
<1> QED BY <1>3, <1>4, <1>5 DEF SweepInv, Unique

\* The sender comes to the next target.
LEMMA NextTarget ==
    ASSUME SweepInv, todo # <<>>, todo' = Tail(todo), targets' = targets
    PROVE  /\ todo' \in Seq(Addrs) /\ Len(todo') <= Len(targets')
           /\ \A i \in DOMAIN todo' : todo'[i] = targets'[i + (Len(targets') - Len(todo'))]
           /\ Head(todo) \in Addrs /\ Head(todo) \in Wanted /\ Head(todo) \in Pending
           /\ Head(todo) \notin Pending'
           /\ \A a : a # Head(todo) => (a \in Pending' <=> a \in Pending)
<1>0. /\ todo \in Seq(Addrs) /\ targets \in Seq(Addrs) /\ Len(todo) <= Len(targets)
      /\ DOMAIN todo = 1..Len(todo) /\ DOMAIN targets = 1..Len(targets)
      /\ Len(todo) \in Nat /\ Len(targets) \in Nat
  BY DEF SweepInv, SweepTypeOK
<1>1. /\ Tail(todo) \in Seq(Addrs) /\ Len(Tail(todo)) = Len(todo) - 1 /\ Len(todo) > 0
      /\ \A i \in 1..Len(todo) - 1 : Tail(todo)[i] = todo[i + 1]
      /\ Head(todo) = todo[1]
  BY <1>0, HeadTailProperties, EmptySeq
<1>2. todo' \in Seq(Addrs) /\ Len(todo') = Len(todo) - 1 /\ DOMAIN todo' = 1..Len(todo) - 1
  BY <1>0, <1>1
<1>3. PICK d \in Nat : d = Len(targets) - Len(todo)
  <2>1. Len(targets) - Len(todo) \in Nat BY <1>0
  <2> QED BY <2>1
<1>4. \A i \in 1..Len(todo) : i + d \in 1..Len(targets) /\ todo[i] = targets[i + d]
  <2>1. \A i \in 1..Len(todo) : i + d \in 1..Len(targets) BY <1>0, <1>3
  <2>2. \A i \in DOMAIN todo : todo[i] = targets[i + d] BY <1>3 DEF SweepInv
  <2> QED BY <1>0, <2>1, <2>2
<1>5. \A i \in 1..Len(todo) - 1 : i + 1 \in 1..Len(todo) /\ todo'[i] = todo[i + 1]
  BY <1>0, <1>1
<1>6. Len(todo') <= Len(targets') BY <1>0, <1>2
<1>7. ASSUME NEW i \in DOMAIN todo' PROVE todo'[i] = targets'[i + (Len(targets') - Len(todo'))]
  <2>1. i \in 1..Len(todo) - 1 BY <1>2
  <2>2. todo'[i] = targets[(i + 1) + d] BY <1>4, <1>5, <2>1
  <2>3. (i + 1) + d = i + (Len(targets) - (Len(todo) - 1)) BY <1>0, <1>3, <2>1
  <2> QED BY <1>2, <2>2, <2>3
<1>8. 1 \in 1..Len(todo) /\ 1 \in DOMAIN todo BY <1>0, <1>1
<1>9. Head(todo) \in Addrs /\ Head(todo) \in Wanted /\ Head(todo) \in Pending
  <2>1. Head(todo) \in Addrs BY <1>0, <1>1, <1>8
  <2>2. Head(todo) \in Pending BY <1>1, <1>8 DEF Pending
  <2>3. Head(todo) \in Wanted BY <1>0, <1>1, <1>4, <1>8 DEF Wanted
  <2> QED BY <2>1, <2>2, <2>3
<1>10. Head(todo) \notin Pending'
  <2> SUFFICES ASSUME NEW i \in DOMAIN todo', todo'[i] = Head(todo) PROVE FALSE
    BY DEF Pending
  <2>1. i \in 1..Len(todo) - 1 /\ i + 1 \in 1..Len(todo) /\ todo[i + 1] = todo[1]
    BY <1>1, <1>2, <1>5
  <2>2. targets[(i + 1) + d] = targets[1 + d] /\ (i + 1) + d \in DOMAIN targets
        /\ 1 + d \in DOMAIN targets
    BY <1>0, <1>4, <1>8, <2>1
  <2>3. (i + 1) + d = 1 + d BY <2>2 DEF SweepInv, Unique
  <2> QED BY <2>1, <2>3
<1>11. ASSUME NEW a, a # Head(todo) PROVE a \in Pending' <=> a \in Pending
  <2>1. ASSUME a \in Pending' PROVE a \in Pending
    <3>1. PICK i \in DOMAIN todo' : todo'[i] = a BY <2>1 DEF Pending
    <3> QED BY <1>0, <1>2, <1>5, <3>1 DEF Pending
  <2>2. ASSUME a \in Pending PROVE a \in Pending'
    <3>1. PICK i \in DOMAIN todo : todo[i] = a BY <2>2 DEF Pending
    <3>2. i # 1 BY <1>1, <1>11, <3>1
    <3>3. i - 1 \in 1..Len(todo) - 1 /\ (i - 1) + 1 = i BY <1>0, <3>1, <3>2
    <3>4. todo'[i - 1] = a /\ i - 1 \in DOMAIN todo' BY <1>2, <1>5, <3>1, <3>3
    <3> QED BY <3>4 DEF Pending
  <2> QED BY <2>1, <2>2
<1> QED BY <1>2, <1>6, <1>7, <1>9, <1>10, <1>11

\* A step of the sender or the reader.
LEMMA SweepGoesOn ==
    ASSUME SweepInv, NEW l \in BOOLEAN, SweepStep(l)
    PROVE  /\ SweepInv' /\ targets' = targets
           /\ Complete(l) /\ phase' \in {"settle", "drain", "done"} =>
                 sendErr' \/ l \/ (todo' = <<>> /\ pass' = Retries)
<1>0. Retries \in Nat \ {0} BY RetriesAssumption
<1>1. /\ phase \in Phases /\ targets \in Seq(Addrs) /\ todo \in Seq(Addrs)
      /\ pass \in 1..Retries /\ probes \in [Addrs -> 0..Retries] /\ seen \subseteq Wanted
      /\ reading \in BOOLEAN /\ sendErr \in BOOLEAN
      /\ phase \in {"off", "done"} => ~reading
      /\ pass \in Nat
  BY <1>0 DEF SweepInv, SweepTypeOK
<1>2. Wanted \subseteq Addrs BY <1>1 DEF Wanted
<1> DEFINE Goal == /\ SweepInv' /\ targets' = targets
                   /\ Complete(l) /\ phase' \in {"settle", "drain", "done"} =>
                         sendErr' \/ l \/ (todo' = <<>> /\ pass' = Retries)
<1>3. ASSUME UNCHANGED <<targets, pass, todo, probes>>, phase' \in Phases,
             seen \subseteq seen', seen' \subseteq Hosts \cap Wanted,
             reading' \in BOOLEAN, sendErr' \in BOOLEAN, phase' \in {"off", "done"} => ~reading'
      PROVE  SweepInv'
  <2>1. Wanted' = Wanted /\ Pending' = Pending BY <1>3 DEF Wanted, Pending
  <2>2. SweepTypeOK' BY <1>1, <1>3, <2>1 DEF SweepTypeOK
  <2> QED BY <1>3, <2>1, <2>2 DEF SweepInv
<1>4. seen \subseteq Hosts \cap Wanted BY <1>1 DEF SweepInv
<1>5. ASSUME phase = "send", Settle, sendErr' \in BOOLEAN PROVE SweepInv' /\ targets' = targets
  BY <1>1, <1>3, <1>4, <1>5 DEF Settle, Phases
<1>6. CASE ProbeNext(l)
  <2>0. phase = "send" BY <1>6 DEF ProbeNext
  <2>1. CASE l /\ Settle /\ UNCHANGED sendErr BY <1>1, <1>5, <2>0, <2>1
  <2>2. CASE ~l /\ todo = <<>> /\ pass = Retries /\ Settle /\ UNCHANGED sendErr
    BY <1>1, <1>5, <2>0, <2>2 DEF Settle
  <2>3. CASE /\ ~l /\ todo = <<>> /\ pass # Retries
             /\ pass' = pass + 1 /\ todo' = targets
             /\ UNCHANGED <<phase, targets, probes, seen, reading>>
             /\ UNCHANGED sendErr
    <3>1. pass' \in 1..Retries BY <1>0, <1>1, <2>3
    <3>2. Wanted' = Wanted /\ Pending' = Wanted BY <2>3 DEF Wanted, Pending
    <3>3. Pending = {} BY <2>3 DEF Pending
    <3>4. SweepTypeOK' BY <1>1, <2>3, <3>1, <3>2 DEF SweepTypeOK
    <3>5. Len(targets) \in Nat /\ DOMAIN targets = 1..Len(targets) BY <1>1
    <3>6. \A i \in DOMAIN targets : targets[i] = targets[i + (Len(targets) - Len(targets))]
      BY <3>5
    <3>7. pass' - 1 = pass BY <1>1, <2>3
    <3>8. SweepInv' BY <2>3, <3>2, <3>3, <3>4, <3>5, <3>6, <3>7 DEF SweepInv
    <3> QED BY <2>0, <2>3, <3>8
  <2>4. ASSUME todo # <<>>, todo' = Tail(todo),
               UNCHANGED <<phase, targets, pass, seen, reading, sendErr>>,
               \/ Head(todo) \in seen /\ probes' = probes
               \/ probes' = [probes EXCEPT ![Head(todo)] = @ + 1]
        PROVE  Goal
    <3> DEFINE h == Head(todo)
    <3>1. /\ todo' \in Seq(Addrs) /\ Len(todo') <= Len(targets')
          /\ \A i \in DOMAIN todo' : todo'[i] = targets'[i + (Len(targets') - Len(todo'))]
          /\ h \in Addrs /\ h \in Wanted /\ h \in Pending /\ h \notin Pending'
          /\ \A a : a # h => (a \in Pending' <=> a \in Pending)
      BY <2>4, NextTarget
    <3> HIDE DEF h
    <3>2. Wanted' = Wanted BY <2>4 DEF Wanted
    <3>3. probes[h] \in 0..Retries /\ probes[h] <= pass - 1 BY <1>1, <3>1 DEF SweepInv
    <3>4. /\ probes'[h] \in 0..Retries /\ probes'[h] <= pass
          /\ h \notin seen => probes'[h] = pass
      <4>1. h \notin seen => probes[h] = pass - 1 BY <3>1 DEF SweepInv
      <4>2. CASE h \in seen /\ probes' = probes BY <1>0, <1>1, <3>3, <4>2
      <4>3. CASE probes' = [probes EXCEPT ![h] = @ + 1]
        <5>1. probes'[h] = probes[h] + 1 BY <1>1, <3>1, <4>3
        <5> QED BY <1>0, <1>1, <3>3, <4>1, <5>1
      <4> QED BY <2>4, <4>2, <4>3 DEF h
    <3>5. \A a \in Addrs : a # h => probes'[a] = probes[a] BY <1>1, <2>4 DEF h
    <3>6. probes' \in [Addrs -> 0..Retries]
      <4>1. \A a \in Addrs : probes'[a] \in 0..Retries BY <1>1, <3>4, <3>5
      <4>2. probes' = [a \in Addrs |-> probes'[a]] BY <1>1, <2>4
      <4> QED BY <4>1, <4>2
    <3>7. SweepTypeOK' BY <1>1, <2>4, <3>1, <3>2, <3>6 DEF SweepTypeOK
    <3>8. \A a \in Addrs : probes'[a] > 0 => a \in Wanted' BY <3>1, <3>2, <3>5 DEF SweepInv
    <3>9. ASSUME NEW a \in Wanted
          PROVE  /\ probes'[a] <= IF a \in Pending' THEN pass - 1 ELSE pass
                 /\ a \notin seen => probes'[a] = IF a \in Pending' THEN pass - 1 ELSE pass
      <4>1. CASE a = h BY <3>1, <3>4, <4>1
      <4>2. CASE a # h
        <5>1. probes'[a] = probes[a] /\ (a \in Pending' <=> a \in Pending) BY <1>2, <3>1, <3>5, <4>2
        <5> QED BY <5>1 DEF SweepInv
      <4> QED BY <4>1, <4>2
    <3>10. SweepInv' BY <2>4, <3>1, <3>2, <3>7, <3>8, <3>9 DEF SweepInv
    <3> QED BY <2>0, <2>4, <3>10
  <2>5. CASE sendErr' = TRUE /\ Settle BY <1>5, <2>0, <2>5
  <2> QED BY <1>6, <2>0, <2>1, <2>2, <2>3, <2>4, <2>5 DEF ProbeNext
<1>7. ASSUME NEW a \in Wanted, Receive(a) PROVE Goal
  <2>1. /\ UNCHANGED <<phase, targets, pass, todo, probes, sendErr>>
        /\ seen' = seen \cup {a} /\ a \in Hosts \cap Wanted
        /\ reading' \in BOOLEAN /\ reading
    BY <1>7 DEF Receive
  <2>2. SweepInv' BY <1>1, <1>3, <1>4, <2>1
  <2> QED BY <2>1, <2>2 DEF Complete
<1>8. CASE ReaderEnds
  <2>1. UNCHANGED <<phase, targets, pass, todo, probes, seen, sendErr>> /\ reading' = FALSE
    BY <1>8 DEF ReaderEnds
  <2>2. SweepInv' BY <1>1, <1>3, <1>4, <2>1
  <2> QED BY <2>1, <2>2 DEF Complete
<1>9. CASE StopReading
  <2>1. UNCHANGED <<targets, pass, todo, probes, seen, reading, sendErr>>
        /\ phase = "settle" /\ phase' = "drain"
    BY <1>9 DEF StopReading
  <2>2. SweepInv' BY <1>1, <1>3, <1>4, <2>1 DEF Phases
  <2> QED BY <2>1, <2>2 DEF Complete
<1>10. CASE Collect
  <2>1. UNCHANGED <<targets, pass, todo, probes, seen, reading, sendErr>>
        /\ phase = "drain" /\ phase' = "done" /\ ~reading
    BY <1>10 DEF Collect
  <2>2. SweepInv' BY <1>1, <1>3, <1>4, <2>1 DEF Phases
  <2> QED BY <2>1, <2>2 DEF Complete
<1> QED BY <1>6, <1>7, <1>8, <1>9, <1>10 DEF SweepStep

-----------------------------------------------------------------------------
(* Scans and status checks *)

\* A scan: at its sweep it sweeps the hosts of its next segment; what it
\* reported is honest.
ScanOK(c) ==
    /\ scan[c] \in {"sweep", "fallback"} => left[c] # <<>>
    /\ scan[c] = "sweep" => targets = HostsIn(Head(left[c])) /\ Complete(c \in late)
    /\ \A r \in report[c] : r.how # "stray" /\ (r.how = "short" => c \in late)
    /\ ScanEnded(c) /\ left[c] # <<>> => c \in late

\* A probe: it goes on to ICMP and TCP only after the last interface.
ProbeOK(p) ==
    /\ turn[p] \in 0..Cardinality(Owning(p[2]))
    /\ probe[p] = "arp" => targets = <<p[2]>>
    /\ probe[p] \in {"icmp", "ping", "tcp"} => turn[p] = Cardinality(Owning(p[2]))
    /\ probe[p] = "offline" /\ p[1] \notin late =>
          p \in asked /\ turn[p] = Cardinality(Owning(p[2]))
    /\ probe[p] = "online" => p[2] \in Hosts

\* The types of what scans and checks keep, which the proofs below need.
WorkTypes ==
    /\ raw \in BOOLEAN
    /\ lock \in Scans \cup Probes \cup {Free}
    /\ left \in [Scans -> Seq(Networks)]
    /\ report \in [Scans -> SUBSET Reports]
    /\ turn \in [Probes -> Nat]
    /\ asked \subseteq Probes
    /\ late \subseteq Scans \cup Checks

\* The inductive invariant: the mutex, the sweep under it, and how far each scan
\* and each probe has come.
WorkInv ==
    /\ LockInv
    /\ WorkTypes
    /\ SweepInv
    /\ \A c \in Scans : ScanOK(c)
    /\ \A p \in Probes : ProbeOK(p)

\* A host's subnet is owned by as many interfaces as there are at most.
LEMMA OwningCounts == ASSUME NEW a PROVE Cardinality(Owning(a)) \in 0..Len(Ifaces)
<1>0. Ifaces \in Seq(Networks) BY EligibleTyped DEF Ifaces
<1>1. Len(Ifaces) \in Nat /\ DOMAIN Ifaces = 1..Len(Ifaces) BY <1>0
<1>2. Owning(a) \subseteq 1..Len(Ifaces) BY <1>1 DEF Owning
<1>3. IsFiniteSet(1..Len(Ifaces)) /\ Cardinality(1..Len(Ifaces)) = Len(Ifaces)
  <2>1. 1 \in Int /\ Len(Ifaces) \in Int BY <1>1
  <2>2. /\ IsFiniteSet(1..Len(Ifaces))
        /\ Cardinality(1..Len(Ifaces)) = IF 1 > Len(Ifaces) THEN 0 ELSE Len(Ifaces) - 1 + 1
    BY <2>1, FS_Interval
  <2> QED BY <1>1, <2>2
<1>4. IsFiniteSet(Owning(a)) /\ Cardinality(Owning(a)) <= Cardinality(1..Len(Ifaces))
  BY <1>2, <1>3, FS_Subset
<1>5. Cardinality(Owning(a)) \in Nat BY <1>4, FS_CardinalityType
<1> QED BY <1>1, <1>3, <1>4, <1>5

\* A scan that a step leaves alone.
LEMMA ScanKept ==
    ASSUME NEW c, ScanOK(c), scan'[c] = scan[c], left'[c] = left[c], report'[c] = report[c],
           c \in late => c \in late',
           scan[c] = "sweep" => UNCHANGED <<targets, phase, sendErr, todo, pass>>
    PROVE  ScanOK(c)'
BY DEF ScanOK, Complete, ScanEnded

\* A probe that a step leaves alone.
LEMMA ProbeKept ==
    ASSUME NEW p, ProbeOK(p), probe'[p] = probe[p], turn'[p] = turn[p], raw' = raw,
           p \in asked => p \in asked', p[1] \in late => p[1] \in late',
           probe[p] = "arp" => targets' = targets
    PROVE  ProbeOK(p)'
<1>1. Owning(p[2])' = Owning(p[2]) BY DEF Owning
<1> QED BY <1>1 DEF ProbeOK

\* Nobody but the holder of the mutex is at a sweep.
LEMMA OnlyHolder ==
    ASSUME LockInv
    PROVE  /\ \A c \in Scans : scan[c] \in {"hold", "sweep", "fallback"} => lock = c
           /\ \A p \in Probes : probe[p] = "arp" => lock = p
           /\ \A c \in Scans : c # Free /\ \A p \in Probes : c # p
           /\ \A p \in Probes : p # Free
BY FreeAssumption, KindsAssumption DEF LockInv, OneSweeper

\* What a finished sweep of network n is reported as.
LEMMA SweptHonestly ==
    ASSUME SweepInv, NEW n \in Networks, targets = HostsIn(n), NEW l \in BOOLEAN,
           Complete(l), phase = "done"
    PROVE  /\ HowSwept(n) \in {"full", "cut", "short"}
           /\ HowSwept(n) = "short" => l
<1>1. Wanted = UsableHosts(n) BY HostsInListsUsable DEF Wanted
<1>2. Stray(n) = {} BY <1>1 DEF Stray, SweepInv
<1>3. HowSwept(n) \in {"full", "cut", "short"} BY <1>2 DEF HowSwept
<1>4. ASSUME ~l PROVE HowSwept(n) # "short"
  <2>1. CASE sendErr BY <1>2, <2>1 DEF HowSwept
  <2>2. CASE ~sendErr
    <3>1. todo = <<>> /\ pass = Retries BY <1>4, <2>2 DEF Complete
    <3>2. Pending = {} BY <3>1 DEF Pending
    <3>3. \A a \in UsableHosts(n) \ seen : probes[a] = Retries BY <1>1, <3>1, <3>2 DEF SweepInv
    <3>4. Neglected(n) = {} BY <3>3, RetriesAssumption DEF Neglected
    <3> QED BY <1>2, <3>4 DEF HowSwept
  <2> QED BY <2>1, <2>2
<1> QED BY <1>3, <1>4

\* The segment at the head is done with: r is reported of it.
LEMMA ReportedKeeps ==
    ASSUME WorkInv, NEW c \in Scans, NEW r \in Reports, Reported(c, r), left[c] # <<>>,
           r.how # "stray", r.how = "short" => c \in late, late' = late
    PROVE  /\ left' \in [Scans -> Seq(Networks)] /\ report' \in [Scans -> SUBSET Reports]
           /\ ScanOK(c)'
           /\ \A d \in Scans : d # c => /\ left'[d] = left[d] /\ report'[d] = report[d]
                                        /\ scan'[d] = scan[d]
<1>1. /\ left \in [Scans -> Seq(Networks)] /\ report \in [Scans -> SUBSET Reports]
      /\ scan \in [Scans -> ScanStates] /\ ScanOK(c)
  BY DEF WorkInv, WorkTypes, LockInv
<1>2. /\ report' = [report EXCEPT ![c] = @ \cup {r}]
      /\ left' = [left EXCEPT ![c] = Tail(@)]
      /\ scan' = [scan EXCEPT ![c] = "hold"]
  BY DEF Reported
<1>3. Tail(left[c]) \in Seq(Networks) BY <1>1, HeadTailProperties
<1>4. left' \in [Scans -> Seq(Networks)] BY <1>1, <1>2, <1>3
<1>5. report' \in [Scans -> SUBSET Reports] BY <1>1, <1>2
<1>6. scan'[c] = "hold" /\ report'[c] = report[c] \cup {r} BY <1>1, <1>2
<1>7. ScanOK(c)' BY <1>1, <1>6 DEF ScanOK, ScanEnded
<1> QED BY <1>1, <1>2, <1>4, <1>5, <1>7

\* The steps of a scan.
LEMMA ScanWork ==
    ASSUME WorkInv, NEW c \in Scans, StartScan(c) \/ ScanStep(c), LockInv'
    PROVE  WorkInv'
<1>0. /\ LockInv /\ WorkTypes /\ SweepInv /\ ScanOK(c) /\ c \in Scans
      /\ \A d \in Scans : ScanOK(d)
      /\ \A p \in Probes : ProbeOK(p)
      /\ scan \in [Scans -> ScanStates]
  BY DEF WorkInv, LockInv
<1>1. UNCHANGED <<probe, turn, asked, late, raw>>
  BY DEF StartScan, ScanStep, LockScan, BeginSegment, EndSegment, Fallback, EndScan, probeVars
<1>2. \A p \in Probes : probe[p] = "arp" => lock = p BY <1>0, OnlyHolder
<1>3. \A d \in Scans : scan[d] \in {"hold", "sweep", "fallback"} => lock = d BY <1>0, OnlyHolder
<1>4. ASSUME UNCHANGED sweepVars \/ lock = c
      PROVE  \A p \in Probes : ProbeOK(p)'
  <2> SUFFICES ASSUME NEW p \in Probes PROVE ProbeOK(p)'
    OBVIOUS
  <2>1. probe[p] = "arp" => targets' = targets
    <3>1. CASE UNCHANGED sweepVars BY <3>1 DEF sweepVars
    <3>2. CASE lock = c BY <1>0, <1>2, <3>2, OnlyHolder
    <3> QED BY <1>4, <3>1, <3>2
  <2> QED BY <1>0, <1>1, <2>1, ProbeKept
<1>5. ASSUME NEW d \in Scans, d # c, UNCHANGED sweepVars \/ lock = c,
             scan'[d] = scan[d], left'[d] = left[d], report'[d] = report[d]
      PROVE  ScanOK(d)'
  <2>1. scan[d] = "sweep" => UNCHANGED <<targets, phase, sendErr, todo, pass>>
    <3>1. CASE UNCHANGED sweepVars BY <3>1 DEF sweepVars
    <3>2. CASE lock = c BY <1>3, <1>5, <3>2
    <3> QED BY <1>5, <3>1, <3>2
  <2> QED BY <1>0, <1>1, <1>5, <2>1, ScanKept
<1>6. ASSUME UNCHANGED sweepVars PROVE SweepInv'
  BY <1>0, <1>6 DEF sweepVars, SweepInv, SweepTypeOK, Pending, Wanted, Unique
<1>7. ASSUME UNCHANGED sweepVars \/ lock = c, SweepInv', ScanOK(c)', WorkTypes',
             \A d \in Scans : d # c => /\ left'[d] = left[d] /\ report'[d] = report[d]
                                       /\ scan'[d] = scan[d]
      PROVE  WorkInv'
  <2>1. \A p \in Probes : ProbeOK(p)' BY <1>4, <1>7
  <2>2. \A d \in Scans : ScanOK(d)' BY <1>5, <1>7
  <2> QED BY <1>7, <2>1, <2>2 DEF WorkInv
<1>8. ASSUME left' \in [Scans -> Seq(Networks)], report' \in [Scans -> SUBSET Reports],
             lock' \in {lock, c, Free}
      PROVE  WorkTypes'
  BY <1>0, <1>1, <1>8 DEF WorkTypes
<1>9. left \in [Scans -> Seq(Networks)] /\ report \in [Scans -> SUBSET Reports]
      /\ left[c] \in Seq(Networks)
  BY <1>0 DEF WorkTypes
<1>10. CASE StartScan(c)
  <2>1. PICK p \in Plans :
          /\ left' = [left EXCEPT ![c] = p]
          /\ scan' = [scan EXCEPT ![c] = IF p = <<>> THEN "error" ELSE "wait"]
    BY <1>10 DEF StartScan
  <2>2. UNCHANGED <<sweepVars, lock, report>> BY <1>10 DEF StartScan
  <2>3. left' \in [Scans -> Seq(Networks)] BY <1>9, <2>1, PlansTyped
  <2>4. left'[c] = p /\ scan'[c] = (IF p = <<>> THEN "error" ELSE "wait") BY <1>0, <1>9, <2>1
  <2>5. ScanOK(c)' BY <1>0, <1>1, <2>2, <2>4 DEF ScanOK, ScanEnded
  <2>6. \A d \in Scans : d # c => left'[d] = left[d] /\ scan'[d] = scan[d]
    BY <1>0, <1>9, <2>1
  <2>7. SweepInv' /\ WorkTypes' BY <1>6, <1>8, <1>9, <2>2, <2>3
  <2> QED BY <1>7, <2>2, <2>5, <2>6, <2>7
<1>11. CASE LockScan(c)
  <2>1. UNCHANGED <<sweepVars, left, report>> /\ lock' = c /\ scan' = [scan EXCEPT ![c] = "hold"]
    BY <1>11 DEF LockScan
  <2>2. scan'[c] = "hold" BY <1>0, <2>1
  <2>3. ScanOK(c)' BY <1>0, <1>1, <2>1, <2>2 DEF ScanOK, ScanEnded
  <2>4. SweepInv' /\ WorkTypes' BY <1>6, <1>8, <1>9, <2>1
  <2>5. \A d \in Scans : d # c => scan'[d] = scan[d] BY <1>0, <2>1
  <2> QED BY <1>7, <2>1, <2>3, <2>4, <2>5
<1>12. CASE BeginSegment(c)
  <2> DEFINE n == Head(left[c])
  <2>0. scan[c] = "hold" /\ left[c] # <<>> /\ lock = c /\ UNCHANGED lock
    BY <1>3, <1>12 DEF BeginSegment
  <2>1. n \in Networks BY <1>9, <2>0, HeadTailProperties
  <2>2. CASE /\ Reported(c, [method |-> "none", error |-> TRUE, how |-> "none"])
             /\ UNCHANGED sweepVars
    <3> DEFINE r == [method |-> "none", error |-> TRUE, how |-> "none"]
    <3>1. r \in Reports /\ r.how = "none" BY DEF Reports, Methods
    <3> HIDE DEF r
    <3>2. Reported(c, r) BY <2>2 DEF r
    <3>3. /\ left' \in [Scans -> Seq(Networks)] /\ report' \in [Scans -> SUBSET Reports]
          /\ ScanOK(c)'
          /\ \A d \in Scans : d # c => /\ left'[d] = left[d] /\ report'[d] = report[d]
                                       /\ scan'[d] = scan[d]
      BY <1>1, <2>0, <3>1, <3>2, ReportedKeeps
    <3> QED BY <1>6, <1>7, <1>8, <2>0, <2>2, <3>3
  <2>3. CASE /\ BeginSweep(HostsIn(n))
             /\ scan' = [scan EXCEPT ![c] = "sweep"]
             /\ UNCHANGED <<left, report>>
    <3>1. HostsIn(n) \in Seq(Addrs) /\ Unique(HostsIn(n)) BY <2>1, HostsInListsUsable
    <3>2. SweepInv' /\ targets' = HostsIn(n) /\ phase' = "send" BY <2>3, <3>1, SweepBegins
    <3>3. scan'[c] = "sweep" BY <1>0, <2>3
    <3>4. ScanOK(c)' BY <1>0, <1>1, <2>0, <2>3, <3>2, <3>3 DEF ScanOK, ScanEnded, Complete
    <3>5. \A d \in Scans : d # c => scan'[d] = scan[d] BY <1>0, <2>3
    <3> QED BY <1>7, <1>8, <1>9, <2>0, <2>3, <3>2, <3>4, <3>5
  <2>4. CASE /\ scan' = [scan EXCEPT ![c] = "fallback"]
             /\ UNCHANGED <<left, report, sweepVars>>
    <3>1. scan'[c] = "fallback" BY <1>0, <2>4
    <3>2. ScanOK(c)' BY <1>0, <1>1, <2>0, <2>4, <3>1 DEF ScanOK, ScanEnded
    <3>3. \A d \in Scans : d # c => scan'[d] = scan[d] BY <1>0, <2>4
    <3> QED BY <1>6, <1>7, <1>8, <1>9, <2>0, <2>4, <3>2, <3>3
  <2> QED BY <1>12, <2>2, <2>3, <2>4 DEF BeginSegment
<1>13. CASE EndSegment(c)
  <2> DEFINE n == Head(left[c])
             r == [method |-> "arp-raw", error |-> FALSE, how |-> HowSwept(n)]
  <2>0. scan[c] = "sweep" /\ phase = "done" /\ lock = c /\ UNCHANGED lock /\ SweepReset
    BY <1>3, <1>13 DEF EndSegment
  <2>1. left[c] # <<>> /\ targets = HostsIn(n) /\ Complete(c \in late) BY <1>0, <2>0 DEF ScanOK
  <2>2. n \in Networks BY <1>9, <2>1, HeadTailProperties
  <2>3. SweepInv'
    <3>1. SweepInit' BY <2>0 DEF SweepReset, SweepInit
    <3>2. SweepInit' => SweepInv' BY SweepIsOff, PTL
    <3> QED BY <3>1, <3>2
  <2>4. CASE scan' = [scan EXCEPT ![c] = "fallback"] /\ UNCHANGED <<left, report>>
    <3>1. scan'[c] = "fallback" BY <1>0, <2>4
    <3>2. ScanOK(c)' BY <1>0, <1>1, <2>1, <2>4, <3>1 DEF ScanOK, ScanEnded
    <3>3. \A d \in Scans : d # c => scan'[d] = scan[d] BY <1>0, <2>4
    <3> QED BY <1>7, <1>8, <1>9, <2>0, <2>3, <2>4, <3>2, <3>3
  <2>5. CASE Reported(c, r)
    <3>1. HowSwept(n) \in {"full", "cut", "short"} /\ (HowSwept(n) = "short" => c \in late)
      <4>1. PICK l \in BOOLEAN : l <=> c \in late OBVIOUS
      <4>2. Complete(l) BY <2>1, <4>1 DEF Complete
      <4>3. HowSwept(n) \in {"full", "cut", "short"} /\ (HowSwept(n) = "short" => l)
        BY <1>0, <2>0, <2>1, <2>2, <4>2, SweptHonestly
      <4> QED BY <4>1, <4>3
    <3>2. r \in Reports /\ r.how = HowSwept(n) BY <3>1 DEF Reports, Methods
    <3> HIDE DEF r
    <3>3. /\ left' \in [Scans -> Seq(Networks)] /\ report' \in [Scans -> SUBSET Reports]
          /\ ScanOK(c)'
          /\ \A d \in Scans : d # c => /\ left'[d] = left[d] /\ report'[d] = report[d]
                                       /\ scan'[d] = scan[d]
      BY <1>1, <2>1, <2>5, <3>1, <3>2, ReportedKeeps
    <3> QED BY <1>7, <1>8, <2>0, <2>3, <3>3
  <2> QED BY <1>13, <2>4, <2>5 DEF EndSegment
<1>14. CASE Fallback(c)
  <2>1. scan[c] = "fallback" /\ UNCHANGED <<sweepVars, lock>> BY <1>14 DEF Fallback
  <2>2. left[c] # <<>> BY <1>0, <2>1 DEF ScanOK
  <2>3. \E r \in Reports : Reported(c, r) /\ r.how = "none"
    <3>1. raw \in BOOLEAN BY <1>0 DEF WorkTypes
    <3>2. /\ [method |-> "arp-scan", error |-> FALSE, how |-> "none"] \in Reports
          /\ [method |-> "neigh", error |-> raw, how |-> "none"] \in Reports
      BY <3>1 DEF Reports, Methods
    <3> QED BY <1>14, <3>2 DEF Fallback
  <2>4. PICK r \in Reports : Reported(c, r) /\ r.how = "none" BY <2>3
  <2>5. /\ left' \in [Scans -> Seq(Networks)] /\ report' \in [Scans -> SUBSET Reports]
        /\ ScanOK(c)'
        /\ \A d \in Scans : d # c => /\ left'[d] = left[d] /\ report'[d] = report[d]
                                     /\ scan'[d] = scan[d]
    BY <1>1, <2>2, <2>4, ReportedKeeps
  <2> QED BY <1>6, <1>7, <1>8, <2>1, <2>5
<1>15. CASE EndScan(c)
  <2>1. UNCHANGED <<sweepVars, left, report>> /\ lock' = Free /\ (left[c] = <<>> \/ c \in late)
        /\ scan' = [scan EXCEPT ![c] = IF report[c] = {} THEN "error" ELSE "ok"]
    BY <1>15 DEF EndScan
  <2>2. scan'[c] \in {"error", "ok"} BY <1>0, <2>1
  <2>3. ScanOK(c)' BY <1>0, <1>1, <2>1, <2>2 DEF ScanOK, ScanEnded
  <2>4. SweepInv' /\ WorkTypes' BY <1>6, <1>8, <1>9, <2>1
  <2>5. \A d \in Scans : d # c => scan'[d] = scan[d] BY <1>0, <2>1
  <2> QED BY <1>7, <2>1, <2>3, <2>4, <2>5
<1> QED BY <1>10, <1>11, <1>12, <1>13, <1>14, <1>15 DEF ScanStep

\* The steps of a probe, a packet that comes in for it included.
LEMMA ProbeWorks ==
    ASSUME WorkInv, NEW p \in Probes, ProbeStep(p) \/ IcmpFromHost(p), LockInv'
    PROVE  WorkInv'
<1>0. /\ LockInv /\ WorkTypes /\ SweepInv /\ ProbeOK(p)
      /\ \A d \in Scans : ScanOK(d)
      /\ \A q \in Probes : ProbeOK(q)
      /\ probe \in [Probes -> ProbeStates] /\ turn \in [Probes -> Nat]
  BY DEF WorkInv, LockInv, WorkTypes
<1>1. UNCHANGED <<scan, left, report, raw, late>>
  BY DEF ProbeStep, TakeSlot, BeginArp, EndArp, AskIcmp, GiveUpIcmp, IcmpFromHost, AskTcp,
         scanVars
<1>2. /\ \A q \in Probes : probe[q] = "arp" => lock = q
      /\ \A d \in Scans : scan[d] = "sweep" => lock = d
      /\ \A d \in Scans : d # Free /\ \A q \in Probes : d # q
      /\ \A q \in Probes : q # Free
  BY <1>0, OnlyHolder
<1>3. Owning(p[2])' = Owning(p[2]) BY <1>1 DEF Owning
<1>4. Cardinality(Owning(p[2])) \in Nat
  <2>1. Cardinality(Owning(p[2])) \in 0..Len(Ifaces) BY OwningCounts
  <2> QED BY <2>1
<1>5. p[2] \in Addrs BY DEF Probes
<1>6. ASSUME UNCHANGED sweepVars \/ lock \in {p, Free}, SweepInv',
             lock' \in {lock, p, Free}, asked \subseteq asked', asked' \subseteq Probes,
             turn' \in [Probes -> Nat],
             \A q \in Probes : q # p => probe'[q] = probe[q] /\ turn'[q] = turn[q],
             ProbeOK(p)'
      PROVE  WorkInv'
  <2>1. WorkTypes' BY <1>0, <1>1, <1>6 DEF WorkTypes
  <2>2. ASSUME NEW d \in Scans PROVE ScanOK(d)'
    <3>1. scan[d] = "sweep" => UNCHANGED <<targets, phase, sendErr, todo, pass>>
      BY <1>2, <1>6 DEF sweepVars
    <3> QED BY <1>0, <1>1, <3>1, ScanKept
  <2>3. ASSUME NEW q \in Probes, q # p PROVE ProbeOK(q)'
    <3>1. probe[q] = "arp" => targets' = targets BY <1>2, <1>6, <2>3 DEF sweepVars
    <3>2. probe'[q] = probe[q] /\ turn'[q] = turn[q] /\ (q \in asked => q \in asked')
      BY <1>6, <2>3
    <3> QED BY <1>0, <1>1, <3>1, <3>2, ProbeKept
  <2> QED BY <1>6, <2>1, <2>2, <2>3 DEF WorkInv
<1>7. ASSUME UNCHANGED sweepVars PROVE SweepInv'
  BY <1>0, <1>7 DEF sweepVars, SweepInv, SweepTypeOK, Pending, Wanted, Unique
<1>8. ASSUME NEW s, UNCHANGED <<sweepVars, lock, turn>>, Move(p, s),
             asked \subseteq asked', asked' \subseteq Probes,
             s # "arp", s \in {"icmp", "ping", "tcp"} => turn[p] = Cardinality(Owning(p[2])),
             s = "offline" /\ p[1] \notin late =>
                p \in asked' /\ turn[p] = Cardinality(Owning(p[2])),
             s = "online" => p[2] \in Hosts
      PROVE  WorkInv'
  <2>1. probe'[p] = s /\ \A q \in Probes : q # p => probe'[q] = probe[q]
    BY <1>0, <1>8 DEF Move
  <2>2. ProbeOK(p)' BY <1>0, <1>1, <1>3, <1>8, <2>1 DEF ProbeOK
  <2> QED BY <1>0, <1>6, <1>7, <1>8, <2>1, <2>2
<1>9. asked \subseteq Probes BY <1>0 DEF WorkTypes
<1>10. CASE TakeSlot(p)
  <2>1. UNCHANGED <<sweepVars, lock, turn, asked>>
        /\ (Move(p, "slot") \/ (p[1] \in late /\ Move(p, "offline")))
    BY <1>10 DEF TakeSlot
  <2> QED BY <1>8, <1>9, <2>1
<1>11. CASE BeginArp(p)
  <2>0. probe[p] = "slot" /\ asked' = asked BY <1>11 DEF BeginArp
  <2>1. CASE /\ turn[p] = Cardinality(Owning(p[2]))
             /\ Move(p, "icmp")
             /\ UNCHANGED <<sweepVars, lock, turn>>
    BY <1>8, <1>9, <2>0, <2>1
  <2>2. CASE /\ turn[p] < Cardinality(Owning(p[2])) /\ lock = Free
             /\ turn' = [turn EXCEPT ![p] = @ + 1]
             /\ \/ BeginSweep(<<p[2]>>) /\ lock' = p /\ Move(p, "arp")
                \/ UNCHANGED <<sweepVars, lock, probe>>
    <3>1. turn[p] \in Nat /\ turn'[p] = turn[p] + 1 /\ turn' \in [Probes -> Nat]
          /\ \A q \in Probes : q # p => turn'[q] = turn[q]
      BY <1>0, <2>2
    <3>2. turn'[p] \in 0..Cardinality(Owning(p[2])) BY <1>4, <2>2, <3>1
    <3>3. CASE BeginSweep(<<p[2]>>) /\ lock' = p /\ Move(p, "arp")
      <4>1. <<p[2]>> \in Seq(Addrs) /\ Unique(<<p[2]>>) BY <1>5 DEF Unique
      <4>2. SweepInv' /\ targets' = <<p[2]>> BY <3>3, <4>1, SweepBegins
      <4>3. probe'[p] = "arp" /\ \A q \in Probes : q # p => probe'[q] = probe[q]
        BY <1>0, <3>3 DEF Move
      <4>4. ProbeOK(p)' BY <1>3, <3>2, <4>2, <4>3 DEF ProbeOK
      <4> QED BY <1>6, <1>9, <2>0, <2>2, <3>1, <3>3, <4>2, <4>3, <4>4
    <3>4. CASE UNCHANGED <<sweepVars, lock, probe>>
      <4>1. ProbeOK(p)' BY <1>3, <2>0, <3>2, <3>4 DEF ProbeOK
      <4> QED BY <1>6, <1>7, <1>9, <2>0, <3>1, <3>4, <4>1
    <3> QED BY <2>2, <3>3, <3>4
  <2> QED BY <1>11, <2>1, <2>2 DEF BeginArp
<1>12. CASE EndArp(p)
  <2>1. /\ probe[p] = "arp" /\ Move(p, IF seen # {} THEN "online" ELSE "slot")
        /\ SweepReset /\ lock' = Free /\ UNCHANGED <<turn, asked>>
    BY <1>12 DEF EndArp
  <2>2. SweepInv'
    <3>1. SweepInit' BY <2>1 DEF SweepReset, SweepInit
    <3>2. SweepInit' => SweepInv' BY SweepIsOff, PTL
    <3> QED BY <3>1, <3>2
  <2>3. seen # {} => p[2] \in Hosts
    <3>1. targets = <<p[2]>> BY <1>0, <2>1 DEF ProbeOK
    <3>2. Wanted = {p[2]} BY <3>1 DEF Wanted
    <3>3. seen \subseteq Hosts \cap Wanted BY <1>0 DEF SweepInv, SweepTypeOK
    <3> QED BY <3>2, <3>3
  <2>4. /\ probe'[p] \in {"online", "slot"} /\ (probe'[p] = "online" => seen # {})
        /\ \A q \in Probes : q # p => probe'[q] = probe[q]
    BY <1>0, <2>1 DEF Move
  <2>5. ProbeOK(p)' BY <1>0, <1>3, <2>1, <2>3, <2>4 DEF ProbeOK
  <2>6. lock = p BY <1>2, <2>1
  <2> QED BY <1>0, <1>6, <1>9, <2>1, <2>2, <2>4, <2>5, <2>6
<1>13. CASE AskIcmp(p) \/ GiveUpIcmp(p) \/ IcmpFromHost(p)
  <2>1. /\ probe[p] \in {"icmp", "ping"} /\ UNCHANGED <<sweepVars, lock, turn, asked>>
        /\ (Move(p, "tcp") \/ Move(p, "ping") \/ (p[2] \in Hosts /\ Move(p, "online")))
    BY <1>13 DEF AskIcmp, GiveUpIcmp, IcmpFromHost
  <2>2. turn[p] = Cardinality(Owning(p[2])) BY <1>0, <2>1 DEF ProbeOK
  <2> QED BY <1>8, <1>9, <2>1, <2>2
<1>14. CASE AskTcp(p)
  <2>1. probe[p] = "tcp" /\ UNCHANGED <<sweepVars, lock, turn>> BY <1>14 DEF AskTcp
  <2>2. turn[p] = Cardinality(Owning(p[2])) BY <1>0, <2>1 DEF ProbeOK
  <2>3. CASE p[1] \in late /\ Move(p, "offline") /\ UNCHANGED asked
    BY <1>8, <1>9, <2>1, <2>3
  <2>4. CASE asked' = asked \cup {p} /\ Move(p, "offline")
    BY <1>8, <1>9, <2>1, <2>2, <2>4
  <2>5. CASE asked' = asked \cup {p} /\ p[2] \in Hosts /\ Move(p, "online")
    BY <1>8, <1>9, <2>1, <2>5
  <2> QED BY <1>14, <2>3, <2>4, <2>5 DEF AskTcp, Asks
<1> QED BY <1>10, <1>11, <1>12, <1>13, <1>14 DEF ProbeStep

\* A step of the sweep of the holder of the mutex.
LEMMA SweepWorks == ASSUME WorkInv, Sweeping, LockInv' PROVE WorkInv'
<1>0. /\ LockInv /\ WorkTypes /\ SweepInv
      /\ \A d \in Scans : ScanOK(d)
      /\ \A q \in Probes : ProbeOK(q)
  BY DEF WorkInv
<1>1. UNCHANGED <<raw, lock, scan, left, report, probe, turn, asked, late>>
  BY DEF Sweeping, scanVars, probeVars
<1>2. PICK l \in BOOLEAN : l <=> CommandOf(lock) \in late OBVIOUS
<1>3. l = (CommandOf(lock) \in late) BY <1>2
<1>4. SweepStep(l) BY <1>3 DEF Sweeping
<1>5. \A d \in Scans : scan[d] = "sweep" => lock = d /\ CommandOf(lock) = d
  BY <1>0, OnlyHolder DEF CommandOf
<1>6. phase # "off" => \/ \E c \in Scans : lock = c /\ scan[c] = "sweep"
                       \/ \E p \in Probes : lock = p /\ probe[p] = "arp"
  BY <1>0 DEF LockInv, SweptByHolder
<1>7. WorkTypes' BY <1>0, <1>1 DEF WorkTypes
<1>8. CASE \E c \in Scans : scan[c] = "sweep"
  <2>1. PICK c \in Scans : scan[c] = "sweep" BY <1>8
  <2>2. lock = c /\ (l <=> c \in late) BY <1>2, <1>5, <2>1
  <2>3. ScanOK(c) BY <1>0
  <2>4. Complete(l) BY <2>1, <2>2, <2>3 DEF ScanOK, Complete
  <2>5. /\ SweepInv' /\ targets' = targets
        /\ phase' \in {"settle", "drain", "done"} =>
              sendErr' \/ l \/ (todo' = <<>> /\ pass' = Retries)
    BY <1>0, <1>4, <2>4, SweepGoesOn
  <2>6. ASSUME NEW d \in Scans PROVE ScanOK(d)'
    <3>1. CASE d = c BY <1>1, <2>2, <2>3, <2>5, <3>1 DEF ScanOK, Complete, ScanEnded
    <3>2. CASE d # c
      <4>1. scan[d] # "sweep" BY <1>5, <2>2, <3>2
      <4> QED BY <1>0, <1>1, <4>1, ScanKept
    <3> QED BY <3>1, <3>2
  <2>7. \A q \in Probes : ProbeOK(q)' BY <1>0, <1>1, <2>5, ProbeKept
  <2> QED BY <1>7, <2>5, <2>6, <2>7 DEF WorkInv
<1>9. CASE ~\E c \in Scans : scan[c] = "sweep"
  <2>1. SweepInv' /\ targets' = targets BY <1>0, <1>4, SweepGoesOn
  <2>2. \A d \in Scans : ScanOK(d)' BY <1>0, <1>1, <1>9, ScanKept
  <2>3. \A q \in Probes : ProbeOK(q)' BY <1>0, <1>1, <2>1, ProbeKept
  <2> QED BY <1>7, <2>1, <2>2, <2>3 DEF WorkInv
<1> QED BY <1>8, <1>9

\* Every step of the agent keeps WorkInv.
LEMMA WorkStep == WorkInv /\ [Next]_vars => WorkInv'
<1> SUFFICES ASSUME WorkInv, [Next]_vars PROVE WorkInv'
  OBVIOUS
<1>0. /\ LockInv /\ WorkTypes /\ SweepInv
      /\ \A d \in Scans : ScanOK(d)
      /\ \A q \in Probes : ProbeOK(q)
      /\ scan \in [Scans -> ScanStates] /\ probe \in [Probes -> ProbeStates]
      /\ left \in [Scans -> Seq(Networks)] /\ report \in [Scans -> SUBSET Reports]
      /\ turn \in [Probes -> Nat]
  BY DEF WorkInv, LockInv, WorkTypes
<1>1. LockInv' BY <1>0, LockStep
<1>2. ASSUME raw' = raw PROVE \A a : 0 \in 0..Cardinality(Owning(a))'
  <2>1. \A a : Cardinality(Owning(a)) \in 0..Len(Ifaces) BY OwningCounts
  <2>2. \A a : Owning(a)' = Owning(a) BY <1>2 DEF Owning
  <2> QED BY <2>1, <2>2
<1>3. ASSUME UNCHANGED sweepVars PROVE SweepInv'
  BY <1>0, <1>3 DEF sweepVars, SweepInv, SweepTypeOK, Pending, Wanted, Unique
<1>4. ASSUME UNCHANGED <<sweepVars, raw, lock, scan, left, report, turn, asked>>,
             late \subseteq late', late' \subseteq Scans \cup Checks,
             \A p \in Probes : probe'[p] = probe[p] \/ probe'[p] = "new"
      PROVE  WorkInv'
  <2>1. WorkTypes' BY <1>0, <1>4 DEF WorkTypes
  <2>2. \A d \in Scans : ScanOK(d)' BY <1>0, <1>4, ScanKept DEF sweepVars
  <2>3. ASSUME NEW p \in Probes PROVE ProbeOK(p)'
    <3>1. CASE probe'[p] = probe[p] BY <1>0, <1>4, <3>1, ProbeKept DEF sweepVars
    <3>2. CASE probe'[p] = "new"
      <4>1. Owning(p[2])' = Owning(p[2]) BY <1>4 DEF Owning
      <4> QED BY <1>0, <1>4, <3>2, <4>1 DEF ProbeOK
    <3> QED BY <1>4, <3>1, <3>2
  <2> QED BY <1>1, <1>3, <1>4, <2>1, <2>2, <2>3 DEF WorkInv
<1>5. ASSUME UNCHANGED scannerVars PROVE WorkInv'
  <2>1. late \subseteq Scans \cup Checks BY <1>0 DEF WorkTypes
  <2> QED BY <1>4, <1>5, <2>1 DEF scannerVars
<1>6. ASSUME NEW c \in Commands, PollCommand(c) PROVE WorkInv'
  <2>1. CASE c \in Scans /\ StartScan(c) BY <1>1, <2>1, ScanWork
  <2>2. CASE c \in Checks /\ StartCheck(c)
    <3>1. late \subseteq Scans \cup Checks BY <1>0 DEF WorkTypes
    <3> QED BY <1>4, <2>2, <3>1 DEF StartCheck, scanVars
  <2> QED BY <1>5, <1>6, <2>1, <2>2 DEF PollCommand, Begin
<1>7. ASSUME NEW c \in Commands, Work(c) PROVE WorkInv'
  BY <1>1, <1>5, <1>7, ScanWork DEF Work
<1>8. ASSUME NEW p \in Probes, ProbeWork(p) PROVE WorkInv'
  BY <1>1, <1>8, ProbeWorks DEF ProbeWork
<1>9. CASE SweepWork BY <1>1, <1>9, SweepWorks DEF SweepWork
<1>10. ASSUME NEW c \in Scans \cup Checks, TimeOut(c) PROVE WorkInv'
  <2>1. late' = late \cup {c} /\ UNCHANGED <<sweepVars, raw, lock, scanVars, probeVars>>
    BY <1>10 DEF TimeOut, Expire
  <2>2. late \subseteq Scans \cup Checks BY <1>0 DEF WorkTypes
  <2> QED BY <1>4, <2>1, <2>2 DEF scanVars, probeVars
<1>11. ASSUME NEW c \in Commands, PostResult(c) PROVE WorkInv'
  <2>1. /\ scan' = [d \in Scans |-> IF d = c THEN "off" ELSE scan[d]]
        /\ left' = [d \in Scans |-> IF d = c THEN <<>> ELSE left[d]]
        /\ report' = [d \in Scans |-> IF d = c THEN {} ELSE report[d]]
        /\ probe' = [p \in Probes |-> IF p[1] = c THEN "off" ELSE probe[p]]
        /\ turn' = [p \in Probes |-> IF p[1] = c THEN 0 ELSE turn[p]]
        /\ asked' = {p \in asked : p[1] # c}
        /\ late' = late \ {c}
        /\ UNCHANGED <<sweepVars, raw, lock>>
    BY <1>11 DEF PostResult, Forget
  <2>2. WorkTypes'
    <3>1. left' \in [Scans -> Seq(Networks)]
      <4>1. <<>> \in Seq(Networks) OBVIOUS
      <4> QED BY <1>0, <2>1, <4>1
    <3>2. report' \in [Scans -> SUBSET Reports] /\ turn' \in [Probes -> Nat] BY <1>0, <2>1
    <3> QED BY <1>0, <2>1, <3>1, <3>2 DEF WorkTypes
  <2>3. ASSUME NEW d \in Scans PROVE ScanOK(d)'
    <3>1. CASE d = c BY <2>1, <3>1 DEF ScanOK, ScanEnded
    <3>2. CASE d # c BY <1>0, <2>1, <3>2, ScanKept DEF sweepVars
    <3> QED BY <3>1, <3>2
  <2>4. ASSUME NEW p \in Probes PROVE ProbeOK(p)'
    <3>1. CASE p[1] = c
      <4>1. probe'[p] = "off" /\ turn'[p] = 0 BY <2>1, <3>1
      <4> QED BY <1>2, <2>1, <4>1 DEF ProbeOK
    <3>2. CASE p[1] # c
      <4>1. probe'[p] = probe[p] /\ turn'[p] = turn[p] BY <2>1, <3>2
      <4> QED BY <1>0, <2>1, <3>2, <4>1, ProbeKept DEF sweepVars
    <3> QED BY <3>1, <3>2
  <2> QED BY <1>1, <1>3, <2>1, <2>2, <2>3, <2>4 DEF WorkInv
<1>12. CASE Stop
  <2>1. /\ SweepReset /\ lock' = Free
        /\ scan' = [c \in Scans |-> "off"] /\ left' = [c \in Scans |-> <<>>]
        /\ report' = [c \in Scans |-> {}] /\ probe' = [p \in Probes |-> "off"]
        /\ turn' = [p \in Probes |-> 0] /\ asked' = {} /\ late' = {} /\ raw' = raw
    BY <1>12 DEF Stop, ScannerGone
  <2>2. SweepInv'
    <3>1. SweepInit' BY <2>1 DEF SweepReset, SweepInit
    <3>2. SweepInit' => SweepInv' BY SweepIsOff, PTL
    <3> QED BY <3>1, <3>2
  <2>3. WorkTypes'
    <3>1. <<>> \in Seq(Networks) OBVIOUS
    <3> QED BY <1>0, <2>1, <3>1 DEF WorkTypes
  <2>4. \A d \in Scans : ScanOK(d)' BY <2>1 DEF ScanOK, ScanEnded
  <2>5. \A p \in Probes : ProbeOK(p)' BY <1>2, <2>1 DEF ProbeOK
  <2> QED BY <1>1, <2>2, <2>3, <2>4, <2>5 DEF WorkInv
<1>13. CASE \/ HelloOk \/ RequestFails \/ WakeUp \/ GoDown \/ ComeUp \/ Start
            \/ UNCHANGED vars
  BY <1>5, <1>13 DEF HelloOk, RequestFails, WakeUp, GoDown, ComeUp, Start, vars, work
<1>14. CASE Network
  <2>1. CASE Quiet
    <3>1. late \subseteq Scans \cup Checks BY <1>0 DEF WorkTypes
    <3> QED BY <1>4, <2>1, <3>1 DEF Quiet, scanVars, probeVars
  <2>2. ASSUME NEW p \in Probes, IcmpFromHost(p) PROVE WorkInv' BY <1>1, <2>2, ProbeWorks
  <2> QED BY <1>14, <2>1, <2>2 DEF Network
<1> QED BY <1>6, <1>7, <1>8, <1>9, <1>10, <1>11, <1>12, <1>13, <1>14 DEF Next, LoopStep

\* WorkInv is an invariant.
LEMMA WorkInvHolds == Spec => []WorkInv
<1>1. Init => WorkInv
  <2> SUFFICES ASSUME Init PROVE WorkInv
    OBVIOUS
  <2>1. /\ SweepInit /\ raw \in BOOLEAN /\ lock = Free
        /\ scan = [c \in Scans |-> "off"] /\ left = [c \in Scans |-> <<>>]
        /\ report = [c \in Scans |-> {}] /\ probe = [p \in Probes |-> "off"]
        /\ turn = [p \in Probes |-> 0] /\ asked = {} /\ late = {}
    BY DEF Init, ScannerInit
  <2>2. LockInv BY LockInit
  <2>3. SweepInv BY <2>1, SweepIsOff
  <2>4. WorkTypes
    <3>1. <<>> \in Seq(Networks) OBVIOUS
    <3> QED BY <2>1, <3>1 DEF WorkTypes
  <2>5. \A d \in Scans : ScanOK(d) BY <2>1 DEF ScanOK, ScanEnded
  <2>6. ASSUME NEW p \in Probes PROVE ProbeOK(p)
    <3>1. Cardinality(Owning(p[2])) \in 0..Len(Ifaces) BY OwningCounts
    <3>2. 0 \in 0..Cardinality(Owning(p[2])) BY <3>1
    <3> QED BY <2>1, <3>2 DEF ProbeOK
  <2> QED BY <2>2, <2>3, <2>4, <2>5, <2>6 DEF WorkInv
<1> QED BY <1>1, WorkStep, PTL DEF Spec

\* A scan that says a segment was swept by raw ARP asked every silent host of it
\* Retries times and nobody else, unless its time ran out or sending failed, and
\* it leaves out a planned segment only for lack of time.
THEOREM ScansReportWhatTheyDid == Spec => []ScanHonest
<1>1. WorkInv => ScanHonest BY DEF WorkInv, ScanOK, ScanHonest
<1> QED BY <1>1, WorkInvHolds, PTL

\* A status check that has not run out of time reports a host down only when
\* every interface on its subnet and TCP were tried in vain, and a host up only
\* when it is.
THEOREM OnlySilenceMeansDown == Spec => []DownMeansSilent
<1>1. WorkInv => DownMeansSilent BY DEF WorkInv, ProbeOK, DownMeansSilent
<1> QED BY <1>1, WorkInvHolds, PTL

-----------------------------------------------------------------------------
(* Types *)

\* Destinations are addresses.
LEMMA DestinationsTyped == resolveDestinations \subseteq SUBSET Addrs
<1>1. EligibleInterfaces \in Seq(Networks) BY EligibleTyped
<1>2. Pow2[Width] \in Nat \ {0}
  <2>1. Width \in 0..Width BY WidthAssumption
  <2> QED BY <2>1, Pow2Def
<1>3. Limited \in Addrs BY <1>2 DEF Limited, Addrs
<1>4. ASSUME NEW n \in Networks PROVE BroadcastAddr(n) \in Addrs
  <2>1. /\ Size(n) \in Nat \ {0} /\ Masked(n) \in Nat
        /\ Masked(n) + Size(n) <= Pow2[Width]
    BY Block
  <2> QED BY <1>2, <2>1 DEF BroadcastAddr, Addrs
<1>5. ASSUME NEW is, is \subseteq DOMAIN EligibleInterfaces
      PROVE  DirectedBroadcasts(is) \subseteq Addrs
  <2>1. \A i \in is : EligibleInterfaces[i] \in Networks BY <1>1, <1>5
  <2> QED BY <1>4, <2>1 DEF DirectedBroadcasts
<1>6. ASSUME NEW is \in {DOMAIN EligibleInterfaces, {}} \cup {{i} : i \in DOMAIN EligibleInterfaces}
      PROVE  DirectedBroadcasts(is) \cup {Limited} \in SUBSET Addrs
  <2>1. is \subseteq DOMAIN EligibleInterfaces BY <1>6
  <2> QED BY <1>3, <1>5, <2>1
<1>7. \A a \in Broadcasts : {a} \in SUBSET Addrs BY BroadcastsAssumption
<1> QED BY <1>6, <1>7 DEF resolveDestinations

\* The rest of the types: those of the loop and of wakes.
LoopTypes ==
    /\ WolTypeOK
    /\ loop \in {"hello", "poll", "sleep", "stopped"}
    /\ backoff \in MinBackoff..MaxBackoff
    /\ result \in [Commands -> {"none", "due", "over"}]
    /\ up \in BOOLEAN
    /\ outages \in 0..MaxLoad

\* Every step keeps the types of the loop and of wakes.
LEMMA LoopTypesStep == LoopTypes /\ [Next]_vars => LoopTypes'
<1> SUFFICES ASSUME LoopTypes, [Next]_vars PROVE LoopTypes'
  OBVIOUS
<1> USE DEF LoopTypes
<1>0. MinBackoff \in Nat \ {0} /\ MaxBackoff \in Nat /\ MinBackoff <= MaxBackoff
      /\ MinBackoff \in MinBackoff..MaxBackoff
  BY BackoffAssumption
<1>1. ASSUME UNCHANGED wolVars PROVE WolTypeOK' BY <1>1 DEF wolVars, WolTypeOK
<1>2. ASSUME NEW c \in Wakes, StartWake(c) PROVE WolTypeOK'
  BY <1>2, DestinationsTyped DEF StartWake, WolTypeOK
<1>3. ASSUME NEW c \in Wakes, SendTo(c) PROVE WolTypeOK'
  <2>1. PICK d \in dests[c], k \in 0..Copies :
          /\ dests' = [dests EXCEPT ![c] = @ \ {d}]
          /\ sent' = [sent EXCEPT ![c] = @ + k]
          /\ gone' = [gone EXCEPT ![c] = @ \cup {<<d, k>>}]
    BY <1>3 DEF SendTo
  <2>2. k \in Nat /\ d \in Addrs BY <2>1, CopiesAssumption DEF WolTypeOK
  <2>3. sent[c] + k \in Nat BY <2>2 DEF WolTypeOK
  <2>4. gone[c] \cup {<<d, k>>} \in SUBSET (Addrs \X (0..Copies))
    BY <2>2 DEF WolTypeOK
  <2>5. UNCHANGED <<wake, whole>> BY <1>3 DEF SendTo
  <2> QED BY <2>1, <2>3, <2>4, <2>5 DEF WolTypeOK
<1>4. ASSUME NEW c \in Wakes, EndWake(c) PROVE WolTypeOK'
  BY <1>4 DEF EndWake, WolTypeOK
<1>5. ASSUME NEW c, WolForget(c) PROVE WolTypeOK' BY <1>5 DEF WolForget, WolTypeOK
<1>6. ASSUME WolGone PROVE WolTypeOK' BY <1>6 DEF WolGone, WolTypeOK
<1>7. CASE HelloOk \/ RequestFails \/ WakeUp
  <2>1. nextBackoff(backoff) \in MinBackoff..MaxBackoff BY <1>0 DEF nextBackoff
  <2>2. UNCHANGED wolVars BY <1>7 DEF HelloOk, RequestFails, WakeUp, work
  <2> QED BY <1>0, <1>1, <1>7, <2>1, <2>2 DEF HelloOk, RequestFails, WakeUp, work, hubVars
<1>8. ASSUME NEW c \in Commands, PollCommand(c) PROVE LoopTypes'
  <2>1. WolTypeOK' BY <1>1, <1>2, <1>8 DEF PollCommand, Begin
  <2> QED BY <1>0, <1>8, <2>1 DEF PollCommand, hubVars
<1>9. ASSUME NEW c \in Commands, Work(c) PROVE LoopTypes'
  <2>1. WolTypeOK' BY <1>1, <1>3, <1>4, <1>9 DEF Work
  <2> QED BY <1>9, <2>1 DEF Work, hubVars
<1>10. CASE \/ \E p \in Probes : ProbeWork(p)
            \/ SweepWork \/ Network \/ \E c \in Scans \cup Checks : TimeOut(c)
  BY <1>1, <1>10 DEF ProbeWork, SweepWork, Network, TimeOut, hubVars
<1>11. ASSUME NEW c \in Commands, PostResult(c) PROVE LoopTypes'
  BY <1>5, <1>11 DEF PostResult, hubVars
<1>12. CASE GoDown
  <2> DEFINE S == {c \in Commands : result[c] # "none"}
  <2>1. IsFiniteSet(S) BY LoadAssumption, FS_Subset
  <2>2. Cardinality(S) \in Nat BY <2>1, FS_CardinalityType
  <2>3. outages + Cardinality(S) < MaxLoad /\ outages' = outages + 1 /\ up' = FALSE
    BY <1>12 DEF GoDown, Load
  <2> HIDE DEF S
  <2>4. outages' \in 0..MaxLoad BY <2>2, <2>3, LoadAssumption
  <2>5. UNCHANGED <<wolVars, loop, backoff, result>> BY <1>12 DEF GoDown, work
  <2> QED BY <1>1, <2>3, <2>4, <2>5
<1>13. CASE ComeUp \/ Start
  BY <1>1, <1>13 DEF ComeUp, Start, work, hubVars
<1>14. CASE Stop
  BY <1>0, <1>6, <1>14 DEF Stop, hubVars
<1>15. CASE UNCHANGED vars BY <1>1, <1>15 DEF vars, work, hubVars
<1> QED BY <1>7, <1>8, <1>9, <1>10, <1>11, <1>12, <1>13, <1>14, <1>15 DEF Next, LoopStep

\* What comes in on the ICMP socket.
IcmpTypes == noisy \in BOOLEAN

\* Only the network changes it.
LEMMA IcmpTypesStep == IcmpTypes /\ [Next]_vars => IcmpTypes'
<1> SUFFICES ASSUME IcmpTypes, [Next]_vars PROVE IcmpTypes'
  OBVIOUS
<1>1. ASSUME UNCHANGED noisy PROVE IcmpTypes' BY <1>1 DEF IcmpTypes
<1>2. CASE UNCHANGED scannerVars BY <1>1, <1>2 DEF scannerVars
<1>3. ASSUME NEW c \in Commands, PollCommand(c) PROVE IcmpTypes'
  BY <1>1, <1>2, <1>3 DEF PollCommand, Begin, StartScan, StartCheck
<1>4. ASSUME NEW c \in Commands, Work(c) PROVE IcmpTypes'
  BY <1>1, <1>2, <1>4 DEF Work, ScanStep, LockScan, BeginSegment, EndSegment, Fallback, EndScan
<1>5. ASSUME NEW p \in Probes, ProbeStep(p) \/ IcmpFromHost(p) PROVE IcmpTypes'
  BY <1>1, <1>5 DEF ProbeStep, TakeSlot, BeginArp, EndArp, AskIcmp, GiveUpIcmp, AskTcp,
                    IcmpFromHost
<1>6. CASE Network BY <1>5, <1>6 DEF Network, Quiet, IcmpTypes
<1>7. CASE SweepWork BY <1>1, <1>7 DEF SweepWork, Sweeping
<1>8. ASSUME NEW c, TimeOut(c) \/ PostResult(c) PROVE IcmpTypes'
  BY <1>1, <1>8 DEF TimeOut, Expire, PostResult, Forget
<1>9. CASE Stop BY <1>1, <1>9 DEF Stop, ScannerGone
<1>10. CASE \/ HelloOk \/ RequestFails \/ WakeUp \/ GoDown \/ ComeUp \/ Start
            \/ UNCHANGED vars
  BY <1>2, <1>10 DEF HelloOk, RequestFails, WakeUp, GoDown, ComeUp, Start, vars, work
<1> QED BY <1>3, <1>4, <1>5, <1>6, <1>7, <1>8, <1>9, <1>10 DEF Next, LoopStep, ProbeWork

\* The agent's variables stay what their types say.
THEOREM AgentLoopTyped == Spec => []TypeOK
<1>1. Init => LoopTypes
  <2> SUFFICES ASSUME Init PROVE LoopTypes
    OBVIOUS
  <2>1. WolTypeOK BY DEF Init, WolInit, WolTypeOK
  <2>2. MinBackoff \in MinBackoff..MaxBackoff /\ 0 \in 0..MaxLoad
    BY BackoffAssumption, LoadAssumption
  <2> QED BY <2>1, <2>2 DEF Init, LoopTypes
<1>2. WorkInv /\ LoopTypes /\ IcmpTypes => TypeOK
  <2> SUFFICES ASSUME WorkInv, LoopTypes, IcmpTypes PROVE TypeOK
    OBVIOUS
  <2>1. turn \in [Probes -> 0..Len(Ifaces)]
    <3>1. ASSUME NEW p \in Probes PROVE turn[p] \in 0..Len(Ifaces)
      <4>1. Cardinality(Owning(p[2])) \in 0..Len(Ifaces) BY OwningCounts
      <4>2. turn[p] \in 0..Cardinality(Owning(p[2])) BY DEF WorkInv, ProbeOK
      <4> QED BY <4>1, <4>2
    <3> QED BY <3>1 DEF WorkInv, WorkTypes
  <2>2. ScannerTypeOK
    BY <2>1 DEF WorkInv, WorkTypes, LockInv, SweepInv, IcmpTypes, ScannerTypeOK
  <2> QED BY <2>2 DEF TypeOK, LoopTypes
<1>3. Init => IcmpTypes BY DEF Init, ScannerInit, IcmpTypes
<1> QED BY <1>1, <1>2, <1>3, LoopTypesStep, IcmpTypesStep, WorkInvHolds, PTL DEF Spec

=============================================================================
