--------------------------- MODULE HubDataProofs ---------------------------
(***************************************************************************)
(* Proofs about HubData, for any number of hosts, agents, addresses and    *)
(* requests at a time, any limits, and a log of any length: no late        *)
(* answer, failed write or restart brings a removed host back, loses a     *)
(* confirmed save or takes back the time of the last wake; the history     *)
(* keeps the newest scans; a crash costs the audit log two entries at      *)
(* most; and its tail shows the newest ones.                               *)
(***************************************************************************)
EXTENDS HubData, ListProofs

HostTypes ==
    /\ hosts \in [Macs -> Hosts \cup {None}] /\ dHosts \in [Macs -> Hosts \cup {None}]
    /\ req \in [Reqs -> Requests]
    /\ edits \in Nat /\ wakes \in Nat
    /\ saved \in [Macs -> Nat] /\ gone \subseteq Macs

\* What the operator was told of host m holds of record h, and h is from a wake
\* that took place.
Agrees(m, h) ==
    /\ saved[m] > 0 => h # None /\ h.edit >= saved[m]
    /\ m \in gone => h = None
    /\ h # None => h.woken <= wakes

\* Memory and file agree with what was told, and saves are numbered in order.
HostInv ==
    /\ HostTypes
    /\ \A m \in Macs : /\ saved[m] <= edits
                       /\ Agrees(m, hosts[m])
                       /\ Agrees(m, dHosts[m])

-----------------------------------------------------------------------------
(* The store's mutators *)

\* Writing the file leaves its hosts alone or makes them those in memory.
LEMMA FlushHosts ==
    ASSUME NEW ok \in BOOLEAN, Flush(ok) \/ NoFlush
    PROVE  dHosts' = dHosts \/ dHosts' = hosts'
BY DEF Flush, NoFlush, bookDisk

\* Observing a host gives a record, and keeps who saved it and its last wake.
LEMMA ObservedRecord ==
    ASSUME NEW h \in Hosts, NEW a \in Agents, NEW ip \in IPs \cup {None}
    PROVE  /\ Observed(h, a, ip) \in Hosts /\ Observed(h, a, ip) # None
           /\ Observed(h, a, ip).edit = h.edit
           /\ Observed(h, a, ip).woken = h.woken
BY NoRecordAssumption DEF Hosts, Observed

\* A step that changes nothing the operator was told, whose records in memory
\* keep who saved them and are stamped with wakes that took place, keeps HostInv.
LEMMA QuietStep ==
    ASSUME HostInv, UNCHANGED <<edits, told>>,
           wakes' \in Nat, wakes' >= wakes, req' \in [Reqs -> Requests],
           hosts' \in [Macs -> Hosts \cup {None}],
           dHosts' = dHosts \/ dHosts' = hosts',
           \A m \in Macs :
              \/ hosts'[m] = hosts[m]
              \/ hosts'[m] = dHosts[m]
              \/ /\ hosts[m] # None /\ hosts'[m] # None
                 /\ hosts'[m].edit = hosts[m].edit
                 /\ hosts'[m].woken <= wakes'
    PROVE  HostInv'
<1> USE DEF HostInv, HostTypes, told
<1>1. HostTypes' OBVIOUS
<1>2. ASSUME NEW m \in Macs PROVE Agrees(m, hosts[m])'
  <2>1. hosts[m] # None => hosts[m].woken \in Nat BY DEF Hosts
  <2>2. dHosts[m] # None => dHosts[m].woken \in Nat BY DEF Hosts
  <2> QED BY <2>1, <2>2 DEF Agrees
<1>3. ASSUME NEW m \in Macs PROVE Agrees(m, dHosts[m])'
  <2>1. dHosts[m] # None => dHosts[m].woken \in Nat BY DEF Hosts
  <2>2. CASE dHosts' = dHosts BY <2>1, <2>2 DEF Agrees
  <2>3. CASE dHosts' = hosts' BY <1>2, <2>3 DEF Agrees
  <2> QED BY <2>2, <2>3
<1>4. \A m \in Macs : (saved[m] <= edits)' OBVIOUS
<1> QED BY <1>1, <1>2, <1>3, <1>4

-----------------------------------------------------------------------------
(* Requests *)

\* The operator's saves and removals.
LEMMA HostStepKeeps ==
    ASSUME HostInv, NEW q \in Reqs, HostStep(q)
    PROVE  HostInv'
<1> USE DEF HostInv, HostTypes, told, Goto, AnswerIf
<1>0. Idle \in Requests /\ Owing \in Requests
      /\ \A m \in Macs : [op |-> "wake", mac |-> m] \in Requests
  BY DEF Idle, Owing, Requests
<1>1. ASSUME NEW m \in Macs, SaveRequest(q, m) PROVE HostInv'
  <2>1. PICK ip \in IPs \cup {None}, a \in Agents \cup {None}, ok \in BOOLEAN :
          /\ SaveHost(m, ip, a, edits', ok)
          /\ saved' = IF ok THEN [saved EXCEPT ![m] = edits'] ELSE saved
          /\ AnswerIf(q, ok)
    BY <1>1 DEF SaveRequest
  <2> DEFINE h == [ip |-> ip, agent |-> a, edit |-> edits', woken |-> Carried(m)]
  <2>2. edits' = edits + 1 /\ gone' = gone \ {m} /\ wakes' = wakes
    BY <1>1 DEF SaveRequest
  <2>3. Carried(m) \in Nat /\ Carried(m) <= wakes
    BY DEF Carried, Agrees, Hosts
  <2>4. h \in Hosts /\ h # None /\ h.edit = edits' /\ h.woken = Carried(m)
    BY <2>2, <2>3, NoRecordAssumption DEF Hosts
  <2>5. hosts' = [hosts EXCEPT ![m] = h] BY <2>1 DEF SaveHost
  <2>6. IF ok THEN dHosts' = hosts' ELSE dHosts' = dHosts
    BY <2>1 DEF SaveHost, Flush, bookDisk
  <2> HIDE DEF h
  <2>7. HostTypes'
    BY <1>0, <2>1, <2>2, <2>4, <2>5, <2>6
  <2>8. ASSUME NEW n \in Macs PROVE (saved[n] <= edits)'
    BY <2>1, <2>2
  <2>9. ASSUME NEW n \in Macs PROVE Agrees(n, hosts[n])' /\ Agrees(n, dHosts[n])'
    <3>1. CASE n = m /\ ok
      BY <2>1, <2>2, <2>3, <2>4, <2>5, <2>6, <3>1 DEF Agrees
    <3>2. CASE n = m /\ ~ok
      BY <2>1, <2>2, <2>3, <2>4, <2>5, <2>6, <3>2 DEF Agrees
    <3>3. CASE n # m
      BY <2>1, <2>2, <2>5, <2>6, <3>3 DEF Agrees
    <3> QED BY <3>1, <3>2, <3>3
  <2> QED BY <2>7, <2>8, <2>9
<1>2. ASSUME NEW m \in Macs, DeleteRequest(q, m) PROVE HostInv'
  <2>1. PICK ok \in BOOLEAN :
          /\ DeleteHost(m, ok)
          /\ gone' = IF ok THEN gone \cup {m} ELSE gone
          /\ AnswerIf(q, ok)
    BY <1>2 DEF DeleteRequest
  <2>2. saved' = [saved EXCEPT ![m] = 0] /\ UNCHANGED <<edits, wakes>>
    BY <1>2 DEF DeleteRequest, counters
  <2>3. hosts' = [hosts EXCEPT ![m] = None]
        /\ IF ok THEN dHosts' = hosts' ELSE dHosts' = dHosts
    BY <2>1 DEF DeleteHost, Flush, bookDisk
  <2>4. HostTypes'
    BY <1>0, <2>1, <2>2, <2>3
  <2>5. ASSUME NEW n \in Macs
        PROVE  (saved[n] <= edits)' /\ Agrees(n, hosts[n])' /\ Agrees(n, dHosts[n])'
    BY <2>1, <2>2, <2>3 DEF Agrees
  <2> QED BY <2>4, <2>5
<1>3. ASSUME NEW m \in Macs, WakeSaved(q, m) \/ WakeVia(q, m) PROVE HostInv'
  <2>1. UNCHANGED <<hosts, dHosts, edits, wakes, told>> /\ req' \in [Reqs -> Requests]
    BY <1>0, <1>3 DEF WakeSaved, WakeVia, bookVars, bookMem, bookDisk, counters
  <2> QED BY <2>1, QuietStep
<1>4. ASSUME NEW l \in 0..MaxLimit + 1, SettingsRequest(q, l) PROVE HostInv'
  <2>1. PICK ok \in BOOLEAN : SaveSettings(l, ok) /\ AnswerIf(q, ok)
    BY <1>4 DEF SettingsRequest
  <2>2. UNCHANGED <<hosts, edits, wakes, told>> /\ req' \in [Reqs -> Requests]
    BY <1>0, <1>4, <2>1 DEF SettingsRequest, SaveSettings, counters
  <2>3. dHosts' = dHosts \/ dHosts' = hosts'
    BY <2>1, FlushHosts DEF SaveSettings
  <2> QED BY <2>2, <2>3, QuietStep
<1> QED BY <1>1, <1>2, <1>3, <1>4 DEF HostStep

\* Answers of agents, or their absence.
LEMMA AgentStepKeeps ==
    ASSUME HostInv, NEW q \in Reqs, AgentStep(q)
    PROVE  HostInv'
<1> USE DEF HostInv, HostTypes, told, Goto
<1>0. /\ Idle \in Requests /\ Owing \in Requests
      /\ \A a \in Agents : /\ [op |-> "scan", agent |-> a] \in Requests
                           /\ [op |-> "observed", agent |-> a] \in Requests
  BY DEF Idle, Owing, Requests
<1>1. /\ req[q].op = "scan" => req[q].agent \in Agents
      /\ req[q].op = "wake" => req[q].mac \in Macs
  BY DEF Requests, Idle
<1>2. CASE \/ \E a \in Agents : ScanRequest(q, a)
           \/ ScanFails(q) \/ WakeFails(q)
  <2>1. UNCHANGED <<hosts, dHosts, edits, wakes, told>> /\ req' \in [Reqs -> Requests]
    BY <1>0, <1>2 DEF ScanRequest, ScanFails, WakeFails, bookVars, bookMem, bookDisk, counters
  <2> QED BY <2>1, QuietStep
<1>3. CASE ScanAnswered(q)
  <2>1. PICK found \in SUBSET Macs : \E obs \in [found -> IPs \cup {None}], ok \in BOOLEAN :
           ObserveHosts(req[q].agent, obs, ok)
    BY <1>3 DEF ScanAnswered
  <2>2. PICK obs \in [found -> IPs \cup {None}], ok \in BOOLEAN :
           ObserveHosts(req[q].agent, obs, ok)
    BY <2>1
  <2>3. UNCHANGED <<edits, wakes, told>> /\ req' \in [Reqs -> Requests]
    <3>1. req[q].agent \in Agents BY <1>1, <1>3 DEF ScanAnswered
    <3> QED BY <1>0, <1>3, <3>1 DEF ScanAnswered, counters
  <2>4. dHosts' = dHosts \/ dHosts' = hosts'
    BY <2>2, FlushHosts DEF ObserveHosts
  <2>5. hosts' = [m \in Macs |-> IF m \in DOMAIN obs /\ hosts[m] # None
                                 THEN Observed(hosts[m], req[q].agent, obs[m])
                                 ELSE hosts[m]]
    BY <2>2 DEF ObserveHosts
  <2>6. req[q].agent \in Agents BY <1>1, <1>3 DEF ScanAnswered
  <2>7. ASSUME NEW m \in Macs
        PROVE  /\ hosts'[m] \in Hosts \cup {None}
               /\ \/ hosts'[m] = hosts[m]
                  \/ /\ hosts[m] # None /\ hosts'[m] # None
                     /\ hosts'[m].edit = hosts[m].edit
                     /\ hosts'[m].woken <= wakes'
    <3>1. CASE m \in DOMAIN obs /\ hosts[m] # None
      <4>1. hosts[m] \in Hosts /\ obs[m] \in IPs \cup {None} BY <3>1
      <4>2. hosts'[m] = Observed(hosts[m], req[q].agent, obs[m]) BY <2>5, <3>1
      <4>3. hosts[m].woken <= wakes BY <3>1 DEF Agrees
      <4>4. /\ hosts'[m] \in Hosts /\ hosts'[m] # None
            /\ hosts'[m].edit = hosts[m].edit /\ hosts'[m].woken = hosts[m].woken
        BY <2>6, <4>1, <4>2, ObservedRecord
      <4> QED BY <2>3, <3>1, <4>3, <4>4
    <3>2. CASE ~(m \in DOMAIN obs /\ hosts[m] # None) BY <2>5, <3>2
    <3> QED BY <3>1, <3>2
  <2>8. hosts' \in [Macs -> Hosts \cup {None}] BY <2>5, <2>7
  <2> QED BY <2>3, <2>4, <2>7, <2>8, QuietStep
<1>4. CASE RecordScan(q)
  <2>1. PICK ok \in BOOLEAN : AddScan([id |-> scanned', agent |-> req[q].agent], ok)
    BY <1>4 DEF RecordScan
  <2>2. UNCHANGED <<hosts, edits, wakes, told>> /\ req' \in [Reqs -> Requests]
    BY <1>0, <1>4, <2>1 DEF RecordScan, AddScan
  <2>3. dHosts' = dHosts \/ dHosts' = hosts' BY <2>1, FlushHosts DEF AddScan
  <2> QED BY <2>2, <2>3, QuietStep
<1>5. CASE WakeAnswered(q)
  <2>1. PICK ok \in BOOLEAN : MarkWoken(req[q].mac, wakes', ok) BY <1>5 DEF WakeAnswered
  <2>2. /\ wakes' = wakes + 1 /\ UNCHANGED <<edits, told>>
        /\ req' \in [Reqs -> Requests] /\ req[q].mac \in Macs
    BY <1>0, <1>1, <1>5 DEF WakeAnswered
  <2>3. dHosts' = dHosts \/ dHosts' = hosts' BY <2>1, FlushHosts DEF MarkWoken
  <2>4. CASE hosts[req[q].mac] = None
    <3>1. hosts' = hosts BY <2>1, <2>4 DEF MarkWoken
    <3> QED BY <2>2, <2>3, <3>1, QuietStep
  <2>5. CASE hosts[req[q].mac] # None
    <3> DEFINE m == req[q].mac
               h == [hosts[m] EXCEPT !.woken = wakes']
    <3>1. hosts' = [hosts EXCEPT ![m] = h] BY <2>1, <2>5 DEF MarkWoken
    <3>2. hosts[m] \in Hosts BY <2>2, <2>5
    <3>3. h \in Hosts /\ h # None /\ h.edit = hosts[m].edit /\ h.woken = wakes'
      BY <2>2, <3>2, NoRecordAssumption DEF Hosts
    <3> HIDE DEF h
    <3>4. hosts' \in [Macs -> Hosts \cup {None}] BY <2>2, <3>1, <3>3
    <3>5. \A n \in Macs : \/ hosts'[n] = hosts[n]
                          \/ /\ hosts[n] # None /\ hosts'[n] # None
                             /\ hosts'[n].edit = hosts[n].edit
                             /\ hosts'[n].woken <= wakes'
      BY <2>2, <2>5, <3>1, <3>3
    <3> QED BY <2>2, <2>3, <3>4, <3>5, QuietStep
  <2> QED BY <2>4, <2>5
<1> QED BY <1>2, <1>3, <1>4, <1>5 DEF AgentStep

\* Every step keeps HostInv.
LEMMA HostInvStep == HostInv /\ [Next]_vars => HostInv'
<1> SUFFICES ASSUME HostInv, [Next]_vars PROVE HostInv'
  OBVIOUS
<1>1. ASSUME NEW q \in Reqs, Finish(q) PROVE HostInv'
  <2>1. UNCHANGED <<hosts, dHosts, edits, wakes, told>> /\ req' \in [Reqs -> Requests]
    BY <1>1 DEF Finish, Goto, Idle, Requests, HostInv, HostTypes, bookVars, bookMem,
                bookDisk, counters
  <2> QED BY <2>1, QuietStep DEF HostInv, HostTypes
<1>2. CASE OtherWrite
  <2>1. UNCHANGED <<hosts, edits, wakes, req, told>>
    BY <1>2 DEF OtherWrite, WriteOut, bookMem, counters
  <2>2. dHosts' = dHosts \/ dHosts' = hosts'
    BY <1>2, FlushHosts DEF OtherWrite, WriteOut
  <2> QED BY <2>1, <2>2, QuietStep DEF HostInv, HostTypes
<1>3. CASE Restart
  <2>1. UNCHANGED <<dHosts, edits, wakes, told>> /\ hosts' = dHosts
        /\ req' \in [Reqs -> Requests]
    BY <1>3 DEF Restart, ReadBack, bookDisk, counters, Idle, Requests
  <2> QED BY <2>1, QuietStep DEF HostInv, HostTypes
<1>4. CASE UNCHANGED vars
  <2>1. UNCHANGED <<hosts, dHosts, edits, wakes, req, told>>
    BY <1>4 DEF vars, bookVars, bookMem, bookDisk, told
  <2> QED BY <2>1, QuietStep DEF HostInv, HostTypes
<1> QED BY <1>1, <1>2, <1>3, <1>4, HostStepKeeps, AgentStepKeeps DEF Next

\* The empty store agrees with having told nothing.
LEMMA HostInvInit == Init => HostInv
BY DEF Init, BookInit, HostInv, HostTypes, Agrees, Requests

\* HostInv is an invariant.
LEMMA HostInvHolds == Spec => []HostInv
BY HostInvInit, HostInvStep, PTL DEF Spec

-----------------------------------------------------------------------------
(* Theorems about hosts *)

\* A removed host stays away whatever answers arrive and whatever fails.
THEOREM RemovedHostsStayAway == Spec => []DeletedStaysDeleted
<1>1. HostInv => DeletedStaysDeleted
  BY DEF HostInv, HostTypes, Agrees, DeletedStaysDeleted
<1> QED BY <1>1, HostInvHolds, PTL

\* A confirmed save is kept, in memory and in the file.
THEOREM ConfirmedSavesLast == Spec => []SavedStaysSaved
<1>1. HostInv => SavedStaysSaved
  BY DEF HostInv, HostTypes, Agrees, SavedStaysSaved
<1> QED BY <1>1, HostInvHolds, PTL

\* No save, scan or wake takes the time of a host's last wake back: a save
\* carries it over, and a wake is later than those before it.
THEOREM LastWakesLast == Spec => LastWakeKept
<1> DEFINE Stays == \A m \in Macs : hosts[m] # None /\ hosts'[m] # None =>
                       hosts'[m].woken >= hosts[m].woken \/ Restart
<1>1. HostInv /\ [Next]_vars => [Stays]_vars
  <2> SUFFICES ASSUME HostInv, Next, NEW m \in Macs, hosts[m] # None, hosts'[m] # None,
                      ~Restart
               PROVE  hosts'[m].woken >= hosts[m].woken
    OBVIOUS
  <2> USE DEF HostInv, HostTypes
  <2>0. hosts[m] \in Hosts /\ hosts[m].woken \in Nat /\ hosts[m].woken <= wakes
    BY DEF Agrees, Hosts
  <2>1. ASSUME hosts'[m] = hosts[m] PROVE hosts'[m].woken >= hosts[m].woken
    BY <2>0, <2>1
  <2>2. ASSUME NEW q \in Reqs, NEW n \in Macs, SaveRequest(q, n)
        PROVE  hosts'[m].woken >= hosts[m].woken
    <3>1. PICK ip \in IPs \cup {None}, a \in Agents \cup {None}, ok \in BOOLEAN :
            SaveHost(n, ip, a, edits', ok)
      BY <2>2 DEF SaveRequest
    <3> QED BY <2>0, <2>1, <3>1 DEF SaveHost, Carried
  <2>3. ASSUME NEW q \in Reqs, NEW n \in Macs, DeleteRequest(q, n)
        PROVE  hosts'[m].woken >= hosts[m].woken
    BY <2>1, <2>3 DEF DeleteRequest, DeleteHost
  <2>4. ASSUME NEW q \in Reqs, ScanAnswered(q)
        PROVE  hosts'[m].woken >= hosts[m].woken
    <3>1. PICK found \in SUBSET Macs : \E obs \in [found -> IPs \cup {None}], ok \in BOOLEAN :
             ObserveHosts(req[q].agent, obs, ok)
      BY <2>4 DEF ScanAnswered
    <3>2. PICK obs \in [found -> IPs \cup {None}], ok \in BOOLEAN :
             ObserveHosts(req[q].agent, obs, ok)
      BY <3>1
    <3>3. req[q].agent \in Agents BY <2>4 DEF ScanAnswered, Requests, Idle
    <3>4. CASE m \in DOMAIN obs
      <4>1. hosts'[m] = Observed(hosts[m], req[q].agent, obs[m])
        BY <3>2, <3>4 DEF ObserveHosts
      <4>2. obs[m] \in IPs \cup {None} BY <3>4
      <4>3. hosts'[m].woken = hosts[m].woken BY <2>0, <3>3, <4>1, <4>2, ObservedRecord
      <4> QED BY <2>0, <4>3
    <3>5. CASE m \notin DOMAIN obs BY <2>1, <3>2, <3>5 DEF ObserveHosts
    <3> QED BY <3>4, <3>5
  <2>5. ASSUME NEW q \in Reqs, WakeAnswered(q)
        PROVE  hosts'[m].woken >= hosts[m].woken
    <3>1. PICK ok \in BOOLEAN : MarkWoken(req[q].mac, wakes', ok) BY <2>5 DEF WakeAnswered
    <3>2. wakes' = wakes + 1 BY <2>5 DEF WakeAnswered
    <3>3. CASE m = req[q].mac
      <4>1. hosts'[m].woken = wakes' BY <2>0, <3>1, <3>3 DEF MarkWoken, Hosts
      <4> QED BY <2>0, <3>2, <4>1
    <3>4. CASE m # req[q].mac BY <2>1, <3>1, <3>4 DEF MarkWoken
    <3> QED BY <3>3, <3>4
  <2>6. ASSUME NEW q \in Reqs,
               \/ \E n \in Macs : WakeSaved(q, n) \/ WakeVia(q, n)
               \/ \E l \in 0..MaxLimit + 1 : SettingsRequest(q, l)
               \/ \E a \in Agents : ScanRequest(q, a)
               \/ ScanFails(q) \/ RecordScan(q) \/ WakeFails(q) \/ Finish(q)
        PROVE  hosts'[m].woken >= hosts[m].woken
    <3>1. hosts' = hosts
      BY <2>6 DEF WakeSaved, WakeVia, SettingsRequest, SaveSettings, ScanRequest, ScanFails,
                  RecordScan, AddScan, WakeFails, Finish, bookVars, bookMem
    <3> QED BY <2>1, <3>1
  <2>7. CASE OtherWrite BY <2>1, <2>7 DEF OtherWrite, WriteOut, bookMem
  <2> QED BY <2>2, <2>3, <2>4, <2>5, <2>6, <2>7 DEF Next, HostStep, AgentStep
<1> QED BY <1>1, HostInvHolds, PTL DEF Spec, LastWakeKept

-----------------------------------------------------------------------------
(* The scan history *)

\* The history in memory and in the file: in order, of scans that took place.
HistoryInv ==
    /\ scans \in Seq(Scans) /\ dScans \in Seq(Scans)
    /\ limit \in 1..MaxLimit /\ dLimit \in 1..MaxLimit
    /\ Len(scans) <= MaxLimit /\ Len(dScans) <= MaxLimit
    /\ misses \in Nat /\ scanned \in Nat
    /\ NewestFirst(scans) /\ NewestFirst(dScans)
    /\ \A i \in DOMAIN scans : scans[i].id <= scanned
    /\ \A i \in DOMAIN dScans : dScans[i].id <= scanned

\* Scans in a history are numbered.
LEMMA ScanIds ==
    ASSUME NEW s \in Seq(Scans)
    PROVE  Len(s) \in Nat /\ DOMAIN s = 1..Len(s) /\ \A i \in 1..Len(s) : s[i].id \in Nat
<1>1. Len(s) \in Nat /\ DOMAIN s = 1..Len(s) /\ \A i \in 1..Len(s) : s[i] \in Scans OBVIOUS
<1>2. \A r \in Scans : r.id \in Nat BY DEF Scans
<1> QED BY <1>1, <1>2

\* A new scan at the head of a history, which is then cut to the limit.
LEMMA CappedHistory ==
    ASSUME NEW s \in Seq(Scans), NEW n \in Nat, NewestFirst(s),
           \A i \in DOMAIN s : s[i].id <= n, limit \in Nat \ {0},
           NEW r \in Scans, r.id = n + 1
    PROVE  LET t == Capped(<<r>> \o s) IN
           /\ t \in Seq(Scans) /\ Len(t) <= limit /\ NewestFirst(t)
           /\ \A i \in DOMAIN t : t[i].id <= n + 1
           /\ r \in ToSet(t)
           /\ \A x \in ToSet(s) \ ToSet(t) :
                 Len(t) = limit /\ \A y \in ToSet(t) : y.id > x.id
<1> DEFINE u == <<r>> \o s
           t == Capped(u)
<1>0. Len(s) \in Nat /\ DOMAIN s = 1..Len(s) /\ \A i \in 1..Len(s) : s[i].id \in Nat
  BY ScanIds
<1>1. /\ u \in Seq(Scans) /\ Len(u) = Len(s) + 1 /\ u[1] = r
      /\ \A i \in 1..Len(s) + 1 : i # 1 => u[i] = s[i - 1]
  <2>1. <<r>> \in Seq(Scans) /\ Len(<<r>>) = 1 /\ <<r>>[1] = r OBVIOUS
  <2> QED BY <1>0, <2>1, ConcatProperties
<1> HIDE DEF u
<1>2. /\ \A i \in 1..Len(u) : u[i].id \in Nat /\ u[i].id <= n + 1
      /\ \A i, j \in 1..Len(u) : i < j => u[i].id > u[j].id
  <2>1. \A i \in 1..Len(u) : i # 1 => i - 1 \in 1..Len(s) /\ u[i] = s[i - 1] BY <1>0, <1>1
  <2>2. \A i \in 1..Len(u) : i # 1 => u[i].id \in Nat /\ u[i].id <= n BY <1>0, <2>1
  <2>3. \A i \in 1..Len(u) : u[i].id \in Nat /\ u[i].id <= n + 1 BY <1>1, <2>2
  <2>4. ASSUME NEW i \in 1..Len(u), NEW j \in 1..Len(u), i < j PROVE u[i].id > u[j].id
    <3>0. j # 1 BY <2>4
    <3>1. CASE i = 1 BY <1>1, <2>2, <3>0, <3>1
    <3>2. CASE i # 1
      <4>1. i - 1 \in 1..Len(s) /\ j - 1 \in 1..Len(s) /\ i - 1 < j - 1
            /\ u[i] = s[i - 1] /\ u[j] = s[j - 1]
        BY <2>1, <2>4, <3>0, <3>2
      <4> QED BY <1>0, <4>1 DEF NewestFirst
    <3> QED BY <3>1, <3>2
  <2> QED BY <2>3, <2>4
<1>3. /\ t \in Seq(Scans) /\ Len(t) = IF Len(u) > limit THEN limit ELSE Len(u)
      /\ \A i \in 1..Len(t) : t[i] = u[i]
  <2>1. CASE Len(u) > limit
    <3>1. t = SubSeq(u, 1, limit) BY <2>1 DEF Capped
    <3> QED BY <1>0, <1>1, <2>1, <3>1
  <2>2. CASE ~(Len(u) > limit) BY <1>1, <2>2 DEF Capped
  <2> QED BY <2>1, <2>2
<1> HIDE DEF t
<1>4. /\ Len(t) \in Nat /\ DOMAIN t = 1..Len(t) /\ Len(t) <= limit /\ 1 \in 1..Len(t)
      /\ \A i \in 1..Len(t) : i \in 1..Len(u)
  BY <1>0, <1>1, <1>3
<1>5. NewestFirst(t) BY <1>2, <1>3, <1>4 DEF NewestFirst
<1>6. \A i \in DOMAIN t : t[i].id <= n + 1 BY <1>2, <1>3, <1>4
<1>7. r \in ToSet(t) BY <1>1, <1>3, <1>4 DEF ToSet
<1>8. ASSUME NEW x \in ToSet(s) \ ToSet(t)
      PROVE  Len(t) = limit /\ \A y \in ToSet(t) : y.id > x.id
  <2>1. PICK i \in 1..Len(s) : s[i] = x BY <1>0 DEF ToSet
  <2>2. i + 1 \in 1..Len(u) /\ u[i + 1] = x
    <3>1. i + 1 \in 1..Len(s) + 1 /\ i + 1 # 1 /\ (i + 1) - 1 = i BY <1>0
    <3> QED BY <1>1, <2>1, <3>1
  <2>3. i + 1 \notin 1..Len(t) BY <1>3, <1>4, <2>2 DEF ToSet
  <2>4. Len(t) = limit /\ Len(t) < i + 1 BY <1>0, <1>1, <1>3, <1>4, <2>2, <2>3
  <2>5. ASSUME NEW y \in ToSet(t) PROVE y.id > x.id
    <3>1. PICK j \in 1..Len(t) : t[j] = y BY <1>4 DEF ToSet
    <3>2. j \in 1..Len(u) /\ j < i + 1 /\ u[j] = y BY <1>3, <1>4, <2>4, <3>1
    <3> QED BY <1>2, <2>2, <3>2
  <2> QED BY <2>4, <2>5
<1> QED BY <1>3, <1>4, <1>5, <1>6, <1>7, <1>8 DEF t, u

\* What a step does to the history and the limit.
Recorded ==
    /\ scanned' = scanned + 1 /\ limit' = limit
    /\ \E r \in Scans : r.id = scanned + 1 /\ scans' = Capped(<<r>> \o scans)
Limited == UNCHANGED <<scans, scanned>> /\ limit' \in 1..MaxLimit
Written ==
    /\ misses' \in {misses, misses + 1}
    /\ UNCHANGED <<dScans, dLimit>> \/ (dScans' = scans' /\ dLimit' = limit')
Reread == Restart /\ ReadBack /\ scanned' = scanned

\* Writing, and not writing.
LEMMA FlushWrites == ASSUME NEW ok \in BOOLEAN, Flush(ok) \/ NoFlush PROVE Written
BY DEF Flush, NoFlush, bookDisk, Written

\* Every step is one of these.
LEMMA HistoryStep ==
    ASSUME HostTypes, HistoryInv, [Next]_vars
    PROVE  ((Recorded \/ Limited) /\ Written) \/ Reread
<1>0. UNCHANGED limit => limit' \in 1..MaxLimit BY DEF HistoryInv
<1>1. ASSUME NEW q \in Reqs, NEW m \in Macs, SaveRequest(q, m) PROVE Limited /\ Written
  BY <1>0, <1>1, FlushWrites DEF SaveRequest, SaveHost, Limited
<1>2. ASSUME NEW q \in Reqs, NEW m \in Macs, DeleteRequest(q, m) PROVE Limited /\ Written
  BY <1>0, <1>2, FlushWrites DEF DeleteRequest, DeleteHost, Limited, counters
<1>3. ASSUME NEW q \in Reqs, NEW l \in 0..MaxLimit + 1, SettingsRequest(q, l)
      PROVE  Limited /\ Written
  BY <1>3, FlushWrites, LimitAssumption DEF SettingsRequest, SaveSettings, Limited, counters
<1>4. ASSUME UNCHANGED <<bookVars, scanned>> PROVE Limited /\ Written
  BY <1>0, <1>4 DEF bookVars, bookMem, bookDisk, Limited, Written
<1>5. ASSUME NEW q \in Reqs, NEW m \in Macs, WakeSaved(q, m) \/ WakeVia(q, m)
      PROVE  Limited /\ Written
  BY <1>4, <1>5 DEF WakeSaved, WakeVia, counters
<1>6. ASSUME NEW q \in Reqs,
             (\E a \in Agents : ScanRequest(q, a)) \/ ScanFails(q) \/ WakeFails(q) \/ Finish(q)
      PROVE  Limited /\ Written
  BY <1>4, <1>6 DEF ScanRequest, ScanFails, WakeFails, Finish, counters
<1>7. ASSUME NEW q \in Reqs, ScanAnswered(q) PROVE Limited /\ Written
  <2>1. PICK found \in SUBSET Macs : \E obs \in [found -> IPs \cup {None}], ok \in BOOLEAN :
           ObserveHosts(req[q].agent, obs, ok)
    BY <1>7 DEF ScanAnswered
  <2>2. PICK obs \in [found -> IPs \cup {None}], ok \in BOOLEAN :
           ObserveHosts(req[q].agent, obs, ok)
    BY <2>1
  <2>3. Flush(ok) \/ NoFlush BY <2>2 DEF ObserveHosts
  <2>4. UNCHANGED <<scans, limit, scanned>> BY <1>7, <2>2 DEF ObserveHosts, ScanAnswered, counters
  <2> QED BY <1>0, <2>3, <2>4, FlushWrites DEF Limited
<1>8. ASSUME NEW q \in Reqs, RecordScan(q) PROVE Recorded /\ Written
  <2>1. PICK ok \in BOOLEAN : AddScan([id |-> scanned', agent |-> req[q].agent], ok)
    BY <1>8 DEF RecordScan
  <2>2. req[q].agent \in Agents BY <1>8 DEF RecordScan, HostTypes, Requests, Idle
  <2>3. scanned' = scanned + 1 /\ scanned' \in Nat BY <1>8 DEF RecordScan, HistoryInv
  <2>4. [id |-> scanned', agent |-> req[q].agent] \in Scans BY <2>2, <2>3 DEF Scans
  <2> QED BY <2>1, <2>3, <2>4, FlushWrites DEF AddScan, Recorded
<1>9. ASSUME NEW q \in Reqs, WakeAnswered(q) PROVE Limited /\ Written
  <2>1. PICK ok \in BOOLEAN : MarkWoken(req[q].mac, wakes', ok) BY <1>9 DEF WakeAnswered
  <2>2. Flush(ok) \/ NoFlush BY <2>1 DEF MarkWoken
  <2> QED BY <1>0, <1>9, <2>1, <2>2, FlushWrites DEF WakeAnswered, MarkWoken, Limited
<1>10. ASSUME OtherWrite PROVE Limited /\ Written
  BY <1>0, <1>10, FlushWrites DEF OtherWrite, WriteOut, bookMem, counters, Limited
<1>11. ASSUME Restart PROVE Reread
  BY <1>11 DEF Restart, Reread, counters
<1>12. ASSUME UNCHANGED vars PROVE Limited /\ Written
  BY <1>4, <1>12 DEF vars
<1> QED BY <1>1, <1>2, <1>3, <1>5, <1>6, <1>7, <1>8, <1>9, <1>10, <1>11, <1>12
        DEF Next, HostStep, AgentStep

\* HistoryInv is kept, and a scan leaves the history for newer ones only.
LEMMA HistoryInvStep ==
    ASSUME HostTypes, HistoryInv, [Next]_vars
    PROVE  /\ HistoryInv'
           /\ scanned' > scanned => \E n \in ToSet(scans') : n.id = scanned'
           /\ \A s \in ToSet(scans) \ ToSet(scans') :
                 \/ Len(scans') = limit' /\ \A n \in ToSet(scans') : n.id > s.id
                 \/ Restart
<1> USE DEF HistoryInv
<1>0. MaxLimit \in Nat BY LimitAssumption
<1>1. ASSUME Recorded
      PROVE  /\ scans' \in Seq(Scans) /\ Len(scans') <= MaxLimit /\ NewestFirst(scans')
             /\ limit' \in 1..MaxLimit /\ scanned' \in Nat /\ scanned' >= scanned
             /\ \A i \in DOMAIN scans' : scans'[i].id <= scanned'
             /\ \E n \in ToSet(scans') : n.id = scanned'
             /\ \A s \in ToSet(scans) \ ToSet(scans') :
                   Len(scans') = limit' /\ \A n \in ToSet(scans') : n.id > s.id
  <2>1. limit \in Nat \ {0} /\ limit <= MaxLimit BY <1>0
  <2>2. /\ scans' \in Seq(Scans) /\ Len(scans') <= limit /\ NewestFirst(scans')
        /\ \A i \in DOMAIN scans' : scans'[i].id <= scanned + 1
        /\ \E x \in ToSet(scans') : x.id = scanned + 1
        /\ \A x \in ToSet(scans) \ ToSet(scans') :
              Len(scans') = limit /\ \A y \in ToSet(scans') : y.id > x.id
    BY <1>1, <2>1, CappedHistory DEF Recorded
  <2>3. scanned' = scanned + 1 /\ limit' = limit BY <1>1 DEF Recorded
  <2>4. Len(scans') <= MaxLimit
    <3>1. Len(scans') \in Nat BY <2>2
    <3> QED BY <1>0, <2>1, <2>2, <3>1
  <2> QED BY <2>2, <2>3, <2>4
<1>2. ASSUME Limited
      PROVE  /\ scans' = scans /\ scanned' = scanned /\ limit' \in 1..MaxLimit
  BY <1>2 DEF Limited
<1>3. CASE Recorded /\ Written
  <2>1. \A i \in DOMAIN dScans : dScans[i].id <= scanned'
    <3>1. scanned' = scanned + 1 BY <1>3 DEF Recorded
    <3>2. \A i \in DOMAIN dScans : dScans[i].id \in Nat BY ScanIds
    <3> QED BY <3>1, <3>2
  <2> QED BY <1>1, <1>3, <2>1 DEF Written
<1>4. CASE Limited /\ Written
  <2>1. HistoryInv' BY <1>2, <1>4 DEF Written
  <2> QED BY <1>2, <1>4, <2>1
<1>5. CASE Reread
  <2>1. HistoryInv' BY <1>5 DEF Reread, ReadBack, bookDisk
  <2> QED BY <1>5, <2>1 DEF Reread
<1> QED BY <1>3, <1>4, <1>5, HistoryStep

\* The empty history.
LEMMA HistoryInvInit == Init => HistoryInv
<1> SUFFICES ASSUME Init PROVE HistoryInv
  OBVIOUS
<1>1. /\ scans = <<>> /\ dScans = <<>> /\ limit \in 1..MaxLimit /\ dLimit \in 1..MaxLimit
      /\ misses = 0 /\ scanned = 0 /\ MaxLimit \in Nat
  BY LimitAssumption DEF Init, BookInit
<1>2. <<>> \in Seq(Scans) /\ Len(<<>>) = 0 /\ DOMAIN <<>> = {} OBVIOUS
<1> QED BY <1>1, <1>2 DEF HistoryInv, NewestFirst

\* HistoryInv is an invariant.
LEMMA HistoryInvHolds == Spec => []HistoryInv
<1>1. HostInv => HostTypes BY DEF HostInv
<1>2. HostTypes /\ HistoryInv /\ [Next]_vars => HistoryInv' BY HistoryInvStep
<1> QED BY <1>1, <1>2, HostInvHolds, HistoryInvInit, PTL DEF Spec

\* The history keeps the newest scans, for every limit and however it is
\* changed.
THEOREM NewestScansStay == Spec => HistoryKeepsNewest
<1>0. HostInv => HostTypes BY DEF HostInv
<1>1. HostTypes /\ HistoryInv /\ [Next]_vars => HistoryInv'
      /\ (scanned' > scanned => \E n \in ToSet(scans') : n.id = scanned')
      /\ \A s \in ToSet(scans) \ ToSet(scans') :
                 \/ Len(scans') = limit' /\ \A n \in ToSet(scans') : n.id > s.id
                 \/ Restart
  BY HistoryInvStep
<1>2. HistoryInv' => NewestFirst(scans') /\ NewestFirst(dScans')
  BY DEF HistoryInv
<1> QED BY <1>0, <1>1, <1>2, HostInvHolds, HistoryInvHolds, PTL DEF Spec, HistoryKeepsNewest

-----------------------------------------------------------------------------
(* The audit log: its lines, and what is loaded of them *)

\* A sequence of numbers in increasing order.
Increasing(s) == \A i, j \in DOMAIN s : i < j => s[i] < s[j]

\* The last n elements of a sequence.
LEMMA LastOfSeq ==
    ASSUME NEW T, NEW s \in Seq(T), NEW n \in Nat \ {0}
    PROVE  /\ LastOf(s, n) \in Seq(T)
           /\ Len(LastOf(s, n)) = IF Len(s) > n THEN n ELSE Len(s)
           /\ \A i \in 1..Len(LastOf(s, n)) :
                 LastOf(s, n)[i] = s[i + (Len(s) - Len(LastOf(s, n)))]
<1>0. Len(s) \in Nat OBVIOUS
<1>1. CASE Len(s) > n
  <2> DEFINE a == Len(s) - n + 1
  <2>1. a \in 1..Len(s) BY <1>0, <1>1
  <2>2. /\ SubSeq(s, a, Len(s)) \in Seq(T)
        /\ Len(SubSeq(s, a, Len(s))) = Len(s) - a + 1
        /\ \A i \in 1..(Len(s) - a + 1) : SubSeq(s, a, Len(s))[i] = s[a + i - 1]
    BY <1>0, <2>1, SubSeqProperties
  <2> QED BY <1>0, <1>1, <2>2 DEF LastOf
<1>2. CASE ~(Len(s) > n) BY <1>0, <1>2 DEF LastOf
<1> QED BY <1>1, <1>2

\* The entries of lines: one for each line that can be parsed.
LEMMA EntriesSeq ==
    ASSUME NEW f \in Seq(Lines)
    PROVE  /\ Entries(f) \in Seq(Nat \ {Torn})
           /\ Len(Entries(f)) = Len(Only(f, Parsable))
           /\ \A k \in 1..Len(Entries(f)) : Entries(f)[k] = Only(f, Parsable)[k].entry
<1> DEFINE ok == Only(f, Parsable)
<1>1. ok \in Seq(Lines) BY OnlyPlaces
<1>2. PICK g : Places(g, ok, f, Len(f), Parsable) BY OnlyPlaces
<1>3. \A k \in 1..Len(ok) : ok[k].entry \in Nat \ {Torn} BY <1>2 DEF Places, Parsable
<1> HIDE DEF ok
<1>4. Entries(f) = [k \in DOMAIN ok |-> ok[k].entry] BY DEF Entries, ok
<1>5. DOMAIN ok = 1..Len(ok) /\ Len(ok) \in Nat BY <1>1
<1>6. Entries(f) \in Seq(Nat \ {Torn}) /\ Len(Entries(f)) = Len(ok)
  BY <1>3, <1>4, <1>5, IsASeq
<1> QED BY <1>4, <1>5, <1>6 DEF ok

\* One line more.
LEMMA EntriesAppend ==
    ASSUME NEW f \in Seq(Lines), NEW l \in Lines
    PROVE  Len(Entries(Append(f, l))) = Len(Entries(f)) + (IF l.entry = Torn THEN 0 ELSE 1)
<1>1. Only(Append(f, l), Parsable) =
        IF l \in Parsable THEN Append(Only(f, Parsable), l) ELSE Only(f, Parsable)
  BY OnlyAppend
<1>2. l \in Parsable <=> l.entry # Torn BY DEF Lines, Parsable
<1>3. Append(f, l) \in Seq(Lines) OBVIOUS
<1>4. Len(Entries(Append(f, l))) = Len(Only(Append(f, l), Parsable)) BY <1>3, EntriesSeq
<1>5. Len(Entries(f)) = Len(Only(f, Parsable)) BY EntriesSeq
<1>6. Only(f, Parsable) \in Seq(Lines) BY OnlyPlaces
<1> QED BY <1>1, <1>2, <1>4, <1>5, <1>6

\* What loadTail can read of f.
Loadable(f) == {i \in DOMAIN f : f[i].entry # Torn /\ \A j \in 1..i : ~f[j].long}

\* The scanner sees the lines before the first long one.
LEMMA ScannedSeq ==
    ASSUME NEW f \in Seq(Lines)
    PROVE  /\ Scanned(f) \in Seq(Lines) /\ Len(Scanned(f)) <= Len(f)
           /\ \A i \in 1..Len(Scanned(f)) : Scanned(f)[i] = f[i]
           /\ \A i \in 1..Len(f) : i <= Len(Scanned(f)) <=> \A j \in 1..i : ~f[j].long
<1> DEFINE stops == {i \in DOMAIN f : f[i].long}
           m == CHOOSE i \in stops : \A j \in stops : i <= j
<1>0. Len(f) \in Nat /\ DOMAIN f = 1..Len(f) OBVIOUS
<1>1. CASE stops = {}
  <2>1. Scanned(f) = f BY <1>1 DEF Scanned
  <2> QED BY <1>0, <1>1, <2>1
<1>2. CASE stops # {}
  <2>1. stops \subseteq Nat BY <1>0
  <2>2. \E i \in stops : \A j \in stops : i <= j BY <1>2, <2>1, LeastNatural
  <2>3. m \in stops /\ \A j \in stops : m <= j BY <2>2
  <2>4. Scanned(f) = SubSeq(f, 1, m - 1) BY <1>2 DEF Scanned
  <2> HIDE DEF m
  <2>5. m \in 1..Len(f) /\ f[m].long /\ m - 1 \in 0..Len(f) BY <1>0, <2>3
  <2>6. /\ SubSeq(f, 1, m - 1) \in Seq(Lines) /\ Len(SubSeq(f, 1, m - 1)) = m - 1
        /\ \A i \in 1..m - 1 : SubSeq(f, 1, m - 1)[i] = f[i]
    BY <1>0, <2>5
  <2>7. ASSUME NEW i \in 1..Len(f) PROVE i <= m - 1 <=> \A j \in 1..i : ~f[j].long
    BY <1>0, <2>3, <2>5
  <2> QED BY <1>0, <2>4, <2>5, <2>6, <2>7
<1> QED BY <1>1, <1>2

Ordered(f) ==
    \A i, j \in DOMAIN f :
       i < j /\ f[i].entry # Torn /\ f[j].entry # Torn => f[i].entry < f[j].entry

\* What is loaded, and in which order.
LEMMA LoadedEntries ==
    ASSUME NEW f \in Seq(Lines)
    PROVE  LET es == Entries(Scanned(f)) IN
           /\ es \in Seq(Nat \ {Torn})
           /\ \A k \in DOMAIN es : \E i \in Loadable(f) : es[k] = f[i].entry
           /\ \A i \in Loadable(f) : \E k \in DOMAIN es : es[k] = f[i].entry
           /\ Ordered(f) => Increasing(es)
<1> DEFINE h == Scanned(f)
           r == Only(h, Parsable)
           es == Entries(h)
<1>1. /\ h \in Seq(Lines) /\ Len(h) <= Len(f)
      /\ \A i \in 1..Len(h) : h[i] = f[i]
      /\ \A i \in 1..Len(f) : i <= Len(h) <=> \A j \in 1..i : ~f[j].long
  BY ScannedSeq
<1> HIDE DEF h
<1>2. /\ es \in Seq(Nat \ {Torn}) /\ Len(es) = Len(r)
      /\ \A k \in 1..Len(es) : es[k] = r[k].entry
  BY <1>1, EntriesSeq
<1>3. PICK g : Places(g, r, h, Len(h), Parsable) BY <1>1, OnlyPlaces
<1> HIDE DEF r, es
<1>4. /\ g \in [1..Len(es) -> 1..Len(h)]
      /\ \A i, j \in 1..Len(es) : i < j => g[i] < g[j]
      /\ \A k \in 1..Len(es) : r[k] = h[g[k]] /\ h[g[k]] \in Parsable
      /\ \A i \in 1..Len(h) : h[i] \in Parsable => \E k \in 1..Len(es) : g[k] = i
  BY <1>2, <1>3 DEF Places
<1>5. Len(f) \in Nat /\ Len(h) \in Nat /\ DOMAIN f = 1..Len(f) /\ DOMAIN es = 1..Len(es)
      /\ Len(es) \in Nat
  BY <1>1, <1>2
<1>6. ASSUME NEW k \in 1..Len(es)
      PROVE  g[k] \in 1..Len(h) /\ g[k] \in Loadable(f) /\ es[k] = f[g[k]].entry
  <2>1. g[k] \in 1..Len(h) /\ g[k] \in 1..Len(f) /\ h[g[k]] = f[g[k]] BY <1>1, <1>4, <1>5
  <2>2. f[g[k]].entry # Torn BY <1>4, <2>1 DEF Parsable
  <2>3. \A j \in 1..g[k] : ~f[j].long BY <1>1, <1>5, <2>1
  <2> QED BY <1>2, <1>4, <1>5, <2>1, <2>2, <2>3 DEF Loadable
<1>7. ASSUME NEW i \in Loadable(f) PROVE \E k \in DOMAIN es : es[k] = f[i].entry
  <2>1. i \in 1..Len(f) /\ f[i].entry # Torn /\ i <= Len(h) BY <1>1, <1>5 DEF Loadable
  <2>2. i \in 1..Len(h) /\ h[i] = f[i] BY <1>1, <1>5, <2>1
  <2>3. h[i] \in Lines BY <1>1, <2>2
  <2>4. h[i] \in Parsable BY <2>1, <2>2, <2>3 DEF Lines, Parsable
  <2>5. PICK k \in 1..Len(es) : g[k] = i BY <1>4, <2>2, <2>4
  <2> QED BY <1>5, <1>6, <2>5
<1>8. ASSUME Ordered(f), NEW i \in DOMAIN es, NEW j \in DOMAIN es, i < j PROVE es[i] < es[j]
  <2>1. g[i] < g[j] BY <1>4, <1>5, <1>8
  <2>2. g[i] \in Loadable(f) /\ g[j] \in Loadable(f) BY <1>5, <1>6
  <2>3. f[g[i]].entry < f[g[j]].entry BY <1>8, <2>1, <2>2 DEF Ordered, Loadable
  <2> QED BY <1>5, <1>6, <2>3
<1>9. Ordered(f) => Increasing(es) BY <1>8 DEF Increasing
<1> QED BY <1>2, <1>5, <1>6, <1>7, <1>9 DEF es, h

-----------------------------------------------------------------------------
(* The file *)

\* The inductive invariant of the log.
AuditInv ==
    /\ AuditTypeOK
    /\ FileInOrder
    /\ LossBudget
    /\ RecentKnown
    /\ TailIsNewest

\* What an append, or a crash in the middle of one, does to the lines: nothing;
\* a line more; or the last line can no longer be read.
FileStep(e) ==
    \/ file' = file
    \/ \E l \in Lines : l.entry \in {Torn, e} /\ file' = Append(file, l)
    \/ /\ file # <<>>
       /\ \E b \in BOOLEAN : /\ file[Len(file)].long => b
                             /\ file' = [file EXCEPT ![Len(file)] = [entry |-> Torn, long |-> b]]

\* Writing is such a step.
LEMMA WriteIsFileStep ==
    ASSUME AuditInv, NEW e \in Nat, NEW l \in Lines, l.entry \in {Torn, e}, Write(l)
    PROVE  FileStep(e)
<1> USE DEF AuditInv, AuditTypeOK
<1>1. CASE ~ragged BY <1>1 DEF Write, FileStep
<1>2. CASE ragged
  <2>1. file # <<>> BY <1>2 DEF FileInOrder
  <2>2. file[Len(file)] \in Lines BY <2>1
  <2>3. (file[Len(file)].long \/ l.long) \in BOOLEAN BY <2>2 DEF Lines
  <2>4. file' = [file EXCEPT ![Len(file)] =
                   [entry |-> Torn, long |-> file[Len(file)].long \/ l.long]]
    BY <1>2 DEF Write
  <2> QED BY <2>1, <2>3, <2>4 DEF FileStep
<1> QED BY <1>1, <1>2

\* Such a step keeps the order, if the entry is new, and lets loadTail read
\* nothing but the new entry that it could not read before.
LEMMA FileStepKeeps ==
    ASSUME AuditInv, FileStep(appended + 1)
    PROVE  /\ file' \in Seq(Lines)
           /\ \A i \in DOMAIN file' : file'[i].entry <= appended + 1
           /\ Ordered(file')
           /\ file # <<>> => file' # <<>>
           /\ \A i \in Loadable(file') :
                 file'[i].entry = appended + 1 \/ (i \in Loadable(file) /\ file'[i] = file[i])
<1> USE DEF AuditInv, AuditTypeOK
<1>0. /\ Len(file) \in Nat /\ DOMAIN file = 1..Len(file) /\ appended \in Nat
      /\ \A i \in 1..Len(file) : file[i] \in Lines /\ file[i].entry \in Nat
                                 /\ file[i].entry <= appended
  <2>1. /\ Len(file) \in Nat /\ DOMAIN file = 1..Len(file) /\ appended \in Nat
        /\ \A i \in 1..Len(file) : file[i] \in Lines
    OBVIOUS
  <2>2. \A l \in Lines : l.entry \in Nat BY DEF Lines
  <2> QED BY <2>1, <2>2 DEF FileInOrder
<1>1. file \in Seq(Lines) /\ Ordered(file) BY DEF FileInOrder, Ordered
<1> HIDE DEF AuditInv, AuditTypeOK
<1>2. CASE file' = file BY <1>0, <1>1, <1>2
<1>3. CASE \E l \in Lines : l.entry \in {Torn, appended + 1} /\ file' = Append(file, l)
  <2>1. PICK l \in Lines : l.entry \in {Torn, appended + 1} /\ file' = Append(file, l) BY <1>3
  <2>2. /\ file' \in Seq(Lines) /\ DOMAIN file' = 1..Len(file) + 1 /\ file' # <<>>
        /\ file'[Len(file) + 1] = l /\ \A i \in 1..Len(file) : file'[i] = file[i]
    BY <1>0, <1>1, <2>1, AppendProperties
  <2>3. \A i \in DOMAIN file' : file'[i].entry <= appended + 1 BY <1>0, <2>1, <2>2 DEF Torn
  <2>4. Ordered(file') BY <1>0, <1>1, <2>1, <2>2 DEF Ordered
  <2>5. ASSUME NEW i \in Loadable(file')
        PROVE  file'[i].entry = appended + 1 \/ (i \in Loadable(file) /\ file'[i] = file[i])
    BY <1>0, <2>1, <2>2 DEF Loadable
  <2> QED BY <2>2, <2>3, <2>4, <2>5
<1>4. CASE /\ file # <<>>
           /\ \E b \in BOOLEAN : /\ file[Len(file)].long => b
                                 /\ file' = [file EXCEPT ![Len(file)] = [entry |-> Torn, long |-> b]]
  <2>1. PICK b \in BOOLEAN : /\ file[Len(file)].long => b
                             /\ file' = [file EXCEPT ![Len(file)] = [entry |-> Torn, long |-> b]]
    BY <1>4
  <2>2. [entry |-> Torn, long |-> b] \in Lines /\ [entry |-> Torn, long |-> b].entry = Torn
    BY DEF Lines, Torn
  <2>3. Len(file) \in 1..Len(file) BY <1>0, <1>4
  <2>4. /\ file' \in Seq(Lines) /\ DOMAIN file' = 1..Len(file) /\ file' # <<>>
        /\ file'[Len(file)].entry = Torn
        /\ \A i \in 1..Len(file) : i # Len(file) => file'[i] = file[i]
    <3>1. file' \in Seq(Lines) /\ Len(file') = Len(file)
      BY <1>1, <2>1, <2>2, <2>3, ExceptSeq
    <3>2. file'[Len(file)] = [entry |-> Torn, long |-> b]
          /\ \A i \in 1..Len(file) : i # Len(file) => file'[i] = file[i]
      BY <1>0, <2>1, <2>3
    <3>3. DOMAIN file' = 1..Len(file) /\ file' # <<>> BY <1>0, <2>3, <3>1
    <3> QED BY <2>2, <3>1, <3>2, <3>3
  <2>5. ASSUME NEW i \in DOMAIN file' PROVE file'[i].entry <= appended + 1
    <3>1. CASE i = Len(file)
      <4>1. file'[i].entry = 0 BY <2>4, <3>1 DEF Torn
      <4> QED BY <1>0, <4>1
    <3>2. CASE i # Len(file)
      <4>1. i \in 1..Len(file) /\ file'[i] = file[i] BY <2>4, <3>2
      <4> QED BY <1>0, <4>1
    <3> QED BY <3>1, <3>2
  <2>6. Ordered(file') BY <1>0, <1>1, <2>4 DEF Ordered
  <2>7. ASSUME NEW i \in Loadable(file') PROVE i \in Loadable(file) /\ file'[i] = file[i]
    <3>1. i \in 1..Len(file) /\ file'[i].entry # Torn /\ \A j \in 1..i : ~file'[j].long
      BY <2>4, <2>7 DEF Loadable
    <3>2. i # Len(file) BY <2>4, <3>1
    <3>3. ASSUME NEW j \in 1..i PROVE file'[j] = file[j]
      <4>0. Len(file) \in Nat BY <1>0
      <4>1. j \in 1..Len(file) /\ j # Len(file) BY <3>1, <3>2, <4>0
      <4> QED BY <2>4, <4>1
    <3>4. i \in 1..i BY <1>0, <3>1
    <3> QED BY <1>0, <3>1, <3>3, <3>4 DEF Loadable
  <2> QED BY <2>4, <2>5, <2>6, <2>7
<1> QED BY <1>2, <1>3, <1>4 DEF FileStep

-----------------------------------------------------------------------------
(* The tail *)

\* An append, whatever becomes of its line.
LEMMA TailAppend ==
    ASSUME AuditInv, FileStep(appended + 1), appended' = appended + 1, opened' = opened,
           recent' = KeepRecent(Append(recent, appended + 1))
    PROVE  /\ recent' \in Seq(Nat) /\ Len(recent') <= RecentCap
           /\ RecentKnown' /\ TailIsNewest'
<1> DEFINE e == appended + 1
           s == Append(recent, e)
           d == Len(s) - Len(recent')
<1>0. /\ recent \in Seq(Nat) /\ Len(recent) \in Nat /\ Len(recent) <= RecentCap
      /\ DOMAIN recent = 1..Len(recent)
      /\ appended \in Nat /\ opened \in 0..appended /\ e \in Nat /\ RecentCap \in Nat \ {0}
  BY CapAssumption DEF AuditInv, AuditTypeOK
<1>1. /\ \A i \in 1..Len(recent) : recent[i] \in Nat /\ recent[i] <= appended
      /\ \A i, j \in 1..Len(recent) : i < j => recent[i] < recent[j]
  <2>1. \A i \in 1..Len(recent) : recent[i] \in Nat BY <1>0
  <2>2. RecentKnown /\ TailIsNewest BY DEF AuditInv
  <2>3. \A i \in 1..Len(recent) : recent[i] <= appended BY <1>0, <2>2 DEF RecentKnown
  <2>4. \A i, j \in 1..Len(recent) : i < j => recent[i] < recent[j]
    BY <1>0, <2>2, Zenon DEF TailIsNewest
  <2> QED BY <2>1, <2>3, <2>4
<1>2. /\ s \in Seq(Nat) /\ Len(s) = Len(recent) + 1 /\ s[Len(recent) + 1] = e
      /\ \A i \in 1..Len(recent) : s[i] = recent[i]
  BY <1>0
<1>3. /\ \A i \in 1..Len(s) : s[i] \in Nat /\ s[i] <= e
      /\ \A i, j \in 1..Len(s) : i < j => s[i] < s[j]
  <2> HIDE DEF s
  <2>1. e > appended BY <1>0
  <2> HIDE DEF e
  <2>2. ASSUME NEW i \in 1..Len(recent) PROVE s[i] \in Nat /\ s[i] < e
    BY <1>0, <1>1, <1>2, <2>1
  <2>3. \A i \in 1..Len(s) : i \in 1..Len(recent) \/ i = Len(recent) + 1 BY <1>0, <1>2
  <2>4. \A i \in 1..Len(s) : s[i] \in Nat /\ s[i] <= e BY <1>0, <1>2, <2>2, <2>3
  <2>5. ASSUME NEW i \in 1..Len(s), NEW j \in 1..Len(s), i < j PROVE s[i] < s[j]
    <3>1. i \in 1..Len(recent) BY <1>0, <1>2, <2>5
    <3>2. CASE j = Len(recent) + 1 BY <1>2, <2>2, <3>1, <3>2
    <3>3. CASE j \in 1..Len(recent) BY <1>1, <1>2, <2>5, <3>1, <3>3
    <3> QED BY <2>3, <3>2, <3>3
  <2> QED BY <2>4, <2>5
<1> HIDE DEF s
<1>4. /\ recent' \in Seq(Nat)
      /\ Len(recent') = IF Len(s) > RecentCap THEN RecentCap ELSE Len(s)
      /\ \A i \in 1..Len(recent') : recent'[i] = s[i + d]
  BY <1>0, <1>2, LastOfSeq DEF KeepRecent, s
<1>5. /\ Len(recent') \in Nat /\ DOMAIN recent' = 1..Len(recent') /\ Len(recent') > 0
      /\ d \in {0, 1} /\ (d = 1 => Len(recent') = RecentCap)
      /\ \A i \in 1..Len(recent') : i + d \in 1..Len(s)
  BY <1>0, <1>2, <1>4
<1> HIDE DEF d, e
<1>6. RecentKnown'
  BY <1>3, <1>4, <1>5 DEF RecentKnown, e
<1>7. ASSUME NEW i \in DOMAIN recent', NEW j \in DOMAIN recent', i < j
      PROVE  recent'[i] < recent'[j]
  <2>1. i \in 1..Len(recent') /\ j \in 1..Len(recent') BY <1>5
  <2>2. i + d \in 1..Len(s) /\ j + d \in 1..Len(s) /\ i + d < j + d BY <1>5, <1>7, <2>1
  <2>3. recent'[i] = s[i + d] /\ recent'[j] = s[j + d] BY <1>4, <2>1
  <2> QED BY <1>3, <2>2, <2>3
<1>8. ASSUME NEW k \in 1..Len(s), k > d PROVE s[k] \in Shown'
  <2>1. k - d \in 1..Len(recent') /\ (k - d) + d = k BY <1>2, <1>5, <1>8, <1>0 DEF d
  <2>2. recent'[k - d] = s[k] BY <1>4, <2>1
  <2> QED BY <1>5, <2>1, <2>2 DEF Shown
<1>9. e \in Shown'
  BY <1>0, <1>2, <1>4, <1>5, <1>8
<1>10. ASSUME NEW x \in Shown' PROVE \E k \in 1..Len(s) : k > d /\ s[k] = x
  <2>1. PICK i \in 1..Len(recent') : x = recent'[i] BY <1>5, <1>10 DEF Shown
  <2>2. i + d \in 1..Len(s) /\ s[i + d] = x BY <1>4, <1>5, <2>1, Zenon
  <2>3. i + d > d BY <1>5, <2>1
  <2> QED BY <2>2, <2>3, Zenon
<1>11. ASSUME NEW x \in opened' + 1 .. appended', x + RecentCap > appended' PROVE x \in Shown'
  <2>1. CASE x = e BY <1>9, <2>1
  <2>2. CASE x # e
    <3>1. x \in opened + 1 .. appended /\ x + RecentCap > appended
      BY <1>0, <1>11, <2>2 DEF e
    <3>2. x \in Shown BY <3>1 DEF AuditInv, TailIsNewest
    <3>3. PICK k \in 1..Len(recent) : x = recent[k] BY <1>0, <3>2 DEF Shown
    <3>4. CASE k > d BY <1>0, <1>2, <1>8, <3>3, <3>4
    <3>5. CASE ~(k > d)
      <4>0. k = 1 /\ d = 1 BY <1>0, <1>5, <3>3, <3>5
      <4>1. Len(recent') = RecentCap BY <1>5, <4>0
      <4>2. Len(recent) = RecentCap
        <5>1. Len(s) - Len(recent') = 1 BY <4>0 DEF d
        <5>2. Len(s) = Len(recent) + 1 /\ Len(recent) \in Nat /\ RecentCap \in Nat BY <1>0, <1>2
        <5> QED BY <4>1, <5>1, <5>2
      <4>3. Len(recent) \in 1..Len(recent) /\ 1 \in 1..Len(recent) BY <1>0, <4>2
      <4>4. recent[1] + (Len(recent) - 1) <= recent[Len(recent)]
        <5>1. \A i, j \in 1..Len(recent) : i <= j => recent[i] + (j - i) <= recent[j]
          BY <1>0, <1>1, IncreasingGap
        <5> QED BY <1>0, <4>3, <5>1
      <4>5. recent[Len(recent)] <= appended /\ recent[1] \in Nat /\ recent[Len(recent)] \in Nat
        BY <1>1, <4>3
      <4>6. x + RecentCap <= appended + 1 BY <1>0, <3>3, <4>0, <4>2, <4>4, <4>5
      <4> QED BY <1>0, <1>11, <4>6
    <3> QED BY <3>4, <3>5
  <2> QED BY <2>1, <2>2
<1> DEFINE es == Entries(Scanned(file))
           fs == Entries(Scanned(file'))
<1>12. ASSUME NEW k \in DOMAIN fs
       PROVE  fs[k] \in Shown' \/ (Len(recent') = RecentCap /\ \A x \in Shown' : fs[k] < x)
  <2>1. file \in Seq(Lines) /\ file' \in Seq(Lines)
    BY FileStepKeeps DEF AuditInv, AuditTypeOK
  <2>2. PICK i \in Loadable(file') : fs[k] = file'[i].entry BY <1>12, <2>1, LoadedEntries
  <2>3. CASE file'[i].entry = appended + 1 BY <1>9, <2>2, <2>3 DEF e
  <2>4. CASE i \in Loadable(file) /\ file'[i] = file[i]
    <3>1. PICK n \in DOMAIN es : es[n] = fs[k] BY <2>1, <2>2, <2>4, LoadedEntries
    <3>2. es[n] \in Shown \/ (Len(recent) = RecentCap /\ \A x \in Shown : es[n] < x)
      BY <3>1 DEF AuditInv, TailIsNewest
    <3>3. es[n] \in Nat /\ es[n] < e
      <4>1. file[i].entry <= appended BY <2>4 DEF AuditInv, FileInOrder, Loadable
      <4>2. es[n] = file[i].entry BY <2>2, <2>4, <3>1
      <4>3. es \in Seq(Nat \ {Torn}) BY <2>1, LoadedEntries
      <4>4. es[n] \in Nat BY <3>1, <4>3
      <4> QED BY <1>0, <4>1, <4>2, <4>4 DEF e
    <3>4. CASE es[n] \in Shown
      <4>1. PICK m \in 1..Len(recent) : es[n] = recent[m] BY <1>0, <3>4 DEF Shown
      <4>2. CASE m > d BY <1>0, <1>2, <1>8, <3>1, <4>1, <4>2
      <4>3. CASE ~(m > d)
        <5>1. m = 1 /\ d = 1 /\ m \in 1..Len(s) /\ es[n] = s[m] BY <1>0, <1>2, <1>5, <4>1, <4>3
        <5>2. \A x \in Shown' : es[n] < x BY <1>3, <1>5, <1>10, <5>1
        <5> QED BY <1>5, <3>1, <5>1, <5>2
      <4> QED BY <4>2, <4>3
    <3>5. CASE Len(recent) = RecentCap /\ \A x \in Shown : es[n] < x
      <4>1. d = 1 BY <1>0, <1>2, <1>4, <3>5 DEF d
      <4>2. ASSUME NEW x \in Shown' PROVE es[n] < x
        <5>1. PICK m \in 1..Len(s) : s[m] = x BY <1>10, <4>2
        <5>2. CASE m = Len(recent) + 1 BY <1>2, <3>3, <5>1, <5>2
        <5>3. CASE m # Len(recent) + 1
          <6>1. m \in 1..Len(recent) /\ x = recent[m] BY <1>0, <1>2, <5>1, <5>3
          <6>2. x \in Shown BY <1>0, <6>1 DEF Shown
          <6> QED BY <3>5, <6>2
        <5> QED BY <5>2, <5>3
      <4> QED BY <1>5, <3>1, <4>1, <4>2
    <3> QED BY <3>2, <3>4, <3>5
  <2> QED BY <2>2, <2>3, <2>4, FileStepKeeps
<1>13. TailIsNewest' BY <1>7, <1>11, <1>12 DEF TailIsNewest
<1>14. Len(recent') <= RecentCap BY <1>0, <1>2, <1>4
<1> QED BY <1>4, <1>6, <1>13, <1>14

\* A start of the hub, which reads the tail from the file.
LEMMA TailReload ==
    ASSUME RecentCap \in Nat \ {0}, NEW f \in Seq(Lines), NEW a \in Nat, Ordered(f),
           \A i \in DOMAIN f : f[i].entry <= a,
           file' = f, appended' = a, opened' = a, recent' = loadTail(f)
    PROVE  /\ recent' \in Seq(Nat) /\ Len(recent') <= RecentCap
           /\ RecentKnown' /\ TailIsNewest'
<1> DEFINE es == Entries(Scanned(f))
<1>1. /\ es \in Seq(Nat \ {Torn}) /\ Increasing(es)
      /\ \A k \in DOMAIN es : \E i \in Loadable(f) : es[k] = f[i].entry
  BY LoadedEntries
<1> HIDE DEF es
<1>2. /\ recent' \in Seq(Nat \ {Torn})
      /\ Len(recent') = IF Len(es) > RecentCap THEN RecentCap ELSE Len(es)
      /\ \A i \in 1..Len(recent') : recent'[i] = es[i + (Len(es) - Len(recent'))]
  BY <1>1, LastOfSeq DEF loadTail, es
<1>a. /\ Len(es) \in Nat /\ DOMAIN es = 1..Len(es)
      /\ Len(recent') \in Nat /\ DOMAIN recent' = 1..Len(recent')
  BY <1>1, <1>2
<1>b. /\ Len(es) - Len(recent') \in Nat
      /\ (Len(es) - Len(recent') > 0 => Len(recent') = RecentCap)
      /\ Len(recent') <= RecentCap
  BY <1>2, <1>a
<1>d. PICK d \in Nat : d = Len(es) - Len(recent') BY <1>b
<1>3. /\ Len(es) \in Nat /\ Len(recent') \in Nat /\ Len(es) = Len(recent') + d
      /\ (d > 0 => Len(recent') = RecentCap)
      /\ \A i \in 1..Len(recent') : i + d \in 1..Len(es)
  <2>1. Len(es) = Len(recent') + d BY <1>a, <1>d
  <2>2. d > 0 => Len(recent') = RecentCap BY <1>b, <1>d
  <2>3. \A i \in 1..Len(recent') : i + d \in 1..Len(es) BY <1>a, <2>1
  <2> QED BY <1>a, <2>1, <2>2, <2>3
<1>c. \A i \in 1..Len(recent') : recent'[i] = es[i + d] BY <1>2, <1>d
<1>4. recent' \in Seq(Nat) /\ Len(recent') <= RecentCap
  <2>1. recent' \in Seq(Nat) BY <1>2, SeqMonotonic
  <2> QED BY <1>b, <2>1
<1>5. ASSUME NEW k \in 1..Len(es) PROVE es[k] \in Nat /\ es[k] <= a
  <2>1. PICK i \in Loadable(f) : es[k] = f[i].entry BY <1>1, <1>a
  <2>2. i \in DOMAIN f BY DEF Loadable
  <2>3. es[k] \in Nat
    <3>1. es \in Seq(Nat \ {Torn}) BY <1>1
    <3> QED BY <3>1
  <2> QED BY <2>1, <2>2, <2>3
<1>6. RecentKnown'
  <2> SUFFICES ASSUME NEW i \in 1..Len(recent') PROVE recent'[i] <= a
    BY <1>a DEF RecentKnown
  <2>1. i + d \in 1..Len(es) BY <1>3
  <2> QED BY <1>c, <1>5, <2>1
<1>7. ASSUME NEW i \in DOMAIN recent', NEW j \in DOMAIN recent', i < j
      PROVE  recent'[i] < recent'[j]
  <2>1. i \in 1..Len(recent') /\ j \in 1..Len(recent') BY <1>a
  <2>2. i + d \in 1..Len(es) /\ j + d \in 1..Len(es) /\ i + d < j + d BY <1>3, <1>7, <2>1
  <2>3. recent'[i] = es[i + d] /\ recent'[j] = es[j + d] BY <1>c, <2>1
  <2> QED BY <1>1, <1>a, <2>2, <2>3 DEF Increasing
<1>8. \A x \in opened' + 1 .. appended' : x + RecentCap > appended' => x \in Shown'
  OBVIOUS
<1>9. ASSUME NEW k \in DOMAIN es
      PROVE  es[k] \in Shown' \/ (Len(recent') = RecentCap /\ \A x \in Shown' : es[k] < x)
  <2>0. k \in 1..Len(es) BY <1>a
  <2>1. CASE k > d
    <3>1. k - d \in 1..Len(recent') /\ (k - d) + d = k BY <1>3, <2>0, <2>1
    <3>2. recent'[k - d] = es[k] BY <1>c, <3>1
    <3> QED BY <1>a, <3>1, <3>2 DEF Shown
  <2>2. CASE ~(k > d)
    <3>1. d > 0 BY <1>3, <2>0, <2>2
    <3>2. ASSUME NEW x \in Shown' PROVE es[k] < x
      <4>1. PICK i \in 1..Len(recent') : x = recent'[i] BY <1>a, <3>2 DEF Shown
      <4>2. i + d \in 1..Len(es) /\ k < i + d BY <1>3, <2>0, <2>2, <4>1
      <4>3. es[k] < es[i + d] BY <1>1, <1>a, <2>0, <4>2 DEF Increasing
      <4> QED BY <1>c, <4>1, <4>3
    <3> QED BY <1>3, <3>1, <3>2
  <2> QED BY <2>1, <2>2
<1>10. TailIsNewest' BY <1>7, <1>8, <1>9 DEF TailIsNewest, es
<1> QED BY <1>4, <1>6, <1>10

-----------------------------------------------------------------------------
(* The budget *)

\* A line that is written after all, alone or run into the one before it,
\* uses up what was set aside for it; one that is cut short takes two more.
LEMMA LossStep ==
    ASSUME AuditInv, NEW l \in Lines, l.entry \in {Torn, appended + 1}, Write(l),
           appended' = appended + 1, faults' = faults, ragged' \in BOOLEAN,
           \/ ~ragged' /\ l.entry # Torn /\ tears' = tears
           \/ ragged' /\ tears' = tears + 1
    PROVE  LossBudget'
<1> SUFFICES ASSUME faults = 0
             PROVE  appended' - Len(Readable') + Risk' <= 2 * tears'
  BY DEF LossBudget
<1>0. file \in Seq(Lines) /\ appended \in Nat /\ tears \in Nat /\ ragged \in BOOLEAN
  BY DEF AuditInv, AuditTypeOK
<1>1. appended - Len(Readable) + Risk <= 2 * tears BY DEF AuditInv, LossBudget
<1>2. Len(Readable) \in Nat BY <1>0, EntriesSeq DEF Readable
<1>3. CASE ~ragged
  <2>1. file' = Append(file, l) BY <1>3 DEF Write
  <2>2. Len(Readable') = Len(Readable) + (IF l.entry = Torn THEN 0 ELSE 1)
    BY <1>0, <2>1, EntriesAppend DEF Readable
  <2>3. Len(file') = Len(file) + 1 /\ file'[Len(file')] = l BY <1>0, <2>1
  <2>4. Risk = 0 BY <1>3 DEF Risk
  <2>5. Risk' = IF ~ragged' THEN 0 ELSE IF l.entry = Torn THEN 1 ELSE 2
    BY <2>3 DEF Risk
  <2> QED BY <1>0, <1>1, <1>2, <2>2, <2>4, <2>5
<1>4. CASE ragged
  <2>1. file # <<>> BY <1>4 DEF AuditInv, FileInOrder
  <2>2. PICK g \in Seq(Lines), x \in Lines : file = Append(g, x)
    BY <1>0, <2>1, SequenceEmptyOrAppend
  <2>3. Len(file) = Len(g) + 1 /\ file[Len(file)] = x /\ Len(g) \in Nat BY <2>2
  <2> DEFINE t == [entry |-> Torn, long |-> x.long \/ l.long]
  <2>4. t \in Lines /\ t.entry = Torn BY DEF Lines, Torn
  <2>5. file' = [file EXCEPT ![Len(file)] = t] BY <1>4, <2>3 DEF Write
  <2> HIDE DEF t
  <2>6. file' = Append(g, t)
    <3>1. Append(g, t) \in Seq(Lines) /\ file' \in Seq(Lines)
          /\ Len(Append(g, t)) = Len(file) /\ Len(file') = Len(file)
      BY <1>0, <2>3, <2>4, <2>5
    <3>2. ASSUME NEW i \in 1..Len(file) PROVE file'[i] = Append(g, t)[i]
      <4>1. CASE i = Len(file) BY <1>0, <2>3, <2>5, <4>1
      <4>2. CASE i # Len(file)
        <5>1. i \in 1..Len(g) BY <2>3, <4>2
        <5>2. file'[i] = file[i] BY <1>0, <2>5, <4>2
        <5>3. Append(g, t)[i] = g[i] /\ file[i] = g[i] BY <2>2, <5>1
        <5> QED BY <5>2, <5>3
      <4> QED BY <4>1, <4>2
    <3> QED BY <3>1, <3>2, SeqEqual
  <2>7. Len(Readable) = Len(Entries(g)) + (IF x.entry = Torn THEN 0 ELSE 1)
    BY <2>2, EntriesAppend DEF Readable
  <2>8. Len(Readable') = Len(Entries(g)) BY <2>4, <2>6, EntriesAppend, EntriesSeq DEF Readable
  <2>9. Risk = IF x.entry = Torn THEN 1 ELSE 2 BY <1>4, <2>3 DEF Risk
  <2>10. Risk' = IF ~ragged' THEN 0 ELSE 1
    <3>1. Len(file') = Len(g) + 1 /\ file'[Len(file')] = t BY <2>3, <2>4, <2>6
    <3> QED BY <2>4, <3>1 DEF Risk
  <2>11. Len(Entries(g)) \in Nat BY EntriesSeq
  <2> QED BY <1>0, <1>1, <2>7, <2>8, <2>9, <2>10, <2>11
<1> QED BY <1>0, <1>3, <1>4

-----------------------------------------------------------------------------
(* Steps *)

\* A write is one of a line with the new entry or of one that does not parse,
\* and leaves a file that is not empty.
LEMMA WriteOfLine ==
    ASSUME AuditInv, NEW e \in Nat, NEW long \in BOOLEAN, NEW l,
           l = [entry |-> e, long |-> long] \/ \E b \in {FALSE, long} : l = [entry |-> Torn, long |-> b],
           Write(l)
    PROVE  l \in Lines /\ l.entry \in {Torn, e} /\ FileStep(e) /\ file' # <<>>
<1>1. l \in Lines /\ l.entry \in {Torn, e}
  <2>1. CASE l = [entry |-> e, long |-> long] BY <2>1 DEF Lines
  <2>2. CASE \E b \in {FALSE, long} : l = [entry |-> Torn, long |-> b]
    <3>1. PICK b \in BOOLEAN : l = [entry |-> Torn, long |-> b] BY <2>2
    <3> QED BY <3>1 DEF Lines, Torn
  <2> QED BY <2>1, <2>2
<1>2. FileStep(e) BY <1>1, WriteIsFileStep
<1>3. file' # <<>>
  <2>0. file \in Seq(Lines) /\ (ragged => file # <<>>) BY DEF AuditInv, AuditTypeOK, FileInOrder
  <2>1. CASE ~ragged BY <1>1, <2>0, <2>1, AppendProperties DEF Write
  <2>2. CASE ragged
    <3>1. DOMAIN file' = DOMAIN file BY <2>2 DEF Write
    <3>2. DOMAIN file # {} BY <2>0, <2>2, EmptySeq
    <3> QED BY <3>1, <3>2, EmptySeq
  <2> QED BY <2>1, <2>2
<1> QED BY <1>1, <1>2, <1>3

\* A write that stops before the newline.
LEMMA WritePartOfLine ==
    ASSUME AuditInv, NEW e \in Nat, NEW long \in BOOLEAN, WritePart(e, long)
    PROVE  /\ ragged' = TRUE /\ FileStep(e) /\ file' # <<>>
           /\ \E l \in Lines : l.entry \in {Torn, e} /\ Write(l)
BY WriteOfLine DEF WritePart

\* Append keeps the invariant.
LEMMA AuditAppendKeeps == ASSUME AuditInv, AuditAppend PROVE AuditInv'
<1>0. /\ appended \in Nat /\ faults \in Nat /\ longs \in Nat /\ tears \in Nat
      /\ ragged \in BOOLEAN /\ stuck \in BOOLEAN /\ opened \in 0..appended
      /\ (stuck => faults > 0) /\ (ragged => file # <<>>)
  BY DEF AuditInv, AuditTypeOK, FileInOrder
<1>1. appended' = appended + 1 /\ appended + 1 \in Nat /\ opened' = opened /\ tears' = tears
      /\ recent' = KeepRecent(Append(recent, appended + 1))
  BY <1>0 DEF AuditAppend
<1>2. PICK long \in BOOLEAN : /\ WriteLine(appended + 1, long)
                              /\ longs' = IF long THEN longs + 1 ELSE longs
  BY <1>1 DEF AuditAppend
<1> DEFINE Done == /\ FileStep(appended + 1) /\ ragged' \in BOOLEAN /\ stuck' \in BOOLEAN
                   /\ faults' \in Nat /\ (ragged' => file' # <<>>) /\ (stuck' => faults' > 0)
                   /\ LossBudget'
<1>3. ASSUME stuck, UNCHANGED <<file, ragged, stuck, faults>> PROVE Done
  <2>1. FileStep(appended + 1) BY <1>3 DEF FileStep
  <2>2. LossBudget' BY <1>0, <1>3 DEF LossBudget
  <2> QED BY <1>0, <1>3, <2>1, <2>2
<1>4. ASSUME ~stuck, Write([entry |-> appended + 1, long |-> long]),
             ragged' = FALSE, UNCHANGED <<stuck, faults>>
      PROVE  Done
  <2> DEFINE l == [entry |-> appended + 1, long |-> long]
  <2>1. l \in Lines /\ l.entry \in {Torn, appended + 1} /\ FileStep(appended + 1) /\ Write(l)
    BY <1>1, <1>4, WriteOfLine
  <2>2. l.entry # Torn BY <1>0 DEF Torn
  <2> HIDE DEF l
  <2>3. LossBudget' BY <1>1, <1>4, <2>1, <2>2, LossStep
  <2> QED BY <1>0, <1>4, <2>1, <2>3
<1>5. ASSUME ~stuck, stuck' = TRUE, faults' = faults + 1,
             WritePart(appended + 1, long) \/ UNCHANGED <<file, ragged>>
      PROVE  Done
  <2>1. faults' > 0 /\ faults' \in Nat BY <1>0, <1>5
  <2>2. LossBudget' BY <2>1 DEF LossBudget
  <2>3. FileStep(appended + 1) /\ ragged' \in BOOLEAN /\ (ragged' => file' # <<>>)
    <3>1. CASE WritePart(appended + 1, long) BY <1>1, <3>1, WritePartOfLine
    <3>2. CASE UNCHANGED <<file, ragged>> BY <1>0, <3>2 DEF FileStep
    <3> QED BY <1>5, <3>1, <3>2
  <2> QED BY <1>5, <2>1, <2>2, <2>3
<1>6. Done BY <1>2, <1>3, <1>4, <1>5 DEF WriteLine
<1>7. /\ file' \in Seq(Lines) /\ Ordered(file')
      /\ \A i \in DOMAIN file' : file'[i].entry <= appended'
  BY <1>1, <1>6, FileStepKeeps
<1>8. FileInOrder' BY <1>6, <1>7 DEF FileInOrder, Ordered
<1>9. /\ recent' \in Seq(Nat) /\ Len(recent') <= RecentCap
      /\ RecentKnown' /\ TailIsNewest'
  BY <1>1, <1>6, TailAppend
<1>10. AuditTypeOK'
  <2>1. longs' \in Nat BY <1>0, <1>2
  <2>2. opened' \in 0..appended' BY <1>0, <1>1
  <2> QED BY <1>0, <1>1, <1>6, <1>7, <1>9, <2>1, <2>2 DEF AuditTypeOK
<1> QED BY <1>6, <1>8, <1>9, <1>10 DEF AuditInv

\* Going down and coming back keeps it.
LEMMA AuditReopenKeeps == ASSUME AuditInv, AuditReopen PROVE AuditInv'
<1>0. /\ appended \in Nat /\ faults \in Nat /\ longs \in Nat /\ tears \in Nat
      /\ ragged \in BOOLEAN /\ stuck \in BOOLEAN /\ file \in Seq(Lines)
      /\ (ragged => file # <<>>) /\ RecentCap \in Nat \ {0}
  BY CapAssumption DEF AuditInv, AuditTypeOK, FileInOrder
<1>1. recent' = loadTail(file') /\ stuck' = FALSE /\ opened' = appended'
  BY DEF AuditReopen
<1>2. /\ file' \in Seq(Lines) /\ Ordered(file') /\ appended' \in Nat
      /\ \A i \in DOMAIN file' : file'[i].entry <= appended'
      /\ ragged' \in BOOLEAN /\ (ragged' => file' # <<>>)
      /\ faults' \in Nat /\ longs' \in Nat /\ tears' \in Nat /\ LossBudget'
  <2>1. CASE DownBetween
    <3>1. UNCHANGED <<file, ragged, appended, tears, faults, longs>> BY <2>1 DEF DownBetween
    <3>2. LossBudget' BY <3>1 DEF AuditInv, LossBudget, Risk, Readable
    <3>3. Ordered(file) /\ \A i \in DOMAIN file : file[i].entry <= appended
      BY DEF AuditInv, FileInOrder, Ordered
    <3> QED BY <1>0, <3>1, <3>2, <3>3
  <2>2. CASE DownInLine
    <3>1. appended' = appended + 1 /\ appended + 1 \in Nat /\ tears' = tears + 1 /\ faults' = faults
      BY <1>0, <2>2 DEF DownInLine
    <3>2. PICK long \in BOOLEAN : /\ WritePart(appended + 1, long)
                                  /\ longs' = IF long THEN longs + 1 ELSE longs
      BY <2>2, <3>1 DEF DownInLine
    <3>3. /\ ragged' = TRUE /\ FileStep(appended + 1) /\ file' # <<>>
          /\ \E l \in Lines : l.entry \in {Torn, appended + 1} /\ Write(l)
      BY <3>1, <3>2, WritePartOfLine
    <3>4. LossBudget' BY <3>1, <3>3, LossStep
    <3>5. /\ file' \in Seq(Lines) /\ Ordered(file')
          /\ \A i \in DOMAIN file' : file'[i].entry <= appended'
      BY <3>1, <3>3, FileStepKeeps
    <3>6. longs' \in Nat BY <1>0, <3>2
    <3> QED BY <1>0, <3>1, <3>3, <3>4, <3>5, <3>6
  <2> QED BY <2>1, <2>2 DEF AuditReopen
<1>3. FileInOrder' BY <1>1, <1>2 DEF FileInOrder, Ordered
<1>4. /\ recent' \in Seq(Nat) /\ Len(recent') <= RecentCap
      /\ RecentKnown' /\ TailIsNewest'
  BY <1>0, <1>1, <1>2, TailReload
<1>5. AuditTypeOK'
  <2>1. opened' \in 0..appended' BY <1>1, <1>2
  <2> QED BY <1>1, <1>2, <1>4, <2>1 DEF AuditTypeOK
<1> QED BY <1>2, <1>3, <1>4, <1>5 DEF AuditInv

\* Every handler leaves the log alone or appends one entry to it, and a
\* restart opens it again.
LEMMA AuditStep == [Next]_vars => AuditAppend \/ AuditReopen \/ UNCHANGED auditVars
BY DEF Next, HostStep, AgentStep, SaveRequest, DeleteRequest, SettingsRequest, WakeSaved,
       WakeVia, ScanRequest, ScanFails, ScanAnswered, RecordScan, WakeFails, WakeAnswered,
       Finish, OtherWrite, Restart, vars

\* AuditInv is an invariant.
LEMMA AuditInvHolds == Spec => []AuditInv
<1>1. Init => AuditInv
  <2> SUFFICES ASSUME Init PROVE AuditInv
    OBVIOUS
  <2>0. /\ recent = <<>> /\ file = <<>> /\ ragged = FALSE /\ stuck = FALSE
        /\ appended = 0 /\ opened = 0 /\ tears = 0 /\ faults = 0 /\ longs = 0
    BY DEF Init, AuditInit
  <2>1. AuditTypeOK
    <3>1. <<>> \in Seq(Nat) /\ <<>> \in Seq(Lines) /\ Len(<<>>) = 0 OBVIOUS
    <3>2. recent \in Seq(Nat) /\ Len(recent) <= RecentCap /\ file \in Seq(Lines)
      BY <2>0, <3>1, CapAssumption
    <3>3. 0 \in Nat /\ 0 \in 0..0 OBVIOUS
    <3> QED BY <2>0, <3>2, <3>3 DEF AuditTypeOK
  <2>2. FileInOrder /\ RecentKnown BY <2>0 DEF FileInOrder, RecentKnown
  <2>3. <<>> \in Seq(Lines) /\ Len(<<>>) = 0 /\ DOMAIN <<>> = {} OBVIOUS
  <2>4. LossBudget
    <3>1. Readable = <<>> BY <2>0, OnlyEmpty, <2>3 DEF Readable, Entries
    <3> QED BY <2>0, <2>3, <3>1 DEF LossBudget, Risk
  <2>5. TailIsNewest
    <3>1. Scanned(<<>>) = <<>> BY DEF Scanned
    <3>2. DOMAIN Entries(<<>>) = {} BY <2>3, OnlyEmpty DEF Entries
    <3> QED BY <2>0, <2>3, <3>1, <3>2 DEF TailIsNewest
  <2> QED BY <2>1, <2>2, <2>4, <2>5 DEF AuditInv
<1>2. AuditInv /\ UNCHANGED auditVars => AuditInv'
  BY DEF AuditInv, auditVars, AuditTypeOK, FileInOrder, LossBudget, Risk, Readable,
         RecentKnown, TailIsNewest, Shown
<1>3. AuditInv /\ [Next]_vars => AuditInv'
  BY <1>2, AuditStep, AuditAppendKeeps, AuditReopenKeeps
<1> QED BY <1>1, <1>3, PTL DEF Spec

\* A hub that goes down costs the log the entry being written and the next one
\* at most, for any number of entries and crashes.
THEOREM CrashesCostTwoEntries == Spec => []CrashLossBounded
<1>1. AuditInv => CrashLossBounded
  <2> SUFFICES ASSUME AuditInv, faults = 0 PROVE appended - Len(Readable) <= 2 * tears
    BY DEF CrashLossBounded
  <2>1. Risk \in {0, 1, 2} BY DEF Risk
  <2>2. appended - Len(Readable) + Risk <= 2 * tears BY DEF AuditInv, LossBudget
  <2>3. appended \in Nat /\ tears \in Nat /\ Len(Readable) \in Nat
    BY EntriesSeq DEF AuditInv, AuditTypeOK, Readable
  <2> QED BY <2>1, <2>2, <2>3
<1> QED BY <1>1, AuditInvHolds, PTL

\* The tail shows the newest entries, however often the hub was restarted.
THEOREM TailShowsTheNewest == Spec => []TailIsNewest
<1>1. AuditInv => TailIsNewest BY DEF AuditInv
<1> QED BY <1>1, AuditInvHolds, PTL

-----------------------------------------------------------------------------
(* All of it *)

\* Hosts, history, log and requests stay what their types say.
THEOREM HubDataTyped == Spec => []TypeOK
<1>1. HostInv /\ HistoryInv /\ AuditInv => TypeOK
  BY DEF HostInv, HostTypes, HistoryInv, AuditInv, TypeOK, BookTypeOK
<1> QED BY <1>1, HostInvHolds, HistoryInvHolds, AuditInvHolds, PTL

=============================================================================
