------------------------------- MODULE HubData -------------------------------
(***************************************************************************)
(* The operator's handlers for hosts, scans, wakes and settings            *)
(* (api_operator.go) over HostBook, each with its audit entry.  A scan or  *)
(* a wake is sent to an agent and its answer handled much later, with any  *)
(* other request in between; the hub may go down between any two steps.    *)
(***************************************************************************)
EXTENDS HostBook, AuditLog, SequencesExt

CONSTANTS
    Reqs,        \* requests being served at a time
    AgentOrder,  \* Agents() as a sequence: agents sorted by name
    Subnet,      \* the addresses the interfaces of each agent cover
    MaxWork,     \* bound: saves, wakes, scans and audit entries together
    MaxMisses,   \* bound: writes of the state file that fail
    MaxUpsets    \* bound: failed writes, torn lines and long lines in the audit log

ASSUME OrderAssumption  == AgentOrder \in Seq(Agents) /\ ToSet(AgentOrder) = Agents
ASSUME SubnetAssumption == Subnet \in [Agents -> SUBSET IPs]

VARIABLES
    req,    \* what each request is at
    edits, wakes, scanned,  \* how many of each so far; they number them
    saved,  \* history: the last confirmed save of a host not deleted since
    gone    \* history: hosts whose removal was confirmed, not saved since

vars == <<bookVars, auditVars, req, edits, wakes, scanned, saved, gone>>
counters == <<edits, wakes, scanned>>
told == <<saved, gone>>

Idle == [op |-> "idle"]

Requests ==
    {Idle, [op |-> "audit"]} \cup [op : {"scan", "observed"}, agent : Agents]
                             \cup [op : {"wake"}, mac : Macs]

TypeOK ==
    /\ BookTypeOK
    /\ AuditTypeOK
    /\ req \in [Reqs -> Requests]
    /\ edits \in Nat /\ wakes \in Nat /\ scanned \in Nat
    /\ saved \in [Macs -> Nat] /\ gone \subseteq Macs

Init ==
    /\ BookInit
    /\ AuditInit
    /\ req = [q \in Reqs |-> Idle]
    /\ edits = 0 /\ wakes = 0 /\ scanned = 0
    /\ saved = [m \in Macs |-> 0] /\ gone = {}

Goto(q, r) == req' = [req EXCEPT ![q] = r]
Owing == [op |-> "audit"]

\* Every handler that got to its end leaves its audit entry and answers.
Finish(q) ==
    /\ req[q] = Owing
    /\ AuditAppend
    /\ Goto(q, Idle)
    /\ UNCHANGED <<bookVars, counters, told>>

\* A handler whose write fails answers with an error and no entry.
AnswerIf(q, ok) == Goto(q, IF ok THEN Owing ELSE Idle)

-----------------------------------------------------------------------------
(* Hosts and settings *)

\* handleSaveHost.  The form may have been filled in from a record, or from a
\* scan result, long ago: its address and agent are any.
SaveRequest(q, m) ==
    /\ req[q] = Idle
    /\ edits' = edits + 1
    /\ \E ip \in IPs \cup {None}, a \in Agents \cup {None}, ok \in BOOLEAN :
         /\ SaveHost(m, ip, a, edits', ok)
         /\ saved' = IF ok THEN [saved EXCEPT ![m] = edits'] ELSE saved
         /\ AnswerIf(q, ok)
    /\ gone' = gone \ {m}
    /\ UNCHANGED <<auditVars, wakes, scanned>>

\* handleDeleteHost.
DeleteRequest(q, m) ==
    /\ req[q] = Idle
    /\ \E ok \in BOOLEAN :
         /\ DeleteHost(m, ok)
         /\ gone' = IF ok THEN gone \cup {m} ELSE gone
         /\ AnswerIf(q, ok)
    /\ saved' = [saved EXCEPT ![m] = 0]
    /\ UNCHANGED <<auditVars, counters>>

\* handlePutSettings.
SettingsRequest(q, l) ==
    /\ req[q] = Idle
    /\ \E ok \in BOOLEAN : SaveSettings(l, ok) /\ AnswerIf(q, ok)
    /\ UNCHANGED <<auditVars, counters, told>>

-----------------------------------------------------------------------------
(* Scans *)

\* handleScan sends the command; an agent that does not answer, or not OK,
\* ends the request without an entry.
ScanRequest(q, a) ==
    /\ req[q] = Idle
    /\ Goto(q, [op |-> "scan", agent |-> a])
    /\ UNCHANGED <<bookVars, auditVars, counters, told>>

ScanFails(q) ==
    /\ req[q].op = "scan"
    /\ Goto(q, Idle)
    /\ UNCHANGED <<bookVars, auditVars, counters, told>>

\* The answer: what it says of saved hosts is recorded first ...
ScanAnswered(q) ==
    /\ req[q].op = "scan"
    /\ \E found \in SUBSET Macs : \E obs \in [found -> IPs \cup {None}], ok \in BOOLEAN :
         ObserveHosts(req[q].agent, obs, ok)
    /\ Goto(q, [op |-> "observed", agent |-> req[q].agent])
    /\ UNCHANGED <<auditVars, counters, told>>

\* ... and then the scan; a failure to write that is only logged.
RecordScan(q) ==
    /\ req[q].op = "observed"
    /\ scanned' = scanned + 1
    /\ \E ok \in BOOLEAN : AddScan([id |-> scanned', agent |-> req[q].agent], ok)
    /\ Goto(q, Owing)
    /\ UNCHANGED <<auditVars, edits, wakes, told>>

-----------------------------------------------------------------------------
(* Wakes *)

FirstOf(S) == AgentOrder[SelectInSeq(AgentOrder, LAMBDA a : a \in S)]

agentCoversIP(a, ip) == ip \in Subnet[a]

\* agentForHost: the agent to wake h from, if any.  A pinned agent has to be
\* connected (reachable), others enabled as well (usable).
agentForHost(h, usable, reachable) ==
    LET covering == {a \in usable : agentCoversIP(a, h.ip)}
    IN  IF h.agent # None THEN reachable \cap {h.agent}
        ELSE IF covering # {} THEN {FirstOf(covering)}
        ELSE IF usable # {} THEN {FirstOf(usable)}
        ELSE {}

\* handleWakeSavedHost; which agents are connected may change at any time.
WakeSaved(q, m) ==
    /\ req[q] = Idle
    /\ hosts[m] # None
    /\ \E reachable \in SUBSET Agents : \E usable \in SUBSET reachable :
         agentForHost(hosts[m], usable, reachable) # {}
    /\ Goto(q, [op |-> "wake", mac |-> m])
    /\ UNCHANGED <<bookVars, auditVars, counters, told>>

\* handleWakeViaAgent: any MAC, by the agent the operator names.
WakeVia(q, m) ==
    /\ req[q] = Idle
    /\ Goto(q, [op |-> "wake", mac |-> m])
    /\ UNCHANGED <<bookVars, auditVars, counters, told>>

\* wake, when dispatch fails or the agent's result is not OK: an entry.
WakeFails(q) ==
    /\ req[q].op = "wake"
    /\ Goto(q, Owing)
    /\ UNCHANGED <<bookVars, auditVars, counters, told>>

\* wake, when packets were sent: the host, if it is still saved, is stamped.
WakeAnswered(q) ==
    /\ req[q].op = "wake"
    /\ wakes' = wakes + 1
    /\ \E ok \in BOOLEAN : MarkWoken(req[q].mac, wakes', ok)
    /\ Goto(q, Owing)
    /\ UNCHANGED <<auditVars, edits, scanned, told>>

-----------------------------------------------------------------------------
\* Other handlers write the whole state, and audit what they did.
OtherWrite ==
    /\ WriteOut
    /\ UNCHANGED <<auditVars, req, counters, told>>

\* The hub goes down, with whatever it was doing, and is started again.
Restart ==
    /\ ReadBack
    /\ AuditReopen
    /\ req' = [q \in Reqs |-> Idle]
    /\ UNCHANGED <<counters, told>>

HostStep(q) ==
    \/ \E m \in Macs : \/ SaveRequest(q, m) \/ DeleteRequest(q, m)
                      \/ WakeSaved(q, m) \/ WakeVia(q, m)
    \/ \E l \in 0..MaxLimit + 1 : SettingsRequest(q, l)

AgentStep(q) ==
    \/ \E a \in Agents : ScanRequest(q, a)
    \/ ScanFails(q) \/ ScanAnswered(q) \/ RecordScan(q)
    \/ WakeFails(q) \/ WakeAnswered(q)

\* The audit log shares no variable with the rest, so what goes wrong in it is
\* combined with saves and deletes only, and with a state file that works.
Bounded ==
    /\ edits + wakes + scanned + appended <= MaxWork
    /\ misses <= MaxMisses
    /\ tears + faults + longs <= MaxUpsets
    /\ tears + faults + longs > 0 => misses + wakes + scanned = 0

Next ==
    /\ \/ \E q \in Reqs : HostStep(q) \/ AgentStep(q) \/ Finish(q)
       \/ OtherWrite
       \/ Restart
    /\ Bounded'

Spec == Init /\ [][Next]_vars

-----------------------------------------------------------------------------
(* Properties *)

\* A host whose removal was confirmed stays away, in memory and in the file,
\* until it is saved again: no answer to a scan or a wake that was under way,
\* no failed write and no restart brings it back.
DeletedStaysDeleted ==
    \A m \in gone : hosts[m] = None /\ dHosts[m] = None

\* What a confirmed save says of a host (label, note, wake options) is what the
\* hub knows, and still knows after a restart, until a later save replaces it or
\* the host is deleted, whatever scans and wakes do to the record meanwhile.
SavedStaysSaved ==
    \A m \in Macs : saved[m] > 0 =>
        /\ hosts[m] # None /\ hosts[m].edit >= saved[m]
        /\ dHosts[m] # None /\ dHosts[m].edit >= saved[m]

\* A form filled in before a host was woken does not take LastWake back
\* ("MarkWoken stamps the last-wake time so the UI can show that a magic
\* packet went out"): it never goes back while the host is saved, except by
\* a restart from a file that missed it.
LastWakeKept ==
    [][\A m \in Macs : hosts[m] # None /\ hosts'[m] # None =>
          hosts'[m].woken >= hosts[m].woken \/ Restart]_vars

NewestFirst(s) == \A i, j \in DOMAIN s : i < j => s[i].id > s[j].id

\* The history of all agents together is newest first, in memory and in the
\* file; it begins with the scan just recorded; and a scan leaves it only when
\* the limit in force is filled by newer ones, of whichever agents, or by a
\* restart from a file that missed it, whoever records scans or changes the
\* limit meanwhile.
HistoryKeepsNewest ==
    [][/\ NewestFirst(scans') /\ NewestFirst(dScans')
       /\ scanned' > scanned => \E n \in ToSet(scans') : n.id = scanned'
       /\ \A s \in ToSet(scans) \ ToSet(scans') :
             \/ Len(scans') = limit' /\ \A n \in ToSet(scans') : n.id > s.id
             \/ Restart]_vars

\* The settings' "HistoryLimit caps how many scan records are retained per
\* agent": a scan leaves the history only when that many newer scans of its own
\* agent are kept, or by a restart.
HistoryPerAgent ==
    [][\A s \in ToSet(scans) \ ToSet(scans') :
          \/ Cardinality({n \in ToSet(scans') : n.agent = s.agent}) >= limit'
          \/ Restart]_vars

=============================================================================
