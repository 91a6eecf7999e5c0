------------------------------ MODULE HostBook ------------------------------
(***************************************************************************)
(* Saved hosts, scan history and settings in the hub's state store         *)
(* (internal/store/store.go): in memory, and in the state file that every  *)
(* mutator writes as a whole.  A host's LastIP stands for its Hostname too *)
(* (a form overwrites both, a scan refreshes both); the times CreatedAt,   *)
(* UpdatedAt and LastSeen are left out, LastWake is kept.                  *)
(***************************************************************************)
EXTENDS Naturals, Sequences

CONSTANTS
    Macs,          \* MAC addresses, normalised
    Agents,        \* agent IDs
    IPs,           \* addresses a host can have
    None,          \* the empty string, or no record
    DefaultLimit,  \* DefaultSettings().HistoryLimit
    MaxLimit       \* the largest HistoryLimit SaveSettings accepts

ASSUME LimitAssumption == /\ MaxLimit \in Nat
                          /\ DefaultLimit \in 1..MaxLimit
ASSUME NoneAssumption  == None \notin Agents \cup IPs

\* SavedHost: edit is the save its label, note and wake options come from,
\* woken the wake that stamped LastWake.
Hosts == [ip : IPs \cup {None}, agent : Agents \cup {None}, edit : Nat, woken : Nat]

ASSUME NoRecordAssumption == None \notin Hosts

\* ScanRecord: which scan, numbered in the order they were recorded, by which agent.
Scans == [id : Nat, agent : Agents]

VARIABLES
    hosts,    \* state.Hosts
    scans,    \* state.Scans: scan records, newest first
    limit,    \* state.Settings.HistoryLimit
    dHosts, dScans, dLimit, \* the same in the state file
    misses    \* history: writes of the file that failed

bookMem  == <<hosts, scans, limit>>
bookDisk == <<dHosts, dScans, dLimit>>
bookVars == <<bookMem, bookDisk, misses>>

BookTypeOK ==
    /\ hosts \in [Macs -> Hosts \cup {None}] /\ dHosts \in [Macs -> Hosts \cup {None}]
    /\ scans \in Seq(Scans) /\ dScans \in Seq(Scans)
    /\ limit \in 1..MaxLimit /\ dLimit \in 1..MaxLimit
    /\ Len(scans) <= MaxLimit /\ Len(dScans) <= MaxLimit
    /\ misses \in Nat

BookInit ==
    /\ hosts = [m \in Macs |-> None] /\ dHosts = hosts
    /\ scans = <<>> /\ dScans = <<>>
    /\ limit = DefaultLimit /\ dLimit = limit
    /\ misses = 0

-----------------------------------------------------------------------------
\* flushLocked: all of memory or, when ok is FALSE, nothing reaches the file.
Flush(ok) ==
    /\ misses' = IF ok THEN misses ELSE misses + 1
    /\ IF ok THEN dHosts' = hosts' /\ dScans' = scans' /\ dLimit' = limit'
             ELSE UNCHANGED bookDisk

\* A mutator that found nothing to change returns without writing.
NoFlush == UNCHANGED <<bookDisk, misses>>

\* Faulty: LastWake is what the request says of it, nothing.
CarriedAfresh(m) == 0

\* What SaveHost carries over from an existing record.
Carried(m) == IF hosts[m] = None THEN 0 ELSE hosts[m].woken

\* Faulty: writes the file before it changes memory.
SaveHostLate(m, ip, a, e, ok) ==
    /\ hosts' = [hosts EXCEPT ![m] = [ip |-> ip, agent |-> a, edit |-> e,
                                      woken |-> Carried(m)]]
    /\ IF ok THEN dHosts' = hosts /\ dScans' = scans /\ dLimit' = limit
             ELSE UNCHANGED bookDisk
    /\ UNCHANGED <<scans, limit, misses>>

SaveHost(m, ip, a, e, ok) ==
    /\ hosts' = [hosts EXCEPT ![m] = [ip |-> ip, agent |-> a, edit |-> e,
                                      woken |-> Carried(m)]]
    /\ UNCHANGED <<scans, limit>>
    /\ Flush(ok)

DeleteHost(m, ok) ==
    /\ hosts' = [hosts EXCEPT ![m] = None]
    /\ UNCHANGED <<scans, limit>>
    /\ Flush(ok)

\* Faulty: a host deleted meanwhile gets a record again.
MarkWokenUpsert(m, n, ok) ==
    /\ hosts' = [hosts EXCEPT ![m] =
                   IF @ = None THEN [ip |-> None, agent |-> None, edit |-> 0, woken |-> n]
                               ELSE [@ EXCEPT !.woken = n]]
    /\ UNCHANGED <<scans, limit>>
    /\ Flush(ok)

\* MarkWoken; a failure to write is ignored.
MarkWoken(m, n, ok) ==
    /\ hosts' = IF hosts[m] = None THEN hosts ELSE [hosts EXCEPT ![m].woken = n]
    /\ UNCHANGED <<scans, limit>>
    /\ IF hosts[m] = None THEN NoFlush ELSE Flush(ok)

\* One observation: h was seen by agent a at address ip (None if unknown).
\* The address is refreshed; the agent is pinned if there is none.
Observed(h, a, ip) ==
    [h EXCEPT !.ip    = IF ip = None THEN @ ELSE ip,
              !.agent = IF @ = None THEN a ELSE @]

\* ObserveHosts: obs gives the address of each MAC that agent a found.  Only
\* what changed is written out, and a failure to write is ignored.
ObserveHosts(a, obs, ok) ==
    /\ hosts' = [m \in Macs |-> IF m \in DOMAIN obs /\ hosts[m] # None
                                THEN Observed(hosts[m], a, obs[m])
                                ELSE hosts[m]]
    /\ UNCHANGED <<scans, limit>>
    /\ IF hosts' = hosts THEN NoFlush ELSE Flush(ok)

\* Faulty: cuts the newest scans off.
CappedOldest(s) == IF Len(s) > limit THEN SubSeq(s, Len(s) - limit + 1, Len(s)) ELSE s

\* The history cut to the limit in force, over all agents.
Capped(s) == IF Len(s) > limit THEN SubSeq(s, 1, limit) ELSE s

AddScan(r, ok) ==
    /\ scans' = Capped(<<r>> \o scans)
    /\ UNCHANGED <<hosts, limit>>
    /\ Flush(ok)

\* SaveSettings, with its check of HistoryLimit; the history is not cut.
SaveSettings(l, ok) ==
    /\ limit' = IF l \in 1..MaxLimit THEN l ELSE DefaultLimit
    /\ UNCHANGED <<hosts, scans>>
    /\ Flush(ok)

\* Any other mutator (agents, tokens, operators), and Close.
WriteOut == UNCHANGED bookMem /\ Flush(TRUE)

\* Open after the hub went down.
ReadBack ==
    /\ hosts' = dHosts /\ scans' = dScans /\ limit' = dLimit
    /\ UNCHANGED <<bookDisk, misses>>

=============================================================================
