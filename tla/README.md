# NetScan-WoL: TLA+ specifications and proofs

NetScan-WoL is a hub with remote agents. Operators ask the hub, over a web UI
and a JSON API, to scan a network segment or to wake a machine; the hub passes
the request as a *command* to the agent that sits on that segment; the agent
executes it and posts the result back. Agents connect out to the hub and
long-poll for commands. This directory models the parts of it that are
concurrent, that persist state or that can fail half-way, model-checks them with
TLC on small instances and proves their main invariants with TLAPS for all
instances. Paths below are relative to the repository (`internal/...` is
`src/internal/...` in `PROJECT.json`).

## 1. The system: components, state, interactions

| Component | Code | State | Operations |
|---|---|---|---|
| Command registry | `internal/hub/registry.go` | agent → inbox channel and `lastPoll`; command → waiter | `Dispatch`, `Connect` and its release function, `Connected`, `Disconnect`, `Deliver` |
| Agent-facing handlers | `internal/hub/api_agent.go` | none of their own | `requireAgent`, `handleEnroll`, `handleAgentHello`, `handleAgentPoll`, `handleAgentResult` |
| Operator-facing handlers | `internal/hub/api_operator.go` | none of their own | dispatching (`handleScan`, `handleDiscover`, `wake`, `handleStatus`), agents, tokens, hosts, settings, login |
| State store | `internal/store/store.go`, `model.go` | agents, tokens, operators, hosts, scans, settings; the state file | one mutator per kind of change, each writing the whole file |
| Sessions, login throttle | `internal/hub/session.go`, `internal/store/password.go` | sessions by ID; failed logins by address | `Create`, `Lookup`, `Destroy`, `DestroyUser`, reaper; `Allowed`, `Fail`, `Succeed` |
| Rate limiter | `internal/hub/api_agent.go` | counters by address | `allow` |
| Audit log | `internal/store/audit.go` | file, in-memory tail | `Append`, `Tail`, load |
| CA | `internal/ca/ca.go` | root and server certificates on disk | open or create, renew, `SignAgent` |
| Agent | `internal/agent/*.go` | identity files; greeted flag and backoff | enroll, `Run` loop, `execute`, `postResult` |
| Scanner, WoL | `internal/scan`, `internal/wol`, `internal/netutil` | a mutex; replies of one sweep | `Scan`, `Status`, ARP sweep, mDNS, magic packets |

Interactions. An operator handler calls `Server.dispatch`, which asks
`Connected` and then calls `Dispatch`; that queues the command on the agent's
inbox channel and waits on a result channel. The agent's poll handler, on
another goroutine, receives from the inbox and writes the command to the HTTP
response. The agent runs it on a goroutine of its own and posts the result in a
separate request, whose handler calls `Deliver`, which sends it to the waiter.
All agent requests pass `requireAgent`, which reads the store. Disabling or
removing an agent changes the store and then calls `Disconnect`.

What is hard about it: the registry's lock is released between looking a waiter
up and sending to it, and between any two requests of the same agent; inbox
channels outlive polls and are replaced while polls still hold the old one;
callers give up while their command is queued or running; handlers copy a record
and store it back later; every write of the state file may fail after memory was
changed; and the hub may stop between any two of these. The list `hazards` in
`PROJECT.json` names each place.

What makes each component correct:

- registry: a command is handed out at most once, to the agent it is for; a
  caller is given only its own agent's result; refused means never sent; no
  waiter and no queue slot leaks; an agent that holds a poll counts as connected;
- command path: every operator request returns; success is reported only for a
  command that ran; no command runs twice; a disabled agent gets nothing;
- enrollment and records: a token admits no more agents than it has uses and
  every certificate is accounted to its token; an agent told it is enrolled is
  known; only the operator changes what the operator controls;
- sessions and login: no session of an old password survives a change; a
  replaced password is never accepted again; the throttle bounds guesses, and its
  lockouts end; every session ends;
- certificate authority, agent's files: an interrupted start or enrollment never
  costs an enrolled agent its hub, which it loses only by a change of root or name
  or by the end of a certificate; the hub comes up again by itself;
- hosts, history, settings: a confirmed save or removal is what the hub knows
  from then on, whatever answers of agents arrive late and whatever writes fail;
  the history keeps the newest scans;
- audit log: a hub that goes down costs the entry being written and at most the
  next; the tail shown is the newest there is;
- agent loop: once the hub stays in reach the agent greets it and polls; every
  command it took comes to an end;
- scanner: one ARP sweep at a time; what is reported of a segment or of a host is
  what was really asked; network arithmetic agrees with its definition;
- Wake-on-LAN: success means a packet left, and no destination is left out.

## 2. Modules

| Module | Models | Extends / composes |
|---|---|---|
| `Registry` | `registry.go`, and the steps of the poll, operator and result handlers that touch it | |
| `CommandPath` | operator handlers, `requireAgent`, agent loop and network around the registry | extends `Registry` |
| `CommandService` | abstract specification: what the hub promises an operator about a command | implemented by `CommandPath` |
| `HubStore` | agents and tokens of `store.go`, in memory and in the state file | |
| `HubRecords` | enrollment, hello, discover, the operator's changes, restarts | extends `HubStore` |
| `LoginThrottle` | the record of failed logins of one address | |
| `Auth` | sessions, login, logout, password change, restarts | extends `LoginThrottle` |
| `HubPki` | the authority's files and a start of the hub | |
| `AgentTrust` | an agent's files, its enrollment and mutual TLS | extends `HubPki` |
| `Lists` | the loop that selects elements of a list | |
| `HostBook` | hosts, scan history and settings of `store.go`, in memory and in the state file | |
| `AuditLog` | the audit log's file and its tail in memory | extends `Lists` |
| `HubData` | the operator's handlers for hosts, scans, wakes and settings, restarts | extends `HostBook`, `AuditLog` |
| `NetUtil` | host enumeration, broadcast addresses, eligible interfaces | extends `Lists` |
| `ArpSweep` | one ARP sweep: sender and reader | extends `NetUtil` |
| `Scanner` | scans and status checks, the mutex and the semaphore | extends `ArpSweep` |
| `Wol` | sending magic packets | extends `NetUtil` |
| `AgentLoop` | `Run` with the commands it executes, outages of the hub, stops and starts | extends `Scanner`, `Wol` |
| `RegistryProofs`, `HubRecordsProofs`, `AuthProofs`, `TrustProofs` | theorems and proofs | extend `Registry`, `HubRecords`, `Auth`, `AgentTrust` |
| `ListProofs` | lemmas about `Lists`, and induction over naturals | extends `Lists` |
| `HubDataProofs`, `AgentLoopProofs` | theorems and proofs | extend `HubData`, `AgentLoop`, and `ListProofs` |
| `CommandPathProofs` | theorems and proofs | extends `CommandPath`, `RegistryProofs` |
| `MCRegistry`, `MCCommandPath`, `MCHubRecords`, `MCAuth`, `MCAgentTrust`, `MCHubData`, `MCAgentLoop` | instances for TLC | |

Definitions named `...Stale`, `Peek...`, `...Unchecked` and so on, and commented
"Faulty", are plausible wrong versions of the definition that follows them. No
specification uses them; each one, put in the place of its correct version,
makes a property fail (`mutants` in `PROJECT.json`).

### Registry

Every critical section of `Registry.mu`, every channel operation and every
deferred call is one action. `Dispatch` is `CheckConnected` (the separate
`Connected` call of `Server.dispatch`), `Enqueue`, then `TakeResult` or `GiveUp`,
then `Unregister`. A poll is `Connect`, `TakeCommand` or `EndPoll`, `Release`.
`Deliver` is `Lookup` and `Send`. `Reap` is `Connected` as the agent list calls
it. `Restart` replaces the process: everything in memory is gone.

Inbox channels are values of their own (`Chans`) because the code compares and
shares them: an entry may be deleted and made again while a poll still receives
from the old channel. A channel's identity is reused only when neither the map
nor a poll handler refers to it, which is when the garbage collector could.

Time is counted in ticks: `age` since `lastPoll`, `held` since a poll's timer
was set. A tick cannot happen while a held poll has reached `pollHold`, which
says that timers fire on time; `GiveUp` and `EndPoll` may also happen at any
earlier moment, since a browser or an agent may hang up.
Here agents may also post results for any command they like; `CommandPath`
restricts callers to what the handlers and the agent really do.

### CommandPath

`record` is what `requireAgent` reads of the store; `AdmitPoll` is that check and
`ConnectPoll` the call of `Connect` after it, as two steps, because the code
takes no lock across them. `SwitchOff`/`FinishSwitchOff` are the two halves of
disabling or removing an agent. `SwitchOn` covers `handleUpdateAgent` with
`disabled=false` and the handlers that store an old copy back. `wire`, `running`
and `posted` are responses, executions and results in flight; any of them may be
lost. Agents never re-send a result and the hub never re-sends a command, so
there is no such action.

### HubStore and HubRecords

Each store call changes memory and then writes the file; the write may fail
(`ok = FALSE`), in which case memory stays changed, as in the code. Any later
successful write persists it. Of an agent's record the model keeps what the
operator controls (display name, disabled) and the token it was enrolled with
(`EnrolledVia`); of a token, the agent IDs that claimed it, whose number is `Uses`
and which go with the token when it is revoked. `handleEnroll` is one action per step that
has a separate outcome: refusals before the token, `ClaimToken`, `SignAgent`,
`StoreAgent`, `Respond`. The copies that `handleAgentHello` and `handleDiscover`
hold are state, one of each per agent. Each agent ID stands for one enrollment
attempt, since the code draws a new ID for each.

### LoginThrottle and Auth

One account and one source address: sessions and throttle records of different
users and addresses never meet in the code, and the hub has no way to add a
second operator. `handleLogin` is `BeginLogin` (`Allowed` of the throttle),
`CheckPassword` (the record is copied and the password compared with the copy),
then `RecordFailure`, or `RecordSuccess` and `CreateSession`; the code holds no
lock across them, and `CheckPassword` alone takes a quarter of a second.
`handleChangePassword` is `BeginChange` (its `requireOperator`), `CheckCurrent`,
`RejectNew` or `PutOperator`, and `DestroyUser`. `Logins` and `Changes` are slots
for requests served at the same time, used again and again. The password is kept
twice, in memory and in the file: `PutOperator` may fail to write, and any later
write of the store (`OtherWrite`, `MarkLogin` in `CreateSession`) persists it.
Ages and remaining times are counted in ticks and saturate one tick past the
limit they are compared with. `verified` and `retired` are history: the password
a session was opened with, and the passwords whose change was acknowledged.
Operators are taken not to choose a password twice, without which "replaced"
would mean nothing. `Sessions` bounds the sessions ever opened in a run.

### HubPki and AgentTrust

Every file is a variable and every write a step. Keys are installed by renaming
and are whole or absent; `ca.crt` and `hub.crt` are written in place and may be
left `Torn`. `LoadRoot`, `RefuseRoot` and `CreateRoot` are the three ways
`loadOrCreateRoot` goes on after its two `ReadFile`s; `Readable` lets up to
`MaxBadReads` existing files fail to be read, which the code does not tell from
their absence. `KeepServer` and `IssueServer` are `loadOrCreateServer`. A crash or
a failed write ends the process (`CrashInStart`, `TearRootCert`, `TearHubCert`) and
counts against `MaxFaults`. `RemoveRoot` is what the hub's message and
`docs/INSTALL.md` tell the operator to do; `LoseRootFile` is the partial restore of
`ca_test.go`; both put the root in `discarded`. Each run of `nswagent enroll` is a
member of `Enrollments` and stands for its key; an agent's files name the
enrollment they come from, `signedBy` the root that signed it, `HubURL` the name in
the URL it was given. `loaded` is what a running agent holds in memory, which may
be older than the files. `Handshake` is mutual TLS as both sides set it up: root,
date and name of the hub's certificate, root and date of the agent's, which
`LapseAgentCert` ends. Roots and enrollments are taken in some fixed order (`Fresh`), as
it makes no difference which of them is the first. A restart under other names is a choice of names in the start.

### HostBook, AuditLog and HubData

`HostBook` is to hosts, scans and settings what `HubStore` is to agents: every
mutator changes memory and writes the file, and the write may fail. `ObserveHosts`
and `MarkWoken` ignore that, `AddScan`'s failure is logged, the others report it.
Records carry the number of the save and of the wake they come from, which is
what lets a property say that a later step undid an earlier one, and scans their
number and agent. `HubData` gives
each handler its steps: a scan is `ScanRequest`, then `ScanFails`, or
`ScanAnswered` and `RecordScan`; a wake `WakeSaved` or `WakeVia`, then `WakeFails` or
`WakeAnswered`; whatever reaches its end is followed by `Finish`, the audit entry.
`Reqs` are requests served at the same time. Which agents are connected is any
set at any moment.

`AuditLog` keeps the file as lines, one of which may lack its newline: `ragged`.
`WriteLine` is `Write`, `WriteByte` and `Flush` of a `bufio.Writer`, which keeps its
first error for ever (`stuck`), so that an append after a failed one writes nothing
until the hub is started again. `DownInLine` cuts a line short, after which the
next one runs into it. `loadTail` stops at a line longer than its buffer.

### NetUtil, ArpSweep, Scanner, Wol and AgentLoop

Addresses have `Width` bits, 32 in the code, and arithmetic on them wraps as
`uint32` does; `UsableHosts` is the reference that `HostsIn` is checked against
through what a sweep really asks, and is proved equal to. A sweep is two goroutines
over one set of
replies: `ProbeNext` is a turn of the send loop, `Receive` and `ReaderEnds` the
reader, and `StopReading`, `Collect` how one waits for the other. `Scanner` puts
sweeps under the mutex, which a scan holds from `LockScan` to `EndScan` and a
status probe from `BeginArp` to `EndArp`; probes of a status command share `Slots`.
`Expire` is the timeout of a request, at any moment, also while it waits for the
mutex. `raw`, whether the process may open a raw ARP socket, is decided in `Init`.
An ICMP probe is `AskIcmp`, the request, and then `GiveUpIcmp`, a receive that timed
out, or `IcmpFromHost`, a packet of the host. `noisy` says that the probe fell back to
a raw ICMP socket and that others' ICMP keeps coming in on it, so that no receive
times out; `Quiet` ends that, or never happens. `Wol` sends to one destination
after the other, of which any may fail. `AgentLoop` takes commands with
`PollCommand`; each then goes its own way until `PostResult`. `greeted` is that
the loop is at "poll". `GoDown` and `ComeUp` are outages of the hub as the agent
sees them: requests fail exactly while it is out of reach, and an outage may be
too short for the agent to notice.

## 3. Runs

| Run | Instance | Shows |
|---|---|---|
| `registry` | 2 agents, 1 command, 2 polls, 4 channels, depth 1, hold 1, TTL 2 | `HandedToTarget`, `HandedOnce`, `AnswerFromTarget`, `HeldPollIsAlive` |
| `command_path` | 1 agent, 2 commands, 1 poll at a time, 2 channels, hold = TTL = 1 | `ExecutedOnce`, `RefusedNeverHanded`, `PendingExact`; `CommandPath` implements `CommandService` (with its liveness); `InboxDrains` |
| `disabled_agent` | as `command_path` | finding: `NothingReachesDisabled` fails |
| `hub_records` | 2 attempts, 2 tokens of 1 use | `CertsWithinUses`, `LeakIsVisible`, `EnrolledIsKnown` |
| `operator_last_word` | 1 agent, 2 names | finding: `OperatorHasLastWord` fails |
| `hub_data` | 1 host, 2 agents of which one covers its address, 2 requests, limits 1 and 2, tail of 2 entries | `DeletedStaysDeleted`, `SavedStaysSaved`, `LastWakeKept`, `HistoryKeepsNewest`, `CrashLossBounded`, `TailIsNewest` |
| `history_per_agent` | as `hub_data`, no faults | finding: `HistoryPerAgent` fails |
| `agent_work` | 3-bit addresses, 1 scan, 1 status check of 2 hosts with 1 slot, 1 wake of 1 copy, 2 tries, backoff 1 to 2 | `OneSweeper`, `ScanHonest`, `DownMeansSilent`, `WakeHonest`, `AgentReturns`, `CommandsEnd` |
| `agent_trust` | 2 roots, 2 enrollments, 3 hub keys, 1 name, validity 2, margin 1, 1 fault, 1 bad read | `EnrolledCanConnect`, `ServedCertificate`, `IdentityComplete`, `HubComesUp` |
| `root_replaced` | 1 enrollment, 2 bad reads | finding: `RootNotReplaced` fails |
| `auth` | 2 logins and 2 changes at once, 1 session, 3 passwords, limit 2, window 1, lockout 2, TTL = idle = 1 | `GuessesBounded`, `RetiredStaysRetired`, `SessionsEnd`, `LockoutEnds` |
| `old_session` | 1 login, 1 change, 2 sessions, 2 passwords | finding: `OldSessionsDie` fails |

Why the bounds are enough. What goes wrong with a registry goes wrong between two
agents, two polls of one agent, or two commands of which one fills the inbox;
`InboxDepth` 1 makes "full" reachable with two commands. Two polls and two
agents can refer to at most four channels, so `Chans` never runs out. In
`command_path` hold equals TTL, the tightest relation the assumption allows, so
that reaping happens as early as it can. Two attempts on two tokens of one use
give every order of two claims of one token or of two, a refusal, and a token
revoked in between; all facts about tokens and
registry safety are also proved without bounds. Symmetry is used for model values
in runs without liveness only. Deadlock checking is off in `hub_records`, whose model may
stop when every attempt is finished and the token gone. In `auth` two logins
at once are what it takes to pass the limit, and three passwords give two changes
that overlap or follow each other; a lockout one tick longer than the window is
the tightest case of 15 against 10 minutes. In `agent_trust` two roots give one
replacement by the operator, two enrollments a re-enrollment with `--force`, and
one fault a crash, a torn or failed write or an unreadable file anywhere in a start;
`root_replaced` has two, and the theorems any number. `names` are those beyond the
ones every hub has, so that one is enough for a hub that is started with it,
without it, and with it again, after its certificate was reissued without.

In `hub_data` records of different hosts never meet, so one host is enough; two
requests give every overlap of a save, a removal, a scan's answer and a wake's;
`MaxLimit` 2 and `DefaultLimit` 1 let the limit be raised, lowered and set out of
range, with scans enough to overflow it. `MaxWork` 4 bounds saves, wakes, scans and
audit entries together: two audited saves, two scans of different agents in a
history of one, or four entries for a tail of two. `MaxMisses` is 1 write
of the state file that fails, and `MaxUpsets` 2 torn, failed or over-long lines, which the log takes two of to lose a
line that had been readable; as the log shares no variable with the rest, upsets
are combined with saves and removals only. In `agent_work` the interfaces are a
loopback, an Ethernet with a network of two usable hosts, and one with a single
address; a scan may also name a subnet that is too large or on no interface. One
of the hosts asked about is up and on a subnet, the other is neither. `MaxLoad` 2
bounds outages and commands together, so that a scan meets a status check (whose
two probes meet each other), or a command an outage. More at once shows nothing
new: the loop shares nothing with commands under way, and a wake nothing with the
scanner. Deadlock checking is off in all of these, since work and restarts are
bounded.

Findings. All are disagreements between a comment, test or document and what
the code does; `PROJECT.json` quotes the lines.

- `disabled_agent`: a poll that passed `requireAgent` before the agent was
  disabled connects afterwards and makes a new inbox; nothing in `dispatch` asks
  whether the agent is disabled. For up to `pollHold` it can be given a command.
- `operator_last_word`: `handleDiscover` and `handleAgentHello` store a whole
  record read earlier, and undo a disable, a rename or a removal made meanwhile.
- `old_session`: a login that compared the old password before a change stored the
  new one may create its session after the change destroyed all others; nothing
  looks at the record again.
- `root_replaced`: `loadOrCreateRoot` takes any failure to read for absence. If both
  root files cannot be read it makes a new root and overwrites the old key.
- `history_per_agent`: `HistoryLimit` is said to be "per agent" (`model.go:140`); `AddScan`
  applies it to all agents together, so that one agent's scans push out another's.

Other disagreements were met while modelling. They are built into the models,
and the properties are worded around them, but they have no run of their own:

- `handleEnroll` (`api_agent.go:152`) leaves no audit entry when storing the new
  agent fails, although a use was consumed and a certificate signed; the comment
  above it promises "an audit entry for every attempt". A wake under way when the
  hub goes down has none either.
- After one failed write the audit log writes nothing more until the next start
  (`audit.go`: a `bufio.Writer` keeps its error), while the tail goes on showing
  entries; hence `CrashLossBounded` assumes `faults = 0`.
- `hub.crt` is said to be "reissued whenever the requested name set changes"
  (`ca.go:198`); a certificate that covers more names than are asked for is kept.
- Enrolling does not check the hub's name in the URL (`enroll.go`, the pin replaces
  verification), every later connection does: an agent enrolled under a name that
  the hub was not started with is enrolled and cannot connect.
- An empty `AgentID` of a saved host is said to mean "whichever agent last saw it"
  (`model.go:89`). `agentForHost` goes by subnets and then by order, and nothing
  records who saw the host last. (`ObserveHosts` fills an empty `AgentID` with the
  first agent that sees the host, and leaves it so when another does.)
- `commandBudget` is said to bound a command's execution (`run.go:41`). The receive
  loop of `icmpProbe` goes from a packet of another host straight to the next
  receive, past its only look at the deadline (`icmp_linux.go:73-79`). On a raw
  socket, which it falls back to when datagram ICMP is not permitted, steady ICMP
  traffic of others keeps a status command going; hence the exception in
  `CommandsEnd`.
- A sweep that ran out of time, or could not send after some replies had come,
  is reported as `arp-raw` without an error; `ScanHonest` excepts both. A scan that only waited
  too long for the mutex fails with "no scannable interface found".
- A host that was not probed at all for lack of time is reported offline, with
  which "only silence means down" does not agree; `DownMeansSilent` excepts it.
- The agent's budget for a command is 10 minutes (`run.go:43`), the largest timeout
  the settings accept for a scan 900 seconds (`store.go:158`).

## 4. Fairness

`command_path`, `auth`, `agent_trust` and `agent_work` need it. `Fairness` in `CommandPath`: weak fairness of a
`Dispatch` call: its goroutine runs, and its context ends at `commandTimeout`
whatever the agent does. Weak fairness of admitted polls connecting and ending:
goroutines and the `pollHold` timer. Weak fairness of a new poll being admitted
while the agent is enabled: the agent's loop has no exit but its own shutdown and
its backoff is bounded. Strong fairness of a held poll taking a waiting command:
Go's `select` chooses at random between ready cases, and each empty-handed poll is
followed by another. No fairness is assumed of agents executing, of the network,
or of results arriving. `InboxDrains` is stated for agents that stay enabled.
`FairSpec` in `Auth`: weak fairness of `Tick`, time passes, and of `Reap` of each
session, the reaper's ten-minute ticker. No request is assumed to go on or to
end. `LockoutEnds` needs nothing else because attempts admitted before a lockout
are finitely many and none is admitted during it. `FairSpec` in `AgentTrust`: weak
fairness of the steps of a start; the service manager starts a hub that failed
again (`Restart=on-failure` in `deploy/systemd/nswhub.service`), and faults are
finitely many. `Fairness` in `AgentLoop`: weak fairness of the loop, of each command,
of each probe and of the sweep under way: goroutines run, sleeps and receive
timeouts end. A receive of an ICMP probe times out unless packets keep coming in:
`GiveUpIcmp` is not enabled while it is `noisy`, nothing makes the noise cease, and no
fairness is given to `IcmpFromHost`. So `CommandsEnd` excepts a status command with a
probe at such a socket, and says that no other command waits for it. The reader of an ARP sweep looks for its end before every receive
(`arp_linux.go:120-126`) and needs no such condition. Weak fairness is enough at the mutex because commands are
finitely many in the model; for any number it takes Go's promise that a waiter
at a `sync.Mutex` does not starve. Nothing is assumed of the hub, of hosts answering
or of timeouts: a command ends without its timeout too.

## 5. Proofs

`RegistryProofs`, for any finite or infinite sets of agents, commands, polls and
channels, any depth of at least 1 and any `PollHold <= ConnectionTTL` (in the code
25 s and 3 min). The inductive invariant has four parts. `OneOwner`: whatever
refers to a channel, map entry or poll, belongs to one agent; it is inductive
because a new channel is one nothing refers to. `QueuedForOwner` (in `QueueInv`):
what is in a channel was submitted to its owner and unreferenced channels are
empty. With `OnlySubmitted` and `HandedOnce` this gives that a command entering
an inbox is new to all of them, which is what makes "at most once" inductive.
`CallShape`, `ResultShape`, `PendingExact` (in `CallInv`): how far a call has come,
what is in its box, and whom it addresses; a result passes only if the sender is
the target, and the target never changes once set. `RefreshedByHold`: `lastPoll`
is no older than the poll held on it; with the assumption on the constants it
gives `HeldPollIsAlive`.

`HubRecordsProofs`, for any finite set of attempts and any tokens and uses.
`WithinUses` (in memory and in the file) is kept by checking and counting in one
critical section. A token can be revoked, and its claims with it, while attempts it
admitted are under way and, if that write fails, while the file still has it;
so what an attempt was admitted by is followed apart from the token: `AdmittedListed`
(whoever was admitted is listed with its token wherever that token still exists) and
`AdmittedWithin` (they are no more than its uses, revoked or not). From these follow
`CertsWithinUses` and the first half of `LeakIsVisible`; `RecordsTraced`, that every
record is of a certificate and names the token, gives its second half.
`KnownBeforeAnswer` (the record is in the file before the agent is answered) gives
`EnrolledIsKnown`.

`AuthProofs`, for any finite number of logins served at once, any changes, sessions
and passwords, any limit above 1, and any lockout longer than the window (15 and
10 minutes). `ThrottleBoundsGuesses` rests on `LockCovers`: a record at its limit
stays locked until it is too old to count, so an attempt that is let through sees
either fewer failures than the limit or a record about to be dropped; this is
where the lockout must be longer than the window. `GuessesLeft` counts attempts
that may still report a failure together with those reported.
`ReplacedPasswordsStayReplaced` rests on `AllChosen` (what is in force, on file,
retired or found by a change was chosen before, so a new password differs from
all) and `Replaced` (a stored change has displaced, in memory and in the file, the
password it found).

`TrustProofs`, for any roots, names, enrollments, faults, validity and smaller
margin. `StartShape` says what a start has put on file by the time it reaches each
step, and with it types and `ServedCertificate` (with `MarginLeft`, which relates
age and uptime) are inductive. `RootOnFile` says that a root that signed anything
and was not given up is whole on file and the only one a start can go on with;
`CreateRoot` preserves it only if `MaxBadReads <= 1`, which is therefore a hypothesis
of `EnrolledAgentsConnect` and `RootIsKept`. `EnrolledAgentsConnect` proves the whole
handshake, names and dates from `ServedCertificate`; what it excepts is in the
property: a root the operator gave up, a hub started without the agent's name for
it or running longer than the renewal margin, an agent's certificate at its end.
`SignedOnce` and `AllHandedOut` tie what
an agent holds to what the hub signed, and `SavedInOrder` gives `IdentityComplete`.

`CommandPathProofs`, under the assumptions of `RegistryProofs`. Every step of the
path is a step of the registry or leaves it alone (`RegistryStep`), so the
registry's invariant holds on the path too. `NotYetRun` (what is on
its way to an agent or in its hands was handed out, is in one place and has not
been run) together with `HandedOnce` gives `ExecutedOnce`. `ResultOfRun` (a result,
wherever it is, is of a command that was run) together with `CallShape` makes
every step of the path a step of `CommandService` or a stutter, which is the
safety part of the refinement.

`ListProofs` serves the two modules that follow. Induction over naturals is done as
the choice of a least counterexample (`LeastNatural`, `NoLeast`), which needs no
operator as a parameter; it gives that the recursive functions of the models
(`Kept` in `Lists`, `Pow2` in `NetUtil`) satisfy their equations. `OnlyPlaces`: what
a selecting loop keeps is the elements that pass the test, all of them, in their
order, said by an increasing function from places in the result to places in the
list. `OnlyAppend`: what an element appended to the list adds to the result.

`HubDataProofs`, for any requests, agents, limits, numbers of saves and wakes, and
any capacity of the tail.

- `HostInv` says that memory and file agree with what operators were told: a
  confirmed removal is gone from both, both hold a record at least as new as the
  last confirmed save, no record names a wake that is still to come, and saves are
  numbered in the order they were made.
- `HistoryInv` says that the history, in memory and in the file, is in order, newest
  first, and holds only scans that took place; so a new scan is newer than all of
  it, and cutting it at the limit loses the oldest. With it every step satisfies
  `HistoryKeepsNewest`.
- `AuditInv` carries the log. `FileInOrder`: entries on file are in the order of
  their numbers, so that the tail read back is increasing. `LossBudget`
  strengthens `CrashLossBounded` by `Risk`, what a last line without a newline may
  yet cost: the next entry, and itself if it can still be read. Without it the
  bound is not inductive: after a torn line it is the following append that loses
  an entry. `RecentKnown`, together with what `Only` keeps of an appended line, gives
  `TailIsNewest` through any restarts.
- `HubDataTyped` is the type invariant, from these parts.

`AgentLoopProofs`, for any commands, addresses of any width, interfaces, hosts, slots
and tries.

- `LockInv` says that a sweep is under way only for a scan or probe that holds the
  scanner's mutex and is at its sweep, without which `OneSweeper` is not inductive.
  It needs that scans, checks, probes and wakes are told apart, which is an
  assumption on the constants.
- `WakeInv` says that the destinations dealt with and those left are together all the
  wake began with, and that its count is positive exactly if a packet left.
- `HostsInListsUsable`: for every network `HostsIn` lists `UsableHosts`, each once, and
  never wraps around at the end of the address space. It rests on `Block` (a
  network is the interval of `Size` addresses that begins at `Masked`), and that on
  `Pow2Divides` (a smaller power of two divides a larger one) and on division with
  a rest.
- `SweepInv` describes one sweep: what a pass has yet to come to is an end of the
  targets, and a silent target it has come to was asked once in it and in every
  pass before. It needs that no target occurs twice, which is `HostsInListsUsable`.
- `WorkInv` joins `LockInv`, `SweepInv` and how far each scan (`ScanOK`) and probe
  (`ProbeOK`) has come. `ScanOK` ties the sweep to the segment at the head of the
  scan's plan and says that the sender stopped early only for an error or for lack
  of time; `ProbeOK` that ICMP and TCP come only after the last interface on the
  host's subnet. Since nobody but the holder of the mutex is at a sweep, a step of
  the sweep concerns one scan or one probe only. `ScanHonest` and `DownMeansSilent`
  follow.
- `AgentLoopTyped` is the type invariant; the bound on commands under way needs that
  they are finitely many (`LoadAssumption`).

Only model-checked: liveness (`InboxDrains` and the fair part of the refinement,
`SessionsEnd`, `LockoutEnds`, `HubComesUp`, `AgentReturns`, `CommandsEnd`), since the
prover handles neither fairness nor `ENABLED`. Every invariant that a passing run
checks is also proved, and so are the action properties `LastWakeKept` and
`HistoryKeepsNewest`. Most parts of the inductive invariants are state
predicates of the modules, so TLC can check them as invariants as well; `HostInv`,
`HistoryInv`, `AuditInv`, `LockInv`, `WakeInv`, `SweepInv` and `WorkInv` are stated
beside their proofs.

## 6. Abstractions

- A command's type and payload, and whether its result is OK, do not matter to
  the path and are left out; what handlers do with an answer besides returning it
  is left out of `CommandPath`.
- The state file is replaced by rename; the model takes that as atomic and does
  not consider a power loss that undoes a completed write (the code never syncs).
- Certificates are identified with agent IDs, tokens with their IDs: guessing a
  secret or forging a certificate is outside the models.
- IDs and secrets drawn at random are taken to be distinct.
- Timers fire on time; the clock is monotonic, and hub and agent agree on it
  (certificates are backdated for that reason).
- The root's own ten years are left out; everything it signed ends earlier or has
  to be replaced with it.
- Where a handler reads a record and at once calls the registry or `TouchAgent`
  (`RequestDispatch`, `Contact`), the two are one step; nothing that changes in
  between is looked at by either.
- Only one process works on a data directory (`--reset-password` beside a running
  hub is outside the models).
- Of a saved host `LastIP` stands for its hostname as well; label, note and wake
  options are the number of the save that set them.
- MAC addresses of scan results are left out, and with them merging by MAC, the
  vendor and `MACMatch`. Replies are taken to come from the host they name.
- Scans and probes have the same number of `Retries`. Targets that are not IPv4
  addresses are answered at once and left out, as are `discover` and `ping`
  commands, which read the interfaces and change nothing.
- The agent's `backoff` keeps doubling and its ceiling; how long a sleep takes is
  left out, since the model has no clock there.

## 7. Not modelled, and what is left

Modelled as far as there is state: registry and command path, store, enrollment
and records, sessions and throttle, authority and agent files, hosts, history,
settings and audit log, agent loop, scanner and Wake-on-LAN. Every invariant of the
passing runs is proved; liveness is left to TLC.

Not modelled, and why:

- the enrollment rate limiter: one counter per address that nothing else reads; at
  the boundary of a window it admits twice its limit, which its comment accepts;
- mDNS, the parsing of frames, of `arp-scan` and of the neighbour table, and the
  notations of MAC addresses: decoding of bytes, of which only the outcome
  (answered or not) matters to the state;
- the OUI table, platform detection, protocol types: data and stateless helpers;
- TLS and HTTP themselves, routing and headers: libraries and wiring; what they
  decide is in `CommandPath`, `Auth` and `AgentTrust`;
- the web UI, the installer and the command-line mains: presentation and
  packaging. `--reset-password` beside a running hub, and two enrollments at a
  time on one machine, would need a second process on the same files.
