----------------------------- MODULE CommandPath -----------------------------
(***************************************************************************)
(* The way of a command from the operator's request to the agent and back. *)
(* Registry is composed with its callers: the operator handlers of         *)
(* api_operator.go, which dispatch commands and switch agents off; the     *)
(* agent handlers of api_agent.go behind requireAgent; the agent's own     *)
(* loop (agent/run.go), which polls, executes and posts results; and the   *)
(* network between them, which may lose any response or request.           *)
(***************************************************************************)
EXTENDS Registry

VARIABLES
    record,    \* the agent's entry in the store, as requireAgent reads it
    adminOp,   \* the handler that last switched the agent off
    admitted,  \* poll requests past requireAgent that have not yet connected
    wire,      \* poll responses carrying a command to an agent
    running,   \* commands being executed by agents
    posted,    \* results on their way to the hub
    accepted,  \* results past requireAgent, not yet looked up
    execs      \* history: how often each command was executed

pathVars == <<record, adminOp, admitted, wire, running, posted, accepted, execs>>
allVars == <<vars, pathVars>>

agentSide == <<wire, running, posted, execs>>
hubSide   == <<record, adminOp, admitted, accepted>>

Records  == {"enabled", "disabled", "absent"}
AdminOps == {"none", "disconnecting", "completed"}

PathTypeOK ==
    /\ TypeOK
    /\ record \in [Agents -> Records]
    /\ adminOp \in [Agents -> AdminOps]
    /\ admitted \in [Polls -> Agents \cup {NoAgent}]
    /\ wire \subseteq Agents \X Cmds
    /\ running \subseteq Agents \X Cmds
    /\ posted \subseteq Agents \X Cmds
    /\ accepted \subseteq Agents \X Cmds
    /\ execs \in [Cmds -> Nat]

\* Every agent is enrolled and enabled, and nothing is under way.
PathInit ==
    /\ Init
    /\ record = [a \in Agents |-> "enabled"]
    /\ adminOp = [a \in Agents |-> "none"]
    /\ admitted = [p \in Polls |-> NoAgent]
    /\ wire = {}
    /\ running = {}
    /\ posted = {}
    /\ accepted = {}
    /\ execs = [c \in Cmds |-> 0]

-----------------------------------------------------------------------------
(* Operator requests *)

\* handleScan, handleDiscover, handleStatus, wake: the agent must have a
\* record (nobody asks whether it is disabled), then Server.dispatch begins.
\* The record lookup commutes with everything up to the Connected check.
RequestDispatch(c, a) ==
    /\ record[a] # "absent"
    /\ CheckConnected(c, a)
    /\ UNCHANGED pathVars

DispatchSteps(c) ==
    /\ Enqueue(c) \/ TakeResult(c) \/ GiveUp(c) \/ Unregister(c)
    /\ UNCHANGED pathVars

\* handleListAgents asks Connected for every agent.
ListAgents(a) == Reap(a) /\ UNCHANGED pathVars

\* handleUpdateAgent (disable) and handleDeleteAgent, first half: the store
\* is changed in memory; if writing it to disk fails the handler stops there.
SwitchOff(a, r) ==
    /\ record[a] # "absent"
    /\ record' = [record EXCEPT ![a] = r]
    /\ \/ adminOp' = [adminOp EXCEPT ![a] = "disconnecting"]
       \/ UNCHANGED adminOp
    /\ UNCHANGED <<vars, admitted, accepted, agentSide>>

\* ... second half: the agent's inbox is dropped.
FinishSwitchOff(a) ==
    /\ adminOp[a] = "disconnecting"
    /\ Disconnect(a)
    /\ adminOp' = [adminOp EXCEPT ![a] = IF record[a] = "enabled" THEN "none"
                                                               ELSE "completed"]
    /\ UNCHANGED <<record, admitted, accepted, agentSide>>

\* The record is enabled again: by handleUpdateAgent, or because a handler
\* stores the copy of it that it had read before (handleAgentHello,
\* handleDiscover).
SwitchOn(a) ==
    /\ record[a] # "enabled"
    /\ record' = [record EXCEPT ![a] = "enabled"]
    /\ adminOp' = [adminOp EXCEPT ![a] = IF @ = "completed" THEN "none" ELSE @]
    /\ UNCHANGED <<vars, admitted, accepted, agentSide>>

-----------------------------------------------------------------------------
(* Poll requests *)

\* requireAgent lets the request through; refused ones change nothing.
AdmitPoll(p, a) ==
    /\ record[a] = "enabled"
    /\ admitted[p] = NoAgent
    /\ pollSt[p] = "idle"
    /\ admitted' = [admitted EXCEPT ![p] = a]
    /\ UNCHANGED <<vars, record, adminOp, accepted, agentSide>>

\* handleAgentPoll connects, without another look at the record.
ConnectPoll(p) ==
    /\ admitted[p] # NoAgent
    /\ Connect(p, admitted[p])
    /\ admitted' = [admitted EXCEPT ![p] = NoAgent]
    /\ UNCHANGED <<record, adminOp, accepted, agentSide>>

\* The command is received from the inbox and written to the response.
AnswerPoll(p) ==
    /\ TakeCommand(p)
    /\ wire' = wire \cup {<<pollAgent[p], Head(inbox[pollChan[p]])>>}
    /\ UNCHANGED <<hubSide, running, posted, execs>>

FinishPoll(p) ==
    /\ EndPoll(p) \/ Release(p)
    /\ UNCHANGED pathVars

-----------------------------------------------------------------------------
(* The agent *)

\* Agent.poll returns the command and Run starts execute on a goroutine.
Receive(a, c) ==
    /\ <<a, c>> \in wire
    /\ wire' = wire \ {<<a, c>>}
    /\ running' = running \cup {<<a, c>>}
    /\ UNCHANGED <<vars, hubSide, posted, execs>>

\* Faulty: the agent keeps the command until the hub has taken its result.
ExecuteAndKeep(a, c) ==
    /\ <<a, c>> \in running
    /\ execs' = [execs EXCEPT ![c] = @ + 1]
    /\ posted' = posted \cup {<<a, c>>}
    /\ UNCHANGED <<vars, hubSide, wire, running>>

\* execute: the command is run, once, and its result posted, once.
Execute(a, c) ==
    /\ <<a, c>> \in running
    /\ running' = running \ {<<a, c>>}
    /\ execs' = [execs EXCEPT ![c] = @ + 1]
    /\ posted' = posted \cup {<<a, c>>}
    /\ UNCHANGED <<vars, hubSide, wire>>

\* The poll's response is lost, or the agent's process ends, with the command
\* not yet run.  Nothing in the hub or the agent sends it again.
LoseCommand(a, c) ==
    /\ <<a, c>> \in wire \cup running
    /\ wire' = wire \ {<<a, c>>}
    /\ running' = running \ {<<a, c>>}
    /\ UNCHANGED <<vars, hubSide, posted, execs>>

\* postResult fails: the agent logs that and drops the result.
LoseResult(a, c) ==
    /\ <<a, c>> \in posted
    /\ posted' = posted \ {<<a, c>>}
    /\ UNCHANGED <<vars, hubSide, wire, running, execs>>

-----------------------------------------------------------------------------
(* Results *)

\* requireAgent again; a result of an agent that is off now is refused.
AdmitResult(a, c) ==
    /\ <<a, c>> \in posted
    /\ posted' = posted \ {<<a, c>>}
    /\ accepted' = IF record[a] = "enabled" THEN accepted \cup {<<a, c>>}
                                            ELSE accepted
    /\ UNCHANGED <<vars, record, adminOp, admitted, wire, running, execs>>

\* handleAgentResult calls Deliver; without a waiter the agent is told so.
DeliverResult(a, c) ==
    /\ <<a, c>> \in accepted
    /\ accepted' = accepted \ {<<a, c>>}
    /\ IF c \in pending THEN Lookup(a, c) ELSE UNCHANGED vars
    /\ UNCHANGED <<record, adminOp, admitted, agentSide>>

SendResult(a, c) == Send(a, c) /\ UNCHANGED pathVars

-----------------------------------------------------------------------------
PathTick == Tick /\ UNCHANGED pathVars

\* The hub goes down and comes back.  Its requests are gone; what agents are
\* doing, and what they sent or were sent, is not.
HubRestart ==
    /\ Restart
    /\ admitted' = [p \in Polls |-> NoAgent]
    /\ accepted' = {}
    /\ adminOp' = [a \in Agents |->
                     IF adminOp[a] = "disconnecting" THEN "none" ELSE adminOp[a]]
    /\ UNCHANGED <<record, agentSide>>

PathNext ==
    \/ \E c \in Cmds, a \in Agents : RequestDispatch(c, a)
    \/ \E c \in Cmds : DispatchSteps(c)
    \/ \E a \in Agents : \/ ListAgents(a)
                         \/ \E r \in {"disabled", "absent"} : SwitchOff(a, r)
                         \/ FinishSwitchOff(a)
                         \/ SwitchOn(a)
    \/ \E p \in Polls : \/ \E a \in Agents : AdmitPoll(p, a)
                        \/ ConnectPoll(p)
                        \/ AnswerPoll(p)
                        \/ FinishPoll(p)
    \/ \E a \in Agents, c \in Cmds : \/ Receive(a, c) \/ Execute(a, c)
                                     \/ LoseCommand(a, c) \/ LoseResult(a, c)
                                     \/ AdmitResult(a, c) \/ DeliverResult(a, c)
                                     \/ SendResult(a, c)
    \/ PathTick
    \/ HubRestart

PathSpec == PathInit /\ [][PathNext]_allVars

\* Goroutines run: each Dispatch call goes on to its return (its context ends
\* at commandTimeout at the latest), and an admitted poll connects and ends.
\* The agent's loop polls again for ever; when a command and the timer are
\* both ready, select picks either, so a poll cannot miss a waiting command
\* on every one of infinitely many occasions.
Fairness ==
    /\ \A c \in Cmds : WF_allVars(DispatchSteps(c))
    /\ \A p \in Polls : /\ WF_allVars(\E a \in Agents : AdmitPoll(p, a))
                        /\ WF_allVars(ConnectPoll(p))
                        /\ SF_allVars(AnswerPoll(p))
                        /\ WF_allVars(FinishPoll(p))

FairPathSpec == PathSpec /\ Fairness

-----------------------------------------------------------------------------
(* Properties *)

\* No command is executed twice, by whichever agents and through whatever
\* losses, reconnects and restarts: nothing re-sends a command.
ExecutedOnce == \A c \in Cmds : execs[c] <= 1

\* The refinement mapping: what the operator's call has come to.
PhaseOf(c) ==
    IF outcome[c] = "none" THEN IF disp[c] = "waiting" THEN "open" ELSE "new"
    ELSE IF outcome[c] = "timeout" THEN "gaveup" ELSE outcome[c]

Service == INSTANCE CommandService WITH
              phase <- [c \in Cmds |-> PhaseOf(c)],
              ran   <- {c \in Cmds : execs[c] > 0}

\* The command path keeps the promises of CommandService: a refused command
\* never runs, an answered one ran before the answer, and every call returns.
ImplementsService == Service!Spec

\* Once an agent stays enabled, a command waiting in its inbox does not stay
\* there: the agent takes it or the inbox is dropped.
InboxDrains ==
    \A c \in Cmds, a \in Agents :
        (<>[](record[a] = "enabled" /\ target[c] = a)) =>
            [](Queued(c) => <>~Queued(c))

\* Once handleUpdateAgent has finished disabling an agent, and until it is
\* enabled again, nothing queued reaches that agent ("Drop the inbox so nothing
\* queued reaches an agent the operator has just switched off").
NothingReachesDisabled ==
    [][\A a \in Agents :
          record[a] = "disabled" /\ adminOp[a] = "completed" =>
            \A c \in Cmds : <<a, c>> \in handed' => <<a, c>> \in handed]_allVars

-----------------------------------------------------------------------------
(* Why the properties hold: the parts of an inductive invariant *)

\* A command on its way to an agent or in its hands was handed out, is in one
\* place and has not been run; one that was run was handed out.
NotYetRun ==
    /\ wire \cup running \subseteq handed
    /\ wire \cap running = {}
    /\ \A h \in wire \cup running : execs[h[2]] = 0
    /\ \A c \in Cmds : execs[c] > 0 => \E a \in Agents : <<a, c>> \in handed

\* A result, wherever it is, is of a command that was run.
ResultOfRun ==
    /\ \A h \in posted \cup accepted \cup found : execs[h[2]] > 0
    /\ \A c \in Cmds : result[c] # NoAgent \/ outcome[c] = "answered" => execs[c] > 0

=============================================================================
