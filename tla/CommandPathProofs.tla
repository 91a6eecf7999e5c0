-------------------------- MODULE CommandPathProofs --------------------------
(***************************************************************************)
(* Proofs about CommandPath, for every number of agents, commands, polls   *)
(* and channels: the callers of the registry keep its invariant, no        *)
(* command is executed twice, and what the operator is told keeps the      *)
(* promises of CommandService (but for its liveness).                      *)
(***************************************************************************)
EXTENDS CommandPath, RegistryProofs

-----------------------------------------------------------------------------
(* The registry under its callers *)

\* What PathTypeOK adds to the registry's types.
PathTypes ==
    /\ record \in [Agents -> Records]
    /\ adminOp \in [Agents -> AdminOps]
    /\ admitted \in [Polls -> Agents \cup {NoAgent}]
    /\ wire \subseteq Agents \X Cmds
    /\ running \subseteq Agents \X Cmds
    /\ posted \subseteq Agents \X Cmds
    /\ accepted \subseteq Agents \X Cmds
    /\ execs \in [Cmds -> Nat]

\* Every step of the path is a step of the registry or leaves it alone.
LEMMA RegistryStep == PathTypes /\ [PathNext]_allVars => [Next]_vars
<1> SUFFICES ASSUME PathTypes, [PathNext]_allVars, vars' # vars PROVE Next
  OBVIOUS
<1>1. ASSUME NEW c \in Cmds, NEW a \in Agents, RequestDispatch(c, a) PROVE Next
  BY <1>1 DEF RequestDispatch, Next, DispatchStep
<1>2. ASSUME NEW c \in Cmds, DispatchSteps(c) PROVE Next
  BY <1>2 DEF DispatchSteps, Next, DispatchStep
<1>3. ASSUME NEW a \in Agents, ListAgents(a) \/ FinishSwitchOff(a) PROVE Next
  BY <1>3 DEF ListAgents, FinishSwitchOff, Next
<1>4. ASSUME NEW p \in Polls, ConnectPoll(p) PROVE Next
  <2>1. admitted[p] \in Agents BY <1>4 DEF ConnectPoll, PathTypes
  <2> QED BY <1>4, <2>1 DEF ConnectPoll, Next, PollStep
<1>5. ASSUME NEW p \in Polls, AnswerPoll(p) \/ FinishPoll(p) PROVE Next
  BY <1>5 DEF AnswerPoll, FinishPoll, Next, PollStep
<1>6. ASSUME NEW a \in Agents, NEW c \in Cmds, DeliverResult(a, c) \/ SendResult(a, c)
      PROVE  Next
  BY <1>6 DEF DeliverResult, SendResult, Next
<1>7. CASE PathTick BY <1>7 DEF PathTick, Next
<1>8. CASE HubRestart BY <1>8 DEF HubRestart, Next
<1>9. CASE UNCHANGED allVars BY <1>9 DEF allVars
<1>10. ASSUME NEW a \in Agents,
              \/ \E r \in {"disabled", "absent"} : SwitchOff(a, r)
              \/ SwitchOn(a)
              \/ \E p \in Polls : AdmitPoll(p, a)
              \/ \E c \in Cmds : \/ Receive(a, c) \/ Execute(a, c) \/ LoseCommand(a, c)
                                 \/ LoseResult(a, c) \/ AdmitResult(a, c)
       PROVE  vars' = vars
  BY <1>10 DEF SwitchOff, SwitchOn, AdmitPoll, Receive, Execute, LoseCommand, LoseResult,
               AdmitResult
<1> QED BY <1>1, <1>2, <1>3, <1>4, <1>5, <1>6, <1>7, <1>8, <1>9, <1>10 DEF PathNext

\* A command a poll takes is one of Cmds, was queued and is taken for an agent.
LEMMA TakenCommand ==
    ASSUME TypeInv, NEW p \in Polls, TakeCommand(p)
    PROVE  /\ pollAgent[p] \in Agents
           /\ Head(inbox[pollChan[p]]) \in Cmds
           /\ Queued(Head(inbox[pollChan[p]]))
           /\ handed' = handed \cup {<<pollAgent[p], Head(inbox[pollChan[p]])>>}
<1>1. pollChan[p] \in Chans /\ pollAgent[p] \in Agents
  BY DEF TypeInv, TypeOK, PollShape, TakeCommand
<1>2. inbox[pollChan[p]] \in Seq(Cmds) /\ inbox[pollChan[p]] # <<>>
  BY <1>1 DEF TypeInv, TypeOK, TakeCommand
<1>3. /\ 1 \in DOMAIN inbox[pollChan[p]]
      /\ Head(inbox[pollChan[p]]) = inbox[pollChan[p]][1]
      /\ Head(inbox[pollChan[p]]) \in Cmds
  BY <1>2, TailElements
<1> QED BY <1>1, <1>3 DEF TakeCommand, Queued

\* The handlers and the agent keep the types.
LEMMA PathTypesStep == TypeInv /\ PathTypes /\ [PathNext]_allVars => PathTypes'
<1> SUFFICES ASSUME TypeInv, PathTypes, [PathNext]_allVars PROVE PathTypes'
  OBVIOUS
<1> USE DEF PathTypes, pathVars, agentSide, hubSide, Records, AdminOps
<1>1. ASSUME UNCHANGED pathVars PROVE PathTypes' BY <1>1
<1>2. ASSUME NEW a \in Agents, NEW r \in {"disabled", "absent"}, SwitchOff(a, r)
      PROVE  PathTypes'
  BY <1>2 DEF SwitchOff
<1>3. ASSUME NEW a \in Agents, FinishSwitchOff(a) \/ SwitchOn(a) PROVE PathTypes'
  BY <1>3 DEF FinishSwitchOff, SwitchOn
<1>4. ASSUME NEW p \in Polls, NEW a \in Agents, AdmitPoll(p, a) PROVE PathTypes'
  BY <1>4 DEF AdmitPoll
<1>5. ASSUME NEW p \in Polls, ConnectPoll(p) PROVE PathTypes'
  BY <1>5 DEF ConnectPoll
<1>6. ASSUME NEW p \in Polls, AnswerPoll(p) PROVE PathTypes'
  <2>1. pollAgent[p] \in Agents /\ Head(inbox[pollChan[p]]) \in Cmds
    BY <1>6, TakenCommand DEF AnswerPoll
  <2> QED BY <1>6, <2>1 DEF AnswerPoll
<1>7. ASSUME NEW a \in Agents, NEW c \in Cmds,
             \/ Receive(a, c) \/ Execute(a, c) \/ LoseCommand(a, c) \/ LoseResult(a, c)
             \/ AdmitResult(a, c) \/ DeliverResult(a, c)
      PROVE  PathTypes'
  BY <1>7 DEF Receive, Execute, LoseCommand, LoseResult, AdmitResult, DeliverResult
<1>8. CASE HubRestart BY <1>8 DEF HubRestart
<1> QED BY <1>1, <1>2, <1>3, <1>4, <1>5, <1>6, <1>7, <1>8
        DEF PathNext, RequestDispatch, DispatchSteps, ListAgents, FinishPoll, SendResult,
            PathTick, allVars

-----------------------------------------------------------------------------
(* Execution *)

\* Where a command is, and that it runs once: a command enters wire only when
\* it is handed out, which the registry does once.
RunInv == NotYetRun /\ ExecutedOnce

\* Every step keeps RunInv: handing out, receiving and executing a command move
\* it along without leaving a copy behind.
LEMMA RunStep ==
    RegistryInv /\ PathTypes /\ RunInv /\ [PathNext]_allVars => RunInv'
<1> SUFFICES ASSUME RegistryInv, PathTypes, RunInv, [PathNext]_allVars PROVE RunInv'
  OBVIOUS
<1> USE DEF PathTypes, RunInv, NotYetRun, ExecutedOnce
<1>0. TypeInv /\ HandedOnce /\ HandedToTarget BY DEF RegistryInv, QueueInv
<1>1. ASSUME UNCHANGED <<wire, running, execs, handed>> PROVE RunInv' BY <1>1
<1>2. ASSUME NEW p \in Polls, AnswerPoll(p) PROVE RunInv'
  <2> DEFINE a == pollAgent[p]
             c == Head(inbox[pollChan[p]])
  <2>1. a \in Agents /\ c \in Cmds /\ Queued(c) /\ handed' = handed \cup {<<a, c>>}
    BY <1>0, <1>2, TakenCommand DEF AnswerPoll
  <2>2. wire' = wire \cup {<<a, c>>} /\ UNCHANGED <<running, execs>>
    BY <1>2 DEF AnswerPoll
  <2> HIDE DEF a, c
  <2>3. \A b \in Agents : <<b, c>> \notin handed
    BY <1>0, <2>1 DEF HandedOnce
  <2>4. execs[c] = 0
    <3>1. execs[c] \in Nat BY <2>1
    <3>2. ~(execs[c] > 0) BY <2>1, <2>3
    <3> QED BY <3>1, <3>2
  <2>5. <<a, c>> \notin running BY <2>1, <2>3
  <2>6. (wire \cup running)' \subseteq handed' BY <2>1, <2>2
  <2>7. wire' \cap running' = {} BY <2>2, <2>5
  <2>8. \A h \in (wire \cup running)' : execs'[h[2]] = 0
    <3> SUFFICES ASSUME NEW h \in (wire \cup running)' PROVE execs[h[2]] = 0
      BY <2>2
    <3>1. CASE h = <<a, c>> BY <2>4, <3>1
    <3>2. CASE h \in wire \cup running BY <3>2
    <3> QED BY <2>2, <3>1, <3>2
  <2>9. \A d \in Cmds : execs'[d] > 0 => \E b \in Agents : <<b, d>> \in handed'
    BY <2>1, <2>2
  <2>10. ExecutedOnce' BY <2>2
  <2> QED BY <2>6, <2>7, <2>8, <2>9, <2>10
<1>3. ASSUME NEW a \in Agents, NEW c \in Cmds, Receive(a, c) PROVE RunInv'
  <2>1. UNCHANGED <<handed, execs>> BY <1>3 DEF Receive, vars
  <2> QED BY <1>3, <2>1 DEF Receive
<1>4. ASSUME NEW a \in Agents, NEW c \in Cmds, LoseCommand(a, c) PROVE RunInv'
  <2>1. UNCHANGED <<handed, execs>> BY <1>4 DEF LoseCommand, vars
  <2> QED BY <1>4, <2>1 DEF LoseCommand
<1>5. ASSUME NEW a \in Agents, NEW c \in Cmds, Execute(a, c) PROVE RunInv'
  <2>1. UNCHANGED <<handed, wire>> /\ running' = running \ {<<a, c>>}
        /\ execs' = [execs EXCEPT ![c] = @ + 1] /\ <<a, c>> \in running
    BY <1>5 DEF Execute, vars
  <2>2. execs[c] = 0 /\ <<a, c>> \in handed BY <2>1
  <2>3. ASSUME NEW h \in wire' \cup running' PROVE h[2] # c
    <3>1. h \in handed /\ h # <<a, c>> BY <2>1
    <3>2. h = <<h[1], h[2]>> BY <2>1
    <3>3. target[h[2]] = h[1] /\ target[c] = a
      BY <1>0, <2>2, <3>1 DEF HandedToTarget
    <3> QED BY <3>1, <3>2, <3>3
  <2>4. \A h \in wire' \cup running' : execs'[h[2]] = 0
    BY <2>1, <2>3
  <2>5. (wire \cup running)' \subseteq handed' /\ wire' \cap running' = {} BY <2>1
  <2>6. ASSUME NEW d \in Cmds
        PROVE  execs'[d] <= 1 /\ (execs'[d] > 0 => \E b \in Agents : <<b, d>> \in handed')
    <3>1. execs'[c] = 1 /\ <<a, c>> \in handed' BY <2>1, <2>2
    <3>2. CASE d = c
      <4>1. execs'[d] <= 1 BY <3>1, <3>2
      <4>2. \E b \in Agents : <<b, d>> \in handed' BY <3>1, <3>2, Zenon
      <4> QED BY <4>1, <4>2
    <3>3. CASE d # c BY <2>1, <3>3
    <3> QED BY <3>2, <3>3
  <2> QED BY <2>4, <2>5, <2>6
<1>6. ASSUME NEW c \in Cmds, DispatchSteps(c) PROVE RunInv'
  BY <1>1, <1>6 DEF DispatchSteps, Enqueue, TakeResult, GiveUp, Unregister, pathVars
<1>7. ASSUME NEW c \in Cmds, NEW a \in Agents,
             RequestDispatch(c, a) \/ SendResult(a, c)
      PROVE  RunInv'
  BY <1>1, <1>7 DEF RequestDispatch, CheckConnected, SendResult, Send, pathVars
<1>8. ASSUME NEW a \in Agents,
             \/ ListAgents(a) \/ FinishSwitchOff(a) \/ SwitchOn(a)
             \/ \E r \in {"disabled", "absent"} : SwitchOff(a, r)
             \/ \E p \in Polls : AdmitPoll(p, a)
      PROVE  RunInv'
  BY <1>1, <1>8 DEF ListAgents, Reap, FinishSwitchOff, Disconnect, SwitchOn, SwitchOff,
                    AdmitPoll, agentSide, vars, pathVars
<1>9. ASSUME NEW p \in Polls, ConnectPoll(p) \/ FinishPoll(p) PROVE RunInv'
  <2>1. CASE ConnectPoll(p)
    BY <1>1, <2>1 DEF ConnectPoll, Connect, agentSide
  <2>2. CASE FinishPoll(p)
    BY <1>1, <2>2 DEF FinishPoll, EndPoll, Release, pathVars
  <2> QED BY <1>9, <2>1, <2>2
<1>10. ASSUME NEW a \in Agents, NEW c \in Cmds,
              LoseResult(a, c) \/ AdmitResult(a, c) \/ DeliverResult(a, c)
       PROVE  RunInv'
  BY <1>1, <1>10 DEF LoseResult, AdmitResult, DeliverResult, Lookup, agentSide, vars
<1>11. CASE PathTick BY <1>1, <1>11 DEF PathTick, Tick, pathVars
<1>12. CASE HubRestart BY <1>1, <1>12 DEF HubRestart, Restart, agentSide
<1>13. CASE UNCHANGED allVars BY <1>1, <1>13 DEF allVars, vars, pathVars
<1> HIDE DEF PathTypes, RunInv, NotYetRun, ExecutedOnce
<1> QED BY <1>2, <1>3, <1>4, <1>5, <1>6, <1>7, <1>8, <1>9, <1>10, <1>11, <1>12, <1>13
        DEF PathNext

-----------------------------------------------------------------------------
(* Results *)

\* The registry's part of ResultOfRun is kept by every step that brings no
\* result into it and un-runs nothing.
LEMMA NoNewResults ==
    ASSUME PathTypes, TypeInv, ResultOfRun,
           execs' \in [Cmds -> Nat], \A c \in Cmds : execs[c] > 0 => execs'[c] > 0,
           (posted \cup accepted \cup found)' \subseteq posted \cup accepted \cup found,
           \A c \in Cmds : result'[c] # NoAgent => result'[c] = result[c],
           \A c \in Cmds : outcome'[c] = "answered" => outcome[c] = "answered"
    PROVE  ResultOfRun'
<1>1. ASSUME NEW h \in (posted \cup accepted \cup found)' PROVE execs'[h[2]] > 0
  <2>1. h \in posted \cup accepted \cup found OBVIOUS
  <2>2. h[2] \in Cmds BY <2>1 DEF PathTypes, TypeInv, TypeOK
  <2>3. execs[h[2]] > 0 BY <2>1 DEF ResultOfRun
  <2> QED BY <2>2, <2>3
<1>2. ASSUME NEW c \in Cmds, result'[c] # NoAgent \/ outcome'[c] = "answered"
      PROVE  execs'[c] > 0
  <2>1. result[c] # NoAgent \/ outcome[c] = "answered" BY <1>2
  <2>2. execs[c] > 0 BY <2>1 DEF ResultOfRun
  <2> QED BY <2>2
<1> QED BY <1>1, <1>2 DEF ResultOfRun

\* Results are made by Execute alone, and passed on.
LEMMA ResultStep ==
    RegistryInv /\ PathTypes /\ RunInv /\ ResultOfRun /\ [PathNext]_allVars => ResultOfRun'
<1> SUFFICES ASSUME RegistryInv, PathTypes, RunInv, ResultOfRun, [PathNext]_allVars
             PROVE  ResultOfRun'
  OBVIOUS
<1>0. TypeInv BY DEF RegistryInv
<1>1. ASSUME UNCHANGED execs,
             (posted \cup accepted \cup found)' \subseteq posted \cup accepted \cup found,
             \A c \in Cmds : result'[c] # NoAgent => result'[c] = result[c],
             \A c \in Cmds : outcome'[c] = "answered" => outcome[c] = "answered"
      PROVE  ResultOfRun'
  <2>1. execs' \in [Cmds -> Nat] /\ \A c \in Cmds : execs[c] > 0 => execs'[c] > 0
    BY <1>1 DEF PathTypes
  <2> QED BY <1>0, <1>1, <2>1, NoNewResults
<1>2. ASSUME NEW a \in Agents, NEW c \in Cmds, Execute(a, c) PROVE ResultOfRun'
  <2>1. /\ UNCHANGED <<accepted, found, result, outcome>> /\ posted' = posted \cup {<<a, c>>}
        /\ execs' = [execs EXCEPT ![c] = @ + 1]
    BY <1>2 DEF Execute, vars, hubSide
  <2>2. \A d \in Cmds : execs[d] \in Nat BY DEF PathTypes
  <2>3. /\ execs'[c] > 0
        /\ \A d \in Cmds : execs[d] > 0 => execs'[d] > 0
    BY <2>1, <2>2 DEF PathTypes
  <2>4. ASSUME NEW h \in (posted \cup accepted \cup found)' PROVE execs'[h[2]] > 0
    <3>1. CASE h = <<a, c>> BY <2>3, <3>1
    <3>2. CASE h \in posted \cup accepted \cup found
      <4>1. h[2] \in Cmds BY <1>0, <3>2 DEF PathTypes, TypeInv, TypeOK
      <4>2. execs[h[2]] > 0 BY <3>2 DEF ResultOfRun
      <4> QED BY <2>3, <4>1, <4>2
    <3> QED BY <2>1, <3>1, <3>2
  <2>5. \A d \in Cmds : result'[d] # NoAgent \/ outcome'[d] = "answered" => execs'[d] > 0
    BY <2>1, <2>3 DEF ResultOfRun
  <2> QED BY <2>4, <2>5 DEF ResultOfRun
<1>3. ASSUME NEW a \in Agents, NEW c \in Cmds, SendResult(a, c) PROVE ResultOfRun'
  <2>1. /\ UNCHANGED <<posted, accepted, execs, outcome>> /\ found' = found \ {<<a, c>>}
        /\ <<a, c>> \in found
        /\ result' = result \/ result' = [result EXCEPT ![c] = a]
    BY <1>3 DEF SendResult, Send, callers, pathVars
  <2>2. execs[c] > 0 BY <2>1 DEF ResultOfRun
  <2>3. \A h \in (posted \cup accepted \cup found)' : execs'[h[2]] > 0
    BY <2>1 DEF ResultOfRun
  <2>4. \A d \in Cmds : result'[d] # NoAgent \/ outcome'[d] = "answered" => execs'[d] > 0
    BY <1>0, <2>1, <2>2 DEF ResultOfRun, TypeInv, TypeOK
  <2> QED BY <2>3, <2>4 DEF ResultOfRun
<1>4. ASSUME NEW c \in Cmds, DispatchSteps(c) PROVE ResultOfRun'
  <2>1. UNCHANGED <<posted, accepted, execs, found>>
    BY <1>4 DEF DispatchSteps, Enqueue, TakeResult, GiveUp, Unregister, resultBox, pathVars
  <2>2. CASE TakeResult(c)
    <3>1. /\ result[c] # NoAgent /\ outcome' = [outcome EXCEPT ![c] = "answered"]
          /\ result' = [result EXCEPT ![c] = NoAgent]
      BY <2>2 DEF TakeResult
    <3>2. execs[c] > 0 BY <3>1 DEF ResultOfRun
    <3>3. \A h \in (posted \cup accepted \cup found)' : execs'[h[2]] > 0
      BY <2>1 DEF ResultOfRun
    <3>4. \A d \in Cmds : result'[d] # NoAgent \/ outcome'[d] = "answered" => execs'[d] > 0
      BY <1>0, <2>1, <3>1, <3>2 DEF ResultOfRun, TypeInv, TypeOK
    <3> QED BY <3>3, <3>4 DEF ResultOfRun
  <2>3. CASE Enqueue(c) \/ GiveUp(c) \/ Unregister(c)
    <3>1. UNCHANGED result
      BY <2>3 DEF Enqueue, GiveUp, Unregister, resultBox
    <3>2. outcome' = outcome \/ outcome' = [outcome EXCEPT ![c] = "refused"]
          \/ outcome' = [outcome EXCEPT ![c] = "timeout"]
      BY <2>3 DEF Enqueue, GiveUp, Unregister, Refuse, channels
    <3>3. \A d \in Cmds : outcome'[d] = "answered" => outcome[d] = "answered"
      BY <1>0, <3>2 DEF TypeInv, TypeOK
    <3> QED BY <1>1, <2>1, <3>1, <3>3
  <2> QED BY <1>4, <2>2, <2>3 DEF DispatchSteps
<1>5. ASSUME NEW c \in Cmds, NEW a \in Agents, RequestDispatch(c, a) PROVE ResultOfRun'
  <2>1. UNCHANGED <<posted, accepted, execs, found, result>>
    BY <1>5 DEF RequestDispatch, CheckConnected, resultBox, pathVars
  <2>2. outcome' = outcome \/ outcome' = [outcome EXCEPT ![c] = "refused"]
    BY <1>5 DEF RequestDispatch, CheckConnected, Refuse
  <2>3. \A d \in Cmds : outcome'[d] = "answered" => outcome[d] = "answered"
    BY <1>0, <2>2 DEF TypeInv, TypeOK
  <2> QED BY <1>1, <2>1, <2>3
<1>6. ASSUME NEW a \in Agents, NEW c \in Cmds, DeliverResult(a, c) PROVE ResultOfRun'
  <2>1. /\ UNCHANGED <<posted, execs, result, outcome>> /\ accepted' \subseteq accepted
        /\ <<a, c>> \in accepted /\ found' \subseteq found \cup {<<a, c>>}
    BY <1>6 DEF DeliverResult, Lookup, callers, agentSide, vars
  <2> QED BY <1>1, <2>1
<1>7. ASSUME NEW a \in Agents, NEW c \in Cmds,
             Receive(a, c) \/ LoseCommand(a, c) \/ LoseResult(a, c) \/ AdmitResult(a, c)
      PROVE  ResultOfRun'
  <2>1. UNCHANGED <<execs, found, result, outcome>>
    BY <1>7 DEF Receive, LoseCommand, LoseResult, AdmitResult, vars
  <2>2. (posted \cup accepted)' \subseteq posted \cup accepted
    BY <1>7 DEF Receive, LoseCommand, LoseResult, AdmitResult, hubSide
  <2> QED BY <1>1, <2>1, <2>2
<1>8. ASSUME NEW a \in Agents,
             \/ ListAgents(a) \/ FinishSwitchOff(a) \/ SwitchOn(a)
             \/ \E r \in {"disabled", "absent"} : SwitchOff(a, r)
             \/ \E p \in Polls : AdmitPoll(p, a)
      PROVE  ResultOfRun'
  <2>1. UNCHANGED <<posted, accepted, execs, found, result, outcome>>
    BY <1>8 DEF ListAgents, Reap, FinishSwitchOff, Disconnect, SwitchOn, SwitchOff,
                AdmitPoll, agentSide, vars, pathVars, resultBox, callers
  <2> QED BY <1>1, <2>1
<1>9. ASSUME NEW p \in Polls, ConnectPoll(p) \/ AnswerPoll(p) \/ FinishPoll(p)
      PROVE  ResultOfRun'
  <2>1. CASE ConnectPoll(p)
    BY <1>1, <2>1 DEF ConnectPoll, Connect, agentSide, resultBox, callers
  <2>2. CASE AnswerPoll(p)
    BY <1>1, <2>2 DEF AnswerPoll, TakeCommand, hubSide, resultBox, callers
  <2>3. CASE FinishPoll(p)
    BY <1>1, <2>3 DEF FinishPoll, EndPoll, Release, pathVars, resultBox, callers
  <2> QED BY <1>9, <2>1, <2>2, <2>3
<1>10. CASE PathTick BY <1>1, <1>10 DEF PathTick, Tick, pathVars, resultBox, callers
<1>11. CASE HubRestart
  <2>1. /\ UNCHANGED <<posted, execs>> /\ accepted' = {} /\ found' = {}
        /\ result' = [c \in Cmds |-> NoAgent]
    BY <1>11 DEF HubRestart, Restart, agentSide
  <2>2. \A c \in Cmds : outcome'[c] = "answered" => outcome[c] = "answered"
    BY <1>11 DEF HubRestart, Restart
  <2> QED BY <1>1, <2>1, <2>2
<1>12. CASE UNCHANGED allVars BY <1>1, <1>12 DEF allVars, vars, pathVars
<1> QED BY <1>2, <1>3, <1>4, <1>5, <1>6, <1>7, <1>8, <1>9, <1>10, <1>11, <1>12 DEF PathNext

-----------------------------------------------------------------------------
(* The invariant *)

PathInv == RegistryInv /\ PathTypes /\ RunInv /\ ResultOfRun

\* PathInv holds of every reachable state.
LEMMA PathInvariant == PathSpec => []PathInv
<1>1. PathInit => PathInv
  <2>1. ASSUME PathInit PROVE RegistryInv
    BY <2>1, TypeInit, OwnerInit, CallInit, QueueInit, HoldInit DEF PathInit, RegistryInv
  <2>2. ASSUME PathInit PROVE PathTypes /\ RunInv /\ ResultOfRun
    BY <2>2 DEF PathInit, Init, PathTypes, Records, AdminOps, RunInv, NotYetRun, ExecutedOnce,
                ResultOfRun
  <2> QED BY <2>1, <2>2 DEF PathInv
<1>2. PathInv /\ [PathNext]_allVars => PathInv'
  <2> SUFFICES ASSUME PathInv, [PathNext]_allVars PROVE PathInv'
    OBVIOUS
  <2>1. [Next]_vars BY RegistryStep DEF PathInv
  <2>2. RegistryInv'
    BY <2>1, TypeStep, OwnerStep, CallStep, QueueStep, HoldStep DEF PathInv, RegistryInv
  <2>3. PathTypes' BY PathTypesStep DEF PathInv, RegistryInv
  <2> QED BY <2>2, <2>3, RunStep, ResultStep DEF PathInv
<1> QED BY <1>1, <1>2, PTL DEF PathSpec

\* Registry, handlers, agents and network keep their types together.
THEOREM PathTypeCorrect == PathSpec => []PathTypeOK
<1>1. PathInv => PathTypeOK BY DEF PathInv, RegistryInv, TypeInv, PathTypes, PathTypeOK
<1> QED BY <1>1, PathInvariant, PTL

\* Whatever is lost on the way, whoever reconnects and wherever the hub goes
\* down, no agent executes a command that was executed before.
THEOREM NoCommandRunsTwice == PathSpec => []ExecutedOnce
<1>1. PathInv => ExecutedOnce BY DEF PathInv, RunInv
<1> QED BY <1>1, PathInvariant, PTL

-----------------------------------------------------------------------------
(* What the operator is told *)

\* A step that leaves all phases and executions alone is a stutter.
LEMMA ServiceStutter ==
    ASSUME UNCHANGED <<outcome, disp, execs>>
    PROVE  UNCHANGED Service!vars
BY DEF Service!vars, PhaseOf

\* Failing the call of one command.
LEMMA ServiceFailOne ==
    ASSUME NEW c \in Cmds, UNCHANGED execs,
           \A d \in Cmds \ {c} : PhaseOf(d)' = PhaseOf(d),
           \/ PhaseOf(c) = "new" /\ PhaseOf(c)' = "refused"
           \/ PhaseOf(c) = "open" /\ PhaseOf(c)' = "gaveup"
    PROVE  Service!Next
<1>1. Service!Fail({c}) BY DEF Service!Fail
<1> QED BY <1>1 DEF Service!Next

\* Every step of the command path is one of CommandService, or no step of it:
\* a call is submitted when its command is queued, and a command runs when an
\* agent executes it.
LEMMA ServiceStep ==
    PathInv /\ [PathNext]_allVars => [Service!Next]_(Service!vars)
<1> SUFFICES ASSUME PathInv, [PathNext]_allVars
             PROVE  [Service!Next]_(Service!vars)
  OBVIOUS
<1>0. TypeInv /\ CallShape /\ OnlySubmitted /\ RunInv /\ ResultOfRun /\ PathTypes
  BY DEF PathInv, RegistryInv, CallInv, QueueInv
<1>1. \A c \in Cmds : disp[c] \in DispStates /\ outcome[c] \in Outcomes
                      /\ (disp[c] \in {"new", "checked", "waiting"} <=> outcome[c] = "none")
  BY <1>0 DEF TypeInv, TypeOK, CallShape
<1>2. ASSUME NEW c \in Cmds, NEW a \in Agents, RequestDispatch(c, a)
      PROVE  [Service!Next]_(Service!vars)
  <2>1. UNCHANGED execs /\ disp[c] = "new" BY <1>2 DEF RequestDispatch, CheckConnected, pathVars
  <2>2. CASE disp' = [disp EXCEPT ![c] = "checked"] /\ UNCHANGED outcome
    <3>1. \A d \in Cmds : PhaseOf(d)' = PhaseOf(d)
      BY <1>0, <1>1, <2>1, <2>2 DEF PhaseOf, TypeInv, TypeOK
    <3> QED BY <2>1, <3>1 DEF Service!vars
  <2>3. CASE Refuse(c)
    <3>1. \A d \in Cmds \ {c} : PhaseOf(d)' = PhaseOf(d)
      BY <1>0, <2>3 DEF Refuse, PhaseOf, TypeInv, TypeOK
    <3>2. PhaseOf(c) = "new" /\ PhaseOf(c)' = "refused"
      BY <1>0, <1>1, <2>1, <2>3 DEF Refuse, PhaseOf, TypeInv, TypeOK
    <3> QED BY <2>1, <3>1, <3>2, ServiceFailOne
  <2> QED BY <1>2, <2>2, <2>3 DEF RequestDispatch, CheckConnected
<1>3. ASSUME NEW c \in Cmds, Enqueue(c), UNCHANGED pathVars
      PROVE  Service!Next
  <2>1. UNCHANGED execs /\ disp[c] = "checked" BY <1>3 DEF Enqueue, pathVars
  <2>2. CASE Refuse(c)
    <3>1. \A d \in Cmds \ {c} : PhaseOf(d)' = PhaseOf(d)
      BY <1>0, <2>2 DEF Refuse, PhaseOf, TypeInv, TypeOK
    <3>2. PhaseOf(c) = "new" /\ PhaseOf(c)' = "refused"
      BY <1>0, <1>1, <2>1, <2>2 DEF Refuse, PhaseOf, TypeInv, TypeOK
    <3> QED BY <2>1, <3>1, <3>2, ServiceFailOne
  <2>3. CASE disp' = [disp EXCEPT ![c] = "waiting"] /\ UNCHANGED outcome
    <3>1. \A d \in Cmds \ {c} : PhaseOf(d)' = PhaseOf(d)
      BY <1>0, <2>3 DEF PhaseOf, TypeInv, TypeOK
    <3>2. PhaseOf(c) = "new" /\ PhaseOf(c)' = "open"
      BY <1>0, <1>1, <2>1, <2>3 DEF PhaseOf, TypeInv, TypeOK
    <3>3. Service!Submit(c) BY <2>1, <3>1, <3>2 DEF Service!Submit
    <3> QED BY <3>3 DEF Service!Next
  <2> QED BY <1>3, <2>2, <2>3 DEF Enqueue
<1>4. ASSUME NEW c \in Cmds, TakeResult(c), UNCHANGED pathVars
      PROVE  Service!Next
  <2>1. UNCHANGED execs /\ disp[c] = "waiting" /\ execs[c] > 0
        /\ disp' = [disp EXCEPT ![c] = "returning"]
        /\ outcome' = [outcome EXCEPT ![c] = "answered"]
    BY <1>0, <1>4 DEF TakeResult, pathVars, ResultOfRun
  <2>2. \A d \in Cmds \ {c} : PhaseOf(d)' = PhaseOf(d)
    BY <1>0, <2>1 DEF PhaseOf, TypeInv, TypeOK
  <2>3. PhaseOf(c) = "open" /\ PhaseOf(c)' = "answered"
    BY <1>0, <1>1, <2>1 DEF PhaseOf, TypeInv, TypeOK
  <2>4. Service!Answer(c) BY <2>1, <2>2, <2>3 DEF Service!Answer
  <2> QED BY <2>4 DEF Service!Next
<1>5. ASSUME NEW c \in Cmds, GiveUp(c), UNCHANGED pathVars
      PROVE  Service!Next
  <2>1. UNCHANGED execs /\ disp[c] = "waiting"
        /\ disp' = [disp EXCEPT ![c] = "returning"]
        /\ outcome' = [outcome EXCEPT ![c] = "timeout"]
    BY <1>5 DEF GiveUp, pathVars
  <2>2. \A d \in Cmds \ {c} : PhaseOf(d)' = PhaseOf(d)
    BY <1>0, <2>1 DEF PhaseOf, TypeInv, TypeOK
  <2>3. PhaseOf(c) = "open" /\ PhaseOf(c)' = "gaveup"
    BY <1>0, <1>1, <2>1 DEF PhaseOf, TypeInv, TypeOK
  <2> QED BY <2>1, <2>2, <2>3, ServiceFailOne
<1>6. ASSUME NEW c \in Cmds, Unregister(c), UNCHANGED pathVars
      PROVE  UNCHANGED Service!vars
  <2>1. UNCHANGED <<execs, outcome>> /\ disp[c] = "returning"
        /\ disp' = [disp EXCEPT ![c] = "done"]
    BY <1>6 DEF Unregister, pathVars
  <2>2. \A d \in Cmds : PhaseOf(d)' = PhaseOf(d)
    BY <1>0, <1>1, <2>1 DEF PhaseOf, TypeInv, TypeOK
  <2> QED BY <2>1, <2>2 DEF Service!vars
<1>7. ASSUME NEW a \in Agents, NEW c \in Cmds, Execute(a, c)
      PROVE  Service!Next
  <2>1. /\ UNCHANGED <<outcome, disp>> /\ <<a, c>> \in running
        /\ execs' = [execs EXCEPT ![c] = @ + 1]
    BY <1>7 DEF Execute, vars
  <2>2. execs[c] = 0 /\ <<a, c>> \in handed BY <1>0, <2>1 DEF RunInv, NotYetRun
  <2>3. Submitted(c) BY <1>0, <2>2 DEF OnlySubmitted
  <2>4. outcome[c] # "answered" BY <1>0, <2>2 DEF ResultOfRun
  <2>5. PhaseOf(c) \in {"open", "gaveup"}
    BY <1>1, <2>3, <2>4 DEF Submitted, PhaseOf, Outcomes, DispStates
  <2>6. {d \in Cmds : execs[d] > 0}' = {d \in Cmds : execs[d] > 0} \cup {c}
    BY <1>0, <2>1, <2>2 DEF PathTypes
  <2>7. [d \in Cmds |-> PhaseOf(d)]' = [d \in Cmds |-> PhaseOf(d)]
    BY <2>1 DEF PhaseOf
  <2>8. Service!Run(c) BY <2>2, <2>5, <2>6, <2>7 DEF Service!Run
  <2> QED BY <2>8 DEF Service!Next
<1>8. CASE HubRestart
  <2> DEFINE S == {c \in Cmds : disp[c] \in {"checked", "waiting"}}
  <2>1. UNCHANGED execs BY <1>8 DEF HubRestart, agentSide
  <2>2. \A c \in S : PhaseOf(c) \in {"new", "open"}
    BY <1>1 DEF PhaseOf
  <2>3. ASSUME NEW c \in Cmds
        PROVE  PhaseOf(c)' = IF c \notin S THEN PhaseOf(c)
                             ELSE IF PhaseOf(c) = "new" THEN "refused" ELSE "gaveup"
    <3>1. disp'[c] = (IF disp[c] = "new" THEN "new" ELSE "done")
      BY <1>8 DEF HubRestart, Restart
    <3>2. CASE disp[c] = "checked"
      <4>1. outcome'[c] = "refused" BY <1>8, <3>2, Zenon DEF HubRestart, Restart
      <4> QED BY <1>1, <3>1, <3>2, <4>1 DEF PhaseOf
    <3>3. CASE disp[c] = "waiting"
      <4>1. outcome'[c] = "timeout" BY <1>8, <3>3, Zenon DEF HubRestart, Restart
      <4> QED BY <1>1, <3>1, <3>3, <4>1 DEF PhaseOf
    <3>4. CASE c \notin S
      <4>1. outcome'[c] = outcome[c] BY <1>8, <3>4, Zenon DEF HubRestart, Restart
      <4> QED BY <1>1, <3>1, <3>4, <4>1 DEF PhaseOf, DispStates
    <3> QED BY <3>2, <3>3, <3>4
  <2> HIDE DEF S
  <2>4. S \in SUBSET Cmds BY DEF S
  <2>5. [c \in Cmds |-> PhaseOf(c)]' =
           [c \in Cmds |-> IF c \notin S THEN PhaseOf(c)
                           ELSE IF PhaseOf(c) = "new" THEN "refused" ELSE "gaveup"]
    BY <2>3
  <2>6. Service!Fail(S)
    <3>1. \A c \in S : [d \in Cmds |-> PhaseOf(d)][c] \in {"new", "open"} BY <2>2, <2>4
    <3>2. [c \in Cmds |-> PhaseOf(c)]' =
             [c \in Cmds |-> IF c \notin S THEN [d \in Cmds |-> PhaseOf(d)][c]
                             ELSE IF [d \in Cmds |-> PhaseOf(d)][c] = "new" THEN "refused"
                             ELSE "gaveup"]
      BY <2>5
    <3>3. {c \in Cmds : execs[c] > 0}' = {c \in Cmds : execs[c] > 0} BY <2>1
    <3> QED BY <3>1, <3>2, <3>3 DEF Service!Fail
  <2> QED BY <2>4, <2>6 DEF Service!Next
<1>9. ASSUME NEW a \in Agents, NEW c \in Cmds,
             \/ Receive(a, c) \/ LoseCommand(a, c) \/ LoseResult(a, c) \/ AdmitResult(a, c)
             \/ DeliverResult(a, c) \/ SendResult(a, c)
      PROVE  UNCHANGED <<outcome, disp, execs>>
  BY <1>9 DEF Receive, LoseCommand, LoseResult, AdmitResult, DeliverResult, Lookup, SendResult,
              Send, vars, callers, agentSide, pathVars
<1>10. ASSUME NEW a \in Agents,
             \/ ListAgents(a) \/ FinishSwitchOff(a) \/ SwitchOn(a)
             \/ \E r \in {"disabled", "absent"} : SwitchOff(a, r)
             \/ \E p \in Polls : AdmitPoll(p, a)
      PROVE  UNCHANGED <<outcome, disp, execs>>
  BY <1>10 DEF ListAgents, Reap, FinishSwitchOff, Disconnect, SwitchOn, SwitchOff,
               AdmitPoll, agentSide, vars, pathVars, callers
<1>11. ASSUME NEW p \in Polls, ConnectPoll(p) \/ AnswerPoll(p) \/ FinishPoll(p)
      PROVE  UNCHANGED <<outcome, disp, execs>>
  <2>1. CASE ConnectPoll(p) BY <2>1 DEF ConnectPoll, Connect, agentSide, callers
  <2>2. CASE AnswerPoll(p) BY <2>2 DEF AnswerPoll, TakeCommand, callers
  <2>3. CASE FinishPoll(p) BY <2>3 DEF FinishPoll, EndPoll, Release, pathVars, callers
  <2> QED BY <1>11, <2>1, <2>2, <2>3
<1>12. ASSUME PathTick \/ UNCHANGED allVars PROVE UNCHANGED <<outcome, disp, execs>>
  BY <1>12 DEF PathTick, Tick, pathVars, callers, allVars, vars
<1>13. ASSUME NEW c \in Cmds, DispatchSteps(c) PROVE [Service!Next]_(Service!vars)
  BY <1>3, <1>4, <1>5, <1>6, <1>13 DEF DispatchSteps
<1> QED BY <1>2, <1>7, <1>8, <1>9, <1>10, <1>11, <1>12, <1>13, ServiceStutter DEF PathNext

\* The command path implements CommandService, but for its liveness: a refused
\* command never runs, none runs twice, and an answer is given only for a
\* command that has run.
THEOREM ServicePromisesKept == PathSpec => Service!Safety
<1>1. PathInit => Service!Init
  BY DEF PathInit, Init, Service!Init, PhaseOf
<1> QED BY <1>1, ServiceStep, PathInvariant, PTL DEF PathSpec, Service!Safety

=============================================================================
