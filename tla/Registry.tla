------------------------------ MODULE Registry ------------------------------
(***************************************************************************)
(* The hub's command registry (internal/hub/registry.go) with the code     *)
(* that calls it: the poll handler holding an inbox, the operator handler  *)
(* waiting in Dispatch, and the result handler in Deliver.  Every critical *)
(* section of Registry.mu, every channel operation and every deferred call *)
(* is one action, so that other goroutines run between any two of them.    *)
(*                                                                         *)
(* Here callers are unrestricted: any agent may poll, answer or be         *)
(* disconnected at any time.  CommandPath adds the callers' own rules.     *)
(***************************************************************************)
EXTENDS Naturals, Sequences, FiniteSets

CONSTANTS
    Agents,         \* agent identifiers
    Cmds,           \* commands, one per Dispatch call (their IDs are unique)
    Polls,          \* slots for concurrent poll requests
    Chans,          \* identities of inbox channels, reused once unreferenced
    InboxDepth,     \* inboxDepth
    PollHold,       \* pollHold, in ticks
    ConnectionTTL,  \* connectionTTL, in ticks
    NoAgent, NoChan \* nil

ASSUME DepthAssumption == InboxDepth \in Nat \ {0}
ASSUME HoldAssumption  == PollHold \in Nat
ASSUME TTLAssumption   == ConnectionTTL \in Nat /\ PollHold <= ConnectionTTL
ASSUME NilAssumption   == NoAgent \notin Agents /\ NoChan \notin Chans

VARIABLES
    chanOf,   \* r.agents: the inbox channel registered for each agent
    age,      \* ticks since agentChannel.lastPoll, for registered agents
    inbox,    \* contents of each buffered channel
    pollSt,   \* where each poll request is ...
    pollAgent, pollChan, \* ... whose it is, which channel it receives from ...
    held,     \* ... and for how many ticks it has been held
    disp,     \* where the Dispatch of each command is
    target,   \* the agent a command was issued to
    pending,  \* keys of r.pending
    result,   \* the agent whose result is in pendingCommand.result, if any
    found,    \* Deliver calls between the lookup and the send
    outcome,  \* what the caller of Dispatch was told
    answer,   \* history: whose result the caller of Dispatch was given
    handed    \* history: commands taken from an inbox by a poll, and for whom

vars == <<chanOf, age, inbox, pollSt, pollAgent, pollChan, held, disp, target,
          pending, result, found, outcome, answer, handed>>

pollOwner == <<pollAgent, pollChan, held>>
polls     == <<pollSt, pollOwner>>
channels  == <<chanOf, age, inbox, polls>>
callers   == <<disp, target, outcome, answer>>
resultBox == <<pending, result, found>>

-----------------------------------------------------------------------------
PollStates == {"idle", "held", "ending"}
DispStates == {"new", "checked", "waiting", "returning", "done"}
Outcomes   == {"none", "refused", "answered", "timeout"}

TypeOK ==
    /\ chanOf \in [Agents -> Chans \cup {NoChan}]
    /\ age \in [Agents -> 0 .. ConnectionTTL + 1]
    /\ inbox \in [Chans -> Seq(Cmds)]
    /\ pollSt \in [Polls -> PollStates]
    /\ pollAgent \in [Polls -> Agents \cup {NoAgent}]
    /\ pollChan \in [Polls -> Chans \cup {NoChan}]
    /\ held \in [Polls -> 0 .. PollHold]
    /\ disp \in [Cmds -> DispStates]
    /\ target \in [Cmds -> Agents \cup {NoAgent}]
    /\ pending \subseteq Cmds
    /\ result \in [Cmds -> Agents \cup {NoAgent}]
    /\ found \subseteq Agents \X Cmds
    /\ outcome \in [Cmds -> Outcomes]
    /\ answer \in [Cmds -> Agents \cup {NoAgent}]
    /\ handed \subseteq Agents \X Cmds

\* NewRegistry, with no request being served.
Init ==
    /\ chanOf = [a \in Agents |-> NoChan]
    /\ age = [a \in Agents |-> 0]
    /\ inbox = [ch \in Chans |-> <<>>]
    /\ pollSt = [p \in Polls |-> "idle"]
    /\ pollAgent = [p \in Polls |-> NoAgent]
    /\ pollChan = [p \in Polls |-> NoChan]
    /\ held = [p \in Polls |-> 0]
    /\ disp = [c \in Cmds |-> "new"]
    /\ target = [c \in Cmds |-> NoAgent]
    /\ pending = {}
    /\ result = [c \in Cmds |-> NoAgent]
    /\ found = {}
    /\ outcome = [c \in Cmds |-> "none"]
    /\ answer = [c \in Cmds |-> NoAgent]
    /\ handed = {}

-----------------------------------------------------------------------------
\* Faulty: a channel is reused although a poll handler still holds it.
ReferencedByMapOnly(registered, received) == {registered[a] : a \in Agents}

\* A channel lives while the agent map or a poll handler refers to it; the
\* commands in an unreachable one are gone with it.
Referenced(registered, received) ==
    {registered[a] : a \in Agents} \cup {received[p] : p \in Polls}

CollectChannels ==
    inbox' = [ch \in Chans |->
                IF ch \in Referenced(chanOf', pollChan') THEN inbox[ch] ELSE <<>>]

\* aliveLocked's verdict ...
Alive(a) == chanOf[a] # NoChan /\ age[a] <= ConnectionTTL

\* ... and the delete that both it (for a quiet agent) and Disconnect perform.
DropEntry(a) ==
    /\ chanOf' = [chanOf EXCEPT ![a] = NoChan]
    /\ age' = [age EXCEPT ![a] = 0]
    /\ UNCHANGED polls
    /\ CollectChannels

\* The error returns of Dispatch, before anything was queued.
Refuse(c) ==
    /\ disp' = [disp EXCEPT ![c] = "done"]
    /\ outcome' = [outcome EXCEPT ![c] = "refused"]

-----------------------------------------------------------------------------
\* Server.dispatch asks Connected first, as a critical section of its own.
CheckConnected(c, a) ==
    /\ disp[c] = "new"
    /\ target' = [target EXCEPT ![c] = a]
    /\ \/ /\ Alive(a)
          /\ disp' = [disp EXCEPT ![c] = "checked"]
          /\ UNCHANGED <<channels, outcome>>
       \/ /\ ~Alive(a)
          /\ DropEntry(a)
          /\ Refuse(c)
    /\ UNCHANGED <<resultBox, answer, handed>>

\* Faulty: the buffer is found full only after the command went into it.
EnqueueThenCheck(c) ==
    LET a == target[c] IN
    /\ disp[c] = "checked"
    /\ \/ /\ ~Alive(a)
          /\ DropEntry(a)
          /\ Refuse(c)
       \/ /\ Alive(a)
          /\ inbox' = [inbox EXCEPT ![chanOf[a]] = Append(@, c)]
          /\ Refuse(c)
          /\ UNCHANGED <<chanOf, age, polls>>
    /\ UNCHANGED <<pending, target, result, found, answer, handed>>

\* Dispatch up to the unlock: the agent is alive and its buffer has room, and
\* then the command is queued and its waiter registered; otherwise an error.
Enqueue(c) ==
    LET a == target[c] IN
    /\ disp[c] = "checked"
    /\ \/ /\ ~Alive(a)
          /\ DropEntry(a)
          /\ Refuse(c)
          /\ UNCHANGED pending
       \/ /\ Alive(a)
          /\ Len(inbox[chanOf[a]]) >= InboxDepth
          /\ Refuse(c)
          /\ UNCHANGED <<channels, pending>>
       \/ /\ Alive(a)
          /\ Len(inbox[chanOf[a]]) < InboxDepth
          /\ inbox' = [inbox EXCEPT ![chanOf[a]] = Append(@, c)]
          /\ pending' = pending \cup {c}
          /\ disp' = [disp EXCEPT ![c] = "waiting"]
          /\ UNCHANGED <<chanOf, age, polls, outcome>>
    /\ UNCHANGED <<target, result, found, answer, handed>>

\* The two branches of Dispatch's final select.  The context ends when
\* commandTimeout passes or, at any time, when the operator's browser leaves.
TakeResult(c) ==
    /\ disp[c] = "waiting"
    /\ result[c] # NoAgent
    /\ disp' = [disp EXCEPT ![c] = "returning"]
    /\ outcome' = [outcome EXCEPT ![c] = "answered"]
    /\ answer' = [answer EXCEPT ![c] = result[c]]
    /\ result' = [result EXCEPT ![c] = NoAgent]
    /\ UNCHANGED <<channels, target, pending, found, handed>>

\* Faulty: nothing ends the wait for a result but the result.
NeverGiveUp(c) ==
    /\ disp[c] = "waiting"
    /\ result[c] # NoAgent
    /\ UNCHANGED vars

GiveUp(c) ==
    /\ disp[c] = "waiting"
    /\ disp' = [disp EXCEPT ![c] = "returning"]
    /\ outcome' = [outcome EXCEPT ![c] = "timeout"]
    /\ UNCHANGED <<channels, resultBox, target, answer, handed>>

\* Faulty: the waiter is removed only when a result has come.
UnregisterAnswered(c) ==
    /\ disp[c] = "returning"
    /\ pending' = IF outcome[c] = "answered" THEN pending \ {c} ELSE pending
    /\ disp' = [disp EXCEPT ![c] = "done"]
    /\ UNCHANGED <<channels, target, outcome, answer, result, found, handed>>

\* The deferred delete(r.pending, cmd.ID).
Unregister(c) ==
    /\ disp[c] = "returning"
    /\ pending' = pending \ {c}
    /\ disp' = [disp EXCEPT ![c] = "done"]
    /\ UNCHANGED <<channels, target, outcome, answer, result, found, handed>>

-----------------------------------------------------------------------------
\* Faulty: lastPoll is set only when the entry is made.
ConnectStale(p, a) ==
    /\ pollSt[p] = "idle"
    /\ \E ch \in Chans :
         /\ IF chanOf[a] # NoChan THEN ch = chanOf[a]
                                  ELSE ch \notin Referenced(chanOf, pollChan)
         /\ chanOf' = [chanOf EXCEPT ![a] = ch]
         /\ pollChan' = [pollChan EXCEPT ![p] = ch]
    /\ pollSt' = [pollSt EXCEPT ![p] = "held"]
    /\ pollAgent' = [pollAgent EXCEPT ![p] = a]
    /\ held' = [held EXCEPT ![p] = 0]
    /\ UNCHANGED <<age, inbox, callers, resultBox, handed>>

\* Connect: reuse the registered inbox or make one, and refresh lastPoll.
Connect(p, a) ==
    /\ pollSt[p] = "idle"
    /\ \E ch \in Chans :
         /\ IF chanOf[a] # NoChan THEN ch = chanOf[a]
                                  ELSE ch \notin Referenced(chanOf, pollChan)
         /\ chanOf' = [chanOf EXCEPT ![a] = ch]
         /\ pollChan' = [pollChan EXCEPT ![p] = ch]
    /\ pollSt' = [pollSt EXCEPT ![p] = "held"]
    /\ pollAgent' = [pollAgent EXCEPT ![p] = a]
    /\ held' = [held EXCEPT ![p] = 0]
    /\ age' = [age EXCEPT ![a] = 0]
    /\ UNCHANGED <<inbox, callers, resultBox, handed>>

\* Faulty: the command stays queued until its response has been written.
PeekCommand(p) ==
    LET ch == pollChan[p] IN
    /\ pollSt[p] = "held"
    /\ inbox[ch] # <<>>
    /\ handed' = handed \cup {<<pollAgent[p], Head(inbox[ch])>>}
    /\ pollSt' = [pollSt EXCEPT ![p] = "ending"]
    /\ UNCHANGED <<chanOf, age, inbox, pollOwner, callers, resultBox>>

\* Faulty: a command nobody waits for any more is left in the inbox.
TakeAwaitedCommand(p) ==
    LET ch == pollChan[p] IN
    /\ pollSt[p] = "held"
    /\ inbox[ch] # <<>>
    /\ Head(inbox[ch]) \in pending
    /\ inbox' = [inbox EXCEPT ![ch] = Tail(@)]
    /\ handed' = handed \cup {<<pollAgent[p], Head(inbox[ch])>>}
    /\ pollSt' = [pollSt EXCEPT ![p] = "ending"]
    /\ UNCHANGED <<chanOf, age, pollOwner, callers, resultBox>>

\* The poll handler's select receives a command ...
TakeCommand(p) ==
    LET ch == pollChan[p] IN
    /\ pollSt[p] = "held"
    /\ inbox[ch] # <<>>
    /\ inbox' = [inbox EXCEPT ![ch] = Tail(@)]
    /\ handed' = handed \cup {<<pollAgent[p], Head(inbox[ch])>>}
    /\ pollSt' = [pollSt EXCEPT ![p] = "ending"]
    /\ UNCHANGED <<chanOf, age, pollOwner, callers, resultBox>>

\* ... or ends empty-handed: pollHold ran out or the client hung up.
EndPoll(p) ==
    /\ pollSt[p] = "held"
    /\ pollSt' = [pollSt EXCEPT ![p] = "ending"]
    /\ UNCHANGED <<chanOf, age, inbox, pollOwner, callers, resultBox, handed>>

\* The function Connect returned, run when the handler returns: lastPoll is
\* refreshed only if the agent's entry is still the one this poll held.
Release(p) ==
    LET a == pollAgent[p] IN
    /\ pollSt[p] = "ending"
    /\ age' = IF chanOf[a] = pollChan[p] THEN [age EXCEPT ![a] = 0] ELSE age
    /\ pollSt' = [pollSt EXCEPT ![p] = "idle"]
    /\ pollAgent' = [pollAgent EXCEPT ![p] = NoAgent]
    /\ pollChan' = [pollChan EXCEPT ![p] = NoChan]
    /\ held' = [held EXCEPT ![p] = 0]
    /\ chanOf' = chanOf
    /\ CollectChannels
    /\ UNCHANGED <<callers, resultBox, handed>>

\* Connected, as called for the agent list: a quiet entry is deleted.
Reap(a) ==
    /\ chanOf[a] # NoChan
    /\ ~Alive(a)
    /\ DropEntry(a)
    /\ UNCHANGED <<callers, resultBox, handed>>

\* Disconnect, whatever the entry holds.
Disconnect(a) ==
    /\ DropEntry(a)
    /\ UNCHANGED <<callers, resultBox, handed>>

-----------------------------------------------------------------------------
\* Deliver, first half: the waiter is looked up under the lock ...
Lookup(a, c) ==
    /\ c \in pending
    /\ found' = found \cup {<<a, c>>}
    /\ UNCHANGED <<channels, callers, pending, result, handed>>

\* Faulty: any agent's result is passed on.
SendUnchecked(a, c) ==
    /\ <<a, c>> \in found
    /\ found' = found \ {<<a, c>>}
    /\ result' = IF result[c] = NoAgent THEN [result EXCEPT ![c] = a] ELSE result
    /\ UNCHANGED <<channels, callers, pending, handed>>

\* ... and second half, after the unlock: results from another agent are
\* refused, and the send never blocks on a full buffer.
Send(a, c) ==
    /\ <<a, c>> \in found
    /\ found' = found \ {<<a, c>>}
    /\ result' = IF target[c] = a /\ result[c] = NoAgent
                 THEN [result EXCEPT ![c] = a] ELSE result
    /\ UNCHANGED <<channels, callers, pending, handed>>

\* Faulty: the poll handler waits without a timer.
TickWithoutTimer ==
    /\ age' = [a \in Agents |->
                 IF chanOf[a] # NoChan /\ age[a] <= ConnectionTTL
                 THEN age[a] + 1 ELSE age[a]]
    /\ held' = [p \in Polls |->
                  IF pollSt[p] = "held" THEN held[p] + 1 ELSE held[p]]
    /\ UNCHANGED <<chanOf, inbox, pollSt, pollAgent, pollChan, callers, resultBox, handed>>

\* A tick of the clock.  No poll is held past pollHold: its timer ends it.
Tick ==
    /\ \A p \in Polls : pollSt[p] = "held" => held[p] < PollHold
    /\ age' = [a \in Agents |->
                 IF chanOf[a] # NoChan /\ age[a] <= ConnectionTTL
                 THEN age[a] + 1 ELSE age[a]]
    /\ held' = [p \in Polls |->
                  IF pollSt[p] = "held" THEN held[p] + 1 ELSE held[p]]
    /\ UNCHANGED <<chanOf, inbox, pollSt, pollAgent, pollChan, callers, resultBox, handed>>

\* The hub process ends and starts again: NewRegistry, and every request that
\* was being served is cut off.  The callers of Dispatch get no answer.
Restart ==
    /\ chanOf' = [a \in Agents |-> NoChan]
    /\ age' = [a \in Agents |-> 0]
    /\ inbox' = [ch \in Chans |-> <<>>]
    /\ pollSt' = [p \in Polls |-> "idle"]
    /\ pollAgent' = [p \in Polls |-> NoAgent]
    /\ pollChan' = [p \in Polls |-> NoChan]
    /\ held' = [p \in Polls |-> 0]
    /\ pending' = {}
    /\ result' = [c \in Cmds |-> NoAgent]
    /\ found' = {}
    /\ disp' = [c \in Cmds |-> IF disp[c] = "new" THEN "new" ELSE "done"]
    /\ outcome' = [c \in Cmds |-> CASE disp[c] = "checked" -> "refused"
                                    [] disp[c] = "waiting" -> "timeout"
                                    [] OTHER -> outcome[c]]
    /\ UNCHANGED <<target, answer, handed>>

DispatchStep(c) ==
    \/ \E a \in Agents : CheckConnected(c, a)
    \/ Enqueue(c)
    \/ TakeResult(c)
    \/ GiveUp(c)
    \/ Unregister(c)

PollStep(p) ==
    \/ \E a \in Agents : Connect(p, a)
    \/ TakeCommand(p)
    \/ EndPoll(p)
    \/ Release(p)

Next ==
    \/ \E c \in Cmds : DispatchStep(c)
    \/ \E p \in Polls : PollStep(p)
    \/ \E a \in Agents : Reap(a) \/ Disconnect(a)
    \/ \E a \in Agents, c \in Cmds : Lookup(a, c) \/ Send(a, c)
    \/ Tick
    \/ Restart

Spec == Init /\ [][Next]_vars

-----------------------------------------------------------------------------
(* Properties *)

Queued(c) == \E ch \in Chans : \E i \in DOMAIN inbox[ch] : inbox[ch][i] = c

\* A command is in one inbox at one place, or has been handed out, but never
\* both and never twice: no interleaving of polls, reconnects and disconnects
\* makes the hub give a command to an agent a second time.
HandedOnce ==
    /\ \A c1, c2 \in Chans :
         \A i \in DOMAIN inbox[c1], j \in DOMAIN inbox[c2] :
            inbox[c1][i] = inbox[c2][j] => c1 = c2 /\ i = j
    /\ \A c \in Cmds : Queued(c) => ~ \E a \in Agents : <<a, c>> \in handed

\* A poll only ever takes commands that were issued to its own agent, although
\* channels change hands as entries are dropped and made again.
HandedToTarget == \A h \in handed : target[h[2]] = h[1]

\* What a caller of Dispatch is given as its agent's result came from the
\* agent it addressed, whoever else posted results for that command ID.
AnswerFromTarget ==
    \A c \in Cmds : /\ answer[c] # NoAgent => answer[c] = target[c]
                    /\ outcome[c] = "answered" <=> answer[c] # NoAgent

\* A caller that was told "not connected" or "already queued" can rely on the
\* command never reaching the agent.
RefusedNeverHanded ==
    \A c \in Cmds : outcome[c] = "refused" =>
        ~Queued(c) /\ \A a \in Agents : <<a, c>> \notin handed

\* r.pending holds exactly the Dispatch calls past the enqueue: none leaks
\* when its caller gives up, and no waiter is missing while it waits.
PendingExact == pending = {c \in Cmds : disp[c] \in {"waiting", "returning"}}

\* No channel ever holds more than its buffer.
InboxBounded == \A ch \in Chans : Len(inbox[ch]) <= InboxDepth

\* While a poll is held on an agent's registered inbox, the agent counts as
\* connected: the liveness window covers the longest hold.
HeldPollIsAlive ==
    \A p \in Polls :
        LET a == pollAgent[p] IN
        pollSt[p] = "held" /\ chanOf[a] = pollChan[p] => Alive(a)

-----------------------------------------------------------------------------
(* Why the properties hold: the parts of an inductive invariant *)

\* A poll handler holds a channel of a known agent from Connect to Release.
PollShape ==
    \A p \in Polls : IF pollSt[p] = "idle"
                     THEN pollAgent[p] = NoAgent /\ pollChan[p] = NoChan
                     ELSE pollAgent[p] \in Agents /\ pollChan[p] \in Chans

\* A channel belongs to one agent while anything refers to it.
OneOwner ==
    /\ \A a, b \in Agents : chanOf[a] = chanOf[b] /\ chanOf[a] # NoChan => a = b
    /\ \A p \in Polls, a \in Agents :
         pollChan[p] = chanOf[a] /\ chanOf[a] # NoChan => pollAgent[p] = a
    /\ \A p, q \in Polls :
         pollChan[p] = pollChan[q] => pollAgent[p] = pollAgent[q]

\* What is in a channel was submitted to the channel's owner, and a channel
\* nothing refers to is empty.
QueuedForOwner ==
    \A ch \in Chans : \A i \in DOMAIN inbox[ch] :
        LET c == inbox[ch][i] IN
        /\ ch \in Referenced(chanOf, pollChan)
        /\ \A a \in Agents : chanOf[a] = ch => target[c] = a
        /\ \A p \in Polls : pollChan[p] = ch => target[c] = pollAgent[p]

Submitted(c) == disp[c] \notin {"new", "checked"} /\ outcome[c] # "refused"

OnlySubmitted ==
    /\ \A ch \in Chans : \A i \in DOMAIN inbox[ch] : Submitted(inbox[ch][i])
    /\ \A h \in handed : Submitted(h[2])

\* How far a call has come, what its caller was told and whom it addressed.
CallShape ==
    \A c \in Cmds :
        /\ disp[c] \in {"new", "checked", "waiting"} <=> outcome[c] = "none"
        /\ outcome[c] = "refused" => disp[c] = "done"
        /\ disp[c] # "new" => target[c] \in Agents

\* Results wait only in the box of a submitted call, from its target.
ResultShape ==
    /\ \A f \in found : disp[f[2]] # "new"
    /\ \A c \in Cmds : result[c] # NoAgent => disp[c] # "new" /\ result[c] = target[c]
    /\ \A c \in Cmds : answer[c] # NoAgent => disp[c] # "new"

\* lastPoll is never older than a poll held on the entry.
RefreshedByHold ==
    \A p \in Polls, a \in Agents :
        pollSt[p] = "held" /\ pollAgent[p] = a /\ chanOf[a] = pollChan[p]
            => age[a] <= held[p]

=============================================================================
