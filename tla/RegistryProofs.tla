--------------------------- MODULE RegistryProofs ---------------------------
(***************************************************************************)
(* Machine-checked proofs of the safety properties of Registry, for every  *)
(* number of agents, commands, concurrent polls and channels, every inbox  *)
(* depth and every pair of poll hold and connection window.                *)
(***************************************************************************)
EXTENDS Registry, TLAPS

USE DepthAssumption, HoldAssumption, TTLAssumption, NilAssumption

-----------------------------------------------------------------------------
(* Types *)

\* TypeOK alone is not inductive: Enqueue and Release look up the agent they
\* recorded earlier.
Addressed == \A c \in Cmds : disp[c] # "new" => target[c] \in Agents

TypeInv == TypeOK /\ PollShape /\ Addressed

\* Emptying the channels nothing refers to keeps every inbox a sequence.
LEMMA CollectType ==
    ASSUME TypeOK, CollectChannels
    PROVE  inbox' \in [Chans -> Seq(Cmds)]
BY DEF TypeOK, CollectChannels

\* Deleting an entry of r.agents keeps the channels' types.
LEMMA DropEntryType ==
    ASSUME TypeOK, NEW a \in Agents, DropEntry(a)
    PROVE  /\ chanOf' \in [Agents -> Chans \cup {NoChan}]
           /\ age' \in [Agents -> 0 .. ConnectionTTL + 1]
           /\ inbox' \in [Chans -> Seq(Cmds)]
           /\ UNCHANGED polls
<1>1. inbox' \in [Chans -> Seq(Cmds)] BY CollectType DEF DropEntry
<1> QED BY <1>1 DEF TypeOK, DropEntry

\* An empty registry has the types.
LEMMA TypeInit == Init => TypeInv
BY DEF Init, TypeInv, TypeOK, PollShape, Addressed, PollStates, DispStates, Outcomes

\* The three ways through Dispatch's first critical section.
LEMMA EnqueueCases ==
    ASSUME TypeInv, NEW c \in Cmds, Enqueue(c)
    PROVE  /\ target[c] \in Agents
           /\ disp[c] = "checked"
           /\ UNCHANGED <<target, result, found, answer, handed>>
           /\ \/ DropEntry(target[c]) /\ Refuse(c) /\ UNCHANGED pending
              \/ Refuse(c) /\ UNCHANGED <<channels, pending>>
              \/ /\ Alive(target[c])
                 /\ chanOf[target[c]] \in Chans
                 /\ Len(inbox[chanOf[target[c]]]) < InboxDepth
                 /\ inbox' = [inbox EXCEPT ![chanOf[target[c]]] = Append(@, c)]
                 /\ pending' = pending \cup {c}
                 /\ disp' = [disp EXCEPT ![c] = "waiting"]
                 /\ UNCHANGED <<chanOf, age, polls, outcome>>
<1>1. disp[c] = "checked" /\ target[c] \in Agents
  BY DEF Enqueue, TypeInv, Addressed
<1>2. Alive(target[c]) => chanOf[target[c]] \in Chans
  BY <1>1 DEF Alive, TypeInv, TypeOK
<1> QED BY <1>1, <1>2 DEF Enqueue

\* Every operation keeps the types and the shape of a poll.
LEMMA TypeStep == TypeInv /\ [Next]_vars => TypeInv'
<1> SUFFICES ASSUME TypeInv, [Next]_vars PROVE TypeInv'
    OBVIOUS
<1> USE DEF TypeInv, TypeOK, PollShape, Addressed, polls, pollOwner, channels,
            callers, resultBox, PollStates, DispStates, Outcomes
<1>1. ASSUME NEW c \in Cmds, NEW a \in Agents, CheckConnected(c, a) PROVE TypeInv'
  <2>1. CASE Alive(a)
    BY <1>1, <2>1 DEF CheckConnected
  <2>2. CASE ~Alive(a)
    BY <1>1, <2>2, DropEntryType DEF CheckConnected, Refuse
  <2> QED BY <2>1, <2>2
<1>2. ASSUME NEW c \in Cmds, Enqueue(c) PROVE TypeInv'
  <2>1. CASE DropEntry(target[c]) /\ Refuse(c) /\ UNCHANGED pending
    BY <1>2, <2>1, EnqueueCases, DropEntryType DEF Refuse
  <2>2. CASE Refuse(c) /\ UNCHANGED <<channels, pending>>
    BY <1>2, <2>2, EnqueueCases DEF Refuse
  <2>3. CASE /\ chanOf[target[c]] \in Chans
             /\ inbox' = [inbox EXCEPT ![chanOf[target[c]]] = Append(@, c)]
             /\ pending' = pending \cup {c}
             /\ disp' = [disp EXCEPT ![c] = "waiting"]
             /\ UNCHANGED <<chanOf, age, polls, outcome>>
    <3>1. target[c] \in Agents /\ UNCHANGED <<target, result, found, answer, handed>>
      BY <1>2, EnqueueCases
    <3>2. Append(inbox[chanOf[target[c]]], c) \in Seq(Cmds)
      BY <2>3
    <3>3. inbox' \in [Chans -> Seq(Cmds)]
      BY <2>3, <3>2
    <3> QED BY <2>3, <3>1, <3>3
  <2> QED BY <1>2, <2>1, <2>2, <2>3, EnqueueCases
<1>3. ASSUME NEW c \in Cmds, TakeResult(c) PROVE TypeInv'
  BY <1>3 DEF TakeResult
<1>4. ASSUME NEW c \in Cmds, GiveUp(c) PROVE TypeInv'
  BY <1>4 DEF GiveUp
<1>5. ASSUME NEW c \in Cmds, Unregister(c) PROVE TypeInv'
  BY <1>5 DEF Unregister
<1>6. ASSUME NEW p \in Polls, NEW a \in Agents, Connect(p, a) PROVE TypeInv'
  BY <1>6 DEF Connect
<1>7. ASSUME NEW p \in Polls, TakeCommand(p) PROVE TypeInv'
  BY <1>7 DEF TakeCommand
<1>8. ASSUME NEW p \in Polls, EndPoll(p) PROVE TypeInv'
  BY <1>8 DEF EndPoll
<1>9. ASSUME NEW p \in Polls, Release(p) PROVE TypeInv'
  BY <1>9, CollectType DEF Release
<1>10. ASSUME NEW a \in Agents, Reap(a) PROVE TypeInv'
  BY <1>10, DropEntryType DEF Reap
<1>11. ASSUME NEW a \in Agents, Disconnect(a) PROVE TypeInv'
  BY <1>11, DropEntryType DEF Disconnect
<1>12. ASSUME NEW a \in Agents, NEW c \in Cmds, Lookup(a, c) PROVE TypeInv'
  BY <1>12 DEF Lookup
<1>13. ASSUME NEW a \in Agents, NEW c \in Cmds, Send(a, c) PROVE TypeInv'
  BY <1>13 DEF Send
<1>14. ASSUME Tick PROVE TypeInv'
  BY <1>14 DEF Tick
<1>15. ASSUME Restart PROVE TypeInv'
  BY <1>15 DEF Restart
<1>16. CASE UNCHANGED vars
  BY <1>16 DEF vars
<1> QED
  BY <1>1, <1>2, <1>3, <1>4, <1>5, <1>6, <1>7, <1>8, <1>9, <1>10, <1>11,
     <1>12, <1>13, <1>14, <1>15, <1>16 DEF Next, DispatchStep, PollStep

\* Every variable of the registry and its callers keeps its type.
THEOREM TypeCorrect == Spec => []TypeOK
<1>1. TypeInv => TypeOK BY DEF TypeInv
<1> QED BY <1>1, TypeInit, TypeStep, PTL DEF Spec

-----------------------------------------------------------------------------
(* Channels change hands, but never while anything refers to them. *)

\* A new registry has no channels to own.
LEMMA OwnerInit == Init => OneOwner
BY DEF Init, OneOwner

\* Connect makes a channel only where nothing refers to it, so channels keep
\* one owner through every reconnect and disconnect.
LEMMA OwnerStep == TypeInv /\ OneOwner /\ [Next]_vars => OneOwner'
<1> SUFFICES ASSUME TypeInv, OneOwner, [Next]_vars PROVE OneOwner'
    OBVIOUS
<1> USE DEF TypeInv, TypeOK, PollShape, OneOwner, polls, pollOwner, channels
<1>1. ASSUME NEW a \in Agents, DropEntry(a) PROVE OneOwner'
  BY <1>1 DEF DropEntry
<1>2. ASSUME UNCHANGED channels PROVE OneOwner'
  BY <1>2
<1>3. ASSUME NEW c \in Cmds, NEW a \in Agents, CheckConnected(c, a) PROVE OneOwner'
  BY <1>1, <1>2, <1>3 DEF CheckConnected
<1>4. ASSUME NEW c \in Cmds, Enqueue(c) PROVE OneOwner'
  <2>1. \/ target[c] \in Agents /\ DropEntry(target[c])
        \/ UNCHANGED <<chanOf, polls>>
    BY <1>4, EnqueueCases
  <2> QED BY <1>1, <2>1
<1>5. ASSUME NEW c \in Cmds, TakeResult(c) \/ GiveUp(c) \/ Unregister(c) PROVE OneOwner'
  BY <1>2, <1>5 DEF TakeResult, GiveUp, Unregister
<1>6. ASSUME NEW p \in Polls, NEW a \in Agents, Connect(p, a) PROVE OneOwner'
  <2>1. PICK ch \in Chans :
          /\ IF chanOf[a] # NoChan THEN ch = chanOf[a]
                                   ELSE ch \notin Referenced(chanOf, pollChan)
          /\ chanOf' = [chanOf EXCEPT ![a] = ch]
          /\ pollChan' = [pollChan EXCEPT ![p] = ch]
    BY <1>6 DEF Connect
  <2>2. pollAgent' = [pollAgent EXCEPT ![p] = a] /\ pollChan[p] = NoChan
    BY <1>6 DEF Connect
  <2>3. CASE chanOf[a] # NoChan
    BY <2>1, <2>2, <2>3
  <2>4. CASE chanOf[a] = NoChan
    <3>1. /\ \A b \in Agents : chanOf[b] # ch
          /\ \A q \in Polls : pollChan[q] # ch
      BY <2>1, <2>4 DEF Referenced
    <3> QED BY <2>1, <2>2, <2>4, <3>1
  <2> QED BY <2>3, <2>4
<1>7. ASSUME NEW p \in Polls, TakeCommand(p) \/ EndPoll(p) PROVE OneOwner'
  BY <1>7 DEF TakeCommand, EndPoll
<1>8. ASSUME NEW p \in Polls, Release(p) PROVE OneOwner'
  BY <1>8 DEF Release
<1>9. ASSUME NEW a \in Agents, Reap(a) \/ Disconnect(a) PROVE OneOwner'
  BY <1>1, <1>9 DEF Reap, Disconnect
<1>10. ASSUME NEW a \in Agents, NEW c \in Cmds, Lookup(a, c) \/ Send(a, c) PROVE OneOwner'
  BY <1>2, <1>10 DEF Lookup, Send
<1>11. ASSUME Tick \/ Restart PROVE OneOwner'
  BY <1>11 DEF Tick, Restart
<1>12. CASE UNCHANGED vars
  BY <1>12 DEF vars
<1> QED
  BY <1>3, <1>4, <1>5, <1>6, <1>7, <1>8, <1>9, <1>10, <1>11, <1>12
  DEF Next, DispatchStep, PollStep

-----------------------------------------------------------------------------
(* Callers of Dispatch and the results they are given. *)

CallInv == CallShape /\ ResultShape /\ PendingExact /\ AnswerFromTarget

\* No call has been made yet.
LEMMA CallInit == Init => CallInv
BY DEF Init, CallInv, CallShape, ResultShape, PendingExact, AnswerFromTarget

\* Dispatch and Deliver keep call, waiter and result box in step.
LEMMA CallStep == TypeInv /\ CallInv /\ [Next]_vars => CallInv'
<1> SUFFICES ASSUME TypeInv, CallInv, [Next]_vars PROVE CallInv'
    OBVIOUS
<1> USE DEF TypeInv, TypeOK, DispStates, Outcomes, CallInv, CallShape, ResultShape,
            PendingExact, AnswerFromTarget, callers, resultBox
<1>1. ASSUME NEW c \in Cmds, NEW a \in Agents, CheckConnected(c, a) PROVE CallInv'
  BY <1>1 DEF CheckConnected, Refuse
<1>2. ASSUME NEW c \in Cmds, Enqueue(c) PROVE CallInv'
  <2>1. /\ disp[c] = "checked"
        /\ target[c] \in Agents
        /\ UNCHANGED <<target, result, found, answer>>
        /\ \/ Refuse(c) /\ UNCHANGED pending
           \/ /\ pending' = pending \cup {c}
              /\ disp' = [disp EXCEPT ![c] = "waiting"]
              /\ UNCHANGED outcome
    BY <1>2, EnqueueCases
  <2> QED BY <2>1 DEF Refuse
<1>3. ASSUME NEW c \in Cmds, TakeResult(c) PROVE CallInv'
  BY <1>3 DEF TakeResult
<1>4. ASSUME NEW c \in Cmds, GiveUp(c) PROVE CallInv'
  BY <1>4 DEF GiveUp
<1>5. ASSUME NEW c \in Cmds, Unregister(c) PROVE CallInv'
  BY <1>5 DEF Unregister
<1>6. ASSUME UNCHANGED <<callers, resultBox>> PROVE CallInv'
  BY <1>6
<1>7. ASSUME NEW p \in Polls, NEW a \in Agents, Connect(p, a) PROVE CallInv'
  BY <1>6, <1>7 DEF Connect
<1>8. ASSUME NEW p \in Polls, TakeCommand(p) \/ EndPoll(p) \/ Release(p) PROVE CallInv'
  BY <1>6, <1>8 DEF TakeCommand, EndPoll, Release
<1>9. ASSUME NEW a \in Agents, Reap(a) \/ Disconnect(a) PROVE CallInv'
  BY <1>6, <1>9 DEF Reap, Disconnect
<1>10. ASSUME NEW a \in Agents, NEW c \in Cmds, Lookup(a, c) PROVE CallInv'
  BY <1>10 DEF Lookup
<1>11. ASSUME NEW a \in Agents, NEW c \in Cmds, Send(a, c) PROVE CallInv'
  BY <1>11 DEF Send
<1>12. ASSUME Tick PROVE CallInv'
  BY <1>6, <1>12 DEF Tick
<1>13. ASSUME Restart PROVE CallInv'
  BY <1>13 DEF Restart
<1>14. CASE UNCHANGED vars
  BY <1>6, <1>14 DEF vars
<1> QED
  BY <1>1, <1>2, <1>3, <1>4, <1>5, <1>7, <1>8, <1>9, <1>10, <1>11, <1>12, <1>13, <1>14
  DEF Next, DispatchStep, PollStep

\* A result passed to a caller of Dispatch is its own agent's.
THEOREM AnswersComeFromTarget == Spec => []AnswerFromTarget
<1>1. Init => TypeInv /\ CallInv BY TypeInit, CallInit
<1>2. (TypeInv /\ CallInv) /\ [Next]_vars => (TypeInv /\ CallInv)' BY TypeStep, CallStep
<1>3. TypeInv /\ CallInv => AnswerFromTarget BY DEF CallInv
<1> QED BY <1>1, <1>2, <1>3, PTL DEF Spec

-----------------------------------------------------------------------------
(* What is queued, and what has been handed out. *)

QueueInv == QueuedForOwner /\ OnlySubmitted /\ HandedOnce /\ HandedToTarget
            /\ InboxBounded

\* The elements of a sequence after Append and after Tail.
LEMMA AppendElements ==
    ASSUME NEW S, NEW s \in Seq(S), NEW e \in S
    PROVE  /\ Append(s, e) \in Seq(S)
           /\ Len(Append(s, e)) = Len(s) + 1
           /\ \A i \in DOMAIN Append(s, e) :
                \/ i \in DOMAIN s /\ Append(s, e)[i] = s[i]
                \/ i = Len(s) + 1 /\ i \notin DOMAIN s /\ Append(s, e)[i] = e
OBVIOUS

\* Tail shifts the elements by one and drops the first.
LEMMA TailElements ==
    ASSUME NEW S, NEW s \in Seq(S), s # <<>>
    PROVE  /\ Tail(s) \in Seq(S)
           /\ Len(Tail(s)) <= Len(s)
           /\ 1 \in DOMAIN s /\ Head(s) = s[1] /\ Head(s) \in S
           /\ \A i \in DOMAIN Tail(s) : i \in Nat \ {0} /\ i + 1 \in DOMAIN s
                                          /\ Tail(s)[i] = s[i + 1]
OBVIOUS

\* Every entry of every inbox was there before, in the same place, and its
\* channel is still referred to.
InboxesShrink ==
    /\ \A ch \in Chans : inbox'[ch] \in {inbox[ch], <<>>}
    /\ \A ch \in Chans : ch \notin Referenced(chanOf', pollChan') => inbox'[ch] = <<>>

\* Collecting channels leaves each inbox as it was or empties it.
LEMMA CollectShrinks ==
    ASSUME TypeInv, CollectChannels PROVE InboxesShrink
BY DEF CollectChannels, InboxesShrink

\* Every inbox is empty at the start.
LEMMA QueueInit == Init => QueueInv
BY DEF Init, QueueInv, QueuedForOwner, OnlySubmitted, HandedOnce, HandedToTarget,
       InboxBounded, Queued

\* Steps that add nothing to an inbox and hand nothing out preserve QueueInv,
\* if references are only dropped and submitted calls stay as they are.
LEMMA QueueShrink ==
    ASSUME TypeInv, QueueInv, InboxesShrink, UNCHANGED handed,
           \A a \in Agents : chanOf'[a] \in {chanOf[a], NoChan},
           \A p \in Polls : \/ pollChan'[p] = pollChan[p] /\ pollAgent'[p] = pollAgent[p]
                            \/ pollChan'[p] = NoChan,
           \A c \in Cmds : Submitted(c) => Submitted(c)' /\ target'[c] = target[c]
    PROVE  QueueInv'
<1> USE DEF QueueInv, TypeInv, TypeOK
<1>1. ASSUME NEW ch \in Chans, NEW i \in DOMAIN inbox'[ch]
      PROVE  /\ inbox'[ch] = inbox[ch]
             /\ i \in DOMAIN inbox[ch]
             /\ inbox[ch][i] \in Cmds
             /\ ch \in Referenced(chanOf', pollChan')
  <2>1. inbox'[ch] # <<>> BY <1>1
  <2> QED BY <2>1, <1>1 DEF InboxesShrink
<1>2. QueuedForOwner'
  <2> SUFFICES ASSUME NEW ch \in Chans, NEW i \in DOMAIN inbox'[ch]
               PROVE  /\ ch \in Referenced(chanOf', pollChan')
                      /\ \A a \in Agents : chanOf'[a] = ch => target'[inbox'[ch][i]] = a
                      /\ \A p \in Polls : pollChan'[p] = ch =>
                                            target'[inbox'[ch][i]] = pollAgent'[p]
    BY DEF QueuedForOwner
  <2>1. Submitted(inbox[ch][i]) BY <1>1 DEF OnlySubmitted
  <2>2. target'[inbox[ch][i]] = target[inbox[ch][i]] BY <1>1, <2>1
  <2>3. inbox'[ch][i] = inbox[ch][i] /\ ch \in Referenced(chanOf', pollChan')
    BY <1>1
  <2>4. /\ \A a \in Agents : chanOf[a] = ch => target[inbox[ch][i]] = a
        /\ \A p \in Polls : pollChan[p] = ch => target[inbox[ch][i]] = pollAgent[p]
    BY <1>1 DEF QueuedForOwner
  <2> QED BY <2>2, <2>3, <2>4
<1>3. OnlySubmitted'
  <2>1. ASSUME NEW ch \in Chans, NEW i \in DOMAIN inbox'[ch]
        PROVE  Submitted(inbox[ch][i])'
    <3>1. inbox'[ch][i] = inbox[ch][i] /\ inbox[ch][i] \in Cmds BY <1>1
    <3>2. Submitted(inbox[ch][i]) BY <1>1 DEF OnlySubmitted
    <3> QED BY <3>1, <3>2 DEF Submitted
  <2>2. ASSUME NEW h \in handed PROVE Submitted(h[2])'
    BY DEF OnlySubmitted
  <2> QED BY <2>1, <2>2 DEF OnlySubmitted
<1>4. HandedOnce'
  <2>1. \A c1, c2 \in Chans : \A i \in DOMAIN inbox'[c1], j \in DOMAIN inbox'[c2] :
           inbox'[c1][i] = inbox'[c2][j] => c1 = c2 /\ i = j
    BY <1>1 DEF HandedOnce
  <2>2. \A c \in Cmds : Queued(c)' => Queued(c)
    BY <1>1 DEF Queued
  <2> QED BY <2>1, <2>2 DEF HandedOnce
<1>5. HandedToTarget'
  BY DEF HandedToTarget, OnlySubmitted
<1>6. InboxBounded'
  BY DEF InboxBounded, InboxesShrink
<1> QED BY <1>2, <1>3, <1>4, <1>5, <1>6

\* A channel nothing refers to is empty already, so a step that leaves inboxes
\* and references alone shrinks nothing it should not.
LEMMA StableShrinks ==
    ASSUME TypeInv, QueueInv, UNCHANGED <<inbox, chanOf, pollChan>>
    PROVE  InboxesShrink
<1>1. ASSUME NEW ch \in Chans, inbox[ch] # <<>>
      PROVE  ch \in Referenced(chanOf, pollChan)
  <2>1. 1 \in DOMAIN inbox[ch] BY <1>1 DEF TypeInv, TypeOK
  <2> QED BY <2>1 DEF QueueInv, QueuedForOwner
<1> QED BY <1>1 DEF InboxesShrink

\* Dispatch queues a command: it is new to every inbox and not handed out.
LEMMA QueueEnqueue ==
    ASSUME TypeInv, OneOwner, CallInv, QueueInv, NEW c \in Cmds,
           disp[c] = "checked", target[c] \in Agents,
           UNCHANGED <<target, handed, chanOf, polls, outcome>>,
           chanOf[target[c]] \in Chans,
           Len(inbox[chanOf[target[c]]]) < InboxDepth,
           inbox' = [inbox EXCEPT ![chanOf[target[c]]] = Append(@, c)],
           disp' = [disp EXCEPT ![c] = "waiting"]
    PROVE  QueueInv'
<1> DEFINE box == chanOf[target[c]]
<1> USE DEF TypeInv, TypeOK, QueueInv
<1>1. ~Submitted(c) /\ Submitted(c)' /\ \A d \in Cmds : Submitted(d) => Submitted(d)'
  <2>1. outcome[c] = "none" BY DEF CallInv, CallShape
  <2> QED BY <2>1 DEF Submitted
<1>2. ASSUME NEW ch \in Chans, NEW i \in DOMAIN inbox'[ch]
      PROVE  \/ i \in DOMAIN inbox[ch] /\ inbox'[ch][i] = inbox[ch][i] /\ inbox[ch][i] \in Cmds
             \/ ch = box /\ i = Len(inbox[box]) + 1 /\ inbox'[ch][i] = c
  <2>1. CASE ch = box
    <3>1. inbox'[ch] = Append(inbox[ch], c) /\ inbox[ch] \in Seq(Cmds) BY <2>1
    <3> QED BY <2>1, <3>1, AppendElements
  <2>2. CASE ch # box
    BY <2>2
  <2> QED BY <2>1, <2>2
<1>3. \A ch \in Chans : \A i \in DOMAIN inbox[ch] : inbox[ch][i] # c
  BY <1>1 DEF OnlySubmitted
<1>4. \A a \in Agents : <<a, c>> \notin handed
  BY <1>1 DEF OnlySubmitted
<1>5. QueuedForOwner'
  <2> SUFFICES ASSUME NEW ch \in Chans, NEW i \in DOMAIN inbox'[ch]
               PROVE  /\ ch \in Referenced(chanOf, pollChan)
                      /\ \A a \in Agents : chanOf[a] = ch => target[inbox'[ch][i]] = a
                      /\ \A p \in Polls : pollChan[p] = ch =>
                                            target[inbox'[ch][i]] = pollAgent[p]
    BY DEF QueuedForOwner, polls, pollOwner
  <2>1. CASE i \in DOMAIN inbox[ch] /\ inbox'[ch][i] = inbox[ch][i]
    BY <2>1 DEF QueuedForOwner
  <2>2. CASE ch = box /\ inbox'[ch][i] = c
    BY <2>2 DEF Referenced, OneOwner
  <2> QED BY <1>2, <2>1, <2>2
<1>6. OnlySubmitted'
  <2>1. ASSUME NEW ch \in Chans, NEW i \in DOMAIN inbox'[ch]
        PROVE  Submitted(inbox[ch][i])'
    BY <1>1, <1>2 DEF OnlySubmitted, Submitted
  <2>2. ASSUME NEW h \in handed PROVE Submitted(h[2])'
    BY <1>1 DEF OnlySubmitted
  <2> QED BY <2>1, <2>2 DEF OnlySubmitted
<1>7. HandedOnce'
  <2>1. ASSUME NEW c1 \in Chans, NEW c2 \in Chans, NEW i \in DOMAIN inbox'[c1],
               NEW j \in DOMAIN inbox'[c2], inbox'[c1][i] = inbox'[c2][j]
        PROVE  c1 = c2 /\ i = j
    BY <1>2, <1>3, <2>1 DEF HandedOnce
  <2>2. ASSUME NEW d \in Cmds, Queued(d)' PROVE \A a \in Agents : <<a, d>> \notin handed
    <3>1. Queued(d) \/ d = c BY <1>2, <2>2 DEF Queued
    <3> QED BY <1>4, <3>1 DEF HandedOnce
  <2> QED BY <2>1, <2>2 DEF HandedOnce
<1>8. HandedToTarget'
  BY DEF HandedToTarget
<1>9. InboxBounded'
  BY AppendElements DEF InboxBounded
<1> QED BY <1>5, <1>6, <1>7, <1>8, <1>9

\* HandedOnce speaks of the inboxes and of what was handed out only.
LEMMA HandedOnceStable ==
    ASSUME HandedOnce, inbox' = inbox, handed' = handed PROVE HandedOnce'
BY DEF HandedOnce, Queued

\* A poll connects: a new channel is empty, a registered one is its agent's.
LEMMA QueueConnect ==
    ASSUME TypeInv, OneOwner, QueueInv, NEW p \in Polls, NEW a \in Agents, Connect(p, a)
    PROVE  QueueInv'
<1> USE DEF TypeInv, TypeOK, QueueInv, callers
<1>1. PICK ch \in Chans :
          /\ IF chanOf[a] # NoChan THEN ch = chanOf[a]
                                   ELSE ch \notin Referenced(chanOf, pollChan)
          /\ chanOf' = [chanOf EXCEPT ![a] = ch]
          /\ pollChan' = [pollChan EXCEPT ![p] = ch]
  BY DEF Connect
<1>2. /\ pollAgent' = [pollAgent EXCEPT ![p] = a]
      /\ pollChan[p] = NoChan
      /\ UNCHANGED <<inbox, handed, disp, outcome, target>>
  BY DEF Connect, PollShape
<1>3. OnlySubmitted' /\ HandedOnce' /\ HandedToTarget' /\ InboxBounded'
  <2>1. OnlySubmitted' BY <1>2 DEF OnlySubmitted, Submitted
  <2>2. HandedOnce' BY <1>2, HandedOnceStable
  <2>3. HandedToTarget' /\ InboxBounded' BY <1>2 DEF HandedToTarget, InboxBounded
  <2> QED BY <2>1, <2>2, <2>3
<1>4. QueuedForOwner'
  <2> SUFFICES ASSUME NEW k \in Chans, NEW i \in DOMAIN inbox[k]
               PROVE  /\ k \in Referenced(chanOf', pollChan')
                      /\ \A b \in Agents : chanOf'[b] = k => target[inbox[k][i]] = b
                      /\ \A q \in Polls : pollChan'[q] = k =>
                                            target[inbox[k][i]] = pollAgent'[q]
    BY <1>2 DEF QueuedForOwner
  <2>1. /\ k \in Referenced(chanOf, pollChan)
        /\ \A b \in Agents : chanOf[b] = k => target[inbox[k][i]] = b
        /\ \A q \in Polls : pollChan[q] = k => target[inbox[k][i]] = pollAgent[q]
    BY DEF QueuedForOwner
  <2>2. chanOf[a] \in {ch, NoChan} BY <1>1
  <2>3. k \in Referenced(chanOf', pollChan')
    BY <1>1, <1>2, <2>1, <2>2 DEF Referenced
  <2>4. chanOf[a] = NoChan => ch # k
    BY <1>1, <2>1
  <2> QED BY <1>1, <1>2, <2>1, <2>2, <2>3, <2>4
<1> QED BY <1>3, <1>4

\* A poll takes the command at the head of its inbox.
LEMMA QueueTake ==
    ASSUME TypeInv, OneOwner, QueueInv, NEW p \in Polls, TakeCommand(p)
    PROVE  QueueInv'
<1> USE DEF TypeInv, TypeOK, QueueInv, callers, pollOwner
<1> DEFINE box == pollChan[p]
           cmd == Head(inbox[box])
<1>1. /\ box \in Chans /\ pollAgent[p] \in Agents
      /\ inbox[box] \in Seq(Cmds) /\ inbox[box] # <<>>
      /\ inbox' = [inbox EXCEPT ![box] = Tail(@)]
      /\ handed' = handed \cup {<<pollAgent[p], cmd>>}
      /\ UNCHANGED <<chanOf, pollChan, pollAgent, disp, outcome, target>>
  BY DEF TakeCommand, PollShape
<1>2. 1 \in DOMAIN inbox[box] /\ cmd = inbox[box][1] /\ cmd \in Cmds
  BY <1>1, TailElements
<1>3. ASSUME NEW ch \in Chans, NEW i \in DOMAIN inbox'[ch]
      PROVE  \E j \in DOMAIN inbox[ch] : /\ inbox'[ch][i] = inbox[ch][j]
                                         /\ inbox[ch][j] \in Cmds
                                         /\ ch = box => j = i + 1 /\ j # 1
                                         /\ ch # box => j = i
  <2>1. CASE ch = box
    <3>1. inbox'[ch] = Tail(inbox[ch]) BY <1>1, <2>1
    <3>2. i \in Nat \ {0} /\ i + 1 \in DOMAIN inbox[ch] /\ Tail(inbox[ch])[i] = inbox[ch][i + 1]
      BY <1>1, <2>1, <3>1, TailElements
    <3> QED BY <2>1, <3>1, <3>2
  <2>2. CASE ch # box
    BY <1>1, <2>2
  <2> QED BY <2>1, <2>2
<1>4. QueuedForOwner'
  <2> SUFFICES ASSUME NEW ch \in Chans, NEW i \in DOMAIN inbox'[ch]
               PROVE  /\ ch \in Referenced(chanOf, pollChan)
                      /\ \A a \in Agents : chanOf[a] = ch => target[inbox'[ch][i]] = a
                      /\ \A q \in Polls : pollChan[q] = ch =>
                                            target[inbox'[ch][i]] = pollAgent[q]
    BY <1>1 DEF QueuedForOwner
  <2> QED BY <1>3 DEF QueuedForOwner
<1>5. OnlySubmitted'
  <2>1. ASSUME NEW ch \in Chans, NEW i \in DOMAIN inbox'[ch]
        PROVE  Submitted(inbox[ch][i])'
    BY <1>1, <1>3 DEF OnlySubmitted, Submitted
  <2>2. Submitted(cmd) BY <1>1, <1>2 DEF OnlySubmitted
  <2>3. ASSUME NEW h \in handed' PROVE Submitted(h[2])'
    BY <1>1, <2>2 DEF OnlySubmitted, Submitted
  <2> QED BY <2>1, <2>3 DEF OnlySubmitted
<1>6. HandedOnce'
  <2>1. ASSUME NEW c1 \in Chans, NEW c2 \in Chans, NEW i \in DOMAIN inbox'[c1],
               NEW j \in DOMAIN inbox'[c2], inbox'[c1][i] = inbox'[c2][j]
        PROVE  c1 = c2 /\ i = j
    <3>1. i \in Nat /\ j \in Nat BY <1>1
    <3>2. PICK i0 \in DOMAIN inbox[c1] : /\ inbox'[c1][i] = inbox[c1][i0]
                                         /\ c1 = box => i0 = i + 1
                                         /\ c1 # box => i0 = i
      BY <1>3
    <3>3. PICK j0 \in DOMAIN inbox[c2] : /\ inbox'[c2][j] = inbox[c2][j0]
                                         /\ c2 = box => j0 = j + 1
                                         /\ c2 # box => j0 = j
      BY <1>3
    <3>4. inbox[c1][i0] = inbox[c2][j0] BY <2>1, <3>2, <3>3
    <3>5. c1 = c2 /\ i0 = j0 BY <3>4 DEF HandedOnce
    <3> QED BY <3>1, <3>2, <3>3, <3>5
  <2>2. ASSUME NEW d \in Cmds, Queued(d)' PROVE Queued(d) /\ d # cmd
    BY <1>1, <1>2, <1>3, <2>2 DEF Queued, HandedOnce
  <2> QED BY <1>1, <2>1, <2>2 DEF HandedOnce
<1>7. HandedToTarget'
  <2>1. target[cmd] = pollAgent[p] BY <1>1, <1>2 DEF QueuedForOwner
  <2> QED BY <1>1, <2>1 DEF HandedToTarget
<1>8. InboxBounded'
  <2>1. Len(Tail(inbox[box])) <= Len(inbox[box]) BY <1>1, TailElements
  <2> QED BY <1>1, <2>1 DEF InboxBounded
<1> QED BY <1>4, <1>5, <1>6, <1>7, <1>8

\* Every operation keeps the queue invariant.
LEMMA QueueStep ==
    TypeInv /\ OneOwner /\ CallInv /\ QueueInv /\ [Next]_vars => QueueInv'
<1> SUFFICES ASSUME TypeInv, OneOwner, CallInv, QueueInv, [Next]_vars PROVE QueueInv'
    OBVIOUS
<1>1. ASSUME UNCHANGED <<handed, chanOf, pollChan, pollAgent, inbox, target>>,
             \A c \in Cmds : Submitted(c) => Submitted(c)'
      PROVE  QueueInv'
  <2>1. InboxesShrink BY <1>1, StableShrinks
  <2> QED BY <1>1, <2>1, QueueShrink
<1>2. ASSUME NEW a \in Agents, DropEntry(a), UNCHANGED handed,
             \A c \in Cmds : Submitted(c) => Submitted(c)' /\ target'[c] = target[c]
      PROVE  QueueInv'
  <2>1. InboxesShrink BY <1>2, CollectShrinks DEF DropEntry
  <2>2. /\ \A b \in Agents : chanOf'[b] \in {chanOf[b], NoChan}
        /\ UNCHANGED <<pollChan, pollAgent>>
    BY <1>2 DEF DropEntry, TypeInv, TypeOK, polls, pollOwner
  <2> QED BY <1>2, <2>1, <2>2, QueueShrink
<1>3. ASSUME NEW c \in Cmds, NEW a \in Agents, CheckConnected(c, a) PROVE QueueInv'
  <2>1. \A d \in Cmds : Submitted(d) => Submitted(d)' /\ target'[d] = target[d]
    BY <1>3 DEF CheckConnected, Refuse, Submitted, TypeInv, TypeOK, CallInv, CallShape
  <2>2. CASE DropEntry(a)
    BY <1>2, <1>3, <2>1, <2>2 DEF CheckConnected
  <2>3. CASE UNCHANGED channels
    <3>1. InboxesShrink
      BY <2>3, StableShrinks DEF channels, polls, pollOwner
    <3> QED BY <1>3, <2>1, <2>3, <3>1, QueueShrink
            DEF CheckConnected, channels, polls, pollOwner
  <2> QED BY <1>3, <2>2, <2>3 DEF CheckConnected
<1>4. ASSUME NEW c \in Cmds, Enqueue(c) PROVE QueueInv'
  <2>0. disp[c] = "checked" /\ target[c] \in Agents /\ UNCHANGED <<target, handed>>
    BY <1>4, EnqueueCases
  <2>1. Refuse(c) => \A d \in Cmds : Submitted(d) => Submitted(d)'
    BY <2>0 DEF Refuse, Submitted, TypeInv, TypeOK
  <2>2. CASE DropEntry(target[c]) /\ Refuse(c)
    BY <1>2, <2>0, <2>1, <2>2
  <2>3. CASE Refuse(c) /\ UNCHANGED channels
    BY <1>1, <2>0, <2>1, <2>3 DEF channels, polls, pollOwner
  <2>4. CASE /\ chanOf[target[c]] \in Chans
             /\ Len(inbox[chanOf[target[c]]]) < InboxDepth
             /\ inbox' = [inbox EXCEPT ![chanOf[target[c]]] = Append(@, c)]
             /\ disp' = [disp EXCEPT ![c] = "waiting"]
             /\ UNCHANGED <<chanOf, polls, outcome>>
    BY <2>0, <2>4, QueueEnqueue
  <2> QED BY <1>4, <2>2, <2>3, <2>4, EnqueueCases
<1>5. ASSUME NEW c \in Cmds, TakeResult(c) \/ GiveUp(c) \/ Unregister(c) PROVE QueueInv'
  <2>1. \A d \in Cmds : Submitted(d) => Submitted(d)'
    BY <1>5 DEF TakeResult, GiveUp, Unregister, Submitted, TypeInv, TypeOK
  <2> QED BY <1>1, <1>5, <2>1 DEF TakeResult, GiveUp, Unregister, channels, polls, pollOwner
<1>6. ASSUME NEW p \in Polls, NEW a \in Agents, Connect(p, a) PROVE QueueInv'
  BY <1>6, QueueConnect
<1>7. ASSUME NEW p \in Polls, TakeCommand(p) PROVE QueueInv'
  BY <1>7, QueueTake
<1>8. ASSUME UNCHANGED <<handed, chanOf, pollChan, pollAgent, inbox, callers>>
      PROVE  QueueInv'
  <2>1. \A c \in Cmds : Submitted(c) => Submitted(c)' BY <1>8 DEF callers, Submitted
  <2> QED BY <1>1, <1>8, <2>1 DEF callers
<1>9. ASSUME NEW p \in Polls, EndPoll(p) PROVE QueueInv'
  BY <1>8, <1>9 DEF EndPoll, pollOwner
<1>10. ASSUME NEW p \in Polls, Release(p) PROVE QueueInv'
  <2>1. InboxesShrink BY <1>10, CollectShrinks DEF Release
  <2>2. /\ UNCHANGED <<handed, chanOf, target>>
        /\ \A q \in Polls : \/ pollChan'[q] = pollChan[q] /\ pollAgent'[q] = pollAgent[q]
                            \/ pollChan'[q] = NoChan
    BY <1>10 DEF Release, callers, TypeInv, TypeOK
  <2>3. \A c \in Cmds : Submitted(c) => Submitted(c)'
    BY <1>10 DEF Release, callers, Submitted
  <2> QED BY <2>1, <2>2, <2>3, QueueShrink
<1>11. ASSUME NEW a \in Agents, Reap(a) \/ Disconnect(a) PROVE QueueInv'
  <2>1. DropEntry(a) /\ UNCHANGED <<callers, handed>>
    BY <1>11 DEF Reap, Disconnect
  <2>2. \A c \in Cmds : Submitted(c) => Submitted(c)' /\ target'[c] = target[c]
    BY <2>1 DEF callers, Submitted
  <2> QED BY <1>2, <2>1, <2>2
<1>12. ASSUME NEW a \in Agents, NEW c \in Cmds, Lookup(a, c) \/ Send(a, c) PROVE QueueInv'
  BY <1>8, <1>12 DEF Lookup, Send, channels, polls, pollOwner
<1>13. ASSUME Tick PROVE QueueInv'
  BY <1>8, <1>13 DEF Tick
<1>14. ASSUME Restart PROVE QueueInv'
  <2>1. InboxesShrink BY <1>14 DEF Restart, InboxesShrink
  <2>2. /\ UNCHANGED <<handed, target>>
        /\ \A a \in Agents : chanOf'[a] = NoChan
        /\ \A p \in Polls : pollChan'[p] = NoChan
    BY <1>14 DEF Restart
  <2>3. \A c \in Cmds : Submitted(c) => Submitted(c)'
    BY <1>14 DEF Restart, Submitted, TypeInv, TypeOK, DispStates
  <2> QED BY <2>1, <2>2, <2>3, QueueShrink
<1>15. CASE UNCHANGED vars
  BY <1>8, <1>15 DEF vars, callers
<1> QED
  BY <1>3, <1>4, <1>5, <1>6, <1>7, <1>9, <1>10, <1>11, <1>12, <1>13, <1>14, <1>15
  DEF Next, DispatchStep, PollStep

-----------------------------------------------------------------------------
(* A held poll keeps its agent connected. *)

\* No poll is held at the start.
LEMMA HoldInit == Init => RefreshedByHold
BY DEF Init, RefreshedByHold

\* Connect refreshes lastPoll, and time passes for both alike.
LEMMA HoldStep == TypeInv /\ OneOwner /\ RefreshedByHold /\ [Next]_vars => RefreshedByHold'
<1> SUFFICES ASSUME TypeInv, OneOwner, RefreshedByHold, [Next]_vars PROVE RefreshedByHold'
    OBVIOUS
<1> USE DEF TypeInv, TypeOK, PollShape, PollStates, RefreshedByHold, polls, pollOwner
<1>1. ASSUME NEW a \in Agents, DropEntry(a) PROVE RefreshedByHold'
  BY <1>1 DEF DropEntry
<1>2. ASSUME UNCHANGED <<chanOf, age, polls>> PROVE RefreshedByHold'
  BY <1>2
<1>3. ASSUME NEW c \in Cmds, NEW a \in Agents, CheckConnected(c, a) PROVE RefreshedByHold'
  BY <1>1, <1>2, <1>3 DEF CheckConnected, channels
<1>4. ASSUME NEW c \in Cmds, Enqueue(c) PROVE RefreshedByHold'
  <2>1. \/ target[c] \in Agents /\ DropEntry(target[c])
        \/ UNCHANGED <<chanOf, age, polls>>
    BY <1>4, EnqueueCases DEF channels
  <2> QED BY <1>1, <1>2, <2>1
<1>5. ASSUME NEW c \in Cmds, TakeResult(c) \/ GiveUp(c) \/ Unregister(c)
      PROVE  RefreshedByHold'
  BY <1>2, <1>5 DEF TakeResult, GiveUp, Unregister, channels
<1>6. ASSUME NEW p \in Polls, NEW a \in Agents, Connect(p, a) PROVE RefreshedByHold'
  <2>1. PICK ch \in Chans : /\ chanOf' = [chanOf EXCEPT ![a] = ch]
                            /\ pollChan' = [pollChan EXCEPT ![p] = ch]
    BY <1>6 DEF Connect
  <2> QED BY <1>6, <2>1 DEF Connect
<1>7. ASSUME NEW p \in Polls, TakeCommand(p) \/ EndPoll(p) PROVE RefreshedByHold'
  BY <1>7 DEF TakeCommand, EndPoll
<1>8. ASSUME NEW p \in Polls, Release(p) PROVE RefreshedByHold'
  BY <1>8 DEF Release
<1>9. ASSUME NEW a \in Agents, Reap(a) \/ Disconnect(a) PROVE RefreshedByHold'
  BY <1>1, <1>9 DEF Reap, Disconnect
<1>10. ASSUME NEW a \in Agents, NEW c \in Cmds, Lookup(a, c) \/ Send(a, c)
       PROVE  RefreshedByHold'
  BY <1>2, <1>10 DEF Lookup, Send, channels
<1>11. ASSUME Tick PROVE RefreshedByHold'
  BY <1>11 DEF Tick
<1>12. ASSUME Restart PROVE RefreshedByHold'
  BY <1>12 DEF Restart
<1>13. CASE UNCHANGED vars
  BY <1>2, <1>13 DEF vars
<1> QED
  BY <1>3, <1>4, <1>5, <1>6, <1>7, <1>8, <1>9, <1>10, <1>11, <1>12, <1>13
  DEF Next, DispatchStep, PollStep

\* A hold is at most pollHold, which connectionTTL covers.
LEMMA HoldImpliesAlive == TypeInv /\ RefreshedByHold => HeldPollIsAlive
BY DEF TypeInv, TypeOK, PollShape, PollStates, RefreshedByHold, HeldPollIsAlive, Alive

-----------------------------------------------------------------------------
(* The theorems *)

RegistryInv == TypeInv /\ OneOwner /\ CallInv /\ QueueInv /\ RefreshedByHold

\* The inductive invariant holds in every reachable state.
LEMMA RegistryInvariant == Spec => []RegistryInv
<1>1. Init => RegistryInv
  BY TypeInit, OwnerInit, CallInit, QueueInit, HoldInit DEF RegistryInv
<1>2. RegistryInv /\ [Next]_vars => RegistryInv'
  BY TypeStep, OwnerStep, CallStep, QueueStep, HoldStep DEF RegistryInv
<1> QED BY <1>1, <1>2, PTL DEF Spec

\* However polls, reconnects and disconnects interleave, a command is handed
\* to an agent at most once: it is in one place of one inbox or handed out.
THEOREM CommandsHandedOnce == Spec => []HandedOnce
<1>1. RegistryInv => HandedOnce BY DEF RegistryInv, QueueInv
<1> QED BY <1>1, RegistryInvariant, PTL

\* A poll is only ever given commands issued to its own agent.
THEOREM CommandsReachTarget == Spec => []HandedToTarget
<1>1. RegistryInv => HandedToTarget BY DEF RegistryInv, QueueInv
<1> QED BY <1>1, RegistryInvariant, PTL

\* No caller is told "refused" about a command that is queued or handed out.
THEOREM RefusalIsFinal == Spec => []RefusedNeverHanded
<1>1. RegistryInv => RefusedNeverHanded
  BY DEF RegistryInv, QueueInv, OnlySubmitted, Submitted, RefusedNeverHanded, Queued
<1> QED BY <1>1, RegistryInvariant, PTL

\* An agent with a poll held on its inbox is never judged disconnected, for
\* every hold that is no longer than the connection window.
THEOREM HeldPollsKeepAlive == Spec => []HeldPollIsAlive
<1>1. RegistryInv => HeldPollIsAlive BY HoldImpliesAlive DEF RegistryInv
<1> QED BY <1>1, RegistryInvariant, PTL

\* r.pending never leaks an entry, and no inbox exceeds its buffer.
THEOREM NothingLeaks == Spec => [](PendingExact /\ InboxBounded)
<1>1. RegistryInv => PendingExact /\ InboxBounded
  BY DEF RegistryInv, CallInv, QueueInv
<1> QED BY <1>1, RegistryInvariant, PTL

=============================================================================
