------------------------------ MODULE AgentLoop ------------------------------
(***************************************************************************)
(* A running agent (internal/agent/run.go): the loop that greets the hub,  *)
(* polls it and backs off, and the commands it was given, each on its own  *)
(* goroutine, sharing the scanner.  The hub can be out of reach now and    *)
(* then, which is when requests fail.                                      *)
(***************************************************************************)
EXTENDS Scanner, Wol

CONSTANTS
    MinBackoff, MaxBackoff,
    MaxLoad  \* bound: outages of the hub and commands given, together

ASSUME BackoffAssumption ==
    MinBackoff \in Nat \ {0} /\ MaxBackoff \in Nat /\ MinBackoff <= MaxBackoff
ASSUME WakesAssumption == Wakes \cap (Scans \cup Checks) = {}

VARIABLES
    loop,      \* where Run is; greeted is that it is at "poll"
    backoff,
    result,    \* of each command: due while it is being executed
    up,        \* the hub is in reach
    outages    \* how often it went out of reach

work    == <<scannerVars, wolVars, result>>
hubVars == <<up, outages>>
vars    == <<work, loop, backoff, hubVars>>

Commands == Scans \cup Checks \cup Wakes

ASSUME LoadAssumption == MaxLoad \in Nat /\ IsFiniteSet(Commands)

TypeOK ==
    /\ ScannerTypeOK
    /\ WolTypeOK
    /\ loop \in {"hello", "poll", "sleep", "stopped"}
    /\ backoff \in MinBackoff..MaxBackoff
    /\ result \in [Commands -> {"none", "due", "over"}]
    /\ up \in BOOLEAN
    /\ outages \in 0..MaxLoad

Init ==
    /\ ScannerInit
    /\ WolInit
    /\ loop = "hello" /\ backoff = MinBackoff
    /\ result = [c \in Commands |-> "none"]
    /\ up = TRUE /\ outages = 0

Load == outages + Cardinality({c \in Commands : result[c] # "none"})

-----------------------------------------------------------------------------
(* The loop *)

HelloOk ==
    /\ loop = "hello" /\ up
    /\ loop' = "poll" /\ backoff' = MinBackoff
    /\ UNCHANGED <<work, hubVars>>

\* hello or poll fails; greeted is FALSE after either.
RequestFails ==
    /\ loop \in {"hello", "poll"} /\ ~up
    /\ loop' = "sleep"
    /\ UNCHANGED <<work, backoff, hubVars>>

\* Faulty: no ceiling.
nextBackoffFree(b) == b * 2

nextBackoff(b) == IF b * 2 > MaxBackoff THEN MaxBackoff ELSE b * 2

\* Faulty: a backoff at its ceiling ends the loop.
WakeUpOrQuit ==
    /\ loop = "sleep" /\ backoff < MaxBackoff
    /\ loop' = "hello" /\ backoff' = nextBackoff(backoff)
    /\ UNCHANGED <<work, hubVars>>

WakeUp ==
    /\ loop = "sleep"
    /\ loop' = "hello" /\ backoff' = nextBackoff(backoff)
    /\ UNCHANGED <<work, hubVars>>

Begin(c) ==
    \/ c \in Scans /\ StartScan(c) /\ UNCHANGED wolVars
    \/ c \in Checks /\ StartCheck(c) /\ UNCHANGED wolVars
    \/ c \in Wakes /\ StartWake(c) /\ UNCHANGED scannerVars

\* The poll brings a command, and a goroutine begins to execute it; the next
\* poll goes out.  The hub hands out a command once.  (A poll that comes back
\* empty is followed by the next and changes nothing.)
PollCommand(c) ==
    /\ loop = "poll" /\ up
    /\ result[c] = "none"
    /\ Load < MaxLoad
    /\ backoff' = MinBackoff
    /\ Begin(c)
    /\ result' = [result EXCEPT ![c] = "due"]
    /\ UNCHANGED <<loop, hubVars>>

LoopStep == \/ HelloOk \/ RequestFails \/ WakeUp
            \/ \E c \in Commands : PollCommand(c)

-----------------------------------------------------------------------------
(* Commands *)

\* run, until it returns.
Work(c) ==
    /\ \/ c \in Scans /\ ScanStep(c) /\ UNCHANGED wolVars
       \/ c \in Wakes /\ (SendTo(c) \/ EndWake(c)) /\ UNCHANGED scannerVars
    /\ UNCHANGED <<result, loop, backoff, hubVars>>

ProbeWork(p) ==
    /\ ProbeStep(p)
    /\ UNCHANGED <<wolVars, result, loop, backoff, hubVars>>

SweepWork ==
    /\ Sweeping
    /\ UNCHANGED <<wolVars, result, loop, backoff, hubVars>>

\* What the network sends to a probe that waits, and to others.
Network ==
    /\ Quiet \/ \E p \in Probes : IcmpFromHost(p)
    /\ UNCHANGED <<wolVars, result, loop, backoff, hubVars>>

TimeOut(c) ==
    /\ Expire(c)
    /\ UNCHANGED <<wolVars, result, loop, backoff, hubVars>>

Returned(c) == IF c \in Wakes THEN WakeEnded(c) ELSE Ended(c)

\* postResult, once.  It fails with the hub out of reach or the command's
\* budget used up, and the result is dropped (CommandPath has that).
PostResult(c) ==
    /\ result[c] = "due" /\ Returned(c)
    /\ result' = [result EXCEPT ![c] = "over"]
    /\ Forget(c) /\ WolForget(c)
    /\ UNCHANGED <<loop, backoff, hubVars>>

-----------------------------------------------------------------------------
(* Environment *)

GoDown ==
    /\ up /\ Load < MaxLoad
    /\ up' = FALSE /\ outages' = outages + 1
    /\ UNCHANGED <<work, loop, backoff>>

ComeUp ==
    /\ ~up
    /\ up' = TRUE
    /\ UNCHANGED <<work, loop, backoff, outages>>

\* The context is cancelled: the process ends, with everything under way, and
\* may be started again.
Stop ==
    /\ loop # "stopped"
    /\ loop' = "stopped" /\ backoff' = MinBackoff
    /\ ScannerGone /\ WolGone
    /\ result' = [c \in Commands |-> IF result[c] = "due" THEN "over" ELSE result[c]]
    /\ UNCHANGED hubVars

Start ==
    /\ loop = "stopped"
    /\ loop' = "hello"
    /\ UNCHANGED <<work, backoff, hubVars>>

Next ==
    \/ LoopStep
    \/ \E c \in Commands : Work(c) \/ PostResult(c)
    \/ \E p \in Probes : ProbeWork(p)
    \/ SweepWork
    \/ Network
    \/ \E c \in Scans \cup Checks : TimeOut(c)
    \/ GoDown \/ ComeUp
    \/ Stop \/ Start

\* Goroutines run, timers fire, a receive that nothing comes in for and a
\* request that is out come to an end.  No fairness for hub and network, for
\* replies, for timeouts.  As commands are finitely many here, nobody can be
\* overtaken at the mutex for ever; in general that takes Go's promise that a
\* mutex does not starve.
Fairness ==
    /\ WF_vars(LoopStep)
    /\ \A c \in Commands : WF_vars(Work(c) \/ PostResult(c))
    /\ \A p \in Probes : WF_vars(ProbeWork(p))
    /\ WF_vars(SweepWork)

Spec == Init /\ [][Next]_vars /\ Fairness

-----------------------------------------------------------------------------
(* Properties *)

\* However often the hub was out of reach, and whatever the agent is working
\* on: once the hub stays in reach, the agent greets it and keeps polling.
AgentReturns == <>[](up /\ loop # "stopped") => <>[](loop = "poll")

\* No command hangs, timeouts or not, and whatever else shares the scanner with
\* it: time and again all that were taken have ended, their results posted or
\* dropped.  (As each is given once, that is to say that each one ends.)  Nothing
\* but one of its own probes stuck in icmpProbe can keep a command from that,
\* for as long as other hosts' ICMP comes in on the raw socket: no deadline and
\* no budget ends that receive loop, but no other command waits for it.
CommandsEnd ==
    []<>(\A c \in Commands :
            \/ result[c] # "due"
            \/ noisy /\ \E p \in Probes : p[1] = c /\ probe[p] = "ping")

=============================================================================
