------------------------------ MODULE ArpSweep ------------------------------
(***************************************************************************)
(* One ARP sweep (internal/scan/arp_linux.go): a sender that goes over the *)
(* targets Retries times and leaves out who has answered, and a reader     *)
(* goroutine that collects replies meanwhile.  The two share seen and end  *)
(* each other: the reader when everybody has answered, the sender after    *)
(* the last request and a time to settle, or when the context is done.     *)
(***************************************************************************)
EXTENDS NetUtil

CONSTANTS
    Retries,  \* sweepOptions.retries
    Hosts     \* the hosts that are up; they may answer, at any time, or not

ASSUME RetriesAssumption == Retries \in Nat \ {0}
ASSUME HostsAssumption == Hosts \subseteq Addrs

VARIABLES
    phase,    \* "off", "send", "settle", "drain" (after stopReading), "done"
    targets,  \* the addresses to probe
    pass,     \* pass of the send loop
    todo,     \* targets this pass has yet to come to
    probes,   \* history: requests sent to each address in this sweep
    seen,     \* addresses whose reply is in
    reading,  \* the reader goroutine is running
    sendErr   \* a request could not be sent

sweepVars == <<phase, targets, pass, todo, probes, seen, reading, sendErr>>

Phases == {"off", "send", "settle", "drain", "done"}
Wanted == {targets[i] : i \in DOMAIN targets}

SweepTypeOK ==
    /\ phase \in Phases
    /\ targets \in Seq(Addrs) /\ todo \in Seq(Addrs)
    /\ pass \in 1..Retries
    /\ probes \in [Addrs -> 0..Retries]
    /\ seen \subseteq Wanted
    /\ reading \in BOOLEAN /\ sendErr \in BOOLEAN
    /\ phase \in {"off", "done"} => ~reading

SweepInit ==
    /\ phase = "off" /\ targets = <<>> /\ pass = 1 /\ todo = <<>>
    /\ probes = [a \in Addrs |-> 0] /\ seen = {}
    /\ reading = FALSE /\ sendErr = FALSE

-----------------------------------------------------------------------------
\* The socket is open and the reader started.
BeginSweep(ts) ==
    /\ phase = "off"
    /\ phase' = "send" /\ targets' = ts /\ pass' = 1 /\ todo' = ts
    /\ probes' = [a \in Addrs |-> 0] /\ seen' = {}
    /\ reading' = TRUE /\ sendErr' = FALSE

Settle == phase' = "settle" /\ UNCHANGED <<targets, pass, todo, probes, seen, reading>>

\* One turn of the send loop: the context is done; or the pass is over; or
\* the next target, unless it has answered before, is sent a request, which
\* fails only if the transmit queue stays full.
ProbeNext(late) ==
    /\ phase = "send"
    /\ \/ late /\ Settle /\ UNCHANGED sendErr
       \/ /\ ~late /\ todo = <<>>
          /\ IF pass = Retries THEN Settle
             ELSE /\ pass' = pass + 1 /\ todo' = targets
                  /\ UNCHANGED <<phase, targets, probes, seen, reading>>
          /\ UNCHANGED sendErr
       \/ /\ ~late /\ todo # <<>> /\ pass > 1 /\ Head(todo) \in seen
          /\ todo' = Tail(todo)
          /\ UNCHANGED <<phase, targets, pass, probes, seen, reading, sendErr>>
       \/ /\ ~late /\ todo # <<>> /\ ~(pass > 1 /\ Head(todo) \in seen)
          /\ \/ /\ todo' = Tail(todo)
                /\ probes' = [probes EXCEPT ![Head(todo)] = @ + 1]
                /\ UNCHANGED <<phase, targets, pass, seen, reading, sendErr>>
             \/ sendErr' = TRUE /\ Settle

\* The reader takes a reply of a wanted address, duplicates and all.  It ends
\* with the last one missing; stopped in the middle of a receive, it still
\* takes what that receive returned.
Receive(a) ==
    /\ reading
    /\ a \in Hosts \cap Wanted
    /\ seen' = seen \cup {a}
    /\ reading' = (phase # "drain" /\ seen' # Wanted)
    /\ UNCHANGED <<phase, targets, pass, todo, probes, sendErr>>

\* The reader ends without one: a receive fails, or it sees that it is to stop.
ReaderEnds ==
    /\ reading
    /\ reading' = FALSE
    /\ UNCHANGED <<phase, targets, pass, todo, probes, seen, sendErr>>

\* The time to settle is over, or everybody has answered, or the context is
\* done: stopReading, and wait for the reader.
StopReading ==
    /\ phase = "settle"
    /\ phase' = "drain"
    /\ UNCHANGED <<targets, pass, todo, probes, seen, reading, sendErr>>

\* wg.Wait is over and the replies are taken.
Collect ==
    /\ phase = "drain"
    /\ ~reading
    /\ phase' = "done"
    /\ UNCHANGED <<targets, pass, todo, probes, seen, reading, sendErr>>

SweepStep(late) ==
    \/ ProbeNext(late)
    \/ \E a \in Wanted : Receive(a)
    \/ ReaderEnds
    \/ StopReading
    \/ Collect

\* arpSweep returns an error only if it has no reply to return.
SweepFailed == seen = {} /\ sendErr

\* The caller has taken the result.
SweepReset ==
    /\ phase' = "off" /\ targets' = <<>> /\ pass' = 1 /\ todo' = <<>>
    /\ probes' = [a \in Addrs |-> 0] /\ seen' = {}
    /\ reading' = FALSE /\ sendErr' = FALSE

\* Hosts of network n that neither answered nor were asked in every pass, and
\* addresses asked that no host of n can have.
Neglected(n) == {a \in UsableHosts(n) \ seen : probes[a] < Retries}
Stray(n)     == {a \in Addrs \ UsableHosts(n) : probes[a] > 0}

=============================================================================
