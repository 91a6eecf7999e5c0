--------------------------------- MODULE Wol ---------------------------------
(***************************************************************************)
(* The Wake-on-LAN sender (internal/wol/wol.go).  Send goes over the       *)
(* destinations one by one; one that fails does not end it.                *)
(***************************************************************************)
EXTENDS NetUtil

CONSTANTS
    Wakes,      \* wake commands
    Copies,     \* packets for each destination
    Broadcasts  \* broadcast addresses a request may name

ASSUME CopiesAssumption == Copies \in Nat \ {0}
ASSUME BroadcastsAssumption == Broadcasts \subseteq Addrs

VARIABLES
    wake,   \* where each wake command is
    dests,  \* destinations it has yet to send to
    sent,   \* result.Sent
    whole,  \* history: all the destinations it began with
    gone    \* history: <<destination, packets that left for it>>, as they are dealt with

wolVars == <<wake, dests, sent, whole, gone>>

WolTypeOK ==
    /\ wake \in [Wakes -> {"off", "sending", "ok", "error"}]
    /\ dests \in [Wakes -> SUBSET Addrs]
    /\ sent \in [Wakes -> Nat]
    /\ whole \in [Wakes -> SUBSET Addrs]
    /\ gone \in [Wakes -> SUBSET (Addrs \X (0..Copies))]

WolInit ==
    /\ wake = [w \in Wakes |-> "off"]
    /\ dests = [w \in Wakes |-> {}]
    /\ sent = [w \in Wakes |-> 0]
    /\ whole = [w \in Wakes |-> {}]
    /\ gone = [w \in Wakes |-> {}]

-----------------------------------------------------------------------------
Limited == Pow2[Width] - 1  \* net.IPv4bcast

DirectedBroadcasts(is) == {BroadcastAddr(EligibleInterfaces[i]) : i \in is}

\* resolveDestinations: the named address; or the directed broadcasts, each
\* once, of every eligible interface or of the named one (of none, if it is
\* not eligible), and the limited broadcast.
resolveDestinations ==
    {{a} : a \in Broadcasts}
    \cup {DirectedBroadcasts(is) \cup {Limited} :
            is \in {DOMAIN EligibleInterfaces, {}} \cup {{i} : i \in DOMAIN EligibleInterfaces}}

\* Send, down to the loop; a request with a bad field is refused.
StartWake(w) ==
    /\ wake[w] = "off"
    /\ \/ /\ wake' = [wake EXCEPT ![w] = "error"]
          /\ UNCHANGED <<dests, whole>>
       \/ \E ds \in resolveDestinations :
             /\ wake' = [wake EXCEPT ![w] = "sending"]
             /\ dests' = [dests EXCEPT ![w] = ds]
             /\ whole' = [whole EXCEPT ![w] = ds]
    /\ UNCHANGED <<sent, gone>>

\* Faulty: a destination that fails ends the loop.
SendToOrStop(w) ==
    /\ wake[w] = "sending"
    /\ \E d \in dests[w], k \in 0..Copies :
         /\ dests' = [dests EXCEPT ![w] = IF k = 0 THEN {} ELSE @ \ {d}]
         /\ sent' = [sent EXCEPT ![w] = @ + k]
         /\ gone' = [gone EXCEPT ![w] = @ \cup {<<d, k>>}]
    /\ UNCHANGED <<wake, whole>>

\* sendTo for the next destination, of which only some copies may leave, or
\* none.
SendTo(w) ==
    /\ wake[w] = "sending"
    /\ \E d \in dests[w], k \in 0..Copies :
         /\ dests' = [dests EXCEPT ![w] = @ \ {d}]
         /\ sent' = [sent EXCEPT ![w] = @ + k]
         /\ gone' = [gone EXCEPT ![w] = @ \cup {<<d, k>>}]
    /\ UNCHANGED <<wake, whole>>

EndWake(w) ==
    /\ wake[w] = "sending" /\ dests[w] = {}
    /\ wake' = [wake EXCEPT ![w] = IF sent[w] = 0 THEN "error" ELSE "ok"]
    /\ UNCHANGED <<dests, sent, whole, gone>>

\* The command's goroutine has returned.
WolForget(c) ==
    /\ wake' = [w \in Wakes |-> IF w = c THEN "off" ELSE wake[w]]
    /\ sent' = [w \in Wakes |-> IF w = c THEN 0 ELSE sent[w]]
    /\ whole' = [w \in Wakes |-> IF w = c THEN {} ELSE whole[w]]
    /\ gone' = [w \in Wakes |-> IF w = c THEN {} ELSE gone[w]]
    /\ UNCHANGED dests

\* The process ends.
WolGone ==
    /\ wake' = [w \in Wakes |-> "off"]
    /\ dests' = [w \in Wakes |-> {}]
    /\ sent' = [w \in Wakes |-> 0]
    /\ whole' = [w \in Wakes |-> {}]
    /\ gone' = [w \in Wakes |-> {}]

WakeEnded(w) == wake[w] \in {"ok", "error"}

-----------------------------------------------------------------------------
(* Properties *)

\* A wake that reports success has put at least one packet on the wire, and
\* one that reports failure none; and whatever failed on the way, no
\* destination was left out.
WakeHonest ==
    \A w \in Wakes : WakeEnded(w) =>
        /\ wake[w] = "ok" <=> \E g \in gone[w] : g[2] > 0
        /\ {g[1] : g \in gone[w]} = whole[w]

=============================================================================
