--------------------------- MODULE CommandService ---------------------------
(***************************************************************************)
(* What the hub promises an operator about a command, whatever happens on  *)
(* the way to the agent: it is submitted or refused; a refused command     *)
(* never runs; a submitted one runs at most once; a success is reported    *)
(* only for a command that has run; and every call returns.  A command     *)
(* whose caller gave up may still run later.                               *)
(***************************************************************************)
EXTENDS FiniteSets

CONSTANT Cmds

VARIABLES
    phase,  \* what the operator's call has come to
    ran     \* the commands some agent has executed

vars == <<phase, ran>>

Phases == {"new", "open", "refused", "answered", "gaveup"}

TypeOK == phase \in [Cmds -> Phases] /\ ran \subseteq Cmds

Init == phase = [c \in Cmds |-> "new"] /\ ran = {}

Submit(c) ==
    /\ phase[c] = "new"
    /\ phase' = [phase EXCEPT ![c] = "open"]
    /\ UNCHANGED ran

Run(c) ==
    /\ phase[c] \in {"open", "gaveup"}
    /\ c \notin ran
    /\ ran' = ran \cup {c}
    /\ UNCHANGED phase

Answer(c) ==
    /\ phase[c] = "open"
    /\ c \in ran
    /\ phase' = [phase EXCEPT ![c] = "answered"]
    /\ UNCHANGED ran

\* The calls in S fail together: one by itself, or all of them when the hub
\* goes down.  Those not yet submitted are refused, the others given up.
Fail(S) ==
    /\ \A c \in S : phase[c] \in {"new", "open"}
    /\ phase' = [c \in Cmds |-> IF c \notin S THEN phase[c]
                                ELSE IF phase[c] = "new" THEN "refused" ELSE "gaveup"]
    /\ UNCHANGED ran

Next ==
    \/ \E c \in Cmds : Submit(c) \/ Run(c) \/ Answer(c)
    \/ \E S \in SUBSET Cmds : Fail(S)

\* An open call is eventually answered or given up.
Returns(c) == Answer(c) \/ \E S \in SUBSET Cmds : c \in S /\ Fail(S) /\ phase[c] = "open"

Safety == Init /\ [][Next]_vars
Spec == Safety /\ \A c \in Cmds : WF_vars(Returns(c))

=============================================================================
