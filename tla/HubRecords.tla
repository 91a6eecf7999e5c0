----------------------------- MODULE HubRecords -----------------------------
(***************************************************************************)
(* The handlers that make and change agent records and enrollment tokens,  *)
(* over HubStore: handleEnroll (api_agent.go) with its steps of claiming,  *)
(* signing, storing and answering; handleAgentHello and handleDiscover,    *)
(* which read a copy of a record and store it back later; the operator's   *)
(* changes (api_operator.go); and a hub that goes down and comes back      *)
(* between any two steps.                                                  *)
(***************************************************************************)
EXTENDS HubStore

VARIABLES
    created,   \* token IDs drawn so far (NewID never repeats one)
    shared,    \* tokens whose secret was shown to the operator
    enroll,    \* where the enrollment attempt for each ID is
    via,       \* the token it claimed
    certs,     \* IDs for which a certificate was signed
    enrolled,  \* IDs whose agent was answered 200 and holds its certificate
    removed,   \* history: agents an operator removed
    hello,     \* the record copy a handleAgentHello is holding
    discover   \* the record copy a handleDiscover is holding

handlerVars == <<created, shared, enroll, via, certs, enrolled, removed,
                 hello, discover>>
vars == <<storeVars, handlerVars>>

enrollVars == <<enroll, via, certs, enrolled>>
tokenVars  == <<created, shared>>
copies     == <<hello, discover>>

EnrollStates == {"idle", "claimed", "signed", "stored", "done"}

TypeOK ==
    /\ StoreTypeOK
    /\ created \subseteq Tokens /\ shared \subseteq created
    /\ enroll \in [Ids -> EnrollStates]
    /\ via \in [Ids -> Tokens \cup {Absent}]
    /\ certs \subseteq Ids /\ enrolled \subseteq Ids
    /\ removed \subseteq Ids
    /\ hello \in [Ids -> Records \cup {Absent}]
    /\ discover \in [Ids -> Records \cup {Absent}]

Init ==
    /\ StoreInit
    /\ created = {} /\ shared = {}
    /\ enroll = [i \in Ids |-> "idle"]
    /\ via = [i \in Ids |-> Absent]
    /\ certs = {} /\ enrolled = {} /\ removed = {}
    /\ hello = [i \in Ids |-> Absent]
    /\ discover = [i \in Ids |-> Absent]

-----------------------------------------------------------------------------
(* Tokens *)

\* handleCreateToken: the secret is shown only if the token was written out.
CreateToken(t) ==
    /\ t \notin created
    /\ created' = created \cup {t}
    /\ \E ok \in BOOLEAN :
         /\ PutToken(t, ok)
         /\ shared' = IF ok THEN shared \cup {t} ELSE shared
    /\ UNCHANGED <<enrollVars, removed, copies>>

RemoveToken(t) ==
    /\ t \in toks
    /\ \E ok \in BOOLEAN : DeleteToken(t, ok)
    /\ UNCHANGED handlerVars

-----------------------------------------------------------------------------
(* handleEnroll *)

Finish(i) == enroll' = [enroll EXCEPT ![i] = "done"]

\* Refused before the token is looked at: over the rate limit, unreadable
\* body, no CSR or a malformed token.
RefuseEarly(i) ==
    /\ enroll[i] = "idle"
    /\ Finish(i)
    /\ UNCHANGED <<storeVars, via, certs, enrolled, removed, tokenVars, copies>>

\* The token is unknown or unusable.
RefuseToken(i, t) ==
    /\ enroll[i] = "idle"
    /\ t \notin toks \/ ~Usable(t)
    /\ Finish(i)
    /\ UNCHANGED <<storeVars, via, certs, enrolled, removed, tokenVars, copies>>

\* ClaimToken succeeds, or has counted the use when writing it out fails.
ClaimToken(i, t) ==
    /\ enroll[i] = "idle"
    /\ t \in toks
    /\ Usable(t)
    /\ via' = [via EXCEPT ![i] = t]
    /\ \E ok \in BOOLEAN :
         /\ Claim(i, t, ok)
         /\ IF ok THEN enroll' = [enroll EXCEPT ![i] = "claimed"]
                  ELSE Finish(i)
    /\ UNCHANGED <<certs, enrolled, removed, tokenVars, copies>>

\* SignAgent; a CSR it rejects ends the attempt with the use consumed.
SignAgent(i) ==
    /\ enroll[i] = "claimed"
    /\ \/ /\ certs' = certs \cup {i}
          /\ enroll' = [enroll EXCEPT ![i] = "signed"]
       \/ Finish(i) /\ UNCHANGED certs
    /\ UNCHANGED <<storeVars, via, enrolled, removed, tokenVars, copies>>

\* The new agent's record, with the token it came by.
NewRecord(i, n) == [name |-> n, disabled |-> FALSE, via |-> via[i]]

\* Faulty: the agent is answered although its record was not written out.
StoreUnchecked(i) ==
    /\ enroll[i] = "signed"
    /\ \E n \in Names, ok \in BOOLEAN : PutAgent(i, NewRecord(i, n), ok)
    /\ enroll' = [enroll EXCEPT ![i] = "stored"]
    /\ UNCHANGED <<via, certs, enrolled, removed, tokenVars, copies>>

\* PutAgent of the new record, which has to be written out.
StoreAgent(i) ==
    /\ enroll[i] = "signed"
    /\ \E n \in Names, ok \in BOOLEAN :
         /\ PutAgent(i, NewRecord(i, n), ok)
         /\ IF ok THEN enroll' = [enroll EXCEPT ![i] = "stored"]
                  ELSE Finish(i)
    /\ UNCHANGED <<via, certs, enrolled, removed, tokenVars, copies>>

\* The response, which may not reach the agent.
Respond(i) ==
    /\ enroll[i] = "stored"
    /\ Finish(i)
    /\ enrolled' \in {enrolled, enrolled \cup {i}}
    /\ UNCHANGED <<storeVars, via, certs, removed, tokenVars, copies>>

-----------------------------------------------------------------------------
(* Agents *)

\* requireAgent: the record is copied and checked, then the contact recorded.
\* TouchAgent changes nothing the model keeps, but may write the state out; a
\* write that comes later than the copy is OtherWrite.  handleAgentHello goes
\* on with the copy; other requests end here.
Contact(i) ==
    /\ i \in enrolled
    /\ rec[i] # Absent
    /\ ~rec[i].disabled
    /\ \E flush \in BOOLEAN : TouchAgent(i, flush)
    /\ hello' \in {hello, [hello EXCEPT ![i] = rec[i]]}
    /\ UNCHANGED <<enrollVars, removed, tokenVars, discover>>

\* handleAgentHello stores the copy, its description refreshed.
StoreHello(i) ==
    /\ hello[i] # Absent
    /\ \E ok \in BOOLEAN : PutAgent(i, hello[i], ok)
    /\ hello' = [hello EXCEPT ![i] = Absent]
    /\ UNCHANGED <<enrollVars, removed, tokenVars, discover>>

\* handleDiscover copies the record, sends a command and waits; when the agent
\* answers it stores the copy, its interfaces refreshed.
BeginDiscover(i) ==
    /\ rec[i] # Absent
    /\ discover' = [discover EXCEPT ![i] = rec[i]]
    /\ UNCHANGED <<storeVars, enrollVars, removed, tokenVars, hello>>

EndDiscover(i) ==
    /\ discover[i] # Absent
    /\ \/ \E ok \in BOOLEAN : PutAgent(i, discover[i], ok)
       \/ UNCHANGED storeVars  \* no answer, or not OK
    /\ discover' = [discover EXCEPT ![i] = Absent]
    /\ UNCHANGED <<enrollVars, removed, tokenVars, hello>>

\* The operator's changes.  handleUpdateAgent renames, then enables or disables,
\* as two calls of the store with anything in between; either may be left out.
OperatorUpdate(i) ==
    /\ \E ok \in BOOLEAN : \/ \E d \in BOOLEAN : SetAgentDisabled(i, d, ok)
                           \/ \E n \in Names : RenameAgent(i, n, ok)
    /\ UNCHANGED handlerVars

\* handleDeleteAgent.
OperatorDelete(i) ==
    /\ rec[i] # Absent
    /\ \E ok \in BOOLEAN : DeleteAgent(i, ok)
    /\ removed' = removed \cup {i}
    /\ UNCHANGED <<enrollVars, tokenVars, copies>>

-----------------------------------------------------------------------------
\* The hub goes down and comes back; requests being served are cut off.
Restart ==
    /\ Reopen
    /\ enroll' = [i \in Ids |-> IF enroll[i] = "idle" THEN "idle" ELSE "done"]
    /\ hello' = [i \in Ids |-> Absent]
    /\ discover' = [i \in Ids |-> Absent]
    /\ UNCHANGED <<via, certs, enrolled, removed, tokenVars>>

\* Handlers that change other parts of the state, and Close.
OtherWrite == FlushAll /\ UNCHANGED handlerVars

TokenExpires(t) == Expire(t) /\ UNCHANGED handlerVars

EnrollStep(i) ==
    \/ RefuseEarly(i)
    \/ \E t \in shared : RefuseToken(i, t) \/ ClaimToken(i, t)
    \/ SignAgent(i)
    \/ StoreAgent(i)
    \/ Respond(i)

RecordStep(i) ==
    \/ Contact(i) \/ StoreHello(i)
    \/ BeginDiscover(i) \/ EndDiscover(i)
    \/ OperatorUpdate(i) \/ OperatorDelete(i)

Next ==
    \/ \E t \in Tokens : CreateToken(t) \/ RemoveToken(t) \/ TokenExpires(t)
    \/ \E i \in Ids : EnrollStep(i) \/ RecordStep(i)
    \/ OtherWrite
    \/ Restart

Spec == Init /\ [][Next]_vars

-----------------------------------------------------------------------------
(* Properties *)

CertsOf(t) == {i \in certs : via[i] = t}

\* "A single-use token admits exactly one agent even if two try at once", and
\* a token of N uses at most N: whatever attempts overlap, whichever writes of
\* the state file fail, and wherever the hub goes down in between.
CertsWithinUses ==
    \A t \in Tokens : MaxUses[t] > 0 => Cardinality(CertsOf(t)) <= MaxUses[t]

\* What a leaked token let in can be found: while the hub or its file has the
\* token, every certificate it paid for is listed with it ("AgentIDs make a
\* leaked token's blast radius visible"); and once it is revoked, record and
\* list gone, every agent the hub would still admit names it ("EnrolledVia
\* records which token admitted this agent, so revoking a leaked token can be
\* followed by finding everything it let in").
LeakIsVisible ==
    /\ \A i \in certs : /\ via[i] \in toks  => i \in claims[via[i]]
                       /\ via[i] \in dToks => i \in dClaims[via[i]]
    /\ \A i \in Ids : /\ rec[i] # Absent  => i \in certs /\ rec[i].via = via[i]
                     /\ dRec[i] # Absent => i \in certs /\ dRec[i].via = via[i]

\* An agent that was told it is enrolled is known to the hub, and still after
\* a restart, unless an operator removed it.
EnrolledIsKnown ==
    \A i \in enrolled \ removed : rec[i] # Absent /\ dRec[i] # Absent

\* Only enrollment and the operator change what the operator controls of a
\* record ("the ID and display name stay under hub control"; a disabled or
\* removed agent is cut off until the operator says otherwise).
OperatorHasLastWord ==
    [][\A i \in Ids : rec'[i] # rec[i] =>
          StoreAgent(i) \/ OperatorUpdate(i) \/ OperatorDelete(i) \/ Restart]_vars

-----------------------------------------------------------------------------
(* Why the properties hold: the parts of an inductive invariant *)

\* The attempts a token let past ClaimToken.
Past(i) == enroll[i] \in {"claimed", "signed", "stored"} \/ i \in certs

Admitted(t) == {i \in Ids : via[i] = t /\ Past(i)}

\* ClaimToken checks and counts in one critical section.
WithinUses ==
    \A t \in Tokens : MaxUses[t] > 0 =>
        /\ Cardinality(claims[t]) <= MaxUses[t]
        /\ Cardinality(dClaims[t]) <= MaxUses[t]

\* What a token admitted is listed with it where the token is, for only a claim
\* that was written out lets an attempt go on; and it stays within the token's
\* uses when the list is gone, for without the token there is no more to claim.
AdmittedListed ==
    \A t \in Tokens : /\ t \in toks  => Admitted(t) \subseteq claims[t]
                      /\ t \in dToks => Admitted(t) \subseteq dClaims[t]

AdmittedWithin ==
    \A t \in Tokens : MaxUses[t] > 0 => Cardinality(Admitted(t)) <= MaxUses[t]

\* An ID whose attempt has not begun is nowhere, and every record of an ID,
\* stored or held by a handler, names the token its attempt claimed.
Traced(i, r) ==
    r # Absent => i \in certs /\ enroll[i] # "idle" /\ r.via = via[i]

RecordsTraced ==
    \A i \in Ids : /\ enroll[i] = "idle" => i \notin certs
                   /\ enroll[i] \in {"signed", "stored"} => i \in certs
                   /\ Past(i) => via[i] \in created
                   /\ Traced(i, rec[i]) /\ Traced(i, dRec[i])
                   /\ Traced(i, hello[i]) /\ Traced(i, discover[i])

\* The record is in the file before the agent hears of it.
KnownBeforeAnswer ==
    \A i \in Ids \ removed :
        enroll[i] = "stored" \/ i \in enrolled => rec[i] # Absent /\ dRec[i] # Absent

=============================================================================
