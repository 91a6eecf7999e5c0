-------------------------- MODULE HubRecordsProofs --------------------------
(***************************************************************************)
(* Proofs about HubRecords, for any number of agents, tokens and uses: no  *)
(* overlap of attempts, failed write or restart lets a token admit more    *)
(* agents than it may, hides what it admitted, or loses an agent that was  *)
(* told it is enrolled.                                                    *)
(***************************************************************************)
EXTENDS HubRecords, FiniteSetTheorems, TLAPS

UseInv == WithinUses /\ AdmittedListed /\ AdmittedWithin

-----------------------------------------------------------------------------
(* Types *)

\* Changing the disabled flag or the name of a record leaves a record, and a
\* record is not Absent.
LEMMA RecordTypes ==
    ASSUME NEW r \in Records
    PROVE  /\ r # Absent
           /\ \A d \in BOOLEAN : [r EXCEPT !.disabled = d] \in Records
           /\ \A n \in Names : [r EXCEPT !.name = n] \in Records
BY AbsentAssumption DEF Records

\* A store call that sets one record keeps the store's types.
LEMMA SetRecordType ==
    ASSUME StoreTypeOK, NEW i \in Ids, NEW r \in Records \cup {Absent}, NEW ok \in BOOLEAN,
           SetRecord(i, r, ok)
    PROVE  StoreTypeOK'
BY DEF SetRecord, StoreTypeOK, flushLocked, disk

\* The empty store has the types.
LEMMA TypeInit == Init => TypeOK
BY DEF Init, TypeOK, StoreInit, StoreTypeOK, EnrollStates

\* Every handler keeps the types.
LEMMA TypeStep == TypeOK /\ [Next]_vars => TypeOK'
<1> SUFFICES ASSUME TypeOK, [Next]_vars PROVE TypeOK'
  OBVIOUS
<1> USE DEF TypeOK
<1>1. ASSUME NEW t \in Tokens, CreateToken(t) PROVE TypeOK'
  BY <1>1 DEF CreateToken, PutToken, flushLocked, disk, StoreTypeOK, enrollVars, copies
<1>2. ASSUME NEW t \in Tokens, RemoveToken(t) PROVE TypeOK'
  BY <1>2 DEF RemoveToken, DeleteToken, flushLocked, disk, StoreTypeOK, handlerVars
<1>3. ASSUME NEW t \in Tokens, TokenExpires(t) PROVE TypeOK'
  BY <1>3 DEF TokenExpires, Expire, memory, disk, StoreTypeOK, handlerVars
<1>4. ASSUME NEW i \in Ids, EnrollStep(i) PROVE TypeOK'
  <2> USE DEF tokenVars, copies, EnrollStates
  <2>1. CASE RefuseEarly(i)
    BY <2>1 DEF RefuseEarly, Finish, storeVars, memory, disk, StoreTypeOK
  <2>2. ASSUME NEW t \in shared, RefuseToken(i, t) PROVE TypeOK'
    BY <2>2 DEF RefuseToken, Finish, storeVars, memory, disk, StoreTypeOK
  <2>3. ASSUME NEW t \in shared, ClaimToken(i, t) PROVE TypeOK'
    <3>1. PICK ok \in BOOLEAN : Claim(i, t, ok) BY <2>3 DEF ClaimToken
    <3>2. StoreTypeOK' BY <3>1 DEF Claim, flushLocked, disk, StoreTypeOK
    <3> QED BY <2>3, <3>2 DEF ClaimToken, Finish
  <2>4. CASE SignAgent(i)
    BY <2>4 DEF SignAgent, Finish, storeVars, memory, disk, StoreTypeOK
  <2>5. CASE StoreAgent(i)
    <3>1. PICK n \in Names, ok \in BOOLEAN : PutAgent(i, NewRecord(i, n), ok)
      BY <2>5 DEF StoreAgent
    <3>2. StoreTypeOK' BY <3>1, SetRecordType DEF PutAgent, NewRecord, Records
    <3> QED BY <2>5, <3>2 DEF StoreAgent, Finish
  <2>6. CASE Respond(i)
    BY <2>6 DEF Respond, Finish, storeVars, memory, disk, StoreTypeOK
  <2> QED BY <1>4, <2>1, <2>2, <2>3, <2>4, <2>5, <2>6 DEF EnrollStep
<1>5. ASSUME NEW i \in Ids, RecordStep(i) PROVE TypeOK'
  <2> USE DEF enrollVars, tokenVars, copies
  <2>1. CASE Contact(i)
    BY <2>1 DEF Contact, TouchAgent, flushLocked, memory, disk, StoreTypeOK
  <2>2. CASE StoreHello(i)
    <3>1. StoreTypeOK' BY <2>2, SetRecordType DEF StoreHello, PutAgent
    <3> QED BY <2>2, <3>1 DEF StoreHello
  <2>3. CASE BeginDiscover(i)
    BY <2>3 DEF BeginDiscover, storeVars, memory, disk, StoreTypeOK
  <2>4. CASE EndDiscover(i)
    <3>1. StoreTypeOK'
      BY <2>4, SetRecordType DEF EndDiscover, PutAgent, storeVars, memory, disk, StoreTypeOK
    <3> QED BY <2>4, <3>1 DEF EndDiscover
  <2>5. CASE OperatorUpdate(i)
    <3>1. rec[i] \in Records
      BY <2>5 DEF OperatorUpdate, SetAgentDisabled, RenameAgent, StoreTypeOK
    <3>2. StoreTypeOK'
      BY <2>5, <3>1, RecordTypes, SetRecordType DEF OperatorUpdate, SetAgentDisabled, RenameAgent
    <3> QED BY <2>5, <3>2 DEF OperatorUpdate, handlerVars
  <2>6. CASE OperatorDelete(i)
    <3>1. StoreTypeOK' BY <2>6, SetRecordType DEF OperatorDelete, DeleteAgent
    <3> QED BY <2>6, <3>1 DEF OperatorDelete
  <2> QED BY <1>5, <2>1, <2>2, <2>3, <2>4, <2>5, <2>6 DEF RecordStep
<1>6. CASE OtherWrite
  BY <1>6 DEF OtherWrite, FlushAll, flushLocked, memory, StoreTypeOK, handlerVars
<1>7. CASE Restart
  BY <1>7 DEF Restart, Reopen, disk, StoreTypeOK, EnrollStates, tokenVars
<1>8. CASE UNCHANGED vars
  BY <1>8 DEF vars, storeVars, memory, disk, handlerVars, StoreTypeOK
<1> QED BY <1>1, <1>2, <1>3, <1>4, <1>5, <1>6, <1>7, <1>8 DEF Next

\* Store, handlers and the copies they hold keep their types.
THEOREM TypeCorrect == Spec => []TypeOK
BY TypeInit, TypeStep, PTL DEF Spec

-----------------------------------------------------------------------------
(* Uses of a token *)

\* What a store call that claims nothing does to the tokens: a list stays or
\* goes with its token, only a fresh token is added, and the file has what
\* memory has or keeps its own.
TokensKept ==
    /\ \A t \in Tokens : claims'[t] = claims[t] \/ (claims'[t] = {} /\ t \notin toks')
    /\ \A t \in toks' : t \in toks \/ t \notin created
    /\ \/ dToks' = toks' /\ dClaims' = claims'
       \/ dToks' = dToks /\ dClaims' = dClaims

\* The store calls other than Claim and Reopen do that.
LEMMA StoreCallsKeepTokens ==
    ASSUME TypeOK
    PROVE  /\ \A i \in Ids, r \in Records \cup {Absent}, ok \in BOOLEAN :
                 SetRecord(i, r, ok) => TokensKept
           /\ \A t \in Tokens \ created, ok \in BOOLEAN : PutToken(t, ok) => TokensKept
           /\ \A t \in Tokens, ok \in BOOLEAN : DeleteToken(t, ok) => TokensKept
           /\ \A i \in Ids, ok \in BOOLEAN : TouchAgent(i, ok) => TokensKept
           /\ FlushAll => TokensKept
           /\ \A t \in Tokens : Expire(t) => TokensKept
           /\ UNCHANGED storeVars => TokensKept
BY DEF TokensKept, SetRecord, PutToken, DeleteToken, TouchAgent, FlushAll, Expire,
       flushLocked, storeVars, memory, disk, TypeOK, StoreTypeOK

\* Sets of agent IDs are finite.
LEMMA IdsFinite ==
    ASSUME NEW S \in SUBSET Ids
    PROVE  IsFiniteSet(S) /\ Cardinality(S) \in Nat
BY IdsAssumption, FS_Subset, FS_CardinalityType

\* A set of agent IDs within one that keeps to a token's uses keeps to them.
LEMMA FewerWithin ==
    ASSUME NEW t \in Tokens, NEW T \in SUBSET Ids, NEW S \in SUBSET T,
           Cardinality(T) <= MaxUses[t]
    PROVE  Cardinality(S) <= MaxUses[t]
<1>1. S \in SUBSET Ids OBVIOUS
<1>2. Cardinality(S) \in Nat /\ Cardinality(T) \in Nat /\ Cardinality(S) <= Cardinality(T)
  BY <1>1, IdsFinite, FS_Subset
<1> QED BY <1>2, UsesAssumption

\* If attempts move on only behind their claim, a step that claims nothing
\* keeps what is admitted listed and within its uses.
LEMMA TokensKeptInv ==
    ASSUME TypeOK, RecordsTraced, UseInv, TokensKept, UNCHANGED via,
           \A i \in Ids : Past(i)' => Past(i)
    PROVE  UseInv'
<1>0. ASSUME NEW t \in Tokens
      PROVE  /\ claims[t] \in SUBSET Ids /\ dClaims[t] \in SUBSET Ids
             /\ Admitted(t) \in SUBSET Ids /\ Admitted(t)' \in SUBSET Admitted(t)
  BY <1>0 DEF TypeOK, StoreTypeOK, Admitted
<1>1. ASSUME NEW t \in Tokens, MaxUses[t] > 0 PROVE Cardinality(claims'[t]) <= MaxUses[t]
  <2>1. Cardinality(claims[t]) <= MaxUses[t] BY <1>1 DEF UseInv, WithinUses
  <2>2. claims'[t] \in SUBSET claims[t] BY DEF TokensKept
  <2> QED BY <1>0, <2>1, <2>2, FewerWithin
<1>2. ASSUME NEW t \in Tokens, MaxUses[t] > 0 PROVE Cardinality(dClaims'[t]) <= MaxUses[t]
  BY <1>1, <1>2 DEF UseInv, WithinUses, TokensKept
<1>3. ASSUME NEW t \in Tokens, t \in toks' PROVE Admitted(t)' \subseteq claims'[t]
  <2>1. claims'[t] = claims[t] BY <1>3 DEF TokensKept
  <2>2. CASE t \in toks BY <1>0, <2>1, <2>2 DEF UseInv, AdmittedListed
  <2>3. CASE t \notin created
    <3>1. Admitted(t) = {} BY <2>3 DEF RecordsTraced, Admitted
    <3> QED BY <1>0, <3>1
  <2> QED BY <1>3, <2>2, <2>3 DEF TokensKept
<1>4. ASSUME NEW t \in Tokens, t \in dToks' PROVE Admitted(t)' \subseteq dClaims'[t]
  BY <1>0, <1>3, <1>4 DEF UseInv, AdmittedListed, TokensKept
<1>5. ASSUME NEW t \in Tokens, MaxUses[t] > 0 PROVE Cardinality(Admitted(t)') <= MaxUses[t]
  <2>1. Cardinality(Admitted(t)) <= MaxUses[t] BY <1>5 DEF UseInv, AdmittedWithin
  <2> QED BY <1>0, <2>1, FewerWithin
<1>6. WithinUses' BY <1>1, <1>2 DEF WithinUses
<1>7. AdmittedListed' BY <1>3, <1>4 DEF AdmittedListed
<1>8. AdmittedWithin' BY <1>5 DEF AdmittedWithin
<1> QED BY <1>6, <1>7, <1>8 DEF UseInv

\* No token has been claimed at the start.
LEMMA UseInit == Init => UseInv
<1> SUFFICES ASSUME Init PROVE UseInv
  OBVIOUS
<1>1. \A t \in Tokens : claims[t] = {} /\ dClaims[t] = {} BY DEF Init, StoreInit
<1>2. \A t \in Tokens : Admitted(t) = {} BY DEF Init, Admitted, Past
<1>3. Cardinality({}) = 0 BY FS_EmptySet
<1>4. WithinUses BY <1>1, <1>3, UsesAssumption DEF WithinUses
<1>5. AdmittedListed /\ AdmittedWithin
  BY <1>2, <1>3, UsesAssumption DEF AdmittedListed, AdmittedWithin
<1> QED BY <1>4, <1>5 DEF UseInv

\* ClaimToken counts a use before the attempt goes on.
LEMMA ClaimKeepsUses ==
    ASSUME TypeOK, RecordsTraced, UseInv, NEW i \in Ids, NEW t \in shared, ClaimToken(i, t)
    PROVE  UseInv'
<1>1. t \in Tokens /\ t \in toks /\ enroll[i] = "idle" /\ Usable(t) /\ i \notin certs
  BY DEF TypeOK, ClaimToken, RecordsTraced
<1>2. PICK ok \in BOOLEAN :
         /\ Claim(i, t, ok)
         /\ enroll' = [enroll EXCEPT ![i] = IF ok THEN "claimed" ELSE "done"]
  BY DEF ClaimToken, Finish
<1>3. /\ claims' = [claims EXCEPT ![t] = @ \cup {i}]
      /\ toks' = toks /\ certs' = certs /\ via' = [via EXCEPT ![i] = t]
      /\ ok => dToks' = toks /\ dClaims' = claims'
      /\ ~ok => dToks' = dToks /\ dClaims' = dClaims
  BY <1>2 DEF ClaimToken, Claim, flushLocked, disk
<1>4. /\ claims'[t] = claims[t] \cup {i}
      /\ \A u \in Tokens \ {t} : claims'[u] = claims[u]
  BY <1>1, <1>3 DEF TypeOK, StoreTypeOK
<1>5. ASSUME NEW u \in Tokens
      PROVE  /\ claims[u] \in SUBSET Ids /\ claims'[u] \in SUBSET Ids
             /\ dClaims[u] \in SUBSET Ids /\ Admitted(u) \in SUBSET Ids
             /\ claims[u] \in SUBSET claims'[u]
  BY <1>4 DEF TypeOK, StoreTypeOK, Admitted
<1>6. ASSUME NEW u \in Tokens
      PROVE  Admitted(u)' \in SUBSET (IF ok /\ u = t THEN Admitted(u) \cup {i} ELSE Admitted(u))
  <2> SUFFICES ASSUME NEW j \in Ids, via'[j] = u, Past(j)'
               PROVE  j \in Admitted(u) \/ (ok /\ u = t /\ j = i)
    BY DEF Admitted
  <2>1. CASE j = i BY <1>1, <1>2, <1>3, <2>1 DEF Past, TypeOK
  <2>2. CASE j # i BY <1>2, <1>3, <2>2 DEF Past, TypeOK, Admitted
  <2> QED BY <2>1, <2>2
<1>7. ASSUME NEW u \in Tokens, MaxUses[u] > 0 PROVE Cardinality(claims'[u]) <= MaxUses[u]
  <2>1. CASE u # t BY <1>4, <1>7, <2>1 DEF UseInv, WithinUses
  <2>2. CASE u = t
    <3>1. IsFiniteSet(claims[t]) /\ Cardinality(claims[t]) \in Nat BY <1>1, <1>5, IdsFinite
    <3>2. Cardinality(claims[t] \cup {i}) \in {Cardinality(claims[t]), Cardinality(claims[t]) + 1}
      BY <3>1, FS_AddElement, Zenon
    <3>3. Cardinality(claims[t]) < MaxUses[t] BY <1>1, <1>7, <2>2 DEF Usable
    <3> QED BY <1>1, <1>4, <2>2, <3>1, <3>2, <3>3, UsesAssumption
  <2> QED BY <2>1, <2>2
<1>8. ASSUME NEW u \in Tokens, MaxUses[u] > 0 PROVE Cardinality(dClaims'[u]) <= MaxUses[u]
  BY <1>3, <1>7, <1>8 DEF UseInv, WithinUses
<1>9. ASSUME NEW u \in Tokens, u \in toks' PROVE Admitted(u)' \subseteq claims'[u]
  <2>1. Admitted(u) \subseteq claims[u] BY <1>3, <1>9 DEF UseInv, AdmittedListed
  <2> QED BY <1>4, <1>5, <1>6, <2>1
<1>10. ASSUME NEW u \in Tokens, u \in dToks' PROVE Admitted(u)' \subseteq dClaims'[u]
  <2>1. CASE ok BY <1>3, <1>9, <1>10, <2>1
  <2>2. CASE ~ok BY <1>3, <1>6, <1>10, <2>2 DEF UseInv, AdmittedListed
  <2> QED BY <2>1, <2>2
<1>11. ASSUME NEW u \in Tokens, MaxUses[u] > 0 PROVE Cardinality(Admitted(u)') <= MaxUses[u]
  <2>1. CASE u = t
    <3>1. Admitted(u)' \in SUBSET claims'[u] BY <1>1, <1>3, <1>9, <2>1
    <3> QED BY <1>5, <1>7, <1>11, <3>1, FewerWithin
  <2>2. CASE u # t
    <3>1. Admitted(u)' \in SUBSET Admitted(u) BY <1>6, <2>2
    <3>2. Cardinality(Admitted(u)) <= MaxUses[u] BY <1>11 DEF UseInv, AdmittedWithin
    <3> QED BY <1>5, <3>1, <3>2, FewerWithin
  <2> QED BY <2>1, <2>2
<1>12. WithinUses' BY <1>7, <1>8 DEF WithinUses
<1>13. AdmittedListed' BY <1>9, <1>10 DEF AdmittedListed
<1>14. AdmittedWithin' BY <1>11 DEF AdmittedWithin
<1> QED BY <1>12, <1>13, <1>14 DEF UseInv

\* A restart brings back the file's tokens with their lists.
LEMMA RestartKeepsUses ==
    ASSUME TypeOK, UseInv, Restart
    PROVE  UseInv'
<1>1. /\ claims' = dClaims /\ dClaims' = dClaims /\ toks' = dToks /\ dToks' = dToks
      /\ via' = via /\ certs' = certs
  BY DEF Restart, Reopen, disk
<1>2. \A i \in Ids : Past(i)' => Past(i) BY <1>1 DEF Restart, Past
<1>3. \A t \in Tokens : Admitted(t)' \in SUBSET Admitted(t) /\ Admitted(t) \in SUBSET Ids
  BY <1>1, <1>2 DEF Admitted
<1>4. WithinUses' BY <1>1 DEF UseInv, WithinUses
<1>5. AdmittedListed' BY <1>1, <1>3 DEF UseInv, AdmittedListed
<1>6. ASSUME NEW t \in Tokens, MaxUses[t] > 0 PROVE Cardinality(Admitted(t)') <= MaxUses[t]
  <2>1. Cardinality(Admitted(t)) <= MaxUses[t] BY <1>6 DEF UseInv, AdmittedWithin
  <2> QED BY <1>3, <2>1, FewerWithin
<1>7. AdmittedWithin' BY <1>6 DEF AdmittedWithin
<1> QED BY <1>4, <1>5, <1>7 DEF UseInv

\* Every handler keeps what is admitted listed and within its uses; ClaimToken
\* and a restart are the ones that change what is claimed.
LEMMA UseStep == TypeOK /\ RecordsTraced /\ UseInv /\ [Next]_vars => UseInv'
<1> SUFFICES ASSUME TypeOK, RecordsTraced, UseInv, [Next]_vars PROVE UseInv'
  OBVIOUS
<1> USE StoreCallsKeepTokens, TokensKeptInv
<1>1. ASSUME NEW t \in Tokens, CreateToken(t) \/ RemoveToken(t) \/ TokenExpires(t)
      PROVE  UseInv'
  <2>1. TokensKept BY <1>1 DEF CreateToken, RemoveToken, TokenExpires
  <2>2. UNCHANGED enrollVars
    BY <1>1 DEF CreateToken, RemoveToken, TokenExpires, handlerVars, enrollVars
  <2> QED BY <2>1, <2>2 DEF enrollVars, Past
<1>2. ASSUME NEW i \in Ids, EnrollStep(i) PROVE UseInv'
  <2>1. CASE RefuseEarly(i) \/ Respond(i) \/ \E t \in shared : RefuseToken(i, t)
    <3>1. UNCHANGED <<storeVars, via, certs>> /\ enroll' = [enroll EXCEPT ![i] = "done"]
      BY <2>1 DEF RefuseEarly, RefuseToken, Respond, Finish
    <3>2. TokensKept BY <3>1
    <3> QED BY <3>1, <3>2 DEF TypeOK, Past
  <2>2. ASSUME NEW t \in shared, ClaimToken(i, t) PROVE UseInv'
    BY <2>2, ClaimKeepsUses
  <2>3. CASE SignAgent(i)
    <3>1. TokensKept BY <2>3 DEF SignAgent
    <3> QED BY <2>3, <3>1 DEF SignAgent, Finish, TypeOK, Past
  <2>4. CASE StoreAgent(i)
    <3>1. PICK n \in Names, ok \in BOOLEAN : PutAgent(i, NewRecord(i, n), ok)
      BY <2>4 DEF StoreAgent
    <3>2. TokensKept BY <3>1 DEF PutAgent, NewRecord, Records, TypeOK
    <3> QED BY <2>4, <3>2 DEF StoreAgent, Finish, TypeOK, Past
  <2> QED BY <1>2, <2>1, <2>2, <2>3, <2>4 DEF EnrollStep
<1>3. ASSUME NEW i \in Ids, RecordStep(i) PROVE UseInv'
  <2>1. UNCHANGED enrollVars
    BY <1>3 DEF RecordStep, Contact, StoreHello, BeginDiscover, EndDiscover,
                OperatorUpdate, OperatorDelete, handlerVars, enrollVars
  <2>2. TokensKept
    <3>1. CASE Contact(i) BY <3>1 DEF Contact
    <3>2. CASE StoreHello(i) BY <3>2 DEF StoreHello, PutAgent, TypeOK
    <3>3. CASE BeginDiscover(i) BY <3>3 DEF BeginDiscover
    <3>4. CASE EndDiscover(i) BY <3>4 DEF EndDiscover, PutAgent, TypeOK
    <3>5. CASE OperatorUpdate(i)
      <4>1. rec[i] \in Records
        BY <3>5 DEF OperatorUpdate, SetAgentDisabled, RenameAgent, TypeOK, StoreTypeOK
      <4> QED BY <3>5, <4>1, RecordTypes DEF OperatorUpdate, SetAgentDisabled, RenameAgent
    <3>6. CASE OperatorDelete(i) BY <3>6 DEF OperatorDelete, DeleteAgent
    <3> QED BY <1>3, <3>1, <3>2, <3>3, <3>4, <3>5, <3>6 DEF RecordStep
  <2> QED BY <2>1, <2>2 DEF enrollVars, Past
<1>4. CASE OtherWrite
  <2>1. TokensKept BY <1>4 DEF OtherWrite
  <2> QED BY <1>4, <2>1 DEF OtherWrite, handlerVars, Past
<1>5. CASE Restart BY <1>5, RestartKeepsUses
<1>6. CASE UNCHANGED vars
  <2>1. TokensKept BY <1>6 DEF vars
  <2> QED BY <1>6, <2>1 DEF vars, handlerVars, Past
<1> QED BY <1>1, <1>2, <1>3, <1>4, <1>5, <1>6 DEF Next

-----------------------------------------------------------------------------
(* Where a record comes from *)

\* Setting one record to one that is traced keeps the others traced.
LEMMA SetRecordTraced ==
    ASSUME TypeOK, RecordsTraced, NEW i \in Ids, NEW r, NEW ok \in BOOLEAN,
           SetRecord(i, r, ok), Traced(i, r)
    PROVE  \A j \in Ids : Traced(j, rec'[j]) /\ Traced(j, dRec'[j])
BY DEF SetRecord, flushLocked, disk, RecordsTraced, TypeOK, StoreTypeOK

\* No attempt has begun at the start.
LEMMA TraceInit == Init => RecordsTraced
BY DEF Init, StoreInit, RecordsTraced, Traced, Past

\* Every handler keeps records traced: only StoreAgent makes one, for the
\* attempt it belongs to, and the others store changed copies of one.
LEMMA TraceStep == TypeOK /\ RecordsTraced /\ [Next]_vars => RecordsTraced'
<1> SUFFICES ASSUME TypeOK, RecordsTraced, [Next]_vars PROVE RecordsTraced'
  OBVIOUS
<1> USE DEF TypeOK
<1>0. ASSUME UNCHANGED <<enroll, via, certs>>, created \subseteq created',
             \A j \in Ids : /\ Traced(j, rec'[j]) /\ Traced(j, dRec'[j])
                            /\ Traced(j, hello'[j]) /\ Traced(j, discover'[j])
      PROVE  RecordsTraced'
  BY <1>0 DEF RecordsTraced, Traced, Past
<1>1. ASSUME NEW t \in Tokens, CreateToken(t) \/ RemoveToken(t) \/ TokenExpires(t)
      PROVE  RecordsTraced'
  <2>1. rec' = rec /\ dRec' \in {rec, dRec} /\ UNCHANGED <<enrollVars, copies>>
    BY <1>1 DEF CreateToken, RemoveToken, TokenExpires, PutToken, DeleteToken, Expire,
                flushLocked, memory, disk, handlerVars, enrollVars, copies
  <2>2. created \subseteq created'
    BY <1>1 DEF CreateToken, RemoveToken, TokenExpires, handlerVars
  <2> QED BY <1>0, <2>1, <2>2 DEF enrollVars, copies, RecordsTraced
<1>2. ASSUME NEW i \in Ids, EnrollStep(i) PROVE RecordsTraced'
  <2>0. UNCHANGED <<created, hello, discover>>
    BY <1>2 DEF EnrollStep, RefuseEarly, RefuseToken, ClaimToken, SignAgent, StoreAgent,
                Respond, tokenVars, copies
  <2>1. CASE RefuseEarly(i) \/ Respond(i) \/ \E t \in shared : RefuseToken(i, t)
    <3>1. /\ UNCHANGED <<rec, dRec, via, certs>>
          /\ enroll' = [enroll EXCEPT ![i] = "done"]
      BY <2>1 DEF RefuseEarly, RefuseToken, Respond, Finish, storeVars, memory, disk
    <3> QED BY <2>0, <3>1 DEF RecordsTraced, Traced, Past
  <2>2. ASSUME NEW t \in shared, ClaimToken(i, t) PROVE RecordsTraced'
    <3>1. rec' = rec /\ dRec' \in {rec, dRec} /\ certs' = certs
      BY <2>2 DEF ClaimToken, Claim, flushLocked, disk
    <3>2. PICK s \in {"claimed", "done"} : enroll' = [enroll EXCEPT ![i] = s]
      BY <2>2 DEF ClaimToken, Finish
    <3>3. enroll[i] = "idle" /\ via' = [via EXCEPT ![i] = t] /\ t \in created
      BY <2>2 DEF ClaimToken
    <3>4. ASSUME NEW j \in Ids
          PROVE  /\ enroll'[j] = "idle" => j \notin certs'
                 /\ enroll'[j] \in {"signed", "stored"} => j \in certs'
                 /\ Past(j)' => via'[j] \in created'
                 /\ Traced(j, rec[j])' /\ Traced(j, dRec[j])'
                 /\ Traced(j, hello[j])' /\ Traced(j, discover[j])'
      <4>1. CASE j = i
        BY <2>0, <3>1, <3>2, <3>3, <4>1 DEF RecordsTraced, Traced, Past
      <4>2. CASE j # i
        BY <2>0, <3>1, <3>2, <3>3, <4>2 DEF RecordsTraced, Traced, Past
      <4> QED BY <4>1, <4>2
    <3> QED BY <3>4 DEF RecordsTraced
  <2>3. CASE SignAgent(i)
    <3>1. /\ UNCHANGED <<rec, dRec, via>> /\ enroll[i] = "claimed"
          /\ \/ certs' = certs \cup {i} /\ enroll' = [enroll EXCEPT ![i] = "signed"]
             \/ certs' = certs /\ enroll' = [enroll EXCEPT ![i] = "done"]
      BY <2>3 DEF SignAgent, Finish, storeVars, memory, disk
    <3> QED BY <2>0, <3>1 DEF RecordsTraced, Traced, Past
  <2>4. CASE StoreAgent(i)
    <3>1. PICK n \in Names, ok \in BOOLEAN :
             /\ PutAgent(i, NewRecord(i, n), ok)
             /\ enroll' = [enroll EXCEPT ![i] = IF ok THEN "stored" ELSE "done"]
      BY <2>4 DEF StoreAgent, Finish
    <3>2. enroll[i] = "signed" /\ i \in certs BY <2>4 DEF StoreAgent, RecordsTraced
    <3>3. Traced(i, NewRecord(i, n)) BY <3>2 DEF Traced, NewRecord
    <3>4. \A j \in Ids : Traced(j, rec'[j]) /\ Traced(j, dRec'[j])
      BY <3>1, <3>3, SetRecordTraced DEF PutAgent
    <3>5. UNCHANGED <<via, certs>> BY <2>4 DEF StoreAgent
    <3> QED BY <2>0, <3>1, <3>2, <3>4, <3>5 DEF RecordsTraced, Traced, Past
  <2> QED BY <1>2, <2>1, <2>2, <2>3, <2>4 DEF EnrollStep
<1>3. ASSUME NEW i \in Ids, RecordStep(i) PROVE RecordsTraced'
  <2>0. UNCHANGED <<enroll, via, certs, created>>
    BY <1>3 DEF RecordStep, Contact, StoreHello, BeginDiscover, EndDiscover,
                OperatorUpdate, OperatorDelete, handlerVars, enrollVars, tokenVars
  <2>1. CASE Contact(i)
    <3>1. rec' = rec /\ dRec' \in {rec, dRec} /\ discover' = discover
      BY <2>1 DEF Contact, TouchAgent, flushLocked, memory, disk
    <3>2. \A j \in Ids : hello'[j] \in {hello[j], rec[j]} BY <2>1 DEF Contact
    <3> QED BY <1>0, <2>0, <3>1, <3>2 DEF RecordsTraced
  <2>2. CASE StoreHello(i)
    <3>1. \A j \in Ids : Traced(j, rec'[j]) /\ Traced(j, dRec'[j])
      BY <2>2, SetRecordTraced DEF StoreHello, PutAgent, RecordsTraced
    <3>2. \A j \in Ids : hello'[j] \in {hello[j], Absent} /\ discover'[j] = discover[j]
      BY <2>2 DEF StoreHello
    <3> QED BY <1>0, <2>0, <3>1, <3>2 DEF RecordsTraced, Traced
  <2>3. CASE BeginDiscover(i)
    <3>1. UNCHANGED <<rec, dRec, hello>> BY <2>3 DEF BeginDiscover, storeVars, memory, disk
    <3>2. \A j \in Ids : discover'[j] \in {discover[j], rec[j]} BY <2>3 DEF BeginDiscover
    <3> QED BY <1>0, <2>0, <3>1, <3>2 DEF RecordsTraced
  <2>4. CASE EndDiscover(i)
    <3>1. \A j \in Ids : Traced(j, rec'[j]) /\ Traced(j, dRec'[j])
      BY <2>4, SetRecordTraced
         DEF EndDiscover, PutAgent, RecordsTraced, storeVars, memory, disk
    <3>2. \A j \in Ids : discover'[j] \in {discover[j], Absent} /\ hello'[j] = hello[j]
      BY <2>4 DEF EndDiscover
    <3> QED BY <1>0, <2>0, <3>1, <3>2 DEF RecordsTraced, Traced
  <2>5. CASE OperatorUpdate(i)
    <3>1. rec[i] \in Records
      BY <2>5 DEF OperatorUpdate, SetAgentDisabled, RenameAgent, StoreTypeOK
    <3>2. PICK r \in Records, ok \in BOOLEAN : SetRecord(i, r, ok) /\ r.via = rec[i].via
      <4>1. CASE \E d, ok \in BOOLEAN : SetAgentDisabled(i, d, ok)
        BY <3>1, <4>1, RecordTypes DEF SetAgentDisabled, Records
      <4>2. CASE \E n \in Names, ok \in BOOLEAN : RenameAgent(i, n, ok)
        BY <3>1, <4>2, RecordTypes DEF RenameAgent, Records
      <4> QED BY <2>5, <4>1, <4>2 DEF OperatorUpdate
    <3>3. Traced(i, r) BY <3>1, <3>2, RecordTypes DEF RecordsTraced, Traced
    <3>4. \A j \in Ids : Traced(j, rec'[j]) /\ Traced(j, dRec'[j])
      BY <3>2, <3>3, SetRecordTraced
    <3>5. UNCHANGED <<hello, discover>> BY <2>5 DEF OperatorUpdate, handlerVars
    <3> QED BY <1>0, <2>0, <3>4, <3>5 DEF RecordsTraced
  <2>6. CASE OperatorDelete(i)
    <3>1. \A j \in Ids : Traced(j, rec'[j]) /\ Traced(j, dRec'[j])
      BY <2>6, SetRecordTraced DEF OperatorDelete, DeleteAgent, Traced
    <3>2. UNCHANGED <<hello, discover>> BY <2>6 DEF OperatorDelete, copies
    <3> QED BY <1>0, <2>0, <3>1, <3>2 DEF RecordsTraced
  <2> QED BY <1>3, <2>1, <2>2, <2>3, <2>4, <2>5, <2>6 DEF RecordStep
<1>4. CASE OtherWrite
  <2>1. rec' = rec /\ dRec' = rec /\ UNCHANGED handlerVars
    BY <1>4 DEF OtherWrite, FlushAll, flushLocked, memory
  <2> QED BY <1>0, <2>1 DEF handlerVars, RecordsTraced
<1>5. CASE Restart
  <2>1. /\ rec' = dRec /\ dRec' = dRec /\ UNCHANGED <<via, certs, created>>
        /\ \A j \in Ids : hello'[j] = Absent /\ discover'[j] = Absent
        /\ \A j \in Ids : enroll'[j] = IF enroll[j] = "idle" THEN "idle" ELSE "done"
    BY <1>5 DEF Restart, Reopen, disk, tokenVars
  <2> QED BY <2>1 DEF RecordsTraced, Traced, Past
<1>6. CASE UNCHANGED vars
  BY <1>0, <1>6 DEF vars, storeVars, memory, disk, handlerVars, RecordsTraced
<1> QED BY <1>1, <1>2, <1>3, <1>4, <1>5, <1>6 DEF Next

\* The invariants hold in every reachable state.
LEMMA UseInvariant == Spec => [](TypeOK /\ RecordsTraced /\ UseInv)
<1>1. Init => TypeOK /\ RecordsTraced /\ UseInv BY TypeInit, TraceInit, UseInit
<1>2. TypeOK /\ RecordsTraced /\ UseInv /\ [Next]_vars => (TypeOK /\ RecordsTraced /\ UseInv)'
  BY TypeStep, TraceStep, UseStep
<1> QED BY <1>1, <1>2, PTL DEF Spec

\* A token never admits more agents than it has uses, also once it is revoked.
THEOREM TokensAdmitWithinUses == Spec => []CertsWithinUses
<1>1. TypeOK /\ UseInv => CertsWithinUses
  <2> SUFFICES ASSUME TypeOK, UseInv, NEW t \in Tokens, MaxUses[t] > 0
               PROVE  Cardinality(CertsOf(t)) <= MaxUses[t]
    BY DEF CertsWithinUses
  <2>1. CertsOf(t) \in SUBSET Admitted(t) /\ Admitted(t) \in SUBSET Ids
    BY DEF CertsOf, Admitted, Past, TypeOK
  <2>2. Cardinality(Admitted(t)) <= MaxUses[t] BY DEF UseInv, AdmittedWithin
  <2> QED BY <2>1, <2>2, FewerWithin
<1> QED BY <1>1, UseInvariant, PTL

\* What a token admitted is listed with it as long as it is there, and named by
\* the records it let in when it is not.
THEOREM LeaksAreVisible == Spec => []LeakIsVisible
<1>1. TypeOK /\ RecordsTraced /\ UseInv => LeakIsVisible
  <2> SUFFICES ASSUME TypeOK, RecordsTraced, UseInv PROVE LeakIsVisible
    OBVIOUS
  <2>1. ASSUME NEW i \in certs
        PROVE  /\ via[i] \in toks => i \in claims[via[i]]
               /\ via[i] \in dToks => i \in dClaims[via[i]]
    <3>1. i \in Ids /\ toks \subseteq Tokens /\ dToks \subseteq Tokens
      BY DEF TypeOK, StoreTypeOK
    <3>2. i \in Admitted(via[i]) BY <3>1 DEF Admitted, Past
    <3> QED BY <3>1, <3>2 DEF UseInv, AdmittedListed
  <2>2. ASSUME NEW i \in Ids
        PROVE  /\ rec[i] # Absent => i \in certs /\ rec[i].via = via[i]
               /\ dRec[i] # Absent => i \in certs /\ dRec[i].via = via[i]
    BY DEF RecordsTraced, Traced
  <2> QED BY <2>1, <2>2 DEF LeakIsVisible
<1> QED BY <1>1, UseInvariant, PTL

-----------------------------------------------------------------------------
(* Enrolled agents *)

Known(i) == rec[i] # Absent /\ dRec[i] # Absent

\* Storing a record forgets no agent, whether it is written out or not.
LEMMA SetRecordKeepsKnown ==
    ASSUME TypeOK, NEW i \in Ids, NEW r \in Records \cup {Absent}, NEW ok \in BOOLEAN,
           SetRecord(i, r, ok)
    PROVE  /\ \A j \in Ids : Known(j) => Known(j)' \/ (j = i /\ r = Absent)
           /\ ok /\ r # Absent => Known(i)'
BY DEF SetRecord, flushLocked, disk, Known, TypeOK, StoreTypeOK

\* Store calls about tokens, contacts and other parts of the state forget no
\* agent either.
LEMMA OtherCallsKeepKnown ==
    ASSUME rec' = rec, dRec' \in {rec, dRec}
    PROVE  \A j \in Ids : Known(j) => Known(j)'
BY DEF Known

\* No agent is enrolled at the start.
LEMMA KnownInit == Init => KnownBeforeAnswer
BY DEF Init, KnownBeforeAnswer

\* Every handler keeps the records of the agents that were, or are about to be,
\* told they are enrolled.
LEMMA KnownStep == TypeOK /\ KnownBeforeAnswer /\ [Next]_vars => KnownBeforeAnswer'
<1> SUFFICES ASSUME TypeOK, KnownBeforeAnswer, [Next]_vars PROVE KnownBeforeAnswer'
  OBVIOUS
<1>0. ASSUME removed' = removed, \A j \in Ids : Known(j) => Known(j)',
             \A j \in Ids : enroll'[j] = "stored" \/ j \in enrolled'
                              => enroll[j] = "stored" \/ j \in enrolled \/ Known(j)'
      PROVE  KnownBeforeAnswer'
  BY <1>0 DEF KnownBeforeAnswer, Known
<1>1. ASSUME NEW t \in Tokens, CreateToken(t) \/ RemoveToken(t) \/ TokenExpires(t)
      PROVE  KnownBeforeAnswer'
  <2>1. /\ rec' = rec /\ dRec' \in {rec, dRec}
        /\ UNCHANGED <<enroll, enrolled, removed>>
    BY <1>1 DEF CreateToken, RemoveToken, TokenExpires, PutToken, DeleteToken, Expire,
                flushLocked, memory, disk, handlerVars, enrollVars
  <2> QED BY <1>0, <2>1, OtherCallsKeepKnown
<1>2. ASSUME NEW i \in Ids, EnrollStep(i) PROVE KnownBeforeAnswer'
  <2>1. CASE RefuseEarly(i) \/ \E t \in shared : RefuseToken(i, t)
    BY <2>1, <1>0 DEF RefuseEarly, RefuseToken, Finish, storeVars, memory, disk, TypeOK, Known
  <2>2. ASSUME NEW t \in shared, ClaimToken(i, t) PROVE KnownBeforeAnswer'
    <3>1. rec' = rec /\ dRec' \in {rec, dRec} /\ UNCHANGED <<enrolled, removed>>
      BY <2>2 DEF ClaimToken, Claim, flushLocked, disk
    <3>2. PICK s \in {"claimed", "done"} : enroll' = [enroll EXCEPT ![i] = s]
      BY <2>2 DEF ClaimToken, Finish
    <3> QED BY <1>0, <3>1, <3>2, OtherCallsKeepKnown DEF TypeOK
  <2>3. CASE SignAgent(i)
    BY <2>3, <1>0 DEF SignAgent, Finish, storeVars, memory, disk, TypeOK, Known
  <2>4. CASE StoreAgent(i)
    <3>1. PICK n \in Names, ok \in BOOLEAN :
             /\ PutAgent(i, NewRecord(i, n), ok)
             /\ enroll' = [enroll EXCEPT ![i] = IF ok THEN "stored" ELSE "done"]
      BY <2>4 DEF StoreAgent, Finish
    <3>2. NewRecord(i, n) \in Records BY DEF NewRecord, Records, TypeOK
    <3>3. /\ \A j \in Ids : Known(j) => Known(j)'
          /\ ok => Known(i)'
      BY <3>1, <3>2, AbsentAssumption, SetRecordKeepsKnown DEF PutAgent
    <3>4. UNCHANGED <<enrolled, removed>> BY <2>4 DEF StoreAgent
    <3> QED BY <1>0, <3>1, <3>3, <3>4 DEF TypeOK
  <2>5. CASE Respond(i)
    BY <2>5, <1>0 DEF Respond, Finish, storeVars, memory, disk, TypeOK, Known
  <2> QED BY <1>2, <2>1, <2>2, <2>3, <2>4, <2>5 DEF EnrollStep
<1>3. ASSUME NEW i \in Ids, RecordStep(i) PROVE KnownBeforeAnswer'
  <2>0. UNCHANGED <<enroll, enrolled>>
    BY <1>3 DEF RecordStep, Contact, StoreHello, BeginDiscover, EndDiscover,
                OperatorUpdate, OperatorDelete, handlerVars, enrollVars
  <2>1. CASE Contact(i)
    <3>1. rec' = rec /\ dRec' \in {rec, dRec} /\ UNCHANGED removed
      BY <2>1 DEF Contact, TouchAgent, flushLocked, memory, disk
    <3> QED BY <1>0, <2>0, <3>1, OtherCallsKeepKnown
  <2>2. CASE StoreHello(i)
    <3>1. \A j \in Ids : Known(j) => Known(j)'
      BY <2>2, SetRecordKeepsKnown DEF StoreHello, PutAgent, TypeOK
    <3> QED BY <1>0, <2>0, <2>2, <3>1 DEF StoreHello
  <2>3. CASE BeginDiscover(i)
    BY <1>0, <2>0, <2>3 DEF BeginDiscover, storeVars, memory, disk, Known
  <2>4. CASE EndDiscover(i)
    <3>1. \A j \in Ids : Known(j) => Known(j)'
      BY <2>4, SetRecordKeepsKnown
         DEF EndDiscover, PutAgent, TypeOK, storeVars, memory, disk, Known
    <3> QED BY <1>0, <2>0, <2>4, <3>1 DEF EndDiscover
  <2>5. CASE OperatorUpdate(i)
    <3>1. rec[i] \in Records
      BY <2>5 DEF OperatorUpdate, SetAgentDisabled, RenameAgent, TypeOK, StoreTypeOK
    <3>2. PICK r \in Records, ok \in BOOLEAN : SetRecord(i, r, ok)
      BY <2>5, <3>1, RecordTypes DEF OperatorUpdate, SetAgentDisabled, RenameAgent
    <3>3. \A j \in Ids : Known(j) => Known(j)' BY <3>2, AbsentAssumption, SetRecordKeepsKnown
    <3> QED BY <1>0, <2>0, <2>5, <3>3 DEF OperatorUpdate, handlerVars
  <2>6. CASE OperatorDelete(i)
    <3>1. \A j \in Ids : Known(j) => Known(j)' \/ j = i
      BY <2>6, SetRecordKeepsKnown DEF OperatorDelete, DeleteAgent
    <3>2. removed' = removed \cup {i} BY <2>6 DEF OperatorDelete
    <3> QED BY <2>0, <3>1, <3>2 DEF KnownBeforeAnswer, Known
  <2> QED BY <1>3, <2>1, <2>2, <2>3, <2>4, <2>5, <2>6 DEF RecordStep
<1>4. CASE OtherWrite
  BY <1>0, <1>4 DEF OtherWrite, FlushAll, flushLocked, memory, handlerVars, Known
<1>5. CASE Restart
  <2>1. rec' = dRec /\ dRec' = dRec /\ UNCHANGED <<enrolled, removed>>
    BY <1>5 DEF Restart, Reopen, disk
  <2>2. \A j \in Ids : enroll'[j] \in {"idle", "done"} BY <1>5 DEF Restart
  <2> QED BY <1>0, <2>1, <2>2 DEF Known
<1>6. CASE UNCHANGED vars
  BY <1>0, <1>6 DEF vars, storeVars, memory, disk, handlerVars, Known
<1> QED BY <1>1, <1>2, <1>3, <1>4, <1>5, <1>6 DEF Next

\* An agent that was told it is enrolled stays known to the hub, across failed
\* writes and restarts, until an operator removes it.
THEOREM EnrolledAgentsAreKnown == Spec => []EnrolledIsKnown
<1>1. Init => TypeOK /\ KnownBeforeAnswer BY TypeInit, KnownInit
<1>2. TypeOK /\ KnownBeforeAnswer /\ [Next]_vars => (TypeOK /\ KnownBeforeAnswer)'
  BY TypeStep, KnownStep
<1>3. TypeOK /\ KnownBeforeAnswer => EnrolledIsKnown
  BY DEF TypeOK, KnownBeforeAnswer, EnrolledIsKnown
<1> QED BY <1>1, <1>2, <1>3, PTL DEF Spec

=============================================================================
