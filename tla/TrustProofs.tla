---------------------------- MODULE TrustProofs ----------------------------
(***************************************************************************)
(* Proofs about AgentTrust, for any sets of roots, keys and names and any  *)
(* number of enrollments and faults: files and memory agree while the hub  *)
(* serves, a root in use is not replaced as long as no start fails to read *)
(* both of its files, and enrolled agents and the hub accept each other.   *)
(***************************************************************************)
EXTENDS AgentTrust, FiniteSetTheorems, TLAPS

-----------------------------------------------------------------------------
(* Helpers *)

\* A key that is on neither file exists.
LEMMA NewKeyExists ==
    ASSUME hubKey \in Leaves \cup {None}, hubCert \in Certs \cup {None, Torn}
    PROVE  NewKey \in Leaves
<1>1. \E k \in Leaves : k # hubKey /\ (hubCert \in Certs => k # hubCert.key)
  <2>1. \E l \in Leaves : TRUE BY LeavesAssumption
  <2>2. CASE hubCert \in Certs
    <3>1. hubCert.key \in Leaves BY <2>2 DEF Certs
    <3>2. CASE hubKey \in Leaves BY <3>1, <3>2, LeavesAssumption
    <3>3. CASE hubKey = None BY <3>1, <3>3, LeavesAssumption, MarksAssumption
    <3> QED BY <3>2, <3>3
  <2>3. CASE hubCert \notin Certs
    <3>1. CASE hubKey \in Leaves BY <2>3, <3>1, LeavesAssumption
    <3>2. CASE hubKey = None BY <2>1, <2>3, <3>2, MarksAssumption
    <3> QED BY <3>1, <3>2
  <2> QED BY <2>2, <2>3
<1> QED BY <1>1 DEF NewKey

\* With at most one file unreadable, a start that reads neither misses one.
LEMMA BothPresentRead ==
    ASSUME MaxBadReads <= 1, {} \in Readable
    PROVE  caKey = None \/ caCert = None
<1> SUFFICES ASSUME caKey # None, caCert # None PROVE FALSE
  OBVIOUS
<1>1. Present \ {} = {"key", "cert"} BY DEF Present
<1>2. Cardinality({"key", "cert"}) = 2
  <2>1. IsFiniteSet({"key"}) /\ Cardinality({"key"}) = 1 BY FS_Singleton
  <2>2. {"key", "cert"} = {"key"} \cup {"cert"} /\ "cert" \notin {"key"} OBVIOUS
  <2>3. Cardinality({"key"} \cup {"cert"}) = Cardinality({"key"}) + 1
    BY <2>1, <2>2, FS_AddElement
  <2> QED BY <2>1, <2>2, <2>3
<1>3. Cardinality(Present \ {}) <= MaxBadReads BY DEF Readable
<1> QED BY <1>1, <1>2, <1>3, FaultsAssumption

-----------------------------------------------------------------------------
(* Types, and the shape of a start *)

HubInv == TypeOK /\ StartShape

\* Nothing is on file and nothing runs.
LEMMA HubInit == Init => HubInv
BY ValidityAssumption, FaultsAssumption
   DEF HubInv, Init, PkiInit, TypeOK, PkiTypeOK, StartShape, HubStates

\* The steps of the hub keep types and shape.
LEMMA HubStepInv ==
    ASSUME HubInv, PkiStep, UNCHANGED agentVars PROVE HubInv'
<1> USE ValidityAssumption, FaultsAssumption
    DEF HubInv, TypeOK, PkiTypeOK, StartShape, HubStates, agentVars, agentFiles, rootFiles, hubFiles
<1>1. ASSUME NEW ns \in SUBSET Names, LoadRoot(ns) PROVE HubInv'
  BY <1>1, MarksAssumption DEF LoadRoot, Present
<1>2. ASSUME NEW ns \in SUBSET Names, CreateRoot(ns) PROVE HubInv'
  BY <1>2 DEF CreateRoot, Reading, Fault
<1>3. CASE WriteRootKey BY <1>3 DEF WriteRootKey
<1>4. CASE WriteRootCert BY <1>4 DEF WriteRootCert
<1>5. CASE KeepServer BY <1>5 DEF KeepServer, Usable, Matches, Covers
<1>6. CASE IssueServer
  <2>1. leaf' \in Certs /\ leaf'.root = root /\ leaf'.names = names
    BY <1>6, NewKeyExists DEF IssueServer, Certs
  <2> QED BY <1>6, <2>1 DEF IssueServer, Fault
<1>7. CASE WriteHubKey
  <2>1. leaf.key \in Leaves BY <1>7 DEF WriteHubKey, Certs
  <2> QED BY <1>7, <2>1 DEF WriteHubKey
<1>8. CASE WriteHubCert BY <1>8 DEF WriteHubCert
<1>9. CASE RefuseRoot BY <1>9 DEF RefuseRoot, Reading, Fault
<1>10. CASE TearRootCert BY <1>10 DEF TearRootCert, Down, Fault
<1>11. CASE TearHubCert BY <1>11 DEF TearHubCert, Down, Fault
<1>12. CASE Stop BY <1>12 DEF Stop, Down
<1>13. CASE CrashInStart BY <1>13 DEF CrashInStart, Down, Fault
<1>14. CASE RemoveRoot BY <1>14 DEF RemoveRoot
<1>15. CASE LoseRootFile BY <1>15 DEF LoseRootFile
<1>16. CASE PkiTick BY <1>16 DEF PkiTick
<1> QED BY <1>1, <1>2, <1>3, <1>4, <1>5, <1>6, <1>7, <1>8, <1>9, <1>10, <1>11, <1>12, <1>13,
           <1>14, <1>15, <1>16 DEF PkiStep, StartStep

\* So do those of the agent, which leave the hub alone.
LEMMA AgentStepInv ==
    ASSUME HubInv, SignedOnce, AllHandedOut, AgentStep PROVE HubInv'
<1>0. UNCHANGED pkiVars
  BY DEF AgentStep, BeginEnroll, Answer, AbandonEnroll, SaveKey, SaveCert, SaveCA, SaveIdent,
         StartAgent, StopAgent, LapseAgentCert
<1>1. PkiTypeOK' /\ StartShape'
  BY <1>0 DEF HubInv, TypeOK, PkiTypeOK, StartShape, pkiVars, rootFiles, hubFiles
<1> USE <1>0, <1>1 DEF HubInv, TypeOK, agentFiles
<1>2. ASSUME NEW e \in Enrollments, NEW force \in BOOLEAN, BeginEnroll(e, force) PROVE HubInv'
  BY <1>2 DEF BeginEnroll
<1>3. ASSUME NEW pin \in Roots \cup {None}, Answer(pin) PROVE HubInv'
  BY <1>3 DEF Answer, SignAgent, PkiTypeOK
<1>4. CASE AbandonEnroll BY <1>4 DEF AbandonEnroll
<1>5. CASE SaveKey BY <1>5 DEF SaveKey
<1>6. CASE SaveCert BY <1>6 DEF SaveCert
<1>7. CASE SaveCA BY <1>7 DEF SaveCA, SignedOnce
<1>8. CASE SaveIdent BY <1>8 DEF SaveIdent
<1>9. CASE StartAgent
  <2>1. [cert |-> aCert, ca |-> aCA, hub |-> HubURL[aIdent]] \in Material
    BY <1>9, HubURLAssumption DEF StartAgent, LoadIdentity, Material
  <2> QED BY <1>9, <2>1 DEF StartAgent
<1>10. CASE StopAgent BY <1>10 DEF StopAgent
<1>11. ASSUME NEW e \in Enrollments, LapseAgentCert(e) PROVE HubInv'
  BY <1>11 DEF LapseAgentCert
<1> QED BY <1>2, <1>3, <1>4, <1>5, <1>6, <1>7, <1>8, <1>9, <1>10, <1>11 DEF AgentStep

-----------------------------------------------------------------------------
(* The agent's files *)

AgentInv == SignedOnce /\ AllHandedOut /\ SavedInOrder /\ IdentityComplete

\* Nothing has been enrolled.
LEMMA AgentInit == Init => AgentInv
BY DEF AgentInv, Init, SignedOnce, AllHandedOut, HandedOut, SavedInOrder, IdentityComplete

\* Certificates and roots on the agent come from the hub; agent.json comes last.
LEMMA AgentInvStep ==
    ASSUME HubInv, AgentInv, Next PROVE AgentInv'
<1> USE EnrollmentsAssumption, MarksAssumption
    DEF AgentInv, SignedOnce, AllHandedOut, HandedOut, SavedInOrder, IdentityComplete,
        HubInv, TypeOK, agentFiles
<1>1. CASE HubStep BY <1>1 DEF HubStep, agentVars
<1>2. ASSUME NEW e \in Enrollments, NEW force \in BOOLEAN, BeginEnroll(e, force) PROVE AgentInv'
  BY <1>2 DEF BeginEnroll
<1>3. ASSUME NEW pin \in Roots \cup {None}, Answer(pin) PROVE AgentInv'
  <2>1. root \in Roots BY <1>3 DEF Answer, StartShape
  <2>2. cur \in Enrollments BY <1>3 DEF Answer
  <2>3. \A e \in Enrollments : signedBy'[e] = IF e = cur THEN root ELSE signedBy[e]
    BY <1>3 DEF Answer, SignAgent
  <2>4. \A e \in Enrollments : signedBy[e] \in Roots => signedBy'[e] = signedBy[e]
    BY <1>3, <2>3 DEF Answer
  <2>5. SignedOnce' BY <1>3, <2>1, <2>2, <2>3 DEF Answer
  <2>6. ASSUME NEW cert \in Enrollments \cup {None}, NEW ca \in Roots \cup {None},
               HandedOut(cert, ca)
        PROVE  /\ cert # None => signedBy'[cert] \in Roots
               /\ ca # None => \E e \in Enrollments : signedBy'[e] = ca
    BY <2>4, <2>6
  <2>7. loaded # None => loaded.cert \in Enrollments /\ loaded.ca \in Roots BY DEF Material
  <2>8. AllHandedOut' BY <1>3, <2>6, <2>7 DEF Answer
  <2> QED BY <1>3, <2>5, <2>8 DEF Answer
<1>4. CASE AbandonEnroll BY <1>4 DEF AbandonEnroll
<1>5. CASE SaveKey BY <1>5 DEF SaveKey
<1>6. CASE SaveCert BY <1>6 DEF SaveCert
<1>7. CASE SaveCA BY <1>7 DEF SaveCA
<1>8. CASE SaveIdent BY <1>8 DEF SaveIdent
<1>9. CASE StartAgent BY <1>9 DEF StartAgent, LoadIdentity
<1>10. CASE StopAgent BY <1>10 DEF StopAgent
<1>11. ASSUME NEW e \in Enrollments, LapseAgentCert(e) PROVE AgentInv'
  BY <1>11 DEF LapseAgentCert
<1> QED BY <1>1, <1>2, <1>3, <1>4, <1>5, <1>6, <1>7, <1>8, <1>9, <1>10, <1>11
        DEF Next, AgentStep

Inv == HubInv /\ AgentInv

\* Files and memory of both ends stay in step.
LEMMA InvHolds == Spec => []Inv
<1>1. Init => Inv BY HubInit, AgentInit DEF Inv
<1>2. Inv /\ [Next]_vars => Inv'
  <2> SUFFICES ASSUME Inv, [Next]_vars PROVE Inv'
    OBVIOUS
  <2>1. CASE Next
    <3>1. AgentInv' BY <2>1, AgentInvStep DEF Inv
    <3>2. HubInv' BY <2>1, HubStepInv, AgentStepInv DEF Inv, AgentInv, Next, HubStep
    <3> QED BY <3>1, <3>2 DEF Inv
  <2>2. CASE UNCHANGED vars
    <3>1. HubInv'
      BY <2>2 DEF Inv, HubInv, TypeOK, PkiTypeOK, StartShape, vars, pkiVars, agentVars,
         rootFiles, hubFiles, agentFiles
    <3>2. AgentInv'
      BY <2>2 DEF Inv, AgentInv, SignedOnce, AllHandedOut, HandedOut, SavedInOrder,
         IdentityComplete, vars, agentVars, agentFiles
    <3> QED BY <3>1, <3>2 DEF Inv
  <2> QED BY <2>1, <2>2
<1> QED BY <1>1, <1>2, PTL DEF Spec

\* Type correctness of the hub's and the agent's files and processes.
THEOREM TypeCorrect == Spec => []TypeOK
<1>1. Inv => TypeOK BY DEF Inv, HubInv
<1> QED BY <1>1, InvHolds, PTL

\* An identity file never lacks the key, certificate or root it needs, whenever
\* enrollments are interrupted.
THEOREM IdentitiesAreComplete == Spec => []IdentityComplete
<1>1. Inv => IdentityComplete BY DEF Inv, AgentInv
<1> QED BY <1>1, InvHolds, PTL

-----------------------------------------------------------------------------
(* What the hub serves *)

\* Only a start and the clock touch the margin.
LEMMA MarginStep == ASSUME Inv, MarginLeft, [Next]_vars PROVE MarginLeft'
<1> USE ValidityAssumption DEF MarginLeft, Inv, HubInv, TypeOK, PkiTypeOK
<1>1. CASE UNCHANGED pkiVars BY <1>1 DEF pkiVars, hubFiles
<1>2. CASE AgentStep
  BY <1>1, <1>2 DEF AgentStep, BeginEnroll, Answer, AbandonEnroll, SaveKey, SaveCert, SaveCA,
     SaveIdent, StartAgent, StopAgent, LapseAgentCert
<1>3. CASE KeepServer BY <1>3 DEF KeepServer, Usable, hubFiles
<1>4. CASE WriteHubCert BY <1>4 DEF WriteHubCert
<1>5. CASE PkiTick BY <1>5 DEF PkiTick
<1>6. CASE Stop \/ CrashInStart \/ TearRootCert \/ TearHubCert
  BY <1>6 DEF Stop, CrashInStart, TearRootCert, TearHubCert, Down
<1>7. ASSUME hub # "up", hub' # "up", UNCHANGED uptime PROVE MarginLeft'
  BY <1>7
<1>8. CASE PkiStep
  BY <1>3, <1>4, <1>5, <1>6, <1>7, <1>8 DEF PkiStep, StartStep, LoadRoot, CreateRoot,
     WriteRootKey, WriteRootCert, IssueServer, WriteHubKey, RefuseRoot, RemoveRoot, LoseRootFile
<1> QED BY <1>1, <1>2, <1>8 DEF Next, HubStep, vars

\* Follows from MarginStep by induction on steps.
LEMMA MarginHolds == Spec => []MarginLeft
<1>1. Init => MarginLeft BY DEF Init, PkiInit, MarginLeft
<1>2. Inv /\ MarginLeft /\ [Next]_vars => MarginLeft' BY MarginStep
<1> QED BY <1>1, <1>2, InvHolds, PTL DEF Spec

\* The hub serves the pair that is on file, for all its names, and a certificate
\* kept or issued at a start does not run out within the renewal margin.
THEOREM HubServesLastingCertificate == Spec => []ServedCertificate
<1>1. Inv /\ MarginLeft => ServedCertificate
  BY ValidityAssumption DEF Inv, HubInv, TypeOK, PkiTypeOK, StartShape, MarginLeft,
     ServedCertificate
<1> QED BY <1>1, InvHolds, MarginHolds, PTL

-----------------------------------------------------------------------------
(* The root *)

\* A root in use is replaced neither on file nor in memory, unless the operator
\* gives it up: a start that can read one of its files does not make another.
LEMMA RootStep ==
    ASSUME MaxBadReads <= 1, Inv, RootOnFile, [Next]_vars PROVE RootOnFile'
<1> USE MarksAssumption DEF RootOnFile, Inv, HubInv, TypeOK, PkiTypeOK
<1>1. ASSUME NEW pin, Answer(pin) PROVE RootOnFile'
  <2>1. hub = "up" /\ root \in Roots /\ caKey = root /\ caCert = root
    BY <1>1 DEF Answer, StartShape
  <2>2. UNCHANGED <<caKey, caCert, hub, root, discarded>>
    BY <1>1 DEF Answer, pkiVars, rootFiles
  <2>3. \A e \in Enrollments : signedBy'[e] \in {signedBy[e], root}
    BY <1>1 DEF Answer, SignAgent
  <2> QED BY <2>1, <2>2, <2>3
<1>2. ASSUME UNCHANGED <<caKey, caCert, hub, root, discarded, signedBy>> PROVE RootOnFile'
  BY <1>2
<1>3. CASE AgentStep
  BY <1>1, <1>2, <1>3 DEF AgentStep, BeginEnroll, AbandonEnroll, SaveKey, SaveCert, SaveCA,
     SaveIdent, StartAgent, StopAgent, LapseAgentCert, pkiVars, rootFiles
<1>4. ASSUME PkiStep, UNCHANGED signedBy PROVE RootOnFile'
  <2>1. CASE \E ns \in SUBSET Names : LoadRoot(ns) BY <1>4, <2>1 DEF LoadRoot, rootFiles
  <2>2. CASE \E ns \in SUBSET Names : CreateRoot(ns)
    <3>1. caKey = None \/ caCert = None BY <2>2, BothPresentRead DEF CreateRoot
    <3>2. UNCHANGED <<caKey, caCert, discarded>> BY <2>2 DEF CreateRoot, rootFiles
    <3> QED BY <1>4, <3>1, <3>2
  <2>3. CASE WriteRootKey \/ WriteRootCert \/ TearRootCert
    BY <1>4, <2>3 DEF WriteRootKey, WriteRootCert, TearRootCert
  <2>4. CASE KeepServer \/ IssueServer \/ WriteHubKey \/ WriteHubCert
    BY <1>4, <2>4 DEF KeepServer, IssueServer, WriteHubKey, WriteHubCert, rootFiles
  <2>5. CASE TearHubCert \/ Stop \/ CrashInStart
    BY <1>4, <2>5 DEF TearHubCert, Stop, CrashInStart, Down, rootFiles
  <2>6. CASE RemoveRoot \/ LoseRootFile
    BY <1>4, <2>6 DEF RemoveRoot, LoseRootFile
  <2>7. CASE RefuseRoot \/ PkiTick
    BY <1>2, <1>4, <2>7 DEF RefuseRoot, PkiTick, rootFiles
  <2> QED BY <1>4, <2>1, <2>2, <2>3, <2>4, <2>5, <2>6, <2>7 DEF PkiStep, StartStep
<1>5. CASE UNCHANGED vars BY <1>2, <1>5 DEF vars, pkiVars, agentVars, rootFiles
<1> QED BY <1>3, <1>4, <1>5 DEF Next, HubStep, agentVars

\* Follows from RootStep by induction on steps.
LEMMA RootStays == ASSUME MaxBadReads <= 1 PROVE Spec => []RootOnFile
<1>1. Init => RootOnFile BY MarksAssumption DEF Init, RootOnFile
<1>2. Inv /\ RootOnFile /\ [Next]_vars => RootOnFile' BY RootStep
<1> QED BY <1>1, <1>2, InvHolds, PTL DEF Spec

\* Whatever crashes and failed writes the hub goes through, as long as no start
\* fails to read both files of the root it serves under the root its agents know.
THEOREM RootIsKept == ASSUME MaxBadReads <= 1 PROVE Spec => []RootNotReplaced
<1>1. RootOnFile => RootNotReplaced BY DEF RootOnFile, RootNotReplaced
<1> QED BY <1>1, RootStays, PTL

\* Under the same condition an agent enrolled under a root that was not given up
\* and the hub accept each other's certificates, also after interrupted
\* re-enrollments, as long as the hub was started with the name the agent knows it
\* by, within its renewal margin, and the agent's certificate lasts.
THEOREM EnrolledAgentsConnect == ASSUME MaxBadReads <= 1 PROVE Spec => []EnrolledCanConnect
<1>1. ASSUME Inv, RootOnFile, MarginLeft PROVE EnrolledCanConnect
  <2> SUFFICES ASSUME hub = "up", loaded # None, loaded.ca \notin discarded,
                      signedBy[loaded.cert] \notin discarded,
                      loaded.hub \in names, uptime <= RenewBefore, loaded.cert \notin lapsed
               PROVE  Handshake
    BY DEF EnrolledCanConnect
  <2>1. loaded.cert \in Enrollments /\ loaded.ca \in Roots
    BY <1>1 DEF Inv, HubInv, TypeOK, Material
  <2>2. signedBy[loaded.cert] \in Roots
    BY <1>1, <2>1, EnrollmentsAssumption DEF Inv, AgentInv, AllHandedOut, HandedOut
  <2>3. PICK e \in Enrollments : signedBy[e] = loaded.ca
    BY <1>1, <2>1, MarksAssumption DEF Inv, AgentInv, AllHandedOut, HandedOut
  <2>4. signedBy[loaded.cert] = root /\ loaded.ca = root
    BY <1>1, <2>1, <2>2, <2>3 DEF RootOnFile
  <2>5. leaf.root = root /\ loaded.hub \in leaf.names
    BY <1>1 DEF Inv, HubInv, StartShape
  <2>6. age < ServerValidity
    BY <1>1, ValidityAssumption DEF Inv, HubInv, TypeOK, PkiTypeOK, MarginLeft
  <2> QED BY <2>4, <2>5, <2>6 DEF Handshake
<1>2. Inv /\ RootOnFile /\ MarginLeft => EnrolledCanConnect BY <1>1
<1> QED BY <1>2, InvHolds, RootStays, MarginHolds, PTL

=============================================================================
