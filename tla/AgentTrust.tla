----------------------------- MODULE AgentTrust -----------------------------
(***************************************************************************)
(* One agent's state directory and its trust in the hub: Enroll            *)
(* (internal/agent/enroll.go), SaveIdentity and LoadIdentity (identity.go) *)
(* and New (run.go), with the hub's authority at the other end.  What the  *)
(* hub records of an enrollment is in HubRecords.                          *)
(***************************************************************************)
EXTENDS HubPki

CONSTANTS
    Enrollments,   \* runs of `nswagent enroll`, each with a key of its own
    HubURL         \* the hub's name in the URL that each was given

ASSUME EnrollmentsAssumption == None \notin Enrollments
ASSUME HubURLAssumption == HubURL \in [Enrollments -> Names]

VARIABLES
    aKey, aCert, aIdent, \* agent.key, agent.crt, agent.json: the enrollment they are of
    aCA,                 \* ca.crt: the root it holds
    enroll,              \* how far the enrollment under way has come
    cur,                 \* which one it is
    done,                \* enrollments begun so far
    signedBy,            \* the root that signed an enrollment's certificate
    lapsed,              \* enrollments whose certificate is past its agentValidity
    loaded               \* what a running agent has loaded

agentFiles == <<aKey, aCert, aIdent, aCA>>
agentVars  == <<agentFiles, enroll, cur, done, signedBy, lapsed, loaded>>
vars == <<pkiVars, agentVars>>

Material == [cert : Enrollments, ca : Roots, hub : Names]

TypeOK ==
    /\ PkiTypeOK
    /\ {aKey, aCert, aIdent} \subseteq Enrollments \cup {None}
    /\ aCA \in Roots \cup {None}
    /\ enroll \in {"idle", "asking", "key", "cert", "ca", "ident"}
    /\ cur \in Enrollments \cup {None}
    /\ done \subseteq Enrollments
    /\ signedBy \in [Enrollments -> Roots \cup {None}]
    /\ lapsed \subseteq Enrollments
    /\ loaded \in Material \cup {None}

Init ==
    /\ PkiInit
    /\ aKey = None /\ aCert = None /\ aIdent = None /\ aCA = None
    /\ enroll = "idle" /\ cur = None /\ done = {}
    /\ signedBy = [e \in Enrollments |-> None]
    /\ lapsed = {}
    /\ loaded = None

-----------------------------------------------------------------------------
\* Enroll: only --force goes on over an existing identity.  The hub's certificate
\* is not checked for the name in the URL.
BeginEnroll(e, force) ==
    /\ enroll = "idle"
    /\ e \notin done /\ e = Fresh(Enrollments \ done)
    /\ force \/ aIdent = None
    /\ enroll' = "asking" /\ cur' = e /\ done' = done \cup {e}
    /\ UNCHANGED <<pkiVars, agentFiles, signedBy, lapsed, loaded>>

\* A pin must be in the chain the hub serves, and be the root it returns.
PinAccepted(pin) == pin = None \/ (pin = leaf.root /\ pin = root)

\* The hub's signature under the key of enrollment e.
SignAgent(e) == signedBy' = [signedBy EXCEPT ![e] = root]

Answer(pin) ==
    /\ enroll = "asking"
    /\ hub = "up"
    /\ PinAccepted(pin)
    /\ SignAgent(cur)
    /\ enroll' = "key"
    /\ UNCHANGED <<pkiVars, agentFiles, cur, done, lapsed, loaded>>

\* Refused, unreachable, interrupted, or a write fails: what was written stays.
AbandonEnroll ==
    /\ enroll # "idle"
    /\ enroll' = "idle" /\ cur' = None
    /\ UNCHANGED <<pkiVars, agentFiles, done, signedBy, lapsed, loaded>>

\* SaveIdentity: one file after the other, each installed by renaming.
SaveKey ==
    /\ enroll = "key"
    /\ aKey' = cur /\ enroll' = "cert"
    /\ UNCHANGED <<pkiVars, aCert, aIdent, aCA, cur, done, signedBy, lapsed, loaded>>

SaveCert ==
    /\ enroll = "cert"
    /\ aCert' = cur /\ enroll' = "ca"
    /\ UNCHANGED <<pkiVars, aKey, aIdent, aCA, cur, done, signedBy, lapsed, loaded>>

\* Faulty: the identity file is written before the root.
SaveIdentEarly ==
    /\ enroll = "ca"
    /\ aIdent' = cur /\ enroll' = "ident"
    /\ UNCHANGED <<pkiVars, aKey, aCert, aCA, cur, done, signedBy, lapsed, loaded>>

SaveCA ==
    /\ enroll = "ca"
    /\ aCA' = signedBy[cur] /\ enroll' = "ident"
    /\ UNCHANGED <<pkiVars, aKey, aCert, aIdent, cur, done, signedBy, lapsed, loaded>>

SaveIdent ==
    /\ enroll = "ident"
    /\ aIdent' = cur /\ enroll' = "idle" /\ cur' = None
    /\ UNCHANGED <<pkiVars, aKey, aCert, aCA, done, signedBy, lapsed, loaded>>

-----------------------------------------------------------------------------
\* Every file must be there ...
LoadIdentity == None \notin {aKey, aCert, aIdent, aCA}

\* ... and the certificate belong to the key.
StartAgent ==
    /\ loaded = None
    /\ LoadIdentity
    /\ aKey = aCert
    /\ loaded' = [cert |-> aCert, ca |-> aCA, hub |-> HubURL[aIdent]]
    /\ UNCHANGED <<pkiVars, agentFiles, enroll, cur, done, signedBy, lapsed>>

StopAgent ==
    /\ loaded # None
    /\ loaded' = None
    /\ UNCHANGED <<pkiVars, agentFiles, enroll, cur, done, signedBy, lapsed>>

\* An agent's certificate comes to its end.  Nothing renews it but enrolling anew.
LapseAgentCert(e) ==
    /\ signedBy[e] # None
    /\ e \notin lapsed
    /\ lapsed' = lapsed \cup {e}
    /\ UNCHANGED <<pkiVars, agentFiles, enroll, cur, done, signedBy, loaded>>

\* Mutual TLS as mutualTLSClient and tlsConfig set it up: the agent verifies the
\* hub's certificate against its ca.crt, its date and the name in the hub's URL,
\* and the hub the agent's certificate against its root and its date.
Handshake ==
    /\ leaf.root = loaded.ca
    /\ age < ServerValidity
    /\ loaded.hub \in leaf.names
    /\ signedBy[loaded.cert] = root
    /\ loaded.cert \notin lapsed

AgentStep ==
    \/ \E e \in Enrollments, force \in BOOLEAN : BeginEnroll(e, force)
    \/ \E pin \in Roots \cup {None} : Answer(pin)
    \/ AbandonEnroll
    \/ SaveKey \/ SaveCert \/ SaveCA \/ SaveIdent
    \/ StartAgent \/ StopAgent
    \/ \E e \in Enrollments : LapseAgentCert(e)

HubStep == PkiStep /\ UNCHANGED agentVars

Next == HubStep \/ AgentStep

Spec == Init /\ [][Next]_vars

\* The hub is started again whenever it is down, and a start goes on.
FairSpec == Spec /\ WF_vars(StartStep /\ UNCHANGED agentVars)

-----------------------------------------------------------------------------
(* Properties *)

\* Crashes, failed writes, renewals and further names of the hub never cut off an
\* enrolled agent, nor does an interrupted enrollment over its old one.  It is cut
\* off by what it is told to expect: a root that the operator gave up, a hub
\* started without the name the agent knows it by or running past the renewal
\* margin, and the end of its own certificate.
EnrolledCanConnect ==
    /\ hub = "up" /\ loaded # None
    /\ loaded.ca \notin discarded /\ signedBy[loaded.cert] \notin discarded
    /\ loaded.hub \in names /\ uptime <= RenewBefore
    /\ loaded.cert \notin lapsed
    => Handshake

\* What the hub serves is what is on file, for all names it was started with, and
\* it does not run out within the renewal margin after a start.
ServedCertificate ==
    hub = "up" =>
        /\ hubKey = leaf.key /\ hubCert = leaf /\ names \subseteq leaf.names
        /\ uptime <= RenewBefore => age < ServerValidity

\* agent.json is written last, so an interrupted first enrollment can be repeated
\* without --force and never leaves an identity that lacks a file.
IdentityComplete == aIdent # None => None \notin {aKey, aCert, aCA}

\* A hub that has its root comes up again, whatever became of its own certificate.
HubComesUp == (caKey = caCert /\ caKey \in Roots) ~> (hub = "up" \/ Present # {"key", "cert"})

\* The root agents were enrolled under is never silently replaced.
RootNotReplaced ==
    \A e \in Enrollments :
        hub = "up" /\ signedBy[e] \in Roots \ discarded => signedBy[e] = root

-----------------------------------------------------------------------------
(* Why the invariants hold: the parts of an inductive invariant *)

\* A root in use is on file, whole, and is the one in memory.
RootOnFile ==
    \A e \in Enrollments : signedBy[e] \in Roots \ discarded =>
        /\ caKey = signedBy[e] /\ caCert = signedBy[e]
        /\ hub # "down" => root = signedBy[e] /\ hub \notin {"rootKey", "rootCert"}

\* How far a start has come, and what it has put on file.
StartShape ==
    /\ hub # "down" => root \in Roots
    /\ hub \in {"server", "hubKey", "hubCert", "up"} => caKey = root /\ caCert = root
    /\ hub = "rootCert" => caKey = root
    /\ hub \in {"hubKey", "hubCert", "up"} =>
         leaf \in Certs /\ leaf.root = root /\ names \subseteq leaf.names
    /\ hub \in {"hubCert", "up"} => hubKey = leaf.key
    /\ hub = "up" => hubCert = leaf

\* What is left of a certificate, counted from the start that kept or issued it.
MarginLeft ==
    /\ hub # "up" => uptime = 0
    /\ hub = "up" /\ uptime <= RenewBefore => age + RenewBefore < uptime + ServerValidity

\* An enrollment is signed once, when it is asked for.
SignedOnce ==
    /\ \A e \in Enrollments \ done : signedBy[e] = None
    /\ enroll # "idle" => cur \in done
    /\ enroll = "asking" => signedBy[cur] = None
    /\ enroll \in {"key", "cert", "ca", "ident"} => signedBy[cur] \in Roots

\* Every certificate and every root an agent holds was handed out by the hub.
HandedOut(cert, ca) ==
    /\ cert # None => signedBy[cert] \in Roots
    /\ ca # None => \E e \in Enrollments : signedBy[e] = ca

AllHandedOut ==
    /\ HandedOut(aCert, aCA)
    /\ loaded # None => HandedOut(loaded.cert, loaded.ca)

\* SaveIdentity writes the files in order.
SavedInOrder ==
    /\ enroll \in {"cert", "ca", "ident"} => aKey # None
    /\ enroll \in {"ca", "ident"} => aCert # None
    /\ enroll = "ident" => aCA # None

=============================================================================
