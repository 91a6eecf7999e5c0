------------------------------- MODULE HubPki -------------------------------
(***************************************************************************)
(* The hub's certificate authority (internal/ca/ca.go): loading or         *)
(* creating the root and the hub's own certificate when the hub starts,    *)
(* file by file, against crashes, writes that fail and files that cannot   *)
(* be read.  A root stands for its key and its only certificate.           *)
(***************************************************************************)
EXTENDS Naturals, FiniteSets

CONSTANTS
    Roots,          \* root keys; each is drawn once
    Leaves,         \* keys of hub certificates; three, as two are on file at a time
    Names,          \* names the hub may be asked to serve under
    ServerValidity, \* serverValidity, in ticks
    RenewBefore,    \* the 30 days before the end at which a start renews
    MaxBadReads,    \* bound: root files that one start fails to read
    MaxFaults,      \* bound: crashes and failed or faulty starts
    None, Torn      \* no file; a file cut short

ASSUME ValidityAssumption ==
    ServerValidity \in Nat /\ RenewBefore \in Nat /\ RenewBefore < ServerValidity
ASSUME LeavesAssumption ==
    Leaves # {} /\ \A j, k \in Leaves : \E l \in Leaves : l \notin {j, k}
ASSUME FaultsAssumption == MaxBadReads \in Nat /\ MaxFaults \in Nat
ASSUME MarksAssumption ==
    /\ None \notin Roots \cup Leaves /\ Torn \notin Roots \cup Leaves /\ None # Torn

VARIABLES
    caKey, caCert,   \* the files ca.key and ca.crt
    hubKey, hubCert, \* the files hub.key and hub.crt
    age,             \* of the certificate in hub.crt
    hub,             \* how far the hub has come
    root,            \* Authority.caKey and caCert
    leaf,            \* the certificate the hub serves, or is about to write
    names,           \* the names it was started with
    uptime,          \* since Open has decided on the certificate
    drawn,           \* root keys drawn so far
    discarded,       \* history: roots of which the operator has lost or removed a file
    faults           \* so far

rootFiles == <<caKey, caCert>>
hubFiles  == <<hubKey, hubCert, age>>
pkiVars   == <<rootFiles, hubFiles, hub, root, leaf, names, uptime, drawn, discarded, faults>>

Certs == [key : Leaves, root : Roots, names : SUBSET Names]

HubStates == {"down", "rootKey", "rootCert", "server", "hubKey", "hubCert", "up"}

PkiTypeOK ==
    /\ caKey \in Roots \cup {None} /\ caCert \in Roots \cup {None, Torn}
    /\ hubKey \in Leaves \cup {None} /\ hubCert \in Certs \cup {None, Torn}
    /\ age \in 0 .. ServerValidity + 1
    /\ hub \in HubStates
    /\ root \in Roots \cup {None} /\ leaf \in Certs \cup {None}
    /\ names \in SUBSET Names
    /\ uptime \in 0 .. RenewBefore + 1
    /\ drawn \subseteq Roots /\ discarded \subseteq Roots
    /\ faults \in 0 .. MaxFaults

PkiInit ==
    /\ caKey = None /\ caCert = None /\ hubKey = None /\ hubCert = None /\ age = 0
    /\ hub = "down" /\ root = None /\ leaf = None /\ names = {} /\ uptime = 0
    /\ drawn = {} /\ discarded = {} /\ faults = 0

-----------------------------------------------------------------------------
\* One of the set: of keys drawn at random it makes no difference which.
Fresh(S) == CHOOSE x \in S : TRUE

\* The process ends, and with it what it holds in memory.
Down == hub' = "down" /\ root' = None /\ leaf' = None /\ names' = {} /\ uptime' = 0

Fault == faults < MaxFaults /\ faults' = faults + 1

\* The root files a start can read, of those that exist.
Present == {f \in {"key", "cert"} : (f = "key" /\ caKey # None) \/ (f = "cert" /\ caCert # None)}
Readable == {R \in SUBSET Present : Cardinality(Present \ R) <= MaxBadReads}

\* A start in which not every existing file is read counts as a fault.
Reading(R) == IF R = Present THEN UNCHANGED faults ELSE Fault

\* loadOrCreateRoot, both files read: they must be a pair.
LoadRoot(ns) ==
    /\ hub = "down"
    /\ Present = {"key", "cert"} /\ caKey = caCert
    /\ root' = caKey /\ names' = ns /\ hub' = "server"
    /\ UNCHANGED <<rootFiles, hubFiles, leaf, uptime, drawn, discarded, faults>>

\* loadOrCreateRoot, one file read, or two that are no pair: the hub does not start.
RefuseRoot ==
    /\ hub = "down"
    /\ \E R \in Readable :
         /\ \/ Cardinality(R) = 1
            \/ R = {"key", "cert"} /\ caKey # caCert
         /\ Reading(R)
    /\ UNCHANGED <<rootFiles, hubFiles, hub, root, leaf, names, uptime, drawn, discarded>>

\* loadOrCreateRoot, neither file read: a new root.
CreateRoot(ns) ==
    /\ hub = "down"
    /\ {} \in Readable /\ Reading({})
    /\ \E r \in Roots \ drawn :
         r = Fresh(Roots \ drawn) /\ root' = r /\ drawn' = drawn \cup {r}
    /\ names' = ns /\ hub' = "rootKey"
    /\ UNCHANGED <<rootFiles, hubFiles, leaf, uptime, discarded>>

\* The key is installed by renaming, so it is there whole or not at all.
WriteRootKey ==
    /\ hub = "rootKey"
    /\ caKey' = root /\ hub' = "rootCert"
    /\ UNCHANGED <<caCert, hubFiles, root, leaf, names, uptime, drawn, discarded, faults>>

WriteRootCert ==
    /\ hub = "rootCert"
    /\ caCert' = root /\ hub' = "server"
    /\ UNCHANGED <<caKey, hubFiles, root, leaf, names, uptime, drawn, discarded, faults>>

\* The certificate is written in place: interrupted, it may be left cut short.
TearRootCert ==
    /\ hub = "rootCert"
    /\ Fault
    /\ caCert' = Torn /\ Down
    /\ UNCHANGED <<caKey, hubFiles, drawn, discarded>>

-----------------------------------------------------------------------------
(* loadOrCreateServer *)

\* parseCertKey: two files that parse, the certificate for the key.
Matches == hubCert \in Certs /\ hubCert.key = hubKey

\* coversNames.
Covers == names \subseteq hubCert.names

\* Faulty: a certificate is kept to its last day.
UsableToTheEnd ==
    /\ Matches
    /\ hubCert.root = root
    /\ Covers
    /\ age < ServerValidity

\* Faulty: the chain is not compared with the root.
UsableAnyRoot ==
    /\ Matches
    /\ Covers
    /\ age < ServerValidity - RenewBefore

\* The pair matches, contains the root, covers the names and lasts.
Usable ==
    /\ Matches
    /\ hubCert.root = root
    /\ Covers
    /\ age < ServerValidity - RenewBefore

\* The pair is kept, and served as it is on file.
KeepServer ==
    /\ hub = "server"
    /\ Usable
    /\ leaf' = hubCert /\ hub' = "up"
    /\ UNCHANGED <<rootFiles, hubFiles, root, names, uptime, drawn, discarded, faults>>

\* A key that is on neither file.
NewKey == CHOOSE k \in Leaves : k # hubKey /\ (hubCert \in Certs => k # hubCert.key)

\* Faulty: a pair that is no use is refused, as it is with the root.
IssueOrRefuse ==
    /\ hub = "server"
    /\ ~Usable
    /\ \/ /\ hubKey = None /\ hubCert = None
          /\ leaf' = [key |-> NewKey, root |-> root, names |-> names]
          /\ hub' = "hubKey" /\ UNCHANGED <<root, names, uptime>>
       \/ {hubKey, hubCert} # {None} /\ Down
    /\ UNCHANGED <<rootFiles, hubFiles, drawn, discarded, faults>>

\* Or a new one is made, for a new key and just these names.
IssueServer ==
    /\ hub = "server"
    /\ \/ ~Usable /\ UNCHANGED faults
       \/ Usable /\ Fault    \* a file cannot be read
    /\ leaf' = [key |-> NewKey, root |-> root, names |-> names]
    /\ hub' = "hubKey"
    /\ UNCHANGED <<rootFiles, hubFiles, root, names, uptime, drawn, discarded>>

\* Faulty: the key is written in place.
WriteHubKeyInPlace ==
    /\ hub = "hubKey"
    /\ \/ hubKey' = leaf.key /\ hub' = "hubCert" /\ UNCHANGED <<root, leaf, names, uptime, faults>>
       \/ hubKey' = Torn /\ Down /\ Fault
    /\ UNCHANGED <<rootFiles, hubCert, age, drawn, discarded>>

WriteHubKey ==
    /\ hub = "hubKey"
    /\ hubKey' = leaf.key /\ hub' = "hubCert"
    /\ UNCHANGED <<rootFiles, hubCert, age, root, leaf, names, uptime, drawn, discarded, faults>>

\* The certificate is written; then tlsConfig loads the pair and the hub serves.
WriteHubCert ==
    /\ hub = "hubCert"
    /\ hubCert' = leaf /\ age' = 0 /\ hub' = "up"
    /\ UNCHANGED <<rootFiles, hubKey, root, leaf, names, uptime, drawn, discarded, faults>>

TearHubCert ==
    /\ hub = "hubCert"
    /\ Fault
    /\ hubCert' = Torn /\ age' = 0 /\ Down
    /\ UNCHANGED <<rootFiles, hubKey, drawn, discarded>>

-----------------------------------------------------------------------------
\* The hub is stopped, or crashes, while it serves.
Stop ==
    /\ hub = "up"
    /\ Down
    /\ UNCHANGED <<rootFiles, hubFiles, drawn, discarded, faults>>

\* It crashes while it starts, or gives up because a write failed.
CrashInStart ==
    /\ hub \notin {"down", "up"}
    /\ Fault
    /\ Down
    /\ UNCHANGED <<rootFiles, hubFiles, drawn, discarded>>

\* The operator removes the root, as the hub's message and the manual say, with
\* or without the rest of the directory.
RemoveRoot ==
    /\ hub = "down"
    /\ Present # {}
    /\ caKey' = None /\ caCert' = None
    /\ discarded' = discarded \cup ({caKey, caCert} \cap Roots)
    /\ \/ UNCHANGED hubFiles
       \/ hubKey' = None /\ hubCert' = None /\ age' = 0
    /\ UNCHANGED <<hub, root, leaf, names, uptime, drawn, faults>>

\* One file of the root is lost, for instance by restoring half of a backup.
LoseRootFile ==
    /\ hub = "down"
    /\ Present = {"key", "cert"}
    /\ \/ caKey' = None /\ UNCHANGED caCert
       \/ caCert' = None /\ UNCHANGED caKey
    /\ discarded' = discarded \cup ({caKey, caCert} \cap Roots)
    /\ UNCHANGED <<hubFiles, hub, root, leaf, names, uptime, drawn, faults>>

\* Time passes; a start takes none of it.
PkiTick ==
    /\ hub \in {"down", "up"}
    /\ age' = IF hubCert \in Certs /\ age <= ServerValidity THEN age + 1 ELSE age
    /\ uptime' = IF hub = "up" /\ uptime <= RenewBefore THEN uptime + 1 ELSE uptime
    /\ UNCHANGED <<rootFiles, hubKey, hubCert, hub, root, leaf, names, drawn, discarded, faults>>

\* The steps of a start that goes well.
StartStep ==
    \/ \E ns \in SUBSET Names : LoadRoot(ns) \/ CreateRoot(ns)
    \/ WriteRootKey \/ WriteRootCert
    \/ KeepServer \/ IssueServer \/ WriteHubKey \/ WriteHubCert

PkiStep ==
    \/ StartStep
    \/ RefuseRoot
    \/ TearRootCert \/ TearHubCert
    \/ Stop \/ CrashInStart
    \/ RemoveRoot \/ LoseRootFile
    \/ PkiTick

=============================================================================
