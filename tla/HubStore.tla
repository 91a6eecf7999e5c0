------------------------------ MODULE HubStore ------------------------------
(***************************************************************************)
(* The hub's state store (internal/store/store.go): agents and enrollment  *)
(* tokens in memory, and the state file.  Every mutator changes memory     *)
(* under the lock and then writes the WHOLE state to disk.  A write that   *)
(* fails is reported to the caller but leaves memory changed, so the next  *)
(* successful write of anything persists it after all; a hub that goes     *)
(* down before that comes back without it.                                 *)
(***************************************************************************)
EXTENDS Naturals, FiniteSets

CONSTANTS
    Ids,      \* agent IDs; each enrollment attempt draws a new one
    Tokens,   \* enrollment token IDs
    MaxUses,  \* EnrollToken.MaxUses of each token; 0 is unlimited
    Names,    \* display names
    Absent    \* no record

ASSUME UsesAssumption == MaxUses \in [Tokens -> Nat]
ASSUME IdsAssumption  == IsFiniteSet(Ids)

\* What the operator controls of an agent's record, and EnrolledVia: the token
\* that admitted it.
Records == [name : Names, disabled : BOOLEAN, via : Tokens \cup {Absent}]

ASSUME AbsentAssumption == Absent \notin Records

VARIABLES
    rec,      \* state.Agents
    toks,     \* keys of state.Tokens
    claims,   \* their AgentIDs, none without a record; Uses is how many they are
    dRec, dToks, dClaims, \* the same in the state file
    expired   \* tokens whose ExpiresAt has passed

memory == <<rec, toks, claims>>
disk   == <<dRec, dToks, dClaims>>
storeVars == <<memory, disk, expired>>

StoreTypeOK ==
    /\ rec \in [Ids -> Records \cup {Absent}]
    /\ dRec \in [Ids -> Records \cup {Absent}]
    /\ toks \subseteq Tokens /\ dToks \subseteq Tokens
    /\ claims \in [Tokens -> SUBSET Ids]
    /\ dClaims \in [Tokens -> SUBSET Ids]
    /\ expired \subseteq Tokens

\* Open on first run: an empty dataset, written out.
StoreInit ==
    /\ rec = [i \in Ids |-> Absent] /\ dRec = rec
    /\ toks = {} /\ dToks = {}
    /\ claims = [t \in Tokens |-> {}] /\ dClaims = claims
    /\ expired = {}

-----------------------------------------------------------------------------
\* flushLocked: all of memory or, when ok is FALSE, nothing reaches the file
\* (it is written beside it and renamed over it).
flushLocked(ok) ==
    IF ok THEN dRec' = rec' /\ dToks' = toks' /\ dClaims' = claims'
          ELSE UNCHANGED disk

SetRecord(i, r, ok) ==
    /\ rec' = [rec EXCEPT ![i] = r]
    /\ UNCHANGED <<toks, claims, expired>>
    /\ flushLocked(ok)

PutAgent(i, r, ok) == SetRecord(i, r, ok)
DeleteAgent(i, ok) == SetRecord(i, Absent, ok)

\* Faulty: an unknown ID gets a record, without a name.
SetAgentDisabledUpsert(i, d, ok) ==
    SetRecord(i, [name |-> IF rec[i] = Absent THEN Absent ELSE rec[i].name,
                  disabled |-> d, via |-> Absent], ok)

SetAgentDisabled(i, d, ok) ==
    /\ rec[i] # Absent
    /\ SetRecord(i, [rec[i] EXCEPT !.disabled = d], ok)

RenameAgent(i, n, ok) ==
    /\ rec[i] # Absent
    /\ SetRecord(i, [rec[i] EXCEPT !.name = n], ok)

\* TouchAgent: a contact of a known agent, written out once a minute or when
\* the agent's address changed (flush), and then a failure is ignored.
TouchAgent(i, flush) ==
    /\ UNCHANGED <<memory, expired>>
    /\ flushLocked(flush /\ rec[i] # Absent)

\* A new token: its ID is fresh, so nothing is listed with it.
PutToken(t, ok) ==
    /\ toks' = toks \cup {t}
    /\ UNCHANGED <<rec, claims, expired>>
    /\ flushLocked(ok)

\* The whole record goes, and with it the list of the agents it admitted.
DeleteToken(t, ok) ==
    /\ toks' = toks \ {t}
    /\ claims' = [claims EXCEPT ![t] = {}]
    /\ UNCHANGED <<rec, expired>>
    /\ flushLocked(ok)

\* Faulty: one use too many.
UsableOffByOne(t) ==
    /\ t \notin expired
    /\ MaxUses[t] > 0 => Cardinality(claims[t]) <= MaxUses[t]

\* EnrollToken.Usable.  (Nothing sets Revoked: revoking deletes the token.)
Usable(t) ==
    /\ t \notin expired
    /\ MaxUses[t] > 0 => Cardinality(claims[t]) < MaxUses[t]

\* Faulty: a use is counted without being written out.
ClaimInMemory(i, t, ok) ==
    /\ claims' = [claims EXCEPT ![t] = @ \cup {i}]
    /\ UNCHANGED <<rec, toks, expired, disk>>

\* ClaimToken, past the match and the Usable check.
Claim(i, t, ok) ==
    /\ claims' = [claims EXCEPT ![t] = @ \cup {i}]
    /\ UNCHANGED <<rec, toks, expired>>
    /\ flushLocked(ok)

\* Open after the hub went down: memory is what the file holds.
Reopen ==
    /\ rec' = dRec /\ toks' = dToks /\ claims' = dClaims
    /\ UNCHANGED <<disk, expired>>

\* Any other mutator (settings, operators, hosts, scan history), and Close:
\* the whole state is written out, and with it what an earlier write missed.
FlushAll ==
    /\ UNCHANGED <<memory, expired>>
    /\ flushLocked(TRUE)

\* Time passes a token's ExpiresAt.
Expire(t) ==
    /\ t \notin expired
    /\ expired' = expired \cup {t}
    /\ UNCHANGED <<memory, disk>>

=============================================================================
