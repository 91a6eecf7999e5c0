-------------------------------- MODULE Auth --------------------------------
(***************************************************************************)
(* Operator authentication: handleLogin, handleChangePassword,             *)
(* requireOperator and handleLogout (internal/hub/api_operator.go) over    *)
(* the session table and the throttle (session.go) and the operator's      *)
(* record in the store, for one operator account.  The handlers take no    *)
(* lock across their calls, so each call is a step of its own.             *)
(***************************************************************************)
EXTENDS LoginThrottle

CONSTANTS
    Logins,       \* slots for login requests served at the same time
    Changes,      \* slots for password changes served at the same time
    Sessions,     \* session IDs; each is drawn once
    Passwords,    \* passwords; the operator does not choose one twice
    FirstPassword, \* the one generated on first start
    SessionTTL,   \* sessionTTL, in ticks
    SessionIdle,  \* sessionIdle, in ticks
    None

ASSUME LoginsAssumption == IsFiniteSet(Logins) /\ Cardinality(Logins) > 0
ASSUME SessionAssumption == SessionTTL \in Nat /\ SessionIdle \in Nat
ASSUME PasswordAssumption == FirstPassword \in Passwords /\ None \notin Passwords

VARIABLES
    pw,         \* the operator's password in memory
    dPw,        \* ... and in the state file
    chosen,     \* passwords chosen so far
    live,       \* Sessions.byID
    drawn,      \* session IDs drawn so far
    sAge, sIdle, \* time since Created and since LastSeen
    verified,   \* history: the password a session's login was verified with
    login,      \* where each login request is
    loginPw,    \* the password it was found to match
    change,     \* where each password change is
    changePw,   \* the current password it presented
    retired     \* history: passwords replaced by a change that has finished

sessionVars == <<live, drawn, sAge, sIdle, verified>>
storeVars   == <<pw, dPw, chosen>>
loginVars   == <<login, loginPw>>
changeVars  == <<change, changePw, retired>>
vars == <<throttleVars, sessionVars, storeVars, loginVars, changeVars>>

LoginStates  == {"idle", "allowed", "wrong", "right", "cleared"}
ChangeStates == {"idle", "open", "checked", "stored"}

TypeOK ==
    /\ ThrottleTypeOK
    /\ pw \in Passwords /\ dPw \in Passwords /\ chosen \subseteq Passwords
    /\ live \subseteq drawn /\ drawn \subseteq Sessions
    /\ sAge \in [Sessions -> 0 .. SessionTTL + 1]
    /\ sIdle \in [Sessions -> 0 .. SessionIdle + 1]
    /\ verified \in [Sessions -> Passwords \cup {None}]
    /\ login \in [Logins -> LoginStates]
    /\ loginPw \in [Logins -> Passwords \cup {None}]
    /\ change \in [Changes -> ChangeStates]
    /\ changePw \in [Changes -> Passwords \cup {None}]
    /\ \A k \in Changes : change[k] \in {"checked", "stored"} => changePw[k] # None
    /\ retired \subseteq Passwords

\* bootstrapOperator has stored the first password; nobody is signed in.
Init ==
    /\ ThrottleInit
    /\ pw = FirstPassword /\ dPw = FirstPassword /\ chosen = {FirstPassword}
    /\ live = {} /\ drawn = {}
    /\ sAge = [s \in Sessions |-> 0] /\ sIdle = [s \in Sessions |-> 0]
    /\ verified = [s \in Sessions |-> None]
    /\ login = [l \in Logins |-> "idle"] /\ loginPw = [l \in Logins |-> None]
    /\ change = [k \in Changes |-> "idle"] /\ changePw = [k \in Changes |-> None]
    /\ retired = {}

-----------------------------------------------------------------------------
(* Sessions *)

\* Faulty: a session that is used never ends.
ExpiredWhenIdle(s) == sIdle[s] > SessionIdle

Expired(s) == sAge[s] > SessionTTL \/ sIdle[s] > SessionIdle

\* The sessions in S are deleted.
Delete(S) ==
    /\ live' = live \ S
    /\ sAge' = [s \in Sessions |-> IF s \in S THEN 0 ELSE sAge[s]]
    /\ sIdle' = [s \in Sessions |-> IF s \in S THEN 0 ELSE sIdle[s]]

Valid(s) == s \in live /\ ~Expired(s)

\* Lookup of a valid session: its idle timer starts again.
Touch(s) ==
    /\ Valid(s)
    /\ sIdle' = [sIdle EXCEPT ![s] = 0]

\* A request other than the ones below passes requireOperator.
UseSession(s) ==
    /\ Touch(s)
    /\ UNCHANGED <<throttleVars, live, drawn, sAge, verified, storeVars, loginVars, changeVars>>

\* Lookup of an expired session deletes it, and so does the reaper.
Reap(s) ==
    /\ s \in live
    /\ Expired(s)
    /\ Delete({s})
    /\ UNCHANGED <<throttleVars, drawn, verified, storeVars, loginVars, changeVars>>

\* handleLogout.
Logout(s) ==
    /\ Valid(s)
    /\ Delete({s})
    /\ UNCHANGED <<throttleVars, drawn, verified, storeVars, loginVars, changeVars>>

-----------------------------------------------------------------------------
(* handleLogin *)

LoginTo(l, state) == login' = [login EXCEPT ![l] = state]

BeginLogin(l) ==
    /\ login[l] = "idle"
    /\ \/ Allowed /\ LoginTo(l, "allowed")
       \/ Refused /\ UNCHANGED login
    /\ UNCHANGED <<sessionVars, storeVars, loginPw, changeVars>>

\* The body cannot be read.
AbandonLogin(l) ==
    /\ login[l] = "allowed"
    /\ LoginTo(l, "idle")
    /\ UNCHANGED <<throttleVars, sessionVars, storeVars, loginPw, changeVars>>

\* The operator's record is read and the presented password p checked against
\* that copy.  An unknown user is the same as a wrong password.
CheckPassword(l, p) ==
    /\ login[l] = "allowed"
    /\ LoginTo(l, IF p = pw THEN "right" ELSE "wrong")
    /\ loginPw' = [loginPw EXCEPT ![l] = IF p = pw THEN p ELSE None]
    /\ UNCHANGED <<throttleVars, sessionVars, storeVars, changeVars>>

RecordFailure(l) ==
    /\ login[l] = "wrong"
    /\ Fail
    /\ LoginTo(l, "idle")
    /\ UNCHANGED <<sessionVars, storeVars, loginPw, changeVars>>

RecordSuccess(l) ==
    /\ login[l] = "right"
    /\ Succeed
    /\ LoginTo(l, "cleared")
    /\ UNCHANGED <<sessionVars, storeVars, loginPw, changeVars>>

\* The session is created; MarkLogin then writes the state out, or fails to.
CreateSession(l) ==
    /\ login[l] = "cleared"
    /\ \E s \in Sessions \ drawn :
         /\ drawn' = drawn \cup {s}
         /\ live' = live \cup {s}
         /\ sAge' = [sAge EXCEPT ![s] = 0]
         /\ sIdle' = [sIdle EXCEPT ![s] = 0]
         /\ verified' = [verified EXCEPT ![s] = loginPw[l]]
    /\ dPw' \in {dPw, pw}
    /\ LoginTo(l, "idle")
    /\ loginPw' = [loginPw EXCEPT ![l] = None]
    /\ UNCHANGED <<throttleVars, pw, chosen, changeVars>>

-----------------------------------------------------------------------------
(* handleChangePassword *)

ChangeTo(k, state) == change' = [change EXCEPT ![k] = state]

BeginChange(k, s) ==
    /\ change[k] = "idle"
    /\ Touch(s)
    /\ ChangeTo(k, "open")
    /\ UNCHANGED <<throttleVars, live, drawn, sAge, verified, storeVars, loginVars,
                   changePw, retired>>

\* The record is read, and the presented current password checked against it;
\* an unreadable body ends the same way as a wrong password.
CheckCurrent(k, p) ==
    /\ change[k] = "open"
    /\ ChangeTo(k, IF p = pw THEN "checked" ELSE "idle")
    /\ changePw' = [changePw EXCEPT ![k] = IF p = pw THEN p ELSE None]
    /\ UNCHANGED <<throttleVars, sessionVars, storeVars, loginVars, retired>>

\* The new password is refused (too short, too predictable).
RejectNew(k) ==
    /\ change[k] = "checked"
    /\ ChangeTo(k, "idle")
    /\ changePw' = [changePw EXCEPT ![k] = None]
    /\ UNCHANGED <<throttleVars, sessionVars, storeVars, loginVars, retired>>

\* Faulty: the record is changed in memory and written out some time later.
PutOperatorLater(k, p) ==
    /\ change[k] = "checked"
    /\ p \notin chosen
    /\ chosen' = chosen \cup {p}
    /\ pw' = p
    /\ ChangeTo(k, "stored")
    /\ UNCHANGED <<dPw, changePw, throttleVars, sessionVars, loginVars, retired>>

\* PutOperator of the changed copy.  If writing it out fails the handler ends
\* there, with the new password in force but the sessions left alone.
PutOperator(k, p) ==
    /\ change[k] = "checked"
    /\ p \notin chosen
    /\ chosen' = chosen \cup {p}
    /\ pw' = p
    /\ \/ dPw' = p /\ ChangeTo(k, "stored") /\ UNCHANGED changePw
       \/ UNCHANGED dPw /\ ChangeTo(k, "idle") /\ changePw' = [changePw EXCEPT ![k] = None]
    /\ UNCHANGED <<throttleVars, sessionVars, loginVars, retired>>

\* DestroyUser, and the answer.
DestroyUser(k) ==
    /\ change[k] = "stored"
    /\ Delete(Sessions)
    /\ ChangeTo(k, "idle")
    /\ changePw' = [changePw EXCEPT ![k] = None]
    /\ retired' = retired \cup {changePw[k]}
    /\ UNCHANGED <<throttleVars, drawn, verified, storeVars, loginVars>>

-----------------------------------------------------------------------------
\* Any other mutator of the store writes the whole state out.
OtherWrite ==
    /\ dPw' = pw
    /\ UNCHANGED <<throttleVars, sessionVars, pw, chosen, loginVars, changeVars>>

Tick ==
    /\ ThrottleTick
    /\ sAge' = [s \in Sessions |-> IF s \in live /\ sAge[s] <= SessionTTL
                                   THEN sAge[s] + 1 ELSE sAge[s]]
    /\ sIdle' = [s \in Sessions |-> IF s \in live /\ sIdle[s] <= SessionIdle
                                    THEN sIdle[s] + 1 ELSE sIdle[s]]
    /\ UNCHANGED <<live, drawn, verified, storeVars, loginVars, changeVars>>

\* The hub goes down and comes back: sessions, throttle and requests are gone.
Restart ==
    /\ NoRecord
    /\ pw' = dPw
    /\ Delete(Sessions)
    /\ login' = [l \in Logins |-> "idle"] /\ loginPw' = [l \in Logins |-> None]
    /\ change' = [k \in Changes |-> "idle"] /\ changePw' = [k \in Changes |-> None]
    /\ UNCHANGED <<dPw, chosen, drawn, verified, retired>>

LoginStep(l) ==
    \/ BeginLogin(l) \/ AbandonLogin(l)
    \/ \E p \in Passwords : CheckPassword(l, p)
    \/ RecordFailure(l) \/ RecordSuccess(l) \/ CreateSession(l)

ChangeStep(k) ==
    \/ \E s \in Sessions : BeginChange(k, s)
    \/ \E p \in Passwords : CheckCurrent(k, p)
    \/ RejectNew(k)
    \/ \E p \in Passwords : PutOperator(k, p)
    \/ DestroyUser(k)

Next ==
    \/ \E l \in Logins : LoginStep(l)
    \/ \E k \in Changes : ChangeStep(k)
    \/ \E s \in Sessions : UseSession(s) \/ Reap(s) \/ Logout(s)
    \/ OtherWrite
    \/ Tick
    \/ Restart

Spec == Init /\ [][Next]_vars

\* Time passes, and the reaper comes by.
FairSpec == Spec /\ WF_vars(Tick) /\ \A s \in Sessions : WF_vars(Reap(s))

-----------------------------------------------------------------------------
(* Properties *)

\* Passwords are guessed at most maxFailedLogins times before the lockout, plus
\* the attempts that were under way when it began: the throttle is asked before
\* the password is checked and told of the failure afterwards.
GuessesBounded == count < MaxFailed + Cardinality(Logins)

\* A password whose change was acknowledged is never accepted again, in memory
\* or after a restart, whatever writes failed and whichever changes overlapped.
RetiredStaysRetired == pw \notin retired /\ dPw \notin retired

\* A session ends for good, however much it is used.
SessionsEnd == \A s \in Sessions : s \in live ~> s \notin live

\* A lockout ends, although attempts that were under way may prolong it.
LockoutEnds == lock > 0 ~> lock = 0

\* "Changing a password invalidates every session for that user": once a change
\* has finished no session of the old password is alive.
OldSessionsDie == \A s \in live : verified[s] \notin retired

-----------------------------------------------------------------------------
(* Why the invariants hold: the parts of an inductive invariant *)

\* Logins that may yet report a failure.
Guessing == {l \in Logins : login[l] \in {"allowed", "wrong"}}

\* A record at the limit is locked until it is too old to count.
LockCovers == count >= MaxFailed => since > Window \/ lock + since >= Lockout

\* Failures recorded and failures to come stay within the bound.
GuessesLeft == count + Cardinality(Guessing) < MaxFailed + Cardinality(Logins)

\* Every password in use or given up was chosen before, so a new one differs.
AllChosen ==
    /\ {pw, dPw} \cup retired \subseteq chosen
    /\ \A k \in Changes : change[k] \in {"checked", "stored"} => changePw[k] \in chosen

\* A change that was stored has replaced the password it found.
Replaced == \A k \in Changes : change[k] = "stored" => changePw[k] \notin {pw, dPw}

=============================================================================
