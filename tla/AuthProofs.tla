----------------------------- MODULE AuthProofs -----------------------------
(***************************************************************************)
(* Proofs about Auth, for any number of logins and password changes served *)
(* at the same time: the throttle bounds the guesses, and a password that  *)
(* was replaced never comes back.                                          *)
(***************************************************************************)
EXTENDS Auth, FiniteSetTheorems, TLAPS

-----------------------------------------------------------------------------
(* Types *)

\* No requests, no sessions, no failures.
LEMMA TypeInit == Init => TypeOK
BY PasswordAssumption, WindowAssumption, LockoutAssumption, SessionAssumption
   DEF Init, TypeOK, ThrottleInit, ThrottleTypeOK, LoginStates, ChangeStates

\* The throttle's own operations keep its types.
LEMMA ThrottleTypes ==
    ASSUME ThrottleTypeOK,
           Allowed \/ Refused \/ Fail \/ NoRecord \/ ThrottleTick \/ UNCHANGED throttleVars
    PROVE  ThrottleTypeOK'
BY WindowAssumption, LockoutAssumption, MaxFailedAssumption
   DEF ThrottleTypeOK, Allowed, Refused, Fail, NoRecord, ThrottleTick, throttleVars

\* Every handler keeps the types.
LEMMA TypeStep == TypeOK /\ [Next]_vars => TypeOK'
<1> SUFFICES ASSUME TypeOK, [Next]_vars PROVE TypeOK'
  OBVIOUS
<1>0. ThrottleTypeOK'
  BY ThrottleTypes DEF TypeOK, Next, LoginStep, ChangeStep, vars, BeginLogin, AbandonLogin,
     CheckPassword, RecordFailure, RecordSuccess, Succeed, CreateSession, BeginChange,
     CheckCurrent, RejectNew, PutOperator, DestroyUser, UseSession, Reap, Logout, OtherWrite,
     Tick, Restart
<1> USE <1>0, SessionAssumption, PasswordAssumption DEF TypeOK
<1>1. ASSUME NEW l \in Logins, LoginStep(l) PROVE TypeOK'
  <2> USE DEF LoginTo, LoginStates, sessionVars, storeVars, changeVars
  <2>1. CASE BeginLogin(l) BY <2>1 DEF BeginLogin
  <2>2. CASE AbandonLogin(l) BY <2>2 DEF AbandonLogin
  <2>3. ASSUME NEW p \in Passwords, CheckPassword(l, p) PROVE TypeOK'
    BY <2>3 DEF CheckPassword
  <2>4. CASE RecordFailure(l) BY <2>4 DEF RecordFailure
  <2>5. CASE RecordSuccess(l) BY <2>5 DEF RecordSuccess
  <2>6. CASE CreateSession(l) BY <2>6 DEF CreateSession
  <2> QED BY <1>1, <2>1, <2>2, <2>3, <2>4, <2>5, <2>6 DEF LoginStep
<1>2. ASSUME NEW k \in Changes, ChangeStep(k) PROVE TypeOK'
  <2> USE DEF ChangeTo, ChangeStates, sessionVars, storeVars, loginVars
  <2>1. ASSUME NEW s \in Sessions, BeginChange(k, s) PROVE TypeOK'
    BY <2>1 DEF BeginChange, Touch
  <2>2. ASSUME NEW p \in Passwords, CheckCurrent(k, p) PROVE TypeOK'
    BY <2>2 DEF CheckCurrent
  <2>3. CASE RejectNew(k) BY <2>3 DEF RejectNew
  <2>4. ASSUME NEW p \in Passwords, PutOperator(k, p) PROVE TypeOK'
    BY <2>4 DEF PutOperator
  <2>5. CASE DestroyUser(k)
    <3>1. retired' \subseteq Passwords BY <2>5 DEF DestroyUser
    <3> QED BY <2>5, <3>1 DEF DestroyUser, Delete
  <2> QED BY <1>2, <2>1, <2>2, <2>3, <2>4, <2>5 DEF ChangeStep
<1>3. ASSUME NEW s \in Sessions, UseSession(s) \/ Reap(s) \/ Logout(s) PROVE TypeOK'
  BY <1>3 DEF UseSession, Reap, Logout, Touch, Delete, storeVars, loginVars, changeVars
<1>4. CASE OtherWrite BY <1>4 DEF OtherWrite, sessionVars, loginVars, changeVars
<1>5. CASE Tick BY <1>5 DEF Tick, storeVars, loginVars, changeVars
<1>6. CASE Restart BY <1>6 DEF Restart, Delete, LoginStates, ChangeStates
<1>7. CASE UNCHANGED vars
  BY <1>7 DEF vars, sessionVars, storeVars, loginVars, changeVars
<1> QED BY <1>1, <1>2, <1>3, <1>4, <1>5, <1>6, <1>7 DEF Next

\* Throttle, sessions and the requests being served keep their types.
THEOREM TypeCorrect == Spec => []TypeOK
BY TypeInit, TypeStep, PTL DEF Spec

-----------------------------------------------------------------------------
(* The throttle *)

ThrottleInv == LockCovers /\ GuessesLeft

\* There are finitely many logins, so finitely many that guess.
LEMMA GuessingFinite ==
    /\ IsFiniteSet(Guessing) /\ Cardinality(Guessing) \in Nat
    /\ Cardinality(Logins) \in Nat /\ Cardinality(Guessing) <= Cardinality(Logins)
<1>1. Guessing \in SUBSET Logins BY DEF Guessing
<1> QED BY <1>1, LoginsAssumption, FS_Subset, FS_CardinalityType

\* The same in the next state.
LEMMA GuessingFiniteNext ==
    /\ IsFiniteSet(Guessing') /\ Cardinality(Guessing') \in Nat
    /\ Cardinality(Logins) \in Nat /\ Cardinality(Guessing') <= Cardinality(Logins)
<1>1. Guessing' \in SUBSET Logins BY DEF Guessing
<1> QED BY <1>1, LoginsAssumption, FS_Subset, FS_CardinalityType

\* A login that stops guessing makes room for one failure more.
LEMMA OneLessGuessing ==
    ASSUME TypeOK, NEW l \in Guessing, NEW state \in LoginStates \ {"allowed", "wrong"},
           LoginTo(l, state)
    PROVE  Cardinality(Guessing') = Cardinality(Guessing) - 1
<1>1. Guessing' = Guessing \ {l} BY DEF Guessing, LoginTo, TypeOK
<1> QED BY <1>1, GuessingFinite, FS_RemoveElement

\* Fewer or as many logins guessing, and no more failures: the bound stays.
LEMMA FewerGuesses ==
    ASSUME TypeOK, ThrottleInv, Guessing' \subseteq Guessing,
           UNCHANGED throttleVars \/ NoRecord \/ ThrottleTick
    PROVE  ThrottleInv'
<1>1. Cardinality(Guessing') <= Cardinality(Guessing) /\ Cardinality(Guessing') \in Nat
  BY GuessingFinite, FS_Subset, FS_CardinalityType
<1>2. count' <= count /\ count' \in Nat
  BY DEF throttleVars, NoRecord, ThrottleTick, TypeOK, ThrottleTypeOK
<1>3. GuessesLeft'
  BY <1>1, <1>2, GuessingFinite, MaxFailedAssumption
     DEF ThrottleInv, GuessesLeft, TypeOK, ThrottleTypeOK
<1>4. LockCovers'
  BY MaxFailedAssumption, WindowAssumption, LockoutAssumption
     DEF ThrottleInv, LockCovers, throttleVars, NoRecord, ThrottleTick, TypeOK, ThrottleTypeOK
<1> QED BY <1>3, <1>4 DEF ThrottleInv

\* Nobody is guessing at the start.
LEMMA ThrottleInvInit == Init => ThrottleInv
<1> SUFFICES ASSUME Init PROVE ThrottleInv
  OBVIOUS
<1>1. Guessing = {} BY DEF Init, Guessing
<1>2. Cardinality(Guessing) = 0 BY <1>1, FS_EmptySet
<1> QED BY <1>2, GuessingFinite, MaxFailedAssumption
        DEF Init, ThrottleInit, ThrottleInv, LockCovers, GuessesLeft

\* An attempt is let through only below the limit, since a record at the limit
\* is locked for longer than it counts.
LEMMA ThrottleStep == TypeOK /\ ThrottleInv /\ [Next]_vars => ThrottleInv'
<1> SUFFICES ASSUME TypeOK, ThrottleInv, [Next]_vars PROVE ThrottleInv'
  OBVIOUS
<1>1. ASSUME UNCHANGED login, UNCHANGED throttleVars \/ ThrottleTick PROVE ThrottleInv'
  <2>1. Guessing' = Guessing BY <1>1 DEF Guessing
  <2> QED BY <1>1, <2>1, FewerGuesses
<1>2. ASSUME NEW l \in Logins, LoginStep(l) PROVE ThrottleInv'
  <2>1. CASE BeginLogin(l) /\ Allowed
    <3>1. count' \in Nat /\ count' < MaxFailed
      BY <2>1, MaxFailedAssumption, WindowAssumption, LockoutAssumption
         DEF Allowed, NoRecord, throttleVars, ThrottleInv, LockCovers, TypeOK, ThrottleTypeOK
    <3> QED BY <3>1, GuessingFiniteNext, MaxFailedAssumption
            DEF ThrottleInv, LockCovers, GuessesLeft
  <2>2. CASE BeginLogin(l) /\ Refused /\ UNCHANGED login
    BY <1>1, <2>2 DEF Refused
  <2>3. CASE AbandonLogin(l) \/ RecordSuccess(l) \/ CreateSession(l)
    <3>1. Guessing' \subseteq Guessing
      BY <2>3 DEF AbandonLogin, RecordSuccess, CreateSession, LoginTo, Guessing, TypeOK
    <3>2. UNCHANGED throttleVars \/ NoRecord
      BY <2>3 DEF AbandonLogin, RecordSuccess, CreateSession, Succeed
    <3> QED BY <3>1, <3>2, FewerGuesses
  <2>4. ASSUME NEW p \in Passwords, CheckPassword(l, p) PROVE ThrottleInv'
    <3>1. Guessing' \subseteq Guessing BY <2>4 DEF CheckPassword, LoginTo, Guessing, TypeOK
    <3> QED BY <2>4, <3>1, FewerGuesses DEF CheckPassword
  <2>5. CASE RecordFailure(l)
    <3>1. Cardinality(Guessing') = Cardinality(Guessing) - 1
      BY <2>5, OneLessGuessing DEF RecordFailure, Guessing, LoginStates
    <3>2. count' \in {1, count + 1}
      BY <2>5 DEF RecordFailure, Fail
    <3>3. GuessesLeft'
      BY <3>1, <3>2, GuessingFinite, GuessingFiniteNext, MaxFailedAssumption
         DEF ThrottleInv, GuessesLeft, TypeOK, ThrottleTypeOK
    <3>4. LockCovers'
      BY <2>5, MaxFailedAssumption, WindowAssumption, LockoutAssumption
         DEF RecordFailure, Fail, ThrottleInv, LockCovers, TypeOK, ThrottleTypeOK
    <3> QED BY <3>3, <3>4 DEF ThrottleInv
  <2> QED BY <1>2, <2>1, <2>2, <2>3, <2>4, <2>5 DEF LoginStep, BeginLogin
<1>3. CASE Restart
  <2>1. Guessing' \subseteq Guessing BY <1>3 DEF Restart, Guessing
  <2> QED BY <1>3, <2>1, FewerGuesses DEF Restart
<1>4. CASE UNCHANGED vars
  BY <1>1, <1>4 DEF vars, loginVars
<1>5. ASSUME NEW k \in Changes, ChangeStep(k) PROVE ThrottleInv'
  <2>1. UNCHANGED <<throttleVars, login>>
    BY <1>5 DEF ChangeStep, BeginChange, CheckCurrent, RejectNew, PutOperator, DestroyUser, loginVars
  <2> QED BY <1>1, <2>1
<1>6. ASSUME NEW s \in Sessions, UseSession(s) \/ Reap(s) \/ Logout(s) PROVE ThrottleInv'
  BY <1>1, <1>6 DEF UseSession, Reap, Logout, loginVars
<1>7. CASE OtherWrite \/ Tick
  BY <1>1, <1>7 DEF OtherWrite, Tick, loginVars
<1> QED BY <1>2, <1>3, <1>4, <1>5, <1>6, <1>7 DEF Next

\* However many logins are served at the same time, fewer than maxFailedLogins
\* plus their number fail before the record is forgotten.
THEOREM ThrottleBoundsGuesses == Spec => []GuessesBounded
<1>1. Init => TypeOK /\ ThrottleInv BY TypeInit, ThrottleInvInit
<1>2. TypeOK /\ ThrottleInv /\ [Next]_vars => (TypeOK /\ ThrottleInv)'
  BY TypeStep, ThrottleStep
<1>3. TypeOK /\ ThrottleInv => GuessesBounded
  BY GuessingFinite, MaxFailedAssumption
     DEF ThrottleInv, GuessesLeft, GuessesBounded, TypeOK, ThrottleTypeOK
<1> QED BY <1>1, <1>2, <1>3, PTL DEF Spec

-----------------------------------------------------------------------------
(* Passwords *)

PasswordInv == AllChosen /\ Replaced /\ RetiredStaysRetired

\* One password has been chosen and none replaced.
LEMMA PasswordInit == Init => PasswordInv
BY DEF Init, PasswordInv, AllChosen, Replaced, RetiredStaysRetired

\* Only PutOperator brings a password that was not in memory or in the file,
\* and that one is new.
LEMMA PasswordStep == TypeOK /\ PasswordInv /\ [Next]_vars => PasswordInv'
<1> SUFFICES ASSUME TypeOK, PasswordInv, [Next]_vars PROVE PasswordInv'
  OBVIOUS
<1> USE DEF PasswordInv, AllChosen, Replaced, RetiredStaysRetired, TypeOK
<1>1. ASSUME UNCHANGED <<pw, chosen, change, changePw, retired>>, dPw' \in {dPw, pw}
      PROVE  PasswordInv'
  BY <1>1
<1>2. ASSUME NEW l \in Logins, LoginStep(l) PROVE PasswordInv'
  BY <1>1, <1>2 DEF LoginStep, BeginLogin, AbandonLogin, CheckPassword, RecordFailure,
     RecordSuccess, CreateSession, storeVars, changeVars
<1>3. ASSUME NEW k \in Changes, ChangeStep(k) PROVE PasswordInv'
  <2>1. CASE \E s \in Sessions : BeginChange(k, s)
    BY <2>1 DEF BeginChange, ChangeTo, ChangeStates, storeVars
  <2>2. ASSUME NEW p \in Passwords, CheckCurrent(k, p) PROVE PasswordInv'
    BY <2>2 DEF CheckCurrent, ChangeTo, ChangeStates, storeVars
  <2>3. CASE RejectNew(k)
    BY <2>3 DEF RejectNew, ChangeTo, ChangeStates, storeVars
  <2>4. ASSUME NEW p \in Passwords, PutOperator(k, p) PROVE PasswordInv'
    <3>1. /\ p \notin chosen /\ chosen' = chosen \cup {p} /\ pw' = p /\ retired' = retired
          /\ dPw' \in {dPw, p}
      BY <2>4 DEF PutOperator
    <3>2. \A j \in Changes \ {k} : change'[j] = change[j] /\ changePw'[j] = changePw[j]
      BY <2>4 DEF PutOperator, ChangeTo
    <3>3. change'[k] = "stored" => changePw'[k] = changePw[k] /\ dPw' = p
      BY <2>4 DEF PutOperator, ChangeTo
    <3>4. change[k] = "checked" /\ change'[k] \in {"stored", "idle"}
      BY <2>4 DEF PutOperator, ChangeTo
    <3>5. AllChosen' BY <3>1, <3>2, <3>3, <3>4
    <3>6. Replaced' BY <3>1, <3>2, <3>3, <3>4
    <3>7. RetiredStaysRetired' BY <3>1
    <3> QED BY <3>5, <3>6, <3>7
  <2>5. CASE DestroyUser(k)
    BY <2>5 DEF DestroyUser, ChangeTo, ChangeStates, storeVars
  <2> QED BY <1>3, <2>1, <2>2, <2>3, <2>4, <2>5 DEF ChangeStep
<1>4. ASSUME NEW s \in Sessions, UseSession(s) \/ Reap(s) \/ Logout(s) PROVE PasswordInv'
  BY <1>1, <1>4 DEF UseSession, Reap, Logout, storeVars, changeVars
<1>5. CASE OtherWrite \/ Tick BY <1>1, <1>5 DEF OtherWrite, Tick, storeVars, changeVars
<1>6. CASE Restart BY <1>6 DEF Restart
<1>7. CASE UNCHANGED vars BY <1>1, <1>7 DEF vars, storeVars, changeVars
<1> QED BY <1>2, <1>3, <1>4, <1>5, <1>6, <1>7 DEF Next

\* A replaced password is accepted neither by the running hub nor after it has
\* come back, whichever changes overlap and whichever writes fail.
THEOREM ReplacedPasswordsStayReplaced == Spec => []RetiredStaysRetired
<1>1. Init => TypeOK /\ PasswordInv BY TypeInit, PasswordInit
<1>2. TypeOK /\ PasswordInv /\ [Next]_vars => (TypeOK /\ PasswordInv)'
  BY TypeStep, PasswordStep
<1>3. TypeOK /\ PasswordInv => RetiredStaysRetired BY DEF PasswordInv
<1> QED BY <1>1, <1>2, <1>3, PTL DEF Spec

=============================================================================
