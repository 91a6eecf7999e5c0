--------------------------- MODULE LoginThrottle ---------------------------
(***************************************************************************)
(* LoginThrottle (internal/hub/session.go) for one source address: the     *)
(* records of different addresses never meet.  Time is in ticks, kept as   *)
(* the age of rec.first and as what is left until rec.until.               *)
(***************************************************************************)
EXTENDS Naturals, FiniteSets

CONSTANTS
    MaxFailed,  \* maxFailedLogins
    Window,     \* throttleWindow
    Lockout     \* lockoutPeriod

ASSUME MaxFailedAssumption == MaxFailed \in Nat /\ MaxFailed > 1
ASSUME WindowAssumption    == Window \in Nat
ASSUME LockoutAssumption   == Lockout \in Nat /\ Lockout > Window

VARIABLES
    count,  \* rec.count; 0 when there is no record
    since,  \* age of rec.first; Window + 1 stands for any older one
    lock    \* ticks until rec.until

throttleVars == <<count, since, lock>>

ThrottleTypeOK ==
    /\ count \in Nat
    /\ since \in 0 .. Window + 1
    /\ lock \in 0 .. Lockout

ThrottleInit == count = 0 /\ since = 0 /\ lock = 0

NoRecord == count' = 0 /\ since' = 0 /\ lock' = 0

\* Faulty: the lockout is not looked at.
AllowedAlways ==
    IF since > Window THEN NoRecord ELSE UNCHANGED throttleVars

\* Allowed, when it lets the attempt through: an old record is forgotten.
Allowed ==
    /\ lock = 0
    /\ IF since > Window THEN NoRecord ELSE UNCHANGED throttleVars

\* Faulty: being refused prolongs the lockout.
RefusedProlongs == lock > 0 /\ lock' = Lockout /\ UNCHANGED <<count, since>>

\* Allowed, when it does not.
Refused == lock > 0 /\ UNCHANGED throttleVars

\* Faulty: lockouts add up.
FailAddsUp ==
    IF count = 0 \/ since > Window
    THEN count' = 1 /\ since' = 0 /\ lock' = 0
    ELSE /\ count' = count + 1
         /\ lock' = IF count' >= MaxFailed THEN lock + Lockout ELSE lock
         /\ since' = since

Fail ==
    IF count = 0 \/ since > Window
    THEN count' = 1 /\ since' = 0 /\ lock' = 0
    ELSE /\ count' = count + 1
         /\ lock' = IF count' >= MaxFailed THEN Lockout ELSE lock
         /\ since' = since

Succeed == NoRecord

\* Time passes.  A record ages as long as there is one.
ThrottleTick ==
    /\ since' = IF count > 0 /\ since <= Window THEN since + 1 ELSE since
    /\ lock' = IF lock > 0 THEN lock - 1 ELSE 0
    /\ UNCHANGED count

=============================================================================
