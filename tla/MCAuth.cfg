SPECIFICATION FairSpec
CONSTANTS
    MaxFailed = 2
    Window = 1
    Lockout = 2
    Logins = {l1, l2}
    Changes = {k1, k2}
    Sessions = {s1}
    Passwords = {p1, p2, p3}
    SessionTTL = 1
    SessionIdle = 1
    FirstPassword = p1
    None = None
INVARIANTS
    TypeOK
    GuessesBounded
    RetiredStaysRetired
PROPERTIES
    SessionsEnd
    LockoutEnds
