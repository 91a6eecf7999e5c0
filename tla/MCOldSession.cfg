SPECIFICATION Spec
CONSTANTS
    MaxFailed = 2
    Window = 1
    Lockout = 2
    Logins = {l1}
    Changes = {k1}
    Sessions = {s1, s2}
    Passwords = {p1, p2}
    SessionTTL = 1
    SessionIdle = 1
    FirstPassword = p1
    None = None
INVARIANT OldSessionsDie
