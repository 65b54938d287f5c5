SPECIFICATION Spec
CONSTANTS
    Request = {r1, r2}
    Username = {n1, n2}
    Token = {t1}
    Invite = {i1}
    Ip = {ip1}
    Mark = {m1, m2}
    None = None
    MaxAttempts = 1
    Window = 1
    Unreadable = {i1}
    DbMayFail = FALSE
INVARIANTS
    OneAccountFromSetup
