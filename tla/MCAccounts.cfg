SPECIFICATION Spec
CONSTANTS
    Request = {r1, r2}
    Username = {n1, n2}
    Token = {t1, t2}
    Invite = {i1, i2}
    Ip = {ip1}
    Mark = {m1, m2}
    None = None
    MaxAttempts = 1
    Window = 1
    Unreadable = {i2}
    DbMayFail = TRUE
SYMMETRY AccountSymmetry
INVARIANTS
    TypeOK
    AdminsBounded
    ClaimsBounded
    SomeAdmin
    CheckedRowsRemain
    MembersWereInvited
    UsedInvitesGaveAccounts
PROPERTIES
    ClaimsClose
    SessionsClose
    LimiterProtocol
