SPECIFICATION FairSpec
CONSTANTS
    Client = {c1, c2}
    Ip = {ip1, ip2}
    Mark = {m1, m2, m3}
    NoIp = NoIp
    MaxAttempts = 2
    Window = 2
INVARIANTS
    TypeOK
    AttemptsBounded
PROPERTIES
    ThrottleLifts
