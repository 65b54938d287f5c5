SPECIFICATION FairSpec
CONSTANTS
    Tab = {t1, t2}
    Post = {p1, p2}
    Text = {a}
    Empty = Empty
    None = None
INVARIANTS
    TypeOK
    StoredOnce
    SilentLossesNamed
PROPERTIES
    ErrorKeepsText
    Answered
