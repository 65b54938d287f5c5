SPECIFICATION Spec
CONSTANTS
    Tab = {t1}
    Post = {p1, p2}
    Text = {a, b}
    Empty = Empty
    None = None
PROPERTIES
    FailedSendKeepsText
