SPECIFICATION FairSpec
CONSTANTS
    m1 = m1
    m2 = m2
    Model <- MCModel
    Context <- MCContext
    Wanted = m1
    None = None
    Slot = {s1, s2}
    Window = 2
    MaxTotal = 1
INVARIANTS
    TypeOK
PROPERTIES
    
    ChipSettles
    PostedIsPicked
