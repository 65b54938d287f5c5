SPECIFICATION FairSpec
CONSTANTS
    MaxLog = 2
    Login = Login
    Window = 1
    Named = {1}
INVARIANTS
    TypeOK
    EventNotLost
PROPERTIES
    BackOnlyByOvertaking
    OnlyUserToggles
    CatchesUp
    BarSettles
