SPECIFICATION FairSpec
CONSTANTS
    Worker = {w1, w2}
    MaxCrashes = 3
    Absent = Absent
    Torn = Torn
INVARIANTS
    TypeOK
    SecretsReadable
    SchemaComplete
    CommittedVisible
    PairMatches
PROPERTIES
    FirstRunOnly
    StartsUnlessTorn
