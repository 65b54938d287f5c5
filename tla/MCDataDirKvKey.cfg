SPECIFICATION Spec
CONSTANTS
    Worker = {w1, w2}
    MaxCrashes = 3
    Absent = Absent
    Torn = Torn
PROPERTIES
    KvKeyEncrypts
