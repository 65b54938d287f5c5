SPECIFICATION Spec
CONSTANTS
    Id = {w1, w2}
    Meta = {m1, m2}
    Secret = {s1, s2}
    Request = {r1, r2}
    Blank = Blank
SYMMETRY WorkersSymmetry
INVARIANTS
    TypeOK
    PasswordIsLastGiven
    CallsUseOneRow
PROPERTIES
    StaleCallsRunOut
    ImplementsRegistry
