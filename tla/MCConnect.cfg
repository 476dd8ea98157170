SPECIFICATION Spec
CONSTANTS
    Owners = {u1}
    Keys = {k1, k2}
    Forms = {f1, f2, f3}
    Sources = {s1, s2, s3, s4}
    Legacy = {s1}
    FreeLimit = 1
    ProLimit = 1
    TeamLimit = 3
    MaxChanges = 1
    Nobody = Nobody
    NoKey = NoKey
SYMMETRY Symmetric
INVARIANTS
    OneSourcePerKey
PROPERTIES
    WithinLimit
CHECK_DEADLOCK FALSE
