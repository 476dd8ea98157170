SPECIFICATION Spec
CONSTANTS
    Requests = {r1, r2}
    MaxTime = 2
    LinkTTL = 1
    MaxLinks = 1
    MaxCodes = 1
    MaxCreds = 3
    Cap = 1
    Capped = {"app"}
    None = None
SYMMETRY Symmetry
INVARIANTS
    MeterOnce
    CodesWorkOnce
    RevokedStaysOut
CHECK_DEADLOCK FALSE
