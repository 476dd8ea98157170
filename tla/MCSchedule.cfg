SPECIFICATION FairSpec
CONSTANTS
    Sources = {s1, s2}
    Standing = {s2}
    Broken = {s2}
    Tick = Tick
    NoSource = NoSource
    DayLength = 1
    AuditEvery = 1
    Backfill = 2
    MaxClock = 2
    MaxMishaps = 1
INVARIANTS
    EveryDayIsFinal
PROPERTIES
    RevokedIsForever
    FirstAuditSettles
CHECK_DEADLOCK FALSE
