SPECIFICATION FairSpec
CONSTANTS
    Audits = {a1, a2}
    Cap = 1
    MaxRuns = 3
    MaxCrashes = 1
    NoAudit = NoAudit
INVARIANTS
    DoneIsConsistent
    PurgeIsTruthful
PROPERTIES
    EveryAuditSettles
CHECK_DEADLOCK FALSE
