SPECIFICATION FairSpec
CONSTANTS
    Users = {alice, bob}
    Uploads = {up1}
    Ingests = {in1}
    Connects = {co1}
    Keys = {key1}
    NoKey = NoKey
    None = None
    MaxCredits = 2
    MaxCrashes = 1
INVARIANTS
    PaidExactlyOnce
    RefusedOnlyWhenSpent
    OneAuditPerKey
PROPERTIES
    BuysAtomically
    EveryRequestEnds
CHECK_DEADLOCK FALSE
