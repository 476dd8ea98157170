SPECIFICATION FairSpec
CONSTANTS
    Records = {r1, r2}
    MaxInits = 2
    BatchSize = 1
    MaxQueue = 1
    BadAnswers = TRUE
INVARIANTS
    NothingVanishes
    CountersAreHonest
PROPERTIES
    QueuedIsSent
CHECK_DEADLOCK FALSE
