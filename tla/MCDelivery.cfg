SPECIFICATION FairDelivery
CONSTANTS
    Users = {ann, bea}
    Bouncing = {bea}
    Rules = {soft_budget}
    Stages = {50, 100}
    MonthLength = 2
    FirstDay = 1
    MaxDay = 3
    MaxAudits = 1
    MaxFaults = 1
    None = None
INVARIANTS
    ToldOnce
PROPERTIES
    StageIsTold
CHECK_DEADLOCK FALSE
