SPECIFICATION FairSpec
CONSTANTS
    Subs = {s1, s2}
    MaxEvents = 3
    MaxCloses = 1
    MaxDeaths = 1
    NoEvent = NoEvent
    NoSub = NoSub
INVARIANTS
    ClockRuns
    MailedOnce
PROPERTIES
    LadderEnds
CHECK_DEADLOCK FALSE
