SPECIFICATION AuditSpec
CONSTANTS
    Models <- Ids
    FamilyOf <- Family
    BaseRows <- BaseCard
    Feed <- FeedRates
    MaxRate = 100
    Backdate = 2
    Window = 2
    Timetable <- Day
    FirstDay = 4
    LastDay = 5
    MaxMoves = 3
    MaxUsage = 1
    MaxFailures = 1
    NoRate = None
    NoValue = None
    SampleSize = 5
    MaxSize = 1
    MaxCount = 1000
    DayLength = 20
    Downgrade <- Downgrades
    Frontier <- Frontiers
    ShortCompletion = 3
    MinRepeats = 3
    MinPrompt = 2
    HashSpan = 3
    TtlWindow = 4
    BloatMult = 2
    StormWindow = 2
    DupMin = 2
    MaxRatio = 4
    LoopMin = 3
    BatchSize = 2
    SmallCompletion = 3
    RunWindow = 8
    SessionGap = 8
    MinShare = 50
    MinWritten = 4
    MinDays = 5
    SpikeMult = 2
    Floor = 30
    Made <- CallsMade
    UsageLogs <- AllLogs
    Overlays <- Covers
    LogDays <- LogDates
    Pulls <- AllPulls
    NameOf <- Names
    QueryLimit = 3
    MaxPages = 5
    NoToken = NoToken
INVARIANTS
    ReadAlike
    PullsCountOnce
    ClaimsWithinRows
    NoiseHidesNothing
PROPERTIES
    HistoryIsFixed
    GlitchesAreHeld
    RunsDoTheirWork
CHECK_DEADLOCK FALSE
