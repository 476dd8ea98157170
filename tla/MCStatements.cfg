SPECIFICATION Spec
CONSTANTS
    Routes = {"d2", "d4"}
    ModelOf <- ModelNames
    Logs <- Seen
    Sources = {"upload"}
    MinVerifyDays = 7
    TopLimit = 2
    FindingsCap = 1
    LastMonth = 2
    MaxAudits = 2
    MaxVotes = 2
    MaxRunning = 2
    ShortHistory = 4
    Verdicts = {"applied", "dismissed"}
    Clicks = {"click"}
    Paid = FALSE
    OptedIn = TRUE
    None = None
INVARIANTS
    CreditIsEarned
    SurfacesAgree
PROPERTIES
    SentIsFinal
CHECK_DEADLOCK FALSE
