SPECIFICATION Spec
CONSTANTS
    Users = {u1}
    MaxPurchases = 2
    Offers <- Pairs
    Owners = {u1}
    CohortSize = 1
    MaxByHand = 1
    MaxTries = 2
    None = None
INVARIANTS
    PlanWasBought
PROPERTIES
    CreditsArePaidFor
    LaunchStaysClosed
    PaidIsCredited
CHECK_DEADLOCK FALSE
