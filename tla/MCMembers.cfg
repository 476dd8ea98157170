SPECIFICATION MembersSpec
CONSTANTS
    Users = {o, a, b}
    o = o
    a = a
    b = b
    Billing <- Subscriptions
    Staff = {a}
    Founder = o
    MaxRequests = 4
    MaxInvites = 2
    Handed = {"viewer"}
    None = None
INVARIANTS
    ActsAsMember
PROPERTIES
    InvitesAreHonoured
CHECK_DEADLOCK FALSE
