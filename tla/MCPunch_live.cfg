SPECIFICATION FairSpec
CONSTANTS
    a = a
    b = b
    c = c
    Client = {a, b}
    None = None
    Restricted = {a, b}
    Calls <- EachOther
    Unreliable = FALSE
    Leavers = {}
    MaxPunches = 2
INVARIANTS
    RoleFollowsCall
    LinkMutual
PROPERTIES
    CrossingConnects
    PunchingStops
CHECK_DEADLOCK FALSE
