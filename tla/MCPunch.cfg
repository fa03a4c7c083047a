SPECIFICATION Spec
CONSTANTS
    a = a
    b = b
    c = c
    Client = {a, b, c}
    None = None
    Restricted = {a}
    Calls <- TwoCallees
    Unreliable = TRUE
    Leavers = {a, b, c}
    MaxPunches = 2
SYMMETRY Symmetry
INVARIANTS
    TypeOK
    RoleFollowsCall
    LinkMutual
    OnePortOwner
CHECK_DEADLOCK FALSE
