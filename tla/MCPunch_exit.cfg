SPECIFICATION Spec
CONSTANTS
    a = a
    b = b
    c = c
    Client = {a, b}
    None = None
    Restricted = {a, b}
    Calls <- OneCall
    Unreliable = FALSE
    Leavers = {a, b}
    MaxPunches = 10
INVARIANT
    MenuListens
CHECK_DEADLOCK FALSE
