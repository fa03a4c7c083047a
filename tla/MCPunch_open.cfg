SPECIFICATION FairSpec
CONSTANTS
    a = a
    b = b
    c = c
    Client = {a, b}
    None = None
    Restricted = {a, b}
    Calls <- OneCall
    Unreliable = FALSE
    Leavers = {}
    MaxPunches = 10
PROPERTY
    OpenPortsConnect
CHECK_DEADLOCK FALSE
