SPECIFICATION Spec
CONSTANTS
    alice = alice
    carol = carol
    Name = {alice, bob, carol}
    Endpoint = {e1, e2}
    NoToken = NoToken
    Garbage = Garbage
    TokenLife = 0
    CsvHasHeader = TRUE
    SaveMayFail = FALSE
    Unparsable = {}
    Trim <- NamesKept
    TokenMayFail = TRUE
    MaxRows = 3
    MaxTime = 0
    MaxRestarts = 0
    MaxInFlight = 1
    MaxConsents = 1
    MaxTold = 2
SYMMETRY Symmetry
INVARIANT AddressGenuine
