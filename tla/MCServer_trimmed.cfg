SPECIFICATION Spec
CONSTANTS
    alice = alice
    carol = carol
    Name = {alice, carol}
    Endpoint = {e1, e2}
    NoToken = NoToken
    Garbage = Garbage
    TokenLife = 0
    CsvHasHeader = TRUE
    SaveMayFail = FALSE
    Unparsable = {}
    Trim <- CarolTrimmed
    TokenMayFail = FALSE
    MaxRows = 2
    MaxTime = 0
    MaxRestarts = 1
    MaxInFlight = 1
    MaxConsents = 1
    MaxTold = 1
SYMMETRY EndpointSymmetry
INVARIANT AddressOfThatUser
