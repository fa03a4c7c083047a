SPECIFICATION Spec
CONSTANTS
    alice = alice
    carol = carol
    Name = {alice, bob}
    Endpoint = {e1, e2}
    NoToken = NoToken
    Garbage = Garbage
    TokenLife = 0
    CsvHasHeader = FALSE
    SaveMayFail = FALSE
    Unparsable = {}
    Trim <- NamesKept
    TokenMayFail = FALSE
    MaxRows = 2
    MaxTime = 0
    MaxRestarts = 1
    MaxInFlight = 1
    MaxConsents = 1
    MaxTold = 1
SYMMETRY EndpointSymmetry
INVARIANT BothTold
