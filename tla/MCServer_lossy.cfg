SPECIFICATION Spec
CONSTANTS
    alice = alice
    carol = carol
    Name = {alice, bob}
    Endpoint = {e1, e2}
    NoToken = NoToken
    Garbage = Garbage
    TokenLife = 0
    CsvHasHeader = TRUE
    SaveMayFail = TRUE
    Unparsable = {bob}
    Trim <- NamesKept
    TokenMayFail = FALSE
    MaxRows = 2
    MaxTime = 1
    MaxRestarts = 1
    MaxInFlight = 1
    MaxConsents = 1
    MaxTold = 1
SYMMETRY EndpointSymmetry
PROPERTY ImplementsDirectory
INVARIANTS
    AddressGenuineUnlessDangling
