CONSTANTS
    a = a
    b = b
    c = c
    torn = torn
    Client <- MCClient
    Name <- MCName
    Endpoint <- MCEndpoint
    Torn = torn
    Saves = {b}
    Calls <- MCCalls
    NoName = NoName
    NoToken = NoToken
    Garbage = Garbage
    TokenLife = 0
    CsvHasHeader = TRUE
    SaveMayFail = FALSE
    Unparsable = {}
    Trim <- MCTrim
    TokenMayFail = FALSE
    MaxRows = 3
    MaxTime = 0
    MaxRestarts = 1
    MaxInFlight = 1
    MaxConsents = 1
    MaxTold = 2
    MaxLines <- MCLines
    MaxRequests = 1
    MaxFaults = 1
    Commands <- MCCommands
SPECIFICATION SystemSpec
INVARIANTS
    SystemTypeOK
    PunchesForWantedCall
    AnsweredOnce
CHECK_DEADLOCK FALSE
SYMMETRY OthersSymmetry
