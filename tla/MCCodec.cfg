SPECIFICATION Spec
CONSTANTS
    Text <- MCText
    Token <- MCToken
    Endpoint <- MCEndpoint
    Registry <- MCRegistry
    Unknown = "garbage"
    MaxUsers = 2
INVARIANTS
    TypeOK
    RequestUnderstood
    ResponseUnderstood
    PunchesAtEndpoint
    ListPrefix
