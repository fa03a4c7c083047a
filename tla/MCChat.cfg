SPECIFICATION FairSpec
CONSTANTS
    alice = alice
    bob = bob
    carol = carol
    Caller = alice
    Callee <- MCCallee
    None = None
    Leavers = {alice, bob}
    MaxLines <- MCMaxLines
INVARIANTS
    TypeOK
    UsesLiveObject
    OneOwner
    NoLineSkipped
PROPERTIES
    LinesArrive
    ImplementsConversation
CHECK_DEADLOCK FALSE
