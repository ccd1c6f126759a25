SPECIFICATION Spec
CONSTANTS
    None = None
    MaxCopies = 2
    Typed <- MCTyped
    PeerUrls <- MCPeerUrls
    TheirCode <- MCTheirCode
    MyCode <- MCMyCode
    MaxCommands = 3
INVARIANTS
    TokenStaysHome
    SameRoom
    BusyPatience
    OnlyVerifiedRuns
    HonestDoctor
CHECK_DEADLOCK FALSE
