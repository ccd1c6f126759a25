SPECIFICATION FairSpec
CONSTANTS
    SendSockets = {1, 2}
    RecvSockets = {11, 12}
    NoSocket = NoSocket
    RightCode = RightCode
    WrongCode = WrongCode
    Rounds = 2
    Late = TRUE
    Breakable = {"send", "recv"}
    Happen = {"wrong", "kill", "break", "expire", "early", "hurry"}
    MaxFaults = 2
INVARIANTS
    PairedNeverExpires
    SameKey
    SuccessMeansReceived
    SurvivesUnhurried
PROPERTIES
    SendEnds
    EventuallyDone
CHECK_DEADLOCK FALSE
