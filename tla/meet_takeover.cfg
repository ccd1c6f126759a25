SPECIFICATION Spec
CONSTANTS
    SendSockets = {1, 2}
    RecvSockets = {11, 12}
    NoSocket = NoSocket
    RightCode = RightCode
    WrongCode = WrongCode
    Rounds = 2
    Late = FALSE
    Breakable = {}
    Happen = {"kill", "hurry"}
    MaxFaults = 2
INVARIANTS
    ReceiverSurvives
CHECK_DEADLOCK FALSE
