SPECIFICATION FairSpec
CONSTANTS
    InboxCap = 1
    Window = 1
    RightCode = RightCode
    WrongCode = WrongCode
    OldCode = OldCode
    Cands = {1}
    Usable = 1
    Chunks = 2
    MaxAttempts = 2
    Happen = {"wrong", "kill send", "kill recv", "stream", "publish", "blocked", "cut", "early", "stale"}
    MaxFaults = 1
INVARIANTS
    SameKey
    SuccessMeansReceived
PROPERTIES
    EveryRunEnds
    BothSucceed
CHECK_DEADLOCK FALSE
