SPECIFICATION FairSpec
CONSTANTS
    Window = 4
    AckEvery = 2
    MaxFrame = 6
    InCap = 1
    Lens = {1, 2, 3, 5, 7}
    MaxFrames = 3
    Upsets = {"drop", "stall", "leave"}
CHECK_DEADLOCK FALSE
INVARIANTS
    BufferBounded
    NoFalseStall
    FlowInv
PROPERTIES
    SendReturns
    CloseFlushes
