SPECIFICATION FairSpec
CONSTANTS
    MaxPayload = 5
    Header = 2
    MaxLogical = 7
    Lens = {0, 1, 3, 4, 7, 8}
    MaxFrames = 3
CHECK_DEADLOCK FALSE
INVARIANTS
    PayloadFits
    Reassembles
    NeverBails
PROPERTIES
    AllArrive
