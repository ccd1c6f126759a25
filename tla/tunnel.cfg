SPECIFICATION FairSpec
CONSTANTS
    Source = {a, b}
    TextJob = TextJob
    Jobs = {a, b, TextJob}
    NChunks = 2
    Slots = {1, 2}
    Files = {1, 2, 3}
    Tars = {b}
    Yes = TRUE
    Overwrite = FALSE
    Parallel = 2
    Attempts = 2
    MaxAuth = 1
    Faults = {"bad", "kill", "crash", "late", "switch"}
    MaxFaults = 2
    None = None
INVARIANTS
    WholeUnlessOverlapped
    AckedHeld
    SuccessMeansDelivered
PROPERTIES
    SendEnds
    EventuallyDelivered
CHECK_DEADLOCK FALSE
