SPECIFICATION Spec
CONSTANTS
    Source = {a, b}
    TextJob = TextJob
    Jobs = {a, b}
    NChunks = 2
    Slots = {1, 2, 3}
    Files = {1, 2, 3}
    Tars = {}
    Yes = TRUE
    Overwrite = TRUE
    Parallel = 2
    Attempts = 2
    MaxAuth = 1
    Faults = {"kill", "switch"}
    MaxFaults = 2
    None = None
INVARIANTS
    DeliveredWhole
CHECK_DEADLOCK FALSE
