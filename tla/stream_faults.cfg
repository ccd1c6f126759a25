SPECIFICATION Spec
CONSTANTS
    a = a
    b = b
    e = e
    x = x
    y = y
    z = z
    zero = zero
    Source = {a, b}
    Block <- MCBlocks
    Hole = zero
    Size <- MCSize
    Content <- MCContent
    Tid <- MCTid
    TextJob = TextJob
    Jobs = {"Blob"}
    Kind = "Tar"
    Builds <- MCBuilds
    Yes = FALSE
    Overwrite = FALSE
    None = None
    NoFile = NoFile
    Torn = Torn
    MaxLost = 1
    MaxKill = 1
    MaxCrash = 1
    MaxPick = 2
    MaxEdit = 0
    MaxIoErr = 1
INVARIANTS
    StreamInv
    InStep
    OnlyMissingSent
    DeliveredWhole
    SuccessMeansDelivered
    SuccessLeavesNoStaging
    StagedTruthful
PROPERTIES
    ProgressKept
