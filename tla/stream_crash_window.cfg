SPECIFICATION FairSpec
CONSTANTS
    a = a
    b = b
    e = e
    x = x
    y = y
    z = z
    zero = zero
    Source = {a, b}
    Block <- MCBlocks
    Hole = zero
    Size <- MCSize
    Content <- MCContent
    Tid <- MCTid
    TextJob = TextJob
    Jobs = {"Blob"}
    Kind = "Tar"
    Builds <- MCBuilds
    Yes = TRUE
    Overwrite = TRUE
    None = None
    NoFile = NoFile
    Torn = Torn
    MaxLost = 1
    MaxKill = 0
    MaxCrash = 1
    MaxPick = 2
    MaxEdit = 0
    MaxIoErr = 0
PROPERTIES
    EventuallyDelivered
