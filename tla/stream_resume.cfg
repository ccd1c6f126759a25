SPECIFICATION FairSpec
CONSTANTS
    a = a
    b = b
    e = e
    x = x
    y = y
    z = z
    zero = zero
    Source = {a}
    Block <- MCBlocks
    Hole = zero
    Size <- MCSize
    Content <- MCContent
    Tid <- MCTid
    TextJob = TextJob
    Jobs = {"Blob"}
    Kind = "File"
    Builds <- MCBuilds
    Yes = TRUE
    Overwrite = TRUE
    None = None
    NoFile = NoFile
    Torn = Torn
    MaxLost = 1
    MaxKill = 1
    MaxCrash = 2
    MaxPick = 0
    MaxEdit = 0
    MaxIoErr = 0
PROPERTIES
    SessionEnds
    RerunsSucceed
