SPECIFICATION Spec
CONSTANTS
    a = a
    b = b
    e = e
    x = x
    y = y
    z = z
    zero = zero
    Source = {a, b, e}
    Block <- MCBlocks
    Hole = zero
    Size <- MCSize
    Content <- MCContent
    Tid <- MCSameTid
    TextJob = TextJob
    Jobs = {"Blob", "Text"}
    Kind = "File"
    Builds <- MCOtherBuilds
    Yes = TRUE
    Overwrite = FALSE
    None = None
    NoFile = NoFile
    Torn = Torn
    MaxLost = 1
    MaxKill = 0
    MaxCrash = 1
    MaxPick = 0
    MaxEdit = 1
    MaxIoErr = 0
PROPERTIES
    KeepsPromise
