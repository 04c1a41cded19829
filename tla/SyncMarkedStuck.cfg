\* An object deleted before its first sync.
CONSTANTS
    Kinds = {model}
    RetainPolicy = {run}
    Clients = {c1}
    NoObj = NoObj
    NoRow = NoRow
    DirectDelete = FALSE
    StorageFaults = FALSE
    MaxUid = 1
    MaxVer = 0
SPECIFICATION FairSpec
PROPERTY MarkedGoes
CHECK_DEADLOCK FALSE
