\* Every kind, deleted through the API server only.
CONSTANTS
    Kinds = {run, model}
    RetainPolicy = {run}
    Clients = {c1, c2}
    NoObj = NoObj
    NoRow = NoRow
    DirectDelete = FALSE
    StorageFaults = TRUE
    MaxUid = 2
    MaxVer = 1
SPECIFICATION Spec
SYMMETRY ClientSymmetry
PROPERTIES DeletedLeavesNoLiveRow DeletesItsOwnObject
CHECK_DEADLOCK FALSE
