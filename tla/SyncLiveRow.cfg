\* A kubectl delete followed by one through the API server.
CONSTANTS
    Kinds = {model}
    RetainPolicy = {run}
    Clients = {c1}
    NoObj = NoObj
    NoRow = NoRow
    DirectDelete = TRUE
    StorageFaults = FALSE
    MaxUid = 1
    MaxVer = 0
SPECIFICATION Spec
PROPERTY DeletedLeavesNoLiveRow
CHECK_DEADLOCK FALSE
