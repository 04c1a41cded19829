\* Both policies, deleted through the API server and around it: safety, and progress
\* under the fairness of work queue and informer.
CONSTANTS
    Kinds = {run, model}
    RetainPolicy = {run}
    Clients = {c1}
    NoObj = NoObj
    NoRow = NoRow
    DirectDelete = TRUE
    StorageFaults = TRUE
    MaxUid = 2
    MaxVer = 1
SPECIFICATION FairSpec
INVARIANT TypeOK
PROPERTIES FinalStateRetained NoStaleOverwrite TerminatingGoes WritesReachTheRow ImmutableIsEvicted
CHECK_DEADLOCK FALSE
