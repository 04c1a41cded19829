\* One cluster and no fault: a deletion while the ingester writes.
CONSTANTS
    Models = {m1, m2}
    First = {m1}
    NoModel = NoModel
    NoDeployment = NoDeployment
    Clusters = 1
    Home = 1
    Strategies = {TRUE}
    MaxOrders = 2
    MaxFaults = 0
SPECIFICATION FairSpec
PROPERTY DeletedGoes
CHECK_DEADLOCK FALSE
