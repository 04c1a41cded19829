\* One cluster and no fault: the user changes the model, and back again.
CONSTANTS
    Models = {m1, m2}
    First = {m1}
    NoModel = NoModel
    NoDeployment = NoDeployment
    Clusters = 1
    Home = 1
    Strategies = {TRUE}
    MaxOrders = 2
    MaxFaults = 0
SPECIFICATION Spec
INVARIANT RollbackRestores
CHECK_DEADLOCK FALSE
