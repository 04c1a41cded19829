\* One cluster and no fault: the user changes the model again and again.
CONSTANTS
    Models = {m1, m2}
    First = {m1}
    NoModel = NoModel
    NoDeployment = NoDeployment
    Clusters = 1
    Home = 1
    Strategies = {TRUE}
    MaxOrders = 3
    MaxFaults = 0
SPECIFICATION Spec
INVARIANT CompletedIsServed
CHECK_DEADLOCK FALSE
