\* One cluster: two calls fail, one before and one after the user changes the model.
CONSTANTS
    Models = {m1, m2}
    First = {m1}
    NoModel = NoModel
    NoDeployment = NoDeployment
    Clusters = 1
    Home = 1
    Strategies = {TRUE}
    MaxOrders = 1
    MaxFaults = 2
SPECIFICATION Spec
PROPERTY FailureIsTerminal
CHECK_DEADLOCK FALSE
