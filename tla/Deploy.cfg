\* Two clusters with and without rollback, two writes of others and one fault.
CONSTANTS
    Models = {m1, m2}
    First = {m1}
    NoModel = NoModel
    NoDeployment = NoDeployment
    Clusters = 2
    Home = 1
    Strategies = {TRUE, FALSE}
    MaxOrders = 2
    MaxFaults = 1
SPECIFICATION FairSpec
INVARIANTS TypeOK CompletedIsRouted
PROPERTIES LetGoLeavesNoRoute VerdictComes
CHECK_DEADLOCK FALSE
