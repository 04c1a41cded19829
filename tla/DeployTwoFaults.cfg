\* One cluster, two writes of others and two faults: two rollouts may fail.
CONSTANTS
    Models = {m1, m2}
    First = {m1}
    NoModel = NoModel
    NoDeployment = NoDeployment
    Clusters = 1
    Home = 1
    Strategies = {TRUE, FALSE}
    MaxOrders = 2
    MaxFaults = 2
SPECIFICATION FairSpec
INVARIANTS TypeOK CompletedIsRouted
PROPERTIES LetGoLeavesNoRoute VerdictComes
CHECK_DEADLOCK FALSE
