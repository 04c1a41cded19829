CONSTANTS
    NoTrigger = NoTrigger
    Setups <- AllSetups
    MaxCrons = 1
    MaxOrders = 1
    MaxFaults = 0
SPECIFICATION Spec
INVARIANT KilledIsStopped
CHECK_DEADLOCK FALSE
