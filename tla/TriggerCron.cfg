\* A cron expression that is edited and edited back, with no fault at all.
CONSTANTS
    NoTrigger = NoTrigger
    Setups <- AllSetups
    MaxCrons = 2
    MaxOrders = 2
    MaxFaults = 0
SPECIFICATION Spec
INVARIANT ScheduleIsActual
CHECK_DEADLOCK FALSE
