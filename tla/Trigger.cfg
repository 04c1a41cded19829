CONSTANTS
    NoTrigger = NoTrigger
    Setups <- AllSetups
    MaxCrons = 2
    MaxOrders = 2
    MaxFaults = 1
SPECIFICATION FairSpec
INVARIANT TypeOK
PROPERTIES IsDrained KilledIsDisarmed EndIsFinal DrainEnds KillDisarms
\* A trigger that ended rests.
CHECK_DEADLOCK FALSE
