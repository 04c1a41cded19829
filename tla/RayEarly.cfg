\* One failure after the object was created.
CONSTANTS
    Ray = Ray
    k1 = k1
    k2 = k2
    KubeClusters = {k1}
    NoKube = NoKube
    NoStatus = NoStatus
    MaxFaults = 1
SPECIFICATION Spec
INVARIANT KilledEarlyNotLaunched
CHECK_DEADLOCK FALSE
