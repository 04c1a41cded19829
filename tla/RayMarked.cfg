\* No failure: a verdict that an old status overwrites.
CONSTANTS
    Ray = Ray
    k1 = k1
    k2 = k2
    KubeClusters = {k1}
    NoKube = NoKube
    NoStatus = NoStatus
    MaxFaults = 0
SPECIFICATION FairSpec
PROPERTY MarkedIsTerminated
CHECK_DEADLOCK FALSE
