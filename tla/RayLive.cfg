\* One compute cluster, lost and registered again, and two failures.
CONSTANTS
    Ray = Ray
    k1 = k1
    k2 = k2
    KubeClusters = {k1}
    NoKube = NoKube
    NoStatus = NoStatus
    MaxFaults = 2
SPECIFICATION FairSpec
INVARIANTS TypeOK KillLeavesNothing
PROPERTIES NoCreateOnceKilling TerminatedIsKilled EnqueuedIsLaunched
\* A killed cluster rests.
CHECK_DEADLOCK FALSE
