\* Four jobs under three keys, two job controllers, two places in the channel:
\* it is full while the scheduler and the other controller wait for the mutex.
CONSTANTS
    j1 = j1
    j2 = j2
    j3 = j3
    j4 = j4
    Jobs = {j1, j2, j3, j4}
    Keys = {"k1", "k2", "k3"}
    KeyOf <- KeysOfJobs
    Capacity = 2
    Reconcilers = {r1, r2}
    NoOne = NoOne
    NoJob = NoJob
SPECIFICATION FairSpec
INVARIANTS TypeOK RefusedWhileInside
PROPERTIES IsJobQueue AddedIsAssigned
