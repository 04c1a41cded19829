-------------------------- MODULE MCSchedulerQueue --------------------------
EXTENDS SchedulerQueue, TLC
CONSTANTS j1, j2, j3, j4

\* j1 and j2 are two jobs whose namespace, name and generation spell one key.
KeysOfJobs == (j1 :> "k1") @@ (j2 :> "k1") @@ (j3 :> "k2") @@ (j4 :> "k3")
=============================================================================
