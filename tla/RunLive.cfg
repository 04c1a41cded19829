\* No retries, and one fault of each kind.
CONSTANTS
    NoRun = NoRun
    MaxRuns = 2
    MaxFaults = 1
    Retries = FALSE
SPECIFICATION FairSpec
PROPERTIES DrainEnds KillEnds OverIsSeen
\* A drained run rests.
CHECK_DEADLOCK FALSE
