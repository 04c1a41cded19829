\* Nothing fails.
CONSTANTS
    NoRun = NoRun
    MaxRuns = 2
    MaxFaults = 0
    Retries = TRUE
SPECIFICATION Spec
INVARIANT RetriedRunsOn
\* A drained run rests.
CHECK_DEADLOCK FALSE
