\* A manual retry, and one fault of each kind: a run is a child that is drained.
CONSTANTS
    NoRun = NoRun
    MaxRuns = 2
    MaxFaults = 1
    Retries = TRUE
SPECIFICATION Spec
PROPERTY IsDrained
CHECK_DEADLOCK FALSE
