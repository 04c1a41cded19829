\* A manual retry, and one fault of each kind.
CONSTANTS
    NoRun = NoRun
    MaxRuns = 2
    MaxFaults = 1
    Retries = TRUE
SPECIFICATION Spec
INVARIANTS TypeOK LetGoLeavesNoWorkflow KilledRunsNothing StartedOnce SucceededIsCompleted
\* A drained run rests.
CHECK_DEADLOCK FALSE
