\* Nothing fails: a run whose status is refused, found again when it is drained.
CONSTANTS
    NoRun = NoRun
    MaxRuns = 2
    MaxFaults = 0
    Retries = FALSE
SPECIFICATION Spec
PROPERTY RetainedIsOver
CHECK_DEADLOCK FALSE
