\* A job on Ray, and no failure at all.
CONSTANTS
    NoJob = NoJob
    Engines = {"ray"}
    MaxFaults = 0
SPECIFICATION Spec
PROPERTY SucceededIsTerminal
\* A job that is over rests.
CHECK_DEADLOCK FALSE
