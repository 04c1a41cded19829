CONSTANTS
    NoJob = NoJob
    Engines <- BothEngines
    MaxFaults = 3
SPECIFICATION FairSpec
INVARIANTS TypeOK KilledLeavesNothing
PROPERTIES OutcomeIsFinal VerdictIsReal JobEnds
\* A job that is over rests.
CHECK_DEADLOCK FALSE
