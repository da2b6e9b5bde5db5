SPECIFICATION FairSpec
CONSTANTS
    NumberOfMessages = 3
    MaxFaults = 3
INVARIANTS
    ReportIsAnswer
    TurnIsClean
    PullErrorCostsOne
PROPERTIES
    RunEnds
\* The run ends.
CHECK_DEADLOCK FALSE
