SPECIFICATION FairSpec
CONSTANTS
    Retries = 2
    MaxFaults = 2
INVARIANTS
    SuccessIsTrue
    WaitIsRobust
    OneAtATime
PROPERTIES
    CallEnds
\* The call ends.
CHECK_DEADLOCK FALSE
