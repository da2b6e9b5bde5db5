SPECIFICATION FairCallSpec
INVARIANTS
    KilledIsReported
    TimeoutIsTimely
    NothingLeftRunning
PROPERTIES
    IssueEnds
\* The call ends; a command without a timeout may never do so.
CHECK_DEADLOCK FALSE
