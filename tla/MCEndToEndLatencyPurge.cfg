SPECIFICATION FairSpec
CONSTANTS
    NumberOfMessages = 2
    MaxFaults = 1
INVARIANTS
    PurgeIsAcknowledged
\* The run ends.
CHECK_DEADLOCK FALSE
