SPECIFICATION FairSpec
CONSTANTS
    NumTasks = 3
    MaxConcurrency = 2
    MaxInterrupts = 3
    Absorbing = {1}
INVARIANTS
    StackIsFreeWorkers
    OutcomeIsComplete
    NoTaskOutlivesCall
    ThirdInterruptFrees
PROPERTIES
    CallEnds
    InterruptStopsWorkers
\* The call ends, and its workers with it, or they sleep for ever.
CHECK_DEADLOCK FALSE
