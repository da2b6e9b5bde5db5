SPECIFICATION Spec
CONSTANTS
    Origin = {"fresh", "frozen"}
    MaxTries = 2
    MaxPolls = 3
    CheckErrorsEvery = 2
    MaxDeletes = 2
INVARIANTS
    DeletedIsGone
    CallOutcome
    DurationsNotNegative
PROPERTIES
    ImplementsLifecycle
\* The calls on the object come to an end.
CHECK_DEADLOCK FALSE
