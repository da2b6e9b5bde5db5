SPECIFICATION Spec
CONSTANTS
    NumPublishers = 1
    Kind <- OneKind
    Options <- OneRetry
    MaxRuns = 1
    MaxFaults = 0
INVARIANTS
    RunIsRetried
