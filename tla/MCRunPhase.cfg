SPECIFICATION Spec
CONSTANTS
    NumPublishers = 3
    Kind <- MCKind
    Options <- MCOptions
    MaxRuns = 3
    MaxFaults = 2
INVARIANTS
    NothingLost
    PublishedOnce
PROPERTIES
    RunEnds
