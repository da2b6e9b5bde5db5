SPECIFICATION Spec
CONSTANTS
    NumBenchmarks = 2
    Zone = {"a1", "a2", "a3", "b1"}
    RegionOf <- MCRegionOf
    Supported = {"a1", "a2", "b1"}
    AnyZone = "any"
    StartFlags <- SeriesAndParallel
    RetrySubstatuses = {"QUOTA_EXCEEDED", "INSUFFICIENT_CAPACITY", "UNSUPPORTED"}
    Substatuses = {"QUOTA_EXCEEDED", "INSUFFICIENT_CAPACITY", "UNCATEGORIZED"}
INVARIANTS
    GivenUpForAReason
    StopStops
    CapacityTriesAllZones
PROPERTIES
    AllFinish
