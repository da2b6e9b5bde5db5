SPECIFICATION Spec
CONSTANTS
    Present = {"networks", "vms"}
    EnableFreezeRestore = {}
    DeleteOnFreezeError = {}
    Flags <- TimeoutFlags
    MaxRuns = 1
    MaxFaults = 1
INVARIANTS
    TimeoutSkipsTeardown
\* A process may end, and be the last one.
CHECK_DEADLOCK FALSE
