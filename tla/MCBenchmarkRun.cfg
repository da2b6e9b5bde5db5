SPECIFICATION Spec
CONSTANTS
    Present = {"networks", "vms", "scratch_disks", "relational_db", "non_relational_db"}
    EnableFreezeRestore = {"relational_db", "non_relational_db"}
    DeleteOnFreezeError = {"non_relational_db"}
    Flags <- MCFlags
    MaxRuns = 2
    MaxFaults = 2
INVARIANTS
    TeardownDespiteErrors
    OneFaultTeardown
    Recoverable
    SucceededIsClean
    FrozenIsOnFile
    AttemptOutcome
PROPERTIES
    NetworksOutlive
\* A process may end, and be the last one.
CHECK_DEADLOCK FALSE
