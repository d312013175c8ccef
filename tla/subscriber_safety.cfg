CONSTANTS
    Layouts = {"none", "one", "bad"}
    ValidLayouts <- MCValidLayouts
    NanosPerSecond = 1000000000
    MaxInt32 = 2147483647
    NoDisplays = "none"
    FirstGeneration = 1
    MaxGeneration = 2
    MaxFaults = 2
    MaxCalls = 1
    Ids = {1, 2}
    Ports = {0, 1}
    Specs <- MCSpecs
    ValidSpecs <- MCSpecs
    PrimarySpec <- MCPrimarySpec
    Converted <- MCConverted
CHECK_DEADLOCK FALSE
SPECIFICATION SubscribedSpec
INVARIANTS
    SubscribedTypeOK
    RetainedOnLease
    SnapshotReachesTheClient
PROPERTIES
    MirrorSpec
    RetainedUntilDue
