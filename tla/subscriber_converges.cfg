CONSTANTS
    Layouts = {"none", "one"}
    ValidLayouts <- MCValidLayouts
    NanosPerSecond = 1000000000
    MaxInt32 = 2147483647
    NoDisplays = "none"
    FirstGeneration = 1
    MaxGeneration = 2
    MaxFaults = 1
    MaxCalls = 1
CHECK_DEADLOCK FALSE
SPECIFICATION FairSpec
INVARIANTS
    AppliedIsShown
PROPERTIES
    ValidSnapshotIsShown
    VouchedDisplaysExpire
    ShutdownCompletes
