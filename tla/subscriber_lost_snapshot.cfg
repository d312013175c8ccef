CONSTANTS
    Layouts = {"none", "one", "bad"}
    ValidLayouts <- MCValidLayouts
    NanosPerSecond = 1000000000
    MaxInt32 = 2147483647
    NoDisplays = "none"
    FirstGeneration = 1
    MaxGeneration = 3
    MaxFaults = 0
    MaxCalls = 1
CHECK_DEADLOCK FALSE
SPECIFICATION FairSpec
PROPERTIES
    ValidSnapshotIsShown
