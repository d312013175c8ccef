CONSTANTS
    Layouts = {"none", "one"}
    ValidLayouts <- MCValidLayouts
    NanosPerSecond = 1000000000
    MaxInt32 = 2147483647
    NoDisplays = "none"
    FirstGeneration = 1
    MaxGeneration = 1
    MaxFaults = 1
    MaxCalls = 1
CHECK_DEADLOCK FALSE
SPECIFICATION FairSpec
PROPERTIES
    LostDisplaysExpire
