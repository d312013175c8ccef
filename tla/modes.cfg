CONSTANTS
    NanosPerSecond = 60
    MaxInt32 = 640000
    Configs <- MCConfigs
    Period <- MCPeriod
    InitialConfig <- MCInitial
    None = None
    MaxTime = 6
    MaxSwitches = 2
CHECK_DEADLOCK FALSE
SPECIFICATION FairSpec
INVARIANTS
    TypeOK
    PeriodsAgree
    NoBurst
PROPERTIES
    ModeSpec
    NoEarlyVsync
    ChangesAreApplied
    DestructorReturns
