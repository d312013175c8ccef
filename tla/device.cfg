CONSTANTS
    Objects = {primary, first, second}
    PrimaryObject = primary
    IdOf <- MCIdOf
    Clients = {c1}
    Descriptors = {"refresh", "vsync24"}
    Listeners = {l1}
    TopologyWorker = tw
    EndpointWorker = ew
    Closer = closer
    None = none
SPECIFICATION FairSpec
INVARIANTS
    TypeOK
    NoDeadlock
    DestroyedIsQuiet
    VsyncIsOfAKnownDisplay
    NoDisplayLeaks
    NothingOutlivesTheDevice
PROPERTIES
    OperationsEnd
