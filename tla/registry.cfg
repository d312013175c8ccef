CONSTANTS
    Ids = {0, 1, 2, 3, 4}
    Ports = {0, 1, 2, 3}
    Specs = {"hd", "uhd", "empty"}
    ValidSpecs = {"hd", "uhd"}
    PrimarySpec = "hd"
    Snapshots <- MCSnapshots
    Offers <- MCOffers
    Fixed <- MCFixed
SPECIFICATION Spec
INVARIANTS
    TypeOK
    QuiescentAgreement
    EventsAreTruthful
    RemovalsBeforeArrivals
    DistinctPorts
PROPERTY
    FeedSpec
