------------------------- MODULE SnapshotConversion -------------------------
(***************************************************************************)
(* ConvertSnapshot (src/src/AidlDisplayTopologySubscriber.cpp): which      *)
(* snapshots of the topology service become display configurations, and    *)
(* what is narrowed on the way.  A name is empty or not; the sort by id    *)
(* orders what the registry puts into a map, and is left out.              *)
(***************************************************************************)
EXTENDS DisplayModeTable, Sequences

kMinimumDimension == 320
kMaximumDimension == 7680
kMinimumDpi == 72
kMaximumDpi == 640
kMaximumRefreshRateHz == 60

PhysicalDisplaySpec ==
    [displayId : Int, port : Int, width : Int, height : Int, dpi : Int,
     named : BOOLEAN, supported : Seq(Int), active : Int]

\* What the registry compares of a configuration beside its id and port.
ConfigSpec ==
    [width : Nat, height : Nat, dpi : Nat, period : Nat, rates : Seq(Int),
     named : BOOLEAN]

\* The registry's checks, with these configurations.
Topology == INSTANCE DisplayTopology
    WITH Ids <- Nat, Ports <- 0 .. 255, Specs <- ConfigSpec,
         ValidSpecs <- {s \in ConfigSpec : /\ s.width # 0 /\ s.height # 0
                                           /\ s.dpi # 0 /\ s.period > 0},
         PrimarySpec <- [width |-> 1920, height |-> 1080, dpi |-> 320,
                         period |-> RefreshRateToVsyncPeriodNanos(60),
                         rates |-> <<>>, named |-> TRUE]

ConvertsSpec(source) ==
    /\ source.displayId > 1
    /\ source.port \in 1 .. 255
    /\ source.width \in kMinimumDimension .. kMaximumDimension
    /\ source.height \in kMinimumDimension .. kMaximumDimension
    /\ source.dpi \in kMinimumDpi .. kMaximumDpi
    /\ source.named
    /\ source.active \in 1 .. kMaximumRefreshRateHz
    /\ \A i \in DOMAIN source.supported :
          source.supported[i] \in 1 .. kMaximumRefreshRateHz
    /\ \E i \in DOMAIN source.supported : source.supported[i] = source.active

\* The narrowing of the port to 8 bits is the code's; an id is positive.
ConvertDisplaySpec(source) ==
    [id         |-> source.displayId,
     port       |-> source.port % 256,
     spec       |-> [width  |-> source.width, height |-> source.height,
                     dpi    |-> source.dpi, rates |-> source.supported,
                     period |-> RefreshRateToVsyncPeriodNanos(source.active),
                     named  |-> source.named],
     connection |-> "external"]

ConvertSnapshot(displays) ==
    [i \in DOMAIN displays |-> ConvertDisplaySpec(displays[i])]

Converts(generation, displays) ==
    /\ generation > 0
    /\ \A i \in DOMAIN displays : ConvertsSpec(displays[i])
    /\ LET converted == ConvertSnapshot(displays)
       IN  \A i, j \in DOMAIN converted :
              i # j => /\ converted[i].id # converted[j].id
                       /\ converted[i].port # converted[j].port
=============================================================================
