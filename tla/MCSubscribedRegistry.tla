------------------------ MODULE MCSubscribedRegistry ------------------------
EXTENDS SubscribedRegistry, MCTopologySubscriber

MCPrimarySpec == [width |-> 1920, height |-> 1080, dpi |-> 320,
                  period |-> RefreshRateToVsyncPeriodNanos(60), rates |-> <<>>,
                  named |-> TRUE]

MCConverted == [layout \in MCValidLayouts |-> ConvertSnapshot(Published[layout])]

MCSpecs ==
    {MCPrimarySpec} \cup
        {MCConverted[layout][i].spec : layout \in {"one"}, i \in {1}}
=============================================================================
