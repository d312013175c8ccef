------------------------ MODULE MCTopologySubscriber ------------------------
EXTENDS TopologySubscriber, SnapshotConversion

Source(displayId, port, rates) ==
    [displayId |-> displayId, port |-> port, width |-> 1920, height |-> 1080,
     dpi |-> 320, named |-> TRUE, supported |-> rates, active |-> 30]

\* What a service can publish: no display, one, or two of which the second has
\* a port that would become the first one's in 8 bits.
Published == [none |-> <<>>,
              one  |-> <<Source(2, 1, <<15, 30>>)>>,
              bad  |-> <<Source(2, 1, <<15, 30>>), Source(3, 257, <<30>>)>>]

MCValidLayouts == {layout \in Layouts : Converts(1, Published[layout])}

----------------------------------------------------------------------------
(* Conversion at its boundaries: the registry takes what is converted.     *)

Sources ==
    {[Source(id, port, rates) EXCEPT !.width = width] :
        id \in {-1, 1, 2, 3}, port \in {0, 1, 255, 256, 257}, width \in {319, 320, 7681},
        rates \in {<<>>, <<30>>, <<60, 30, 30>>, <<15, 60>>, <<30, 61>>, <<0, 30>>}}

Convertible == {source \in Sources : ConvertsSpec(source)}

ASSUME
    /\ {source.port : source \in Convertible} = {1, 255}
    /\ {source.displayId : source \in Convertible} = {2, 3}
    /\ {source.supported : source \in Convertible} = {<<30>>, <<60, 30, 30>>}
    /\ \A s, t \in Convertible :
          /\ Converts(1, <<s, t>>) <=> s.displayId # t.displayId /\ s.port # t.port
          /\ Converts(1, <<s, t>>) => Topology!CanReplace(ConvertSnapshot(<<s, t>>))
    /\ ~Converts(0, <<>>) /\ Converts(1, <<>>)
=============================================================================
