--------------------------- MODULE TopologyMirror ---------------------------
(***************************************************************************)
(* What the topology subscription promises about the external displays it  *)
(* controls: they are those of some snapshot, or none; a snapshot taken    *)
(* over is never older than the one before it, older meaning of an earlier *)
(* service instance or of a smaller generation of the same one; and once   *)
(* the subscription is closed they never change again.                     *)
(***************************************************************************)
EXTENDS Naturals

CONSTANTS Layouts,   \* the possible sets of external displays
          NoDisplays \* the empty one

VARIABLES view,      \* the external displays
          source,    \* where the last snapshot came from
          closed

mirrorVars == <<view, source, closed>>

Source == [instance : Nat, generation : Nat]

NotOlder(old, new) ==
    \/ old.instance < new.instance
    \/ /\ old.instance = new.instance
       /\ old.generation <= new.generation

Init ==
    /\ view = NoDisplays
    /\ source = [instance |-> 0, generation |-> 0]
    /\ closed = FALSE

TakeOver ==
    /\ ~closed
    /\ view' \in Layouts
    /\ source' \in Source
    /\ NotOlder(source, source')
    /\ UNCHANGED closed

Clear ==
    /\ ~closed
    /\ view' = NoDisplays
    /\ UNCHANGED <<source, closed>>

Close ==
    /\ ~closed
    /\ closed' = TRUE
    /\ UNCHANGED <<view, source>>

Next == TakeOver \/ Clear \/ Close

Spec == Init /\ [][Next]_mirrorVars
=============================================================================
