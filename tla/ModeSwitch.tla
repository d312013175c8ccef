----------------------------- MODULE ModeSwitch -----------------------------
(***************************************************************************)
(* What the composer client is promised about mode switches: the active    *)
(* configuration is the last one selected; GetDisplayVsyncPeriod goes on   *)
(* answering the old period until the newVsyncAppliedTimeNanos of the last *)
(* switch, changes only to the period of the active configuration, and     *)
(* does so at most once per switch; a switch that changes no period, or is *)
(* made without constraints, has taken effect when the call returns.       *)
(***************************************************************************)
EXTENDS Naturals

CONSTANTS Configs, Period, InitialConfig, None

VARIABLES now,
          active,  \* the configuration last selected
          current, \* the period the client is told
          due      \* when it is to become the active one's, None once it has

modeVars == <<now, active, current, due>>

Init ==
    /\ now = 0
    /\ active = InitialConfig
    /\ current = Period[InitialConfig]
    /\ due = None

\* The last selection wins: nothing is left of one that was still due.
SwitchNow(config) ==
    /\ active' = config
    /\ current' = Period[config]
    /\ due' = None
    /\ UNCHANGED now

SwitchAt(config) ==
    /\ current # Period[config]
    /\ active' = config
    /\ due' \in Nat
    /\ UNCHANGED <<now, current>>

TakeEffect ==
    /\ due # None
    /\ now >= due
    /\ current' = Period[active]
    /\ due' = None
    /\ UNCHANGED <<now, active>>

Advance ==
    /\ now' = now + 1
    /\ UNCHANGED <<active, current, due>>

Next ==
    \/ \E config \in Configs : SwitchNow(config) \/ SwitchAt(config)
    \/ TakeEffect
    \/ Advance

Spec == Init /\ [][Next]_modeVars
=============================================================================
