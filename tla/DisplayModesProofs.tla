------------------------- MODULE DisplayModesProofs -------------------------
(***************************************************************************)
(* That a mode switch leaves the Display, its vsync thread and the active  *)
(* configuration in agreement, and that no vsync comes early, whatever the *)
(* modes, the clock and the calls are.                                     *)
(***************************************************************************)
EXTENDS DisplayModes, TLAPS

\* The period of a mode is a positive number.
LEMMA PeriodType ==
    /\ \A c \in Configs : Period[c] \in Periods
    /\ \A p \in Periods : p \in Nat /\ p > 0 /\ p # None
    /\ InitialConfig \in Configs
    /\ None \notin Nat
    /\ None \notin Change
  BY ModesAssumption DEF ModesAssumption, Periods, Change

\* The next vsync and the wake time are times or unset.
LEMMA WaitType ==
    ASSUME TypeOK
    PROVE  NextVsync \in Time /\ WakeTime \in Time
<1>1. now \in Nat /\ period \in Nat /\ next \in Time
  BY PeriodType DEF TypeOK
<1>2. NextVsync \in Time
  BY <1>1 DEF NextVsync, Time
<1>3. change # None => change.time \in Nat
  BY DEF TypeOK, Change
<1>4. QED
  BY <1>1, <1>2, <1>3 DEF WakeTime, Time

\* A switch keeps the types of the Display and of the thread's parameters.
LEMMA SwitchType ==
    ASSUME TypeOK, NEW config \in Configs, NEW time \in Nat,
           SetActiveConfig(config) \/ SetActiveConfigWithConstraints(config, time)
    PROVE  TypeOK'
<1>1. /\ Period[config] \in Periods
      /\ generation' = generation + 1
      /\ active' = config
      /\ current' \in Periods
  BY PeriodType DEF SetActiveConfig, SetActiveConfigWithConstraints,
                    ApplyActiveConfig, TypeOK
<1>2. generation \in Nat /\ now \in Nat
  BY DEF TypeOK
<1>3. SetPeriod(Period[config]) \/ SetPeriodAt(Period[config], time)
  BY DEF SetActiveConfig, SetActiveConfigWithConstraints, ApplyActiveConfig
<1>4. period' \in Periods /\ since' \in Nat
  BY <1>1, <1>2, <1>3 DEF SetPeriod, SetPeriodAt, TypeOK
<1>5. change' \in Change \cup {None}
  BY <1>1, <1>2, <1>3 DEF SetPeriod, SetPeriodAt, TypeOK, Change
<1>6. woken' \in BOOLEAN /\ rephase' \in BOOLEAN
  BY <1>3, Zenon DEF SetPeriod, SetPeriodAt, TypeOK
<1>7. /\ enabled' \in BOOLEAN /\ stopped' \in BOOLEAN
      /\ UNCHANGED <<now, threadVars, burst>>
  BY Zenon DEF SetActiveConfig, SetActiveConfigWithConstraints, TypeOK
<1>8. generation' \in Nat
  BY <1>1, <1>2
<1>9. QED
  BY <1>1, <1>4, <1>5, <1>6, <1>7, <1>8 DEF TypeOK, threadVars

\* A step of the thread keeps the types.
LEMMA ThreadType ==
    ASSUME TypeOK, ModesInv, PhaseInv, Thread
    PROVE  TypeOK'
<1>1. CASE TakeChange
  <2>1. change \in Change /\ change.period \in Periods
    BY <1>1 DEF TakeChange, Due, TypeOK, Change
  <2>2. next' \in Time /\ since' \in Nat /\ None \in Time
    BY <1>1 DEF TakeChange, TypeOK, Time
  <2>3. rephase' \in BOOLEAN /\ enabled' \in BOOLEAN /\ woken' \in BOOLEAN
        /\ stopped' \in BOOLEAN
    BY <1>1, Zenon DEF TakeChange, TypeOK
  <2>4. QED
    BY <1>1, <2>1, <2>2, <2>3 DEF TakeChange, TypeOK, displayVars
<1>2. CASE PeriodApplied
  <2>1. applied \in Change /\ applied.period \in Periods
    BY <1>2 DEF PeriodApplied, ModesInv, TypeOK, Change
  <2>2. QED
    BY <1>2, <2>1 DEF PeriodApplied, TypeOK
<1>3. CASE BeginWait
  BY <1>3, WaitType DEF BeginWait, TypeOK, displayVars
<1>4. CASE EndWait
  BY <1>4 DEF EndWait, TypeOK, displayVars, Time
<1>5. CASE EmitVsync
  <2>1. next \in Nat /\ period \in Nat /\ burst \in Nat
    BY <1>5, PeriodType DEF EmitVsync, VsyncDue, TypeOK, Time
  <2>2. next' \in Time /\ burst' \in Nat
    BY <1>5, <2>1 DEF EmitVsync, Time
  <2>3. QED
    BY <1>5, <2>2 DEF EmitVsync, TypeOK, displayVars, Time
<1>6. CASE VsyncReturns
  <2>1. next \in Nat /\ beat \in Nat /\ now \in Nat
    BY <1>6, PeriodType DEF VsyncReturns, PhaseInv, TypeOK, Time
  <2>2. next' \in Time
    BY <1>6, <2>1 DEF VsyncReturns, Time
  <2>3. QED
    BY <1>6, <2>2 DEF VsyncReturns, TypeOK, displayVars
<1>7. CASE Exit
  BY <1>7 DEF Exit, TypeOK, displayVars
<1>8. QED
  BY <1>1, <1>2, <1>3, <1>4, <1>5, <1>6, <1>7 DEF Thread

\* A call, the destructor or a tick keeps the types.
LEMMA EnvironmentType ==
    ASSUME TypeOK, Call \/ Destroy \/ Tick \/ UNCHANGED vars
    PROVE  TypeOK'
<1>1. ASSUME NEW value \in BOOLEAN, SetEnabled(value)
      PROVE  TypeOK'
  <2>1. /\ enabled' \in BOOLEAN /\ woken' \in BOOLEAN /\ rephase' \in BOOLEAN
        /\ stopped' \in BOOLEAN
    BY <1>1, Zenon DEF SetEnabled, TypeOK
  <2>2. since' \in Nat
    BY <1>1 DEF SetEnabled, TypeOK
  <2>3. QED
    BY <1>1, <2>1, <2>2 DEF SetEnabled, TypeOK, displayVars, threadVars
<1>2. ASSUME NEW config \in Configs, SetActiveConfig(config)
      PROVE  TypeOK'
  BY <1>2, SwitchType
<1>3. ASSUME NEW config \in Configs, NEW time \in 0 .. MaxTime,
             SetActiveConfigWithConstraints(config, time)
      PROVE  TypeOK'
  BY <1>3, SwitchType
<1>4. CASE Destroy
  BY <1>4 DEF Destroy, TypeOK, displayVars, threadVars
<1>5. CASE Tick
  BY <1>5 DEF Tick, TypeOK, displayVars, threadVars
<1>6. CASE UNCHANGED vars
  BY <1>6 DEF vars, TypeOK, displayVars, threadVars
<1>7. QED
  BY <1>1, <1>2, <1>3, <1>4, <1>5, <1>6 DEF Call

----------------------------------------------------------------------------
\* SetPeriod leaves the thread heading for the period and nothing pending.
LEMMA SetPeriodEffect ==
    ASSUME NEW p, SetPeriod(p)
    PROVE  period' = p /\ change' = None
  BY DEF SetPeriod

\* A switch makes the configuration the target, and supersedes the change
\* the thread may be reporting.
LEMMA SwitchInv ==
    ASSUME TypeOK, ModesInv, NEW config \in Configs, NEW time \in Nat,
           SetActiveConfig(config) \/ SetActiveConfigWithConstraints(config, time)
    PROVE  ModesInv'
<1>1. /\ generation' = generation + 1
      /\ generation \in Nat
      /\ active' = config
      /\ UNCHANGED <<pc, applied>>
  BY DEF SetActiveConfig, SetActiveConfigWithConstraints, ApplyActiveConfig,
         threadVars, TypeOK
<1>2. pc = "apply" => applied # None /\ applied.generation <= generation
  BY DEF ModesInv
<1>3. ~Reporting'
  <2>1. pc = "apply" => applied.generation \in Nat
    BY <1>2 DEF TypeOK, Change
  <2>2. QED
    BY <1>1, <1>2, <2>1 DEF Reporting
<1>4. CASE ApplyActiveConfig(config)
  <2>1. period' = Period[config] /\ change' = None /\ current' = Period[config]
    BY <1>4, SetPeriodEffect DEF ApplyActiveConfig
  <2>2. QED
    BY <1>1, <1>2, <1>3, <2>1 DEF ModesInv, Target, PeriodsAgree, TypeOK, Change
<1>5. CASE SetPeriodAt(Period[config], time)
  <2>1. change' = [period |-> Period[config], time |-> time, generation |-> generation']
    BY <1>5 DEF SetPeriodAt
  <2>2. change' # None
    BY <1>1, <2>1, PeriodType DEF Change
  <2>3. QED
    BY <1>1, <1>2, <1>3, <2>1, <2>2 DEF ModesInv, Target, PeriodsAgree, TypeOK, Change
<1>6. QED
  BY <1>4, <1>5 DEF SetActiveConfig, SetActiveConfigWithConstraints

\* The thread takes a change with its generation, which is still current;
\* its callback makes it the current period unless it was superseded.
LEMMA ThreadInv ==
    ASSUME TypeOK, ModesInv, Thread
    PROVE  ModesInv'
<1>1. CASE TakeChange
  <2>1. /\ change # None
        /\ change \in Change
        /\ applied' = change /\ change' = None /\ period' = change.period
        /\ UNCHANGED <<active, current, generation>>
        /\ pc' = "apply"
    BY <1>1 DEF TakeChange, Due, displayVars, TypeOK
  <2>2. change.generation = generation /\ change.period = Period[active]
    BY <2>1 DEF ModesInv, Target
  <2>3. generation \in Nat
    BY DEF TypeOK
  <2>4. Reporting'
    BY <2>1, <2>2 DEF Reporting
  <2>5. QED
    BY <2>1, <2>2, <2>3, <2>4 DEF ModesInv, Target, PeriodsAgree
<1>2. CASE PeriodApplied
  <2>1. /\ pc = "apply" /\ pc' = "loop"
        /\ current' = IF Reporting THEN applied.period ELSE current
        /\ UNCHANGED <<active, generation, period, change>>
    BY <1>2 DEF PeriodApplied, Reporting
  <2>2. ~Reporting'
    BY <2>1 DEF Reporting
  <2>3. PeriodsAgree'
    BY <2>1, <2>2 DEF ModesInv, PeriodsAgree, Target
  <2>4. QED
    BY <2>1, <2>2, <2>3 DEF ModesInv, Target
<1>3. CASE BeginWait \/ EndWait \/ EmitVsync \/ VsyncReturns \/ Exit
  <2>1. /\ UNCHANGED <<active, current, generation, period, change, applied>>
        /\ pc # "apply" /\ pc' # "apply"
    BY <1>3 DEF BeginWait, EndWait, EmitVsync, VsyncReturns, Exit, displayVars
  <2>2. QED
    BY <2>1 DEF ModesInv, Target, PeriodsAgree, Reporting
<1>4. QED
  BY <1>1, <1>2, <1>3 DEF Thread

\* Enabling, the destructor and the clock leave a switch alone.
LEMMA EnvironmentInv ==
    ASSUME TypeOK, ModesInv, Call \/ Destroy \/ Tick \/ UNCHANGED vars
    PROVE  ModesInv'
<1>1. CASE (\E value \in BOOLEAN : SetEnabled(value)) \/ Destroy \/ Tick \/ UNCHANGED vars
  <2>1. UNCHANGED <<active, current, generation, period, change, applied, pc>>
    BY <1>1 DEF SetEnabled, Destroy, Tick, vars, displayVars, threadVars
  <2>2. QED
    BY <2>1 DEF ModesInv, Target, PeriodsAgree, Reporting
<1>2. ASSUME NEW config \in Configs, SetActiveConfig(config)
      PROVE  ModesInv'
  BY <1>2, SwitchInv
<1>3. ASSUME NEW config \in Configs, NEW time \in 0 .. MaxTime,
             SetActiveConfigWithConstraints(config, time)
      PROVE  ModesInv'
  BY <1>3, SwitchInv
<1>4. QED
  BY <1>1, <1>2, <1>3 DEF Call

----------------------------------------------------------------------------
\* SetPeriod leaves everything the phase depends on alone, or resets it.
LEMMA SetPeriodPhase ==
    ASSUME TypeOK, NEW p, SetPeriod(p) \/ (\E time \in Nat : SetPeriodAt(p, time))
    PROVE  \/ rephase' = TRUE /\ woken' = TRUE
           \/ /\ UNCHANGED <<period, rephase, since>>
              /\ woken' = woken \/ woken' = TRUE
  BY Zenon DEF SetPeriod, SetPeriodAt

\* Every call, the destructor and the clock keep the phase valid or reset it.
LEMMA EnvironmentPhase ==
    ASSUME TypeOK, PhaseInv, Call \/ Destroy \/ Tick \/ UNCHANGED vars
    PROVE  PhaseInv'
<1>1. UNCHANGED <<pc, next, beat>>
  BY DEF Call, SetEnabled, SetActiveConfig, SetActiveConfigWithConstraints,
         Destroy, Tick, vars, threadVars
<1> DEFINE Reset == rephase' = TRUE /\ woken' = TRUE
           Kept == /\ UNCHANGED <<period, rephase, since, enabled>>
                   /\ woken' = woken \/ woken' = TRUE
<1>2. Reset \/ Kept
  <2>1. CASE \E value \in BOOLEAN : SetEnabled(value)
    BY <2>1, Zenon DEF SetEnabled
  <2>2. ASSUME NEW config \in Configs, NEW time \in Nat,
               \/ SetActiveConfig(config)
               \/ SetActiveConfigWithConstraints(config, time)
        PROVE  Reset \/ Kept
    <3>1. /\ SetPeriod(Period[config]) \/ SetPeriodAt(Period[config], time)
          /\ UNCHANGED enabled
      BY <2>2, Zenon DEF SetActiveConfig, SetActiveConfigWithConstraints,
                         ApplyActiveConfig
    <3>2. QED
      BY <3>1, SetPeriodPhase
  <2>3. CASE Destroy \/ Tick \/ UNCHANGED vars
    BY <2>3, Zenon DEF Destroy, Tick, vars
  <2>4. 0 .. MaxTime \subseteq Nat
    OBVIOUS
  <2>5. QED
    BY <2>1, <2>2, <2>3, <2>4 DEF Call
<1>3. since' <= now'
  <2>1. now \in Nat /\ since \in Nat /\ since <= now
    BY DEF TypeOK, PhaseInv
  <2>2. /\ since' = since \/ since' = now
        /\ now' = now \/ now' = now + 1
    BY DEF Call, SetEnabled, SetActiveConfig, SetActiveConfigWithConstraints,
           ApplyActiveConfig, SetPeriod, SetPeriodAt, Destroy, Tick, vars
  <2>3. QED
    BY <2>1, <2>2
<1>4. QED
  BY <1>1, <1>2, <1>3 DEF PhaseInv

\* So does the thread, which alone advances the phase.
LEMMA ThreadPhase ==
    ASSUME TypeOK, PhaseInv, Thread
    PROVE  PhaseInv'
<1>1. now \in Nat /\ since \in Nat /\ period \in Nat /\ period > 0 /\ next \in Time
      /\ period # None
  BY PeriodType DEF TypeOK
<1>2. CASE TakeChange \/ PeriodApplied \/ EndWait \/ Exit
  <2>1. /\ pc' # "vsync" /\ pc' # "wait"
        /\ \/ rephase' = TRUE
           \/ UNCHANGED <<rephase, next, enabled, since, period>>
    BY <1>2 DEF TakeChange, PeriodApplied, EndWait, Exit
  <2>2. since' <= now'
    BY <1>1, <1>2 DEF TakeChange, PeriodApplied, EndWait, Exit, PhaseInv
  <2>3. QED
    BY <2>1, <2>2 DEF PhaseInv
<1>3. CASE BeginWait
  <2>1. since <= now
    BY DEF PhaseInv
  <2>2. next' # None => enabled /\ next' >= since + period
    BY <1>1, <1>3, <2>1 DEF BeginWait, NextVsync, PhaseInv
  <2>3. QED
    BY <1>3, <2>1, <2>2 DEF BeginWait, PhaseInv
<1>4. CASE EmitVsync
  <2>1. next \in Nat
    BY <1>1, <1>4 DEF EmitVsync, VsyncDue, Time
  <2>2. QED
    BY <1>1, <1>4, <2>1, PeriodType DEF EmitVsync, PhaseInv, VsyncDue
<1>5. CASE VsyncReturns
  <2>1. next \in Nat /\ beat \in Nat /\ since <= now
    BY <1>1, <1>5, PeriodType DEF VsyncReturns, PhaseInv, TypeOK, Time
  <2>2. next' \in Nat
    BY <1>1, <1>5, <2>1 DEF VsyncReturns
  <2>3. QED
    BY <1>1, <1>5, <2>1, <2>2 DEF VsyncReturns, PhaseInv
<1>6. QED
  BY <1>2, <1>3, <1>4, <1>5 DEF Thread

----------------------------------------------------------------------------
\* Initially nothing is pending, and there is no phase.
LEMMA InitInv == Init => TypeOK /\ ModesInv /\ PhaseInv
<1> SUFFICES ASSUME Init PROVE TypeOK /\ ModesInv /\ PhaseInv
  OBVIOUS
<1>1. TypeOK
  BY PeriodType DEF Init, TypeOK, Time
<1>2. ModesInv
  BY DEF Init, ModesInv, Target, PeriodsAgree, Reporting
<1>3. PhaseInv
  BY DEF Init, PhaseInv
<1>4. QED
  BY <1>1, <1>2, <1>3

\* The three parts of the invariant are kept by every step.
LEMMA NextInv == TypeOK /\ ModesInv /\ PhaseInv /\ [Next]_vars
                    => TypeOK' /\ ModesInv' /\ PhaseInv'
<1>1. CASE Thread
  BY <1>1, ThreadType, ThreadInv, ThreadPhase
<1>2. CASE Call \/ Destroy \/ Tick \/ UNCHANGED vars
  BY <1>2, EnvironmentType, EnvironmentInv, EnvironmentPhase
<1>3. QED
  BY <1>1, <1>2 DEF Next

\* Every step keeps the variables of the Display and its thread in their types.
THEOREM TypeCorrect == Spec => []TypeOK
  BY InitInv, NextInv, PTL DEF Spec

\* Every change that is pending or being reported is the last switch's
\* (SetPeriodAt and its callback's generation).
THEOREM ModesInvariant == Spec => []ModesInv
  BY InitInv, NextInv, PTL DEF Spec

\* Once a switch has taken effect, GetDisplayVsyncPeriod, the vsyncs and the
\* active configuration agree, however many switches raced.
THEOREM PeriodsAgreeAlways == Spec => []PeriodsAgree
<1>1. ModesInv => PeriodsAgree
  BY DEF ModesInv
<1>2. QED
  BY <1>1, ModesInvariant, PTL

\* A phase that is valid began after the last change of the parameters.
THEOREM PhaseInvariant == Spec => []PhaseInv
  BY InitInv, NextInv, PTL DEF Spec

\* No vsync is emitted while vsync is disabled, or sooner than a period after
\* it was enabled or its period set (ThreadMain's wake and period generations).
THEOREM NoVsyncIsEarly == Spec => NoEarlyVsync
<1>1. TypeOK /\ PhaseInv /\ [Next]_vars
         => [pc' = "vsync" /\ pc # "vsync" => enabled /\ now >= since + period]_vars
  <2> SUFFICES ASSUME TypeOK, PhaseInv, Next, pc' = "vsync", pc # "vsync"
               PROVE  enabled /\ now >= since + period
    OBVIOUS
  <2>1. EmitVsync
    BY DEF Next, Call, SetEnabled, SetActiveConfig, SetActiveConfigWithConstraints,
           Destroy, Tick, threadVars, Thread, TakeChange, PeriodApplied, BeginWait,
           EndWait, VsyncReturns, Exit
  <2>2. ~rephase /\ next # None /\ now >= next
    BY <2>1 DEF EmitVsync, Interrupted, VsyncDue, PhaseInv
  <2>3. /\ now \in Nat /\ since \in Nat /\ period \in Nat
        /\ next \in Nat
    BY <2>2, PeriodType DEF TypeOK, Time
  <2>4. QED
    BY <2>2, <2>3 DEF PhaseInv
<1>2. QED
  BY <1>1, TypeCorrect, PhaseInvariant, PTL DEF Spec, NoEarlyVsync
----------------------------------------------------------------------------
\* Calls and the destructor leave the phase alone or reset it; the clock
\* begins a new instant.
LEMMA EnvironmentBurst ==
    ASSUME TypeOK, BurstInv, Call \/ Destroy \/ Tick \/ UNCHANGED vars
    PROVE  BurstInv'
<1>1. CASE Tick
  BY <1>1 DEF Tick, BurstInv, NoBurst
<1>2. CASE Call \/ Destroy \/ UNCHANGED vars
  <2>1. UNCHANGED <<pc, next, now, burst>>
    BY <1>2 DEF Call, SetEnabled, SetActiveConfig, SetActiveConfigWithConstraints,
                Destroy, vars, threadVars
  <2>2. rephase' = TRUE \/ UNCHANGED <<rephase, period>>
    BY <1>2, Zenon DEF Call, SetEnabled, SetActiveConfig,
                       SetActiveConfigWithConstraints, ApplyActiveConfig,
                       SetPeriod, SetPeriodAt, Destroy, vars
  <2>3. QED
    BY <2>1, <2>2 DEF BurstInv, NoBurst
<1>3. QED
  BY <1>1, <1>2

\* Every vsync moves the phase on by a period, and the return of one that
\* was late skips those that were missed (the resume of ThreadMain).
LEMMA ThreadBurst ==
    ASSUME TypeOK, PhaseInv, BurstInv, Thread
    PROVE  BurstInv'
<1>1. now \in Nat /\ period \in Nat /\ period > 0 /\ burst \in Nat /\ next \in Time
      /\ burst <= 3
  BY PeriodType DEF TypeOK, BurstInv, NoBurst
<1>2. CASE TakeChange \/ PeriodApplied \/ EndWait \/ Exit
  <2>1. /\ pc # "vsync" /\ UNCHANGED <<now, burst>>
        /\ rephase' = TRUE \/ UNCHANGED <<rephase, next, period>>
    BY <1>2 DEF TakeChange, PeriodApplied, EndWait, Exit
  <2>2. QED
    BY <2>1 DEF BurstInv, NoBurst
<1>3. CASE BeginWait
  <2>1. /\ pc = "loop"
        /\ UNCHANGED <<now, period, burst>>
        /\ next' = NextVsync
    BY <1>3 DEF BeginWait
  <2>2. \/ next' = None
        \/ next' = now + period
        \/ ~rephase /\ next # None /\ next' = next
    BY <2>1 DEF NextVsync
  <2>3. QED
    BY <1>1, <2>1, <2>2 DEF BurstInv, NoBurst
<1>4. CASE EmitVsync
  <2>1. /\ ~rephase /\ next # None /\ next \in Nat /\ next <= now
        /\ pc = "wait" /\ pc' = "vsync"
        /\ next' = next + period /\ burst' = burst + 1
        /\ UNCHANGED <<now, period>>
    BY <1>1, <1>4 DEF EmitVsync, Interrupted, VsyncDue, PhaseInv, Time
  <2>2. burst = 0 \/ burst = 1 \/ burst = 2
    BY <1>1, <2>1 DEF BurstInv
  <2>3. QED
    BY <1>1, <2>1, <2>2 DEF BurstInv, NoBurst
<1>5. CASE VsyncReturns
  <2>1. /\ next \in Nat /\ next # None /\ beat \in Nat /\ beat > 0
        /\ ~rephase => beat = period
    BY <1>1, <1>5, PeriodType DEF VsyncReturns, PhaseInv, TypeOK, Time
  <2>2. /\ next' = IF next + beat < now THEN now + beat ELSE next
        /\ UNCHANGED <<now, period, burst, rephase>>
    BY <1>5 DEF VsyncReturns
  <2>3. QED
    BY <1>1, <2>1, <2>2 DEF BurstInv, NoBurst
<1>6. QED
  BY <1>2, <1>3, <1>4, <1>5 DEF Thread

\* At most three vsyncs come at one instant, however long the scheduler or a
\* callback stalled the thread ("instead of emitting a burst").
THEOREM NoVsyncBursts == Spec => []NoBurst
<1>1. Init => BurstInv
  BY DEF Init, BurstInv, NoBurst
<1>2. TypeOK /\ PhaseInv /\ BurstInv /\ [Next]_vars => BurstInv'
  BY EnvironmentBurst, ThreadBurst DEF Next
<1>3. BurstInv => NoBurst
  BY DEF BurstInv
<1>4. QED
  BY <1>1, <1>2, <1>3, TypeCorrect, PhaseInvariant, PTL DEF Spec

----------------------------------------------------------------------------
(* The Display implements ModeSwitch.                                      *)

\* The thread takes a change no sooner than at its time, and the clock only
\* moves on.
LEMMA ReportStep ==
    ASSUME TypeOK, ModesInv, ReportInv, [Next]_vars
    PROVE  ReportInv'
<1>1. CASE TakeChange
  BY <1>1 DEF TakeChange, Due, ReportInv
<1>2. CASE PeriodApplied \/ BeginWait \/ EndWait \/ EmitVsync \/ VsyncReturns \/ Exit
  BY <1>2 DEF PeriodApplied, BeginWait, EndWait, EmitVsync, VsyncReturns, Exit, ReportInv
<1>3. CASE Call \/ Destroy \/ Tick \/ UNCHANGED vars
  <2>1. UNCHANGED <<pc, applied>>
    BY <1>3 DEF Call, SetEnabled, SetActiveConfig, SetActiveConfigWithConstraints,
                Destroy, Tick, vars, threadVars
  <2>2. now \in Nat /\ (now' = now \/ now' = now + 1)
    BY <1>3 DEF Call, SetEnabled, SetActiveConfig, SetActiveConfigWithConstraints,
                Destroy, Tick, vars, TypeOK
  <2>3. pc = "apply" => applied.time \in Nat
    BY DEF ModesInv, TypeOK, Change
  <2>4. QED
    BY <2>1, <2>2, <2>3 DEF ReportInv
<1>4. QED
  BY <1>1, <1>2, <1>3 DEF Next, Thread

\* The change a switch leaves pending, if any, is its own.
LEMMA SwitchMaps ==
    ASSUME TypeOK, ModesInv, NEW config \in Configs, NEW time \in Nat,
           SetActiveConfig(config) \/ SetActiveConfigWithConstraints(config, time)
    PROVE  Switch!SwitchNow(config) \/ Switch!SwitchAt(config)
<1>1. /\ generation' = generation + 1 /\ generation \in Nat
      /\ active' = config
      /\ UNCHANGED <<pc, applied, now>>
  BY DEF SetActiveConfig, SetActiveConfigWithConstraints, ApplyActiveConfig,
         threadVars, TypeOK
<1>2. ~Reporting'
  <2>1. pc = "apply" => applied.generation \in Nat /\ applied.generation <= generation
    BY DEF ModesInv, TypeOK, Change
  <2>2. QED
    BY <1>1, <2>1 DEF Reporting
<1>3. CASE ApplyActiveConfig(config)
  <2>1. change' = None /\ current' = Period[config]
    BY <1>3, SetPeriodEffect DEF ApplyActiveConfig
  <2>2. SwitchDue' = None
    BY <1>2, <2>1 DEF SwitchDue
  <2>3. QED
    BY <1>1, <2>1, <2>2 DEF Switch!SwitchNow
<1>4. CASE /\ current # Period[config]
           /\ UNCHANGED current
           /\ SetPeriodAt(Period[config], time)
  <2>1. change' = [period |-> Period[config], time |-> time, generation |-> generation']
    BY <1>4 DEF SetPeriodAt
  <2>2. change' # None /\ change'.time = time
    BY <1>1, <2>1, PeriodType DEF Change
  <2>3. SwitchDue' \in Nat
    BY <2>2 DEF SwitchDue
  <2>4. QED
    BY <1>1, <1>4, <2>3 DEF Switch!SwitchAt
<1>5. QED
  BY <1>3, <1>4 DEF SetActiveConfig, SetActiveConfigWithConstraints

\* Taking a change leaves it due; reporting it makes the period that of the
\* active configuration, and reporting one that was superseded does nothing.
LEMMA ThreadMaps ==
    ASSUME TypeOK, ModesInv, ReportInv, Thread
    PROVE  Switch!TakeEffect \/ UNCHANGED <<now, active, current, SwitchDue>>
<1>1. CASE TakeChange
  <2>1. /\ change # None
        /\ applied' = change /\ change' = None /\ pc' = "apply"
        /\ UNCHANGED <<now, active, current, generation>>
    BY <1>1 DEF TakeChange, Due, displayVars
  <2>2. Reporting'
    BY <2>1 DEF Reporting, ModesInv
  <2>3. QED
    BY <2>1, <2>2 DEF SwitchDue
<1>2. CASE PeriodApplied /\ Reporting
  <2>1. /\ pc = "apply" /\ pc' = "loop"
        /\ current' = applied.period
        /\ UNCHANGED <<now, active, change>>
    BY <1>2 DEF PeriodApplied, Reporting
  <2>2. change = None /\ applied.period = Period[active]
    BY <1>2 DEF ModesInv, Target
  <2>3. SwitchDue = applied.time /\ SwitchDue' = None
    BY <1>2, <2>1, <2>2 DEF SwitchDue, Reporting
  <2>4. applied.time \in Nat /\ now >= applied.time
    BY <2>1 DEF ModesInv, ReportInv, TypeOK, Change
  <2>5. QED
    BY <2>1, <2>2, <2>3, <2>4, PeriodType DEF Switch!TakeEffect
<1>3. CASE PeriodApplied /\ ~Reporting
  <2>1. /\ pc = "apply" /\ pc' = "loop"
        /\ UNCHANGED <<now, active, current, change>>
    BY <1>3 DEF PeriodApplied, Reporting
  <2>2. QED
    BY <1>3, <2>1 DEF SwitchDue, Reporting
<1>4. CASE BeginWait \/ EndWait \/ EmitVsync \/ VsyncReturns \/ Exit
  <2>1. /\ UNCHANGED <<now, active, current, generation, change, applied>>
        /\ pc # "apply" /\ pc' # "apply"
    BY <1>4 DEF BeginWait, EndWait, EmitVsync, VsyncReturns, Exit, displayVars
  <2>2. QED
    BY <2>1 DEF SwitchDue, Reporting
<1>5. QED
  BY <1>1, <1>2, <1>3, <1>4 DEF Thread

\* Enabling and the destructor are invisible, and a tick is a tick.
LEMMA EnvironmentMaps ==
    ASSUME TypeOK, ModesInv, Call \/ Destroy \/ Tick \/ UNCHANGED vars
    PROVE  Switch!Next \/ UNCHANGED Switch!modeVars
<1>1. CASE (\E value \in BOOLEAN : SetEnabled(value)) \/ Destroy \/ UNCHANGED vars
  <2>1. UNCHANGED <<now, active, current, generation, change, applied, pc>>
    BY <1>1 DEF SetEnabled, Destroy, vars, displayVars, threadVars
  <2>2. QED
    BY <2>1 DEF SwitchDue, Reporting, Switch!modeVars
<1>2. CASE Tick
  <2>1. /\ now' = now + 1
        /\ UNCHANGED <<active, current, generation, change, applied, pc>>
    BY <1>2 DEF Tick, displayVars, threadVars
  <2>2. UNCHANGED SwitchDue
    BY <2>1 DEF SwitchDue, Reporting
  <2>3. QED
    BY <2>1, <2>2 DEF Switch!Next, Switch!Advance
<1>3. ASSUME NEW config \in Configs, NEW time \in Nat,
             \/ SetActiveConfig(config)
             \/ SetActiveConfigWithConstraints(config, time)
      PROVE  Switch!Next
  BY <1>3, SwitchMaps DEF Switch!Next
<1>4. QED
  <2>1. 0 \in Nat /\ 0 .. MaxTime \subseteq Nat
    OBVIOUS
  <2>2. QED
    BY <1>1, <1>2, <1>3, <2>1 DEF Call

\* GetDisplayVsyncPeriod is truthful: it changes only to the period of the
\* configuration last selected, and never before the newVsyncAppliedTimeNanos
\* its caller was given, whichever switches the report of the thread raced.
THEOREM ImplementsModeSwitch == Spec => ModeSpec
<1>1. Init => Switch!Init
  BY DEF Init, Switch!Init, SwitchDue, Reporting
<1>2. Init => ReportInv
  BY DEF Init, ReportInv
<1>3. TypeOK /\ ModesInv /\ ReportInv /\ [Next]_vars => ReportInv'
  BY ReportStep
<1>4. TypeOK /\ ModesInv /\ ReportInv /\ [Next]_vars => [Switch!Next]_(Switch!modeVars)
  <2> SUFFICES ASSUME TypeOK, ModesInv, ReportInv, [Next]_vars
               PROVE  Switch!Next \/ UNCHANGED Switch!modeVars
    OBVIOUS
  <2>1. CASE Thread
    BY <2>1, ThreadMaps DEF Switch!Next, Switch!modeVars
  <2>2. CASE Call \/ Destroy \/ Tick \/ UNCHANGED vars
    BY <2>2, EnvironmentMaps
  <2>3. QED
    BY <2>1, <2>2 DEF Next
<1>5. QED
  BY <1>1, <1>2, <1>3, <1>4, TypeCorrect, ModesInvariant, PTL
     DEF Spec, ModeSpec, Switch!Spec
=============================================================================
