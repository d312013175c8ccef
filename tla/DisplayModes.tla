---------------------------- MODULE DisplayModes ----------------------------
(***************************************************************************)
(* Mode switching and vsync (src/src/Display.cpp, src/src/VsyncThread.cpp):*)
(* HWC calls select a configuration at once or at a time to come, and one  *)
(* thread per display emits vsyncs, applies the change when it is due and  *)
(* reports it to the Display through a callback.                           *)
(*                                                                         *)
(* A step of the thread is what it does in one hold of VsyncThread::mutex_;*)
(* it is released in the waits and in the two callbacks.  A switch holds   *)
(* Display::mutex_ and, inside it, VsyncThread::mutex_; it is one step, as *)
(* what the thread can do between the two locks it can do just before.     *)
(* wake_generation_ and period_generation_ are only compared with the      *)
(* values the thread observed: woken and rephase say that they differ.     *)
(* Time is counted in ticks, and a step reads the clock once.              *)
(***************************************************************************)
EXTENDS Naturals

CONSTANTS Configs,       \* the ids of the modes
          Period,        \* the vsync period of each mode
          InitialConfig, \* FindInitialConfig
          None,          \* an unset optional
          MaxTime,       \* bound: when the clock stops
          MaxSwitches    \* bound: calls that select a configuration

ASSUME ModesAssumption ==
    /\ Period \in [Configs -> Nat \ {0}]
    /\ InitialConfig \in Configs
    /\ None \notin Nat
    /\ None \notin [period : Nat, time : Nat, generation : Nat]
    /\ MaxTime \in Nat
    /\ MaxSwitches \in Nat

VARIABLES
    now,        \* CLOCK_MONOTONIC
    \* Display
    active,     \* active_config_
    current,    \* current_vsync_period_nanos_, what GetDisplayVsyncPeriod says
    generation, \* config_change_generation_
    \* VsyncThread
    period,     \* period_nanos_
    change,     \* the pending_* fields and the generation of the callback
    enabled,    \* enabled_
    stopped,    \* stopped_
    woken,      \* wake_generation_ moved since the wait began
    rephase,    \* period_generation_ moved since the loop last looked
    \* ThreadMain
    pc,         \* where it is
    next,       \* nextVsync
    wake,       \* wakeTime
    applied,    \* the change it is reporting
    beat,       \* the period of the vsync it is emitting
    \* history
    since,      \* when vsync was last enabled or its period set
    burst       \* the vsyncs emitted since the clock last moved

displayVars == <<active, current, generation>>
threadVars == <<pc, next, wake, applied, beat>>
vars == <<now, displayVars, period, change, enabled, stopped, woken, rephase,
          threadVars, since, burst>>

Periods == {Period[c] : c \in Configs}
Change == [period : Periods, time : Nat, generation : Nat]
Time == Nat \cup {None}

TypeOK ==
    /\ now \in Nat
    /\ active \in Configs
    /\ current \in Periods
    /\ generation \in Nat
    /\ period \in Periods
    /\ change \in Change \cup {None}
    /\ enabled \in BOOLEAN
    /\ stopped \in BOOLEAN
    /\ woken \in BOOLEAN
    /\ rephase \in BOOLEAN
    /\ pc \in {"loop", "wait", "apply", "vsync", "exit"}
    /\ next \in Time
    /\ wake \in Time
    /\ applied \in Change \cup {None}
    /\ beat \in Periods \cup {None}
    /\ since \in Nat
    /\ burst \in Nat

Init ==
    /\ now = 0
    /\ active = InitialConfig
    /\ current = Period[InitialConfig]
    /\ generation = 0
    /\ period = Period[InitialConfig]
    /\ change = None
    /\ enabled = FALSE
    /\ stopped = FALSE
    /\ woken = FALSE
    /\ rephase = FALSE
    /\ pc = "loop"
    /\ next = None
    /\ wake = None
    /\ applied = None
    /\ beat = None
    /\ since = 0
    /\ burst = 0

----------------------------------------------------------------------------
(* VsyncThread's operations.                                               *)

UnphasedSetEnabled(value) ==            \* mutant: the old phase is kept
    /\ IF enabled = value
       THEN UNCHANGED <<enabled, woken, rephase, since>>
       ELSE /\ enabled' = value
            /\ woken' = TRUE
            /\ rephase' = rephase
            /\ since' = now
    /\ UNCHANGED <<now, displayVars, period, change, stopped, threadVars, burst>>

\* SetVsyncEnabled, and SetPowerMode(OFF) with FALSE.
SetEnabled(value) ==
    /\ IF enabled = value
       THEN UNCHANGED <<enabled, woken, rephase, since>>
       ELSE /\ enabled' = value
            /\ woken' = TRUE
            /\ rephase' = TRUE
            /\ since' = now
    /\ UNCHANGED <<now, displayVars, period, change, stopped, threadVars, burst>>

PendingSetPeriod(p) ==                  \* mutant: a pending change stays pending
    IF period = p
    THEN UNCHANGED <<period, change, woken, rephase, since>>
    ELSE /\ period' = p
         /\ change' = change
         /\ woken' = TRUE
         /\ rephase' = TRUE
         /\ since' = now

SetPeriod(p) ==
    IF period = p /\ change = None
    THEN UNCHANGED <<period, change, woken, rephase, since>>
    ELSE /\ period' = p
         /\ change' = None
         /\ woken' = TRUE
         /\ rephase' = TRUE
         /\ since' = now

SilentSetPeriodAt(p, time) ==           \* mutant: the thread is not woken
    /\ change' = [period |-> p, time |-> time, generation |-> generation']
    /\ UNCHANGED <<period, woken, rephase, since>>

SetPeriodAt(p, time) ==
    /\ change' = [period |-> p, time |-> time, generation |-> generation']
    /\ woken' = TRUE
    /\ UNCHANGED <<period, rephase, since>>

----------------------------------------------------------------------------
(* The Display's switches.                                                 *)

ApplyActiveConfig(config) ==
    /\ active' = config
    /\ current' = Period[config]
    /\ generation' = generation + 1
    /\ SetPeriod(Period[config])

SetActiveConfig(config) ==
    /\ generation < MaxSwitches
    /\ ApplyActiveConfig(config)
    /\ UNCHANGED <<now, enabled, stopped, threadVars, burst>>

\* The apply time is the later of the time the caller desires and a reading
\* of the clock made before the lock: by now it can be past or future.
SetActiveConfigWithConstraints(config, time) ==
    /\ generation < MaxSwitches
    /\ IF current = Period[config]
       THEN ApplyActiveConfig(config)
       ELSE /\ active' = config
            /\ generation' = generation + 1
            /\ UNCHANGED current
            /\ SetPeriodAt(Period[config], time)
    /\ UNCHANGED <<now, enabled, stopped, threadVars, burst>>

----------------------------------------------------------------------------
(* ThreadMain.                                                             *)

Due == change # None /\ now >= change.time

\* The top of the loop, when a change is due: take it and unlock.
TakeChange ==
    /\ pc = "loop"
    /\ ~stopped
    /\ Due
    /\ period' = change.period
    /\ change' = None
    /\ applied' = change
    /\ next' = IF rephase THEN None ELSE next
    /\ rephase' = TRUE
    /\ since' = now
    /\ pc' = "apply"
    /\ UNCHANGED <<now, displayVars, enabled, stopped, woken, wake, beat, burst>>

AnyPeriodApplied ==                     \* mutant: the generation is not compared
    /\ pc = "apply"
    /\ current' = applied.period
    /\ applied' = None
    /\ pc' = "loop"
    /\ UNCHANGED <<now, active, generation, period, change, enabled, stopped,
                   woken, rephase, next, wake, beat, since, burst>>

\* The callback, under Display::mutex_.
PeriodApplied ==
    /\ pc = "apply"
    /\ current' = IF applied.generation = generation THEN applied.period ELSE current
    /\ applied' = None
    /\ pc' = "loop"
    /\ UNCHANGED <<now, active, generation, period, change, enabled, stopped,
                   woken, rephase, next, wake, beat, since, burst>>

BackwardNextVsync ==                    \* mutant: the sign of the period
    IF ~enabled THEN None
    ELSE IF rephase \/ next = None THEN now - period ELSE next

NextVsync ==
    IF ~enabled THEN None
    ELSE IF rephase \/ next = None THEN now + period ELSE next

\* When the change is to be applied, if that is before the next vsync.
WakeTime ==
    LET changeTime == IF change.time < now THEN now ELSE change.time
    IN  IF change # None /\ (NextVsync = None \/ changeTime < NextVsync)
        THEN changeTime
        ELSE NextVsync

BeginWait ==
    /\ pc = "loop"
    /\ ~stopped
    /\ ~Due
    /\ next' = NextVsync
    /\ wake' = WakeTime
    /\ woken' = FALSE
    /\ rephase' = FALSE
    /\ pc' = "wait"
    /\ UNCHANGED <<now, displayVars, period, change, enabled, stopped,
                   applied, beat, since, burst>>

Interrupted == woken \/ stopped
TimedOut == wake # None /\ now >= wake
VsyncDue == next # None /\ now >= next

\* The wait ends without a vsync: signalled, or for a change that is due.
EndWait ==
    /\ pc = "wait"
    /\ Interrupted \/ TimedOut
    /\ Interrupted \/ Due \/ ~VsyncDue
    /\ wake' = None
    /\ pc' = "loop"
    /\ UNCHANGED <<now, displayVars, period, change, enabled, stopped, woken,
                   rephase, next, applied, beat, since, burst>>

\* It ends with one: unlock and call back.
EmitVsync ==
    /\ pc = "wait"
    /\ ~Interrupted
    /\ TimedOut
    /\ ~Due
    /\ VsyncDue
    /\ beat' = period
    /\ next' = next + period
    /\ burst' = burst + 1
    /\ wake' = None
    /\ pc' = "vsync"
    /\ UNCHANGED <<now, displayVars, period, change, enabled, stopped, woken,
                   rephase, applied, since>>

BurstingVsyncReturns ==                 \* mutant: missed vsyncs are caught up
    /\ pc = "vsync"
    /\ beat' = None
    /\ pc' = "loop"
    /\ UNCHANGED <<now, displayVars, period, change, enabled, stopped, woken,
                   rephase, next, wake, applied, since, burst>>

VsyncReturns ==
    /\ pc = "vsync"
    /\ next' = IF next + beat < now THEN now + beat ELSE next
    /\ beat' = None
    /\ pc' = "loop"
    /\ UNCHANGED <<now, displayVars, period, change, enabled, stopped, woken,
                   rephase, wake, applied, since, burst>>

DeafExit ==                             \* mutant: the loop only ends when vsync is off
    /\ pc = "loop"
    /\ stopped
    /\ ~enabled
    /\ pc' = "exit"
    /\ UNCHANGED <<now, displayVars, period, change, enabled, stopped, woken,
                   rephase, next, wake, applied, beat, since, burst>>

Exit ==
    /\ pc = "loop"
    /\ stopped
    /\ pc' = "exit"
    /\ UNCHANGED <<now, displayVars, period, change, enabled, stopped, woken,
                   rephase, next, wake, applied, beat, since, burst>>

Thread ==
    \/ TakeChange \/ PeriodApplied \/ BeginWait \/ EndWait
    \/ EmitVsync \/ VsyncReturns \/ Exit

----------------------------------------------------------------------------
\* The destructor: no call is in progress, and it joins the thread.
Destroy ==
    /\ ~stopped
    /\ stopped' = TRUE
    /\ woken' = TRUE
    /\ UNCHANGED <<now, displayVars, period, change, enabled, rephase,
                   threadVars, since, burst>>

Tick ==
    /\ now < MaxTime
    /\ now' = now + 1
    /\ burst' = 0
    /\ UNCHANGED <<displayVars, period, change, enabled, stopped, woken,
                   rephase, threadVars, since>>

Call ==
    /\ ~stopped
    /\ \/ \E value \in BOOLEAN : SetEnabled(value)
       \/ \E config \in Configs :
             \/ SetActiveConfig(config)
             \/ \E time \in 0 .. MaxTime : SetActiveConfigWithConstraints(config, time)

Next == Call \/ Thread \/ Destroy \/ Tick

Spec == Init /\ [][Next]_vars

\* The thread is scheduled, the callbacks return, and time passes.
FairSpec == Spec /\ WF_vars(Thread) /\ WF_vars(Tick)

----------------------------------------------------------------------------
\* The period the thread is heading for.
Target == IF change = None THEN period ELSE change.period

Reporting == pc = "apply" /\ applied.generation = generation

\* With no change pending and none being reported, the period the Display
\* says, the period of the vsyncs and the active configuration are one
\* (the generation check against a change superseded while it is reported).
PeriodsAgree ==
    change = None /\ ~Reporting => current = period /\ period = Period[active]

\* What every step of a switch preserves, and PeriodsAgree follows from.
ModesInv ==
    /\ Target = Period[active]
    /\ change # None => change.generation = generation
    /\ pc = "apply" => applied # None /\ applied.generation <= generation
    /\ Reporting => change = None /\ applied.period = period
    /\ PeriodsAgree

\* When the last switch is to change the period the client is told; None when
\* it has, or changed none.  A change being reported still is to.
SwitchDue ==
    IF change # None THEN change.time
    ELSE IF Reporting THEN applied.time ELSE None

\* The Display implements what clients are promised about switches: whatever
\* the thread is reporting when it is superseded, the period changes only to
\* the active configuration's, and not before the time of the last timeline.
Switch == INSTANCE ModeSwitch WITH due <- SwitchDue
ModeSpec == Switch!Spec

\* What ModeSpec needs besides ModesInv: a change is taken when it is due.
ReportInv == pc = "apply" => now >= applied.time

\* A vsync comes only while vsync is enabled, and no sooner than one full
\* period after it was enabled or the period set, however quickly the calls
\* follow each other and wherever the thread was (period_generation_).
NoEarlyVsync ==
    [][pc' = "vsync" /\ pc # "vsync" => enabled /\ now >= since + period]_vars

\* What NoEarlyVsync follows from: a phase that is still valid is one that
\* began after the last change of the vsync's parameters.
PhaseInv ==
    /\ since <= now
    /\ ~rephase /\ next # None => enabled /\ next >= since + period
    /\ pc = "vsync" => next # None /\ beat # None
    /\ pc = "vsync" /\ ~rephase => beat = period
    /\ pc = "wait" /\ ~woken => ~rephase

\* "Resume from the current monotonic time after a long scheduler stall
\* instead of emitting a burst of stale VSync callbacks": the vsync that was
\* late, one more, and a third when the clock stands just where it is due.
NoBurst == burst <= 3

\* What NoBurst follows from: how far behind the clock a valid phase can be
\* after each vsync of one instant.
BurstInv ==
    /\ NoBurst
    /\ ~rephase /\ next # None =>
          /\ burst = 1 /\ pc # "vsync" => next + period >= now
          /\ burst = 2 => next >= now
          /\ burst = 3 => next > now

\* A change is applied and reported, whatever calls follow it.
ChangesAreApplied == []<>(stopped \/ current = Period[active])

\* The destructor joins the thread, wherever it is.
DestructorReturns == stopped ~> pc = "exit"
=============================================================================
