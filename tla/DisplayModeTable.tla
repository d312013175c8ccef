-------------------------- MODULE DisplayModeTable --------------------------
(***************************************************************************)
(* From boot properties and refresh rates to the modes a display           *)
(* advertises (src/src/DisplayConfig.cpp, Display::BuildModes and its      *)
(* neighbours in src/src/Display.cpp, LoadPrimaryDisplayConfig in          *)
(* src/src/HwcDevice.cpp).                                                 *)
(*                                                                         *)
(* A sorted vector without repetitions is a set; the index it would give   *)
(* an element is the number of those before it.  Names are left out.       *)
(***************************************************************************)
EXTENDS Integers, FiniteSets

CONSTANTS NanosPerSecond, \* 10^9; a run may count time in larger ticks
          MaxInt32        \* the largest int32_t

ASSUME TableAssumption ==
    /\ NanosPerSecond \in Nat /\ NanosPerSecond >= 60
    /\ MaxInt32 \in Nat
    /\ MaxInt32 >= NanosPerSecond + 1 /\ MaxInt32 >= 640000

RefreshRateToVsyncPeriodNanos(rate) ==
    IF rate = 0 THEN 0 ELSE (NanosPerSecond + rate \div 2) \div rate

LimitRefreshRates(supported, maximum) ==
    IF maximum = 0 THEN {}
    ELSE {rate \in supported : 0 < rate /\ rate <= maximum} \cup {maximum}

\* The property's value: the default unless it is a number of its range.
BoundedProperty(value, default, minimum, maximum) ==
    IF value \in minimum .. maximum THEN value ELSE default

\* What the properties say, or -1 for one that is not a number.
LoadPrimaryDisplayConfig(boot) ==
    LET fps == BoundedProperty(boot.fps, 60, 1, 60)
    IN  [width  |-> BoundedProperty(boot.width, 1920, 320, 7680),
         height |-> BoundedProperty(boot.height, 1080, 320, 4320),
         dpi    |-> BoundedProperty(boot.dpi, 320, 72, 640),
         rates  |-> LimitRefreshRates({15, 30, 60}, fps),
         period |-> RefreshRateToVsyncPeriodNanos(fps)]

----------------------------------------------------------------------------
ModePeriods(config) ==
    LET given == {RefreshRateToVsyncPeriodNanos(rate) : rate \in config.rates}
                     \cup {config.period}
        positive == {period \in given : period > 0}
    IN  IF positive = {} THEN {RefreshRateToVsyncPeriodNanos(60)} ELSE positive

\* Slower modes first.
IdIn(period, periods) == Cardinality({other \in periods : other > period})

BuildModes(config) ==
    LET periods == ModePeriods(config)
    IN  {[id |-> IdIn(period, periods), period |-> period] : period \in periods}

\* One past the last index, when no mode has the id.
FindMode(modes, id) == {mode \in modes : mode.id = id}

FindInitialConfig(modes, period) ==
    IF \E mode \in modes : mode.period = period
    THEN (CHOOSE mode \in modes : mode.period = period).id
    ELSE Cardinality(modes) - 1

\* An attribute is answered as an int32_t, whatever its width was.
AsInt32(value) ==
    LET word == value % (2 * (MaxInt32 + 1))
    IN  IF word > MaxInt32 THEN word - 2 * (MaxInt32 + 1) ELSE word

GetDisplayAttribute(config, mode) ==
    [width  |-> AsInt32(config.width),
     height |-> AsInt32(config.height),
     vsync  |-> AsInt32(mode.period),
     dpi    |-> AsInt32(config.dpi * 1000),
     group  |-> 0]
=============================================================================
