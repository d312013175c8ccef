-------------------------- MODULE ConversionProofs --------------------------
(***************************************************************************)
(* What the pure parts of the device return, for every input: the modes a  *)
(* display advertises, the configurations a snapshot is converted to, the  *)
(* identity in an EDID and the descriptor of a client target.              *)
(***************************************************************************)
EXTENDS SnapshotConversion, Edid, ClientTargetResolver, FiniteSetTheorems,
        FunctionTheorems, WellFoundedInduction, TLAPS

----------------------------------------------------------------------------
(* Periods.                                                                *)

\* What the rounded division returns.
LEMMA RoundedDivision ==
    ASSUME NEW rate \in Nat \ {0}
    PROVE  LET period == RefreshRateToVsyncPeriodNanos(rate)
           IN  /\ period \in Nat
               /\ period * rate <= NanosPerSecond + rate \div 2
               /\ NanosPerSecond + rate \div 2 < (period + 1) * rate
<1> DEFINE dividend == NanosPerSecond + rate \div 2
<1>1. dividend \in Nat
  BY TableAssumption DEF TableAssumption
<1>2. RefreshRateToVsyncPeriodNanos(rate) = dividend \div rate
  BY DEF RefreshRateToVsyncPeriodNanos
<1> HIDE DEF dividend
<1>3. /\ dividend \div rate \in Nat
      /\ (dividend \div rate) * rate <= dividend
      /\ dividend < (dividend \div rate + 1) * rate
  BY <1>1
<1>4. QED
  BY <1>2, <1>3 DEF dividend

\* A display of up to 60 Hz has a period.
LEMMA PeriodIsPositive ==
    ASSUME NEW rate \in 1 .. 60
    PROVE  /\ RefreshRateToVsyncPeriodNanos(rate) \in Nat
           /\ RefreshRateToVsyncPeriodNanos(rate) > 0
           /\ RefreshRateToVsyncPeriodNanos(rate) <= NanosPerSecond + 1
<1> DEFINE period == RefreshRateToVsyncPeriodNanos(rate)
<1>1. /\ period \in Nat
      /\ period * rate <= NanosPerSecond + rate \div 2
      /\ NanosPerSecond + rate \div 2 < (period + 1) * rate
  BY RoundedDivision
<1>2. NanosPerSecond \in Nat /\ NanosPerSecond >= 60
  BY TableAssumption DEF TableAssumption
<1>3. rate \in Nat /\ rate >= 1 /\ rate <= 60
  OBVIOUS
<1>4. 2 * (rate \div 2) <= rate /\ rate \div 2 \in Nat /\ rate <= 2 * (rate \div 2) + 1
  BY <1>3
<1> HIDE DEF period
<1>5. period # 0
  <2>1. ASSUME period = 0 PROVE FALSE
    BY <1>1, <1>2, <1>3, <1>4, <2>1
  <2>2. QED
    BY <2>1
<1>6. period <= NanosPerSecond + 1
  <2>1. CASE rate = 1
    BY <1>1, <1>2, <1>4, <2>1
  <2>2. CASE rate >= 2
    <3>1. period * 2 <= period * rate
      BY <1>1, <1>3, <2>2
    <3>2. QED
      BY <1>1, <1>2, <1>3, <1>4, <3>1
  <2>3. QED
    BY <1>3, <2>1, <2>2
<1>7. QED
  BY <1>1, <1>5, <1>6 DEF period

\* Rounding keeps the order: a slower rate has no shorter period.
LEMMA PeriodsDecrease ==
    ASSUME NEW slow \in 1 .. 60, NEW fast \in 1 .. 60, slow <= fast
    PROVE  RefreshRateToVsyncPeriodNanos(fast) <= RefreshRateToVsyncPeriodNanos(slow)
<1> DEFINE p == RefreshRateToVsyncPeriodNanos(slow)
           q == RefreshRateToVsyncPeriodNanos(fast)
           N == NanosPerSecond
<1>1. /\ p \in Nat /\ N + slow \div 2 < (p + 1) * slow
      /\ q \in Nat /\ q * fast <= N + fast \div 2
  <2>1. slow \in Nat \ {0} /\ fast \in Nat \ {0}
    OBVIOUS
  <2>2. QED
    BY <2>1, RoundedDivision
<1>2. q > 0 /\ N \in Nat
  BY PeriodIsPositive, TableAssumption DEF TableAssumption
<1>3. /\ slow \in Nat /\ slow >= 1 /\ fast \in Nat
      /\ slow \div 2 \in Nat /\ slow <= 2 * (slow \div 2) + 1
      /\ fast \div 2 \in Nat /\ 2 * (fast \div 2) <= fast
  OBVIOUS
<1> HIDE DEF p, q, N
<1>4. ASSUME p < q PROVE FALSE
  <2>1. (p + 1) * slow <= q * slow
    BY <1>1, <1>3, <1>4
  <2>2. q * fast = q * slow + q * (fast - slow)
    BY <1>1, <1>3
  <2>3. q * (fast - slow) >= fast - slow
    BY <1>1, <1>2, <1>3
  <2>4. N + slow \div 2 < q * slow
    BY <1>1, <1>2, <1>3, <2>1
  <2>5. slow \div 2 + (fast - slow) < fast \div 2
    BY <1>1, <1>2, <1>3, <2>2, <2>3, <2>4
  <2>6. QED
    BY <1>3, <2>5
<1>5. QED
  BY <1>1, <1>4 DEF p, q
----------------------------------------------------------------------------
(* Modes.                                                                  *)

\* A configuration as the code builds them: rates and a period of any size.
Rated(config) ==
    /\ config.rates \subseteq Nat /\ IsFiniteSet(config.rates)
    /\ config.period \in Int

\* The periods of the modes are positive, and there is one.
LEMMA PeriodsOfModes ==
    ASSUME NEW config, Rated(config)
    PROVE  /\ ModePeriods(config) \subseteq Nat \ {0}
           /\ IsFiniteSet(ModePeriods(config))
           /\ ModePeriods(config) # {}
<1> DEFINE listed == {RefreshRateToVsyncPeriodNanos(rate) : rate \in config.rates}
           given == listed \cup {config.period}
           positive == {period \in given : period > 0}
<1>1. listed \subseteq Nat
  <2>1. \A rate \in Nat : RefreshRateToVsyncPeriodNanos(rate) \in Nat
    <3>1. RefreshRateToVsyncPeriodNanos(0) = 0
      BY DEF RefreshRateToVsyncPeriodNanos
    <3>2. \A rate \in Nat \ {0} : RefreshRateToVsyncPeriodNanos(rate) \in Nat
      BY RoundedDivision
    <3>3. QED
      BY <3>1, <3>2
  <2>2. QED
    BY <2>1 DEF Rated
<1>2. IsFiniteSet(listed)
  <2> DEFINE f == [rate \in config.rates |-> RefreshRateToVsyncPeriodNanos(rate)]
  <2>1. f \in Surjection(config.rates, listed)
    BY DEF Surjection
  <2>2. QED
    BY <2>1, FS_Surjection DEF Rated
<1>3. IsFiniteSet(given)
  BY <1>2, FS_AddElement
<1>4. positive \subseteq Nat \ {0} /\ IsFiniteSet(positive)
  <2>1. positive \subseteq given
    OBVIOUS
  <2>2. IsFiniteSet(positive)
    BY <1>3, <2>1, FS_Subset
  <2>3. QED
    BY <1>1, <2>2 DEF Rated
<1>5. /\ {RefreshRateToVsyncPeriodNanos(60)} \subseteq Nat \ {0}
      /\ IsFiniteSet({RefreshRateToVsyncPeriodNanos(60)})
  <2>1. 60 \in 1 .. 60
    OBVIOUS
  <2>2. /\ RefreshRateToVsyncPeriodNanos(60) \in Nat
        /\ RefreshRateToVsyncPeriodNanos(60) > 0
    BY <2>1, PeriodIsPositive
  <2>3. {RefreshRateToVsyncPeriodNanos(60)} \subseteq Nat \ {0}
    BY <2>2
  <2>4. IsFiniteSet({RefreshRateToVsyncPeriodNanos(60)})
    BY FS_Singleton
  <2>5. QED
    BY <2>3, <2>4
<1>6. ModePeriods(config)
        = IF positive = {} THEN {RefreshRateToVsyncPeriodNanos(60)} ELSE positive
  BY DEF ModePeriods
<1>7. QED
  BY <1>4, <1>5, <1>6

\* Of two periods in a table, the shorter one has the higher id.
LEMMA IdsFollowPeriods ==
    ASSUME NEW periods \in SUBSET Nat, IsFiniteSet(periods)
    PROVE  /\ \A p \in periods : IdIn(p, periods) \in 0 .. Cardinality(periods) - 1
           /\ \A p, q \in periods : p < q => IdIn(q, periods) < IdIn(p, periods)
<1> DEFINE Slower(p) == {other \in periods : other > p}
<1>1. \A p : /\ IsFiniteSet(Slower(p)) /\ Cardinality(Slower(p)) \in Nat
             /\ IdIn(p, periods) = Cardinality(Slower(p))
  <2>1. \A p : Slower(p) \in SUBSET periods
    OBVIOUS
  <2>2. \A p : IsFiniteSet(Slower(p))
    BY <2>1, FS_Subset
  <2>3. QED
    BY <2>2, FS_CardinalityType DEF IdIn
<1>2. ASSUME NEW p \in periods
      PROVE  IdIn(p, periods) \in 0 .. Cardinality(periods) - 1
  <2>1. Slower(p) \in SUBSET periods /\ Slower(p) # periods
    OBVIOUS
  <2>2. /\ Cardinality(Slower(p)) <= Cardinality(periods)
        /\ Cardinality(Slower(p)) # Cardinality(periods)
    BY <2>1, FS_Subset
  <2>3. Cardinality(periods) \in Nat
    BY FS_CardinalityType
  <2>4. QED
    BY <1>1, <2>2, <2>3
<1>3. ASSUME NEW p \in periods, NEW q \in periods, p < q
      PROVE  IdIn(q, periods) < IdIn(p, periods)
  <2>1. Slower(q) \in SUBSET Slower(p) /\ q \in Slower(p) /\ q \notin Slower(q)
    <3>1. p \in Nat /\ q \in Nat /\ periods \subseteq Nat
      OBVIOUS
    <3>2. \A other \in periods : other > q => other > p
      BY <1>3, <3>1
    <3>3. Slower(q) \in SUBSET Slower(p)
      BY <3>2
    <3>4. q \in Slower(p)
      BY <1>3, <3>1
    <3>5. ~(q > q)
      BY <3>1
    <3>6. q \notin Slower(q)
      BY <3>5
    <3>7. QED
      BY <3>3, <3>4, <3>6
  <2>2. /\ Cardinality(Slower(q)) <= Cardinality(Slower(p))
        /\ Cardinality(Slower(q)) # Cardinality(Slower(p))
    BY <1>1, <2>1, FS_Subset
  <2>3. QED
    BY <1>1, <2>2
<1>4. QED
  BY <1>2, <1>3

\* The ids of the modes are the indices of a table, slowest first, and the
\* initial one is among them: FindMode finds every id that
\* GetDisplayConfigs returns (Display::BuildModes, FindInitialConfig).
THEOREM ModesAreATable ==
    ASSUME NEW config, Rated(config)
    PROVE  LET modes == BuildModes(config)
           IN  /\ {mode.id : mode \in modes} = 0 .. Cardinality(ModePeriods(config)) - 1
               /\ \A m, n \in modes : m.id < n.id <=> m.period > n.period
               /\ \A m \in modes : m.period \in Nat \ {0} /\ FindMode(modes, m.id) = {m}
<1> DEFINE periods == ModePeriods(config)
           modes == BuildModes(config)
           indices == 0 .. Cardinality(periods) - 1
<1>1. periods \subseteq Nat \ {0} /\ IsFiniteSet(periods) /\ periods # {}
  BY PeriodsOfModes
<1>2. /\ \A p \in periods : IdIn(p, periods) \in indices
      /\ \A p, q \in periods : p < q => IdIn(q, periods) < IdIn(p, periods)
  BY <1>1, IdsFollowPeriods
<1>3. modes = {[id |-> IdIn(period, periods), period |-> period] : period \in periods}
  BY DEF BuildModes
<1> HIDE DEF periods, modes
<1>4. Cardinality(periods) \in Nat
  BY <1>1, FS_CardinalityType
<1>5. \A p, q \in periods : IdIn(p, periods) < IdIn(q, periods) <=> p > q
  <2> SUFFICES ASSUME NEW p \in periods, NEW q \in periods
               PROVE  IdIn(p, periods) < IdIn(q, periods) <=> p > q
    OBVIOUS
  <2>1. p \in Nat /\ q \in Nat /\ IdIn(p, periods) \in Int /\ IdIn(q, periods) \in Int
    BY <1>1, <1>2, <1>4
  <2>2. QED
    BY <1>2, <2>1
<1>6. \A p, q \in periods : p # q => IdIn(p, periods) # IdIn(q, periods)
  <2> SUFFICES ASSUME NEW p \in periods, NEW q \in periods, p # q
               PROVE  IdIn(p, periods) # IdIn(q, periods)
    OBVIOUS
  <2>1. p \in Nat /\ q \in Nat /\ IdIn(p, periods) \in Int /\ IdIn(q, periods) \in Int
    BY <1>1, <1>2, <1>4
  <2>2. QED
    BY <1>5, <2>1
<1>7. {mode.id : mode \in modes} = indices
  <2> DEFINE f == [p \in periods |-> IdIn(p, periods)]
  <2>1. f \in Injection(periods, indices)
    BY <1>2, <1>6, Fun_IsInj
  <2>2. IsFiniteSet(indices) /\ Cardinality(indices) = Cardinality(periods)
    BY <1>4, FS_Interval
  <2>3. f \in Surjection(periods, indices)
    BY <2>1, <2>2, FS_Injection
  <2>4. \A i \in indices : \E p \in periods : IdIn(p, periods) = i
    BY <2>3 DEF Surjection
  <2>5. {mode.id : mode \in modes} = {IdIn(p, periods) : p \in periods}
    <3>1. \A mode \in modes : \E p \in periods : mode.id = IdIn(p, periods)
      BY <1>3
    <3>2. \A p \in periods : \E mode \in modes : mode.id = IdIn(p, periods)
      <4> TAKE p \in periods
      <4>1. [id |-> IdIn(p, periods), period |-> p] \in modes
        BY <1>3
      <4>2. QED
        BY <4>1
    <3>3. QED
      BY <3>1, <3>2
  <2>6. {IdIn(p, periods) : p \in periods} = indices
    <3> HIDE DEF indices
    <3>1. QED
      BY <1>2, <2>4
  <2>7. QED
    BY <2>5, <2>6
<1>8. \A m, n \in modes : m.id < n.id <=> m.period > n.period
  BY <1>3, <1>5
<1>9. \A m \in modes : m.period \in Nat \ {0} /\ FindMode(modes, m.id) = {m}
  BY <1>1, <1>3, <1>6 DEF FindMode
<1>10. QED
  BY <1>7, <1>8, <1>9 DEF periods, modes

\* The mode a display starts in is one of its table; it is the one with the
\* configuration's period where there is such a mode (FindInitialConfig).
THEOREM InitialConfigIsAMode ==
    ASSUME NEW config, Rated(config)
    PROVE  LET modes   == BuildModes(config)
               initial == FindInitialConfig(modes, config.period)
           IN  /\ \E mode \in modes : mode.id = initial
               /\ config.period > 0 =>
                     \E mode \in modes : mode.id = initial /\ mode.period = config.period
<1> DEFINE periods == ModePeriods(config)
           modes == BuildModes(config)
           initial == FindInitialConfig(modes, config.period)
<1>1. periods \subseteq Nat \ {0} /\ IsFiniteSet(periods) /\ periods # {}
  BY PeriodsOfModes
<1>2. \A period \in periods : \E mode \in modes : mode.period = period
  <2> TAKE period \in periods
  <2>1. [id |-> IdIn(period, periods), period |-> period] \in modes
    BY DEF BuildModes
  <2>2. QED
    BY <2>1
<1>3. IsFiniteSet(modes) /\ Cardinality(modes) = Cardinality(periods)
  <2> DEFINE f == [p \in periods |-> [id |-> IdIn(p, periods), period |-> p]]
  <2>1. f \in Bijection(periods, modes)
    <3>1. f \in Surjection(periods, modes)
      BY DEF Surjection, BuildModes
    <3>2. f \in Injection(periods, modes)
      BY DEF Injection, IsInjective, BuildModes
    <3>3. QED
      BY <3>1, <3>2 DEF Bijection
  <2> HIDE DEF periods, modes, f
  <2>2. Cardinality(modes) = Cardinality(periods) /\ IsFiniteSet(modes)
    BY <1>1, <2>1, FS_Bijection DEF ExistsBijection
  <2>3. QED
    BY <2>2
<1>4. CASE \E mode \in modes : mode.period = config.period
  <2> DEFINE chosen == CHOOSE mode \in modes : mode.period = config.period
  <2>1. chosen \in modes /\ chosen.period = config.period
    BY <1>4
  <2>2. initial = chosen.id
    BY <1>4 DEF FindInitialConfig
  <2>3. QED
    BY <2>1, <2>2
<1>5. CASE ~ \E mode \in modes : mode.period = config.period
  <2>1. initial = Cardinality(periods) - 1
    BY <1>1, <1>3, <1>5 DEF FindInitialConfig
  <2>2. Cardinality(periods) \in Nat \ {0}
    BY <1>1, FS_CardinalityType, FS_EmptySet
  <2>3. initial \in 0 .. Cardinality(periods) - 1
    BY <2>1, <2>2
  <2>4. \E mode \in modes : mode.id = initial
    BY <2>3, ModesAreATable
  <2>5. ~(config.period > 0)
    <3>1. ASSUME config.period > 0 PROVE config.period \in periods
      BY <3>1 DEF ModePeriods
    <3>2. QED
      BY <1>2, <1>5, <3>1
  <2>6. QED
    BY <2>4, <2>5
<1>6. QED
  BY <1>4, <1>5 DEF modes, initial

\* Adding faster modes renumbers none of the slower ones (the comment in
\* Display::BuildModes): a client's config ids stay what they were.
THEOREM FasterModesKeepIds ==
    ASSUME NEW old, Rated(old), NEW new, Rated(new),
           ModePeriods(old) \subseteq ModePeriods(new),
           \A added \in ModePeriods(new) \ ModePeriods(old) :
              \A period \in ModePeriods(old) : added < period
    PROVE  BuildModes(old) \subseteq BuildModes(new)
<1> DEFINE before == ModePeriods(old)
           after == ModePeriods(new)
<1>1. before \subseteq Nat /\ after \subseteq Nat
  BY PeriodsOfModes
<1>2. \A period \in before : {other \in before : other > period}
                               = {other \in after : other > period}
  <2> SUFFICES ASSUME NEW period \in before, NEW other \in after, other > period
               PROVE  other \in before
    OBVIOUS
  <2>1. ASSUME other \notin before PROVE FALSE
    <3>1. other < period
      BY <2>1
    <3>2. other \in Nat /\ period \in Nat
      BY <1>1
    <3>3. QED
      BY <3>1, <3>2
  <2>2. QED
    BY <2>1
<1>3. \A period \in before : IdIn(period, before) = IdIn(period, after)
  BY <1>2 DEF IdIn
<1>4. QED
  BY <1>3 DEF BuildModes

\* A bounded property is within its bounds, if the default is.
LEMMA PropertyIsBounded ==
    ASSUME NEW value, NEW minimum \in Nat, NEW maximum \in Nat,
           NEW default \in minimum .. maximum
    PROVE  /\ BoundedProperty(value, default, minimum, maximum) \in Nat
           /\ BoundedProperty(value, default, minimum, maximum) <= maximum
BY DEF BoundedProperty

\* What the properties can make of the primary display.
PrimaryConfigs == {LoadPrimaryDisplayConfig(boot) :
                      boot \in [fps : Int, width : Int, height : Int, dpi : Int]}

\* Whatever the boot properties say, no mode of the primary display is faster
\* than floral_fps, the limit itself is a mode, and the display starts in it
\* (LoadPrimaryDisplayConfig, LimitRefreshRates).
THEOREM TheLimitIsAdvertised ==
    ASSUME NEW config \in PrimaryConfigs
    PROVE  LET modes == BuildModes(config)
           IN  /\ \A mode \in modes : mode.period >= config.period
               /\ \E mode \in modes : /\ mode.period = config.period
                                      /\ mode.id = FindInitialConfig(modes, config.period)
<1> PICK boot \in [fps : Int, width : Int, height : Int, dpi : Int] :
            config = LoadPrimaryDisplayConfig(boot)
  BY DEF PrimaryConfigs
<1> DEFINE fps == BoundedProperty(boot.fps, 60, 1, 60)
<1>1. fps \in 1 .. 60
  BY DEF BoundedProperty
<1>2. /\ config.rates = LimitRefreshRates({15, 30, 60}, fps)
      /\ config.period = RefreshRateToVsyncPeriodNanos(fps)
  BY SMT DEF LoadPrimaryDisplayConfig
<1> HIDE DEF fps
<1>3. \A rate \in config.rates : rate \in 1 .. 60 /\ rate <= fps
  BY <1>1, <1>2 DEF LimitRefreshRates
<1>4. config.period \in Nat /\ config.period > 0
  BY <1>1, <1>2, PeriodIsPositive
<1>5. Rated(config)
  <2>1. config.rates \subseteq 1 .. 60
    BY <1>3
  <2>2. IsFiniteSet(1 .. 60)
    <3>1. 1 \in Int /\ 60 \in Int
      OBVIOUS
    <3>2. QED
      BY <3>1, FS_Interval
  <2>3. IsFiniteSet(config.rates) /\ config.rates \subseteq Nat
    BY <2>1, <2>2, FS_Subset
  <2>4. QED
    BY <1>4, <2>3 DEF Rated
<1>6. \A period \in ModePeriods(config) : period >= config.period
  <2>1. \A rate \in config.rates : RefreshRateToVsyncPeriodNanos(rate) >= config.period
    <3> TAKE rate \in config.rates
    <3>1. /\ RefreshRateToVsyncPeriodNanos(rate) \in Nat
          /\ RefreshRateToVsyncPeriodNanos(fps) <= RefreshRateToVsyncPeriodNanos(rate)
      BY <1>1, <1>3, PeriodIsPositive, PeriodsDecrease
    <3>2. QED
      BY <1>2, <1>4, <3>1
  <2>2. config.period \in ModePeriods(config)
    BY <1>4 DEF ModePeriods
  <2>3. \A period \in ModePeriods(config) :
           period = config.period
             \/ \E rate \in config.rates : period = RefreshRateToVsyncPeriodNanos(rate)
    BY <1>4, <2>2 DEF ModePeriods
  <2>4. QED
    BY <1>4, <2>1, <2>3
<1>7. \A mode \in BuildModes(config) : mode.period \in ModePeriods(config)
  BY DEF BuildModes
<1>8. QED
  BY <1>4, <1>5, <1>6, <1>7, InitialConfigIsAMode

\* The bounds that boot properties and snapshots have in common.
InBounds(config) ==
    /\ config.width \in Nat /\ config.width <= 7680
    /\ config.height \in Nat /\ config.height <= 7680
    /\ config.dpi \in Nat /\ config.dpi <= 640
    /\ config.rates \subseteq 1 .. 60
    /\ \E rate \in 1 .. 60 : config.period = RefreshRateToVsyncPeriodNanos(rate)

\* Such configurations are of the kind the mode table is built for.
LEMMA BoundedIsRated ==
    ASSUME NEW config, InBounds(config)
    PROVE  Rated(config)
<1>1. config.rates \subseteq 1 .. 60
  BY DEF InBounds
<1>2. IsFiniteSet(1 .. 60)
  <2>1. 1 \in Int /\ 60 \in Int
    OBVIOUS
  <2>2. QED
    BY <2>1, FS_Interval
<1>3. IsFiniteSet(config.rates)
  BY <1>1, <1>2, FS_Subset
<1>4. config.rates \subseteq Nat
  BY <1>1
<1>5. config.period \in Int
  <2>1. PICK rate \in 1 .. 60 : config.period = RefreshRateToVsyncPeriodNanos(rate)
    BY DEF InBounds
  <2>2. QED
    BY <2>1, PeriodIsPositive
<1>6. QED
  BY <1>3, <1>4, <1>5 DEF Rated

\* A client is told what the configuration and the mode say.
TellsExactly(config, mode) ==
    LET attributes == GetDisplayAttribute(config, mode)
    IN  /\ attributes.width = config.width
        /\ attributes.height = config.height
        /\ attributes.dpi = 1000 * config.dpi
        /\ attributes.vsync = mode.period

\* Within the bounds, narrowing to int32_t loses nothing, and a period is
\* short enough (Display::GetDisplayAttribute).
LEMMA BoundedIsExact ==
    ASSUME NEW config, InBounds(config), NEW mode \in BuildModes(config)
    PROVE  TellsExactly(config, mode)
<1>1. \A value \in 0 .. MaxInt32 : AsInt32(value) = value
  <2> TAKE value \in 0 .. MaxInt32
  <2>1. MaxInt32 \in Nat
    BY SMT, TableAssumption DEF TableAssumption
  <2>2. value % (2 * (MaxInt32 + 1)) = value
    BY <2>1
  <2>3. QED
    BY <2>1, <2>2 DEF AsInt32
<1>2. MaxInt32 \in Nat /\ MaxInt32 >= NanosPerSecond + 1 /\ MaxInt32 >= 640000 /\ NanosPerSecond \in Nat
  BY SMT, TableAssumption DEF TableAssumption
<1>3. /\ config.width \in Nat /\ config.width <= 7680
      /\ config.height \in Nat /\ config.height <= 7680
      /\ config.dpi \in Nat /\ config.dpi <= 640
  BY SMT DEF InBounds
<1>4. mode.period \in Nat /\ mode.period <= NanosPerSecond + 1
  <2>1. \E rate \in 1 .. 60 : mode.period = RefreshRateToVsyncPeriodNanos(rate)
    <3>1. mode.period \in ModePeriods(config)
      BY DEF BuildModes
    <3>2. 60 \in 1 .. 60
      OBVIOUS
    <3>3. QED
      BY <3>1, <3>2 DEF ModePeriods, InBounds
  <2>2. QED
    BY <2>1, PeriodIsPositive
<1>5. mode.period \in 0 .. MaxInt32
  BY SMT, <1>2, <1>4
<1>6. /\ config.width \in 0 .. MaxInt32 /\ config.height \in 0 .. MaxInt32
      /\ config.dpi * 1000 \in 0 .. MaxInt32 /\ config.dpi * 1000 = 1000 * config.dpi
  <2>1. \A value \in Nat : value <= 640 => /\ value * 1000 \in Nat
                                            /\ value * 1000 <= 640000
                                            /\ value * 1000 = 1000 * value
    BY SMT
  <2>2. config.dpi * 1000 \in Nat /\ config.dpi * 1000 <= 640000
    BY SMT, <1>3, <2>1
  <2>3. config.width \in 0 .. MaxInt32 /\ config.height \in 0 .. MaxInt32
    BY SMT, <1>2, <1>3
  <2>4. config.dpi * 1000 \in 0 .. MaxInt32
    BY SMT, <1>2, <2>2
  <2>5. QED
    BY SMT, <1>3, <2>1, <2>3, <2>4
<1>7. QED
  <2> DEFINE attributes == GetDisplayAttribute(config, mode)
  <2>1. /\ attributes.width = AsInt32(config.width)
        /\ attributes.height = AsInt32(config.height)
        /\ attributes.dpi = AsInt32(config.dpi * 1000)
        /\ attributes.vsync = AsInt32(mode.period)
    BY SMT DEF GetDisplayAttribute
  <2>2. QED
    BY SMT, <1>1, <1>5, <1>6, <2>1 DEF TellsExactly

\* The attributes a client reads of the primary display are those of its
\* configuration, whatever the boot properties say (LoadPrimaryDisplayConfig).
THEOREM AttributesAreExact ==
    ASSUME NEW config \in PrimaryConfigs, NEW mode \in BuildModes(config)
    PROVE  TellsExactly(config, mode)
<1> PICK boot \in [fps : Int, width : Int, height : Int, dpi : Int] :
            config = LoadPrimaryDisplayConfig(boot)
  BY DEF PrimaryConfigs
<1>1. /\ config.width = BoundedProperty(boot.width, 1920, 320, 7680)
      /\ config.height = BoundedProperty(boot.height, 1080, 320, 4320)
      /\ config.dpi = BoundedProperty(boot.dpi, 320, 72, 640)
  BY SMT DEF LoadPrimaryDisplayConfig
<1>2. config.width \in Nat /\ config.width <= 7680
  <2>1. 1920 \in 320 .. 7680 /\ 320 \in Nat /\ 7680 \in Nat
    BY SMT
  <2>2. QED
    BY SMT, <1>1, <2>1, PropertyIsBounded
<1>3. config.height \in Nat /\ config.height <= 7680
  <2>1. 1080 \in 320 .. 4320 /\ 320 \in Nat /\ 4320 \in Nat
    BY SMT
  <2>2. QED
    BY SMT, <1>1, <2>1, PropertyIsBounded
<1>4. config.dpi \in Nat /\ config.dpi <= 640
  <2>1. 320 \in 72 .. 640 /\ 72 \in Nat /\ 640 \in Nat
    BY SMT
  <2>2. QED
    BY SMT, <1>1, <2>1, PropertyIsBounded
<1>5. /\ config.rates \subseteq 1 .. 60
      /\ \E rate \in 1 .. 60 : config.period = RefreshRateToVsyncPeriodNanos(rate)
  <2> DEFINE fps == BoundedProperty(boot.fps, 60, 1, 60)
  <2>1. fps \in 1 .. 60
    BY DEF BoundedProperty
  <2>2. /\ config.rates = LimitRefreshRates({15, 30, 60}, fps)
        /\ config.period = RefreshRateToVsyncPeriodNanos(fps)
    BY SMT DEF LoadPrimaryDisplayConfig
  <2> HIDE DEF fps
  <2>3. QED
    BY <2>1, <2>2 DEF LimitRefreshRates
<1>6. InBounds(config)
  BY SMT, <1>2, <1>3, <1>4, <1>5 DEF InBounds
<1>7. QED
  BY <1>6, BoundedIsExact

----------------------------------------------------------------------------
(* Snapshots.                                                              *)

\* A display that converts is a valid external display, and keeps its port.
LEMMA ConvertedSpecIsValid ==
    ASSUME NEW source \in PhysicalDisplaySpec, ConvertsSpec(source)
    PROVE  LET config == ConvertDisplaySpec(source)
           IN  /\ config.id = source.displayId /\ config.port = source.port
               /\ config.id # Topology!kPrimaryDisplayId
               /\ Topology!IsValidExternalConfig(config)
<1> DEFINE config == ConvertDisplaySpec(source)
<1>1. /\ source.displayId \in Int /\ source.displayId > 1
      /\ source.port \in 1 .. 255
      /\ source.active \in 1 .. 60
      /\ source.supported \in Seq(Int) /\ source.named \in BOOLEAN
  BY SMT DEF PhysicalDisplaySpec, ConvertsSpec, kMaximumRefreshRateHz
<1>2. /\ source.width \in Nat /\ source.width # 0
      /\ source.height \in Nat /\ source.height # 0
      /\ source.dpi \in Nat /\ source.dpi # 0
  <2>1. \A length \in kMinimumDimension .. kMaximumDimension : length \in Nat /\ length # 0
    BY SMT DEF kMinimumDimension, kMaximumDimension
  <2>2. \A dpi \in kMinimumDpi .. kMaximumDpi : dpi \in Nat /\ dpi # 0
    BY SMT DEF kMinimumDpi, kMaximumDpi
  <2>3. QED
    BY Zenon, <2>1, <2>2 DEF ConvertsSpec
<1>3. /\ RefreshRateToVsyncPeriodNanos(source.active) \in Nat
      /\ RefreshRateToVsyncPeriodNanos(source.active) > 0
  BY <1>1, PeriodIsPositive
<1>4. source.port % 256 = source.port /\ source.port # 0
  <2>1. \A port \in 1 .. 255 : port % 256 = port /\ port # 0
    BY SMT
  <2>2. QED
    BY <1>1, <2>1
<1>5. /\ config.id = source.displayId
      /\ config.port = source.port % 256
      /\ config.spec = [width  |-> source.width, height |-> source.height,
                        dpi    |-> source.dpi, rates |-> source.supported,
                        period |-> RefreshRateToVsyncPeriodNanos(source.active),
                        named  |-> source.named]
  BY SMT DEF ConvertDisplaySpec
<1>6. /\ config.spec \in ConfigSpec
      /\ config.spec.width # 0 /\ config.spec.height # 0
      /\ config.spec.dpi # 0 /\ config.spec.period > 0
  BY SMT, <1>1, <1>2, <1>3, <1>5 DEF ConfigSpec
<1>7. config.id # 0 /\ config.id # 1
  BY SMT, <1>1, <1>5
<1>8. QED
  BY SMT, <1>4, <1>5, <1>6, <1>7
     DEF Topology!IsValidExternalConfig, Topology!kPrimaryDisplayId

\* The registry takes every snapshot that converts, and no port is changed by
\* its narrowing: an Apply that reaches ReplaceExternalDisplays succeeds
\* (ConvertSnapshot, DisplayTopology::ReplaceExternalDisplays).
THEOREM ConvertedIsAccepted ==
    ASSUME NEW displays \in Seq(PhysicalDisplaySpec), NEW generation \in Int,
           Converts(generation, displays)
    PROVE  LET converted == ConvertSnapshot(displays)
           IN  /\ Topology!CanReplace(converted)
               /\ \A i \in DOMAIN displays : /\ converted[i].id = displays[i].displayId
                                              /\ converted[i].port = displays[i].port
<1> DEFINE converted == ConvertSnapshot(displays)
<1>1. /\ DOMAIN converted = DOMAIN displays
      /\ \A i \in DOMAIN displays : converted[i] = ConvertDisplaySpec(displays[i])
  BY DEF ConvertSnapshot
<1>2. \A i \in DOMAIN displays :
         displays[i] \in PhysicalDisplaySpec /\ ConvertsSpec(displays[i])
  BY DEF Converts
<1>3. \A i \in DOMAIN displays :
         /\ converted[i].id = displays[i].displayId
         /\ converted[i].port = displays[i].port
         /\ converted[i].id # Topology!kPrimaryDisplayId
         /\ Topology!IsValidExternalConfig(converted[i])
  BY <1>1, <1>2, ConvertedSpecIsValid
<1>4. \A i, j \in DOMAIN converted :
         i # j => /\ converted[i].id # converted[j].id
                  /\ converted[i].port # converted[j].port
  BY DEF Converts
<1>5. QED
  BY <1>1, <1>3, <1>4 DEF Topology!CanReplace
----------------------------------------------------------------------------
(* Identities.                                                             *)

\* A sequence of several elements is the beginning of a concatenation.
LEMMA BeginningOfConcat ==
    ASSUME NEW s \in Seq(Int), NEW t \in Seq(Int), Len(s) >= 2
    PROVE  /\ s \o t \in Seq(Int)
           /\ Len(s \o t) >= 2
           /\ (s \o t)[1] = s[1]
BY SMT

\* The product code carries the whole port in its low byte.
LEMMA FirstByteIsThePort ==
    ASSUME NEW port \in 0 .. 255
    PROVE  Identity(port)[1] = port
<1>1. Product(port) % 256 = port
  <2>1. Product(port) = 4096 + port
    BY SMT DEF Product
  <2>2. (4096 + port) % 256 = port
    BY SMT
  <2>3. QED
    BY <2>1, <2>2
<1>2. Identity(port)[1] = Product(port) % 256
  <2>1. /\ Bytes16(Product(port)) = <<Product(port) % 256, (Product(port) \div 256) % 256>>
        /\ Product(port) \in Int
        /\ SerialLow(port) \in Int /\ SerialHigh(port) \in Int
    BY SMT DEF Bytes16, Product, SerialLow, SerialHigh
  <2>2. \A value \in Int : Bytes16(value) \in Seq(Int) /\ Len(Bytes16(value)) = 2
    BY SMT DEF Bytes16
  <2> DEFINE product == Bytes16(Product(port))
             low == Bytes16(SerialLow(port))
             high == Bytes16(SerialHigh(port))
  <2>3. /\ product \in Seq(Int) /\ Len(product) >= 2
        /\ low \in Seq(Int) /\ high \in Seq(Int)
    BY SMT, <2>1, <2>2
  <2>4. Identity(port) = (product \o low) \o high
    BY DEF Identity
  <2>5. product[1] = Product(port) % 256
    BY SMT, <2>1
  <2> HIDE DEF product, low, high
  <2>6. /\ product \o low \in Seq(Int) /\ Len(product \o low) >= 2
        /\ (product \o low)[1] = product[1]
    BY <2>3, BeginningOfConcat
  <2>7. ((product \o low) \o high)[1] = (product \o low)[1]
    BY <2>3, <2>6, BeginningOfConcat
  <2>8. QED
    BY <2>4, <2>5, <2>6, <2>7
<1>3. QED
  BY <1>1, <1>2, Zenon

\* Two displays never share an EDID identity: the ports of a topology differ,
\* and the product code carries the whole port (BuildEdid).
THEOREM IdentitiesDiffer ==
    ASSUME NEW p \in 0 .. 255, NEW q \in 0 .. 255, p # q
    PROVE  Identity(p) # Identity(q)
<1>1. Identity(p)[1] = p /\ Identity(q)[1] = q
  BY FirstByteIsThePort
<1>2. QED
  BY <1>1

\* A converted display as BuildModes takes it: the rates as a set.
ModeConfig(spec) ==
    [width  |-> spec.width, height |-> spec.height, dpi |-> spec.dpi,
     period |-> spec.period, rates |-> {spec.rates[i] : i \in DOMAIN spec.rates}]

\* What a snapshot can say is within the bounds, and the active rate is one of
\* the supported ones (ConvertDisplaySpec).
LEMMA ConvertedInBounds ==
    ASSUME NEW source \in PhysicalDisplaySpec, ConvertsSpec(source)
    PROVE  LET config == ModeConfig(ConvertDisplaySpec(source).spec)
           IN  /\ InBounds(config)
               /\ source.active \in config.rates
               /\ config.period = RefreshRateToVsyncPeriodNanos(source.active)
<1> DEFINE config == ModeConfig(ConvertDisplaySpec(source).spec)
<1>1. /\ config.width = source.width /\ config.height = source.height
      /\ config.dpi = source.dpi
      /\ config.rates = {source.supported[i] : i \in DOMAIN source.supported}
      /\ config.period = RefreshRateToVsyncPeriodNanos(source.active)
  BY SMT DEF ConvertDisplaySpec, ModeConfig
<1>2. /\ source.width \in Nat /\ source.width <= 7680
      /\ source.height \in Nat /\ source.height <= 7680
      /\ source.dpi \in Nat /\ source.dpi <= 640
  <2>1. \A length \in kMinimumDimension .. kMaximumDimension : /\ length \in Nat
                                                              /\ length <= kMaximumDimension
    BY SMT DEF kMinimumDimension, kMaximumDimension
  <2>2. \A dpi \in kMinimumDpi .. kMaximumDpi : dpi \in Nat /\ dpi <= kMaximumDpi
    BY SMT DEF kMinimumDpi, kMaximumDpi
  <2>3. /\ source.width \in Nat /\ source.width <= kMaximumDimension
        /\ source.height \in Nat /\ source.height <= kMaximumDimension
        /\ source.dpi \in Nat /\ source.dpi <= kMaximumDpi
    BY Zenon, <2>1, <2>2 DEF ConvertsSpec
  <2>4. QED
    BY SMT, <2>3 DEF kMaximumDimension, kMaximumDpi
<1>3. /\ source.active \in 1 .. 60
      /\ \A i \in DOMAIN source.supported : source.supported[i] \in 1 .. 60
      /\ \E i \in DOMAIN source.supported : source.supported[i] = source.active
  BY SMT DEF ConvertsSpec, kMaximumRefreshRateHz
<1>4. config.rates \subseteq 1 .. 60 /\ source.active \in config.rates
  BY <1>1, <1>3
<1> HIDE DEF config
<1>5. QED
  BY SMT, <1>1, <1>2, <1>3, <1>4 DEF InBounds, config

\* The attributes a client reads of an external display are those the snapshot
\* gave, whatever it gave (ConvertDisplaySpec, Display::GetDisplayAttribute).
THEOREM ConvertedAttributesAreExact ==
    ASSUME NEW source \in PhysicalDisplaySpec, ConvertsSpec(source),
           NEW mode \in BuildModes(ModeConfig(ConvertDisplaySpec(source).spec))
    PROVE  TellsExactly(ModeConfig(ConvertDisplaySpec(source).spec), mode)
  BY ConvertedInBounds, BoundedIsExact

\* Nanoseconds are fine enough to tell the rates apart: two rates of up to
\* 60 Hz have two periods, rounding included.
LEMMA PeriodsDiffer ==
    ASSUME NanosPerSecond >= 7200, NEW slow \in 1 .. 60, NEW fast \in 1 .. 60, slow < fast
    PROVE  RefreshRateToVsyncPeriodNanos(slow) # RefreshRateToVsyncPeriodNanos(fast)
<1> DEFINE p == RefreshRateToVsyncPeriodNanos(slow)
           q == RefreshRateToVsyncPeriodNanos(fast)
           N == NanosPerSecond
<1>1. N \in Nat
  BY TableAssumption DEF TableAssumption
<1>2. /\ p \in Nat /\ N + slow \div 2 < (p + 1) * slow
      /\ q \in Nat /\ q * fast <= N + fast \div 2
  BY RoundedDivision
<1>3. slow \in Nat /\ fast \in Nat /\ fast <= 60 /\ slow + 1 <= fast
  OBVIOUS
<1>4. slow \div 2 \in Nat /\ fast \div 2 \in Nat /\ fast \div 2 <= 30
  BY <1>3
<1> HIDE DEF p, q, N
<1>5. SUFFICES ASSUME p = q PROVE FALSE
  BY DEF p, q
<1>6. p * slow + p <= N + 30
  <2>1. p * (slow + 1) <= p * fast
    BY <1>2, <1>3
  <2>2. p * (slow + 1) = p * slow + p
    BY <1>2, <1>3
  <2>3. p * slow \in Nat /\ p * fast \in Nat
    BY <1>2, <1>3
  <2>4. QED
    BY <1>1, <1>2, <1>4, <1>5, <2>1, <2>2, <2>3
<1>7. N < p * slow + slow
  <2>1. (p + 1) * slow = p * slow + slow
    BY <1>2, <1>3
  <2>2. p * slow \in Nat
    BY <1>2, <1>3
  <2>3. QED
    BY <1>1, <1>2, <1>3, <1>4, <2>1, <2>2
<1>8. p < 90
  <2>1. p * slow \in Nat
    BY <1>2, <1>3
  <2>2. QED
    BY <1>1, <1>2, <1>3, <1>6, <1>7, <2>1
<1>9. p * slow <= 90 * slow
  BY <1>2, <1>3, <1>8
<1>10. N >= 7200
  BY DEF N
<1>11. QED
  BY SMT, <1>1, <1>2, <1>3, <1>7, <1>9, <1>10

\* An external display advertises one mode for each rate of the snapshot and no
\* other, and starts in the one of the active rate, although both periods are
\* rounded (ConvertDisplaySpec, BuildModes, FindInitialConfig).
THEOREM ConvertedModesAreItsRates ==
    ASSUME NanosPerSecond >= 7200,
           NEW source \in PhysicalDisplaySpec, ConvertsSpec(source)
    PROVE  LET config == ModeConfig(ConvertDisplaySpec(source).spec)
               modes == BuildModes(config)
           IN  /\ {mode.period : mode \in modes}
                     = {RefreshRateToVsyncPeriodNanos(rate) : rate \in config.rates}
               /\ \A r, s \in config.rates :
                     r # s => RefreshRateToVsyncPeriodNanos(r) # RefreshRateToVsyncPeriodNanos(s)
               /\ \E mode \in modes :
                     /\ mode.period = RefreshRateToVsyncPeriodNanos(source.active)
                     /\ mode.id = FindInitialConfig(modes, config.period)
<1> DEFINE config == ModeConfig(ConvertDisplaySpec(source).spec)
           modes == BuildModes(config)
<1>1. /\ config.rates \subseteq 1 .. 60
      /\ source.active \in config.rates
      /\ config.period = RefreshRateToVsyncPeriodNanos(source.active)
  BY ConvertedInBounds DEF InBounds
<1> HIDE DEF config
<1>2. \A rate \in config.rates : /\ RefreshRateToVsyncPeriodNanos(rate) \in Nat
                                 /\ RefreshRateToVsyncPeriodNanos(rate) > 0
  BY <1>1, PeriodIsPositive
<1>3. ModePeriods(config) = {RefreshRateToVsyncPeriodNanos(rate) : rate \in config.rates}
  <2> DEFINE periods == {RefreshRateToVsyncPeriodNanos(rate) : rate \in config.rates}
  <2>1. periods \cup {config.period} = periods
    BY <1>1
  <2>2. config.period \in periods /\ \A period \in periods : period > 0
    BY <1>1, <1>2
  <2>3. {period \in periods : period > 0} = periods /\ periods # {}
    BY <2>2
  <2> HIDE DEF periods
  <2>4. ModePeriods(config) = periods
    BY <2>1, <2>3 DEF ModePeriods, periods
  <2>5. QED
    BY <2>4 DEF periods
<1>4. {mode.period : mode \in modes} = ModePeriods(config)
  <2>1. \A mode \in modes : mode.period \in ModePeriods(config)
    BY DEF BuildModes
  <2>2. \A period \in ModePeriods(config) : \E mode \in modes : mode.period = period
    <3> TAKE period \in ModePeriods(config)
    <3>1. [id |-> IdIn(period, ModePeriods(config)), period |-> period] \in modes
      BY DEF BuildModes
    <3>2. QED
      BY <3>1
  <2> HIDE DEF modes
  <2>3. QED
    BY <2>1, <2>2
<1>5. \A r, s \in config.rates :
         r # s => RefreshRateToVsyncPeriodNanos(r) # RefreshRateToVsyncPeriodNanos(s)
  <2> SUFFICES ASSUME NEW r \in config.rates, NEW s \in config.rates, r # s
               PROVE  RefreshRateToVsyncPeriodNanos(r) # RefreshRateToVsyncPeriodNanos(s)
    OBVIOUS
  <2>1. r \in 1 .. 60 /\ s \in 1 .. 60
    BY <1>1
  <2>2. r < s \/ s < r
    BY <2>1
  <2>3. QED
    BY <2>1, <2>2, PeriodsDiffer
<1>6. Rated(config)
  BY ConvertedInBounds, BoundedIsRated DEF config
<1>7. \E mode \in modes : /\ mode.period = config.period
                          /\ mode.id = FindInitialConfig(modes, config.period)
  BY <1>1, <1>2, <1>6, InitialConfigIsAMode
<1>8. QED
  BY <1>1, <1>3, <1>4, <1>5, <1>7 DEF config

----------------------------------------------------------------------------
(* The checksum.  std::accumulate is a recursive function; what it returns *)
(* is proved from the least number for which it would not.                 *)

Less == {pair \in Nat \X Nat : pair[1] < pair[2]}

\* A set of natural numbers has a least one.
LEMMA LeastNatural ==
    ASSUME NEW T, T \subseteq Nat, T # {}
    PROVE  \E x \in T : \A y \in T : x <= y
<1>1. IsWellFoundedOn(Less, Nat)
  BY NatLessThanWellFounded DEF OpToRel, Less
<1>2. PICK x \in T : \A y \in T : ~ (<<y, x>> \in Less)
  BY <1>1, WFMin
<1>3. ASSUME NEW y \in T PROVE x <= y
  <2>1. x \in Nat /\ y \in Nat
    OBVIOUS
  <2>2. y < x => <<y, x>> \in Less
    BY <2>1 DEF Less
  <2>3. QED
    BY <1>2, <2>1, <2>2
<1>4. QED
  BY <1>3

\* What the recursion defines: the sums of the first bytes.
NextSum(edid, sum, n) == IF n = 0 THEN 0 ELSE (sum[n - 1] + edid[n - 1]) % 256
AreSums(edid, count, sum) == sum = [n \in 0 .. count |-> NextSum(edid, sum, n)]

HasBytes(edid, count) == \A i \in 0 .. count - 1 : edid[i] \in Byte
Agree(edid, other, count) == \A i \in 0 .. count - 1 : edid[i] = other[i]

\* There are such sums, for every number of bytes.
LEMMA SumsExist ==
    ASSUME NEW edid, NEW count \in Nat
    PROVE  \E sum : AreSums(edid, count, sum)
<1> DEFINE Without == {n \in Nat : ~ \E sum : AreSums(edid, n, sum)}
<1>1. SUFFICES ASSUME Without # {} PROVE FALSE
  OBVIOUS
<1> HIDE DEF Without
<1>2. PICK n \in Without : \A m \in Without : n <= m
  BY <1>1, LeastNatural DEF Without
<1>3. n \in Nat /\ ~ \E sum : AreSums(edid, n, sum)
  BY DEF Without
<1>4. CASE n = 0
  <2> DEFINE none == [i \in 0 .. 0 |-> 0]
  <2>1. none = [i \in 0 .. 0 |-> NextSum(edid, none, i)]
    BY DEF NextSum
  <2>2. QED
    BY <1>3, <1>4, <2>1 DEF AreSums
<1>5. CASE n # 0
  <2>1. n - 1 \in Nat /\ n - 1 \notin Without
    BY <1>2, <1>3, <1>5
  <2>2. PICK sum : AreSums(edid, n - 1, sum)
    BY <2>1 DEF Without
  <2> DEFINE longer == [i \in 0 .. n |-> IF i = n THEN (sum[n - 1] + edid[n - 1]) % 256
                                         ELSE sum[i]]
  <2>3. ASSUME NEW i \in 0 .. n PROVE longer[i] = NextSum(edid, longer, i)
    <3>1. CASE i = n
      <4>1. longer[i - 1] = sum[n - 1] /\ i # 0
        BY <1>3, <1>5, <3>1
      <4>2. QED
        BY <3>1, <4>1 DEF NextSum
    <3>2. CASE i # n
      <4>1. i \in 0 .. n - 1
        BY <1>3, <3>2
      <4>2. sum[i] = NextSum(edid, sum, i)
        BY <2>2, <4>1 DEF AreSums
      <4>3. i # 0 => longer[i - 1] = sum[i - 1]
        BY <1>3, <4>1
      <4>4. QED
        BY <1>3, <3>2, <4>2, <4>3 DEF NextSum
    <3>3. QED
      BY <3>1, <3>2
  <2>4. longer = [i \in 0 .. n |-> NextSum(edid, longer, i)]
    BY <2>3
  <2>5. QED
    BY <1>3, <2>4 DEF AreSums
<1>6. QED
  BY <1>4, <1>5

\* Modulo 256 everything is a byte.
LEMMA ByteSum ==
    ASSUME NEW a \in Int, NEW b \in Int
    PROVE  (a + b) % 256 \in Byte /\ (a - b) % 256 \in Byte
<1>1. \A c \in Int : c % 256 \in Byte
  BY SMT DEF Byte
<1>2. a + b \in Int /\ a - b \in Int
  OBVIOUS
<1>3. QED
  BY <1>1, <1>2

\* The sums of bytes are bytes.
LEMMA SumsAreBytes ==
    ASSUME NEW count \in Nat, NEW edid, HasBytes(edid, count),
           NEW sum, AreSums(edid, count, sum)
    PROVE  \A n \in 0 .. count : sum[n] \in Byte
<1> DEFINE Wrong == {n \in 0 .. count : sum[n] \notin Byte}
<1>1. SUFFICES ASSUME Wrong # {} PROVE FALSE
  OBVIOUS
<1> HIDE DEF Wrong
<1>2. PICK n \in Wrong : \A m \in Wrong : n <= m
  <2>1. Wrong \subseteq Nat
    BY DEF Wrong
  <2>2. QED
    BY <1>1, <2>1, LeastNatural
<1>3. n \in 0 .. count /\ sum[n] \notin Byte /\ sum[n] = NextSum(edid, sum, n)
  BY DEF Wrong, AreSums
<1>4. n # 0
  BY <1>3 DEF NextSum, Byte
<1>5. n - 1 \in 0 .. count - 1 /\ n - 1 \notin Wrong
  BY <1>2, <1>3, <1>4
<1>6. sum[n - 1] \in Byte /\ edid[n - 1] \in Byte
  BY <1>5 DEF Wrong, HasBytes
<1>7. (sum[n - 1] + edid[n - 1]) % 256 \in Byte
  <2>1. sum[n - 1] \in Int /\ edid[n - 1] \in Int
    BY <1>6, SMT DEF Byte
  <2>2. QED
    BY <2>1, ByteSum
<1>8. QED
  BY <1>3, <1>4, <1>7 DEF NextSum

\* The sums over equal bytes are equal, whatever follows them.
LEMMA SumsDependOnTheirBytes ==
    ASSUME NEW c \in Nat, NEW d \in Nat, NEW n \in Nat, n <= c, n <= d,
           NEW edid, NEW other, Agree(edid, other, n),
           NEW f, AreSums(edid, c, f), NEW g, AreSums(other, d, g)
    PROVE  f[n] = g[n]
<1> DEFINE Apart == {m \in 0 .. n : f[m] # g[m]}
<1>1. SUFFICES ASSUME Apart # {} PROVE FALSE
  BY n \in 0 .. n
<1> HIDE DEF Apart
<1>2. PICK m \in Apart : \A k \in Apart : m <= k
  <2>1. Apart \subseteq Nat
    BY DEF Apart
  <2>2. QED
    BY <1>1, <2>1, LeastNatural
<1>3. m \in 0 .. n /\ m \in 0 .. c /\ m \in 0 .. d /\ f[m] # g[m]
  BY DEF Apart
<1>4. f[m] = NextSum(edid, f, m) /\ g[m] = NextSum(other, g, m)
  BY <1>3 DEF AreSums
<1>5. m # 0
  BY <1>3, <1>4 DEF NextSum
<1>6. m - 1 \in 0 .. n - 1 /\ m - 1 \in 0 .. n /\ m - 1 \notin Apart
  BY <1>2, <1>3, <1>5
<1>7. f[m - 1] = g[m - 1] /\ edid[m - 1] = other[m - 1]
  BY <1>6 DEF Apart, Agree
<1>8. QED
  BY <1>3, <1>4, <1>5, <1>7 DEF NextSum

\* The last sum adds the last byte.
LEMMA LastSum ==
    ASSUME NEW count \in Nat, count # 0, NEW edid, NEW sum, AreSums(edid, count, sum)
    PROVE  sum[count] = (sum[count - 1] + edid[count - 1]) % 256
BY count \in 0 .. count DEF AreSums, NextSum

\* Accumulate is one of them.
LEMMA AccumulateIsASum ==
    ASSUME NEW edid, NEW count \in Nat
    PROVE  \E sum : AreSums(edid, count, sum) /\ Accumulate(edid, count) = sum[count]
<1> DEFINE sum == CHOOSE f : f = [n \in 0 .. count |-> NextSum(edid, f, n)]
<1>1. \E f : f = [n \in 0 .. count |-> NextSum(edid, f, n)]
  BY SumsExist DEF AreSums
<1>2. sum = [n \in 0 .. count |-> NextSum(edid, sum, n)]
  BY <1>1
<1>3. Accumulate(edid, count) = sum[count]
  BY Zenon DEF Accumulate, NextSum
<1>4. QED
  BY <1>2, <1>3 DEF AreSums

\* A byte that completes the sum of those before it makes the sum zero.
LEMMA CompletedSum ==
    ASSUME NEW count \in Nat, NEW edid, NEW whole,
           HasBytes(edid, count), Agree(edid, whole, count),
           whole[count] = (256 - Accumulate(edid, count)) % 256
    PROVE  whole[count] \in Byte /\ Accumulate(whole, count + 1) = 0
<1>1. PICK f : AreSums(edid, count, f) /\ Accumulate(edid, count) = f[count]
  BY AccumulateIsASum
<1>2. PICK g : AreSums(whole, count + 1, g) /\ Accumulate(whole, count + 1) = g[count + 1]
  BY AccumulateIsASum
<1>3. f[count] \in Byte
  BY <1>1, SumsAreBytes, count \in 0 .. count
<1>4. g[count] = f[count]
  <2>1. count + 1 \in Nat /\ count <= count + 1 /\ count <= count
    OBVIOUS
  <2>2. QED
    BY <1>1, <1>2, <2>1, SumsDependOnTheirBytes
<1>5. g[count + 1] = (g[count] + whole[count]) % 256
  <2>1. count + 1 \in Nat /\ count + 1 # 0 /\ (count + 1) - 1 = count
    OBVIOUS
  <2>2. g[count + 1] = (g[(count + 1) - 1] + whole[(count + 1) - 1]) % 256
    BY <1>2, <2>1, LastSum
  <2>3. QED
    BY <2>1, <2>2
<1>6. ASSUME NEW s \in Byte, NEW w, w = (256 - s) % 256
      PROVE  (s + w) % 256 = 0
  BY <1>6, SMT DEF Byte
<1>7. g[count + 1] = (f[count] + whole[count]) % 256
  BY <1>4, <1>5
<1>8. whole[count] = (256 - f[count]) % 256
  BY <1>1
<1>9. whole[count] \in Byte
  <2>1. f[count] \in Int /\ 256 \in Int
    BY <1>3, SMT DEF Byte
  <2>2. QED
    BY <1>8, <2>1, ByteSum
<1>10. g[count + 1] = 0
  BY <1>3, <1>6, <1>7, <1>8
<1>11. QED
  BY <1>2, <1>9, <1>10

\* The byte that BuildEdid writes last completes any 127 bytes.
LEMMA LastByteCompletes ==
    ASSUME NEW edid \in [Offsets -> Byte],
           NEW whole, whole = [edid EXCEPT ![127] = (256 - Accumulate(edid, 127)) % 256]
    PROVE  whole \in [Offsets -> Byte] /\ Accumulate(whole, 128) = 0
<1>1. PICK last \in Nat : last = 127 /\ last + 1 = 128
  BY SMT
<1>2. /\ last \in Offsets
      /\ \A i \in 0 .. last - 1 : i \in Offsets /\ i # last
  BY <1>1, SMT DEF Offsets
<1>3. whole = [edid EXCEPT ![last] = (256 - Accumulate(edid, last)) % 256]
  BY <1>1, Zenon
<1>4. whole[last] \in Byte /\ Accumulate(whole, last + 1) = 0
  <2>1. /\ HasBytes(edid, last)
        /\ Agree(edid, whole, last)
        /\ whole[last] = (256 - Accumulate(edid, last)) % 256
    BY <1>2, <1>3 DEF HasBytes, Agree
  <2>2. QED
    BY <2>1, CompletedSum
<1>5. whole \in [Offsets -> Byte]
  BY <1>2, <1>3, <1>4
<1>6. QED
  BY <1>1, <1>4, <1>5

\* A text descriptor consists of bytes if its text does.
LEMMA DescriptorHasBytes ==
    ASSUME NEW edid \in [Offsets -> Byte], NEW offset \in {72, 90}, NEW type \in Byte,
           NEW name \in Seq(Byte)
    PROVE  WriteTextDescriptor(edid, offset, type, name) \in [Offsets -> Byte]
<1>1. Text(name) \in [1 .. 13 -> Byte]
  <2>1. \A i \in 1 .. Len(name) : name[i] \in Byte
    OBVIOUS
  <2>2. 10 \in Byte /\ 32 \in Byte
    BY SMT DEF Byte
  <2>3. Len(name) \in Nat
    OBVIOUS
  <2> DEFINE length == IF Len(name) < 12 THEN Len(name) ELSE 12
  <2>4. \A i \in 1 .. 13 : i <= length => i \in 1 .. Len(name)
    BY <2>3, SMT
  <2>5. QED
    BY <2>1, <2>2, <2>4 DEF Text
<1>2. ASSUME NEW i \in Offsets, i \in offset .. offset + 17, i >= offset + 5
      PROVE  Text(name)[i - offset - 4] \in Byte
  <2>1. i - offset - 4 \in 1 .. 13
    BY <1>2, SMT DEF Offsets
  <2>2. QED
    BY <1>1, <2>1
<1>3. 0 \in Byte
  BY SMT DEF Byte
<1>4. QED
  BY <1>2, <1>3 DEF WriteTextDescriptor

\* An identity is six bytes.
LEMMA IdentityBytes ==
    ASSUME NEW port \in 0 .. 255
    PROVE  \A i \in 10 .. 15 : Identity(port)[i - 9] \in Byte
<1>1. ASSUME NEW value \in Int
      PROVE  Bytes16(value) \in [1 .. 2 -> Byte] /\ Bytes16(value) \in Seq(Byte)
  <2>1. value % 256 \in Byte /\ (value \div 256) % 256 \in Byte
    BY SMT DEF Byte
  <2>2. QED
    BY <2>1 DEF Bytes16
<1>2. Product(port) \in Int /\ SerialLow(port) \in Int /\ SerialHigh(port) \in Int
  BY SMT DEF Product, SerialLow, SerialHigh
<1>3. ASSUME NEW S, NEW a \in Seq(S), NEW b \in Seq(S), NEW c \in Seq(S),
             Len(a) = 2, Len(b) = 2, Len(c) = 2, NEW k \in 1 .. 6
      PROVE  ((a \o b) \o c)[k] \in S
  <2>1. (a \o b) \o c \in Seq(S) /\ Len((a \o b) \o c) = 6
    BY <1>3
  <2>2. QED
    BY <1>3, <2>1
<1>4. ASSUME NEW value \in Int PROVE Len(Bytes16(value)) = 2
  BY DEF Bytes16
<1>5. \A k \in 1 .. 6 : Identity(port)[k] \in Byte
  BY <1>1, <1>2, <1>3, <1>4 DEF Identity
<1>6. \A i \in 10 .. 15 : i - 9 \in 1 .. 6
  BY SMT
<1>7. QED
  BY <1>5, <1>6

\* So are the texts of the serial.
LEMMA SerialTextBytes ==
    ASSUME NEW port
    PROVE  SerialText(port) \in Seq(Byte)
<1>1. ASSUME NEW S, NEW a \in Seq(S), NEW b \in Seq(S)
      PROVE  a \o b \in Seq(S)
  OBVIOUS
<1>2. \A c \in {45, 65, 68, 70, 71, 73, 76, 77, 80, 82, 83, 89} : c \in Byte
  BY SMT DEF Byte
<1>3. /\ <<70, 76, 82, 45>> \in Seq(Byte)
      /\ <<80, 82, 73, 77, 65, 82, 89>> \in Seq(Byte)
      /\ <<68, 73, 83, 80, 76, 65, 89>> \in Seq(Byte)
  BY <1>2
<1>4. QED
  BY <1>1, <1>3 DEF SerialText

\* Every EDID the device answers consists of 128 bytes with the header and a
\* checksum of zero, whatever the port and the name (the getter of the
\* identification data, and HasValidEdidChecksum of the tests).
THEOREM BuiltEdidIsValid ==
    ASSUME NEW port \in 0 .. 255, NEW name \in Seq(Byte)
    PROVE  /\ BuildEdid(port, name) \in [Offsets -> Byte]
           /\ HasValidEdidChecksum(BuildEdid(port, name))
<1> DEFINE identified == [i \in Offsets |->
               IF i \in 10 .. 15 THEN Identity(port)[i - 9] ELSE Fixed[i]]
           named == WriteTextDescriptor(identified, 72, 252, name)
           edid == WriteTextDescriptor(named, 90, 255, SerialText(port))
           whole == [edid EXCEPT ![127] = (256 - Accumulate(edid, 127)) % 256]
<1>1. identified \in [Offsets -> Byte]
  <2>1. \A i \in 10 .. 15 : Identity(port)[i - 9] \in Byte
    BY IdentityBytes
  <2>2. \A i \in Offsets : Fixed[i] \in Byte
    BY EdidAssumption DEF EdidAssumption
  <2>3. QED
    BY <2>1, <2>2
<1>2. named \in [Offsets -> Byte]
  <2>1. 252 \in Byte
    BY SMT DEF Byte
  <2>2. QED
    BY <1>1, <2>1, DescriptorHasBytes
<1>3. edid \in [Offsets -> Byte]
  <2>1. 255 \in Byte /\ SerialText(port) \in Seq(Byte)
    BY SerialTextBytes, SMT DEF Byte
  <2>2. QED
    BY <1>2, <2>1, DescriptorHasBytes
<1>4. BuildEdid(port, name) = whole
  BY DEF BuildEdid
<1> HIDE DEF edid
<1>5. whole \in [Offsets -> Byte] /\ Accumulate(whole, 128) = 0
  BY <1>3, LastByteCompletes
<1>6. \A i \in 0 .. 7 : whole[i] = Fixed[i]
  <2> TAKE i \in 0 .. 7
  <2>1. i \in Offsets /\ i # 127 /\ i \notin 72 .. 72 + 17 /\ i \notin 90 .. 90 + 17
        /\ i \notin 10 .. 15
    BY SMT DEF Offsets
  <2>2. identified[i] = Fixed[i]
    BY <2>1
  <2>3. edid[i] = Fixed[i]
    BY <2>1, <2>2 DEF edid, WriteTextDescriptor
  <2>4. QED
    BY <1>3, <2>1, <2>3
<1>7. QED
  BY <1>4, <1>5, <1>6 DEF HasValidEdidChecksum

\* What is written after the identity and the name leaves them alone.
LEMMA FieldsSurvive ==
    ASSUME NEW port \in 0 .. 255, NEW name \in Seq(Byte)
    PROVE  /\ BuildEdid(port, name)[10] = Identity(port)[1]
           /\ \A i \in 1 .. 13 : BuildEdid(port, name)[76 + i] = Text(name)[i]
<1> DEFINE identified == [i \in Offsets |->
               IF i \in 10 .. 15 THEN Identity(port)[i - 9] ELSE Fixed[i]]
           named == WriteTextDescriptor(identified, 72, 252, name)
           edid == WriteTextDescriptor(named, 90, 255, SerialText(port))
<1>1. BuildEdid(port, name) = [edid EXCEPT ![127] = (256 - Accumulate(edid, 127)) % 256]
  BY DEF BuildEdid
<1>2. ASSUME NEW i \in Offsets, i \notin 90 .. 90 + 17, i # 127
      PROVE  BuildEdid(port, name)[i] = named[i]
  <2>1. edid \in [Offsets -> {edid[j] : j \in Offsets}]
    BY DEF WriteTextDescriptor
  <2>2. edid[i] = named[i]
    BY <1>2 DEF WriteTextDescriptor
  <2> HIDE DEF edid, named
  <2>3. QED
    BY <1>1, <1>2, <2>1, <2>2
<1>3. BuildEdid(port, name)[10] = Identity(port)[1]
  <2>1. /\ 10 \in Offsets /\ 10 \in 10 .. 15 /\ 10 - 9 = 1 /\ 10 # 127
        /\ 10 \notin 90 .. 90 + 17 /\ 10 \notin 72 .. 72 + 17
    BY SMT DEF Offsets
  <2>2. identified[10] = Identity(port)[1]
    BY <2>1
  <2>3. named[10] = identified[10]
    BY <2>1 DEF WriteTextDescriptor
  <2> HIDE DEF identified, named, edid
  <2>4. BuildEdid(port, name)[10] = named[10]
    BY <1>2, <2>1
  <2>5. QED
    BY <2>2, <2>3, <2>4
<1>4. ASSUME NEW i \in 1 .. 13
      PROVE  BuildEdid(port, name)[76 + i] = Text(name)[i]
  <2> DEFINE place == 76 + i
  <2>1. /\ place \in Offsets /\ place # 127 /\ place \notin 90 .. 90 + 17
        /\ place \in 72 .. 72 + 17 /\ place >= 72 + 5 /\ place - 72 - 4 = i
    BY SMT DEF Offsets
  <2> HIDE DEF place
  <2>2. named[place] = Text(name)[i]
    BY <2>1 DEF WriteTextDescriptor
  <2>3. BuildEdid(port, name)[place] = named[place]
    BY <1>2, <2>1
  <2>4. QED
    BY <2>2, <2>3 DEF place
<1>5. QED
  BY <1>3, <1>4

\* No two ports share an EDID, whatever the displays are called: nothing that
\* is written after the product code touches its byte that carries the port.
THEOREM EdidsDiffer ==
    ASSUME NEW p \in 0 .. 255, NEW q \in 0 .. 255, p # q,
           NEW name \in Seq(Byte), NEW other \in Seq(Byte)
    PROVE  BuildEdid(p, name) # BuildEdid(q, other)
<1>1. BuildEdid(p, name)[10] = Identity(p)[1] /\ BuildEdid(q, other)[10] = Identity(q)[1]
  BY FieldsSurvive
<1>2. Identity(p)[1] = p /\ Identity(q)[1] = q
  BY FirstByteIsThePort
<1>3. BuildEdid(p, name)[10] = p /\ BuildEdid(q, other)[10] = q
  BY <1>1, <1>2, Zenon
<1>4. QED
  BY <1>3, Zenon

\* A monitor shows up under its name: the descriptor holds the first twelve
\* characters, the line feed that ends them and spaces up to its end, and
\* neither the serial's descriptor nor the checksum overwrites it.
THEOREM EdidTellsTheName ==
    ASSUME NEW port \in 0 .. 255, NEW name \in Seq(Byte),
           NEW length, length = IF Len(name) < 12 THEN Len(name) ELSE 12
    PROVE  LET text(i) == BuildEdid(port, name)[76 + i]
           IN  /\ \A i \in 1 .. length : text(i) = name[i]
               /\ text(length + 1) = 10
               /\ \A i \in length + 2 .. 13 : text(i) = 32
<1>1. length \in Nat /\ length <= 12
  BY SMT
<1>2. \A i \in 1 .. 13 : Text(name)[i] = IF i <= length THEN name[i]
                                         ELSE IF i = length + 1 THEN 10 ELSE 32
  BY DEF Text
<1>3. /\ \A i \in 1 .. length : i \in 1 .. 13 /\ i <= length
      /\ length + 1 \in 1 .. 13 /\ ~(length + 1 <= length)
      /\ \A i \in length + 2 .. 13 : i \in 1 .. 13 /\ ~(i <= length) /\ i # length + 1
  BY <1>1, SMT
<1> DEFINE text(i) == BuildEdid(port, name)[76 + i]
<1>4. \A i \in 1 .. 13 : text(i) = Text(name)[i]
  BY FieldsSurvive
<1> HIDE DEF text
<1>5. ASSUME NEW i \in 1 .. length PROVE text(i) = name[i]
  BY <1>2, <1>3, <1>4
<1>6. text(length + 1) = 10
  BY <1>2, <1>3, <1>4
<1>7. ASSUME NEW i \in length + 2 .. 13 PROVE text(i) = 32
  <2>1. i \in 1 .. 13 /\ ~(i <= length) /\ i # length + 1
    BY <1>1, SMT
  <2>2. QED
    BY <1>2, <1>4, <2>1
<1>8. QED
  BY <1>5, <1>6, <1>7 DEF text
----------------------------------------------------------------------------
(* Client targets.                                                         *)

\* A resolved stride is the number of pixels of a row, for every value the
\* allocator may report: nothing overflows or is cut off (ResolveStride).
THEOREM StrideIsExact ==
    ASSUME NEW plane \in PlaneLayout, ResolveStride(plane) # None
    PROVE  /\ ResolveStride(plane) \in 1 .. MaxUint32
           /\ ResolveStride(plane) * plane.sampleIncrementInBits = 8 * plane.strideInBytes
<1> DEFINE bytes == plane.strideInBytes
           sample == plane.sampleIncrementInBits
           strideBits == (bytes * 8) % (2 * (MaxInt64 + 1))
           quotient == strideBits \div sample
<1>1. /\ bytes > 0 /\ sample > 0 /\ bytes <= MaxInt64 \div 8
      /\ strideBits % sample = 0
      /\ ResolveStride(plane) = ToPositiveUint32(quotient)
  BY DEF ResolveStride
<1>2. bytes \in Int /\ sample \in Int /\ MaxInt64 \in Nat
  BY SMT, ResolverAssumption DEF ResolverAssumption, PlaneLayout, Int64
<1>3. ResolveStride(plane) = quotient /\ quotient \in 1 .. MaxUint32
  BY <1>1 DEF ToPositiveUint32
<1> HIDE DEF bytes, sample
<1>4. bytes * 8 <= MaxInt64 /\ bytes * 8 \in Nat
  <2>1. 8 * (MaxInt64 \div 8) <= MaxInt64 /\ MaxInt64 \div 8 \in Nat
    BY SMT, <1>2
  <2>2. QED
    BY SMT, <1>1, <1>2, <2>1
<1>5. strideBits = bytes * 8
  BY SMT, <1>2, <1>4
<1> HIDE DEF strideBits
<1>6. strideBits = sample * quotient + (strideBits % sample)
  BY SMT, <1>1, <1>2, <1>4, <1>5
<1> HIDE DEF quotient
<1>7. quotient \in Int
  BY SMT, <1>3
<1>8. quotient * sample = 8 * bytes
  BY SMT, <1>1, <1>2, <1>4, <1>5, <1>6, <1>7
<1>9. QED
  BY <1>3, <1>8 DEF bytes, sample

\* Whatever the metadata interfaces answer, a target that resolves has the
\* display's dimensions, an identity, layers and a stride (Resolve): what
\* RegisterBuffer is then told of it.
THEOREM ResolvedTargetsAreUsable ==
    ASSUME NEW floral \in FloralMetadata \cup {None},
           NEW standard \in StandardMetadata \cup {None},
           NEW width, NEW height, Resolve(floral, standard, width, height) # None
    PROVE  LET target == Resolve(floral, standard, width, height)
           IN  /\ target.width = width /\ target.height = height
               /\ target.identity # 0 /\ target.format # 0
               /\ target.layers \in 1 .. MaxUint32 /\ target.stride \in 1 .. MaxUint32
<1> DEFINE target == Resolve(floral, standard, width, height)
<1>1. CASE ResolveFloralMetadata(floral, width, height) # None
  <2>1. /\ floral # None /\ target = Target(floral, floral.stride, floral.protected)
        /\ floral.layers # 0 /\ floral.stride # 0 /\ floral.buffer_id # 0
        /\ floral.format # 0 /\ floral.width = width /\ floral.height = height
    BY <1>1 DEF Resolve, ResolveFloralMetadata
  <2>2. floral.layers \in Uint32 /\ floral.stride \in Uint32
    BY <2>1 DEF FloralMetadata
  <2>3. floral.layers \in 1 .. MaxUint32 /\ floral.stride \in 1 .. MaxUint32
    BY SMT, <2>1, <2>2, ResolverAssumption DEF Uint32, ResolverAssumption
  <2>4. QED
    BY <2>1, <2>3 DEF Target
<1>2. CASE ResolveFloralMetadata(floral, width, height) = None
  <2>1. target = ResolveStandardMetadata(standard, width, height)
    BY <1>2 DEF Resolve
  <2>2. /\ standard # None
        /\ target = Target(standard, ResolveStride(standard.plane),
                           standard.protected \/ standard.usageProtected)
        /\ ToPositiveUint32(standard.layers) # None
        /\ ResolveStride(standard.plane) # None
        /\ standard.width = width /\ standard.height = height
        /\ standard.format # 0 /\ standard.buffer_id # 0
    BY <2>1 DEF ResolveStandardMetadata
  <2>3. standard.layers \in 1 .. MaxUint32
    BY <2>2 DEF ToPositiveUint32
  <2>4. ResolveStride(standard.plane) \in 1 .. MaxUint32
    BY <2>2 DEF ResolveStride, ToPositiveUint32
  <2>5. QED
    BY <2>2, <2>3, <2>4 DEF Target
<1>3. QED
  BY <1>1, <1>2
=============================================================================
