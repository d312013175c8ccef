--------------------------- MODULE MCDisplayModes ---------------------------
EXTENDS DisplayModes, DisplayModeTable

\* A display of three modes that starts in the slowest one: with a second of
\* 60 ticks their periods are 3, 2 and 1.
MCDisplay == [rates |-> {20, 30, 60}, period |-> RefreshRateToVsyncPeriodNanos(20)]

MCModes   == BuildModes(MCDisplay)
MCConfigs == {mode.id : mode \in MCModes}
MCPeriod  == [c \in MCConfigs |-> (CHOOSE mode \in FindMode(MCModes, c) : TRUE).period]
MCInitial == FindInitialConfig(MCModes, MCDisplay.period)

----------------------------------------------------------------------------
(* The tables of the real second, over every limit that can be set.  TLC   *)
(* computes with 32 bits: the word below is the largest whose double fits. *)

Real == INSTANCE DisplayModeTable
            WITH NanosPerSecond <- 1000000000, MaxInt32 <- 1073741822

PrimaryOf(fps) ==
    Real!LoadPrimaryDisplayConfig([width |-> 1280, height |-> 5000, dpi |-> -1, fps |-> fps])

\* tests/DisplayConfigTest.cpp, and the fallback of an invalid property.
ASSUME
    /\ Real!LimitRefreshRates({60, 15, 30, 0}, 24) = {15, 24}
    /\ Real!LimitRefreshRates({60, 15, 30, 0}, 0) = {}
    /\ Real!RefreshRateToVsyncPeriodNanos(15) = 66666667
    /\ Real!RefreshRateToVsyncPeriodNanos(60) = 16666667
    /\ PrimaryOf(61).rates = {15, 30, 60}
    /\ PrimaryOf(24).width = 1280 /\ PrimaryOf(24).height = 1080 /\ PrimaryOf(24).dpi = 320

\* The ids are the indices of the modes, slowest first: the reference is a
\* table in which each mode is faster than the one before it.
ASSUME
    \A rates \in SUBSET {0, 15, 24, 30, 60}, initial \in {0, 24, 30} :
        LET modes == Real!BuildModes([rates  |-> rates,
                                      period |-> Real!RefreshRateToVsyncPeriodNanos(initial)])
        IN  /\ {mode.id : mode \in modes} = 0 .. Cardinality(modes) - 1
            /\ \A m, n \in modes : m.id < n.id <=> m.period > n.period
            /\ \A rate \in rates \cup {initial} : rate > 0 =>
                  \E mode \in modes : mode.period = Real!RefreshRateToVsyncPeriodNanos(rate)

\* The limit is advertised, nothing exceeds it, and the display starts in it.
ASSUME
    \A fps \in 1 .. 60 :
        LET config == PrimaryOf(fps)
            modes  == Real!BuildModes(config)
        IN  /\ \A mode \in modes : mode.period >= config.period
            /\ \A mode \in modes : Real!GetDisplayAttribute(config, mode).vsync = mode.period
            /\ \A mode \in Real!FindMode(modes, Real!FindInitialConfig(modes, config.period)) :
                  mode.period = config.period /\ mode.id = Cardinality(modes) - 1
=============================================================================
