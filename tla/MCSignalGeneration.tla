------------------------- MODULE MCSignalGeneration -------------------------
(* Small instances of SignalGeneration for TLC. *)
EXTENDS SignalGeneration, TLC

CONSTANTS c1, c2, s1, s2

OneOf(n) == [s \in Strategies |-> n]

\* The first strategy has both gates, the second neither.
Gated(n) == [s \in Strategies |-> IF s = s1 THEN n ELSE Unset]

IntervalTwo == OneOf(2)
Unlimited == -1
CapOne == Gated(1)
CooldownTwo == Gated(2)
Asset == OneOf("BTC")
Divergence == OneOf("rsi_divergence")
ConfidentOrAny == [s \in Strategies |-> IF s = s1 THEN Unset ELSE 600]

\* The second run is due while the first one may still be running, and before any
\* interval has passed.
TwoRuns == [c \in Crons |-> IF c = c1 THEN 0 ELSE 1]

RequestSymmetry == Permutations(Requests)

\* The parameters' defaults.
Defaults ==
    [ema_crossover |-> [none |-> 0],
     macd_rsi |-> [overbought |-> 70, oversold |-> 30],
     vwap_reversion |-> [deviation |-> 20, overbought |-> 65, oversold |-> 35],
     bollinger_breakout |-> [multiplier |-> 15],
     adx_trend |-> [strong |-> 25, weak |-> 20],
     rsi_divergence |-> [low |-> 40, high |-> 60]]

\* Values on both sides of every threshold, and at it.
Rsis == {0, 15, 30, 34, 35, 40, 44, 45, 50, 55, 56, 60, 65, 66, 70, 85, 100}

Grids ==
    [ema_crossover |-> [prevFast: 2..3, prevSlow: 2..3, fast: 1..3, slow: 1..3, trend: 1..3, close: 1..3],
     macd_rsi |-> [prevFast: -1..1, prevSlow: -1..1, fast: -1..1, slow: -1..1, rsi: Rsis],
     vwap_reversion |-> [vwap: {1000}, close: {960, 980, 985, 990, 1000, 1010, 1015, 1020, 1040}, rsi: Rsis],
     bollinger_breakout |-> [close: 1..5, upper: 3..5, lower: 1..3, volume: {10, 15, 16}, average: {0, 10}],
     adx_trend |-> [adx: {10, 20, 22, 25, 40, 60}, plus: 1..2, minus: 1..2, rsi: Rsis],
     rsi_divergence |-> [1..4 -> [price: 1..2, rsi: {20, 45, 55, 70}]]]

Filter(strategy, assets, values, least) ==
    [active |-> TRUE, channelActive |-> TRUE, strategy |-> strategy, assets |-> assets,
     values |-> values, least |-> least]

\* Some of the values are wanted by one, signals of another asset by the other.
Subscribers == {Filter(Unset, {"BTC"}, {-3, 7}, 0), Filter(Unset, {"ETH"}, Unset, 0),
                [Filter(Unset, Unset, Unset, 0) EXCEPT !.channelActive = FALSE]}

\* Bound: either the requests race over two days, all for the gated strategy, or the
\* cron runs overlap in the first ticks.
RequestsNext ==
    /\ \A c \in Crons : startedAt[c] = None
    /\ \/ \E r \in Requests : RequestStep(r) /\ call'[r].strategy = s1
       \/ Tick

CronsNext ==
    /\ \A r \in Requests : call[r].phase = "idle"
    /\ \/ \E c \in Crons : CronStep(c) \/ CronFails(c) \/ CronDies(c) \/ CronTimesOut(c)
       \/ Tick
    /\ now' <= 2

MCSpec == Init /\ [][RequestsNext \/ CronsNext]_vars
=============================================================================
