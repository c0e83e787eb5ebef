---------------------------- MODULE StrategyRules ----------------------------
(***************************************************************************)
(* The decision rules of the strategies (app/strategies/*.py): what each   *)
(* makes of the indicators of the last bars.  No state.                    *)
(*                                                                         *)
(* A reading holds the values a rule compares.  Indicators are data, whole *)
(* numbers here; a confidence is in thousandths.                           *)
(***************************************************************************)
EXTENDS Integers, Sequences

CONSTANTS
    Params,     \* [Classes -> the parameters a strategy of that class has]
    Grid,       \* [Classes -> the readings considered]
    Top         \* bound: the prices of the readings are below it

Classes == {"ema_crossover", "macd_rsi", "vwap_reversion", "bollinger_breakout",
            "adx_trend", "rsi_divergence"}

Result(value, confidence) == [value |-> value, confidence |-> confidence]

Neutral == Result(0, 0)

AtMost(n, cap) == IF n > cap THEN cap ELSE n

\* An RSI of 0 is taken for a missing one, and that for 50.
RsiOr50(rsi) == IF rsi = 0 THEN 50 ELSE rsi

\* How far beyond a threshold the RSI is, of the way there is.
Depth(rsi, threshold, end) ==
    AtMost(500 + (1000 * (IF end = 0 THEN threshold - rsi ELSE rsi - threshold))
                    \div (IF end = 0 THEN threshold ELSE end - threshold), 900)

-----------------------------------------------------------------------------
\* Two lines cross between the last two bars.

CrossesUp(r) == r.prevFast <= r.prevSlow /\ r.fast > r.slow

\* Mutant: a touch is not the beginning of a cross downwards.
CrossesDownStrictly(r) == r.prevFast > r.prevSlow /\ r.fast < r.slow

CrossesDown(r) == r.prevFast >= r.prevSlow /\ r.fast < r.slow

EmaCrossover(p, r) ==
    IF CrossesUp(r)
    THEN IF r.trend > 0 /\ r.close > r.trend THEN Result(7, 850) ELSE Result(3, 550)
    ELSE IF CrossesDown(r)
    THEN IF r.trend > 0 /\ r.close < r.trend THEN Result(-7, 850) ELSE Result(-3, 550)
    ELSE Neutral

\* fast is the MACD line, slow its signal line; the histogram is their difference.
MacdRsi(p, r) ==
    LET rsi == RsiOr50(r.rsi)
        hist == r.fast - r.slow
        below == p.overbought - rsi
        above == rsi - p.oversold
    IN  IF CrossesUp(r) /\ below > 10 /\ hist > 0
        THEN Result(7, AtMost((1000 * below) \div 70, 900))
        ELSE IF CrossesUp(r) /\ below > 0
        THEN Result(3, AtMost(10 * below, 650))
        ELSE IF CrossesDown(r) /\ above > 10 /\ hist < 0
        THEN Result(-7, AtMost((1000 * above) \div 70, 900))
        ELSE IF CrossesDown(r) /\ above > 0
        THEN Result(-3, AtMost(10 * above, 650))
        ELSE Neutral

-----------------------------------------------------------------------------
\* Bands around a price.

\* The deviation is in thousandths.
VwapReversion(p, r) ==
    LET rsi == RsiOr50(r.rsi)
        under == 1000 * (r.vwap - r.close)
        over == 1000 * (r.close - r.vwap)
        dev == p.deviation * r.vwap
    IN  IF r.vwap = 0 THEN Neutral
        ELSE IF under > dev /\ rsi < p.oversold THEN Result(7, Depth(rsi, p.oversold, 0))
        ELSE IF 2 * under > dev /\ rsi < 45 THEN Result(3, 550)
        ELSE IF over > dev /\ rsi > p.overbought THEN Result(-7, Depth(rsi, p.overbought, 100))
        ELSE IF 2 * over > dev /\ rsi > 55 THEN Result(-3, 550)
        ELSE Neutral

\* The volume multiplier is in tenths.
BollingerBreakout(p, r) ==
    LET spike == r.average > 0 /\ 10 * r.volume > p.multiplier * r.average
    IN  IF r.upper > 0 /\ r.close > r.upper
        THEN IF spike THEN Result(7, 850) ELSE Result(3, 550)
        ELSE IF r.lower > 0 /\ r.close < r.lower
        THEN IF spike THEN Result(-7, 850) ELSE Result(-3, 550)
        ELSE Neutral

-----------------------------------------------------------------------------

AdxTrend(p, r) ==
    LET rsi == RsiOr50(r.rsi)
    IN  IF r.adx >= p.strong
        THEN IF r.plus > r.minus /\ rsi < 70 THEN Result(7, AtMost(20 * r.adx, 950))
             ELSE IF r.minus > r.plus /\ rsi > 30 THEN Result(-7, AtMost(20 * r.adx, 950))
             ELSE Neutral
        ELSE IF p.weak <= r.adx
        THEN IF r.plus > r.minus THEN Result(3, AtMost(20 * r.adx, 650))
             ELSE IF r.minus > r.plus THEN Result(-3, AtMost(20 * r.adx, 650))
             ELSE Neutral
        ELSE Neutral

\* argmin and argmax: the first of several.
FirstLeast(f, n) ==
    CHOOSE i \in 1..n : /\ \A j \in 1..n : f[i] <= f[j]
                        /\ \A j \in 1..(i - 1) : f[j] # f[i]

\* The reading is a window of bars; the last is compared with the lowest and the highest
\* close before it.
RsiDivergence(p, r) ==
    LET n == Len(r) - 1
        cur == r[n + 1]
        low == r[FirstLeast([i \in 1..n |-> r[i].price], n)]
        high == r[FirstLeast([i \in 1..n |-> -r[i].price], n)]
    IN  IF cur.price < low.price /\ cur.rsi > low.rsi
        THEN IF cur.rsi < p.low THEN Result(7, Depth(cur.rsi, p.low, 0)) ELSE Result(3, 500)
        ELSE IF cur.price > high.price /\ cur.rsi < high.rsi
        THEN IF cur.rsi > p.high THEN Result(-7, Depth(cur.rsi, p.high, 100)) ELSE Result(-3, 500)
        ELSE Neutral

\* StrategyRegistry: the rule registered under a name.
Rule(class, r) ==
    CASE class = "ema_crossover"      -> EmaCrossover(Params[class], r)
      [] class = "macd_rsi"           -> MacdRsi(Params[class], r)
      [] class = "vwap_reversion"     -> VwapReversion(Params[class], r)
      [] class = "bollinger_breakout" -> BollingerBreakout(Params[class], r)
      [] class = "adx_trend"          -> AdxTrend(Params[class], r)
      [] class = "rsi_divergence"     -> RsiDivergence(Params[class], r)

-----------------------------------------------------------------------------
\* The reading upside down: what the same market looks like to a trader of the opposite
\* side.  Prices are turned over so that they stay positive.

Mirror(class, r) ==
    CASE class = "ema_crossover" ->
            [prevFast |-> Top - r.prevFast, prevSlow |-> Top - r.prevSlow, fast |-> Top - r.fast,
             slow |-> Top - r.slow, trend |-> Top - r.trend, close |-> Top - r.close]
      [] class = "macd_rsi" ->
            [prevFast |-> -r.prevFast, prevSlow |-> -r.prevSlow, fast |-> -r.fast,
             slow |-> -r.slow, rsi |-> 100 - r.rsi]
      [] class = "vwap_reversion" ->
            [vwap |-> r.vwap, close |-> 2 * r.vwap - r.close, rsi |-> 100 - r.rsi]
      [] class = "bollinger_breakout" ->
            [r EXCEPT !.close = Top - r.close, !.upper = Top - r.lower, !.lower = Top - r.upper]
      [] class = "adx_trend" ->
            [adx |-> r.adx, plus |-> r.minus, minus |-> r.plus, rsi |-> 100 - r.rsi]
      [] class = "rsi_divergence" ->
            [i \in DOMAIN r |-> [price |-> Top - r[i].price, rsi |-> 100 - r[i].rsi]]

\* The RSI is read with a default, and is at an end of its range.
RsiAtEnd(class, r) ==
    class \in {"macd_rsi", "vwap_reversion", "adx_trend"} /\ r.rsi \in {0, 100}

\* The classes that favour no side on their grid: a market upside down gets the opposite
\* verdict with the same confidence.
Unbiased ==
    {class \in Classes :
        \A r \in Grid[class] :
            LET here == Rule(class, r)
                there == Rule(class, Mirror(class, r))
            IN  RsiAtEnd(class, r) \/ there = Result(-here.value, here.confidence)}

=============================================================================
