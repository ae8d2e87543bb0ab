----------------------------- MODULE Indicators -----------------------------
(***************************************************************************)
(* The features of tomiris_features on a series of bars [high, low, close] *)
(* with integer prices.  The code computes in floating point; here every   *)
(* value is the exact rational, kept as an integer numerator whose         *)
(* denominator depends only on the periods and the number of bars.         *)
(***************************************************************************)
EXTENDS Integers, Sequences

CONSTANT Config     \* FeaturePipelineConfig: the periods, as a record

\* The bounds and the validator of FeaturePipelineConfig.
ValidConfig(c) ==
    /\ \A p \in {c.ema_fast, c.rsi_period, c.macd_fast, c.macd_signal, c.atr_period,
                 c.volatility_period} : p \in Nat /\ p >= 2
    /\ \A p \in {c.ema_slow, c.macd_slow, c.volume_short_period, c.volume_long_period,
                 c.return_lookback} : p \in Nat /\ p >= 1
    /\ c.ema_slow > c.ema_fast /\ c.macd_slow > c.macd_fast
    /\ c.volume_long_period > c.volume_short_period

ASSUME ConfigAssumption == ValidConfig(Config)

Larger(a, b) == IF a >= b THEN a ELSE b
Abs(x) == IF x >= 0 THEN x ELSE -x

\* Greatest and least element of a non-empty finite set of integers.
Highest(S) == CHOOSE x \in S : \A y \in S : y <= x
Lowest(S) == CHOOSE x \in S : \A y \in S : x <= y

\* b to the n-th.
Power(b, n) == LET p[k \in 0..n] == IF k = 0 THEN 1 ELSE b * p[k - 1]
               IN  p[n]

\* The sum of a sequence.
Total(v) == LET sum[k \in 0..Len(v)] == IF k = 0 THEN 0 ELSE sum[k - 1] + v[k]
            IN  sum[Len(v)]

Closes(bars) == [k \in DOMAIN bars |-> bars[k].close]
-----------------------------------------------------------------------------
(* _ema_values: the k-th value times (period + 1)^(k - 1). *)

EmaScale(period, k) == Power(period + 1, k - 1)

EmaValues_SwappedWeights(v, period) ==
    LET ema[k \in 1..Len(v)] ==
          IF k = 1 THEN v[1]
          ELSE (period - 1) * v[k] * EmaScale(period, k - 1) + 2 * ema[k - 1]
    IN  ema
EmaValues(v, period) ==
    LET ema[k \in 1..Len(v)] ==
          IF k = 1 THEN v[1]
          ELSE 2 * v[k] * EmaScale(period, k - 1) + (period - 1) * ema[k - 1]
    IN  ema

EmaValid(bars, period) == Len(bars) >= period
Ema(bars, period) == EmaValues(Closes(bars), period)[Len(bars)]
-----------------------------------------------------------------------------
(* Wilder's smoothing, of RSI and ATR: the mean of the first period values,  *)
(* then ((mean * (period - 1)) + value) / period; times                      *)
(* period^(Len(v) - period + 1).                                             *)

Wilder_PlainSum(v, period) == Total(v)
Wilder(v, period) ==
    LET mean[k \in period..Len(v)] ==
          IF k = period THEN Total(SubSeq(v, 1, period))
          ELSE (period - 1) * mean[k - 1] + v[k] * Power(period, k - period)
    IN  mean[Len(v)]

Changes(bars) == [k \in 1..(Len(bars) - 1) |-> bars[k + 1].close - bars[k].close]
Gains(bars) == [k \in 1..(Len(bars) - 1) |-> Larger(Changes(bars)[k], 0)]
Losses(bars) == [k \in 1..(Len(bars) - 1) |-> Larger(-Changes(bars)[k], 0)]

\* RSIFeature: 100 - 100 / (1 + gain / loss) is 100 * gain / (gain + loss), which
\* is also right for loss = 0; a market that did not move has 50.
RsiValid(bars) == Len(bars) > Config.rsi_period
Rsi(bars) ==
    LET gain == Wilder(Gains(bars), Config.rsi_period)
        loss == Wilder(Losses(bars), Config.rsi_period)
    IN  IF gain = 0 /\ loss = 0 THEN [num |-> 50, den |-> 1]
        ELSE [num |-> 100 * gain, den |-> gain + loss]

\* ATRFeature
TrueRanges(bars) ==
    [k \in DOMAIN bars |->
        IF k = 1 THEN bars[1].high - bars[1].low
        ELSE Larger(bars[k].high - bars[k].low,
                    Larger(Abs(bars[k].high - bars[k - 1].close),
                           Abs(bars[k].low - bars[k - 1].close)))]
AtrValid(bars) == Len(bars) > Config.atr_period
Atr(bars) == [num |-> Wilder(TrueRanges(bars), Config.atr_period),
              den |-> Power(Config.atr_period, Len(bars) - Config.atr_period + 1)]
-----------------------------------------------------------------------------
(* MACDFeature: the difference of two averages, and of it and its own        *)
(* average.  The lines are brought to the denominator of the last bar.       *)

MacdScale(n) == EmaScale(Config.macd_fast, n) * EmaScale(Config.macd_slow, n)

MacdLine(bars) ==
    LET n == Len(bars)
        fast == EmaValues(Closes(bars), Config.macd_fast)
        slow == EmaValues(Closes(bars), Config.macd_slow)
    IN  [k \in 1..n |->
           fast[k] * (MacdScale(n) \div EmaScale(Config.macd_fast, k))
             - slow[k] * (MacdScale(n) \div EmaScale(Config.macd_slow, k))]

MacdValid(bars) == Len(bars) >= Config.macd_slow + Config.macd_signal
Histogram(bars) ==
    LET n == Len(bars) IN
    MacdLine(bars)[n] * EmaScale(Config.macd_signal, n)
      - EmaValues(MacdLine(bars), Config.macd_signal)[n]
-----------------------------------------------------------------------------
(* ReturnFeature, VolatilityFeature (its value, a deviation of logarithms,   *)
(* is left to the caller), VolumeTrendFeature                                *)

ReturnValid(bars) == Len(bars) > Config.return_lookback
\* The sign of the return over the lookback.
Return(bars) ==
    bars[Len(bars)].close - bars[Len(bars) - Config.return_lookback].close

VolatilityValid(bars) == Len(bars) > Config.volatility_period
VolumeTrendValid(bars) == Len(bars) >= Config.volume_long_period

\* TechnicalFeaturePipeline.compute, and the engine's check of its results.
FeaturesValid(bars) ==
    /\ EmaValid(bars, Config.ema_fast) /\ EmaValid(bars, Config.ema_slow)
    /\ RsiValid(bars) /\ MacdValid(bars) /\ AtrValid(bars)
    /\ ReturnValid(bars) /\ VolatilityValid(bars) /\ VolumeTrendValid(bars)
=============================================================================
