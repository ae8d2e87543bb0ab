-------------------------- MODULE TimeframeAnalysis --------------------------
(***************************************************************************)
(* TechnicalAnalysisEngine._analyze_timeframe: what the engine concludes   *)
(* from one timeframe's series.  The series grows by one bar per step, so  *)
(* that every series up to the bound is examined, warm-up included.        *)
(*                                                                         *)
(* Scores are integers: 400 stands for 1.0, so that the components' two    *)
(* decimals and the damping factor 1/4 are exact.                          *)
(***************************************************************************)
EXTENDS Indicators

CONSTANTS
    Bar,             \* bars [high, low, close] a series may contain
    MaxBars,         \* bound: length of a series
    RsiBullish, RsiBearish,          \* thresholds in percent
    RangeRatio,      \* range_ema_atr_ratio as [num, den]
    SwingLookback

\* The bar's validator, and those of TechnicalRoleConfig.
ASSUME BarAssumption ==
    /\ Bar \subseteq [high : Nat, low : Nat, close : Nat]
    /\ \A b \in Bar : 0 < b.low /\ b.low <= b.close /\ b.close <= b.high
ValidThresholds ==
    /\ {RsiBearish, RsiBullish, RangeRatio.num, RangeRatio.den, SwingLookback} \subseteq Nat
    /\ 0 < RsiBearish /\ RsiBearish < 50 /\ 50 < RsiBullish /\ RsiBullish < 100
    /\ RangeRatio.num > 0 /\ RangeRatio.den > 0 /\ SwingLookback >= 2
ASSUME ThresholdAssumption == ValidThresholds

VARIABLE bars

Last(s) == s[Len(s)]

\* Comparing the close with the two averages, all on the averages' scales.
CloseAbove(s, period) == Last(s).close * EmaScale(period, Len(s)) > Ema(s, period)
CloseBelow(s, period) == Last(s).close * EmaScale(period, Len(s)) < Ema(s, period)
EmaSpread(s) ==
    Ema(s, Config.ema_fast) * EmaScale(Config.ema_slow, Len(s))
      - Ema(s, Config.ema_slow) * EmaScale(Config.ema_fast, Len(s))

\* Trend in hundredths of 0.45: 1.0 with the averages in order, else 0.6.
TrendScore_UpOnly(s) ==
    IF CloseAbove(s, Config.ema_fast) /\ EmaSpread(s) > 0 THEN 45
    ELSE IF CloseAbove(s, Config.ema_fast) /\ CloseAbove(s, Config.ema_slow) THEN 27
    ELSE IF CloseBelow(s, Config.ema_fast) /\ CloseBelow(s, Config.ema_slow) THEN -27
    ELSE 0
TrendScore(s) ==
    IF CloseAbove(s, Config.ema_fast) /\ EmaSpread(s) > 0 THEN 45
    ELSE IF CloseAbove(s, Config.ema_fast) /\ CloseAbove(s, Config.ema_slow) THEN 27
    ELSE IF CloseBelow(s, Config.ema_fast) /\ EmaSpread(s) < 0 THEN -45
    ELSE IF CloseBelow(s, Config.ema_fast) /\ CloseBelow(s, Config.ema_slow) THEN -27
    ELSE 0

\* RSI and the MACD histogram must agree.
MomentumScore(s) ==
    IF Rsi(s).num >= RsiBullish * Rsi(s).den /\ Histogram(s) > 0 THEN 30
    ELSE IF Rsi(s).num <= RsiBearish * Rsi(s).den /\ Histogram(s) < 0 THEN -30
    ELSE 0

\* The close leaves the range of the bars before it.
Prior(s) == {s[k] : k \in {j \in 1..(Len(s) - 1) : j >= Len(s) - SwingLookback}}
SwingScore(s) ==
    IF Prior(s) = {} THEN 0
    ELSE IF Last(s).close > Highest({b.high : b \in Prior(s)}) THEN 15
    ELSE IF Last(s).close < Lowest({b.low : b \in Prior(s)}) THEN -15
    ELSE 0

ReturnScore(s) == IF Return(s) > 0 THEN 10 ELSE IF Return(s) < 0 THEN -10 ELSE 0

\* The averages lie close together, measured by the true range.
RangeLike_Absolute(s) ==
    Abs(EmaSpread(s)) * RangeRatio.den
      < RangeRatio.num * EmaScale(Config.ema_fast, Len(s)) * EmaScale(Config.ema_slow, Len(s))
RangeLike(s) ==
    Abs(EmaSpread(s)) * Atr(s).den * RangeRatio.den
      < Atr(s).num * RangeRatio.num
          * EmaScale(Config.ema_fast, Len(s)) * EmaScale(Config.ema_slow, Len(s))

RawScore(s) == TrendScore(s) + MomentumScore(s) + SwingScore(s) + ReturnScore(s)

\* The range filter keeps a quarter; min and max never change the value.
Score(s) == IF RangeLike(s) /\ SwingScore(s) = 0 THEN RawScore(s) ELSE 4 * RawScore(s)

Init == bars = <<>>
NextBar(b) == /\ Len(bars) < MaxBars
              /\ bars' = Append(bars, b)
Next == \E b \in Bar : NextBar(b)
Spec == Init /\ [][Next]_bars
-----------------------------------------------------------------------------
(* Properties *)

\* The recurrence of _ema_values computes the weighted sum that defines an
\* exponential average, hence a value between the least and the greatest close.
EmaIsWeightedMean ==
    \A period \in {Config.ema_fast, Config.ema_slow} :
        EmaValid(bars, period) =>
            LET n == Len(bars)
                v == Closes(bars)
                weight == [k \in 1..n |->
                    IF k = 1 THEN Power(period - 1, n - 1)
                    ELSE 2 * Power(period - 1, n - k) * EmaScale(period, k - 1)]
            IN  /\ Ema(bars, period) = Total([k \in 1..n |-> weight[k] * v[k]])
                /\ Total(weight) = EmaScale(period, n)

\* RSI stays within 0..100 and the average true range covers at most the widest
\* move of the series, overnight gaps included, and at least the narrowest.
IndicatorBounds ==
    FeaturesValid(bars) =>
        /\ 0 <= Rsi(bars).num /\ Rsi(bars).num <= 100 * Rsi(bars).den
        /\ LET Widest(k) == Larger(bars[k].high, bars[k - 1].close)
                              - (IF bars[k].low <= bars[k - 1].close
                                 THEN bars[k].low ELSE bars[k - 1].close)
               span == {Widest(k) : k \in 2..Len(bars)} \cup {bars[1].high - bars[1].low}
           IN  /\ Lowest(span) * Atr(bars).den <= Atr(bars).num
               /\ Atr(bars).num <= Highest(span) * Atr(bars).den

\* The mirror image of a price: the market that falls where this one rises.
Ceiling == Highest({b.high : b \in Bar}) + Lowest({b.low : b \in Bar})
Mirror(s) == [k \in DOMAIN s |-> [high |-> Ceiling - s[k].low, low |-> Ceiling - s[k].high,
                                  close |-> Ceiling - s[k].close]]

\* The scoring has no preferred direction: with symmetric RSI thresholds a
\* mirrored market gets exactly the opposite score (technical.py:245-301).
MirrorSymmetric ==
    (RsiBullish + RsiBearish = 100 /\ FeaturesValid(bars)) =>
        Score(Mirror(bars)) = -Score(bars)

\* The score depends on the shape of the market only: prices in another unit, or
\* of an asset a hundred times as dear, get the same score, so that one engine
\* and one set of thresholds serve every asset (PILOT_AGENTS.md:9-10).
ScaleFree ==
    FeaturesValid(bars) =>
        Score([k \in DOMAIN bars |-> [high |-> 3 * bars[k].high, low |-> 3 * bars[k].low,
                                      close |-> 3 * bars[k].close]]) = Score(bars)
=============================================================================
