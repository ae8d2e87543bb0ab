------------------------- MODULE MCTimeframeAnalysis -------------------------
(* Short periods and three prices: every indicator is warm after five bars. *)
EXTENDS TimeframeAnalysis

MCConfig == [ema_fast |-> 2, ema_slow |-> 3, rsi_period |-> 2, macd_fast |-> 2,
             macd_slow |-> 3, macd_signal |-> 2, atr_period |-> 2,
             volatility_period |-> 3, volume_short_period |-> 1,
             volume_long_period |-> 4, return_lookback |-> 1]

\* Bars over the prices 1..3 that span at most one price step.
MCBar == {b \in [high : 1..3, low : 1..3, close : 1..3] :
            b.low <= b.close /\ b.close <= b.high /\ b.high <= b.low + 1}

MCRangeRatio == [num |-> 1, den |-> 4]
=============================================================================
