---------------------------- MODULE MCMarketData ----------------------------
(* Instances of MarketData for TLC, with the provider's milliseconds.        *)
EXTENDS MarketData

CONSTANTS a1, a2

MCAnalysis == {a1, a2}

\* A candle of w seconds that opens late by some milliseconds after second t; it
\* closes one millisecond early, as Binance's.
Late(t, w, ms) == [open |-> t * 1000 + ms, close |-> (t + w) * 1000 + ms - 1]
Candle(t, w) == Late(t, w, 0)

\* Two timeframes of one asset; the longer one tolerates older data.
MCRequiredData == <<[interval |-> 2, minimum_bars |-> 3, max_age |-> 1],
                    [interval |-> 4, minimum_bars |-> 2, max_age |-> 3]>>

\* Responses for the cutoffs at 10 and 12 seconds.  The first is sound for the
\* short timeframe at 10 and stale at 12, the second sound for the long one at
\* both (and too short for the short one at 10).  The third is out of order at
\* 10; at 12 its last three bars are sound, although each is 999 ms later than
\* its neighbour.  The fourth has a bar one millisecond later than that, and a
\* malformed row that only the later cutoff sees closed.
MCPayload == {<<Candle(4, 2), Candle(6, 2), Candle(8, 2)>>,
              <<Candle(0, 4), Candle(4, 4), Candle(8, 4)>>,
              <<[open |-> 8000, close |-> 9500],
                Candle(4, 2), Late(6, 2, 999), Late(8, 2, 1998)>>,
              <<Candle(2, 2), Candle(4, 2), Late(6, 2, 1000),
                [open |-> 11000, close |-> 10500]>>}
=============================================================================
