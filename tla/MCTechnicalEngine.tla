-------------------------- MODULE MCTechnicalEngine --------------------------
(* The default weights and thresholds, with scores at and around them. *)
EXTENDS TechnicalEngine, TLC

Needs(a, T) == {[instrument |-> a, timeframe |-> t] : t \in T}

\* Three timeframes, one timeframe, and a definition of two assets.
MCDefinition == {Needs("ETHUSDT", {"1d", "4h", "15m"}), Needs("ETHUSDT", {"1h"}),
                 Needs("ETHUSDT", {"1d"}) \cup Needs("SOLUSDT", {"1d"})}

MCWeight == ("1d" :> 35) @@ ("4h" :> 30) @@ ("1h" :> 20) @@ ("15m" :> 15)

\* 72 is the default neutral threshold 0.18; 260 the strong one, 0.65.
MCScoreValue == {-400, -260, -73, -72, 0, 72, 73, 260, 400}
=============================================================================
