--------------------------- MODULE TechnicalEngine ---------------------------
(***************************************************************************)
(* TechnicalAnalysisEngine.analyze: from the bundle that passed the        *)
(* quality gate to the bias and the confidence the agent reports.  What    *)
(* one timeframe contributes is its score (module TimeframeAnalysis), an   *)
(* integer in which 400 stands for 1.0.                                    *)
(***************************************************************************)
EXTENDS Integers, FiniteSets

CONSTANTS
    Definition,      \* agent definitions: required_data as sets of [instrument, timeframe]
    Weight,          \* timeframe -> timeframe_weights, in hundredths
    ScoreValue,      \* scores a timeframe may get
    NeutralThreshold, StrongThreshold,      \* on the scale of the scores
    NoScore

Timeframe == {"1d", "4h", "1h", "15m"}

\* TechnicalRoleConfig's bounds for what the engine combines.
ValidRoleConfig ==
    /\ Weight \in [Timeframe -> Nat \ {0}]
    /\ NeutralThreshold \in 1..399 /\ StrongThreshold \in 1..400

\* AgentDefinition's: something is required, once per asset and timeframe (a
\* definition is a set).
ValidDefinition(d) ==
    /\ d # {}
    /\ \A q \in d : q.timeframe \in Timeframe

ASSUME EngineAssumption == ValidRoleConfig /\ \A d \in Definition : ValidDefinition(d)
ASSUME ScoreAssumption == ScoreValue \subseteq -400..400 /\ NoScore \notin Int

VARIABLES
    definition,      \* the agent's definition
    asset,           \* the task's asset, or "NONE" before the analysis
    scores,          \* timeframe -> score, or NoScore
    failed,          \* timeframes with an invalid feature, or whose computation raised
    result           \* the AgentAnalysisResult, its absence, or that analyze raised

vars == <<definition, asset, scores, failed, result>>

Assets == {q.instrument : q \in definition}

\* RoleDataPlanner.plan: the requirements of the task's asset.
Requested == {q.timeframe : q \in {p \in definition : p.instrument = asset}}
-----------------------------------------------------------------------------
(* Combining the scores of the timeframes in T.  The sums are written out    *)
(* over the four timeframes.                                                 *)

Part(T, f, t) == IF t \in T THEN f[t] ELSE 0
Sum(T, f) == Part(T, f, "1d") + Part(T, f, "4h") + Part(T, f, "1h") + Part(T, f, "15m")

\* weighted_score is WeightedSum over TotalWeight.
WeightedSum(T, s) == Sum(T, [t \in Timeframe |-> Weight[t] * s[t]])
TotalWeight(T) == Sum(T, Weight)

Magnitude(x) == IF x >= 0 THEN x ELSE -x
AtMost(a, b) == IF a <= b THEN a ELSE b

Positives(T, s) == {t \in T : s[t] > NeutralThreshold}
Negatives(T, s) == {t \in T : s[t] < -NeutralThreshold}
Conflict(T, s) == Positives(T, s) # {} /\ Negatives(T, s) # {}

\* abs(weighted_score) < neutral_threshold
Weak(T, s) == Magnitude(WeightedSum(T, s)) < NeutralThreshold * TotalWeight(T)

Bias_ConflictFollowsSum(T, s) ==
    IF Weak(T, s) THEN "NEUTRAL"
    ELSE IF WeightedSum(T, s) > 0 THEN "LONG" ELSE "SHORT"
Bias_ConflictIsShort(T, s) ==
    IF Weak(T, s) THEN "NEUTRAL"
    ELSE IF Conflict(T, s) THEN "SHORT"
    ELSE IF WeightedSum(T, s) > 0 THEN "LONG" ELSE "SHORT"
Bias(T, s) ==
    IF Weak(T, s) \/ Conflict(T, s) THEN "NEUTRAL"
    ELSE IF WeightedSum(T, s) > 0 THEN "LONG" ELSE "SHORT"

\* The confidence as a fraction.  Without an edge it falls with the size of the
\* sum, from 0.60 at zero to nothing at the threshold; with one it is 0.65 of
\* the normalised strength plus 0.35 of the share of agreeing timeframes.
Confidence_NotCapped(T, s) ==
    LET size == Magnitude(WeightedSum(T, s))
        full == StrongThreshold * TotalWeight(T)
    IN  [num |-> 65 * size * Cardinality(T) + 35 * Cardinality(T) * full,
         den |-> 100 * full * Cardinality(T)]
Confidence(T, s) ==
    LET size == Magnitude(WeightedSum(T, s))
        edge == NeutralThreshold * TotalWeight(T)
        full == StrongThreshold * TotalWeight(T)
        matching == IF Bias(T, s) = "LONG" THEN Positives(T, s) ELSE Negatives(T, s)
    IN  IF Bias(T, s) = "NEUTRAL"
        THEN [num |-> 60 * (IF size < edge THEN edge - size ELSE 0), den |-> 100 * edge]
        ELSE [num |-> 65 * AtMost(size, full) * Cardinality(T)
                        + 35 * Cardinality(matching) * full,
              den |-> 100 * full * Cardinality(T)]
-----------------------------------------------------------------------------
Nothing == [bias |-> "NONE", confidence |-> [num |-> 0, den |-> 1], reason |-> "NONE"]
Raised == [Nothing EXCEPT !.reason = "RAISED"]
Abstention(reason) ==
    [bias |-> "ABSTAIN", confidence |-> [num |-> 0, den |-> 1], reason |-> reason]

Init ==
    /\ definition \in Definition
    /\ asset = "NONE"
    /\ scores = [t \in Timeframe |-> NoScore]
    /\ failed = {}
    /\ result = Nothing

\* The bundle holds one series per request.  The engine compares it with all of
\* the definition's requirements, those of other assets included.
Begin(a) ==
    /\ asset = "NONE" /\ a \in Assets
    /\ asset' = a
    /\ result' = IF {q.instrument : q \in definition} = {a} THEN Nothing
                 ELSE Abstention("INSUFFICIENT_HISTORY")
    /\ UNCHANGED <<definition, scores, failed>>

Unscored == {t \in Requested : scores[t] = NoScore}

\* _analyze_timeframe returns a state for one of the series, or raises, which ends
\* the analysis: with an abstention if a feature is invalid (a ValueError).
AnalyzeTimeframe(t, v) ==
    /\ asset # "NONE" /\ result = Nothing
    /\ t \in Unscored
    /\ scores' = [scores EXCEPT ![t] = v]
    /\ UNCHANGED <<definition, asset, failed, result>>

FeatureFails_CountsAsZero(t) ==
    /\ asset # "NONE" /\ result = Nothing
    /\ t \in Unscored
    /\ failed' = failed \cup {t}
    /\ scores' = [scores EXCEPT ![t] = 0]
    /\ UNCHANGED <<definition, asset, result>>
FeatureFails(t) ==
    /\ asset # "NONE" /\ result = Nothing
    /\ t \in Unscored
    /\ failed' = failed \cup {t}
    /\ result' = Abstention("FEATURE_FAILURE")
    /\ UNCHANGED <<definition, asset, scores>>

\* Without any result on an exception that analyze does not catch: a positive
\* price too small for a float becomes 0.0, and a feature divides by it.
FeatureRaises(t) ==
    /\ asset # "NONE" /\ result = Nothing
    /\ t \in Unscored
    /\ failed' = failed \cup {t}
    /\ result' = Raised
    /\ UNCHANGED <<definition, asset, scores>>

\* The combined result.  reason is the first reason code, HIGH_VOLATILITY left out.
Combine ==
    /\ asset # "NONE" /\ result = Nothing
    /\ Unscored = {}
    /\ result' = [bias |-> Bias(Requested, scores),
                  confidence |-> Confidence(Requested, scores),
                  reason |-> IF Conflict(Requested, scores) THEN "TIMEFRAME_CONFLICT"
                             ELSE IF Weak(Requested, scores) THEN "NO_CLEAR_EDGE"
                             ELSE "NONE"]
    /\ UNCHANGED <<definition, asset, scores, failed>>

Next ==
    \/ \E a \in Assets : Begin(a)
    \/ \E t \in Timeframe :
          \/ FeatureFails(t) \/ FeatureRaises(t)
          \/ \E v \in ScoreValue : AnalyzeTimeframe(t, v)
    \/ Combine

Spec == Init /\ [][Next]_vars
-----------------------------------------------------------------------------
(* Properties *)

Opinion == {"LONG", "SHORT", "NEUTRAL"}

\* An opinion rests on every timeframe the definition requires: a feature that
\* failed is never averaged away nor reported as NEUTRAL (PILOT_AGENTS.md:15-16).
OpinionIsComplete ==
    result.bias \in Opinion =>
        /\ failed = {} /\ Assets = {asset}
        /\ \A q \in definition : scores[q.timeframe] # NoScore

\* A direction is unopposed and supported: no timeframe points the other way
\* beyond the threshold, and at least one reaches it (technical.py:121-139).
DirectionSupported ==
    /\ result.bias = "LONG" => /\ \A t \in Requested : scores[t] >= -NeutralThreshold
                               /\ \E t \in Requested : scores[t] >= NeutralThreshold
    /\ result.bias = "SHORT" => /\ \A t \in Requested : scores[t] <= NeutralThreshold
                                /\ \E t \in Requested : scores[t] <= -NeutralThreshold

\* The confidence is a fraction between 0 and 1, and at most 0.60 without an edge
\* (PILOT_AGENTS.md:18-19): the transport field it is rounded to stays in 0..100.
ConfidenceBounded ==
    /\ 0 <= result.confidence.num /\ result.confidence.num <= result.confidence.den
    /\ result.confidence.den > 0
    /\ result.bias = "NEUTRAL" => 100 * result.confidence.num <= 60 * result.confidence.den

Rank(bias) == IF bias = "LONG" THEN 1 ELSE IF bias = "SHORT" THEN -1 ELSE 0

\* A market that looks better on one timeframe and no worse on the others never
\* gets a worse bias, the conflict rule notwithstanding.
BiasMonotone ==
    result.bias \in Opinion =>
        \A t \in Requested : \A v \in ScoreValue :
            v >= scores[t] =>
                Rank(Bias(Requested, [scores EXCEPT ![t] = v])) >= Rank(result.bias)
=============================================================================
