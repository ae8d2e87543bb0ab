------------------------ MODULE TechnicalEngineProofs ------------------------
(***************************************************************************)
(* Proofs about TechnicalEngine, for any definitions, weights, thresholds  *)
(* and scores that the role's validators accept.                           *)
(***************************************************************************)
EXTENDS TechnicalEngine, FiniteSetTheorems, TLAPS

(* Products, the only arithmetic here that is not linear *)

\* A product with a natural keeps order.
LEMMA ProductMonotone ==
  ASSUME NEW w \in Nat, NEW a \in Int, NEW b \in Int, a <= b
  PROVE  w * a <= w * b /\ w * a \in Int /\ w * b \in Int
<1>1. b - a \in Nat
  OBVIOUS
<1>2. w * (b - a) \in Nat
  BY <1>1, SMTT(30)
<1>3. w * b = w * a + w * (b - a)
  BY SMTT(30)
<1>4. w * a \in Int /\ w * b \in Int
  BY SMTT(30)
<1>5. QED
  BY <1>2, <1>3, <1>4

\* With a positive weight it keeps strict order.
LEMMA ProductStrict ==
  ASSUME NEW w \in Nat \ {0}, NEW a \in Int, NEW b \in Int, a < b
  PROVE  w * a < w * b
<1>1. w * (a + 1) <= w * b
  BY ProductMonotone
<1>2. w * (a + 1) = w * a + w /\ w * a \in Int /\ w * b \in Int
  BY SMTT(30)
<1>3. QED
  BY <1>1, <1>2

\* The same against a factor on the other side, and the product with an opposite.
LEMMA ProductTurned ==
  ASSUME NEW w \in Nat \ {0}, NEW a \in Int, NEW b \in Int
  PROVE  /\ a <= b => w * a <= b * w
         /\ a < b => w * a < b * w
         /\ w * (-a) = -(w * a)
<1>1. w * b = b * w
  BY SMTT(30)
<1>2. w * (-a) = -(w * a)
  BY SMTT(30)
<1>3. a <= b => w * a <= w * b
  BY ProductMonotone
<1>4. a < b => w * a < w * b
  BY ProductStrict
<1>5. QED
  BY <1>1, <1>2, <1>3, <1>4, Zenon

\* A product of positive naturals is positive.
LEMMA ProductPositive ==
  ASSUME NEW a \in Nat \ {0}, NEW b \in Nat \ {0}
  PROVE  a * b \in Nat \ {0}
<1>1. a * 1 <= a * b /\ a * b \in Int
  BY ProductMonotone
<1>2. QED
  BY <1>1

\* A factor moves into a sum of four.
LEMMA Distribute ==
  ASSUME NEW c \in Int, NEW p \in Int, NEW q \in Int, NEW r \in Int, NEW s \in Int
  PROVE  c * (p + q + r + s) = c * p + c * q + c * r + c * s
BY SMTT(30)
-----------------------------------------------------------------------------
(* What weighted_score says about the scores *)

\* The scores s of the timeframes T are integers.
Scored(T, s) == T \subseteq Timeframe /\ \A t \in T : s[t] \in Int

\* What one timeframe adds to the weighted sum, and to the sum of the weights.
Term(T, s, t) == Part(T, [u \in Timeframe |-> Weight[u] * s[u]], t)
Share(T, t) == Part(T, Weight, t)

\* Their values.
LEMMA Summand ==
  ASSUME NEW T, NEW s, Scored(T, s), NEW t \in Timeframe
  PROVE  /\ Term(T, s, t) \in Int /\ Share(T, t) \in Nat /\ Weight[t] \in Nat \ {0}
         /\ t \in T => Term(T, s, t) = Weight[t] * s[t] /\ Share(T, t) = Weight[t]
         /\ t \notin T => Term(T, s, t) = 0 /\ Share(T, t) = 0
<1>1. Weight[t] \in Nat \ {0}
  BY EngineAssumption DEF ValidRoleConfig
<1>2. t \in T => Weight[t] * s[t] \in Int
  BY <1>1 DEF Scored
<1>3. QED
  BY <1>1, <1>2 DEF Part, Term, Share

\* The sums written out.
LEMMA SumsWritten ==
  ASSUME NEW T, NEW s
  PROVE  /\ WeightedSum(T, s)
              = Term(T, s, "1d") + Term(T, s, "4h") + Term(T, s, "1h") + Term(T, s, "15m")
         /\ TotalWeight(T) = Share(T, "1d") + Share(T, "4h") + Share(T, "1h") + Share(T, "15m")
         /\ Timeframe = {"1d", "4h", "1h", "15m"}
BY Zenon DEF WeightedSum, TotalWeight, Sum, Term, Share, Timeframe

\* Some timeframe weighs something.
LEMMA WeightPositive ==
  ASSUME NEW T, T \subseteq Timeframe, T # {}
  PROVE  TotalWeight(T) \in Nat \ {0}
<1>1. PICK t \in T : t \in Timeframe
  OBVIOUS
<1>2. \A u \in Timeframe : Part(T, Weight, u) \in Nat
  BY EngineAssumption DEF ValidRoleConfig, Part
<1>3. Part(T, Weight, t) \in Nat \ {0}
  BY <1>1, EngineAssumption DEF ValidRoleConfig, Part
<1>4. QED
  BY <1>1, <1>2, <1>3 DEF TotalWeight, Sum, Timeframe

\* The weighted sum is an integer.
LEMMA SumType ==
  ASSUME NEW T, NEW s, Scored(T, s)
  PROVE  WeightedSum(T, s) \in Int
<1>1. \A t \in Timeframe : Term(T, s, t) \in Int
  BY Summand
<1>2. QED
  BY <1>1, SumsWritten

\* When no score is above c and one is below, the weighted mean is below c.
LEMMA MeanBelow ==
  ASSUME NEW T, NEW s, Scored(T, s), NEW c \in Int,
         \A t \in T : s[t] <= c, NEW u \in T, s[u] < c
  PROVE  WeightedSum(T, s) < c * TotalWeight(T)
<1>1. \A t \in Timeframe : Term(T, s, t) \in Int /\ Share(T, t) \in Nat
  BY Summand
<1>2. \A t \in Timeframe : c * Share(T, t) \in Int
  BY <1>1
<1>3. ASSUME NEW t \in Timeframe PROVE Term(T, s, t) <= c * Share(T, t)
  <2>1. CASE t \in T
    <3>1. Term(T, s, t) = Weight[t] * s[t] /\ Share(T, t) = Weight[t] /\ Weight[t] \in Nat \ {0}
      BY <2>1, Summand
    <3>2. s[t] \in Int /\ s[t] <= c
      BY <2>1 DEF Scored
    <3>3. Weight[t] * s[t] <= c * Weight[t]
      BY <3>1, <3>2, ProductTurned
    <3>4. QED
      BY <3>1, <3>3, Zenon
  <2>2. CASE t \notin T
    <3>1. Term(T, s, t) = 0 /\ Share(T, t) = 0
      BY <2>2, Summand
    <3>2. QED
      BY <3>1
  <2>3. QED
    BY <2>1, <2>2
<1>4. u \in Timeframe /\ Term(T, s, u) < c * Share(T, u)
  <2>1. u \in Timeframe /\ s[u] \in Int
    BY DEF Scored
  <2>2. Term(T, s, u) = Weight[u] * s[u] /\ Share(T, u) = Weight[u] /\ Weight[u] \in Nat \ {0}
    BY <2>1, Summand
  <2>3. Weight[u] * s[u] < c * Weight[u]
    BY <2>1, <2>2, ProductTurned
  <2>4. QED
    BY <2>1, <2>2, <2>3, Zenon
<1>5. c * TotalWeight(T)
        = c * Share(T, "1d") + c * Share(T, "4h") + c * Share(T, "1h") + c * Share(T, "15m")
  BY <1>1, SumsWritten, Distribute
<1> DEFINE P(t) == c * Share(T, t)
<1>6. /\ \A t \in Timeframe : P(t) \in Int /\ Term(T, s, t) <= P(t)
      /\ u \in Timeframe /\ Term(T, s, u) < P(u)
      /\ c * TotalWeight(T) = P("1d") + P("4h") + P("1h") + P("15m")
  BY <1>2, <1>3, <1>4, <1>5, Zenon
<1> HIDE DEF P
<1>7. WeightedSum(T, s) < P("1d") + P("4h") + P("1h") + P("15m")
  BY <1>1, <1>6, SumsWritten
<1>8. QED
  BY <1>6, <1>7, Zenon

\* The scores turned round.
Opposite(s) == [t \in Timeframe |-> -s[t]]

\* They turn the sum round.
LEMMA SumMirrored ==
  ASSUME NEW T, NEW s, Scored(T, s)
  PROVE  Scored(T, Opposite(s)) /\ WeightedSum(T, Opposite(s)) = -WeightedSum(T, s)
<1>1. Scored(T, Opposite(s))
  BY DEF Scored, Opposite
<1>2. ASSUME NEW t \in Timeframe
      PROVE  /\ Term(T, s, t) \in Int /\ Term(T, Opposite(s), t) \in Int
             /\ Term(T, Opposite(s), t) + Term(T, s, t) = 0
  <2>1. Term(T, s, t) \in Int /\ Term(T, Opposite(s), t) \in Int
    BY <1>1, Summand
  <2>2. CASE t \in T
    <3>1. s[t] \in Int /\ Opposite(s)[t] = -s[t]
      BY <2>2 DEF Scored, Opposite
    <3>2. Term(T, s, t) = Weight[t] * s[t] /\ Weight[t] \in Nat \ {0}
      BY <2>2, Summand
    <3>3. Term(T, Opposite(s), t) = Weight[t] * Opposite(s)[t]
      BY <1>1, <2>2, Summand
    <3>4. Weight[t] * (-s[t]) = -(Weight[t] * s[t])
      BY <3>1, <3>2, ProductTurned
    <3>5. Term(T, Opposite(s), t) = -Term(T, s, t)
      BY <3>1, <3>2, <3>3, <3>4, Zenon
    <3>6. QED
      BY <2>1, <3>5
  <2>3. CASE t \notin T
    <3>1. Term(T, s, t) = 0
      BY <2>3, Summand
    <3>2. Term(T, Opposite(s), t) = 0
      BY <1>1, <2>3, Summand
    <3>3. QED
      BY <2>1, <3>1, <3>2
  <2>4. QED
    BY <2>1, <2>2, <2>3
<1>3. QED
  BY <1>1, <1>2, SumsWritten

\* When no score is below c and one is above, the weighted mean is above c.
LEMMA MeanAbove ==
  ASSUME NEW T, NEW s, Scored(T, s), NEW c \in Int,
         \A t \in T : s[t] >= c, NEW u \in T, s[u] > c
  PROVE  WeightedSum(T, s) > c * TotalWeight(T)
<1>1. Scored(T, Opposite(s)) /\ WeightedSum(T, Opposite(s)) = -WeightedSum(T, s)
  BY SumMirrored
<1>2. \A t \in T : Opposite(s)[t] <= -c
  BY DEF Scored, Opposite
<1>3. Opposite(s)[u] < -c /\ -c \in Int
  BY DEF Scored, Opposite
<1>4. WeightedSum(T, Opposite(s)) < (-c) * TotalWeight(T)
  BY <1>1, <1>2, <1>3, MeanBelow
<1>5. TotalWeight(T) \in Nat
  BY WeightPositive DEF Scored
<1>6. (-c) * TotalWeight(T) = -(c * TotalWeight(T)) /\ c * TotalWeight(T) \in Int
  BY <1>5
<1>7. WeightedSum(T, s) \in Int
  BY SumType
<1>8. QED
  BY <1>1, <1>4, <1>6, <1>7

\* A better score of one timeframe makes the sum no smaller.
LEMMA SumMonotone ==
  ASSUME NEW T, NEW s, NEW z, Scored(T, s), Scored(T, z), \A t \in T : s[t] <= z[t]
  PROVE  WeightedSum(T, s) <= WeightedSum(T, z)
<1>1. ASSUME NEW t \in Timeframe
      PROVE  /\ Term(T, s, t) \in Int /\ Term(T, z, t) \in Int
             /\ Term(T, s, t) <= Term(T, z, t)
  <2>1. Term(T, s, t) \in Int /\ Term(T, z, t) \in Int
    BY Summand
  <2>2. CASE t \in T
    <3>1. s[t] \in Int /\ z[t] \in Int /\ s[t] <= z[t]
      BY <2>2 DEF Scored
    <3>2. Term(T, s, t) = Weight[t] * s[t] /\ Weight[t] \in Nat \ {0}
      BY <2>2, Summand
    <3>3. Term(T, z, t) = Weight[t] * z[t]
      BY <2>2, Summand
    <3>4. Weight[t] * s[t] <= Weight[t] * z[t]
      BY <3>1, <3>2, ProductMonotone
    <3>5. QED
      BY <2>1, <3>2, <3>3, <3>4, Zenon
  <2>3. CASE t \notin T
    <3>1. Term(T, s, t) = 0 /\ Term(T, z, t) = 0
      BY <2>3, Summand
    <3>2. QED
      BY <3>1
  <2>4. QED
    BY <2>1, <2>2, <2>3
<1>2. QED
  BY <1>1, SumsWritten
-----------------------------------------------------------------------------
(* The bias *)

\* The neutral threshold of a sum of weights.
Edge(T) == NeutralThreshold * TotalWeight(T)

\* The threshold is positive.
LEMMA EdgePositive ==
  ASSUME NEW T, T \subseteq Timeframe, T # {}
  PROVE  Edge(T) \in Nat \ {0} /\ NeutralThreshold \in Nat \ {0}
<1>1. NeutralThreshold \in Nat \ {0}
  BY EngineAssumption DEF ValidRoleConfig
<1>2. TotalWeight(T) \in Nat \ {0}
  BY WeightPositive
<1>3. QED
  BY <1>1, <1>2, ProductPositive DEF Edge

\* What each bias says of the sum.
LEMMA BiasMeaning ==
  ASSUME NEW T, NEW s, Scored(T, s), T # {}
  PROVE  /\ Bias(T, s) \in Opinion
         /\ Bias(T, s) = "LONG" <=> WeightedSum(T, s) >= Edge(T) /\ ~Conflict(T, s)
         /\ Bias(T, s) = "SHORT" <=> WeightedSum(T, s) <= -Edge(T) /\ ~Conflict(T, s)
<1>1. WeightedSum(T, s) \in Int /\ Edge(T) \in Nat \ {0}
  BY SumType, EdgePositive DEF Scored
<1>2. Weak(T, s) <=> WeightedSum(T, s) < Edge(T) /\ WeightedSum(T, s) > -Edge(T)
  BY <1>1 DEF Weak, Magnitude, Edge
<1>3. QED
  BY <1>1, <1>2 DEF Bias, Opinion

\* A sum at the threshold, with no opposition beyond the threshold or no conflict,
\* means support and no opposition.
LEMMA LongSupported ==
  ASSUME NEW T, NEW s, Scored(T, s), T # {}, Bias(T, s) = "LONG"
  PROVE  /\ \A t \in T : s[t] >= -NeutralThreshold
         /\ \E t \in T : s[t] >= NeutralThreshold
<1>1. WeightedSum(T, s) >= Edge(T) /\ ~Conflict(T, s)
  BY BiasMeaning
<1>2. WeightedSum(T, s) \in Int /\ Edge(T) \in Nat \ {0} /\ NeutralThreshold \in Nat \ {0}
  BY SumType, EdgePositive DEF Scored
<1>3. ASSUME NEW u \in T, \A t \in T : s[t] <= NeutralThreshold, s[u] < NeutralThreshold
      PROVE  FALSE
  <2>1. WeightedSum(T, s) < NeutralThreshold * TotalWeight(T)
    BY <1>2, <1>3, MeanBelow
  <2>2. QED
    BY <1>1, <1>2, <2>1 DEF Edge
<1>4. \E t \in T : s[t] >= NeutralThreshold
  <2> SUFFICES ASSUME \A t \in T : ~(s[t] >= NeutralThreshold) PROVE FALSE
    OBVIOUS
  <2>1. \A t \in T : s[t] < NeutralThreshold /\ s[t] <= NeutralThreshold
    BY <1>2 DEF Scored
  <2>2. QED
    BY <1>3, <2>1
<1>5. ASSUME NEW u \in T, ~(s[u] >= -NeutralThreshold) PROVE FALSE
  <2>1. u \in Negatives(T, s)
    BY <1>2, <1>5 DEF Negatives, Scored
  <2>2. Positives(T, s) = {}
    BY <1>1, <2>1 DEF Conflict
  <2>3. \A t \in T : s[t] <= NeutralThreshold
    BY <1>2, <2>2 DEF Positives, Scored
  <2>4. s[u] < NeutralThreshold
    BY <1>2, <1>5 DEF Scored
  <2>5. QED
    BY <1>3, <2>3, <2>4
<1>6. QED
  BY <1>4, <1>5

\* The same for SHORT.
LEMMA ShortSupported ==
  ASSUME NEW T, NEW s, Scored(T, s), T # {}, Bias(T, s) = "SHORT"
  PROVE  /\ \A t \in T : s[t] <= NeutralThreshold
         /\ \E t \in T : s[t] <= -NeutralThreshold
<1>1. WeightedSum(T, s) <= -Edge(T) /\ ~Conflict(T, s)
  BY BiasMeaning
<1>2. /\ WeightedSum(T, s) \in Int /\ Edge(T) \in Nat \ {0} /\ NeutralThreshold \in Nat \ {0}
      /\ TotalWeight(T) \in Nat
  BY SumType, EdgePositive, WeightPositive DEF Scored
<1>3. ASSUME NEW u \in T, \A t \in T : s[t] >= -NeutralThreshold, s[u] > -NeutralThreshold
      PROVE  FALSE
  <2>1. WeightedSum(T, s) > (-NeutralThreshold) * TotalWeight(T)
    BY <1>2, <1>3, MeanAbove
  <2>2. (-NeutralThreshold) * TotalWeight(T) = -(NeutralThreshold * TotalWeight(T))
    BY <1>2
  <2>3. QED
    BY <1>1, <1>2, <2>1, <2>2 DEF Edge
<1>4. \E t \in T : s[t] <= -NeutralThreshold
  <2> SUFFICES ASSUME \A t \in T : ~(s[t] <= -NeutralThreshold) PROVE FALSE
    OBVIOUS
  <2>1. \A t \in T : s[t] > -NeutralThreshold /\ s[t] >= -NeutralThreshold
    BY <1>2 DEF Scored
  <2>2. QED
    BY <1>3, <2>1
<1>5. ASSUME NEW u \in T, ~(s[u] <= NeutralThreshold) PROVE FALSE
  <2>1. u \in Positives(T, s)
    BY <1>2, <1>5 DEF Positives, Scored
  <2>2. Negatives(T, s) = {}
    BY <1>1, <2>1 DEF Conflict
  <2>3. \A t \in T : s[t] >= -NeutralThreshold
    BY <1>2, <2>2 DEF Negatives, Scored
  <2>4. s[u] > -NeutralThreshold
    BY <1>2, <1>5 DEF Scored
  <2>5. QED
    BY <1>3, <2>3, <2>4
<1>6. QED
  BY <1>4, <1>5

\* The bias never gets worse when scores get better: a conflict turns only into LONG,
\* a SHORT opinion admits no score that conflicts, and LONG stays.
LEMMA BiasKeepsOrder ==
  ASSUME NEW T, NEW s, NEW z, Scored(T, s), Scored(T, z), T # {},
         \A t \in T : s[t] <= z[t]
  PROVE  Rank(Bias(T, z)) >= Rank(Bias(T, s))
<1>1. /\ Bias(T, s) \in Opinion /\ Bias(T, z) \in Opinion
      /\ WeightedSum(T, s) \in Int /\ WeightedSum(T, z) \in Int
      /\ WeightedSum(T, s) <= WeightedSum(T, z)
      /\ Edge(T) \in Nat \ {0} /\ NeutralThreshold \in Nat \ {0}
  BY SumType, SumMonotone, EdgePositive, BiasMeaning DEF Scored
<1>2. ASSUME Bias(T, s) = "LONG" PROVE Bias(T, z) = "LONG"
  <2>1. \A t \in T : s[t] >= -NeutralThreshold
    BY <1>2, LongSupported
  <2>2. Negatives(T, z) = {}
    BY <1>1, <2>1 DEF Negatives, Scored
  <2>3. WeightedSum(T, s) >= Edge(T)
    BY <1>2, BiasMeaning
  <2>4. WeightedSum(T, z) >= Edge(T)
    BY <1>1, <2>3
  <2>5. QED
    BY <2>2, <2>4, BiasMeaning DEF Conflict
<1>3. ASSUME Bias(T, s) = "NEUTRAL", Bias(T, z) = "SHORT" PROVE FALSE
  <2>1. WeightedSum(T, z) <= -Edge(T)
    BY <1>3, BiasMeaning
  <2>2. WeightedSum(T, s) <= -Edge(T)
    BY <1>1, <2>1
  <2>3. Conflict(T, s)
    BY <1>3, <2>2, BiasMeaning
  <2>4. PICK t \in T : s[t] > NeutralThreshold
    BY <2>3 DEF Conflict, Positives
  <2>5. z[t] > NeutralThreshold
    BY <1>1, <2>4 DEF Scored
  <2>6. z[t] <= NeutralThreshold
    BY <1>3, ShortSupported
  <2>7. QED
    BY <1>1, <2>5, <2>6 DEF Scored
<1>4. QED
  BY <1>1, <1>2, <1>3 DEF Rank, Opinion
-----------------------------------------------------------------------------
(* The confidence *)

\* 0.65 of a capped ratio and 0.35 of a share make a fraction of one.
LEMMA FractionOfOne ==
  ASSUME NEW a \in Nat, NEW f \in Nat \ {0}, a <= f,
         NEW m \in Nat, NEW n \in Nat \ {0}, m <= n
  PROVE  /\ 0 <= 65 * a * n + 35 * m * f
         /\ 65 * a * n + 35 * m * f <= 100 * f * n
         /\ 100 * f * n > 0
<1>1. n * a <= n * f /\ n * a \in Int /\ n * f \in Int /\ n * 0 <= n * a
  BY ProductMonotone
<1>2. f * m <= f * n /\ f * m \in Int /\ f * 0 <= f * m
  BY ProductMonotone
<1>3. n * f \in Nat \ {0}
  BY ProductPositive
<1>4. /\ 65 * a * n = 65 * (n * a) /\ 35 * m * f = 35 * (f * m)
      /\ 100 * f * n = 100 * (n * f) /\ f * n = n * f /\ n * 0 = 0 /\ f * 0 = 0
  BY SMTT(30)
<1> DEFINE x == n * a
           y == f * m
           z == n * f
<1>5. /\ x \in Int /\ y \in Int /\ z \in Nat \ {0} /\ 0 <= x /\ x <= z /\ 0 <= y /\ y <= z
      /\ 65 * a * n = 65 * x /\ 35 * m * f = 35 * y /\ 100 * f * n = 100 * z
  BY <1>1, <1>2, <1>3, <1>4, Zenon
<1> HIDE DEF x, y, z
<1>6. 0 <= 65 * x + 35 * y /\ 65 * x + 35 * y <= 100 * z /\ 100 * z > 0
  BY <1>5
<1>7. QED
  BY <1>5, <1>6, Zenon

\* The timeframes asked for are counted, and those that agree are some of them.
LEMMA Counted ==
  ASSUME NEW T, T \subseteq Timeframe, T # {}, NEW A, A \subseteq T
  PROVE  Cardinality(T) \in Nat \ {0} /\ Cardinality(A) \in Nat /\ Cardinality(A) <= Cardinality(T)
<1>1. IsFiniteSet(Timeframe)
  <2>1. Timeframe = {"1d"} \cup {"4h"} \cup {"1h"} \cup {"15m"}
    BY DEF Timeframe
  <2>2. \A x : IsFiniteSet({x})
    BY FS_Singleton
  <2>3. QED
    BY <2>1, <2>2, FS_Union
<1>2. IsFiniteSet(T)
  BY <1>1, FS_Subset
<1>3. IsFiniteSet(A) /\ Cardinality(A) <= Cardinality(T)
  BY <1>2, FS_Subset
<1>4. Cardinality(T) \in Nat /\ Cardinality(A) \in Nat
  BY <1>2, <1>3, FS_CardinalityType
<1>5. Cardinality(T) # 0
  BY <1>2, FS_EmptySet
<1>6. QED
  BY <1>3, <1>4, <1>5

\* f is a fraction of one, and of no more than 0.60 when there is no edge.
Fractional(f, bias) ==
    /\ 0 <= f.num /\ f.num <= f.den /\ f.den > 0
    /\ bias = "NEUTRAL" => 100 * f.num <= 60 * f.den

\* Whatever the scores, the confidence is one.
LEMMA ConfidenceIsFraction ==
  ASSUME NEW T, NEW s, Scored(T, s), T # {}
  PROVE  Fractional(Confidence(T, s), Bias(T, s))
<1> DEFINE size == Magnitude(WeightedSum(T, s))
           full == StrongThreshold * TotalWeight(T)
           matching == IF Bias(T, s) = "LONG" THEN Positives(T, s) ELSE Negatives(T, s)
<1>1. /\ StrongThreshold \in Nat \ {0} /\ TotalWeight(T) \in Nat \ {0} /\ T \subseteq Timeframe
  BY EngineAssumption, WeightPositive DEF ValidRoleConfig, Scored
<1>2. size \in Nat
  BY SumType DEF Magnitude
<1>3. full \in Nat \ {0} /\ Edge(T) \in Nat \ {0}
  BY <1>1, ProductPositive, EdgePositive
<1>4. matching \subseteq T
  BY DEF Positives, Negatives
<1>5. /\ Cardinality(T) \in Nat \ {0} /\ Cardinality(matching) \in Nat
      /\ Cardinality(matching) <= Cardinality(T)
  BY <1>1, <1>4, Counted
<1>6. Confidence(T, s)
        = IF Bias(T, s) = "NEUTRAL"
          THEN [num |-> 60 * (IF size < Edge(T) THEN Edge(T) - size ELSE 0), den |-> 100 * Edge(T)]
          ELSE [num |-> 65 * AtMost(size, full) * Cardinality(T)
                          + 35 * Cardinality(matching) * full,
                den |-> 100 * full * Cardinality(T)]
  BY Zenon DEF Confidence, Edge
<1> HIDE DEF size, full, matching
<1>7. CASE Bias(T, s) = "NEUTRAL"
  <2> DEFINE top == IF size < Edge(T) THEN Edge(T) - size ELSE 0
  <2>1. top \in Nat /\ top <= Edge(T)
    BY <1>2, <1>3
  <2>2. Confidence(T, s).num = 60 * top /\ Confidence(T, s).den = 100 * Edge(T)
    BY <1>6, <1>7
  <2> HIDE DEF top
  <2>3. QED
    BY <1>3, <2>1, <2>2 DEF Fractional
<1>8. CASE Bias(T, s) # "NEUTRAL"
  <2> DEFINE num == 65 * AtMost(size, full) * Cardinality(T) + 35 * Cardinality(matching) * full
             den == 100 * full * Cardinality(T)
  <2>1. AtMost(size, full) \in Nat /\ AtMost(size, full) <= full
    BY <1>2, <1>3 DEF AtMost
  <2>2. 0 <= num /\ num <= den /\ den > 0
    BY <1>3, <1>5, <2>1, FractionOfOne
  <2>3. Confidence(T, s) = [num |-> num, den |-> den]
    BY <1>6, <1>8, Zenon
  <2> HIDE DEF num, den
  <2>4. QED
    BY <1>8, <2>2, <2>3 DEF Fractional
<1>9. QED
  BY <1>7, <1>8
-----------------------------------------------------------------------------
(* The invariant *)

EngineTypeOK ==
    /\ definition \in Definition
    /\ scores \in [Timeframe -> ScoreValue \cup {NoScore}]
    /\ asset # "NONE" => asset \in Assets

\* Nothing failed before there is a result, and then the bundle answers the whole definition.
Undecided ==
    /\ result = Nothing \/ asset = "NONE" => failed = {}
    /\ result = Nothing /\ asset # "NONE" => Assets = {asset}

\* The result is Bias and Confidence of the scores of every timeframe asked for.
Combined ==
    /\ asset # "NONE" /\ failed = {} /\ Assets = {asset} /\ Unscored = {}
    /\ result.bias = Bias(Requested, scores)
    /\ result.confidence = Confidence(Requested, scores)

Abstained == \E reason \in {"INSUFFICIENT_HISTORY", "FEATURE_FAILURE"} : result = Abstention(reason)

EngineInv ==
    EngineTypeOK /\ Undecided /\ (result = Nothing \/ result = Raised \/ Abstained \/ Combined)

\* Only a combination has an opinion for its bias.
LEMMA ResultKinds ==
  /\ Abstained => result.bias = "ABSTAIN" /\ result.bias \notin Opinion
  /\ result = Nothing \/ result = Raised => result.bias \notin Opinion
  /\ result = Nothing \/ result = Raised \/ Abstained => Fractional(result.confidence, result.bias)
BY DEF Nothing, Raised, Abstained, Abstention, Opinion, Fractional

\* What is asked for are timeframes, and after a combination each has a score.
LEMMA AllScored ==
  ASSUME EngineTypeOK, Combined
  PROVE  Scored(Requested, scores) /\ Requested # {} /\ Requested \subseteq Timeframe
<1>1. ValidDefinition(definition)
  BY EngineAssumption DEF EngineTypeOK
<1>2. Requested \subseteq Timeframe
  BY <1>1 DEF Requested, ValidDefinition
<1>3. Requested # {}
  BY DEF EngineTypeOK, Combined, Assets, Requested
<1>4. ASSUME NEW t \in Requested PROVE scores[t] \in Int
  <2>1. scores[t] # NoScore
    BY <1>4 DEF Combined, Unscored
  <2>2. scores[t] \in ScoreValue
    BY <1>2, <2>1 DEF EngineTypeOK
  <2>3. \A v \in ScoreValue : v \in Int
    BY ScoreAssumption
  <2>4. QED
    BY <2>2, <2>3, Zenon
<1>5. QED
  BY <1>2, <1>3, <1>4 DEF Scored

\* The invariant holds when the role is loaded.
LEMMA EngineInit == Init => EngineInv
BY DEF Init, EngineInv, EngineTypeOK, Undecided

\* Every step keeps it.
LEMMA EngineStep == EngineInv /\ [Next]_vars => EngineInv'
<1> SUFFICES ASSUME EngineInv, [Next]_vars PROVE EngineInv'
  OBVIOUS
<1> USE DEF EngineInv
<1>1. ASSUME NEW a \in Assets, Begin(a) PROVE EngineInv'
  <2>1. asset = "NONE" /\ asset' = a /\ failed' = failed /\ Assets' = Assets
    BY <1>1 DEF Begin, Assets
  <2>2. EngineTypeOK'
    BY <1>1, <2>1 DEF Begin, EngineTypeOK
  <2>3. /\ result' = Nothing \/ result' = Abstention("INSUFFICIENT_HISTORY")
        /\ result' = Nothing => Assets = {a}
    BY <1>1 DEF Begin, Assets, Nothing, Abstention
  <2>4. Undecided'
    BY <2>1, <2>3 DEF Undecided
  <2>5. result' = Nothing \/ Abstained'
    BY <2>3 DEF Abstained
  <2>6. QED
    BY <2>2, <2>4, <2>5
<1>2. ASSUME NEW t \in Timeframe, NEW v \in ScoreValue, AnalyzeTimeframe(t, v) PROVE EngineInv'
  BY <1>2 DEF AnalyzeTimeframe, EngineTypeOK, Undecided, Assets
<1>3. ASSUME NEW t \in Timeframe, FeatureFails(t) PROVE EngineInv'
  <2>1. EngineTypeOK'
    BY <1>3 DEF FeatureFails, EngineTypeOK, Assets
  <2>2. Abstained'
    BY <1>3 DEF FeatureFails, Abstained, Abstention
  <2>3. result' # Nothing /\ asset' # "NONE"
    BY <1>3 DEF FeatureFails, Abstention, Nothing
  <2>4. QED
    BY <2>1, <2>2, <2>3 DEF Undecided
<1>a. ASSUME NEW t \in Timeframe, FeatureRaises(t) PROVE EngineInv'
  <2>1. EngineTypeOK'
    BY <1>a DEF FeatureRaises, EngineTypeOK, Assets
  <2>2. result' = Raised /\ result' # Nothing /\ asset' # "NONE"
    BY <1>a DEF FeatureRaises, Raised, Nothing
  <2>3. QED
    BY <2>1, <2>2 DEF Undecided
<1>4. CASE Combine
  <2>1. EngineTypeOK'
    BY <1>4 DEF Combine, EngineTypeOK, Assets
  <2>2. failed = {} /\ Assets = {asset}
    BY <1>4 DEF Combine, Undecided
  <2>3. Combined'
    BY <1>4, <2>2 DEF Combine, Combined, Assets, Unscored, Requested
  <2>4. Undecided'
    BY <1>4, <2>2 DEF Combine, Undecided, Assets
  <2>5. QED
    BY <2>1, <2>3, <2>4
<1>5. CASE UNCHANGED vars
  BY <1>5 DEF vars, EngineTypeOK, Undecided, Abstained, Combined, Assets, Unscored, Requested
<1>6. QED
  BY <1>1, <1>2, <1>3, <1>a, <1>4, <1>5 DEF Next

\* It always holds.
LEMMA EngineAlways == Spec => []EngineInv
BY EngineInit, EngineStep, PTL DEF Spec
-----------------------------------------------------------------------------
(* The properties *)

\* OpinionIsComplete: an opinion comes from a combination, whose assets are the
\* task's asset alone and which leaves no timeframe of it without a score.
THEOREM CompleteOpinions == Spec => []OpinionIsComplete
<1>1. EngineInv => OpinionIsComplete
  <2> SUFFICES ASSUME EngineInv, result.bias \in Opinion
               PROVE  /\ failed = {} /\ Assets = {asset}
                      /\ \A q \in definition : scores[q.timeframe] # NoScore
    BY DEF OpinionIsComplete
  <2>1. Combined
    BY ResultKinds DEF EngineInv
  <2>2. failed = {} /\ Assets = {asset} /\ Unscored = {}
    BY <2>1 DEF Combined
  <2>3. ASSUME NEW q \in definition PROVE scores[q.timeframe] # NoScore
    <3>1. q.instrument = asset
      BY <2>2 DEF Assets
    <3>2. q.timeframe \in Requested
      BY <3>1 DEF Requested
    <3>3. QED
      BY <2>2, <3>2 DEF Unscored
  <2>4. QED
    BY <2>2, <2>3
<1>2. QED
  BY <1>1, EngineAlways, PTL

\* DirectionSupported: with the threshold on the weighted mean, the conflict rule
\* leaves no opposition beyond it and support that reaches it.
THEOREM DirectionsAreSupported == Spec => []DirectionSupported
<1>1. EngineInv => DirectionSupported
  <2> SUFFICES ASSUME EngineInv, result.bias \in Opinion PROVE DirectionSupported
    BY DEF DirectionSupported, Opinion
  <2>1. Combined
    BY ResultKinds DEF EngineInv
  <2>2. Scored(Requested, scores) /\ Requested # {} /\ result.bias = Bias(Requested, scores)
    BY <2>1, AllScored DEF EngineInv, Combined
  <2>3. result.bias = "LONG" => /\ \A t \in Requested : scores[t] >= -NeutralThreshold
                                /\ \E t \in Requested : scores[t] >= NeutralThreshold
    BY <2>2, LongSupported
  <2>4. result.bias = "SHORT" => /\ \A t \in Requested : scores[t] <= NeutralThreshold
                                 /\ \E t \in Requested : scores[t] <= -NeutralThreshold
    BY <2>2, ShortSupported
  <2>5. QED
    BY <2>3, <2>4, Zenon DEF DirectionSupported
<1>2. QED
  BY <1>1, EngineAlways, PTL

\* ConfidenceBounded: the cap at the strong threshold keeps the weighted part below
\* 0.65, and no more timeframes agree than were asked for.
THEOREM ConfidenceIsBounded == Spec => []ConfidenceBounded
<1>1. EngineInv => ConfidenceBounded
  <2> SUFFICES ASSUME EngineInv PROVE Fractional(result.confidence, result.bias)
    BY Zenon DEF ConfidenceBounded, Fractional
  <2>1. CASE Combined
    <3>1. /\ Scored(Requested, scores) /\ Requested # {}
          /\ result.bias = Bias(Requested, scores)
          /\ result.confidence = Confidence(Requested, scores)
      BY <2>1, AllScored DEF EngineInv, Combined
    <3>2. Fractional(Confidence(Requested, scores), Bias(Requested, scores))
      BY <3>1, ConfidenceIsFraction
    <3>3. QED
      BY <3>1, <3>2, Zenon
  <2>2. QED
    BY <2>1, ResultKinds DEF EngineInv
<1>2. QED
  BY <1>1, EngineAlways, PTL

\* BiasMonotone: raising one score raises the sum, and the conflicts it makes or
\* removes never turn the bias down.
THEOREM BiasIsMonotone == Spec => []BiasMonotone
<1>1. EngineInv => BiasMonotone
  <2> SUFFICES ASSUME EngineInv, result.bias \in Opinion,
                      NEW t \in Requested, NEW v \in ScoreValue, v >= scores[t]
               PROVE  Rank(Bias(Requested, [scores EXCEPT ![t] = v])) >= Rank(result.bias)
    BY DEF BiasMonotone
  <2>1. Combined
    BY ResultKinds DEF EngineInv
  <2>2. /\ Scored(Requested, scores) /\ Requested # {} /\ Requested \subseteq Timeframe
        /\ result.bias = Bias(Requested, scores)
    BY <2>1, AllScored DEF EngineInv, Combined
  <2>3. PICK z : z = [scores EXCEPT ![t] = v]
    OBVIOUS
  <2>4. \A u \in Requested : z[u] = IF u = t THEN v ELSE scores[u]
    BY <2>2, <2>3 DEF EngineInv, EngineTypeOK
  <2>5. v \in Int
    BY ScoreAssumption
  <2>6. Scored(Requested, z) /\ \A u \in Requested : scores[u] <= z[u]
    BY <2>2, <2>4, <2>5 DEF Scored
  <2>7. Rank(Bias(Requested, z)) >= Rank(Bias(Requested, scores))
    BY <2>2, <2>6, BiasKeepsOrder
  <2>8. QED
    BY <2>2, <2>3, <2>7, Zenon
<1>2. QED
  BY <1>1, EngineAlways, PTL
=============================================================================
