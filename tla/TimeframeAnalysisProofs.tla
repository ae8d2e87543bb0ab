----------------------- MODULE TimeframeAnalysisProofs -----------------------
(***************************************************************************)
(* Proofs about Indicators and TimeframeAnalysis, for series of any length *)
(* and every configuration.  The indicators are recursive functions on the *)
(* positions of a series; what they compute is proved by induction on sets *)
(* of numbers.                                                             *)
(***************************************************************************)
EXTENDS TimeframeAnalysis, FiniteSetTheorems, SequenceTheorems, WellFoundedInduction, TLAPS

(* Numbers, recursion, sequences *)

\* A product with a natural keeps order.
LEMMA ProductMonotone ==
  ASSUME NEW w \in Nat, NEW a \in Int, NEW b \in Int, a <= b
  PROVE  w * a <= w * b /\ w * a \in Int /\ w * b \in Int
<1>1. b - a \in Nat
  OBVIOUS
<1>2. w * (b - a) \in Nat
  BY <1>1, SMTT(30)
<1>3. w * b = w * a + w * (b - a)
  BY SMTT(30)
<1>4. w * a \in Int /\ w * b \in Int
  BY SMTT(30)
<1>5. QED
  BY <1>2, <1>3, <1>4

\* A product of positive naturals is positive.
LEMMA ProductPositive ==
  ASSUME NEW a \in Nat \ {0}, NEW b \in Nat \ {0}
  PROVE  a * b \in Nat \ {0}
<1>1. a * 1 <= a * b /\ a * b \in Int
  BY ProductMonotone
<1>2. QED
  BY <1>1

\* A set that contains lo and, with each number, its successor contains all from lo.
LEMMA Induction ==
  ASSUME NEW lo \in Int, NEW S, lo \in S, \A n \in Int : n >= lo /\ n \in S => n + 1 \in S
  PROVE  \A n \in Int : n >= lo => n \in S
<1> DEFINE T == {d \in Nat : lo + d \notin S}
<1> SUFFICES ASSUME T # {} PROVE FALSE
  <2>1. ASSUME T = {}, NEW n \in Int, n >= lo PROVE n \in S
    <3>1. n - lo \in Nat /\ lo + (n - lo) = n
      BY <2>1
    <3>2. QED
      BY <2>1, <3>1
  <2>2. QED
    BY <2>1
<1>1. PICK x \in T : \A y \in T : ~ (<<y, x>> \in OpToRel(<, Nat))
  <2>1. T \subseteq Nat
    OBVIOUS
  <2>2. QED
    BY <2>1, NatLessThanWellFounded, WFMin
<1>2. \A y \in T : ~(y < x)
  BY <1>1 DEF OpToRel
<1>3. x # 0 /\ x - 1 \in Nat
  OBVIOUS
<1>4. lo + (x - 1) \in S
  BY <1>2, <1>3
<1>5. lo + (x - 1) + 1 = lo + x /\ lo + (x - 1) \in Int /\ lo + (x - 1) >= lo
  BY <1>3
<1>6. lo + x \in S
  BY <1>4, <1>5
<1>7. QED
  BY <1>6

\* f tabulates a recursion over lo..hi: step gives the next value.
Computes(f, lo, hi, a, step) ==
    f[lo] = a /\ \A k \in (lo + 1)..hi : f[k] = step[<<k, f[k - 1]>>]

\* A recursion on integers is computed by a function.
LEMMA Recursion ==
  ASSUME NEW lo \in Int, NEW hi \in Int, lo <= hi,
         NEW a \in Int, NEW step \in [((lo + 1)..hi) \X Int -> Int]
  PROVE  \E f \in [lo..hi -> Int] : Computes(f, lo, hi, a, step)
<1> DEFINE Has(m) == \E f \in [lo..m -> Int] : Computes(f, lo, m, a, step)
           S == {m \in Int : m <= hi => Has(m)}
<1>1. lo \in S
  <2>1. [k \in lo..lo |-> a] \in [lo..lo -> Int]
    OBVIOUS
  <2>2. Computes([k \in lo..lo |-> a], lo, lo, a, step)
    BY DEF Computes
  <2>3. QED
    BY <2>1, <2>2
<1>2. ASSUME NEW m \in Int, m >= lo, m \in S PROVE m + 1 \in S
  <2>1. SUFFICES ASSUME m + 1 <= hi PROVE Has(m + 1)
    OBVIOUS
  <2>2. PICK f \in [lo..m -> Int] : Computes(f, lo, m, a, step)
    BY <1>2, <2>1
  <2> DEFINE g == [k \in lo..(m + 1) |-> IF k = m + 1 THEN step[<<m + 1, f[m]>>] ELSE f[k]]
  <2>3. step[<<m + 1, f[m]>>] \in Int
    BY <1>2, <2>1
  <2>4. g \in [lo..(m + 1) -> Int]
    BY <2>3
  <2>5. ASSUME NEW k \in (lo + 1)..(m + 1) PROVE g[k] = step[<<k, g[k - 1]>>]
    <3>1. CASE k = m + 1
      <4>1. g[k] = step[<<m + 1, f[m]>>] /\ k - 1 \in lo..(m + 1) /\ k - 1 # m + 1 /\ k - 1 = m
        BY <1>2, <3>1
      <4>2. g[k - 1] = f[k - 1]
        BY <4>1
      <4>3. QED
        BY <3>1, <4>1, <4>2
    <3>2. CASE k # m + 1
      <4>1. k \in (lo + 1)..m /\ g[k] = f[k] /\ g[k - 1] = f[k - 1]
        BY <1>2, <3>2
      <4>2. QED
        BY <2>2, <4>1 DEF Computes
    <3>3. QED
      BY <3>1, <3>2
  <2>6. g[lo] = a
    BY <1>2, <2>2 DEF Computes
  <2>7. Computes(g, lo, m + 1, a, step)
    BY <2>5, <2>6 DEF Computes
  <2>8. QED
    BY <2>4, <2>7
<1> HIDE DEF S
<1>3. \A n \in Int : n >= lo => n \in S
  BY <1>1, <1>2, Induction
<1>4. QED
  BY <1>3 DEF S

\* What computes it has integer values, and nothing else computes it.
LEMMA Determined ==
  ASSUME NEW lo \in Int, NEW hi \in Int, NEW hj \in Int, lo <= hi, hi <= hj,
         NEW a \in Int, NEW step \in [((lo + 1)..hj) \X Int -> Int],
         NEW f, NEW g, Computes(f, lo, hi, a, step), Computes(g, lo, hj, a, step)
  PROVE  \A k \in lo..hi : f[k] \in Int /\ f[k] = g[k]
<1> DEFINE S == {m \in Int : m <= hi => f[m] \in Int /\ f[m] = g[m]}
<1>1. lo \in S
  BY DEF Computes
<1>2. ASSUME NEW m \in Int, m >= lo, m \in S PROVE m + 1 \in S
  <2>1. SUFFICES ASSUME m + 1 <= hi PROVE f[m + 1] \in Int /\ f[m + 1] = g[m + 1]
    OBVIOUS
  <2>2. f[m] \in Int /\ f[m] = g[m]
    BY <1>2, <2>1
  <2>3. m + 1 \in (lo + 1)..hi /\ m + 1 \in (lo + 1)..hj /\ (m + 1) - 1 = m
    BY <1>2, <2>1
  <2>4. f[m + 1] = step[<<m + 1, f[m]>>] /\ g[m + 1] = step[<<m + 1, g[m]>>]
    BY <2>3 DEF Computes
  <2>5. <<m + 1, f[m]>> \in ((lo + 1)..hj) \X Int
    BY <2>2, <2>3
  <2>6. QED
    BY <2>2, <2>4, <2>5
<1> HIDE DEF S
<1>3. \A n \in Int : n >= lo => n \in S
  BY <1>1, <1>2, Induction
<1>4. QED
  BY <1>3 DEF S

\* e follows the recursion as long as its values are integers.
Follows(e, lo, hi, a, step) ==
    e[lo] = a /\ \A k \in (lo + 1)..hi : e[k - 1] \in Int => e[k] = step[<<k, e[k - 1]>>]

\* Then it computes it.
LEMMA Tabulated ==
  ASSUME NEW lo \in Int, NEW hi \in Int, lo <= hi,
         NEW a \in Int, NEW step \in [((lo + 1)..hi) \X Int -> Int],
         NEW e, Follows(e, lo, hi, a, step)
  PROVE  (\A k \in lo..hi : e[k] \in Int) /\ Computes(e, lo, hi, a, step)
<1> DEFINE S == {m \in Int : m <= hi => e[m] \in Int}
<1>1. lo \in S
  BY DEF Follows
<1>2. ASSUME NEW m \in Int, m >= lo, m \in S PROVE m + 1 \in S
  <2>1. SUFFICES ASSUME m + 1 <= hi PROVE e[m + 1] \in Int
    OBVIOUS
  <2>2. e[m] \in Int /\ m + 1 \in (lo + 1)..hi /\ (m + 1) - 1 = m
    BY <1>2, <2>1
  <2>3. e[m + 1] = step[<<m + 1, e[m]>>]
    BY <2>2 DEF Follows
  <2>4. QED
    BY <2>2, <2>3
<1> HIDE DEF S
<1>3. \A n \in Int : n >= lo => n \in S
  BY <1>1, <1>2, Induction
<1>4. \A k \in lo..hi : e[k] \in Int
  BY <1>3 DEF S
<1>5. \A k \in (lo + 1)..hi : k - 1 \in lo..hi
  OBVIOUS
<1>6. QED
  BY <1>4, <1>5 DEF Computes, Follows

\* p tabulates the powers of b up to the n-th.
Powers(p, b, n) ==
    /\ Power(b, n) = p[n] /\ \A k \in 0..n : p[k] \in Int
    /\ p[0] = 1 /\ \A k \in 1..n : p[k] = b * p[k - 1]

\* The definition of powers is such a table.
LEMMA PowerTabulated ==
  ASSUME NEW b \in Int, NEW n \in Nat
  PROVE  \E p : Powers(p, b, n)
<1> DEFINE step == [q \in ((0 + 1)..n) \X Int |-> b * q[2]]
           G(h) == [k \in 0..n |-> IF k = 0 THEN 1 ELSE b * h[k - 1]]
<1>1. step \in [((0 + 1)..n) \X Int -> Int] /\ 0 <= n /\ 0 \in Int /\ n \in Int /\ 1 \in Int
  OBVIOUS
<1>2. \A k \in 1..n, x \in Int : step[<<k, x>>] = b * x
  OBVIOUS
<1> HIDE DEF step
<1>3. PICK f \in [0..n -> Int] : Computes(f, 0, n, 1, step)
  BY <1>1, Recursion
<1>4. f = G(f)
  <2>1. ASSUME NEW k \in 0..n PROVE f[k] = G(f)[k]
    <3>1. CASE k = 0
      BY <1>3, <3>1 DEF Computes
    <3>2. CASE k # 0
      <4>1. k \in 1..n /\ k \in (0 + 1)..n /\ k - 1 \in 0..n /\ f[k - 1] \in Int
        BY <3>2
      <4>2. f[k] = step[<<k, f[k - 1]>>]
        BY <1>3, <4>1 DEF Computes
      <4>3. QED
        BY <1>2, <3>2, <4>1, <4>2
    <3>3. QED
      BY <3>1, <3>2
  <2>2. QED
    BY <2>1
<1>5. PICK e : e = G(e) /\ Power(b, n) = e[n]
  <2>1. Power(b, n) = (CHOOSE h : h = G(h))[n]
    BY DEF Power
  <2>2. QED
    BY <1>4, <2>1
<1>6. e[0] = 1 /\ \A k \in 1..n : e[k] = b * e[k - 1]
  <2>1. \A k \in 0..n : G(e)[k] = IF k = 0 THEN 1 ELSE b * e[k - 1]
    OBVIOUS
  <2> HIDE DEF G
  <2>2. \A k \in 0..n : e[k] = IF k = 0 THEN 1 ELSE b * e[k - 1]
    BY <1>5, <2>1
  <2>3. QED
    BY <2>2
<1>7. Follows(e, 0, n, 1, step)
  BY <1>2, <1>6 DEF Follows
<1>8. \A k \in 0..n : e[k] \in Int
  BY <1>1, <1>7, Tabulated
<1>9. QED
  BY <1>5, <1>6, <1>8 DEF Powers

\* The laws of powers.
LEMMA PowerLaws ==
  ASSUME NEW b \in Int, NEW n \in Nat
  PROVE  Power(b, n) \in Int /\ Power(b, 0) = 1 /\ Power(b, n + 1) = b * Power(b, n)
<1>1. PICK p : Powers(p, b, n)
  BY PowerTabulated
<1>2. PICK q : Powers(q, b, n + 1)
  <2>1. n + 1 \in Nat
    OBVIOUS
  <2>2. QED
    BY <2>1, PowerTabulated, Zenon
<1>3. PICK r : Powers(r, b, 0)
  <2>1. 0 \in Nat
    OBVIOUS
  <2>2. QED
    BY <2>1, PowerTabulated, Zenon
<1>4. Power(b, 0) = 1
  BY <1>3 DEF Powers
<1> DEFINE S == {m \in Int : m <= n => p[m] = q[m]}
<1>5. 0 \in S
  BY <1>1, <1>2 DEF Powers
<1>6. ASSUME NEW m \in Int, m >= 0, m \in S PROVE m + 1 \in S
  <2>1. SUFFICES ASSUME m + 1 <= n PROVE p[m + 1] = q[m + 1]
    OBVIOUS
  <2>2. m + 1 \in 1..n /\ m + 1 \in 1..(n + 1) /\ (m + 1) - 1 = m /\ p[m] = q[m]
    BY <1>6, <2>1
  <2>3. p[m + 1] = b * p[m] /\ q[m + 1] = b * q[m]
    BY <1>1, <1>2, <2>2 DEF Powers
  <2>4. QED
    BY <2>2, <2>3
<1> HIDE DEF S
<1>7. \A m \in Int : m >= 0 => m \in S
  BY <1>5, <1>6, Induction
<1>8. p[n] = q[n]
  BY <1>7 DEF S
<1>9. q[n + 1] = b * q[n] /\ n \in 0..n
  <2>1. n + 1 \in 1..(n + 1) /\ (n + 1) - 1 = n
    OBVIOUS
  <2>2. QED
    BY <1>2, <2>1 DEF Powers
<1>10. QED
  BY <1>1, <1>2, <1>4, <1>8, <1>9 DEF Powers

\* Powers of positive numbers are positive.
LEMMA PowerPositive ==
  ASSUME NEW b \in Nat \ {0}
  PROVE  \A n \in Nat : Power(b, n) \in Nat \ {0}
<1> DEFINE S == {m \in Nat : Power(b, m) \in Nat \ {0}}
<1>1. 0 \in S
  BY PowerLaws
<1>2. ASSUME NEW m \in Int, m >= 0, m \in S PROVE m + 1 \in S
  <2>1. m \in Nat /\ Power(b, m) \in Nat \ {0}
    BY <1>2
  <2>2. b * Power(b, m) \in Nat \ {0}
    BY <2>1, ProductPositive
  <2>3. QED
    BY <2>1, <2>2, PowerLaws
<1> HIDE DEF S
<1>3. \A m \in Int : m >= 0 => m \in S
  BY <1>1, <1>2, Induction
<1>4. QED
  BY <1>3 DEF S

\* Exponents add.
LEMMA PowerAdds ==
  ASSUME NEW b \in Int, NEW i \in Nat
  PROVE  \A j \in Nat : Power(b, i + j) = Power(b, i) * Power(b, j)
<1> DEFINE S == {j \in Nat : Power(b, i + j) = Power(b, i) * Power(b, j)}
<1>1. 0 \in S
  BY PowerLaws
<1>2. ASSUME NEW j \in Int, j >= 0, j \in S PROVE j + 1 \in S
  <2>1. j \in Nat /\ i + j \in Nat /\ i + (j + 1) = (i + j) + 1
    BY <1>2
  <2>2. Power(b, i + (j + 1)) = b * Power(b, i + j) /\ Power(b, j + 1) = b * Power(b, j)
    BY <2>1, PowerLaws
  <2>3. Power(b, i + j) = Power(b, i) * Power(b, j)
    BY <1>2
  <2>4. Power(b, i) \in Int /\ Power(b, j) \in Int
    BY <2>1, PowerLaws
  <2>5. \A x \in Int, y \in Int : b * (x * y) = x * (b * y)
    BY SMTT(30)
  <2>6. Power(b, i + (j + 1)) = Power(b, i) * Power(b, j + 1)
    BY <2>2, <2>3, <2>4, <2>5, Zenon
  <2>7. QED
    BY <2>1, <2>6
<1> HIDE DEF S
<1>3. \A j \in Int : j >= 0 => j \in S
  BY <1>1, <1>2, Induction
<1>4. QED
  BY <1>3 DEF S

\* The denominators of the averages.
LEMMA EmaScaleLaws ==
  ASSUME NEW period \in Nat, NEW k \in Nat \ {0}
  PROVE  /\ EmaScale(period, k) \in Nat \ {0} /\ EmaScale(period, 1) = 1
         /\ EmaScale(period, k + 1) = (period + 1) * EmaScale(period, k)
<1>1. k - 1 \in Nat /\ (k + 1) - 1 = (k - 1) + 1 /\ period + 1 \in Nat \ {0} /\ 1 - 1 = 0
  OBVIOUS
<1>2. Power(period + 1, k - 1) \in Nat \ {0}
  BY <1>1, PowerPositive
<1>3. Power(period + 1, (k - 1) + 1) = (period + 1) * Power(period + 1, k - 1)
  BY <1>1, PowerLaws
<1>4. Power(period + 1, 0) = 1
  BY <1>1, PowerLaws
<1>5. QED
  BY <1>1, <1>2, <1>3, <1>4 DEF EmaScale

\* v is a series of n integers.
IntSeries(v, n) == Len(v) = n /\ \A k \in 1..n : v[k] \in Int

\* f tabulates the sums of v.
Sums(f, v, n) ==
    /\ Total(v) = f[n] /\ \A k \in 0..n : f[k] \in Int
    /\ f[0] = 0 /\ \A k \in 1..n : f[k] = f[k - 1] + v[k]

\* The definition of totals is such a table.
LEMMA TotalTabulated ==
  ASSUME NEW n \in Nat, NEW v, IntSeries(v, n)
  PROVE  \E f : Sums(f, v, n)
<1> DEFINE step == [q \in ((0 + 1)..n) \X Int |-> q[2] + v[q[1]]]
           G(h) == [k \in 0..n |-> IF k = 0 THEN 0 ELSE h[k - 1] + v[k]]
<1>1. step \in [((0 + 1)..n) \X Int -> Int] /\ 0 <= n /\ 0 \in Int /\ n \in Int
  BY DEF IntSeries
<1>2. \A k \in 1..n, x \in Int : step[<<k, x>>] = x + v[k]
  OBVIOUS
<1> HIDE DEF step
<1>3. PICK f \in [0..n -> Int] : Computes(f, 0, n, 0, step)
  BY <1>1, Recursion
<1>4. f = G(f)
  <2>1. ASSUME NEW k \in 0..n PROVE f[k] = G(f)[k]
    <3>1. CASE k = 0
      BY <1>3, <3>1 DEF Computes
    <3>2. CASE k # 0
      <4>1. k \in 1..n /\ k \in (0 + 1)..n /\ k - 1 \in 0..n /\ f[k - 1] \in Int
        BY <3>2
      <4>2. f[k] = step[<<k, f[k - 1]>>]
        BY <1>3, <4>1 DEF Computes
      <4>3. QED
        BY <1>2, <3>2, <4>1, <4>2
    <3>3. QED
      BY <3>1, <3>2
  <2>2. QED
    BY <2>1
<1>5. PICK e : e = G(e) /\ Total(v) = e[n]
  <2>1. Total(v) = (CHOOSE h : h = G(h))[n]
    BY DEF Total, IntSeries
  <2>2. QED
    BY <1>4, <2>1
<1>6. e[0] = 0 /\ \A k \in 1..n : e[k] = e[k - 1] + v[k]
  <2>1. \A k \in 0..n : G(e)[k] = IF k = 0 THEN 0 ELSE e[k - 1] + v[k]
    OBVIOUS
  <2> HIDE DEF G
  <2>2. \A k \in 0..n : e[k] = IF k = 0 THEN 0 ELSE e[k - 1] + v[k]
    BY <1>5, <2>1
  <2>3. QED
    BY <2>2
<1>7. Follows(e, 0, n, 0, step)
  <2>1. ASSUME NEW k \in (0 + 1)..n, e[k - 1] \in Int PROVE e[k] = step[<<k, e[k - 1]>>]
    <3>1. k \in 1..n
      OBVIOUS
    <3>2. e[k] = e[k - 1] + v[k]
      BY <1>6, <3>1
    <3>3. QED
      BY <1>2, <2>1, <3>1, <3>2, Zenon
  <2>2. QED
    BY <1>6, <2>1, Zenon DEF Follows
<1>8. \A k \in 0..n : e[k] \in Int
  BY <1>1, <1>7, Tabulated
<1>9. QED
  BY <1>5, <1>6, <1>8 DEF Sums

\* e tabulates the exponential averages of v.
Averages(e, v, n, period) ==
    /\ \A k \in 1..n : e[k] \in Int
    /\ e[1] = v[1]
    /\ \A k \in 2..n : e[k] = 2 * v[k] * EmaScale(period, k - 1) + (period - 1) * e[k - 1]

\* _ema_values returns such a table.
LEMMA EmaTabulated ==
  ASSUME NEW n \in Nat \ {0}, NEW v, IntSeries(v, n), NEW period \in Nat
  PROVE  Averages(EmaValues(v, period), v, n, period)
<1> DEFINE step == [q \in ((1 + 1)..n) \X Int |->
                      2 * v[q[1]] * EmaScale(period, q[1] - 1) + (period - 1) * q[2]]
           G(h) == [k \in 1..n |-> IF k = 1 THEN v[1]
                      ELSE 2 * v[k] * EmaScale(period, k - 1) + (period - 1) * h[k - 1]]
<1>1. ASSUME NEW k \in 2..n, NEW x \in Int
      PROVE  2 * v[k] * EmaScale(period, k - 1) + (period - 1) * x \in Int
  <2>1. k - 1 \in Nat \ {0} /\ v[k] \in Int
    BY DEF IntSeries
  <2>2. EmaScale(period, k - 1) \in Int
    BY <2>1, EmaScaleLaws
  <2>3. QED
    BY <2>1, <2>2
<1>2. step \in [((1 + 1)..n) \X Int -> Int] /\ 1 <= n /\ 1 \in Int /\ n \in Int /\ v[1] \in Int
  <2>1. 1 <= n /\ 1 \in Int /\ n \in Int /\ v[1] \in Int
    BY DEF IntSeries
  <2>2. ASSUME NEW q \in ((1 + 1)..n) \X Int
        PROVE  2 * v[q[1]] * EmaScale(period, q[1] - 1) + (period - 1) * q[2] \in Int
    <3>1. q[1] \in 2..n /\ q[2] \in Int
      OBVIOUS
    <3>2. QED
      BY <1>1, <3>1
  <2>3. QED
    BY <2>1, <2>2
<1>3. \A k \in 2..n, x \in Int :
        step[<<k, x>>] = 2 * v[k] * EmaScale(period, k - 1) + (period - 1) * x
  OBVIOUS
<1> HIDE DEF step
<1>4. PICK f \in [1..n -> Int] : Computes(f, 1, n, v[1], step)
  BY <1>2, Recursion
<1>5. f = G(f)
  <2>1. ASSUME NEW k \in 1..n PROVE f[k] = G(f)[k]
    <3>1. CASE k = 1
      BY <1>4, <3>1 DEF Computes
    <3>2. CASE k # 1
      <4>1. k \in 2..n /\ k \in (1 + 1)..n /\ k - 1 \in 1..n /\ f[k - 1] \in Int
        BY <3>2
      <4>2. f[k] = step[<<k, f[k - 1]>>]
        BY <1>4, <4>1 DEF Computes
      <4>3. QED
        BY <1>3, <3>2, <4>1, <4>2
    <3>3. QED
      BY <3>1, <3>2
  <2>2. QED
    BY <2>1
<1>6. PICK e : e = G(e) /\ EmaValues(v, period) = e
  <2>1. EmaValues(v, period) = CHOOSE h : h = G(h)
    BY DEF EmaValues, IntSeries
  <2>2. QED
    BY <1>5, <2>1
<1>7. /\ e[1] = v[1]
      /\ \A k \in 2..n : e[k] = 2 * v[k] * EmaScale(period, k - 1) + (period - 1) * e[k - 1]
  <2>1. \A k \in 1..n : G(e)[k] = IF k = 1 THEN v[1]
                ELSE 2 * v[k] * EmaScale(period, k - 1) + (period - 1) * e[k - 1]
    OBVIOUS
  <2> HIDE DEF G
  <2>2. \A k \in 1..n : e[k] = IF k = 1 THEN v[1]
                ELSE 2 * v[k] * EmaScale(period, k - 1) + (period - 1) * e[k - 1]
    BY <1>6, <2>1
  <2>3. QED
    BY <2>2
<1>8. Follows(e, 1, n, v[1], step)
  <2>1. ASSUME NEW k \in (1 + 1)..n, e[k - 1] \in Int PROVE e[k] = step[<<k, e[k - 1]>>]
    <3>1. k \in 2..n
      OBVIOUS
    <3>2. e[k] = 2 * v[k] * EmaScale(period, k - 1) + (period - 1) * e[k - 1]
      BY <1>7, <3>1
    <3>3. QED
      BY <1>3, <2>1, <3>1, <3>2, Zenon
  <2>2. QED
    BY <1>7, <2>1, Zenon DEF Follows
<1>9. \A k \in 1..n : e[k] \in Int
  BY <1>2, <1>8, Tabulated
<1>10. QED
  BY <1>6, <1>7, <1>9 DEF Averages

\* The first values of a series are one.
LEMMA PrefixSeries ==
  ASSUME NEW n \in Nat, NEW v, IntSeries(v, n), NEW m \in 1..n
  PROVE  IntSeries(SubSeq(v, 1, m), m) /\ \A k \in 1..m : SubSeq(v, 1, m)[k] = v[k]
<1>1. \A i \in 1..m : v[i] \in Int
  BY DEF IntSeries
<1>2. 1 \in Int /\ m \in Int /\ 1 <= m /\ m - 1 + 1 = m
  OBVIOUS
<1>3. /\ SubSeq(v, 1, m) \in Seq(Int)
      /\ Len(SubSeq(v, 1, m)) = IF 1 <= m THEN m - 1 + 1 ELSE 0
      /\ \A i \in 1..(m - 1 + 1) : SubSeq(v, 1, m)[i] = v[1 + i - 1]
  BY <1>1, <1>2, SubSeqProperties
<1>4. Len(SubSeq(v, 1, m)) = m
  BY <1>2, <1>3
<1>5. ASSUME NEW k \in 1..m PROVE SubSeq(v, 1, m)[k] = v[k]
  <2>1. k \in 1..(m - 1 + 1) /\ 1 + k - 1 = k
    OBVIOUS
  <2>2. QED
    BY <1>3, <2>1
<1>6. QED
  BY <1>1, <1>4, <1>5 DEF IntSeries

\* w tabulates Wilder's smoothing of v.
Smooths(w, v, n, period) ==
    /\ Wilder(v, period) = w[n] /\ \A k \in period..n : w[k] \in Int
    /\ w[period] = Total(SubSeq(v, 1, period))
    /\ \A k \in (period + 1)..n : w[k] = (period - 1) * w[k - 1] + v[k] * Power(period, k - period)

\* The definition of the smoothing is such a table.
LEMMA WilderTabulated ==
  ASSUME NEW n \in Nat, NEW v, IntSeries(v, n), NEW period \in 1..n
  PROVE  \E w : Smooths(w, v, n, period)
<1> DEFINE a == Total(SubSeq(v, 1, period))
           step == [q \in ((period + 1)..n) \X Int |->
                      (period - 1) * q[2] + v[q[1]] * Power(period, q[1] - period)]
           G(h) == [k \in period..n |-> IF k = period THEN a
                      ELSE (period - 1) * h[k - 1] + v[k] * Power(period, k - period)]
<1>1. a \in Int
  <2>1. IntSeries(SubSeq(v, 1, period), period)
    BY PrefixSeries
  <2>2. PICK f : Sums(f, SubSeq(v, 1, period), period)
    BY <2>1, TotalTabulated
  <2>3. QED
    BY <2>2 DEF Sums
<1>2. ASSUME NEW k \in (period + 1)..n, NEW x \in Int
      PROVE  (period - 1) * x + v[k] * Power(period, k - period) \in Int
  <2>1. k - period \in Nat /\ v[k] \in Int /\ period \in Int
    BY DEF IntSeries
  <2>2. Power(period, k - period) \in Int
    BY <2>1, PowerLaws
  <2>3. QED
    BY <2>1, <2>2
<1> HIDE DEF a
<1>3. /\ step \in [((period + 1)..n) \X Int -> Int]
      /\ period <= n /\ period \in Int /\ n \in Int
  <2>1. ASSUME NEW q \in ((period + 1)..n) \X Int
        PROVE  (period - 1) * q[2] + v[q[1]] * Power(period, q[1] - period) \in Int
    <3>1. q[1] \in (period + 1)..n /\ q[2] \in Int
      OBVIOUS
    <3>2. QED
      BY <1>2, <3>1
  <2>2. QED
    BY <2>1
<1>4. \A k \in (period + 1)..n, x \in Int :
        step[<<k, x>>] = (period - 1) * x + v[k] * Power(period, k - period)
  OBVIOUS
<1> HIDE DEF step
<1>5. PICK f \in [period..n -> Int] : Computes(f, period, n, a, step)
  BY <1>1, <1>3, Recursion
<1>6. f = G(f)
  <2>1. ASSUME NEW k \in period..n PROVE f[k] = G(f)[k]
    <3>1. CASE k = period
      BY <1>5, <3>1 DEF Computes
    <3>2. CASE k # period
      <4>1. k \in (period + 1)..n /\ k - 1 \in period..n /\ f[k - 1] \in Int
        BY <3>2
      <4>2. f[k] = step[<<k, f[k - 1]>>]
        BY <1>5, <4>1 DEF Computes
      <4>3. QED
        BY <1>4, <3>2, <4>1, <4>2
    <3>3. QED
      BY <3>1, <3>2
  <2>2. QED
    BY <2>1
<1>7. PICK e : e = G(e) /\ Wilder(v, period) = e[n]
  <2>1. Wilder(v, period) = (CHOOSE h : h = G(h))[n]
    BY DEF Wilder, IntSeries, a
  <2>2. QED
    BY <1>6, <2>1
<1>8. /\ e[period] = a
      /\ \A k \in (period + 1)..n :
            e[k] = (period - 1) * e[k - 1] + v[k] * Power(period, k - period)
  <2>1. \A k \in period..n : G(e)[k] = IF k = period THEN a
                ELSE (period - 1) * e[k - 1] + v[k] * Power(period, k - period)
    OBVIOUS
  <2> HIDE DEF G
  <2>2. \A k \in period..n : e[k] = IF k = period THEN a
                ELSE (period - 1) * e[k - 1] + v[k] * Power(period, k - period)
    BY <1>7, <2>1
  <2>3. QED
    BY <2>2
<1>9. Follows(e, period, n, a, step)
  <2>1. ASSUME NEW k \in (period + 1)..n, e[k - 1] \in Int PROVE e[k] = step[<<k, e[k - 1]>>]
    BY <1>4, <1>8, <2>1, Zenon
  <2>2. QED
    BY <1>8, <2>1, Zenon DEF Follows
<1>10. \A k \in period..n : e[k] \in Int
  BY <1>1, <1>3, <1>9, Tabulated
<1>11. QED
  BY <1>7, <1>8, <1>10, Zenon DEF Smooths, a
-----------------------------------------------------------------------------
(* What the averages compute *)

\* u is the series of a * v + b.
AffineImage(u, v, n, a, b) == \A k \in 1..n : u[k] = a * v[k] + b

\* The average of an affine image is the affine image of the average.
LEMMA EmaAffine ==
  ASSUME NEW n \in Nat \ {0}, NEW v, NEW u, IntSeries(v, n), IntSeries(u, n),
         NEW period \in Nat, NEW a \in Int, NEW b \in Int,
         AffineImage(u, v, n, a, b)
  PROVE  \A k \in 1..n :
            EmaValues(u, period)[k] = a * EmaValues(v, period)[k] + b * EmaScale(period, k)
<1> DEFINE e == EmaValues(v, period)
           d == EmaValues(u, period)
           Good(k) == d[k] = a * e[k] + b * EmaScale(period, k)
           S == {k \in Int : k <= n => Good(k)}
<1>1. Averages(e, v, n, period) /\ Averages(d, u, n, period)
  BY EmaTabulated
<1> HIDE DEF e, d
<1>2. 1 \in S
  <2>1. d[1] = a * v[1] + b /\ e[1] = v[1] /\ EmaScale(period, 1) = 1
    BY <1>1, EmaScaleLaws DEF Averages, AffineImage
  <2>2. QED
    BY <2>1
<1>3. ASSUME NEW k \in Int, k >= 1, k \in S PROVE k + 1 \in S
  <2>1. SUFFICES ASSUME k + 1 <= n PROVE Good(k + 1)
    OBVIOUS
  <2>2. /\ k + 1 \in 2..n /\ k + 1 \in 1..n /\ k \in 1..n /\ (k + 1) - 1 = k
        /\ k \in Nat \ {0} /\ Good(k)
    BY <1>3, <2>1
  <2>3. /\ d[k + 1] = 2 * u[k + 1] * EmaScale(period, k) + (period - 1) * d[k]
        /\ e[k + 1] = 2 * v[k + 1] * EmaScale(period, k) + (period - 1) * e[k]
        /\ e[k] \in Int
    BY <1>1, <2>2 DEF Averages
  <2>4. /\ u[k + 1] = a * v[k + 1] + b /\ v[k + 1] \in Int
        /\ EmaScale(period, k) \in Int
        /\ EmaScale(period, k + 1) = (period + 1) * EmaScale(period, k)
    BY <2>2, EmaScaleLaws DEF IntSeries, AffineImage
  <2>5. \A x \in Int, y \in Int, z \in Int :
          2 * (a * x + b) * y + (period - 1) * (a * z + b * y)
            = a * (2 * x * y + (period - 1) * z) + b * ((period + 1) * y)
    BY SMTT(60)
  <2>6. d[k] = a * e[k] + b * EmaScale(period, k)
    BY <2>2
  <2>7. d[k + 1] = 2 * (a * v[k + 1] + b) * EmaScale(period, k)
                     + (period - 1) * (a * e[k] + b * EmaScale(period, k))
    BY <2>3, <2>4, <2>6, Zenon
  <2>8. d[k + 1] = a * (2 * v[k + 1] * EmaScale(period, k) + (period - 1) * e[k])
                     + b * ((period + 1) * EmaScale(period, k))
    <3>1. PICK x \in Int, y \in Int, z \in Int :
            x = v[k + 1] /\ y = EmaScale(period, k) /\ z = e[k]
      BY <2>3, <2>4
    <3>2. 2 * (a * x + b) * y + (period - 1) * (a * z + b * y)
            = a * (2 * x * y + (period - 1) * z) + b * ((period + 1) * y)
      BY <2>5
    <3>3. QED
      BY <2>7, <3>1, <3>2, Zenon
  <2>9. QED
    BY <2>3, <2>4, <2>8, Zenon
<1> HIDE DEF S
<1>4. \A k \in Int : k >= 1 => k \in S
  BY <1>2, <1>3, Induction
<1>5. QED
  BY <1>4 DEF S, d, e

\* u is the series of a * v.
MultipleOf(u, v, n, a) == \A k \in 1..n : u[k] = a * v[k]

\* A total of multiples is the multiple of the total.
LEMMA TotalScaled ==
  ASSUME NEW n \in Nat, NEW v, NEW u, IntSeries(v, n), IntSeries(u, n),
         NEW a \in Int, MultipleOf(u, v, n, a)
  PROVE  Total(u) = a * Total(v) /\ Total(v) \in Int
<1>1. PICK f : Sums(f, v, n)
  BY TotalTabulated
<1>2. PICK g : Sums(g, u, n)
  BY TotalTabulated
<1> DEFINE S == {k \in Int : k <= n => g[k] = a * f[k]}
<1>3. 0 \in S
  BY <1>1, <1>2 DEF Sums
<1>4. ASSUME NEW k \in Int, k >= 0, k \in S PROVE k + 1 \in S
  <2>1. SUFFICES ASSUME k + 1 <= n PROVE g[k + 1] = a * f[k + 1]
    OBVIOUS
  <2>2. k + 1 \in 1..n /\ k \in 0..n /\ (k + 1) - 1 = k /\ g[k] = a * f[k]
    BY <1>4, <2>1
  <2>3. /\ g[k + 1] = g[k] + u[k + 1] /\ f[k + 1] = f[k] + v[k + 1]
        /\ f[k] \in Int /\ v[k + 1] \in Int /\ u[k + 1] = a * v[k + 1]
    BY <1>1, <1>2, <2>2 DEF Sums, IntSeries, MultipleOf
  <2>4. \A x \in Int, y \in Int : a * x + a * y = a * (x + y)
    BY SMTT(30)
  <2>5. QED
    BY <2>2, <2>3, <2>4, Zenon
<1> HIDE DEF S
<1>5. \A k \in Int : k >= 0 => k \in S
  BY <1>3, <1>4, Induction
<1>6. QED
  BY <1>1, <1>2, <1>5 DEF S, Sums

\* A total lies between the bounds of its values, taken n times.
LEMMA TotalBounded ==
  ASSUME NEW n \in Nat, NEW v, IntSeries(v, n), NEW lo \in Int, NEW hi \in Int,
         \A k \in 1..n : lo <= v[k] /\ v[k] <= hi
  PROVE  Total(v) \in Int /\ lo * n <= Total(v) /\ Total(v) <= hi * n
<1>1. PICK f : Sums(f, v, n)
  BY TotalTabulated
<1> DEFINE S == {k \in Int : k <= n => lo * k <= f[k] /\ f[k] <= hi * k}
<1>2. 0 \in S
  BY <1>1 DEF Sums
<1>3. ASSUME NEW k \in Int, k >= 0, k \in S PROVE k + 1 \in S
  <2>1. SUFFICES ASSUME k + 1 <= n PROVE lo * (k + 1) <= f[k + 1] /\ f[k + 1] <= hi * (k + 1)
    OBVIOUS
  <2>2. k + 1 \in 1..n /\ k \in 0..n /\ (k + 1) - 1 = k /\ lo * k <= f[k] /\ f[k] <= hi * k
    BY <1>3, <2>1
  <2>3. /\ f[k + 1] = f[k] + v[k + 1] /\ f[k] \in Int /\ v[k + 1] \in Int
        /\ lo <= v[k + 1] /\ v[k + 1] <= hi
    BY <1>1, <2>2 DEF Sums, IntSeries
  <2>4. lo * (k + 1) = lo * k + lo /\ hi * (k + 1) = hi * k + hi /\ lo * k \in Int /\ hi * k \in Int
    BY SMTT(30)
  <2>5. PICK x \in Int, y \in Int : x = lo * k /\ y = hi * k
    BY <2>4
  <2>6. x + lo <= f[k] + v[k + 1] /\ f[k] + v[k + 1] <= y + hi
    BY <2>2, <2>3, <2>5
  <2>7. QED
    BY <2>3, <2>4, <2>5, <2>6, Zenon
<1> HIDE DEF S
<1>4. \A k \in Int : k >= 0 => k \in S
  BY <1>2, <1>3, Induction
<1>5. QED
  BY <1>1, <1>4 DEF S, Sums

\* Wilder's smoothing of multiples is the multiple of the smoothing.
LEMMA WilderScaled ==
  ASSUME NEW n \in Nat, NEW v, NEW u, IntSeries(v, n), IntSeries(u, n), NEW period \in 1..n,
         NEW a \in Int, MultipleOf(u, v, n, a)
  PROVE  Wilder(u, period) = a * Wilder(v, period) /\ Wilder(v, period) \in Int
<1>1. PICK w : Smooths(w, v, n, period)
  BY WilderTabulated
<1>2. PICK z : Smooths(z, u, n, period)
  BY WilderTabulated
<1> DEFINE S == {k \in Int : k <= n => z[k] = a * w[k]}
<1>3. period \in S
  <2>1. IntSeries(SubSeq(v, 1, period), period) /\ IntSeries(SubSeq(u, 1, period), period)
    BY PrefixSeries
  <2>2. MultipleOf(SubSeq(u, 1, period), SubSeq(v, 1, period), period, a)
    <3>1. \A k \in 1..period : SubSeq(u, 1, period)[k] = u[k]
      BY PrefixSeries
    <3>2. \A k \in 1..period : SubSeq(v, 1, period)[k] = v[k]
      BY PrefixSeries
    <3>3. \A k \in 1..period : k \in 1..n
      OBVIOUS
    <3>4. QED
      BY <3>1, <3>2, <3>3, Zenon DEF MultipleOf
  <2>3. Total(SubSeq(u, 1, period)) = a * Total(SubSeq(v, 1, period))
    <3>1. period \in Nat
      OBVIOUS
    <3>2. QED
      BY <2>1, <2>2, <3>1, TotalScaled
  <2>4. z[period] = a * w[period]
    BY <1>1, <1>2, <2>3, Zenon DEF Smooths
  <2>5. QED
    BY <2>4
<1>4. ASSUME NEW k \in Int, k >= period, k \in S PROVE k + 1 \in S
  <2>1. SUFFICES ASSUME k + 1 <= n PROVE z[k + 1] = a * w[k + 1]
    OBVIOUS
  <2>2. /\ k + 1 \in (period + 1)..n /\ k + 1 \in 1..n /\ k \in period..n /\ (k + 1) - 1 = k
        /\ (k + 1) - period \in Nat /\ z[k] = a * w[k]
    BY <1>4, <2>1
  <2>3. /\ z[k + 1] = (period - 1) * z[k] + u[k + 1] * Power(period, (k + 1) - period)
        /\ w[k + 1] = (period - 1) * w[k] + v[k + 1] * Power(period, (k + 1) - period)
        /\ w[k] \in Int /\ v[k + 1] \in Int /\ u[k + 1] = a * v[k + 1]
    BY <1>1, <1>2, <2>2 DEF Smooths, IntSeries, MultipleOf
  <2>4. Power(period, (k + 1) - period) \in Int
    BY <2>2, PowerLaws
  <2>5. PICK x \in Int, y \in Int, q \in Int :
          x = w[k] /\ y = v[k + 1] /\ q = Power(period, (k + 1) - period)
    BY <2>3, <2>4
  <2>6. (period - 1) * (a * x) + (a * y) * q = a * ((period - 1) * x + y * q)
    BY SMTT(30)
  <2>7. z[k + 1] = (period - 1) * (a * x) + (a * y) * q
    BY <2>2, <2>3, <2>5, Zenon
  <2>8. w[k + 1] = (period - 1) * x + y * q
    BY <2>3, <2>5, Zenon
  <2>9. QED
    BY <2>6, <2>7, <2>8, Zenon
<1> HIDE DEF S
<1>5. \A k \in Int : k >= period => k \in S
  BY <1>3, <1>4, Induction
<1>6. z[n] = a * w[n] /\ w[n] \in Int
  BY <1>1, <1>5 DEF S, Smooths
<1>7. QED
  BY <1>1, <1>2, <1>6, Zenon DEF Smooths

\* One step of the smoothing keeps a bound, with p the power so far.
LEMMA SmoothingStep ==
  ASSUME NEW period \in Nat \ {0}, NEW p \in Nat, NEW c \in Int, NEW x \in Int, NEW y \in Int
  PROVE  /\ c <= y /\ c * p <= x => c * (period * p) <= (period - 1) * x + y * p
         /\ y <= c /\ x <= c * p => (period - 1) * x + y * p <= c * (period * p)
<1>1. c * (period * p) = (period - 1) * (c * p) + p * c /\ y * p = p * y /\ c * p \in Int
  BY SMTT(30)
<1>2. period - 1 \in Nat
  OBVIOUS
<1>3. PICK z \in Int : z = c * p
  BY <1>1
<1>4. /\ (period - 1) * z \in Int /\ (period - 1) * x \in Int /\ p * c \in Int /\ p * y \in Int
      /\ z <= x => (period - 1) * z <= (period - 1) * x
      /\ x <= z => (period - 1) * x <= (period - 1) * z
  <2>1. /\ z <= x => (period - 1) * z <= (period - 1) * x
        /\ x <= z => (period - 1) * x <= (period - 1) * z
    BY <1>2, ProductMonotone
  <2>2. (period - 1) * z \in Int /\ (period - 1) * x \in Int /\ p * c \in Int /\ p * y \in Int
    BY SMTT(30)
  <2>3. QED
    BY <2>1, <2>2
<1>5. (c <= y => p * c <= p * y) /\ (y <= c => p * y <= p * c)
  BY ProductMonotone
<1>6. PICK m \in Int, o \in Int, r \in Int, t \in Int :
        m = (period - 1) * z /\ o = (period - 1) * x /\ r = p * c /\ t = p * y
  BY <1>4
<1>7. /\ c <= y /\ z <= x => m + r <= o + t
      /\ y <= c /\ x <= z => o + t <= m + r
  BY <1>4, <1>5, <1>6
<1>8. c * (period * p) = m + r /\ (period - 1) * x + y * p = o + t
  BY <1>1, <1>3, <1>6, Zenon
<1>9. QED
  BY <1>3, <1>7, <1>8, Zenon

\* The smoothing lies between the bounds of the values, on its own scale.
LEMMA WilderBounded ==
  ASSUME NEW n \in Nat, NEW v, IntSeries(v, n), NEW period \in 1..n,
         NEW lo \in Int, NEW hi \in Int, \A k \in 1..n : lo <= v[k] /\ v[k] <= hi
  PROVE  /\ Wilder(v, period) \in Int
         /\ lo * Power(period, n - period + 1) <= Wilder(v, period)
         /\ Wilder(v, period) <= hi * Power(period, n - period + 1)
<1>1. PICK w : Smooths(w, v, n, period)
  BY WilderTabulated
<1> DEFINE Good(k) == /\ lo * Power(period, k - period + 1) <= w[k]
                      /\ w[k] <= hi * Power(period, k - period + 1)
           S == {k \in Int : k <= n => Good(k)}
<1>2. period \in Nat \ {0} /\ period \in Nat
  OBVIOUS
<1>3. period \in S
  <2>1. IntSeries(SubSeq(v, 1, period), period)
    BY PrefixSeries
  <2>2. \A k \in 1..period : lo <= SubSeq(v, 1, period)[k] /\ SubSeq(v, 1, period)[k] <= hi
    BY PrefixSeries
  <2>3. /\ lo * period <= Total(SubSeq(v, 1, period)) /\ Total(SubSeq(v, 1, period)) <= hi * period
    BY <1>2, <2>1, <2>2, TotalBounded
  <2>4. Power(period, period - period + 1) = period
    <3>1. Power(period, 0) = 1 /\ Power(period, 0 + 1) = period * Power(period, 0)
      <4>1. 0 \in Nat /\ period \in Int
        OBVIOUS
      <4>2. QED
        BY <4>1, PowerLaws, Zenon
    <3>2. period - period + 1 = 0 + 1 /\ period * 1 = period
      OBVIOUS
    <3>3. QED
      BY <3>1, <3>2, Zenon
  <2>5. w[period] = Total(SubSeq(v, 1, period))
    BY <1>1 DEF Smooths
  <2>6. Good(period)
    BY <2>3, <2>4, <2>5, Zenon
  <2> HIDE DEF Good
  <2>7. QED
    BY <2>6
<1>4. ASSUME NEW k \in Int, k >= period, k \in S PROVE k + 1 \in S
  <2>1. SUFFICES ASSUME k + 1 <= n PROVE Good(k + 1)
    OBVIOUS
  <2>2. /\ k + 1 \in (period + 1)..n /\ k + 1 \in 1..n /\ k \in period..n /\ (k + 1) - 1 = k
        /\ (k + 1) - period = k - period + 1 /\ k - period + 1 \in Nat
        /\ (k + 1) - period + 1 = (k - period + 1) + 1
    BY <1>4, <2>1
  <2>3. Good(k)
    BY <1>4, <2>1
  <2>4. /\ w[k + 1] = (period - 1) * w[k] + v[k + 1] * Power(period, (k + 1) - period)
        /\ w[k] \in Int /\ v[k + 1] \in Int /\ lo <= v[k + 1] /\ v[k + 1] <= hi
    BY <1>1, <2>2 DEF Smooths, IntSeries
  <2>5. /\ Power(period, k - period + 1) \in Nat
        /\ Power(period, (k - period + 1) + 1) = period * Power(period, k - period + 1)
    <3>1. PICK j \in Nat : j = k - period + 1
      BY <2>2
    <3>2. Power(period, j + 1) = period * Power(period, j)
      BY PowerLaws
    <3>3. Power(period, j) \in Nat
      BY <1>2, PowerPositive
    <3>4. QED
      BY <3>1, <3>2, <3>3, Zenon
  <2>6. PICK x \in Int, y \in Int, p \in Nat :
          x = w[k] /\ y = v[k + 1] /\ p = Power(period, k - period + 1)
    BY <2>4, <2>5
  <2>7. lo * p <= x /\ x <= hi * p
    BY <2>3, <2>6, Zenon
  <2>8. /\ lo * (period * p) <= (period - 1) * x + y * p
        /\ (period - 1) * x + y * p <= hi * (period * p)
    BY <1>2, <2>4, <2>6, <2>7, SmoothingStep
  <2>9. w[k + 1] = (period - 1) * x + y * p /\ Power(period, (k + 1) - period + 1) = period * p
    BY <2>2, <2>4, <2>5, <2>6, Zenon
  <2>10. QED
    BY <2>8, <2>9, Zenon
<1> HIDE DEF S
<1>5. \A k \in Int : k >= period => k \in S
  BY <1>3, <1>4, Induction
<1>6. Good(n) /\ w[n] \in Int
  <2>1. n \in S /\ n \in period..n
    BY <1>5
  <2>2. QED
    BY <1>1, <2>1 DEF S, Smooths
<1>7. QED
  BY <1>1, <1>6, Zenon DEF Smooths

\* A function on 1..n has length n.
LEMMA LengthOfTable ==
  ASSUME NEW n \in Nat, NEW f, DOMAIN f = 1..n
  PROVE  Len(f) = n
OBVIOUS

\* The weighted sum of v in which the k-th value has the weight that the average
\* gives it, is the average.
LEMMA MeanUnrolled ==
  ASSUME NEW n \in Nat \ {0}, NEW v, IntSeries(v, n), NEW period \in Nat \ {0},
         NEW g, IntSeries(g, n), g[1] = Power(period - 1, n - 1) * v[1],
         \A k \in 2..n : g[k] = 2 * Power(period - 1, n - k) * EmaScale(period, k - 1) * v[k]
  PROVE  Total(g) = EmaValues(v, period)[n]
<1> DEFINE e == EmaValues(v, period)
<1>1. Averages(e, v, n, period)
  BY EmaTabulated
<1> HIDE DEF e
<1>2. PICK f : Sums(f, g, n)
  BY TotalTabulated
<1> DEFINE S == {k \in Int : k <= n => f[k] = Power(period - 1, n - k) * e[k]}
<1>3. 1 \in S
  <2>1. 1 \in 1..n /\ 1 - 1 = 0 /\ 1 \in Int
    OBVIOUS
  <2>2. f[1] = f[0] + g[1] /\ f[0] = 0 /\ g[1] \in Int
    BY <1>2, <2>1 DEF Sums, IntSeries
  <2>3. f[1] = g[1]
    BY <2>2
  <2>4. f[1] = Power(period - 1, n - 1) * e[1]
    BY <1>1, <2>3, Zenon DEF Averages
  <2>5. QED
    BY <2>1, <2>4, Zenon
<1>4. ASSUME NEW k \in Int, k >= 1, k \in S PROVE k + 1 \in S
  <2>1. SUFFICES ASSUME k + 1 <= n PROVE f[k + 1] = Power(period - 1, n - (k + 1)) * e[k + 1]
    OBVIOUS
  <2>2. /\ k + 1 \in 2..n /\ k + 1 \in 1..n /\ k \in 0..n /\ k \in 1..n /\ (k + 1) - 1 = k
        /\ k \in Nat \ {0} /\ n - (k + 1) \in Nat /\ n - k = (n - (k + 1)) + 1
        /\ period - 1 \in Int /\ period \in Nat /\ f[k] = Power(period - 1, n - k) * e[k]
    BY <1>4, <2>1
  <2>3. /\ f[k + 1] = f[k] + g[k + 1]
        /\ g[k + 1] = 2 * Power(period - 1, n - (k + 1)) * EmaScale(period, k) * v[k + 1]
        /\ e[k + 1] = 2 * v[k + 1] * EmaScale(period, k) + (period - 1) * e[k]
        /\ e[k] \in Int /\ v[k + 1] \in Int
    BY <1>1, <1>2, <2>2 DEF Sums, IntSeries, Averages
  <2>4. EmaScale(period, k) \in Int
    BY <2>2, EmaScaleLaws
  <2>5. PICK j \in Nat : j = n - (k + 1)
    BY <2>2
  <2>6. Power(period - 1, j) \in Int /\ Power(period - 1, j + 1) = (period - 1) * Power(period - 1, j)
    BY <2>2, PowerLaws
  <2>7. PICK x \in Int, y \in Int, z \in Int, q \in Int :
          /\ x = v[k + 1] /\ y = EmaScale(period, k) /\ z = e[k]
          /\ q = Power(period - 1, n - (k + 1)) /\ (period - 1) * q = Power(period - 1, n - k)
    <3>1. /\ Power(period - 1, n - (k + 1)) \in Int
          /\ Power(period - 1, n - k) = (period - 1) * Power(period - 1, n - (k + 1))
      <4>1. n - k = j + 1
        BY <2>2, <2>5
      <4>2. QED
        BY <2>5, <2>6, <4>1, Zenon
    <3>2. PICK q \in Int : q = Power(period - 1, n - (k + 1))
      BY <3>1
    <3>3. (period - 1) * q = Power(period - 1, n - k)
      BY <3>1, <3>2, Zenon
    <3>4. QED
      BY <2>3, <2>4, <3>2, <3>3, Zenon
  <2>8. ((period - 1) * q) * z + 2 * q * y * x = q * (2 * x * y + (period - 1) * z)
    BY SMTT(30)
  <2>9. f[k + 1] = ((period - 1) * q) * z + 2 * q * y * x
    BY <2>2, <2>3, <2>7, Zenon
  <2>10. e[k + 1] = 2 * x * y + (period - 1) * z
    BY <2>3, <2>7, Zenon
  <2>11. QED
    BY <2>7, <2>8, <2>9, <2>10, Zenon
<1> HIDE DEF S
<1>5. \A k \in Int : k >= 1 => k \in S
  BY <1>3, <1>4, Induction
<1>6. f[n] = Power(period - 1, n - n) * e[n]
  BY <1>5 DEF S
<1>7. Power(period - 1, 0) = 1 /\ n - n = 0
  BY PowerLaws
<1>8. e[n] \in Int
  BY <1>1 DEF Averages
<1>9. f[n] = e[n]
  <2>1. 1 * e[n] = e[n]
    BY <1>8
  <2>2. QED
    BY <1>6, <1>7, <2>1, Zenon
<1>10. QED
  BY <1>2, <1>9, Zenon DEF Sums, e

\* The weights of an exponential average of n values.
EmaWeight(n, period) ==
    [k \in 1..n |-> IF k = 1 THEN Power(period - 1, n - 1)
                    ELSE 2 * Power(period - 1, n - k) * EmaScale(period, k - 1)]

\* With them the average is a weighted mean.
LEMMA WeightedMean ==
  ASSUME NEW n \in Nat \ {0}, NEW v, IntSeries(v, n), NEW period \in Nat \ {0}
  PROVE  /\ EmaValues(v, period)[n] = Total([k \in 1..n |-> EmaWeight(n, period)[k] * v[k]])
         /\ Total(EmaWeight(n, period)) = EmaScale(period, n)
<1> DEFINE w == EmaWeight(n, period)
<1>1. ASSUME NEW k \in 1..n PROVE w[k] \in Int
  <2>1. CASE k = 1
    <3>1. PICK j \in Nat : j = n - 1
      OBVIOUS
    <3>2. Power(period - 1, j) \in Int
      BY PowerLaws
    <3>3. w[k] = Power(period - 1, n - 1)
      BY <2>1 DEF EmaWeight
    <3> HIDE DEF w
    <3>4. QED
      BY <3>1, <3>2, <3>3, Zenon
  <2>2. CASE k # 1
    <3>1. PICK j \in Nat, i \in Nat \ {0} : j = n - k /\ i = k - 1
      BY <2>2
    <3>2. Power(period - 1, j) \in Int /\ EmaScale(period, i) \in Int
      <4>1. period - 1 \in Int /\ period \in Nat
        OBVIOUS
      <4>2. Power(period - 1, j) \in Int
        BY <4>1, PowerLaws
      <4>3. EmaScale(period, i) \in Nat \ {0}
        BY <4>1, EmaScaleLaws
      <4>4. QED
        BY <4>2, <4>3
    <3>3. 2 * Power(period - 1, j) * EmaScale(period, i) \in Int
      BY <3>2
    <3>4. w[k] = 2 * Power(period - 1, n - k) * EmaScale(period, k - 1)
      BY <2>2 DEF EmaWeight
    <3>5. QED
      BY <3>1, <3>3, <3>4, Zenon
  <2>3. QED
    BY <2>1, <2>2
<1>2. w[1] = Power(period - 1, n - 1)
  BY DEF EmaWeight
<1>3. \A k \in 2..n : w[k] = 2 * Power(period - 1, n - k) * EmaScale(period, k - 1)
  BY DEF EmaWeight
<1>4. Len(w) = n
  BY LengthOfTable DEF EmaWeight
<1> HIDE DEF w
<1>5. EmaValues(v, period)[n] = Total([k \in 1..n |-> w[k] * v[k]])
  <2> DEFINE g == [k \in 1..n |-> w[k] * v[k]]
  <2>1. \A k \in 1..n : g[k] = w[k] * v[k] /\ w[k] * v[k] \in Int
    BY <1>1 DEF IntSeries
  <2>2. Len(g) = n
    BY LengthOfTable
  <2> HIDE DEF g
  <2>3. IntSeries(g, n)
    BY <2>1, <2>2 DEF IntSeries
  <2>4. 1 \in 1..n /\ 2..n \subseteq 1..n
    OBVIOUS
  <2>5. g[1] = Power(period - 1, n - 1) * v[1]
    BY <1>2, <2>1, <2>4, Zenon
  <2>6. \A k \in 2..n : g[k] = 2 * Power(period - 1, n - k) * EmaScale(period, k - 1) * v[k]
    BY <1>3, <2>1, <2>4, Zenon
  <2>7. Total(g) = EmaValues(v, period)[n]
    BY <2>3, <2>5, <2>6, MeanUnrolled
  <2>8. QED
    BY <2>7 DEF g
<1>6. Total(w) = EmaScale(period, n)
  <2> DEFINE u == [k \in 1..n |-> 1]
  <2>1. \A k \in 1..n : u[k] = 1
    OBVIOUS
  <2>2. Len(u) = n
    BY LengthOfTable
  <2> HIDE DEF u
  <2>3. IntSeries(u, n) /\ IntSeries(w, n)
    BY <1>1, <1>4, <2>1, <2>2 DEF IntSeries
  <2>4. \A k \in 1..n : w[k] * u[k] = w[k] /\ 0 * u[k] + 1 = u[k]
    BY <1>1, <2>1
  <2>5. 1 \in 1..n /\ n \in 1..n /\ 2..n \subseteq 1..n
    OBVIOUS
  <2>6. w[1] = Power(period - 1, n - 1) * u[1]
    BY <1>1, <1>2, <2>1, <2>5
  <2>7. \A k \in 2..n : w[k] = 2 * Power(period - 1, n - k) * EmaScale(period, k - 1) * u[k]
    BY <1>3, <2>4, <2>5, Zenon
  <2>8. Total(w) = EmaValues(u, period)[n]
    BY <2>3, <2>6, <2>7, MeanUnrolled
  <2>9. EmaValues(u, period)[n] = 0 * EmaValues(u, period)[n] + 1 * EmaScale(period, n)
    <3>1. PICK a \in Int, b \in Int : a = 0 /\ b = 1
      OBVIOUS
    <3>2. AffineImage(u, u, n, a, b)
      BY <2>1, <3>1 DEF AffineImage
    <3>3. EmaValues(u, period)[n] = a * EmaValues(u, period)[n] + b * EmaScale(period, n)
      BY <2>3, <2>5, <3>2, EmaAffine
    <3>4. QED
      BY <3>1, <3>3, Zenon
  <2>10. EmaValues(u, period)[n] \in Int /\ EmaScale(period, n) \in Int
    <3>1. Averages(EmaValues(u, period), u, n, period)
      BY <2>3, EmaTabulated
    <3>2. EmaScale(period, n) \in Nat \ {0}
      BY EmaScaleLaws
    <3>3. QED
      BY <2>5, <3>1, <3>2 DEF Averages
  <2>11. QED
    BY <2>8, <2>9, <2>10
<1>7. QED
  BY <1>5, <1>6 DEF w
-----------------------------------------------------------------------------
(* The series of the analysis *)

\* The series consists of bars.
SeriesType == bars \in Seq(Bar)

\* Every reachable series is a sequence of bars (technical.py:245).
LEMMA SeriesIsTyped == Spec => []SeriesType
<1>1. Init => SeriesType
  BY DEF Init, SeriesType
<1>2. SeriesType /\ [Next]_bars => SeriesType'
  BY DEF SeriesType, Next, NextBar
<1>3. QED
  BY <1>1, <1>2, PTL DEF Spec

\* A series of n bars: what the analysis relies on.
Series(s, n) ==
    /\ Len(s) = n /\ DOMAIN s = 1..n
    /\ \A k \in 1..n : /\ s[k].high \in Int /\ s[k].low \in Int /\ s[k].close \in Int
                       /\ s[k].low <= s[k].close /\ s[k].close <= s[k].high

\* A sequence of bars is one.
LEMMA SeriesOfBars ==
  ASSUME NEW s \in Seq(Bar)
  PROVE  Len(s) \in Nat /\ Series(s, Len(s)) /\ \A k \in 1..Len(s) : s[k] \in Bar
<1>1. ASSUME NEW b \in Bar
      PROVE  /\ b.high \in Nat /\ b.low \in Nat /\ b.close \in Nat
             /\ b.low <= b.close /\ b.close <= b.high
  BY BarAssumption
<1>2. Len(s) \in Nat /\ DOMAIN s = 1..Len(s) /\ \A k \in 1..Len(s) : s[k] \in Bar
  OBVIOUS
<1>3. QED
  BY <1>1, <1>2 DEF Series

\* The closes are a series of integers.
LEMMA ClosesSeries ==
  ASSUME NEW n \in Nat, NEW s, Series(s, n)
  PROVE  IntSeries(Closes(s), n) /\ \A k \in 1..n : Closes(s)[k] = s[k].close
<1>1. \A k \in 1..n : Closes(s)[k] = s[k].close
  BY DEF Closes, Series
<1>2. DOMAIN Closes(s) = 1..n
  BY DEF Closes, Series
<1>3. Len(Closes(s)) = n
  BY <1>2, LengthOfTable
<1>4. QED
  BY <1>1, <1>3 DEF IntSeries, Series

\* The recurrence of _ema_values computes an exponential average, for every series
\* and every pair of periods (indicators.py:30-37).
THEOREM AverageIsWeightedMean == Spec => []EmaIsWeightedMean
<1>1. SeriesType => EmaIsWeightedMean
  <2> SUFFICES ASSUME SeriesType, NEW period \in {Config.ema_fast, Config.ema_slow},
                      EmaValid(bars, period)
               PROVE  LET n == Len(bars)
                          v == Closes(bars)
                          weight == [k \in 1..n |->
                              IF k = 1 THEN Power(period - 1, n - 1)
                              ELSE 2 * Power(period - 1, n - k) * EmaScale(period, k - 1)]
                      IN  /\ Ema(bars, period) = Total([k \in 1..n |-> weight[k] * v[k]])
                          /\ Total(weight) = EmaScale(period, n)
    BY DEF EmaIsWeightedMean
  <2>1. period \in Nat \ {0}
    BY ConfigAssumption DEF ValidConfig
  <2>2. PICK n \in Nat \ {0} : n = Len(bars) /\ Series(bars, n)
    <3>1. Len(bars) \in Nat /\ Series(bars, Len(bars))
      BY SeriesOfBars DEF SeriesType
    <3>2. QED
      BY <2>1, <3>1 DEF EmaValid
  <2>3. IntSeries(Closes(bars), n)
    BY <2>2, ClosesSeries
  <2>4. /\ EmaValues(Closes(bars), period)[n]
             = Total([k \in 1..n |-> EmaWeight(n, period)[k] * Closes(bars)[k]])
        /\ Total(EmaWeight(n, period)) = EmaScale(period, n)
    BY <2>1, <2>2, <2>3, WeightedMean
  <2>5. QED
    BY <2>2, <2>4 DEF EmaWeight, Ema
<1>2. QED
  BY <1>1, SeriesIsTyped, PTL
-----------------------------------------------------------------------------
(* The bounds of RSI and ATR *)

\* A set of naturals has a least element.
LEMMA LeastNatural ==
  ASSUME NEW T, T \subseteq Nat, T # {}
  PROVE  \E x \in T : \A y \in T : x <= y
<1>1. PICK x \in T : \A y \in T : ~ (<<y, x>> \in OpToRel(<, Nat))
  BY NatLessThanWellFounded, WFMin, Zenon
<1>2. \A y \in T : ~(y < x)
  BY <1>1 DEF OpToRel
<1>3. QED
  BY <1>2

\* A set of numbers with a bound has a greatest element, and a least one.
LEMMA BoundedSet ==
  ASSUME NEW S, S # {}, S \subseteq Int, NEW lo \in Int, NEW hi \in Int,
         \A y \in S : lo <= y /\ y <= hi
  PROVE  /\ \E x \in S : \A y \in S : y <= x
         /\ \E x \in S : \A y \in S : x <= y
<1>1. \E x \in S : \A y \in S : y <= x
  <2> DEFINE T == {hi - y : y \in S}
  <2>1. \A y \in S : hi - y \in Nat
    OBVIOUS
  <2>2. T \subseteq Nat /\ T # {}
    BY <2>1
  <2>3. \E x \in T : \A y \in T : x <= y
    <3> HIDE DEF T
    <3>1. QED
      BY <2>2, LeastNatural
  <2>4. PICK z \in S : \A y \in S : hi - z <= hi - y
    BY <2>3
  <2>5. \A y \in S : y <= z
    BY <2>4
  <2>6. QED
    BY <2>5
<1>2. \E x \in S : \A y \in S : x <= y
  <2> DEFINE T == {y - lo : y \in S}
  <2>1. \A y \in S : y - lo \in Nat
    OBVIOUS
  <2>2. T \subseteq Nat /\ T # {}
    BY <2>1
  <2>3. \E x \in T : \A y \in T : x <= y
    <3> HIDE DEF T
    <3>1. QED
      BY <2>2, LeastNatural
  <2>4. PICK z \in S : \A y \in S : z - lo <= y - lo
    BY <2>3
  <2>5. \A y \in S : z <= y
    BY <2>4
  <2>6. QED
    BY <2>5
<1>3. QED
  BY <1>1, <1>2

\* Finitely many numbers have a bound.
LEMMA FinitelyManyBounded ==
  ASSUME NEW n \in Nat, NEW f, \A k \in 1..n : f[k] \in Int
  PROVE  \E lo \in Int, hi \in Int : \A k \in 1..n : lo <= f[k] /\ f[k] <= hi
<1> DEFINE S == {m \in Int : m <= n =>
                   \E lo \in Int, hi \in Int : \A k \in 1..m : lo <= f[k] /\ f[k] <= hi}
<1>1. 0 \in S
  OBVIOUS
<1>2. ASSUME NEW m \in Int, m >= 0, m \in S PROVE m + 1 \in S
  <2>1. SUFFICES ASSUME m + 1 <= n
                 PROVE  \E lo \in Int, hi \in Int : \A k \in 1..(m + 1) : lo <= f[k] /\ f[k] <= hi
    OBVIOUS
  <2>2. PICK lo \in Int, hi \in Int : \A k \in 1..m : lo <= f[k] /\ f[k] <= hi
    BY <1>2, <2>1
  <2>3. PICK x \in Int : x = f[m + 1]
    BY <1>2, <2>1
  <2>4. PICK a \in Int, b \in Int : a <= lo /\ a <= x /\ hi <= b /\ x <= b
    <3>1. CASE x <= lo
      BY <3>1
    <3>2. CASE lo <= x /\ x <= hi
      BY <3>2
    <3>3. CASE hi <= x /\ lo <= x
      BY <3>3
    <3>4. QED
      BY <3>1, <3>2, <3>3
  <2>5. ASSUME NEW k \in 1..(m + 1) PROVE a <= f[k] /\ f[k] <= b
    <3>1. CASE k = m + 1
      BY <2>3, <2>4, <3>1
    <3>2. CASE k # m + 1
      <4>1. k \in 1..m /\ k \in 1..n
        BY <1>2, <2>1, <3>2
      <4>2. lo <= f[k] /\ f[k] <= hi /\ f[k] \in Int
        BY <2>2, <4>1
      <4>3. QED
        BY <2>4, <4>2
    <3>3. QED
      BY <3>1, <3>2
  <2>6. QED
    BY <2>5
<1> HIDE DEF S
<1>3. \A m \in Int : m >= 0 => m \in S
  BY <1>1, <1>2, Induction
<1>4. n \in S
  BY <1>3
<1>5. QED
  BY <1>4 DEF S

\* Highest and Lowest return the extremes of any set of values of a series.
LEMMA Extremes ==
  ASSUME NEW n \in Nat, NEW f, \A k \in 1..n : f[k] \in Int,
         NEW S, S # {}, \A y \in S : \E k \in 1..n : y = f[k]
  PROVE  /\ Highest(S) \in S /\ Highest(S) \in Int /\ \A y \in S : y <= Highest(S)
         /\ Lowest(S) \in S /\ Lowest(S) \in Int /\ \A y \in S : Lowest(S) <= y
<1>1. S \subseteq Int
  OBVIOUS
<1>2. PICK lo \in Int, hi \in Int : \A k \in 1..n : lo <= f[k] /\ f[k] <= hi
  BY FinitelyManyBounded
<1>3. \A y \in S : lo <= y /\ y <= hi
  BY <1>2
<1>4. /\ \E x \in S : \A y \in S : y <= x
      /\ \E x \in S : \A y \in S : x <= y
  BY <1>1, <1>3, BoundedSet
<1>5. Highest(S) \in S /\ \A y \in S : y <= Highest(S)
  BY <1>4 DEF Highest
<1>6. Lowest(S) \in S /\ \A y \in S : Lowest(S) <= y
  BY <1>4 DEF Lowest
<1>7. QED
  BY <1>1, <1>5, <1>6

\* The gains and losses are naturals, and so are their smoothed means.
LEMMA GainsAndLosses ==
  ASSUME NEW n \in Nat \ {0}, NEW s, Series(s, n)
  PROVE  /\ IntSeries(Gains(s), n - 1) /\ IntSeries(Losses(s), n - 1)
         /\ \A k \in 1..(n - 1) :
               /\ Gains(s)[k] = Larger(s[k + 1].close - s[k].close, 0)
               /\ Losses(s)[k] = Larger(-(s[k + 1].close - s[k].close), 0)
<1>1. n - 1 \in Nat /\ Len(s) = n
  BY DEF Series
<1>2. ASSUME NEW k \in 1..(n - 1) PROVE s[k + 1].close - s[k].close \in Int
  <2>1. k \in 1..n /\ k + 1 \in 1..n
    OBVIOUS
  <2>2. QED
    BY <2>1 DEF Series
<1>3. ASSUME NEW k \in 1..(n - 1) PROVE Changes(s)[k] = s[k + 1].close - s[k].close
  BY <1>1 DEF Changes
<1>4. ASSUME NEW k \in 1..(n - 1)
      PROVE  /\ Gains(s)[k] = Larger(s[k + 1].close - s[k].close, 0)
             /\ Losses(s)[k] = Larger(-(s[k + 1].close - s[k].close), 0)
  BY <1>1, <1>3 DEF Gains, Losses
<1>5. ASSUME NEW k \in 1..(n - 1) PROVE Gains(s)[k] \in Nat /\ Losses(s)[k] \in Nat
  <2>1. PICK d \in Int : d = s[k + 1].close - s[k].close
    BY <1>2
  <2>2. Larger(d, 0) \in Nat /\ Larger(-d, 0) \in Nat
    BY DEF Larger
  <2>3. QED
    BY <1>4, <2>1, <2>2
<1>6. Len(Gains(s)) = n - 1 /\ Len(Losses(s)) = n - 1
  <2>1. DOMAIN Gains(s) = 1..(n - 1) /\ DOMAIN Losses(s) = 1..(n - 1)
    BY <1>1 DEF Gains, Losses
  <2>2. QED
    BY <1>1, <2>1, LengthOfTable
<1>7. QED
  BY <1>4, <1>5, <1>6 DEF IntSeries

\* The smoothed mean of naturals is a natural.
LEMMA WilderNatural ==
  ASSUME NEW n \in Nat, NEW v, IntSeries(v, n), NEW period \in 1..n,
         \A k \in 1..n : 0 <= v[k]
  PROVE  Wilder(v, period) \in Nat
<1>1. \A k \in 1..n : v[k] \in Int
  BY DEF IntSeries
<1>2. PICK lo \in Int, hi \in Int : \A k \in 1..n : lo <= v[k] /\ v[k] <= hi
  BY <1>1, FinitelyManyBounded
<1>3. \A k \in 1..n : 0 <= v[k] /\ v[k] <= hi
  BY <1>2
<1>4. /\ Wilder(v, period) \in Int
      /\ 0 * Power(period, n - period + 1) <= Wilder(v, period)
  <2>1. 0 \in Int
    OBVIOUS
  <2>2. QED
    BY <1>3, <2>1, WilderBounded, Zenon
<1>5. Power(period, n - period + 1) \in Int
  <2>1. n - period + 1 \in Nat /\ period \in Int
    OBVIOUS
  <2>2. QED
    BY <2>1, PowerLaws
<1>6. QED
  BY <1>4, <1>5

\* RSI is a number in 0..100, written as a fraction.
LEMMA RsiBounded ==
  ASSUME NEW n \in Nat \ {0}, NEW s, Series(s, n), RsiValid(s)
  PROVE  /\ Wilder(Gains(s), Config.rsi_period) \in Nat
         /\ Wilder(Losses(s), Config.rsi_period) \in Nat
         /\ 0 <= Rsi(s).num /\ Rsi(s).num <= 100 * Rsi(s).den
<1>1. n - 1 \in Nat /\ Config.rsi_period \in 1..(n - 1)
  <2>1. Config.rsi_period \in Nat /\ Config.rsi_period >= 2
    BY ConfigAssumption DEF ValidConfig
  <2>2. n > Config.rsi_period
    BY DEF RsiValid, Series
  <2>3. QED
    BY <2>1, <2>2
<1>2. IntSeries(Gains(s), n - 1) /\ IntSeries(Losses(s), n - 1)
  BY GainsAndLosses
<1>3. ASSUME NEW k \in 1..(n - 1) PROVE 0 <= Gains(s)[k] /\ 0 <= Losses(s)[k]
  <2>1. k \in 1..n /\ k + 1 \in 1..n
    OBVIOUS
  <2>2. PICK d \in Int : d = s[k + 1].close - s[k].close
    BY <2>1 DEF Series
  <2>3. Gains(s)[k] = Larger(d, 0) /\ Losses(s)[k] = Larger(-d, 0)
    BY <2>2, GainsAndLosses
  <2>4. QED
    BY <2>3 DEF Larger
<1>4. Wilder(Gains(s), Config.rsi_period) \in Nat /\ Wilder(Losses(s), Config.rsi_period) \in Nat
  BY <1>1, <1>2, <1>3, WilderNatural
<1>5. PICK g \in Nat, l \in Nat : /\ g = Wilder(Gains(s), Config.rsi_period)
                                  /\ l = Wilder(Losses(s), Config.rsi_period)
  BY <1>4
<1>6. Rsi(s) = IF g = 0 /\ l = 0 THEN [num |-> 50, den |-> 1] ELSE [num |-> 100 * g, den |-> g + l]
  BY <1>5 DEF Rsi
<1>7. QED
  BY <1>4, <1>6

\* The move of a bar: its range, widened by the gap from the close before it.
Widest(s, k) == Larger(s[k].high, s[k - 1].close)
                  - (IF s[k].low <= s[k - 1].close THEN s[k].low ELSE s[k - 1].close)

\* The true range, a maximum of three differences, is the width of that move.
LEMMA TrueRangeIsWidest ==
  ASSUME NEW n \in Nat \ {0}, NEW s, Series(s, n)
  PROVE  /\ IntSeries(TrueRanges(s), n)
         /\ TrueRanges(s)[1] = s[1].high - s[1].low
         /\ \A k \in 2..n : TrueRanges(s)[k] = Widest(s, k)
<1>1. ASSUME NEW k \in 2..n
      PROVE  TrueRanges(s)[k] = Widest(s, k) /\ Widest(s, k) \in Int
  <2>1. k \in 1..n /\ k - 1 \in 1..n /\ k # 1
    OBVIOUS
  <2>2. PICK h \in Int, l \in Int, c \in Int :
          h = s[k].high /\ l = s[k].low /\ c = s[k - 1].close /\ l <= h
    <3>1. /\ s[k].high \in Int /\ s[k].low \in Int /\ s[k].close \in Int
          /\ s[k].low <= s[k].close /\ s[k].close <= s[k].high
      BY <2>1 DEF Series
    <3>2. s[k - 1].close \in Int
      BY <2>1 DEF Series
    <3>3. s[k].low <= s[k].high
      BY <3>1
    <3>4. QED
      BY <3>1, <3>2, <3>3, Zenon
  <2>3. TrueRanges(s)[k] = Larger(h - l, Larger(Abs(h - c), Abs(l - c)))
    <3>1. TrueRanges(s)[k] = Larger(s[k].high - s[k].low,
                               Larger(Abs(s[k].high - s[k - 1].close),
                                      Abs(s[k].low - s[k - 1].close)))
      BY <2>1 DEF TrueRanges, Series
    <3>2. QED
      BY <2>2, <3>1, Zenon
  <2>4. Widest(s, k) = Larger(h, c) - (IF l <= c THEN l ELSE c)
    BY <2>2, Zenon DEF Widest
  <2>5. /\ Larger(h - l, Larger(Abs(h - c), Abs(l - c))) = Larger(h, c) - (IF l <= c THEN l ELSE c)
        /\ Larger(h, c) - (IF l <= c THEN l ELSE c) \in Int
    BY <2>2 DEF Larger, Abs
  <2>6. QED
    BY <2>3, <2>4, <2>5, Zenon
<1>2. TrueRanges(s)[1] = s[1].high - s[1].low /\ s[1].high - s[1].low \in Int
  <2>1. 1 \in 1..n
    OBVIOUS
  <2>2. s[1].high \in Int /\ s[1].low \in Int
    BY <2>1 DEF Series
  <2>3. TrueRanges(s)[1] = s[1].high - s[1].low
    BY <2>1 DEF TrueRanges, Series
  <2>4. QED
    BY <2>2, <2>3
<1>3. Len(TrueRanges(s)) = n
  <2>1. DOMAIN TrueRanges(s) = 1..n
    BY DEF TrueRanges, Series
  <2>2. QED
    BY <2>1, LengthOfTable
<1>4. ASSUME NEW k \in 1..n PROVE TrueRanges(s)[k] \in Int
  <2>1. CASE k = 1
    BY <1>2, <2>1
  <2>2. CASE k # 1
    <3>1. k \in 2..n
      BY <2>2
    <3>2. QED
      BY <1>1, <3>1
  <2>3. QED
    BY <2>1, <2>2
<1>5. QED
  BY <1>1, <1>2, <1>3, <1>4 DEF IntSeries

\* RSI is a percentage, and the average true range lies between the narrowest and
\* the widest move, for every series and every configuration
\* (indicators.py:69-89, 144-169).
THEOREM IndicatorsAreBounded == Spec => []IndicatorBounds
<1>1. SeriesType => IndicatorBounds
  <2> DEFINE span == {Widest(bars, k) : k \in 2..Len(bars)} \cup {bars[1].high - bars[1].low}
             period == Config.atr_period
             ranges == TrueRanges(bars)
  <2> SUFFICES ASSUME SeriesType, FeaturesValid(bars)
               PROVE  /\ 0 <= Rsi(bars).num /\ Rsi(bars).num <= 100 * Rsi(bars).den
                      /\ Lowest(span) * Atr(bars).den <= Atr(bars).num
                      /\ Atr(bars).num <= Highest(span) * Atr(bars).den
    BY Zenon DEF IndicatorBounds, Widest
  <2>1. PICK n \in Nat \ {0} : n = Len(bars) /\ Series(bars, n) /\ period \in 1..n
    <3>1. Len(bars) \in Nat /\ Series(bars, Len(bars))
      BY SeriesOfBars DEF SeriesType
    <3>2. Len(bars) > period
      BY DEF FeaturesValid, AtrValid
    <3>3. period \in Nat \ {0}
      BY ConfigAssumption DEF ValidConfig
    <3>4. Len(bars) \in Nat \ {0} /\ period \in 1..Len(bars)
      BY <3>1, <3>2, <3>3
    <3>5. QED
      BY <3>1, <3>4
  <2>2. 0 <= Rsi(bars).num /\ Rsi(bars).num <= 100 * Rsi(bars).den
    BY <2>1, RsiBounded DEF FeaturesValid
  <2>3. /\ IntSeries(ranges, n)
        /\ ranges[1] = bars[1].high - bars[1].low
        /\ \A k \in 2..n : ranges[k] = Widest(bars, k)
    BY <2>1, TrueRangeIsWidest
  <2>4. Atr(bars).num = Wilder(ranges, period) /\ Atr(bars).den = Power(period, n - period + 1)
    BY <2>1 DEF Atr
  <2> HIDE DEF period, ranges
  <2>5. span # {} /\ \A y \in span : \E k \in 1..n : y = ranges[k]
    <3>1. \A k \in 2..n : k \in 1..n
      OBVIOUS
    <3>2. 1 \in 1..n
      OBVIOUS
    <3>3. QED
      BY <2>1, <2>3, <3>1, <3>2, Zenon
  <2>6. \A k \in 1..n : ranges[k] \in span
    <3>1. \A k \in 1..n : k = 1 \/ k \in 2..n
      OBVIOUS
    <3>2. QED
      BY <2>1, <2>3, <3>1, Zenon
  <2> HIDE DEF span
  <2>7. /\ Highest(span) \in Int /\ \A y \in span : y <= Highest(span)
        /\ Lowest(span) \in Int /\ \A y \in span : Lowest(span) <= y
    <3>1. n \in Nat /\ \A k \in 1..n : ranges[k] \in Int
      BY <2>3 DEF IntSeries
    <3>2. QED
      BY <2>5, <3>1, Extremes, Zenon
  <2>8. /\ Lowest(span) * Power(period, n - period + 1) <= Wilder(ranges, period)
        /\ Wilder(ranges, period) <= Highest(span) * Power(period, n - period + 1)
    <3>1. \A k \in 1..n : Lowest(span) <= ranges[k] /\ ranges[k] <= Highest(span)
      BY <2>6, <2>7, Zenon
    <3>2. n \in Nat
      OBVIOUS
    <3>3. QED
      BY <2>1, <2>3, <2>7, <3>1, <3>2, WilderBounded, Zenon
  <2>9. QED
    BY <2>2, <2>4, <2>8, Zenon
<1>2. QED
  BY <1>1, SeriesIsTyped, PTL
-----------------------------------------------------------------------------
(* A series and its image: another with the closes a * close + b *)

\* Both are series of n bars.
Image(t, s, n, a, b) ==
    /\ Series(s, n) /\ Series(t, n)
    /\ \A k \in 1..n : t[k].close = a * s[k].close + b

\* The averages of the image are the images of the averages.
LEMMA EmaImage ==
  ASSUME NEW n \in Nat \ {0}, NEW s, NEW t, NEW a \in Int, NEW b \in Int, Image(t, s, n, a, b),
         NEW period \in Nat
  PROVE  \A k \in 1..n :
            /\ EmaValues(Closes(s), period)[k] \in Int
            /\ EmaValues(Closes(t), period)[k]
                 = a * EmaValues(Closes(s), period)[k] + b * EmaScale(period, k)
<1>1. IntSeries(Closes(s), n) /\ IntSeries(Closes(t), n)
  BY ClosesSeries DEF Image
<1>2. AffineImage(Closes(t), Closes(s), n, a, b)
  <2>1. \A k \in 1..n : Closes(s)[k] = s[k].close
    BY ClosesSeries DEF Image
  <2>2. \A k \in 1..n : Closes(t)[k] = t[k].close
    BY ClosesSeries DEF Image
  <2>3. QED
    BY <2>1, <2>2, Zenon DEF Image, AffineImage
<1>3. \A k \in 1..n : EmaValues(Closes(t), period)[k]
                         = a * EmaValues(Closes(s), period)[k] + b * EmaScale(period, k)
  BY <1>1, <1>2, EmaAffine
<1>4. Averages(EmaValues(Closes(s), period), Closes(s), n, period)
  BY <1>1, EmaTabulated
<1>5. QED
  BY <1>3, <1>4, Zenon DEF Averages

\* How far the last close is above the average, on the average's scale.
CloseGap(s, period) == Last(s).close * EmaScale(period, Len(s)) - Ema(s, period)

\* The gap of the image is the multiple of the gap, and its sign is what the two
\* comparisons with the average test.
LEMMA CloseGapImage ==
  ASSUME NEW n \in Nat \ {0}, NEW s, NEW t, NEW a \in Int, NEW b \in Int, Image(t, s, n, a, b),
         NEW period \in Nat
  PROVE  /\ CloseGap(s, period) \in Int /\ CloseGap(t, period) = a * CloseGap(s, period)
         /\ CloseAbove(s, period) <=> CloseGap(s, period) > 0
         /\ CloseBelow(s, period) <=> CloseGap(s, period) < 0
         /\ CloseAbove(t, period) <=> CloseGap(t, period) > 0
         /\ CloseBelow(t, period) <=> CloseGap(t, period) < 0
<1>1. n \in 1..n /\ Len(s) = n /\ Len(t) = n
  BY DEF Image, Series
<1>2. PICK c \in Int : c = Last(s).close /\ a * c + b = Last(t).close
  BY <1>1 DEF Image, Series, Last
<1>3. PICK x \in Int : x = EmaScale(period, n)
  <2>1. EmaScale(period, n) \in Nat \ {0}
    BY EmaScaleLaws
  <2>2. QED
    BY <2>1
<1>4. PICK e \in Int : e = Ema(s, period) /\ Ema(t, period) = a * e + b * x
  <2>1. /\ EmaValues(Closes(s), period)[n] \in Int
        /\ EmaValues(Closes(t), period)[n]
             = a * EmaValues(Closes(s), period)[n] + b * EmaScale(period, n)
    BY <1>1, EmaImage
  <2>2. QED
    BY <1>1, <1>3, <2>1, Zenon DEF Ema
<1>5. (a * c + b) * x - (a * e + b * x) = a * (c * x - e)
  BY SMTT(30)
<1>6. PICK y \in Int, u \in Int, v \in Int : y = c * x /\ u = (a * c + b) * x /\ v = a * e + b * x
  <2>1. c * x \in Int /\ (a * c + b) * x \in Int /\ a * e + b * x \in Int
    BY SMTT(30)
  <2>2. QED
    BY <2>1
<1>7. CloseGap(s, period) = y - e /\ CloseGap(t, period) = u - v
  BY <1>1, <1>2, <1>3, <1>4, <1>6, Zenon DEF CloseGap
<1>8. u - v = a * (y - e)
  BY <1>5, <1>6, Zenon
<1>9. /\ CloseAbove(s, period) <=> y > e
      /\ CloseBelow(s, period) <=> y < e
      /\ CloseAbove(t, period) <=> u > v
      /\ CloseBelow(t, period) <=> u < v
  BY <1>1, <1>2, <1>3, <1>4, <1>6, Zenon DEF CloseAbove, CloseBelow
<1>10. /\ y - e \in Int
       /\ (y > e <=> y - e > 0) /\ (y < e <=> y - e < 0)
       /\ (u > v <=> u - v > 0) /\ (u < v <=> u - v < 0)
  OBVIOUS
<1>11. QED
  BY <1>7, <1>8, <1>9, <1>10, Zenon

\* The spread of the image's averages is the multiple of the spread.
LEMMA SpreadImage ==
  ASSUME NEW n \in Nat \ {0}, NEW s, NEW t, NEW a \in Int, NEW b \in Int, Image(t, s, n, a, b)
  PROVE  EmaSpread(s) \in Int /\ EmaSpread(t) = a * EmaSpread(s)
<1>1. n \in 1..n /\ Len(s) = n /\ Len(t) = n /\ Config.ema_fast \in Nat /\ Config.ema_slow \in Nat
  BY ConfigAssumption DEF Image, Series, ValidConfig
<1>2. PICK x \in Int, y \in Int : x = EmaScale(Config.ema_fast, n) /\ y = EmaScale(Config.ema_slow, n)
  <2>1. EmaScale(Config.ema_fast, n) \in Nat \ {0} /\ EmaScale(Config.ema_slow, n) \in Nat \ {0}
    BY <1>1, EmaScaleLaws
  <2>2. QED
    BY <2>1
<1>3. PICK e \in Int, f \in Int :
        /\ e = Ema(s, Config.ema_fast) /\ Ema(t, Config.ema_fast) = a * e + b * x
        /\ f = Ema(s, Config.ema_slow) /\ Ema(t, Config.ema_slow) = a * f + b * y
  <2>1. /\ EmaValues(Closes(s), Config.ema_fast)[n] \in Int
        /\ EmaValues(Closes(t), Config.ema_fast)[n]
             = a * EmaValues(Closes(s), Config.ema_fast)[n] + b * EmaScale(Config.ema_fast, n)
    BY <1>1, EmaImage
  <2>2. /\ EmaValues(Closes(s), Config.ema_slow)[n] \in Int
        /\ EmaValues(Closes(t), Config.ema_slow)[n]
             = a * EmaValues(Closes(s), Config.ema_slow)[n] + b * EmaScale(Config.ema_slow, n)
    BY <1>1, EmaImage
  <2>3. QED
    BY <1>1, <1>2, <2>1, <2>2, Zenon DEF Ema
<1>4. /\ (a * e + b * x) * y - (a * f + b * y) * x = a * (e * y - f * x)
      /\ e * y - f * x \in Int
  BY SMTT(30)
<1>5. QED
  BY <1>1, <1>2, <1>3, <1>4, Zenon DEF EmaSpread

\* The return of the image is the multiple of the return.
LEMMA ReturnImage ==
  ASSUME NEW n \in Nat \ {0}, NEW s, NEW t, NEW a \in Int, NEW b \in Int, Image(t, s, n, a, b),
         ReturnValid(s)
  PROVE  Return(s) \in Int /\ Return(t) = a * Return(s)
<1>1. /\ n \in 1..n /\ Len(s) = n /\ Len(t) = n /\ Config.return_lookback \in Nat
      /\ Config.return_lookback >= 1
  BY ConfigAssumption DEF Image, Series, ValidConfig
<1>2. PICK m \in 1..n : m = n - Config.return_lookback
  BY <1>1 DEF ReturnValid
<1>3. PICK c \in Int, d \in Int : /\ c = s[n].close /\ t[n].close = a * c + b
                                  /\ d = s[m].close /\ t[m].close = a * d + b
  BY <1>1 DEF Image, Series
<1>4. (a * c + b) - (a * d + b) = a * (c - d) /\ c - d \in Int
  BY SMTT(30)
<1>5. QED
  BY <1>1, <1>2, <1>3, <1>4, Zenon DEF Return

\* A multiple of a positive number divides exactly.
LEMMA ExactDivision ==
  ASSUME NEW x \in Nat \ {0}, NEW q \in Int
  PROVE  (x * q) \div x = q
BY SMTT(60)

\* The denominator of the k-th average divides that of the n-th.
LEMMA ScaleDivides ==
  ASSUME NEW n \in Nat \ {0}, NEW k \in 1..n, NEW period \in Nat
  PROVE  \E q \in Int : EmaScale(period, n) = EmaScale(period, k) * q
<1>1. PICK i \in Nat, j \in Nat : i = k - 1 /\ j = n - k /\ i + j = n - 1
  OBVIOUS
<1>2. period + 1 \in Int
  OBVIOUS
<1>3. Power(period + 1, i + j) = Power(period + 1, i) * Power(period + 1, j)
  BY <1>2, PowerAdds
<1>4. Power(period + 1, j) \in Int
  BY <1>2, PowerLaws
<1>5. EmaScale(period, n) = EmaScale(period, k) * Power(period + 1, j)
  BY <1>1, <1>3, Zenon DEF EmaScale
<1>6. QED
  BY <1>4, <1>5

\* Bringing the averages of MACD to the last bar's denominator divides exactly.
LEMMA MacdScaleExact ==
  ASSUME NEW n \in Nat \ {0}, NEW k \in 1..n,
         NEW period \in {Config.macd_fast, Config.macd_slow}
  PROVE  /\ MacdScale(n) \in Int /\ MacdScale(n) \div EmaScale(period, k) \in Int
         /\ EmaScale(period, k) \in Int
         /\ EmaScale(period, k) * (MacdScale(n) \div EmaScale(period, k)) = MacdScale(n)
<1>1. Config.macd_fast \in Nat /\ Config.macd_slow \in Nat /\ k \in Nat \ {0}
  BY ConfigAssumption DEF ValidConfig
<1>2. PICK x \in Nat \ {0} : x = EmaScale(period, k)
  BY <1>1, EmaScaleLaws
<1>3. /\ EmaScale(Config.macd_fast, n) \in Nat \ {0}
      /\ EmaScale(Config.macd_slow, n) \in Nat \ {0}
  BY <1>1, EmaScaleLaws
<1>4. PICK q \in Int : MacdScale(n) = x * q
  <2>1. CASE period = Config.macd_fast
    <3>1. PICK p \in Int : EmaScale(Config.macd_fast, n) = x * p
      BY <1>1, <1>2, <2>1, ScaleDivides
    <3>2. PICK y \in Int : y = EmaScale(Config.macd_slow, n)
      BY <1>3
    <3>3. p * y \in Int /\ (x * p) * y = x * (p * y)
      BY SMTT(30)
    <3>4. MacdScale(n) = x * (p * y)
      BY <3>1, <3>2, <3>3, Zenon DEF MacdScale
    <3>5. QED
      BY <3>3, <3>4
  <2>2. CASE period = Config.macd_slow
    <3>1. PICK p \in Int : EmaScale(Config.macd_slow, n) = x * p
      BY <1>1, <1>2, <2>2, ScaleDivides
    <3>2. PICK y \in Int : y = EmaScale(Config.macd_fast, n)
      BY <1>3
    <3>3. p * y \in Int /\ y * (x * p) = x * (p * y)
      BY SMTT(30)
    <3>4. MacdScale(n) = x * (p * y)
      BY <3>1, <3>2, <3>3, Zenon DEF MacdScale
    <3>5. QED
      BY <3>3, <3>4
  <2>3. QED
    BY <2>1, <2>2
<1>5. (x * q) \div x = q /\ x * q \in Int
  <2>1. x * q \in Int
    BY SMTT(30)
  <2>2. (x * q) \div x = q
    BY ExactDivision
  <2>3. QED
    BY <2>1, <2>2
<1>6. x \in Int
  OBVIOUS
<1>7. QED
  BY <1>2, <1>4, <1>5, <1>6, Zenon

\* The MACD line of the image is the multiple of the line: the additive constant
\* has the same average at both periods and cancels.
LEMMA MacdLineImage ==
  ASSUME NEW n \in Nat \ {0}, NEW s, NEW t, NEW a \in Int, NEW b \in Int, Image(t, s, n, a, b)
  PROVE  /\ IntSeries(MacdLine(s), n) /\ IntSeries(MacdLine(t), n)
         /\ \A k \in 1..n : MacdLine(t)[k] = a * MacdLine(s)[k]
<1>1. Len(s) = n /\ Len(t) = n /\ Config.macd_fast \in Nat /\ Config.macd_slow \in Nat
  BY ConfigAssumption DEF Image, Series, ValidConfig
<1>2. ASSUME NEW k \in 1..n
      PROVE  MacdLine(s)[k] \in Int /\ MacdLine(t)[k] = a * MacdLine(s)[k]
  <2>1. PICK e \in Int, f \in Int :
          /\ e = EmaValues(Closes(s), Config.macd_fast)[k]
          /\ EmaValues(Closes(t), Config.macd_fast)[k]
               = a * e + b * EmaScale(Config.macd_fast, k)
          /\ f = EmaValues(Closes(s), Config.macd_slow)[k]
          /\ EmaValues(Closes(t), Config.macd_slow)[k]
               = a * f + b * EmaScale(Config.macd_slow, k)
    <3>1. /\ EmaValues(Closes(s), Config.macd_fast)[k] \in Int
          /\ EmaValues(Closes(t), Config.macd_fast)[k]
               = a * EmaValues(Closes(s), Config.macd_fast)[k] + b * EmaScale(Config.macd_fast, k)
      BY <1>1, EmaImage
    <3>2. /\ EmaValues(Closes(s), Config.macd_slow)[k] \in Int
          /\ EmaValues(Closes(t), Config.macd_slow)[k]
               = a * EmaValues(Closes(s), Config.macd_slow)[k] + b * EmaScale(Config.macd_slow, k)
      BY <1>1, EmaImage
    <3>3. QED
      BY <3>1, <3>2, Zenon
  <2>2. PICK m \in Int, x \in Int, p \in Int, y \in Int, q \in Int :
          /\ m = MacdScale(n)
          /\ x = EmaScale(Config.macd_fast, k) /\ p = MacdScale(n) \div EmaScale(Config.macd_fast, k)
          /\ y = EmaScale(Config.macd_slow, k) /\ q = MacdScale(n) \div EmaScale(Config.macd_slow, k)
          /\ x * p = m /\ y * q = m
    BY MacdScaleExact, Zenon
  <2>3. MacdLine(s)[k] = e * p - f * q
    BY <1>1, <2>1, <2>2, Zenon DEF MacdLine
  <2>4. MacdLine(t)[k] = (a * e + b * x) * p - (a * f + b * y) * q
    BY <1>1, <2>1, <2>2, Zenon DEF MacdLine
  <2>5. (a * e + b * x) * p - (a * f + b * y) * q = a * (e * p - f * q) + b * (x * p - y * q)
    BY SMTT(30)
  <2>6. x * p - y * q = m - m
    BY <2>2, Zenon
  <2>7. PICK g \in Int : g = e * p - f * q
    <3>1. e * p - f * q \in Int
      BY SMTT(30)
    <3>2. QED
      BY <3>1
  <2>8. a * g + b * (m - m) = a * g
    BY SMTT(30)
  <2>9. QED
    BY <2>3, <2>4, <2>5, <2>6, <2>7, <2>8, Zenon
<1>3. Len(MacdLine(s)) = n /\ Len(MacdLine(t)) = n
  <2>1. DOMAIN MacdLine(s) = 1..n /\ DOMAIN MacdLine(t) = 1..n
    BY <1>1 DEF MacdLine
  <2>2. QED
    BY <2>1, LengthOfTable
<1>4. ASSUME NEW k \in 1..n PROVE MacdLine(t)[k] \in Int
  <2>1. PICK g \in Int : g = MacdLine(s)[k]
    BY <1>2
  <2>2. a * g \in Int
    BY SMTT(30)
  <2>3. QED
    BY <1>2, <2>1, <2>2, Zenon
<1>5. QED
  BY <1>2, <1>3, <1>4, Zenon DEF IntSeries

\* So is the histogram.
LEMMA HistogramImage ==
  ASSUME NEW n \in Nat \ {0}, NEW s, NEW t, NEW a \in Int, NEW b \in Int, Image(t, s, n, a, b)
  PROVE  Histogram(s) \in Int /\ Histogram(t) = a * Histogram(s)
<1> DEFINE period == Config.macd_signal
<1>1. Len(s) = n /\ Len(t) = n /\ period \in Nat /\ n \in 1..n
  <2>1. Len(s) = n /\ Len(t) = n /\ n \in 1..n
    BY DEF Image, Series
  <2>2. period \in Nat
    BY ConfigAssumption DEF ValidConfig
  <2>3. QED
    BY <2>1, <2>2
<1> HIDE DEF period
<1>2. /\ IntSeries(MacdLine(s), n) /\ IntSeries(MacdLine(t), n)
      /\ \A k \in 1..n : MacdLine(t)[k] = a * MacdLine(s)[k]
  BY MacdLineImage
<1>3. \A k \in 1..n : MacdLine(t)[k] = a * MacdLine(s)[k] + 0
  <2>1. \A x \in Int : a * x = a * x + 0
    BY SMTT(30)
  <2>2. QED
    BY <1>2, <2>1, Zenon DEF IntSeries
<1>4. PICK x \in Int : x = EmaScale(period, n)
  <2>1. EmaScale(period, n) \in Nat \ {0}
    BY <1>1, EmaScaleLaws
  <2>2. QED
    BY <2>1
<1>5. EmaValues(MacdLine(t), period)[n] = a * EmaValues(MacdLine(s), period)[n] + 0 * x
  <2>1. PICK z \in Int : z = 0
    OBVIOUS
  <2>2. AffineImage(MacdLine(t), MacdLine(s), n, a, z)
    BY <1>3, <2>1, Zenon DEF AffineImage
  <2>3. \A k \in 1..n : EmaValues(MacdLine(t), period)[k]
                          = a * EmaValues(MacdLine(s), period)[k] + z * EmaScale(period, k)
    BY <1>1, <1>2, <2>2, EmaAffine
  <2>4. QED
    BY <1>1, <1>4, <2>1, <2>3, Zenon
<1>6. PICK e \in Int : e = EmaValues(MacdLine(s), period)[n]
  <2>1. Averages(EmaValues(MacdLine(s), period), MacdLine(s), n, period)
    BY <1>1, <1>2, EmaTabulated
  <2>2. EmaValues(MacdLine(s), period)[n] \in Int
    BY <1>1, <2>1, Zenon DEF Averages
  <2>3. QED
    BY <2>2
<1>7. PICK g \in Int : g = MacdLine(s)[n] /\ a * g = MacdLine(t)[n]
  BY <1>1, <1>2, Zenon DEF IntSeries
<1>8. (a * g) * x - (a * e + 0 * x) = a * (g * x - e) /\ g * x - e \in Int
  BY SMTT(30)
<1>9. Histogram(s) = g * x - e /\ Histogram(t) = (a * g) * x - (a * e + 0 * x)
  BY <1>1, <1>4, <1>5, <1>6, <1>7, Zenon DEF Histogram, period
<1>10. QED
  BY <1>8, <1>9, Zenon
-----------------------------------------------------------------------------
(* A series in another unit *)

\* t is s with every price a times as large.
Scaled(t, s, n, a) ==
    /\ Series(s, n) /\ Series(t, n)
    /\ \A k \in 1..n : /\ t[k].high = a * s[k].high /\ t[k].low = a * s[k].low
                       /\ t[k].close = a * s[k].close

\* A positive factor keeps signs, order, maxima and distances.
LEMMA PositiveFactor ==
  ASSUME NEW a \in Nat \ {0}
  PROVE  \A x \in Int, y \in Int :
            /\ a * x \in Int /\ a * y \in Int
            /\ a * x > 0 <=> x > 0
            /\ a * x < 0 <=> x < 0
            /\ a * x < a * y <=> x < y
            /\ a * x <= a * y <=> x <= y
            /\ a * x - a * y = a * (x - y)
<1>1. ASSUME NEW x \in Int, NEW y \in Int
      PROVE  a * x \in Int /\ a * y \in Int /\ (a * x < a * y <=> x < y)
  <2>1. x <= y => a * x <= a * y
    BY ProductMonotone
  <2>2. y <= x => a * y <= a * x
    BY ProductMonotone
  <2>3. a * x \in Int /\ a * y \in Int
    BY SMTT(30)
  <2>4. x < y => a * x # a * y
    <3>1. SUFFICES ASSUME x < y PROVE a * x + 1 <= a * y
      BY <2>3
    <3>2. y - x \in Nat \ {0}
      BY <3>1
    <3>3. a * (y - x) \in Nat \ {0}
      BY <3>2, ProductPositive
    <3>4. a * y = a * x + a * (y - x)
      BY SMTT(30)
    <3>5. QED
      BY <2>3, <3>3, <3>4
  <2>5. PICK p \in Int, q \in Int : p = a * x /\ q = a * y
    BY <2>3
  <2>6. (x <= y => p <= q) /\ (y <= x => q <= p) /\ (x < y => p # q)
    BY <2>1, <2>2, <2>4, <2>5, Zenon
  <2>7. p < q <=> x < y
    BY <2>6
  <2>8. QED
    BY <2>3, <2>5, <2>7, Zenon
<1>2. a * 0 = 0 /\ 0 \in Int
  OBVIOUS
<1>3. ASSUME NEW x \in Int, NEW y \in Int PROVE a * x - a * y = a * (x - y)
  BY SMTT(30)
<1>4. ASSUME NEW x \in Int PROVE (a * x > 0 <=> x > 0) /\ (a * x < 0 <=> x < 0)
  <2>1. PICK z \in Int : z = 0
    OBVIOUS
  <2>2. (a * z < a * x <=> z < x) /\ (a * x < a * z <=> x < z) /\ a * x \in Int
    BY <1>1
  <2>3. a * z = z
    BY <2>1
  <2>4. PICK p \in Int : p = a * x
    BY <2>2
  <2>5. (z < p <=> z < x) /\ (p < z <=> x < z)
    BY <2>2, <2>3, <2>4, Zenon
  <2>6. (p > 0 <=> x > 0) /\ (p < 0 <=> x < 0)
    BY <2>1, <2>5
  <2>7. QED
    BY <2>4, <2>6, Zenon
<1>5. ASSUME NEW x \in Int, NEW y \in Int PROVE a * x <= a * y <=> x <= y
  <2>1. a * y < a * x <=> y < x
    BY <1>1
  <2>2. PICK p \in Int, q \in Int : p = a * x /\ q = a * y
    BY <1>1
  <2>3. q < p <=> y < x
    BY <2>1, <2>2, Zenon
  <2>4. p <= q <=> x <= y
    BY <2>3
  <2>5. QED
    BY <2>2, <2>4, Zenon
<1>6. QED
  BY <1>1, <1>3, <1>4, <1>5

\* Maxima and distances scale.
LEMMA ScaledExtremes ==
  ASSUME NEW a \in Nat \ {0}, NEW x \in Int, NEW y \in Int
  PROVE  /\ Larger(a * x, a * y) = a * Larger(x, y) /\ Larger(x, y) \in Int
         /\ Larger(a * x, 0) = a * Larger(x, 0) /\ Abs(a * x) = a * Abs(x) /\ Abs(x) \in Int
<1>1. PICK p \in Int, q \in Int : p = a * x /\ q = a * y
  BY PositiveFactor
<1>2. (p <= q <=> x <= y) /\ (p < 0 <=> x < 0)
  BY <1>1, PositiveFactor, Zenon
<1>3. Larger(x, y) \in Int /\ Abs(x) \in Int
  BY DEF Larger, Abs
<1>4. Larger(p, q) = a * Larger(x, y)
  <2>1. CASE x >= y
    <3>1. p >= q
      <4>1. p < q <=> x < y
        BY <1>1, PositiveFactor, Zenon
      <4>2. QED
        BY <2>1, <4>1
    <3>2. QED
      BY <1>1, <2>1, <3>1, Zenon DEF Larger
  <2>2. CASE ~(x >= y)
    <3>1. ~(p >= q)
      BY <1>1, <2>2, PositiveFactor
    <3>2. QED
      BY <1>1, <2>2, <3>1, Zenon DEF Larger
  <2>3. QED
    BY <2>1, <2>2
<1>5. (p >= 0 <=> x >= 0) /\ a * 0 = 0 /\ a * (-x) = -p
  <2>1. p >= 0 <=> x >= 0
    BY <1>2
  <2>2. a * (-x) = -(a * x) /\ a * 0 = 0
    BY SMTT(30)
  <2>3. QED
    BY <1>1, <2>1, <2>2, Zenon
<1>6. Larger(p, 0) = a * Larger(x, 0)
  BY <1>1, <1>5, Zenon DEF Larger
<1>7. Abs(p) = a * Abs(x)
  BY <1>1, <1>5, Zenon DEF Abs
<1>8. QED
  BY <1>1, <1>3, <1>4, <1>6, <1>7, Zenon

\* The closes of a scaled series are an image.
LEMMA ScaledIsImage ==
  ASSUME NEW n \in Nat \ {0}, NEW s, NEW t, NEW a \in Nat \ {0}, Scaled(t, s, n, a)
  PROVE  Image(t, s, n, a, 0)
<1>1. ASSUME NEW k \in 1..n PROVE t[k].close = a * s[k].close + 0
  <2>1. PICK c \in Int : c = s[k].close
    BY DEF Scaled, Series
  <2>2. a * c = a * c + 0
    <3>1. a * c \in Int
      BY PositiveFactor
    <3>2. QED
      BY <3>1
  <2>3. QED
    BY <2>1, <2>2, Zenon DEF Scaled
<1>2. QED
  BY <1>1, Zenon DEF Image, Scaled

\* RSI compares with a threshold as before: both smoothed means scale.
LEMMA ScaledRsi ==
  ASSUME NEW n \in Nat \ {0}, NEW s, NEW t, NEW a \in Nat \ {0}, Scaled(t, s, n, a),
         RsiValid(s), NEW threshold \in Int
  PROVE  /\ Rsi(t).num >= threshold * Rsi(t).den <=> Rsi(s).num >= threshold * Rsi(s).den
         /\ Rsi(t).num <= threshold * Rsi(t).den <=> Rsi(s).num <= threshold * Rsi(s).den
<1> DEFINE period == Config.rsi_period
<1>1. Series(s, n) /\ Series(t, n) /\ Len(s) = n /\ Len(t) = n
  BY DEF Scaled, Series
<1>2. n - 1 \in Nat /\ period \in 1..(n - 1) /\ RsiValid(t)
  <2>1. period \in Nat /\ period >= 2
    BY ConfigAssumption DEF ValidConfig
  <2>2. n > period
    BY <1>1 DEF RsiValid
  <2>3. RsiValid(t)
    BY <1>1, <2>2 DEF RsiValid
  <2>4. QED
    BY <2>1, <2>2, <2>3
<1> HIDE DEF period
<1>3. /\ IntSeries(Gains(s), n - 1) /\ IntSeries(Losses(s), n - 1)
      /\ IntSeries(Gains(t), n - 1) /\ IntSeries(Losses(t), n - 1)
  BY <1>1, GainsAndLosses
<1>4. ASSUME NEW k \in 1..(n - 1)
      PROVE  Gains(t)[k] = a * Gains(s)[k] /\ Losses(t)[k] = a * Losses(s)[k]
  <2>1. k \in 1..n /\ k + 1 \in 1..n
    OBVIOUS
  <2>2. PICK c \in Int, d \in Int : /\ c = s[k].close /\ a * c = t[k].close
                                    /\ d = s[k + 1].close /\ a * d = t[k + 1].close
    BY <2>1 DEF Scaled, Series
  <2>3. PICK x \in Int, y \in Int : x = d - c /\ y = -(d - c)
    OBVIOUS
  <2>4. a * d - a * c = a * x /\ -(a * d - a * c) = a * y
    <3>1. a * d - a * c = a * (d - c) /\ -(a * d - a * c) = a * (-(d - c))
      BY SMTT(30)
    <3>2. QED
      BY <2>3, <3>1, Zenon
  <2>5. /\ Gains(s)[k] = Larger(d - c, 0) /\ Losses(s)[k] = Larger(-(d - c), 0)
        /\ Gains(t)[k] = Larger(a * d - a * c, 0) /\ Losses(t)[k] = Larger(-(a * d - a * c), 0)
    <3>1. /\ Gains(s)[k] = Larger(s[k + 1].close - s[k].close, 0)
          /\ Losses(s)[k] = Larger(-(s[k + 1].close - s[k].close), 0)
      BY <1>1, GainsAndLosses
    <3>2. /\ Gains(t)[k] = Larger(t[k + 1].close - t[k].close, 0)
          /\ Losses(t)[k] = Larger(-(t[k + 1].close - t[k].close), 0)
      BY <1>1, GainsAndLosses
    <3>3. QED
      BY <2>2, <3>1, <3>2, Zenon
  <2>6. Larger(a * x, 0) = a * Larger(x, 0) /\ Larger(a * y, 0) = a * Larger(y, 0)
    BY ScaledExtremes
  <2>7. QED
    BY <2>3, <2>4, <2>5, <2>6, Zenon
<1>5. /\ Wilder(Gains(t), period) = a * Wilder(Gains(s), period)
      /\ Wilder(Losses(t), period) = a * Wilder(Losses(s), period)
  <2>1. a \in Int
    OBVIOUS
  <2>2. Wilder(Gains(t), period) = a * Wilder(Gains(s), period)
    <3>1. MultipleOf(Gains(t), Gains(s), n - 1, a)
      BY <1>4 DEF MultipleOf
    <3>2. QED
      BY <1>2, <1>3, <2>1, <3>1, WilderScaled
  <2>3. Wilder(Losses(t), period) = a * Wilder(Losses(s), period)
    <3>1. MultipleOf(Losses(t), Losses(s), n - 1, a)
      BY <1>4 DEF MultipleOf
    <3>2. QED
      BY <1>2, <1>3, <2>1, <3>1, WilderScaled
  <2>4. QED
    BY <2>2, <2>3
<1>6. PICK g \in Nat, l \in Nat : g = Wilder(Gains(s), period) /\ l = Wilder(Losses(s), period)
  <2>1. Wilder(Gains(s), period) \in Nat /\ Wilder(Losses(s), period) \in Nat
    BY <1>1, RsiBounded DEF period
  <2>2. QED
    BY <2>1
<1>7. Rsi(s) = IF g = 0 /\ l = 0 THEN [num |-> 50, den |-> 1] ELSE [num |-> 100 * g, den |-> g + l]
  BY <1>6, Zenon DEF Rsi, period
<1>8. Rsi(t) = IF a * g = 0 /\ a * l = 0 THEN [num |-> 50, den |-> 1]
               ELSE [num |-> 100 * (a * g), den |-> a * g + a * l]
  BY <1>5, <1>6, Zenon DEF Rsi, period
<1>9. (a * g = 0 <=> g = 0) /\ (a * l = 0 <=> l = 0)
  <2>1. ASSUME NEW x \in Int PROVE a * x = 0 <=> x = 0
    <3>1. PICK p \in Int : p = a * x
      BY PositiveFactor
    <3>2. (p > 0 <=> x > 0) /\ (p < 0 <=> x < 0)
      BY <3>1, PositiveFactor, Zenon
    <3>3. p = 0 <=> x = 0
      BY <3>2
    <3>4. QED
      BY <3>1, <3>3, Zenon
  <2>2. g \in Int /\ l \in Int
    OBVIOUS
  <2>3. QED
    BY <2>1, <2>2, Zenon
<1>10. CASE g = 0 /\ l = 0
  BY <1>7, <1>8, <1>9, <1>10, Zenon
<1>11. CASE ~(g = 0 /\ l = 0)
  <2>1. Rsi(s).num = 100 * g /\ Rsi(s).den = g + l
    BY <1>7, <1>11
  <2>2. Rsi(t).num = 100 * (a * g) /\ Rsi(t).den = a * g + a * l
    BY <1>8, <1>9, <1>11
  <2>3. PICK x \in Int, y \in Int : x = 100 * g /\ y = threshold * (g + l)
    <3>1. threshold * (g + l) \in Int
      BY SMTT(30)
    <3>2. QED
      BY <3>1
  <2>4. 100 * (a * g) = a * (100 * g) /\ threshold * (a * g + a * l) = a * (threshold * (g + l))
    BY SMTT(30)
  <2>5. PICK p \in Int, q \in Int : p = a * x /\ q = a * y
    BY PositiveFactor
  <2>6. (p <= q <=> x <= y) /\ (p < q <=> x < y)
    BY <2>5, PositiveFactor, Zenon
  <2>7. p >= q <=> x >= y
    BY <2>6
  <2>8. 100 * (a * g) = p /\ threshold * (a * g + a * l) = q
    BY <2>3, <2>4, <2>5, Zenon
  <2>9. /\ Rsi(t).num >= threshold * Rsi(t).den <=> p >= q
        /\ Rsi(t).num <= threshold * Rsi(t).den <=> p <= q
    BY <2>2, <2>8, Zenon
  <2>10. /\ Rsi(s).num >= threshold * Rsi(s).den <=> x >= y
         /\ Rsi(s).num <= threshold * Rsi(s).den <=> x <= y
    BY <2>1, <2>3, Zenon
  <2>11. QED
    BY <2>6, <2>7, <2>9, <2>10, Zenon
<1>12. QED
  BY <1>10, <1>11

\* The average true range scales.
LEMMA ScaledAtr ==
  ASSUME NEW n \in Nat \ {0}, NEW s, NEW t, NEW a \in Nat \ {0}, Scaled(t, s, n, a),
         AtrValid(s)
  PROVE  /\ Atr(s).num \in Int /\ Atr(s).den \in Int
         /\ Atr(t).num = a * Atr(s).num /\ Atr(t).den = Atr(s).den
<1> DEFINE period == Config.atr_period
<1>1. Series(s, n) /\ Series(t, n) /\ Len(s) = n /\ Len(t) = n
  BY DEF Scaled, Series
<1>2. period \in 1..n
  <2>1. period \in Nat /\ period >= 2
    BY ConfigAssumption DEF ValidConfig
  <2>2. n > period
    BY <1>1 DEF AtrValid
  <2>3. QED
    BY <2>1, <2>2
<1> HIDE DEF period
<1>3. IntSeries(TrueRanges(s), n) /\ IntSeries(TrueRanges(t), n)
  BY <1>1, TrueRangeIsWidest
<1>4. ASSUME NEW k \in 1..n PROVE TrueRanges(t)[k] = a * TrueRanges(s)[k]
  <2>1. PICK h \in Int, l \in Int : /\ h = s[k].high /\ a * h = t[k].high
                                    /\ l = s[k].low /\ a * l = t[k].low
    BY DEF Scaled, Series
  <2>2. a * h - a * l = a * (h - l)
    BY PositiveFactor
  <2>3. CASE k = 1
    <3>1. TrueRanges(s)[1] = s[1].high - s[1].low /\ TrueRanges(t)[1] = t[1].high - t[1].low
      BY <1>1, TrueRangeIsWidest
    <3>2. QED
      BY <2>1, <2>2, <2>3, <3>1, Zenon
  <2>4. CASE k # 1
    <3>1. k \in 2..n /\ k - 1 \in 1..n
      BY <2>4
    <3>2. PICK c \in Int : c = s[k - 1].close /\ a * c = t[k - 1].close
      BY <3>1 DEF Scaled, Series
    <3>3. PICK x \in Int, y \in Int : /\ x = Larger(h, c)
                                      /\ y = IF l <= c THEN l ELSE c
      BY DEF Larger
    <3>4. TrueRanges(s)[k] = x - y
      <4>1. TrueRanges(s)[k] = Widest(s, k)
        BY <1>1, <3>1, TrueRangeIsWidest
      <4>2. QED
        BY <2>1, <3>2, <3>3, <4>1, Zenon DEF Widest
    <3>5. TrueRanges(t)[k] = Larger(a * h, a * c) - (IF a * l <= a * c THEN a * l ELSE a * c)
      <4>1. TrueRanges(t)[k] = Widest(t, k)
        BY <1>1, <3>1, TrueRangeIsWidest
      <4>2. QED
        BY <2>1, <3>2, <4>1, Zenon DEF Widest
    <3>6. Larger(a * h, a * c) = a * x
      BY <3>3, ScaledExtremes
    <3>7. (IF a * l <= a * c THEN a * l ELSE a * c) = a * y
      <4>1. a * l <= a * c <=> l <= c
        BY PositiveFactor
      <4>2. QED
        BY <3>3, <4>1, Zenon
    <3>8. a * x - a * y = a * (x - y)
      BY PositiveFactor
    <3>9. QED
      BY <3>4, <3>5, <3>6, <3>7, <3>8, Zenon
  <2>5. QED
    BY <2>3, <2>4
<1>5. /\ Wilder(TrueRanges(t), period) = a * Wilder(TrueRanges(s), period)
      /\ Wilder(TrueRanges(s), period) \in Int
  <2>1. n \in Nat /\ a \in Int
    OBVIOUS
  <2>2. MultipleOf(TrueRanges(t), TrueRanges(s), n, a)
    BY <1>4 DEF MultipleOf
  <2>3. QED
    BY <1>2, <1>3, <2>1, <2>2, WilderScaled
<1>6. Power(period, n - period + 1) \in Int
  <2>1. n - period + 1 \in Nat /\ period \in Int
    BY <1>2
  <2>2. QED
    BY <2>1, PowerLaws
<1>7. /\ Atr(s).num = Wilder(TrueRanges(s), period)
      /\ Atr(t).num = Wilder(TrueRanges(t), period)
      /\ Atr(s).den = Power(period, n - period + 1)
      /\ Atr(t).den = Power(period, n - period + 1)
  BY <1>1 DEF Atr, period
<1>8. QED
  BY <1>5, <1>6, <1>7, Zenon

\* So the range filter decides as before.
LEMMA ScaledRange ==
  ASSUME NEW n \in Nat \ {0}, NEW s, NEW t, NEW a \in Nat \ {0}, Scaled(t, s, n, a),
         AtrValid(s)
  PROVE  RangeLike(t) <=> RangeLike(s)
<1>1. Len(s) = n /\ Len(t) = n
  BY DEF Scaled, Series
<1>2. PICK x \in Int : x = EmaSpread(s) /\ EmaSpread(t) = a * x
  <2>1. Image(t, s, n, a, 0) /\ a \in Int /\ 0 \in Int
    BY ScaledIsImage
  <2>2. QED
    BY <2>1, SpreadImage
<1>3. PICK d \in Int, w \in Int :
        d = Atr(s).den /\ d = Atr(t).den /\ w = Atr(s).num /\ a * w = Atr(t).num
  BY ScaledAtr
<1>4. PICK r \in Int, u \in Int : r = RangeRatio.den /\ u = RangeRatio.num
  BY ThresholdAssumption DEF ValidThresholds
<1>5. PICK f \in Int, g \in Int :
        f = EmaScale(Config.ema_fast, n) /\ g = EmaScale(Config.ema_slow, n)
  <2>1. Config.ema_fast \in Nat /\ Config.ema_slow \in Nat
    BY ConfigAssumption DEF ValidConfig
  <2>2. EmaScale(Config.ema_fast, n) \in Nat \ {0} /\ EmaScale(Config.ema_slow, n) \in Nat \ {0}
    BY <2>1, EmaScaleLaws
  <2>3. QED
    BY <2>2
<1>6. PICK v \in Int : v = Abs(x) /\ a * v = Abs(a * x)
  BY ScaledExtremes
<1>7. RangeLike(s) <=> v * d * r < w * u * f * g
  BY <1>1, <1>2, <1>3, <1>4, <1>5, <1>6, Zenon DEF RangeLike
<1>8. RangeLike(t) <=> (a * v) * d * r < (a * w) * u * f * g
  BY <1>1, <1>2, <1>3, <1>4, <1>5, <1>6, Zenon DEF RangeLike
<1>9. PICK y \in Int, z \in Int : y = v * d * r /\ z = w * u * f * g
  <2>1. v * d * r \in Int /\ w * u * f * g \in Int
    BY SMTT(30)
  <2>2. QED
    BY <2>1
<1>10. (a * v) * d * r = a * (v * d * r) /\ (a * w) * u * f * g = a * (w * u * f * g)
  BY SMTT(30)
<1>11. a * y < a * z <=> y < z
  BY PositiveFactor
<1>12. QED
  BY <1>7, <1>8, <1>9, <1>10, <1>11, Zenon

\* The positions of the bars before the last that the swing looks at.
SwingBars(n) == {j \in 1..(n - 1) : j >= n - SwingLookback}
SwingHigh(s) == Highest({b.high : b \in Prior(s)})
SwingLow(s) == Lowest({b.low : b \in Prior(s)})

\* Their extremes are attained and bound all of them.
LEMMA SwingExtremes ==
  ASSUME NEW n \in Nat \ {0}, NEW s, Series(s, n)
  PROVE  /\ Prior(s) = {} <=> SwingBars(n) = {}
         /\ SwingBars(n) # {} =>
              /\ SwingHigh(s) \in Int /\ \E k \in SwingBars(n) : SwingHigh(s) = s[k].high
              /\ \A k \in SwingBars(n) : s[k].high <= SwingHigh(s)
              /\ SwingLow(s) \in Int /\ \E k \in SwingBars(n) : SwingLow(s) = s[k].low
              /\ \A k \in SwingBars(n) : SwingLow(s) <= s[k].low
<1>1. Len(s) = n /\ \A k \in SwingBars(n) : k \in 1..n
  BY DEF Series, SwingBars
<1>2. Prior(s) = {s[k] : k \in SwingBars(n)}
  BY <1>1 DEF Prior, SwingBars
<1>3. ASSUME SwingBars(n) # {}
      PROVE  /\ SwingHigh(s) \in Int /\ \E k \in SwingBars(n) : SwingHigh(s) = s[k].high
             /\ \A k \in SwingBars(n) : s[k].high <= SwingHigh(s)
  <2> DEFINE S == {b.high : b \in Prior(s)}
             f == [k \in 1..n |-> s[k].high]
  <2>1. S # {} /\ \A y \in S : \E k \in SwingBars(n) : y = s[k].high
    BY <1>2, <1>3
  <2>2. \A k \in SwingBars(n) : s[k].high \in S
    BY <1>2
  <2>3. (\A k \in 1..n : f[k] \in Int) /\ \A y \in S : \E k \in 1..n : y = f[k]
    BY <1>1, <2>1 DEF Series
  <2> HIDE DEF S, f
  <2>4. n \in Nat /\ S # {}
    BY <2>1
  <2>5. Highest(S) \in S /\ Highest(S) \in Int /\ \A y \in S : y <= Highest(S)
    BY <2>3, <2>4, Extremes
  <2>6. SwingHigh(s) = Highest(S)
    BY DEF SwingHigh, S
  <2>7. QED
    BY <2>1, <2>2, <2>5, <2>6, Zenon
<1>4. ASSUME SwingBars(n) # {}
      PROVE  /\ SwingLow(s) \in Int /\ \E k \in SwingBars(n) : SwingLow(s) = s[k].low
             /\ \A k \in SwingBars(n) : SwingLow(s) <= s[k].low
  <2> DEFINE S == {b.low : b \in Prior(s)}
             f == [k \in 1..n |-> s[k].low]
  <2>1. S # {} /\ \A y \in S : \E k \in SwingBars(n) : y = s[k].low
    BY <1>2, <1>4
  <2>2. \A k \in SwingBars(n) : s[k].low \in S
    BY <1>2
  <2>3. (\A k \in 1..n : f[k] \in Int) /\ \A y \in S : \E k \in 1..n : y = f[k]
    BY <1>1, <2>1 DEF Series
  <2> HIDE DEF S, f
  <2>4. n \in Nat /\ S # {}
    BY <2>1
  <2>5. Lowest(S) \in S /\ Lowest(S) \in Int /\ \A y \in S : Lowest(S) <= y
    BY <2>3, <2>4, Extremes
  <2>6. SwingLow(s) = Lowest(S)
    BY DEF SwingLow, S
  <2>7. QED
    BY <2>1, <2>2, <2>5, <2>6, Zenon
<1>5. QED
  BY <1>2, <1>3, <1>4

\* The swing score in these terms.
LEMMA SwingScoreIs ==
  ASSUME NEW n \in Nat \ {0}, NEW s, Series(s, n)
  PROVE  SwingScore(s) = IF SwingBars(n) = {} THEN 0
                         ELSE IF Last(s).close > SwingHigh(s) THEN 15
                         ELSE IF Last(s).close < SwingLow(s) THEN -15
                         ELSE 0
<1>1. Prior(s) = {} <=> SwingBars(n) = {}
  BY SwingExtremes
<1>2. QED
  BY <1>1, Zenon DEF SwingScore, SwingHigh, SwingLow

\* The swing score of a scaled series is that of the series.
LEMMA ScaledSwing ==
  ASSUME NEW n \in Nat \ {0}, NEW s, NEW t, NEW a \in Nat \ {0}, Scaled(t, s, n, a)
  PROVE  SwingScore(t) = SwingScore(s)
<1>1. Series(s, n) /\ Series(t, n) /\ n \in 1..n /\ Len(s) = n /\ Len(t) = n
  BY DEF Scaled, Series
<1>2. CASE SwingBars(n) = {}
  BY <1>1, <1>2, SwingScoreIs
<1>3. CASE SwingBars(n) # {}
  <2>1. PICK h \in Int, l \in Int, u \in Int, v \in Int :
          h = SwingHigh(s) /\ l = SwingLow(s) /\ u = SwingHigh(t) /\ v = SwingLow(t)
    <3>1. SwingHigh(s) \in Int /\ SwingLow(s) \in Int
      BY <1>1, <1>3, SwingExtremes
    <3>2. SwingHigh(t) \in Int /\ SwingLow(t) \in Int
      BY <1>1, <1>3, SwingExtremes
    <3>3. QED
      BY <3>1, <3>2
  <2>2. PICK p \in Int, q \in Int : p = a * h /\ q = a * l
    BY PositiveFactor
  <2>3. ASSUME NEW k \in SwingBars(n)
        PROVE  /\ s[k].high \in Int /\ s[k].low \in Int
               /\ t[k].high = a * s[k].high /\ t[k].low = a * s[k].low
    <3>1. k \in 1..n
      BY DEF SwingBars
    <3>2. QED
      BY <3>1 DEF Scaled, Series
  <2>4. u = p
    <3>1. PICK i \in SwingBars(n) : h = s[i].high
      BY <1>1, <1>3, <2>1, SwingExtremes
    <3>2. PICK j \in SwingBars(n) : u = t[j].high
      BY <1>1, <1>3, <2>1, SwingExtremes
    <3>3. s[j].high <= h
      BY <1>1, <1>3, <2>1, SwingExtremes
    <3>4. t[i].high <= u
      BY <1>1, <1>3, <2>1, SwingExtremes
    <3>5. PICK x \in Int : x = s[j].high /\ u = a * x /\ x <= h
      BY <2>3, <3>2, <3>3
    <3>6. a * x <= a * h
      BY <3>5, PositiveFactor
    <3>7. a * h <= u
      BY <2>3, <3>1, <3>4, Zenon
    <3>8. u <= p /\ p <= u
      BY <2>2, <3>5, <3>6, <3>7, Zenon
    <3>9. QED
      BY <3>8
  <2>5. v = q
    <3>1. PICK i \in SwingBars(n) : l = s[i].low
      BY <1>1, <1>3, <2>1, SwingExtremes
    <3>2. PICK j \in SwingBars(n) : v = t[j].low
      BY <1>1, <1>3, <2>1, SwingExtremes
    <3>3. l <= s[j].low
      BY <1>1, <1>3, <2>1, SwingExtremes
    <3>4. v <= t[i].low
      BY <1>1, <1>3, <2>1, SwingExtremes
    <3>5. PICK x \in Int : x = s[j].low /\ v = a * x /\ l <= x
      BY <2>3, <3>2, <3>3
    <3>6. a * l <= a * x
      BY <3>5, PositiveFactor
    <3>7. v <= a * l
      BY <2>3, <3>1, <3>4, Zenon
    <3>8. v <= q /\ q <= v
      BY <2>2, <3>5, <3>6, <3>7, Zenon
    <3>9. QED
      BY <3>8
  <2>6. PICK c \in Int, d \in Int : c = Last(s).close /\ d = Last(t).close /\ d = a * c
    <3>1. s[n].close \in Int /\ t[n].close \in Int /\ t[n].close = a * s[n].close
      BY <1>1 DEF Scaled, Series
    <3>2. QED
      BY <1>1, <3>1, Zenon DEF Last
  <2>7. (p < d <=> h < c) /\ (d < q <=> c < l)
    <3>1. (a * h < a * c <=> h < c) /\ (a * c < a * l <=> c < l)
      BY PositiveFactor
    <3>2. QED
      BY <2>2, <2>6, <3>1, Zenon
  <2>8. (d > p <=> c > h) /\ (d < q <=> c < l)
    BY <2>7
  <2>9. SwingScore(s) = IF c > h THEN 15 ELSE IF c < l THEN -15 ELSE 0
    BY <1>1, <1>3, <2>1, <2>6, SwingScoreIs
  <2>10. SwingScore(t) = IF d > p THEN 15 ELSE IF d < q THEN -15 ELSE 0
    BY <1>1, <1>3, <2>1, <2>4, <2>5, <2>6, SwingScoreIs
  <2>11. QED
    BY <2>8, <2>9, <2>10
<1>4. QED
  BY <1>2, <1>3

\* The whole score of a scaled series is that of the series.
LEMMA ScaledScore ==
  ASSUME NEW n \in Nat \ {0}, NEW s, NEW t, NEW a \in Nat \ {0}, Scaled(t, s, n, a),
         FeaturesValid(s)
  PROVE  Score(t) = Score(s)
<1>1. Image(t, s, n, a, 0) /\ a \in Int /\ 0 \in Int
  BY ScaledIsImage
<1>2. ASSUME NEW period \in Nat
      PROVE  /\ CloseAbove(t, period) <=> CloseAbove(s, period)
             /\ CloseBelow(t, period) <=> CloseBelow(s, period)
  <2>1. PICK x \in Int : x = CloseGap(s, period) /\ CloseGap(t, period) = a * x
    BY <1>1, CloseGapImage
  <2>2. /\ CloseAbove(s, period) <=> x > 0
        /\ CloseBelow(s, period) <=> x < 0
        /\ CloseAbove(t, period) <=> a * x > 0
        /\ CloseBelow(t, period) <=> a * x < 0
    <3>1. /\ CloseAbove(s, period) <=> CloseGap(s, period) > 0
          /\ CloseBelow(s, period) <=> CloseGap(s, period) < 0
          /\ CloseAbove(t, period) <=> CloseGap(t, period) > 0
          /\ CloseBelow(t, period) <=> CloseGap(t, period) < 0
      BY <1>1, CloseGapImage
    <3>2. QED
      BY <2>1, <3>1, Zenon
  <2>3. (a * x > 0 <=> x > 0) /\ (a * x < 0 <=> x < 0)
    BY PositiveFactor
  <2>4. QED
    BY <2>2, <2>3, Zenon
<1>3. Config.ema_fast \in Nat /\ Config.ema_slow \in Nat
  BY ConfigAssumption DEF ValidConfig
<1>4. (EmaSpread(t) > 0 <=> EmaSpread(s) > 0) /\ (EmaSpread(t) < 0 <=> EmaSpread(s) < 0)
  <2>1. PICK x \in Int : x = EmaSpread(s) /\ EmaSpread(t) = a * x
    BY <1>1, SpreadImage
  <2>2. (a * x > 0 <=> x > 0) /\ (a * x < 0 <=> x < 0)
    BY PositiveFactor
  <2>3. QED
    BY <2>1, <2>2, Zenon
<1>5. TrendScore(t) = TrendScore(s)
  BY <1>2, <1>3, <1>4, Zenon DEF TrendScore
<1>6. (Histogram(t) > 0 <=> Histogram(s) > 0) /\ (Histogram(t) < 0 <=> Histogram(s) < 0)
  <2>1. PICK x \in Int : x = Histogram(s) /\ Histogram(t) = a * x
    BY <1>1, HistogramImage
  <2>2. (a * x > 0 <=> x > 0) /\ (a * x < 0 <=> x < 0)
    BY PositiveFactor
  <2>3. QED
    BY <2>1, <2>2, Zenon
<1>7. MomentumScore(t) = MomentumScore(s)
  <2>1. RsiBullish \in Int /\ RsiBearish \in Int
    BY ThresholdAssumption DEF ValidThresholds
  <2>2. RsiValid(s)
    BY DEF FeaturesValid
  <2>3. Rsi(t).num >= RsiBullish * Rsi(t).den <=> Rsi(s).num >= RsiBullish * Rsi(s).den
    BY <2>1, <2>2, ScaledRsi
  <2>4. Rsi(t).num <= RsiBearish * Rsi(t).den <=> Rsi(s).num <= RsiBearish * Rsi(s).den
    BY <2>1, <2>2, ScaledRsi
  <2>5. QED
    BY <1>6, <2>3, <2>4, Zenon DEF MomentumScore
<1>8. SwingScore(t) = SwingScore(s)
  BY ScaledSwing
<1>9. ReturnScore(t) = ReturnScore(s)
  <2>1. ReturnValid(s)
    BY DEF FeaturesValid
  <2>2. PICK x \in Int : x = Return(s) /\ Return(t) = a * x
    BY <1>1, <2>1, ReturnImage
  <2>3. (a * x > 0 <=> x > 0) /\ (a * x < 0 <=> x < 0)
    BY PositiveFactor
  <2>4. QED
    BY <2>2, <2>3, Zenon DEF ReturnScore
<1>10. RangeLike(t) <=> RangeLike(s)
  BY ScaledRange DEF FeaturesValid
<1>11. QED
  BY <1>5, <1>7, <1>8, <1>9, <1>10, Zenon DEF Score, RawScore

\* The score is the same in every unit: for every series, every configuration and
\* every factor, of which the property names one (technical.py:245-301).
THEOREM ScoreIsScaleFree == Spec => []ScaleFree
<1>1. SeriesType => ScaleFree
  <2> DEFINE t == [k \in DOMAIN bars |-> [high |-> 3 * bars[k].high, low |-> 3 * bars[k].low,
                                          close |-> 3 * bars[k].close]]
  <2> SUFFICES ASSUME SeriesType, FeaturesValid(bars)
               PROVE  Score(t) = Score(bars)
    BY Zenon DEF ScaleFree
  <2>1. PICK n \in Nat \ {0} : Len(bars) = n /\ Series(bars, n)
    <3>1. Len(bars) \in Nat /\ Series(bars, Len(bars))
      BY SeriesOfBars DEF SeriesType
    <3>2. Config.ema_fast \in Nat /\ Config.ema_fast >= 2
      BY ConfigAssumption DEF ValidConfig
    <3>3. Len(bars) \in Nat \ {0}
      BY <3>1, <3>2 DEF FeaturesValid, EmaValid
    <3>4. QED
      BY <3>1, <3>3
  <2>2. DOMAIN t = 1..n /\ Len(t) = n
    <3>1. DOMAIN t = 1..n
      BY <2>1 DEF Series
    <3>2. n \in Nat
      OBVIOUS
    <3> HIDE DEF t
    <3>3. QED
      BY <3>1, <3>2, LengthOfTable
  <2>3. ASSUME NEW k \in 1..n
        PROVE  /\ t[k].high = 3 * bars[k].high /\ t[k].low = 3 * bars[k].low
               /\ t[k].close = 3 * bars[k].close
    BY <2>1 DEF Series
  <2> HIDE DEF t
  <2>4. Series(t, n)
    <3>1. ASSUME NEW k \in 1..n
          PROVE  /\ t[k].high \in Int /\ t[k].low \in Int /\ t[k].close \in Int
                 /\ t[k].low <= t[k].close /\ t[k].close <= t[k].high
      <4>1. PICK h \in Int, l \in Int, c \in Int :
              /\ h = bars[k].high /\ l = bars[k].low /\ c = bars[k].close
              /\ l <= c /\ c <= h
        BY <2>1 DEF Series
      <4>2. t[k].high = 3 * h /\ t[k].low = 3 * l /\ t[k].close = 3 * c
        BY <2>3, <4>1, Zenon
      <4>3. QED
        BY <4>1, <4>2
    <3>2. QED
      BY <2>2, <3>1 DEF Series
  <2>5. Scaled(t, bars, n, 3)
    BY <2>1, <2>3, <2>4 DEF Scaled
  <2>6. 3 \in Nat \ {0}
    OBVIOUS
  <2>7. QED
    BY <2>5, <2>6, ScaledScore
<1>2. QED
  BY <1>1, SeriesIsTyped, PTL
-----------------------------------------------------------------------------
(* A series and its mirror image *)

\* t is s reflected about c / 2.
Mirrored(t, s, n, c) ==
    /\ Series(s, n) /\ Series(t, n)
    /\ \A k \in 1..n : /\ t[k].high = c - s[k].low /\ t[k].low = c - s[k].high
                       /\ t[k].close = c - s[k].close

\* Multiplying with m flips signs.
Reflects(m) == \A x \in Int : m * x = -x /\ (m * x > 0 <=> x < 0) /\ (m * x < 0 <=> x > 0)

\* The closes of a mirrored series are an image, and reflection flips signs.
LEMMA MirroredIsImage ==
  ASSUME NEW n \in Nat \ {0}, NEW s, NEW t, NEW c \in Int, Mirrored(t, s, n, c)
  PROVE  \E m \in Int : Image(t, s, n, m, c) /\ Reflects(m)
<1>1. PICK m \in Int : m = -1
  OBVIOUS
<1>2. \A x \in Int : m * x = -x
  BY <1>1, SMTT(30)
<1>3. \A x \in Int : (m * x > 0 <=> x < 0) /\ (m * x < 0 <=> x > 0)
  <2>1. ASSUME NEW x \in Int PROVE (m * x > 0 <=> x < 0) /\ (m * x < 0 <=> x > 0)
    <3>1. PICK p \in Int : p = m * x /\ p = -x
      BY <1>2
    <3>2. (p > 0 <=> x < 0) /\ (p < 0 <=> x > 0)
      BY <3>1
    <3>3. QED
      BY <3>1, <3>2, Zenon
  <2>2. QED
    BY <2>1
<1>4. ASSUME NEW k \in 1..n PROVE t[k].close = m * s[k].close + c
  <2>1. PICK x \in Int : x = s[k].close
    BY DEF Mirrored, Series
  <2>2. c - x = -x + c
    OBVIOUS
  <2>3. QED
    BY <1>2, <2>1, <2>2, Zenon DEF Mirrored
<1>5. Image(t, s, n, m, c)
  BY <1>4, Zenon DEF Image, Mirrored
<1>6. QED
  BY <1>2, <1>3, <1>5 DEF Reflects

\* Equal series have equal smoothed means.
LEMMA WilderSame ==
  ASSUME NEW n \in Nat, NEW v, NEW u, IntSeries(v, n), IntSeries(u, n), NEW period \in 1..n,
         MultipleOf(u, v, n, 1)
  PROVE  Wilder(u, period) = Wilder(v, period)
<1>1. PICK a \in Int : a = 1
  OBVIOUS
<1>2. MultipleOf(u, v, n, a)
  BY <1>1
<1>3. Wilder(u, period) = a * Wilder(v, period) /\ Wilder(v, period) \in Int
  BY <1>2, WilderScaled
<1>4. QED
  BY <1>1, <1>3

\* Gains and losses change places, and RSI stands as far above a threshold as it
\* stood below its counterpart.
LEMMA MirroredRsi ==
  ASSUME NEW n \in Nat \ {0}, NEW s, NEW t, NEW c \in Int, Mirrored(t, s, n, c),
         RsiValid(s), NEW threshold \in Int
  PROVE  /\ Rsi(t).num >= threshold * Rsi(t).den <=> Rsi(s).num <= (100 - threshold) * Rsi(s).den
         /\ Rsi(t).num <= threshold * Rsi(t).den <=> Rsi(s).num >= (100 - threshold) * Rsi(s).den
<1> DEFINE period == Config.rsi_period
<1>1. Series(s, n) /\ Series(t, n) /\ Len(s) = n /\ Len(t) = n
  BY DEF Mirrored, Series
<1>2. n - 1 \in Nat /\ period \in 1..(n - 1)
  <2>1. period \in Nat /\ period >= 2
    BY ConfigAssumption DEF ValidConfig
  <2>2. n > period
    BY <1>1 DEF RsiValid
  <2>3. QED
    BY <2>1, <2>2
<1> HIDE DEF period
<1>3. /\ IntSeries(Gains(s), n - 1) /\ IntSeries(Losses(s), n - 1)
      /\ IntSeries(Gains(t), n - 1) /\ IntSeries(Losses(t), n - 1)
  BY <1>1, GainsAndLosses
<1>4. ASSUME NEW k \in 1..(n - 1)
      PROVE  Gains(t)[k] = Losses(s)[k] /\ Losses(t)[k] = Gains(s)[k]
  <2>1. k \in 1..n /\ k + 1 \in 1..n
    OBVIOUS
  <2>2. PICK x \in Int, y \in Int : /\ x = s[k].close /\ c - x = t[k].close
                                    /\ y = s[k + 1].close /\ c - y = t[k + 1].close
    BY <2>1 DEF Mirrored, Series
  <2>3. (c - y) - (c - x) = -(y - x) /\ -((c - y) - (c - x)) = y - x
    OBVIOUS
  <2>4. /\ Gains(s)[k] = Larger(s[k + 1].close - s[k].close, 0)
        /\ Losses(s)[k] = Larger(-(s[k + 1].close - s[k].close), 0)
    BY <1>1, GainsAndLosses
  <2>5. /\ Gains(t)[k] = Larger(t[k + 1].close - t[k].close, 0)
        /\ Losses(t)[k] = Larger(-(t[k + 1].close - t[k].close), 0)
    BY <1>1, GainsAndLosses
  <2>6. QED
    BY <2>2, <2>3, <2>4, <2>5, Zenon
<1>5. /\ Wilder(Gains(t), period) = Wilder(Losses(s), period)
      /\ Wilder(Losses(t), period) = Wilder(Gains(s), period)
  <2>1. \A k \in 1..(n - 1) : 1 * Gains(s)[k] = Gains(s)[k] /\ 1 * Losses(s)[k] = Losses(s)[k]
    BY <1>3 DEF IntSeries
  <2>2. MultipleOf(Gains(t), Losses(s), n - 1, 1) /\ MultipleOf(Losses(t), Gains(s), n - 1, 1)
    BY <1>4, <2>1, Zenon DEF MultipleOf
  <2>3. QED
    BY <1>2, <1>3, <2>2, WilderSame
<1>6. PICK g \in Nat, l \in Nat : g = Wilder(Gains(s), period) /\ l = Wilder(Losses(s), period)
  <2>1. Wilder(Gains(s), period) \in Nat /\ Wilder(Losses(s), period) \in Nat
    BY <1>1, RsiBounded DEF period
  <2>2. QED
    BY <2>1
<1>7. Rsi(s) = IF g = 0 /\ l = 0 THEN [num |-> 50, den |-> 1] ELSE [num |-> 100 * g, den |-> g + l]
  BY <1>6, Zenon DEF Rsi, period
<1>8. Rsi(t) = IF l = 0 /\ g = 0 THEN [num |-> 50, den |-> 1] ELSE [num |-> 100 * l, den |-> l + g]
  BY <1>5, <1>6, Zenon DEF Rsi, period
<1>9. CASE g = 0 /\ l = 0
  <2>1. Rsi(s).num = 50 /\ Rsi(s).den = 1 /\ Rsi(t).num = 50 /\ Rsi(t).den = 1
    BY <1>7, <1>8, <1>9
  <2>2. /\ 50 >= threshold * 1 <=> 50 <= (100 - threshold) * 1
        /\ 50 <= threshold * 1 <=> 50 >= (100 - threshold) * 1
    OBVIOUS
  <2>3. QED
    BY <2>1, <2>2, Zenon
<1>10. CASE ~(g = 0 /\ l = 0)
  <2>1. /\ Rsi(s).num = 100 * g /\ Rsi(s).den = g + l
        /\ Rsi(t).num = 100 * l /\ Rsi(t).den = l + g
    BY <1>7, <1>8, <1>10
  <2>2. PICK w \in Int : w = threshold * (l + g)
    <3>1. threshold * (l + g) \in Int
      BY SMTT(30)
    <3>2. QED
      BY <3>1
  <2>3. (100 - threshold) * (g + l) = 100 * g + 100 * l - threshold * (l + g)
    BY SMTT(30)
  <2>4. /\ 100 * l >= w <=> 100 * g <= 100 * g + 100 * l - w
        /\ 100 * l <= w <=> 100 * g >= 100 * g + 100 * l - w
    OBVIOUS
  <2>5. /\ Rsi(t).num >= threshold * Rsi(t).den <=> 100 * l >= w
        /\ Rsi(t).num <= threshold * Rsi(t).den <=> 100 * l <= w
    BY <2>1, <2>2, Zenon
  <2>6. /\ Rsi(s).num <= (100 - threshold) * Rsi(s).den <=> 100 * g <= 100 * g + 100 * l - w
        /\ Rsi(s).num >= (100 - threshold) * Rsi(s).den <=> 100 * g >= 100 * g + 100 * l - w
    BY <2>1, <2>2, <2>3, Zenon
  <2>7. QED
    BY <2>4, <2>5, <2>6, Zenon
<1>11. QED
  BY <1>9, <1>10

\* The true ranges are the same, hence their average.
LEMMA MirroredAtr ==
  ASSUME NEW n \in Nat \ {0}, NEW s, NEW t, NEW c \in Int, Mirrored(t, s, n, c), AtrValid(s)
  PROVE  Atr(t).num = Atr(s).num /\ Atr(t).den = Atr(s).den
<1> DEFINE period == Config.atr_period
<1>1. Series(s, n) /\ Series(t, n) /\ Len(s) = n /\ Len(t) = n
  BY DEF Mirrored, Series
<1>2. period \in 1..n
  <2>1. period \in Nat /\ period >= 2
    BY ConfigAssumption DEF ValidConfig
  <2>2. n > period
    BY <1>1 DEF AtrValid
  <2>3. QED
    BY <2>1, <2>2
<1> HIDE DEF period
<1>3. IntSeries(TrueRanges(s), n) /\ IntSeries(TrueRanges(t), n)
  BY <1>1, TrueRangeIsWidest
<1>4. ASSUME NEW k \in 1..n PROVE TrueRanges(t)[k] = TrueRanges(s)[k]
  <2>1. PICK h \in Int, l \in Int : /\ h = s[k].high /\ c - h = t[k].low
                                    /\ l = s[k].low /\ c - l = t[k].high
    BY DEF Mirrored, Series
  <2>2. CASE k = 1
    <3>1. TrueRanges(s)[1] = s[1].high - s[1].low /\ TrueRanges(t)[1] = t[1].high - t[1].low
      BY <1>1, TrueRangeIsWidest
    <3>2. (c - l) - (c - h) = h - l
      OBVIOUS
    <3>3. QED
      BY <2>1, <2>2, <3>1, <3>2, Zenon
  <2>3. CASE k # 1
    <3>1. k \in 2..n /\ k - 1 \in 1..n
      BY <2>3
    <3>2. PICK p \in Int : p = s[k - 1].close /\ c - p = t[k - 1].close
      BY <3>1 DEF Mirrored, Series
    <3>3. TrueRanges(s)[k] = Widest(s, k) /\ TrueRanges(t)[k] = Widest(t, k)
      BY <1>1, <3>1, TrueRangeIsWidest
    <3>4. Widest(s, k) = Larger(h, p) - (IF l <= p THEN l ELSE p)
      BY <2>1, <3>2, Zenon DEF Widest
    <3>5. Widest(t, k) = Larger(c - l, c - p) - (IF c - h <= c - p THEN c - h ELSE c - p)
      BY <2>1, <3>2, Zenon DEF Widest
    <3>6. Larger(c - l, c - p) - (IF c - h <= c - p THEN c - h ELSE c - p)
            = Larger(h, p) - (IF l <= p THEN l ELSE p)
      BY DEF Larger
    <3>7. QED
      BY <3>3, <3>4, <3>5, <3>6, Zenon
  <2>4. QED
    BY <2>2, <2>3
<1>5. Wilder(TrueRanges(t), period) = Wilder(TrueRanges(s), period)
  <2>1. n \in Nat /\ \A k \in 1..n : 1 * TrueRanges(s)[k] = TrueRanges(s)[k]
    BY <1>3 DEF IntSeries
  <2>2. MultipleOf(TrueRanges(t), TrueRanges(s), n, 1)
    BY <1>4, <2>1, Zenon DEF MultipleOf
  <2>3. QED
    BY <1>2, <1>3, <2>1, <2>2, WilderSame
<1>6. QED
  BY <1>1, <1>5 DEF Atr, period

\* The swing of the mirror image is the opposite: its highest high reflects the
\* lowest low.
LEMMA MirroredSwing ==
  ASSUME NEW n \in Nat \ {0}, NEW s, NEW t, NEW c \in Int, Mirrored(t, s, n, c)
  PROVE  SwingScore(s) \in {-15, 0, 15} /\ SwingScore(t) = -SwingScore(s)
<1>1. Series(s, n) /\ Series(t, n) /\ n \in 1..n /\ Len(s) = n /\ Len(t) = n
  BY DEF Mirrored, Series
<1>2. CASE SwingBars(n) = {}
  <2>1. SwingScore(s) = 0 /\ SwingScore(t) = 0
    BY <1>1, <1>2, SwingScoreIs
  <2>2. \A z \in Int : z <= 0 /\ 0 <= z => -z = z
    OBVIOUS
  <2>3. 0 \in Int /\ 0 <= 0
    OBVIOUS
  <2>4. SwingScore(t) = -SwingScore(s)
    BY <2>1, <2>2, <2>3, Zenon
  <2>5. QED
    BY <2>1, <2>4
<1>3. CASE SwingBars(n) # {}
  <2>1. PICK h \in Int, l \in Int, u \in Int, v \in Int :
          h = SwingHigh(s) /\ l = SwingLow(s) /\ u = SwingHigh(t) /\ v = SwingLow(t)
    <3>1. SwingHigh(s) \in Int /\ SwingLow(s) \in Int
      BY <1>1, <1>3, SwingExtremes
    <3>2. SwingHigh(t) \in Int /\ SwingLow(t) \in Int
      BY <1>1, <1>3, SwingExtremes
    <3>3. QED
      BY <3>1, <3>2
  <2>2. ASSUME NEW k \in SwingBars(n)
        PROVE  /\ s[k].high \in Int /\ s[k].low \in Int /\ s[k].low <= s[k].high
               /\ t[k].high = c - s[k].low /\ t[k].low = c - s[k].high
    <3>1. k \in 1..n
      BY DEF SwingBars
    <3>2. /\ s[k].high \in Int /\ s[k].low \in Int /\ s[k].close \in Int
          /\ s[k].low <= s[k].close /\ s[k].close <= s[k].high
      BY <1>1, <3>1 DEF Series
    <3>3. s[k].low <= s[k].high
      BY <3>2
    <3>4. QED
      BY <3>1, <3>2, <3>3, Zenon DEF Mirrored
  <2>3. u = c - l
    <3>1. PICK i \in SwingBars(n) : l = s[i].low
      BY <1>1, <1>3, <2>1, SwingExtremes
    <3>2. PICK j \in SwingBars(n) : u = t[j].high
      BY <1>1, <1>3, <2>1, SwingExtremes
    <3>3. l <= s[j].low
      BY <1>1, <1>3, <2>1, SwingExtremes
    <3>4. t[i].high <= u
      BY <1>1, <1>3, <2>1, SwingExtremes
    <3>5. PICK x \in Int : x = s[j].low /\ u = c - x
      BY <2>2, <3>2, Zenon
    <3>6. c - l <= u
      BY <2>2, <3>1, <3>4, Zenon
    <3>7. l <= x
      BY <3>3, <3>5, Zenon
    <3>8. QED
      BY <3>5, <3>6, <3>7
  <2>4. v = c - h
    <3>1. PICK i \in SwingBars(n) : h = s[i].high
      BY <1>1, <1>3, <2>1, SwingExtremes
    <3>2. PICK j \in SwingBars(n) : v = t[j].low
      BY <1>1, <1>3, <2>1, SwingExtremes
    <3>3. s[j].high <= h
      BY <1>1, <1>3, <2>1, SwingExtremes
    <3>4. v <= t[i].low
      BY <1>1, <1>3, <2>1, SwingExtremes
    <3>5. PICK x \in Int : x = s[j].high /\ v = c - x
      BY <2>2, <3>2, Zenon
    <3>6. v <= c - h
      BY <2>2, <3>1, <3>4, Zenon
    <3>7. x <= h
      BY <3>3, <3>5, Zenon
    <3>8. QED
      BY <3>5, <3>6, <3>7
  <2>5. l <= h
    <3>1. PICK i \in SwingBars(n) : l = s[i].low
      BY <1>1, <1>3, <2>1, SwingExtremes
    <3>2. s[i].high <= h
      BY <1>1, <1>3, <2>1, SwingExtremes
    <3>3. QED
      BY <2>2, <3>1, <3>2
  <2>6. PICK d \in Int : d = Last(s).close /\ Last(t).close = c - d
    <3>1. s[n].close \in Int /\ t[n].close = c - s[n].close
      BY <1>1 DEF Mirrored, Series
    <3>2. QED
      BY <1>1, <3>1, Zenon DEF Last
  <2>7. SwingScore(s) = IF d > h THEN 15 ELSE IF d < l THEN -15 ELSE 0
    BY <1>1, <1>3, <2>1, <2>6, SwingScoreIs
  <2>8. SwingScore(t) = IF c - d > c - l THEN 15 ELSE IF c - d < c - h THEN -15 ELSE 0
    BY <1>1, <1>3, <2>1, <2>3, <2>4, <2>6, SwingScoreIs
  <2>9. QED
    BY <2>5, <2>7, <2>8
<1>4. QED
  BY <1>2, <1>3

\* The range filter sees no direction.
LEMMA MirroredRange ==
  ASSUME NEW n \in Nat \ {0}, NEW s, NEW t, NEW c \in Int, Mirrored(t, s, n, c), AtrValid(s)
  PROVE  RangeLike(t) <=> RangeLike(s)
<1>1. Len(s) = n /\ Len(t) = n
  BY DEF Mirrored, Series
<1>2. PICK m \in Int : Image(t, s, n, m, c) /\ Reflects(m)
  BY MirroredIsImage
<1>3. PICK x \in Int : x = EmaSpread(s) /\ EmaSpread(t) = -x
  <2>1. EmaSpread(s) \in Int /\ EmaSpread(t) = m * EmaSpread(s)
    BY <1>2, SpreadImage
  <2>2. m * EmaSpread(s) = -EmaSpread(s)
    BY <1>2, <2>1 DEF Reflects
  <2>3. QED
    BY <2>1, <2>2, Zenon
<1>4. Abs(-x) = Abs(x)
  BY DEF Abs
<1>5. Atr(t).num = Atr(s).num /\ Atr(t).den = Atr(s).den
  BY MirroredAtr
<1>6. QED
  BY <1>1, <1>3, <1>4, <1>5, Zenon DEF RangeLike

\* The score of the mirror image is the opposite.
LEMMA MirroredScore ==
  ASSUME NEW n \in Nat \ {0}, NEW s, NEW t, NEW c \in Int, Mirrored(t, s, n, c),
         FeaturesValid(s), RsiBullish + RsiBearish = 100
  PROVE  Score(t) = -Score(s)
<1>1. PICK m \in Int : Image(t, s, n, m, c) /\ Reflects(m)
  BY MirroredIsImage
<1>2. ASSUME NEW period \in Nat
      PROVE  /\ CloseAbove(t, period) <=> CloseBelow(s, period)
             /\ CloseBelow(t, period) <=> CloseAbove(s, period)
             /\ ~(CloseAbove(s, period) /\ CloseBelow(s, period))
  <2>1. PICK x \in Int : x = CloseGap(s, period) /\ CloseGap(t, period) = m * x
    BY <1>1, CloseGapImage
  <2>2. /\ CloseAbove(s, period) <=> CloseGap(s, period) > 0
        /\ CloseBelow(s, period) <=> CloseGap(s, period) < 0
        /\ CloseAbove(t, period) <=> CloseGap(t, period) > 0
        /\ CloseBelow(t, period) <=> CloseGap(t, period) < 0
    BY <1>1, CloseGapImage
  <2>3. ~(x > 0 /\ x < 0) /\ (m * x > 0 <=> x < 0) /\ (m * x < 0 <=> x > 0)
    BY <1>1 DEF Reflects
  <2>4. QED
    BY <2>1, <2>2, <2>3, Zenon
<1>3. Config.ema_fast \in Nat /\ Config.ema_slow \in Nat
  BY ConfigAssumption DEF ValidConfig
<1>4. /\ EmaSpread(t) > 0 <=> EmaSpread(s) < 0
      /\ EmaSpread(t) < 0 <=> EmaSpread(s) > 0
      /\ ~(EmaSpread(s) > 0 /\ EmaSpread(s) < 0)
  <2>1. PICK x \in Int : x = EmaSpread(s) /\ EmaSpread(t) = m * x
    BY <1>1, SpreadImage
  <2>2. ~(x > 0 /\ x < 0) /\ (m * x > 0 <=> x < 0) /\ (m * x < 0 <=> x > 0)
    BY <1>1 DEF Reflects
  <2>3. QED
    BY <2>1, <2>2, Zenon
<1>5. TrendScore(s) \in {-45, -27, 0, 27, 45} /\ TrendScore(t) = -TrendScore(s)
  BY <1>2, <1>3, <1>4 DEF TrendScore
<1>6. /\ Histogram(t) > 0 <=> Histogram(s) < 0
      /\ Histogram(t) < 0 <=> Histogram(s) > 0
      /\ ~(Histogram(s) > 0 /\ Histogram(s) < 0)
  <2>1. PICK x \in Int : x = Histogram(s) /\ Histogram(t) = m * x
    BY <1>1, HistogramImage
  <2>2. ~(x > 0 /\ x < 0) /\ (m * x > 0 <=> x < 0) /\ (m * x < 0 <=> x > 0)
    BY <1>1 DEF Reflects
  <2>3. QED
    BY <2>1, <2>2, Zenon
<1>7. MomentumScore(s) \in {-30, 0, 30} /\ MomentumScore(t) = -MomentumScore(s)
  <2>1. /\ RsiBullish \in Int /\ RsiBearish \in Int
        /\ 100 - RsiBullish = RsiBearish /\ 100 - RsiBearish = RsiBullish
    BY ThresholdAssumption DEF ValidThresholds
  <2>2. RsiValid(s)
    BY DEF FeaturesValid
  <2>3. Rsi(t).num >= RsiBullish * Rsi(t).den <=> Rsi(s).num <= (100 - RsiBullish) * Rsi(s).den
    BY <2>1, <2>2, MirroredRsi
  <2>4. Rsi(t).num <= RsiBearish * Rsi(t).den <=> Rsi(s).num >= (100 - RsiBearish) * Rsi(s).den
    BY <2>1, <2>2, MirroredRsi
  <2>5. /\ Rsi(t).num >= RsiBullish * Rsi(t).den <=> Rsi(s).num <= RsiBearish * Rsi(s).den
        /\ Rsi(t).num <= RsiBearish * Rsi(t).den <=> Rsi(s).num >= RsiBullish * Rsi(s).den
    BY <2>1, <2>3, <2>4, Zenon
  <2>6. QED
    BY <1>6, <2>5 DEF MomentumScore
<1>8. SwingScore(s) \in {-15, 0, 15} /\ SwingScore(t) = -SwingScore(s)
  BY MirroredSwing
<1>9. ReturnScore(s) \in {-10, 0, 10} /\ ReturnScore(t) = -ReturnScore(s)
  <2>1. ReturnValid(s)
    BY DEF FeaturesValid
  <2>2. PICK x \in Int : x = Return(s) /\ Return(t) = m * x
    BY <1>1, <2>1, ReturnImage
  <2>3. (m * x > 0 <=> x < 0) /\ (m * x < 0 <=> x > 0)
    BY <1>1 DEF Reflects
  <2>4. (Return(t) > 0 <=> x < 0) /\ (Return(t) < 0 <=> x > 0)
    BY <2>2, <2>3, Zenon
  <2>5. QED
    BY <2>2, <2>4 DEF ReturnScore
<1>10. RangeLike(t) <=> RangeLike(s)
  BY MirroredRange DEF FeaturesValid
<1>11. PICK o \in Int, p \in Int, q \in Int, r \in Int :
         /\ o = TrendScore(s) /\ p = MomentumScore(s) /\ q = SwingScore(s) /\ r = ReturnScore(s)
  BY <1>5, <1>7, <1>8, <1>9
<1>12. RawScore(s) = o + p + q + r /\ RawScore(t) = -(o + p + q + r)
  <2>1. -o + -p + -q + -r = -(o + p + q + r)
    OBVIOUS
  <2>2. RawScore(t) = -o + -p + -q + -r
    BY <1>5, <1>7, <1>8, <1>9, <1>11, Zenon DEF RawScore
  <2>3. QED
    BY <1>11, <2>1, <2>2, Zenon DEF RawScore
<1>13. SwingScore(t) = 0 <=> SwingScore(s) = 0
  BY <1>8
<1>14. PICK w \in Int : w = o + p + q + r
  OBVIOUS
<1>15. Score(s) = IF RangeLike(s) /\ SwingScore(s) = 0 THEN w ELSE 4 * w
  BY <1>12, <1>14, Zenon DEF Score
<1>16. Score(t) = IF RangeLike(s) /\ SwingScore(s) = 0 THEN -w ELSE 4 * (-w)
  BY <1>10, <1>12, <1>13, <1>14, Zenon DEF Score
<1>17. 4 * (-w) = -(4 * w)
  OBVIOUS
<1>18. QED
  BY <1>15, <1>16, <1>17, Zenon

\* The point the property reflects about is a number when the bars are finitely many.
LEMMA CeilingIsNumber ==
  ASSUME IsFiniteSet(Bar), Bar # {}
  PROVE  Ceiling \in Int
<1>1. PICK n \in Nat : ExistsSurjection(1..n, Bar)
  BY FS_NatSurjection
<1>2. PICK f : f \in Surjection(1..n, Bar)
  BY <1>1 DEF ExistsSurjection
<1>3. (\A k \in 1..n : f[k] \in Bar) /\ \A b \in Bar : \E k \in 1..n : f[k] = b
  BY <1>2 DEF Surjection
<1>4. \A b \in Bar : b.high \in Int /\ b.low \in Int
  BY BarAssumption
<1>5. Highest({b.high : b \in Bar}) \in Int
  <2> DEFINE S == {b.high : b \in Bar}
             g == [k \in 1..n |-> f[k].high]
  <2>1. S # {} /\ \A y \in S : \E k \in 1..n : y = g[k]
    BY <1>3
  <2>2. \A k \in 1..n : g[k] \in Int
    BY <1>3, <1>4
  <2> HIDE DEF S, g
  <2>3. Highest(S) \in Int
    BY <2>1, <2>2, Extremes
  <2>4. QED
    BY <2>3 DEF S
<1>6. Lowest({b.low : b \in Bar}) \in Int
  <2> DEFINE S == {b.low : b \in Bar}
             g == [k \in 1..n |-> f[k].low]
  <2>1. S # {} /\ \A y \in S : \E k \in 1..n : y = g[k]
    BY <1>3
  <2>2. \A k \in 1..n : g[k] \in Int
    BY <1>3, <1>4
  <2> HIDE DEF S, g
  <2>3. Lowest(S) \in Int
    BY <2>1, <2>2, Extremes
  <2>4. QED
    BY <2>3 DEF S
<1>7. PICK x \in Int, y \in Int : /\ x = Highest({b.high : b \in Bar})
                                  /\ y = Lowest({b.low : b \in Bar})
  BY <1>5, <1>6
<1>8. Ceiling = x + y
  BY <1>7, Zenon DEF Ceiling
<1>9. QED
  BY <1>8

\* The scoring has no preferred direction, for every series and every configuration
\* with symmetric RSI thresholds; the point of reflection is taken from the set of
\* bars, which has to be finite to have a highest and a lowest (technical.py:245-301).
THEOREM ScoreIsMirrorSymmetric == IsFiniteSet(Bar) => (Spec => []MirrorSymmetric)
<1>1. SUFFICES ASSUME IsFiniteSet(Bar)
               PROVE  Spec => []MirrorSymmetric
  OBVIOUS
<1>2. SeriesType => MirrorSymmetric
  <2> DEFINE t == Mirror(bars)
  <2> SUFFICES ASSUME SeriesType, FeaturesValid(bars), RsiBullish + RsiBearish = 100
               PROVE  Score(t) = -Score(bars)
    BY Zenon DEF MirrorSymmetric
  <2>1. PICK n \in Nat \ {0} : Len(bars) = n /\ Series(bars, n) /\ \A k \in 1..n : bars[k] \in Bar
    <3>1. Len(bars) \in Nat /\ Series(bars, Len(bars)) /\ \A k \in 1..Len(bars) : bars[k] \in Bar
      BY SeriesOfBars DEF SeriesType
    <3>2. Config.ema_fast \in Nat /\ Config.ema_fast >= 2
      BY ConfigAssumption DEF ValidConfig
    <3>3. Len(bars) \in Nat \ {0}
      BY <3>1, <3>2 DEF FeaturesValid, EmaValid
    <3>4. QED
      BY <3>1, <3>3
  <2>2. PICK c \in Int : c = Ceiling
    <3>1. 1 \in 1..n
      OBVIOUS
    <3>2. Bar # {}
      BY <2>1, <3>1
    <3>3. QED
      BY <1>1, <3>2, CeilingIsNumber
  <2>3. t = [k \in DOMAIN bars |-> [high |-> c - bars[k].low, low |-> c - bars[k].high,
                                    close |-> c - bars[k].close]]
    BY <2>2, Zenon DEF Mirror
  <2> HIDE DEF t
  <2>4. DOMAIN t = 1..n /\ Len(t) = n
    <3>1. DOMAIN t = 1..n
      BY <2>1, <2>3 DEF Series
    <3>2. n \in Nat
      OBVIOUS
    <3>3. QED
      BY <3>1, <3>2, LengthOfTable
  <2>5. ASSUME NEW k \in 1..n
        PROVE  /\ t[k].high = c - bars[k].low /\ t[k].low = c - bars[k].high
               /\ t[k].close = c - bars[k].close
    BY <2>1, <2>3 DEF Series
  <2>6. Series(t, n)
    <3>1. ASSUME NEW k \in 1..n
          PROVE  /\ t[k].high \in Int /\ t[k].low \in Int /\ t[k].close \in Int
                 /\ t[k].low <= t[k].close /\ t[k].close <= t[k].high
      <4>1. PICK h \in Int, l \in Int, x \in Int :
              /\ h = bars[k].high /\ l = bars[k].low /\ x = bars[k].close
              /\ l <= x /\ x <= h
        BY <2>1 DEF Series
      <4>2. t[k].high = c - l /\ t[k].low = c - h /\ t[k].close = c - x
        BY <2>5, <4>1, Zenon
      <4>3. QED
        BY <4>1, <4>2
    <3>2. QED
      BY <2>4, <3>1 DEF Series
  <2>7. Mirrored(t, bars, n, c)
    BY <2>1, <2>5, <2>6, Zenon DEF Mirrored
  <2>8. QED
    BY <2>7, MirroredScore
<1>3. QED
  BY <1>1, <1>2, SeriesIsTyped, PTL
=============================================================================
