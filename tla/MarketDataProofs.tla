-------------------------- MODULE MarketDataProofs --------------------------
(***************************************************************************)
(* Proofs about MarketData for every definition, every set of responses,   *)
(* cutoffs and analyses and every size of cache and semaphores: types,     *)
(* slots, the cache, the separation of cutoffs, and what the role is       *)
(* promised about its data.                                                *)
(*                                                                         *)
(* The filter of closed rows is recursive and the absence of gaps speaks   *)
(* of neighbours, so two facts need induction.  It is done on sets of      *)
(* numbers, by their least element.                                        *)
(***************************************************************************)
EXTENDS MarketData, FiniteSetTheorems, SequenceTheorems, WellFoundedInduction, TLAPS

\* A set that contains 0 and, with each number, its successor contains all.
LEMMA SetInduction ==
  ASSUME NEW S, 0 \in S, \A n \in Nat : n \in S => n + 1 \in S
  PROVE  Nat \subseteq S
<1> DEFINE T == Nat \ S
<1> SUFFICES ASSUME T # {} PROVE FALSE
  OBVIOUS
<1>1. PICK x \in T : \A y \in T : ~ (<<y, x>> \in OpToRel(<, Nat))
  <2>1. T \subseteq Nat
    OBVIOUS
  <2>2. QED
    BY <2>1, NatLessThanWellFounded, WFMin
<1>2. \A y \in T : ~(y < x)
  BY <1>1 DEF OpToRel
<1>3. x # 0 /\ x - 1 \in Nat
  OBVIOUS
<1>4. x - 1 \in S
  BY <1>2, <1>3
<1>5. QED
  BY <1>3, <1>4

\* f tabulates a recursion over 0..m: step gives the next value.
Computes(f, m, a, step) ==
    f[0] = a /\ \A k \in 1..m : f[k] = step[<<k, f[k - 1]>>]

\* A recursion with values in V is computed by a function.
LEMMA Recursion ==
  ASSUME NEW V, NEW n \in Nat, NEW a \in V, NEW step \in [(1..n) \X V -> V]
  PROVE  \E f \in [0..n -> V] : Computes(f, n, a, step)
<1> DEFINE Has(m) == \E f \in [0..m -> V] : Computes(f, m, a, step)
<1> DEFINE S == {m \in Nat : m <= n => Has(m)}
<1>1. 0 \in S
  <2>1. [k \in 0..0 |-> a] \in [0..0 -> V]
    OBVIOUS
  <2>2. Computes([k \in 0..0 |-> a], 0, a, step)
    BY DEF Computes
  <2>3. QED
    BY <2>1, <2>2
<1>2. ASSUME NEW m \in Nat, m \in S PROVE m + 1 \in S
  <2>1. SUFFICES ASSUME m + 1 <= n PROVE Has(m + 1)
    OBVIOUS
  <2>2. PICK f \in [0..m -> V] : Computes(f, m, a, step)
    BY <1>2, <2>1
  <2> DEFINE g == [k \in 0..(m + 1) |-> IF k = m + 1 THEN step[<<m + 1, f[m]>>] ELSE f[k]]
  <2>3. step[<<m + 1, f[m]>>] \in V
    BY <2>1
  <2>4. g \in [0..(m + 1) -> V]
    BY <2>3
  <2>5. ASSUME NEW k \in 1..(m + 1) PROVE g[k] = step[<<k, g[k - 1]>>]
    <3>1. CASE k = m + 1
      <4>1. g[k] = step[<<m + 1, f[m]>>] /\ k - 1 \in 0..(m + 1) /\ k - 1 # m + 1 /\ k - 1 = m
        BY <3>1
      <4>2. g[k - 1] = f[k - 1]
        BY <4>1
      <4>3. QED
        BY <3>1, <4>1, <4>2
    <3>2. CASE k # m + 1
      <4>1. k \in 1..m /\ g[k] = f[k] /\ g[k - 1] = f[k - 1]
        BY <3>2
      <4>2. QED
        BY <2>2, <4>1 DEF Computes
    <3>3. QED
      BY <3>1, <3>2
  <2>6. g[0] = a
    BY <2>2 DEF Computes
  <2>7. Computes(g, m + 1, a, step)
    BY <2>5, <2>6 DEF Computes
  <2>8. QED
    BY <2>4, <2>7
<1> HIDE DEF S
<1>3. Nat \subseteq S
  BY <1>1, <1>2, SetInduction
<1>4. QED
  BY <1>3 DEF S


-----------------------------------------------------------------------------
(* What the normalisation of a response returns *)

\* Filtering keeps rows, and only rows closed by the cutoff.
LEMMA FilterKeepsClosed ==
  ASSUME NEW rows \in Seq(Bar), NEW c \in Nat
  PROVE  ClosedRows(rows, c) \in {s \in Seq(Bar) : \A k \in DOMAIN s : s[k].close <= c}
<1> DEFINE V == {s \in Seq(Bar) : \A k \in DOMAIN s : s[k].close <= c}
<1> DEFINE n == Len(rows)
<1> DEFINE step == [p \in (1..n) \X V |->
       IF rows[p[1]].close <= c THEN Append(p[2], rows[p[1]]) ELSE p[2]]
<1>1. step \in [(1..n) \X V -> V]
  <2>1. ASSUME NEW k \in 1..n, NEW s \in V, rows[k].close <= c PROVE Append(s, rows[k]) \in V
    <3>1. rows[k] \in Bar /\ s \in Seq(Bar)
      OBVIOUS
    <3>2. Append(s, rows[k]) \in Seq(Bar)
      BY <3>1
    <3>3. /\ DOMAIN Append(s, rows[k]) = 1..(Len(s) + 1)
          /\ Append(s, rows[k])[Len(s) + 1] = rows[k]
          /\ \A j \in 1..Len(s) : Append(s, rows[k])[j] = s[j]
          /\ Len(s) \in Nat /\ DOMAIN s = 1..Len(s)
      BY <3>1
    <3>4. \A j \in 1..(Len(s) + 1) : j \in 1..Len(s) \/ j = Len(s) + 1
      BY <3>3
    <3>5. \A j \in DOMAIN s : s[j].close <= c
      OBVIOUS
    <3> QED
      BY <2>1, <3>2, <3>3, <3>4, <3>5
  <2>2. QED
    BY <2>1
<1>2. <<>> \in V
  OBVIOUS
<1>3. n \in Nat
  OBVIOUS
<1> HIDE DEF step, V, n
<1>4. PICK f \in [0..n -> V] : Computes(f, n, <<>>, step)
  BY <1>1, <1>2, <1>3, Recursion
<1> DEFINE G(h) == [k \in 0..n |-> IF k = 0 THEN <<>>
          ELSE IF rows[k].close <= c THEN Append(h[k - 1], rows[k]) ELSE h[k - 1]]
<1>5. f = G(f)
  <2>1. ASSUME NEW k \in 0..n PROVE f[k] = G(f)[k]
    <3>1. CASE k = 0
      BY <1>3, <1>4, <3>1 DEF Computes
    <3>2. CASE k # 0
      <4>1. k \in 1..n /\ k - 1 \in 0..n /\ f[k - 1] \in V
        BY <1>3, <3>2
      <4>2. f[k] = step[<<k, f[k - 1]>>]
        BY <1>4, <4>1 DEF Computes
      <4>3. step[<<k, f[k - 1]>>] = IF rows[k].close <= c THEN Append(f[k - 1], rows[k]) ELSE f[k - 1]
        BY <4>1 DEF step
      <4>4. QED
        BY <3>2, <4>2, <4>3
    <3>3. QED
      BY <3>1, <3>2
  <2>2. QED
    BY <2>1
<1>6. PICK g : g = G(g) /\ ClosedRows(rows, c) = g[n]
  <2>1. ClosedRows(rows, c) = (CHOOSE h : h = G(h))[n]
    BY DEF ClosedRows, n
  <2>2. QED
    BY <1>5, <2>1
<1>7. /\ g[0] = <<>>
      /\ \A k \in 1..n : g[k] = IF rows[k].close <= c THEN Append(g[k - 1], rows[k]) ELSE g[k - 1]
  <2>1. g = G(g)
    BY <1>6
  <2>2. \A k \in 0..n : G(g)[k] = IF k = 0 THEN <<>>
          ELSE IF rows[k].close <= c THEN Append(g[k - 1], rows[k]) ELSE g[k - 1]
    OBVIOUS
  <2> HIDE DEF G
  <2>3. \A k \in 0..n : g[k] = IF k = 0 THEN <<>>
          ELSE IF rows[k].close <= c THEN Append(g[k - 1], rows[k]) ELSE g[k - 1]
    BY <2>1, <2>2
  <2>4. QED
    BY <1>3, <2>3
<1> DEFINE S == {k \in Nat : k <= n => g[k] \in V}
<1>8. 0 \in S
  BY <1>2, <1>3, <1>7
<1>9. ASSUME NEW k \in Nat, k \in S PROVE k + 1 \in S
  <2>1. SUFFICES ASSUME k + 1 <= n PROVE g[k + 1] \in V
    OBVIOUS
  <2>2. k + 1 \in 1..n /\ (k + 1) - 1 = k /\ g[k] \in V
    BY <1>3, <1>9, <2>1
  <2>3. g[k + 1] = IF rows[k + 1].close <= c THEN Append(g[k], rows[k + 1]) ELSE g[k]
    BY <1>7, <2>2
  <2>4. g[k + 1] = step[<<k + 1, g[k]>>] /\ <<k + 1, g[k]>> \in (1..n) \X V
    BY <2>2, <2>3 DEF step
  <2>5. QED
    BY <1>1, <2>4
<1> HIDE DEF S
<1>10. Nat \subseteq S
  BY <1>8, <1>9, SetInduction
<1>11. g[n] \in V
  BY <1>3, <1>10 DEF S
<1>12. QED
  BY <1>6, <1>11 DEF V

\* A product of natural numbers is one.
LEMMA Multiples == ASSUME NEW a \in Nat, NEW b \in Nat PROVE a * b \in Nat
BY SMTT(30)

\* The constants have the types the settings and the definition enforce.
LEMMA Settings ==
  /\ Request = 1..Len(RequiredData) /\ Len(RequiredData) \in Nat
  /\ \A i \in Request : /\ RequiredData[i].interval \in Nat \ {0}
                        /\ RequiredData[i].minimum_bars \in Nat \ {0}
                        /\ RequiredData[i].max_age \in Nat \ {0}
  /\ Cutoff \subseteq Nat /\ Payload \subseteq Seq(Bar)
  /\ CollectorSlots \in Nat \ {0} /\ ProviderSlots \in Nat \ {0}
  /\ MaxAttempts \in Nat \ {0} /\ MaxEntries \in Nat \ {0}
  /\ CacheTtl * Second \in Nat /\ Second \in Nat \ {0}
<1> DEFINE R == [interval : Nat \ {0}, minimum_bars : Nat \ {0, 1}, max_age : Nat \ {0}]
<1>1. RequiredData \in Seq(R)
  BY SettingsAssumption DEF ValidRequirements
<1>2. \A r \in R : r.interval \in Nat \ {0} /\ r.minimum_bars \in Nat \ {0} /\ r.max_age \in Nat \ {0}
  OBVIOUS
<1> HIDE DEF R
<1>3. Request = 1..Len(RequiredData) /\ Len(RequiredData) \in Nat
  BY <1>1 DEF Request
<1>4. \A i \in 1..Len(RequiredData) : RequiredData[i] \in R
  BY <1>1
<1>5. \A i \in Request : /\ RequiredData[i].interval \in Nat \ {0}
                          /\ RequiredData[i].minimum_bars \in Nat \ {0}
                          /\ RequiredData[i].max_age \in Nat \ {0}
  BY <1>2, <1>3, <1>4
<1>6. CacheTtl * Second \in Nat
  <2>1. CacheTtl \in Nat /\ Second \in Nat
    BY SettingsAssumption DEF ValidSettings
  <2>2. QED
    BY <2>1, Multiples
<1>7. QED
  BY <1>3, <1>5, <1>6, SettingsAssumption, DataAssumption DEF Bar, ValidSettings

SeriesOf(f, rows) ==
    [request |-> f.request, as_of |-> asOf[f.analysis],
     bars |-> LastBars(ClosedRows(rows, asOf[f.analysis]), RequiredData[f.request].minimum_bars)]

\* No bar of the series lies after its cutoff.
Closed(v) == \A k \in DOMAIN v.bars : v.bars[k].close <= v.as_of

\* The last bars of a sequence are a sequence of its bars.
LEMMA LastBarsOf ==
  ASSUME NEW rows \in Seq(Bar), NEW n \in Nat \ {0}
  PROVE  /\ LastBars(rows, n) \in Seq(Bar)
         /\ \A k \in DOMAIN LastBars(rows, n) :
               \E j \in DOMAIN rows : LastBars(rows, n)[k] = rows[j]
<1> DEFINE m == IF Len(rows) > n THEN Len(rows) - n + 1 ELSE 1
<1>1. Len(rows) \in Nat /\ m \in 1..(Len(rows) + 1)
  <2>1. Len(rows) \in Nat
    OBVIOUS
  <2>2. QED
    BY <2>1
<1>2. LastBars(rows, n) = SubSeq(rows, m, Len(rows))
  BY DEF LastBars
<1> HIDE DEF m
<1>3. /\ SubSeq(rows, m, Len(rows)) \in Seq(Bar)
      /\ Len(SubSeq(rows, m, Len(rows))) = IF m <= Len(rows) THEN Len(rows) - m + 1 ELSE 0
      /\ \A i \in 1..(Len(rows) - m + 1) : SubSeq(rows, m, Len(rows))[i] = rows[m + i - 1]
  BY <1>1, SubSeqProperties
<1>4. ASSUME NEW k \in DOMAIN SubSeq(rows, m, Len(rows))
      PROVE  \E j \in DOMAIN rows : SubSeq(rows, m, Len(rows))[k] = rows[j]
  <2>1. k \in 1..(Len(rows) - m + 1) /\ m <= Len(rows)
    BY <1>1, <1>3
  <2>2. m + k - 1 \in DOMAIN rows
    BY <1>1, <2>1
  <2>3. QED
    BY <1>3, <2>1, <2>2
<1>5. QED
  BY <1>2, <1>3, <1>4

\* A response becomes a series of the request, of its cutoff, without later bars.
LEMMA SeriesType ==
  ASSUME NEW f \in Fetch, asOf[f.analysis] \in Cutoff, NEW rows \in Payload
  PROVE  /\ SeriesOf(f, rows) \in Series /\ Closed(SeriesOf(f, rows))
         /\ SeriesOf(f, rows).request = f.request
         /\ SeriesOf(f, rows).as_of = asOf[f.analysis]
<1> DEFINE c == asOf[f.analysis]
<1> DEFINE kept == ClosedRows(rows, c)
<1> DEFINE n == RequiredData[f.request].minimum_bars
<1>1. f.request \in Request /\ c \in Nat /\ n \in Nat \ {0} /\ rows \in Seq(Bar)
  BY Settings DEF Fetch
<1>2. kept \in Seq(Bar) /\ \A k \in DOMAIN kept : kept[k].close <= c
  BY <1>1, FilterKeepsClosed
<1> HIDE DEF kept, n
<1>3. /\ LastBars(kept, n) \in Seq(Bar)
      /\ \A k \in DOMAIN LastBars(kept, n) : \E j \in DOMAIN kept : LastBars(kept, n)[k] = kept[j]
  BY <1>1, <1>2, LastBarsOf
<1>4. \A k \in DOMAIN LastBars(kept, n) : LastBars(kept, n)[k].close <= c
  BY <1>2, <1>3
<1>5. SeriesOf(f, rows) = [request |-> f.request, as_of |-> c, bars |-> LastBars(kept, n)]
  BY DEF SeriesOf, kept, n
<1>6. QED
  BY <1>1, <1>3, <1>4, <1>5 DEF Series, Closed
-----------------------------------------------------------------------------
(* The steps of a fetch, by what they do *)

Fails(f) == stage[f] = "REQUEST" /\ \E code \in ProviderReason : Fail(f, code)

Stores(f, v) ==
    /\ stage[f] = "REQUEST"
    /\ stage' = [stage EXCEPT ![f] = "DONE"]
    /\ result' = [result EXCEPT ![f] = v]
    /\ Put(CacheKey(f.request, asOf[f.analysis]), v, asOf[f.analysis])
    /\ Leave
    /\ UNCHANGED <<analysisVars, attempt>>

Pauses(f) ==
    /\ stage[f] = "REQUEST" /\ attempt[f] # MaxAttempts
    /\ stage' = [stage EXCEPT ![f] = "SLEEP"]
    /\ UNCHANGED <<analysisVars, attempt, result, cache, slotVars>>

\* Every answer to a request fails it, pauses it, raises or is stored.
LEMMA Responses ==
  ASSUME NEW f \in Fetch, Respond(f)
  PROVE  \/ Fails(f) \/ Pauses(f) \/ ReceiveUndecodable(f)
         \/ \E rows \in Payload : Stores(f, SeriesOf(f, rows))
<1>1. ASSUME NEW rows \in Payload, Receive(f, rows)
      PROVE  Fails(f) \/ Stores(f, SeriesOf(f, rows))
  BY <1>1 DEF Receive, Fails, Stores, SeriesOf, ProviderReason
<1>2. ASSUME ReceiveUnusable(f) PROVE Fails(f)
  BY <1>2 DEF ReceiveUnusable, Fails, ProviderReason
<1>3. ASSUME NEW code \in {"PROVIDER_TIMEOUT", "PROVIDER_ERROR"}, AttemptFails(f, code)
      PROVE  Fails(f) \/ Pauses(f)
  BY <1>3 DEF AttemptFails, Fails, Pauses, ProviderReason
<1>4. QED
  BY <1>1, <1>2, <1>3 DEF Respond

\* A step of an analysis or of one fetch.
FetchStep(f) ==
    \/ Enter(f) \/ Send(f) \/ Fails(f) \/ Pauses(f) \/ ReceiveUndecodable(f) \/ Retry(f)
    \/ \E rows \in Payload : Stores(f, SeriesOf(f, rows))

\* Every step of the specification is one of these.
LEMMA Steps ==
  ASSUME [Next]_vars
  PROVE  \/ UNCHANGED vars
         \/ \E a \in Analysis : StartAnalysis(a) \/ RefuseTask(a) \/ Conclude(a)
         \/ \E f \in Fetch : FetchStep(f)
BY Responses DEF Next, Progress, FetchStep
-----------------------------------------------------------------------------
(* What holds in every reachable state, before the data is looked at *)

Entry == [key : Request \X Cutoff, value : Series, expires_at : Nat]

PlainTypes ==
    /\ asOf \in [Analysis -> Cutoff \cup {0}]
    /\ outcome \in [Analysis -> {"NEW", "COLLECTING", "ANALYSED", "ABSTAIN", "RAISED"}]
    /\ reason \in [Analysis -> ProviderReason \cup QualityReason \cup {"NONE"}]
    /\ stage \in [Fetch -> Stage]
    /\ attempt \in [Fetch -> 0..MaxAttempts]
    /\ result = [f \in Fetch |-> result[f]]
    /\ collectorQueue \in Seq(Fetch) /\ providerQueue \in Seq(Fetch)
    /\ collectorFree \in Int /\ providerFree \in Int

\* Whoever waits in a queue stands at its place, once.
WaitingAt(queue, place) ==
    /\ \A k \in DOMAIN queue : stage[queue[k]] = place
    /\ \A j, k \in DOMAIN queue : queue[j] = queue[k] => j = k

\* A fetch that has begun belongs to an analysis with a cutoff, a pausing one has
\* an attempt left, and an analysis that formed an opinion has all its series.
Progressing ==
    /\ \A f \in Fetch : stage[f] # "IDLE" =>
          outcome[f.analysis] # "NEW" /\ asOf[f.analysis] \in Cutoff
    /\ \A f \in Fetch : stage[f] = "SLEEP" => attempt[f] < MaxAttempts
    /\ \A f \in Fetch : outcome[f.analysis] = "ANALYSED" => stage[f] = "DONE"

CoreInv ==
    /\ PlainTypes
    /\ WaitingAt(collectorQueue, "QUEUED") /\ WaitingAt(providerQueue, "WAITING")
    /\ Progressing

\* A fetch is named by its analysis and its request.
LEMMA FetchFields ==
  /\ \A f \in Fetch : /\ f.analysis \in Analysis /\ f.request \in Request
                      /\ f = [analysis |-> f.analysis, request |-> f.request]
  /\ \A a \in Analysis, i \in Request :
        /\ [analysis |-> a, request |-> i] \in Fetch
        /\ [analysis |-> a, request |-> i].analysis = a
        /\ [analysis |-> a, request |-> i].request = i
BY DEF Fetch

\* The head of a queue is in it, and the others keep their order.
LEMMA QueueHead ==
  ASSUME NEW V, NEW q \in Seq(V), q # <<>>
  PROVE  /\ Head(q) \in V /\ Tail(q) \in Seq(V)
         /\ 1 \in DOMAIN q /\ Head(q) = q[1]
         /\ \A k \in DOMAIN Tail(q) : k + 1 \in DOMAIN q /\ k + 1 # 1 /\ Tail(q)[k] = q[k + 1]
         /\ DOMAIN Tail(q) \subseteq Int
OBVIOUS

\* Leaving a queue's head, or staying away from it, keeps everyone's place.
LEMMA QueueShrinks ==
  ASSUME PlainTypes, NEW q \in Seq(Fetch), q # <<>>, NEW place, WaitingAt(q, place),
         NEW v, stage' = [stage EXCEPT ![Head(q)] = v]
  PROVE  /\ \A k \in DOMAIN Tail(q) : stage'[Tail(q)[k]] = place
         /\ \A j, k \in DOMAIN Tail(q) : Tail(q)[j] = Tail(q)[k] => j = k
<1>1. /\ Head(q) \in Fetch /\ 1 \in DOMAIN q /\ Head(q) = q[1]
      /\ \A k \in DOMAIN Tail(q) : k + 1 \in DOMAIN q /\ k + 1 # 1 /\ Tail(q)[k] = q[k + 1]
      /\ DOMAIN Tail(q) \subseteq Int
  BY QueueHead
<1>2. \A k \in DOMAIN q : q[k] \in Fetch
  OBVIOUS
<1>3. ASSUME NEW k \in DOMAIN Tail(q) PROVE stage'[Tail(q)[k]] = place
  <2>1. q[k + 1] # Head(q) /\ q[k + 1] \in Fetch /\ stage[q[k + 1]] = place
    BY <1>1, <1>2, <1>3 DEF WaitingAt
  <2>2. QED
    BY <1>1, <2>1 DEF PlainTypes
<1>4. ASSUME NEW j \in DOMAIN Tail(q), NEW k \in DOMAIN Tail(q), Tail(q)[j] = Tail(q)[k]
      PROVE  j = k
  <2>1. j + 1 = k + 1
    BY <1>1, <1>4 DEF WaitingAt
  <2>2. QED
    BY <1>1, <2>1
<1>5. QED
  BY <1>3, <1>4

\* A fetch that stands elsewhere moves without touching a queue.
LEMMA QueueUntouched ==
  ASSUME PlainTypes, NEW q \in Seq(Fetch), NEW place, WaitingAt(q, place),
         NEW f \in Fetch, stage[f] # place, NEW v, stage' = [stage EXCEPT ![f] = v]
  PROVE  /\ \A k \in DOMAIN q : stage'[q[k]] = place
         /\ \A j, k \in DOMAIN q : q[j] = q[k] => j = k
<1>1. \A k \in DOMAIN q : q[k] \in Fetch
  OBVIOUS
<1>2. QED
  BY <1>1 DEF WaitingAt, PlainTypes

\* A fetch from elsewhere joins the queue's end.
LEMMA QueueGrows ==
  ASSUME PlainTypes, NEW q \in Seq(Fetch), NEW place, WaitingAt(q, place),
         NEW f \in Fetch, stage[f] # place, stage' = [stage EXCEPT ![f] = place]
  PROVE  /\ Append(q, f) \in Seq(Fetch)
         /\ \A k \in DOMAIN Append(q, f) : stage'[Append(q, f)[k]] = place
         /\ \A j, k \in DOMAIN Append(q, f) : Append(q, f)[j] = Append(q, f)[k] => j = k
<1>1. /\ Append(q, f) \in Seq(Fetch) /\ DOMAIN Append(q, f) = 1..(Len(q) + 1)
      /\ Append(q, f)[Len(q) + 1] = f /\ Len(q) \in Nat /\ DOMAIN q = 1..Len(q)
      /\ \A k \in 1..Len(q) : Append(q, f)[k] = q[k]
  OBVIOUS
<1>2. \A k \in 1..(Len(q) + 1) : k \in 1..Len(q) \/ k = Len(q) + 1
  BY <1>1
<1>3. \A k \in 1..Len(q) : q[k] # f /\ q[k] \in Fetch
  BY <1>1 DEF WaitingAt
<1>4. \A k \in 1..(Len(q) + 1) : stage'[Append(q, f)[k]] = place
  <2>1. \A k \in 1..Len(q) : stage'[q[k]] = place
    BY <1>1, <1>3 DEF WaitingAt, PlainTypes
  <2>2. stage'[f] = place
    BY DEF PlainTypes
  <2>3. QED
    BY <1>1, <1>2, <2>1, <2>2
<1>5. \A j, k \in 1..(Len(q) + 1) : Append(q, f)[j] = Append(q, f)[k] => j = k
  BY <1>1, <1>2, <1>3 DEF WaitingAt
<1>6. QED
  BY <1>1, <1>4, <1>5

\* The system starts in CoreInv.
LEMMA CoreInit == Init => CoreInv
<1> SUFFICES ASSUME Init PROVE CoreInv
  OBVIOUS
<1>1. PlainTypes
  BY Settings, FetchFields DEF Init, PlainTypes, Stage
<1>2. WaitingAt(collectorQueue, "QUEUED") /\ WaitingAt(providerQueue, "WAITING")
  BY DEF Init, WaitingAt
<1>3. Progressing
  BY FetchFields DEF Init, Progressing
<1>4. QED
  BY <1>1, <1>2, <1>3 DEF CoreInv

\* A starting analysis puts its fetches, none of which has begun, behind the others.
LEMMA StartCore ==
  ASSUME CoreInv, NEW a \in Analysis, StartAnalysis(a)
  PROVE  CoreInv'
<1> DEFINE new == [i \in Request |-> [analysis |-> a, request |-> i]]
<1> DEFINE q == collectorQueue
<1>1. /\ PlainTypes /\ Progressing /\ WaitingAt(q, "QUEUED")
      /\ WaitingAt(providerQueue, "WAITING") /\ q \in Seq(Fetch)
  BY DEF CoreInv, PlainTypes
<1>2. /\ new \in Seq(Fetch) /\ Len(new) = Len(RequiredData) /\ DOMAIN new = 1..Len(RequiredData)
      /\ \A i \in DOMAIN new : new[i] = [analysis |-> a, request |-> i]
                               /\ new[i].request = i /\ new[i].analysis = a
  <2>1. new \in [1..Len(RequiredData) -> Fetch] /\ Len(RequiredData) \in Nat
    BY Settings, FetchFields
  <2>2. QED
    BY <2>1, Settings
<1>3. collectorQueue' = q \o new
  BY DEF StartAnalysis
<1>4. \A f \in Fetch : f.analysis = a => stage[f] = "IDLE"
  BY <1>1 DEF Progressing, StartAnalysis
<1>5. /\ stage' \in [Fetch -> Stage]
      /\ \A f \in Fetch : stage'[f] = IF f.analysis = a THEN "QUEUED" ELSE stage[f]
  BY <1>1 DEF StartAnalysis, PlainTypes, Stage
<1> HIDE DEF new
<1>6. /\ q \o new \in Seq(Fetch) /\ DOMAIN (q \o new) = 1..(Len(q) + Len(new))
      /\ Len(q) \in Nat /\ Len(new) \in Nat /\ DOMAIN q = 1..Len(q) /\ DOMAIN new = 1..Len(new)
      /\ \A k \in 1..(Len(q) + Len(new)) :
            (q \o new)[k] = IF k <= Len(q) THEN q[k] ELSE new[k - Len(q)]
  BY <1>1, <1>2
<1>7. \A k \in DOMAIN q : q[k] \in Fetch /\ q[k].analysis # a /\ stage[q[k]] = "QUEUED"
  <2>1. \A k \in DOMAIN q : q[k] \in Fetch
    BY <1>1
  <2>2. QED
    BY <1>1, <1>4, <2>1 DEF WaitingAt
<1>8. \A k \in DOMAIN new : new[k] \in Fetch
  BY <1>2
<1>9. WaitingAt(collectorQueue, "QUEUED")'
  <2>1. ASSUME NEW k \in 1..(Len(q) + Len(new)) PROVE stage'[(q \o new)[k]] = "QUEUED"
    <3>1. CASE k <= Len(q)
      BY <1>5, <1>6, <1>7, <3>1
    <3>2. CASE ~(k <= Len(q))
      <4>1. k - Len(q) \in DOMAIN new
        BY <1>6, <3>2
      <4>2. (q \o new)[k] = new[k - Len(q)]
        BY <1>6, <3>2
      <4>3. new[k - Len(q)] \in Fetch /\ new[k - Len(q)].analysis = a
        BY <1>2, <1>8, <4>1
      <4>4. QED
        BY <1>5, <4>2, <4>3
    <3>3. QED
      BY <3>1, <3>2
  <2>2. ASSUME NEW j \in 1..(Len(q) + Len(new)), NEW k \in 1..(Len(q) + Len(new)),
               (q \o new)[j] = (q \o new)[k]
        PROVE  j = k
    <3>1. CASE j <= Len(q) /\ k <= Len(q)
      <4>1. q[j] = q[k] /\ j \in DOMAIN q /\ k \in DOMAIN q
        BY <1>6, <2>2, <3>1
      <4>2. QED
        BY <1>1, <4>1 DEF WaitingAt
    <3>2. CASE ~(j <= Len(q)) /\ ~(k <= Len(q))
      <4>1. j - Len(q) \in DOMAIN new /\ k - Len(q) \in DOMAIN new
        BY <1>6, <3>2
      <4>2. new[j - Len(q)] = new[k - Len(q)]
        BY <1>6, <2>2, <3>2
      <4>3. j - Len(q) = k - Len(q)
        BY <1>2, <4>1, <4>2
      <4>4. QED
        BY <1>6, <4>3
    <3>3. CASE j <= Len(q) /\ ~(k <= Len(q))
      <4>1. j \in DOMAIN q /\ k - Len(q) \in DOMAIN new
        BY <1>6, <3>3
      <4>2. q[j] = new[k - Len(q)]
        BY <1>6, <2>2, <3>3
      <4>3. QED
        BY <1>2, <1>7, <4>1, <4>2
    <3>4. CASE ~(j <= Len(q)) /\ k <= Len(q)
      <4>1. k \in DOMAIN q /\ j - Len(q) \in DOMAIN new
        BY <1>6, <3>4
      <4>2. q[k] = new[j - Len(q)]
        BY <1>6, <2>2, <3>4
      <4>3. QED
        BY <1>2, <1>7, <4>1, <4>2
    <3>5. QED
      BY <3>1, <3>2, <3>3, <3>4
  <2>3. QED
    BY <1>3, <1>6, <2>1, <2>2 DEF WaitingAt
<1>10. WaitingAt(providerQueue, "WAITING")'
  <2>1. \A k \in DOMAIN providerQueue : providerQueue[k] \in Fetch
    BY <1>1 DEF PlainTypes
  <2>2. providerQueue' = providerQueue
    BY DEF StartAnalysis
  <2>3. QED
    BY <1>1, <1>4, <1>5, <2>1, <2>2 DEF WaitingAt
<1>11. PlainTypes'
  <2>1. asOf' \in [Analysis -> Cutoff \cup {0}]
    BY <1>1 DEF StartAnalysis, PlainTypes
  <2>2. outcome' \in [Analysis -> {"NEW", "COLLECTING", "ANALYSED", "ABSTAIN", "RAISED"}]
    BY <1>1 DEF StartAnalysis, PlainTypes
  <2>3. collectorQueue' \in Seq(Fetch)
    BY <1>3, <1>6
  <2>4. UNCHANGED <<reason, attempt, result, collectorFree, providerQueue, providerFree>>
    BY DEF StartAnalysis
  <2>5. QED
    BY <1>1, <1>5, <2>1, <2>2, <2>3, <2>4 DEF PlainTypes
<1>12. Progressing'
  <2>1. PICK c \in Cutoff : asOf' = [asOf EXCEPT ![a] = c]
    BY DEF StartAnalysis
  <2>2. outcome' = [outcome EXCEPT ![a] = "COLLECTING"] /\ attempt' = attempt
    BY DEF StartAnalysis
  <2>3. ASSUME NEW f \in Fetch
        PROVE  /\ stage'[f] # "IDLE" => outcome'[f.analysis] # "NEW" /\ asOf'[f.analysis] \in Cutoff
               /\ stage'[f] = "SLEEP" => attempt'[f] < MaxAttempts
               /\ outcome'[f.analysis] = "ANALYSED" => stage'[f] = "DONE"
    <3>1. f.analysis \in Analysis
      BY FetchFields
    <3>2. CASE f.analysis = a
      BY <1>1, <1>5, <2>1, <2>2, <3>1, <3>2 DEF PlainTypes
    <3>3. CASE f.analysis # a
      BY <1>1, <1>5, <2>1, <2>2, <3>1, <3>3 DEF PlainTypes, Progressing
    <3>4. QED
      BY <3>2, <3>3
  <2>4. QED
    BY <2>3 DEF Progressing
<1>13. QED
  BY <1>9, <1>10, <1>11, <1>12 DEF CoreInv

\* An analysis that refuses its task, or that concludes, moves no fetch.
LEMMA AnalysisCore ==
  ASSUME CoreInv, NEW a \in Analysis, RefuseTask(a) \/ Conclude(a)
  PROVE  CoreInv'
<1>1. /\ PlainTypes /\ Progressing
      /\ WaitingAt(collectorQueue, "QUEUED") /\ WaitingAt(providerQueue, "WAITING")
  BY DEF CoreInv
<1>2. UNCHANGED <<asOf, stage, attempt, result, cache, slotVars>>
  BY DEF RefuseTask, Conclude, fetchVars
<1>3. WaitingAt(collectorQueue, "QUEUED")' /\ WaitingAt(providerQueue, "WAITING")'
  BY <1>1, <1>2 DEF WaitingAt, slotVars
<1>4. PICK o \in {"RAISED", "ANALYSED", "ABSTAIN"} :
         /\ outcome' = [outcome EXCEPT ![a] = o]
         /\ o = "RAISED" => outcome[a] = "NEW"
         /\ o = "ANALYSED" => \A i \in Request : stage[[analysis |-> a, request |-> i]] = "DONE"
  BY DEF RefuseTask, Conclude, Abstain
<1>5. reason' \in [Analysis -> ProviderReason \cup QualityReason \cup {"NONE"}]
  <2>1. CASE reason' = reason
    BY <1>1, <2>1 DEF PlainTypes
  <2>2. CASE reason' # reason
    <3>1. PICK i \in Request :
             LET v == Validate(result[[analysis |-> a, request |-> i]], i, asOf[a])
             IN  v # "VALID" /\ reason' = [reason EXCEPT ![a] = v]
      BY <2>2 DEF RefuseTask, Conclude, Abstain
    <3>2. Validate(result[[analysis |-> a, request |-> i]], i, asOf[a])
             \in QualityReason \cup {"VALID"}
      BY DEF Validate, QualityReason
    <3>3. QED
      BY <1>1, <3>1, <3>2 DEF PlainTypes
  <2>3. QED
    BY <2>1, <2>2
<1>6. PlainTypes'
  BY <1>1, <1>2, <1>4, <1>5 DEF PlainTypes, slotVars
<1>7. Progressing'
  <2>1. ASSUME NEW f \in Fetch
        PROVE  /\ stage[f] # "IDLE" => outcome'[f.analysis] # "NEW"
               /\ outcome'[f.analysis] = "ANALYSED" => stage[f] = "DONE"
    <3>1. f.analysis \in Analysis /\ f = [analysis |-> f.analysis, request |-> f.request]
             /\ f.request \in Request
      BY FetchFields
    <3>2. CASE f.analysis = a
      BY <1>1, <1>4, <3>1, <3>2 DEF PlainTypes
    <3>3. CASE f.analysis # a
      BY <1>1, <1>4, <3>1, <3>3 DEF PlainTypes, Progressing
    <3>4. QED
      BY <3>2, <3>3
  <2>2. QED
    BY <1>1, <1>2, <2>1 DEF Progressing
<1>8. QED
  BY <1>3, <1>6, <1>7 DEF CoreInv

\* Where a fetch goes from where it stands.
Moves == {<<"QUEUED", "DONE">>, <<"QUEUED", "WAITING">>, <<"WAITING", "REQUEST">>,
          <<"REQUEST", "FAILED">>, <<"REQUEST", "SLEEP">>, <<"REQUEST", "DONE">>,
          <<"SLEEP", "REQUEST">>}

\* A fetch moves alone, keeps the cutoffs, and ends at most a collecting analysis,
\* when its request fails.
LEMMA FetchMoves ==
  ASSUME CoreInv, NEW f \in Fetch, FetchStep(f)
  PROVE  /\ asOf' = asOf
         /\ \E v \in Stage : stage' = [stage EXCEPT ![f] = v] /\ <<stage[f], v>> \in Moves
         /\ \/ outcome' = outcome /\ reason' = reason
            \/ /\ stage[f] = "REQUEST" /\ outcome[f.analysis] = "COLLECTING"
               /\ \E o \in {"ABSTAIN", "RAISED"} :
                     outcome' = [outcome EXCEPT ![f.analysis] = o]
               /\ \E code \in ProviderReason :
                     reason' \in {reason, [reason EXCEPT ![f.analysis] = code]}
<1>1. /\ PlainTypes
      /\ WaitingAt(collectorQueue, "QUEUED") /\ WaitingAt(providerQueue, "WAITING")
  BY DEF CoreInv
<1>2. "PROVIDER_ERROR" \in ProviderReason
  BY DEF ProviderReason
<1>3. CASE Enter(f)
  <2>1. stage[f] = "QUEUED"
    BY <1>1, <1>3, QueueHead DEF Enter, WaitingAt, PlainTypes
  <2>2. QED
    BY <1>3, <2>1 DEF Enter, analysisVars, Moves, Stage
<1>4. CASE Send(f)
  <2>1. stage[f] = "WAITING"
    BY <1>1, <1>4, QueueHead DEF Send, WaitingAt, PlainTypes
  <2>2. QED
    BY <1>4, <2>1 DEF Send, analysisVars, Moves, Stage
<1>5. CASE Fails(f)
  <2>1. PICK code \in ProviderReason : Fail(f, code)
    BY <1>5 DEF Fails
  <2>2. CASE outcome[f.analysis] = "COLLECTING"
    BY <1>5, <2>1, <2>2 DEF Fails, Fail, Abstain, Moves, Stage
  <2>3. CASE outcome[f.analysis] # "COLLECTING"
    BY <1>5, <2>1, <2>3 DEF Fails, Fail, Moves, Stage
  <2>4. QED
    BY <2>2, <2>3
<1>6. CASE Pauses(f)
  BY <1>6 DEF Pauses, analysisVars, Moves, Stage
<1>7. CASE ReceiveUndecodable(f)
  <2>1. CASE outcome[f.analysis] = "COLLECTING"
    BY <1>1, <1>2, <1>7, <2>1, FetchFields DEF ReceiveUndecodable, Moves, Stage, PlainTypes
  <2>2. CASE outcome[f.analysis] # "COLLECTING"
    <3>1. outcome' = outcome
      BY <1>1, <1>7, <2>2 DEF ReceiveUndecodable, PlainTypes
    <3>2. QED
      BY <1>7, <3>1 DEF ReceiveUndecodable, Moves, Stage
  <2>3. QED
    BY <2>1, <2>2
<1>8. CASE Retry(f)
  BY <1>8 DEF Retry, analysisVars, Moves, Stage
<1>9. CASE \E rows \in Payload : Stores(f, SeriesOf(f, rows))
  BY <1>9 DEF Stores, analysisVars, Moves, Stage
<1>10. QED
  BY <1>3, <1>4, <1>5, <1>6, <1>7, <1>8, <1>9 DEF FetchStep

\* What a fetch does to the two queues.
LEMMA FetchQueues ==
  ASSUME CoreInv, NEW f \in Fetch, FetchStep(f)
  PROVE  /\ collectorQueue' \in Seq(Fetch) /\ providerQueue' \in Seq(Fetch)
         /\ WaitingAt(collectorQueue, "QUEUED")' /\ WaitingAt(providerQueue, "WAITING")'
<1>1. /\ PlainTypes
      /\ WaitingAt(collectorQueue, "QUEUED") /\ WaitingAt(providerQueue, "WAITING")
      /\ collectorQueue \in Seq(Fetch) /\ providerQueue \in Seq(Fetch)
  BY DEF CoreInv, PlainTypes
<1>2. PICK v \in Stage : stage' = [stage EXCEPT ![f] = v] /\ <<stage[f], v>> \in Moves
  BY FetchMoves
<1>3. CASE Enter(f)
  <2>1. /\ collectorQueue # <<>> /\ f = Head(collectorQueue)
        /\ collectorQueue' = Tail(collectorQueue) /\ stage[f] = "QUEUED"
    BY <1>1, <1>3, QueueHead DEF Enter, WaitingAt
  <2>2. collectorQueue' \in Seq(Fetch) /\ WaitingAt(collectorQueue, "QUEUED")'
    BY <1>1, <1>2, <2>1, QueueHead, QueueShrinks DEF WaitingAt
  <2>3. \/ providerQueue' = providerQueue
        \/ providerQueue' = Append(providerQueue, f) /\ v = "WAITING"
    <3>1. stage'[f] = v
      BY <1>1, <1>2 DEF PlainTypes
    <3>2. \/ stage' = [stage EXCEPT ![f] = "DONE"] /\ providerQueue' = providerQueue
          \/ stage' = [stage EXCEPT ![f] = "WAITING"] /\ providerQueue' = Append(providerQueue, f)
      BY <1>3 DEF Enter
    <3>3. QED
      BY <1>1, <3>1, <3>2 DEF PlainTypes
  <2>4. providerQueue' \in Seq(Fetch) /\ WaitingAt(providerQueue, "WAITING")'
    <3>1. CASE providerQueue' = providerQueue
      BY <1>1, <1>2, <2>1, <3>1, QueueUntouched DEF WaitingAt
    <3>2. CASE providerQueue' = Append(providerQueue, f) /\ v = "WAITING"
      <4>1. stage' = [stage EXCEPT ![f] = "WAITING"] /\ stage[f] # "WAITING"
        BY <1>2, <2>1, <3>2
      <4>2. /\ Append(providerQueue, f) \in Seq(Fetch)
            /\ \A k \in DOMAIN Append(providerQueue, f) :
                  stage'[Append(providerQueue, f)[k]] = "WAITING"
            /\ \A j, k \in DOMAIN Append(providerQueue, f) :
                  Append(providerQueue, f)[j] = Append(providerQueue, f)[k] => j = k
        BY <1>1, <4>1, QueueGrows
      <4>3. QED
        BY <3>2, <4>2 DEF WaitingAt
    <3>3. QED
      BY <2>3, <3>1, <3>2
  <2>5. QED
    BY <2>2, <2>4
<1>4. CASE Send(f)
  <2>1. /\ providerQueue # <<>> /\ f = Head(providerQueue)
        /\ providerQueue' = Tail(providerQueue) /\ stage[f] = "WAITING"
        /\ collectorQueue' = collectorQueue
    BY <1>1, <1>4, QueueHead DEF Send, WaitingAt
  <2>2. providerQueue' \in Seq(Fetch) /\ WaitingAt(providerQueue, "WAITING")'
    BY <1>1, <1>2, <2>1, QueueHead, QueueShrinks DEF WaitingAt
  <2>3. WaitingAt(collectorQueue, "QUEUED")'
    BY <1>1, <1>2, <2>1, QueueUntouched DEF WaitingAt
  <2>4. QED
    BY <1>1, <2>1, <2>2, <2>3
<1>5. CASE Fails(f) \/ Pauses(f) \/ ReceiveUndecodable(f) \/ Retry(f)
           \/ \E rows \in Payload : Stores(f, SeriesOf(f, rows))
  <2>1. collectorQueue' = collectorQueue /\ providerQueue' = providerQueue
    BY <1>5 DEF Fails, Fail, Pauses, ReceiveUndecodable, Retry, Stores, Leave, slotVars
  <2>2. stage[f] # "QUEUED" /\ stage[f] # "WAITING"
    BY <1>5 DEF Fails, Pauses, ReceiveUndecodable, Retry, Stores
  <2>3. WaitingAt(collectorQueue, "QUEUED")'
    BY <1>1, <1>2, <2>1, <2>2, QueueUntouched DEF WaitingAt
  <2>4. WaitingAt(providerQueue, "WAITING")'
    BY <1>1, <1>2, <2>1, <2>2, QueueUntouched DEF WaitingAt
  <2>5. QED
    BY <1>1, <2>1, <2>3, <2>4
<1>6. QED
  BY <1>3, <1>4, <1>5 DEF FetchStep

\* Attempts are counted from one, up to the limit.
LEMMA FetchAttempts ==
  ASSUME CoreInv, NEW f \in Fetch, FetchStep(f)
  PROVE  /\ attempt' \in [Fetch -> 0..MaxAttempts]
         /\ \A g \in Fetch : stage'[g] = "SLEEP" => attempt'[g] < MaxAttempts
<1>1. attempt \in [Fetch -> 0..MaxAttempts] /\ stage \in [Fetch -> Stage]
      /\ \A g \in Fetch : stage[g] = "SLEEP" => attempt[g] < MaxAttempts
  BY DEF CoreInv, PlainTypes, Progressing
<1>2. MaxAttempts \in Nat \ {0}
  BY Settings
<1>3. CASE Send(f)
  BY <1>1, <1>2, <1>3 DEF Send
<1>4. CASE Retry(f)
  BY <1>1, <1>2, <1>4 DEF Retry
<1>5. CASE Pauses(f)
  BY <1>1, <1>2, <1>5 DEF Pauses
<1>6. CASE Enter(f) \/ Fails(f) \/ ReceiveUndecodable(f)
           \/ \E rows \in Payload : Stores(f, SeriesOf(f, rows))
  <2>1. attempt' = attempt
    BY <1>6 DEF Enter, Fails, Fail, ReceiveUndecodable, Stores
  <2>2. \E v \in Stage : stage' = [stage EXCEPT ![f] = v] /\ v # "SLEEP"
    <3>1. \E v \in {"DONE", "WAITING", "FAILED"} : stage' = [stage EXCEPT ![f] = v]
      BY <1>6 DEF Enter, Fails, Fail, ReceiveUndecodable, Stores
    <3>2. QED
      BY <3>1 DEF Stage
  <2>3. QED
    BY <1>1, <2>1, <2>2
<1>7. QED
  BY <1>3, <1>4, <1>5, <1>6 DEF FetchStep

\* A step of a fetch keeps CoreInv.
LEMMA FetchCore ==
  ASSUME CoreInv, NEW f \in Fetch, FetchStep(f)
  PROVE  CoreInv'
<1>1. PlainTypes /\ Progressing
  BY DEF CoreInv
<1>2. asOf' = asOf
  BY FetchMoves
<1>3. PICK v \in Stage : stage' = [stage EXCEPT ![f] = v] /\ <<stage[f], v>> \in Moves
  BY FetchMoves
<1>4. f.analysis \in Analysis
  BY FetchFields
<1>5. outcome' \in [Analysis -> {"NEW", "COLLECTING", "ANALYSED", "ABSTAIN", "RAISED"}]
  <2>1. CASE outcome' = outcome
    BY <1>1, <2>1 DEF PlainTypes
  <2>2. CASE \E o \in {"ABSTAIN", "RAISED"} : outcome' = [outcome EXCEPT ![f.analysis] = o]
    BY <1>1, <1>4, <2>2 DEF PlainTypes
  <2>3. QED
    BY <2>1, <2>2, FetchMoves
<1>6. reason' \in [Analysis -> ProviderReason \cup QualityReason \cup {"NONE"}]
  <2>1. CASE reason' = reason
    BY <1>1, <2>1 DEF PlainTypes
  <2>2. CASE \E code \in ProviderReason : reason' = [reason EXCEPT ![f.analysis] = code]
    BY <1>1, <1>4, <2>2 DEF PlainTypes
  <2>3. QED
    BY <2>1, <2>2, FetchMoves
<1>7. collectorFree' \in Int /\ providerFree' \in Int
  BY <1>1 DEF FetchStep, Enter, Send, Fails, Fail, Pauses, ReceiveUndecodable, Retry, Stores,
              Leave, slotVars, PlainTypes
<1>8. PlainTypes'
  <2>1. result' = result \/ \E s : result' = [result EXCEPT ![f] = s]
    BY DEF FetchStep, Enter, Send, Fails, Fail, Pauses, ReceiveUndecodable, Retry, Stores
  <2>2. result' = [g \in Fetch |-> result'[g]]
    BY <1>1, <2>1 DEF PlainTypes
  <2>3. stage' \in [Fetch -> Stage]
    BY <1>1, <1>3 DEF PlainTypes
  <2>4. QED
    BY <1>1, <1>2, <1>5, <1>6, <1>7, <2>2, <2>3, FetchQueues, FetchAttempts DEF PlainTypes
<1>9. ASSUME NEW g \in Fetch
      PROVE  /\ stage'[g] # "IDLE" => outcome'[g.analysis] # "NEW" /\ asOf'[g.analysis] \in Cutoff
             /\ outcome'[g.analysis] = "ANALYSED" => stage'[g] = "DONE"
  <2>1. \A h \in Fetch : h.analysis \in Analysis
    BY FetchFields
  <2>2. stage[f] # "IDLE" /\ stage[f] # "DONE"
    BY <1>3 DEF Moves
  <2>3. /\ outcome[f.analysis] # "NEW" /\ outcome[f.analysis] # "ANALYSED"
        /\ asOf[f.analysis] \in Cutoff
    BY <1>1, <2>2 DEF Progressing
  <2>4. \A a \in Analysis : /\ outcome'[a] = "NEW" => outcome[a] = "NEW"
                            /\ outcome'[a] = "ANALYSED" => outcome[a] = "ANALYSED"
    BY <1>1, <2>1, FetchMoves DEF PlainTypes
  <2>5. CASE g = f
    BY <1>2, <2>1, <2>3, <2>4, <2>5
  <2>6. CASE g # f
    <3>1. stage'[g] = stage[g]
      BY <1>1, <1>3, <2>6 DEF PlainTypes
    <3>2. QED
      BY <1>1, <1>2, <2>1, <2>4, <3>1 DEF Progressing
  <2>7. QED
    BY <2>5, <2>6
<1>10. Progressing'
  BY <1>9, FetchAttempts DEF Progressing
<1>11. QED
  BY <1>8, <1>10, FetchQueues DEF CoreInv

\* CoreInv is inductive.
LEMMA CoreStep == ASSUME CoreInv, [Next]_vars PROVE CoreInv'
<1>1. CASE UNCHANGED vars
  BY <1>1 DEF CoreInv, PlainTypes, WaitingAt, Progressing, vars, analysisVars, fetchVars, slotVars
<1>2. CASE \E a \in Analysis : StartAnalysis(a) \/ RefuseTask(a) \/ Conclude(a)
  BY <1>2, StartCore, AnalysisCore
<1>3. CASE \E f \in Fetch : FetchStep(f)
  BY <1>3, FetchCore
<1>4. QED
  BY <1>1, <1>2, <1>3, Steps

\* CoreInv holds in every reachable state.
LEMMA CoreAlways == Spec => []CoreInv
BY CoreInit, CoreStep, PTL DEF Spec

\* What an analysis reported is final (service.py:50): a step that could rewrite
\* its outcome, reason or data belongs to a fetch that is under way or to an
\* analysis that is collecting.
THEOREM ReportsAreFinal == Spec => ReportIsFinal
<1> DEFINE Final ==
      \A a \in Analysis : outcome[a] \in {"ANALYSED", "ABSTAIN", "RAISED"} =>
          /\ outcome'[a] = outcome[a]
          /\ reason'[a] = reason[a]
          /\ outcome[a] = "ANALYSED" => \A i \in Request :
                LET f == [analysis |-> a, request |-> i] IN result'[f] = result[f]
<1>1. ASSUME CoreInv, [Next]_vars PROVE [Final]_vars
  <2>1. PlainTypes /\ Progressing
    BY <1>1 DEF CoreInv
  <2>2. CASE \E a \in Analysis : StartAnalysis(a) \/ RefuseTask(a) \/ Conclude(a)
    <3>1. PICK a \in Analysis : StartAnalysis(a) \/ RefuseTask(a) \/ Conclude(a)
      BY <2>2
    <3>2. /\ outcome[a] \in {"NEW", "COLLECTING"} /\ result' = result
          /\ \E o : outcome' = [outcome EXCEPT ![a] = o]
          /\ reason' = reason \/ \E r : reason' = [reason EXCEPT ![a] = r]
      BY <3>1 DEF StartAnalysis, RefuseTask, Conclude, Abstain, fetchVars
    <3>3. QED
      BY <2>1, <3>2 DEF PlainTypes
  <2>3. CASE \E f \in Fetch : FetchStep(f)
    <3>1. PICK f \in Fetch : FetchStep(f)
      BY <2>3
    <3>2. /\ stage[f] # "IDLE" /\ stage[f] # "DONE"
      BY <1>1, <3>1, FetchMoves DEF Moves
    <3>3. result' = result \/ \E v : result' = [result EXCEPT ![f] = v]
      BY <3>1 DEF FetchStep, Enter, Send, Fails, Fail, Pauses, ReceiveUndecodable, Retry, Stores
    <3>4. ASSUME NEW a \in Analysis, outcome[a] \in {"ANALYSED", "ABSTAIN", "RAISED"}
          PROVE  outcome'[a] = outcome[a] /\ reason'[a] = reason[a]
      BY <1>1, <2>1, <3>1, <3>4, FetchMoves DEF PlainTypes
    <3>5. ASSUME NEW a \in Analysis, outcome[a] = "ANALYSED", NEW i \in Request
          PROVE  result'[[analysis |-> a, request |-> i]] = result[[analysis |-> a, request |-> i]]
      <4>1. stage[[analysis |-> a, request |-> i]] = "DONE"
        BY <2>1, <3>5, FetchFields DEF Progressing
      <4>2. [analysis |-> a, request |-> i] # f
        BY <3>2, <4>1
      <4>3. QED
        BY <2>1, <3>3, <4>2, FetchFields DEF PlainTypes
    <3>6. QED
      BY <3>4, <3>5
  <2>4. QED
    BY <1>1, <2>2, <2>3, Steps
<1>2. QED
  BY <1>1, CoreAlways, PTL DEF Spec, ReportIsFinal
-----------------------------------------------------------------------------
(* The cache *)

\* What an entry holds: the series its key names, without bars after the cutoff.
Faithful(e) ==
    /\ e.value \in Series /\ Closed(e.value)
    /\ e.key = <<e.value.request, e.value.as_of>>

CacheFacts ==
    /\ cache \in Seq(Entry)
    /\ \A n \in DOMAIN cache : Faithful(cache[n])

\* put stores the entry, keeps the others or loses the oldest, and stays in bounds.
LEMMA PutKeeps ==
  ASSUME cache \in Seq(Entry), CacheBounded,
         NEW key \in Request \X Cutoff, NEW value \in Series, NEW clock \in Nat,
         Put(key, value, clock)
  PROVE  /\ cache' \in Seq(Entry)
         /\ CacheBounded'
         /\ \A n \in DOMAIN cache' :
               \/ cache'[n] = [key |-> key, value |-> value, expires_at |-> clock + CacheTtl * Second]
               \/ \E m \in DOMAIN cache : cache'[n] = cache[m]
<1> DEFINE entry == [key |-> key, value |-> value, expires_at |-> clock + CacheTtl * Second]
<1>1. /\ entry \in Entry /\ entry.key = key /\ MaxEntries \in Nat \ {0}
      /\ Len(cache) \in Nat /\ DOMAIN cache = 1..Len(cache)
      /\ \A n \in DOMAIN cache : cache[n] \in Entry
  <2>1. clock + CacheTtl * Second \in Nat /\ MaxEntries \in Nat \ {0}
    BY Settings
  <2>2. entry \in Entry /\ entry.key = key
    BY <2>1 DEF Entry
  <2>3. /\ Len(cache) \in Nat /\ DOMAIN cache = 1..Len(cache)
        /\ \A n \in DOMAIN cache : cache[n] \in Entry
    OBVIOUS
  <2>4. QED
    BY <2>1, <2>2, <2>3
<1>2. /\ Len(cache) <= MaxEntries
      /\ \A m, n \in DOMAIN cache : cache[m].key = cache[n].key => m = n
  BY DEF CacheBounded
<1> HIDE DEF entry
<1>3. CASE \E n \in DOMAIN cache : cache[n].key = key
  <2>1. cache' = [n \in DOMAIN cache |-> IF cache[n].key = key THEN entry ELSE cache[n]]
    BY <1>3 DEF Put, entry
  <2>2. cache' \in [1..Len(cache) -> Entry]
    BY <1>1, <2>1
  <2>3. cache' \in Seq(Entry) /\ Len(cache') = Len(cache) /\ DOMAIN cache' = DOMAIN cache
    BY <1>1, <2>2
  <2>4. \A n \in DOMAIN cache : cache'[n].key = cache[n].key
    BY <1>1, <2>1
  <2>5. CacheBounded'
    BY <1>2, <2>3, <2>4 DEF CacheBounded
  <2>6. \A n \in DOMAIN cache' : cache'[n] = entry \/ cache'[n] = cache[n]
    BY <2>1
  <2>7. QED
    BY <2>3, <2>5, <2>6 DEF entry
<1>4. CASE ~\E n \in DOMAIN cache : cache[n].key = key
  <2> DEFINE base == IF Len(cache) >= MaxEntries THEN Tail(cache) ELSE cache
  <2>1. cache' = Append(base, entry)
    BY <1>4 DEF Put, entry
  <2>2. PICK d \in {0, 1} :
           /\ base \in Seq(Entry) /\ Len(base) \in Nat /\ Len(base) + 1 <= MaxEntries
           /\ \A n \in 1..Len(base) : base[n] = cache[n + d] /\ n + d \in DOMAIN cache
    <3>1. CASE Len(cache) >= MaxEntries
      <4>1. cache # <<>> /\ base = Tail(cache)
        BY <1>1, <3>1
      <4>2. /\ Tail(cache) \in Seq(Entry) /\ Len(Tail(cache)) = Len(cache) - 1
            /\ \A n \in 1..(Len(cache) - 1) : Tail(cache)[n] = cache[n + 1]
        BY <4>1
      <4>3. Len(cache) = MaxEntries /\ Len(cache) - 1 \in Nat
        <5>1. /\ Len(cache) \in Nat /\ MaxEntries \in Nat /\ MaxEntries # 0
              /\ Len(cache) <= MaxEntries
          BY <1>1, <1>2
        <5> HIDE DEF base
        <5>2. QED
          BY <3>1, <5>1
      <4>4. base \in Seq(Entry) /\ Len(base) = Len(cache) - 1
        BY <4>1, <4>2
      <4>5. ASSUME NEW n \in 1..Len(base)
            PROVE  base[n] = cache[n + 1] /\ n + 1 \in DOMAIN cache
        <5>1. n \in 1..(Len(cache) - 1)
          BY <4>4
        <5>2. base[n] = cache[n + 1]
          BY <4>1, <4>2, <5>1
        <5>3. n + 1 \in DOMAIN cache
          BY <1>1, <5>1
        <5>4. QED
          BY <5>2, <5>3
      <4>6. Len(base) \in Nat /\ Len(base) + 1 <= MaxEntries
        BY <4>3, <4>4, <1>1
      <4> HIDE DEF base
      <4>7. QED
        BY <4>4, <4>5, <4>6
    <3>2. CASE ~(Len(cache) >= MaxEntries)
      <4>1. base = cache
        BY <3>2
      <4>2. QED
        BY <1>1, <3>2, <4>1
    <3>3. QED
      BY <3>1, <3>2
  <2> HIDE DEF base
  <2>3. /\ cache' \in Seq(Entry) /\ Len(cache') = Len(base) + 1
        /\ DOMAIN cache' = 1..(Len(base) + 1)
        /\ cache'[Len(base) + 1] = entry
        /\ \A n \in 1..Len(base) : cache'[n] = base[n]
    BY <1>1, <2>1, <2>2
  <2>4. ASSUME NEW n \in DOMAIN cache'
        PROVE  \/ n = Len(base) + 1 /\ cache'[n] = entry
               \/ n \in 1..Len(base) /\ cache'[n] = cache[n + d] /\ n + d \in DOMAIN cache
    BY <2>2, <2>3
  <2>5. \A m, n \in DOMAIN cache' : cache'[m].key = cache'[n].key => m = n
    <3>1. ASSUME NEW m \in DOMAIN cache', NEW n \in DOMAIN cache', cache'[m].key = cache'[n].key
          PROVE  m = n
      <4>1. \/ m = Len(base) + 1 /\ cache'[m] = entry
            \/ m \in 1..Len(base) /\ cache'[m] = cache[m + d] /\ m + d \in DOMAIN cache
        BY <2>4
      <4>2. \/ n = Len(base) + 1 /\ cache'[n] = entry
            \/ n \in 1..Len(base) /\ cache'[n] = cache[n + d] /\ n + d \in DOMAIN cache
        BY <2>4
      <4>3. CASE m \in 1..Len(base) /\ n \in 1..Len(base)
        <5>1. cache[m + d].key = cache[n + d].key /\ m + d \in DOMAIN cache /\ n + d \in DOMAIN cache
          BY <2>2, <3>1, <4>1, <4>2, <4>3
        <5>2. m + d = n + d
          BY <1>2, <5>1
        <5>3. QED
          BY <2>2, <4>3, <5>2
      <4>4. CASE ~(m \in 1..Len(base) /\ n \in 1..Len(base))
        BY <1>1, <1>4, <3>1, <4>1, <4>2, <4>4
      <4>5. QED
        BY <4>3, <4>4
    <3>2. QED
      BY <3>1
  <2>6. CacheBounded'
    BY <2>2, <2>3, <2>5 DEF CacheBounded
  <2>7. QED
    BY <2>3, <2>4, <2>6 DEF entry
<1>5. QED
  BY <1>3, <1>4

\* Dropping an expired entry keeps the others.
LEMMA WithoutKeeps ==
  ASSUME cache \in Seq(Entry), CacheBounded, NEW key, cache' = Without(key)
  PROVE  /\ cache' \in Seq(Entry)
         /\ CacheBounded'
         /\ \A n \in DOMAIN cache' : \E m \in DOMAIN cache : cache'[n] = cache[m]
<1>1. /\ Len(cache) \in Nat /\ DOMAIN cache = 1..Len(cache)
      /\ \A n \in DOMAIN cache : cache[n] \in Entry
      /\ Len(cache) <= MaxEntries /\ MaxEntries \in Nat
      /\ \A m, n \in DOMAIN cache : cache[m].key = cache[n].key => m = n
  BY Settings DEF CacheBounded
<1>2. CASE \E n \in DOMAIN cache : cache[n].key = key
  <2> DEFINE n == CHOOSE n \in DOMAIN cache : cache[n].key = key
  <2>1. n \in 1..Len(cache)
    BY <1>1, <1>2
  <2>2. cache' = [m \in 1..(Len(cache) - 1) |-> cache[IF m < n THEN m ELSE m + 1]]
    BY <1>2 DEF Without
  <2> HIDE DEF n
  <2> DEFINE From(m) == IF m < n THEN m ELSE m + 1
  <2>3. \A m \in 1..(Len(cache) - 1) : From(m) \in DOMAIN cache
    BY <1>1, <2>1
  <2>4. \A l, m \in 1..(Len(cache) - 1) : From(l) = From(m) => l = m
    BY <1>1, <2>1
  <2>5. \A m \in 1..(Len(cache) - 1) : cache'[m] = cache[From(m)]
    BY <2>2
  <2>6. cache' \in [1..(Len(cache) - 1) -> Entry] /\ Len(cache) - 1 \in Nat
    BY <1>1, <2>1, <2>2, <2>3
  <2>7. /\ cache' \in Seq(Entry) /\ Len(cache') = Len(cache) - 1
        /\ DOMAIN cache' = 1..(Len(cache) - 1)
    BY <2>6
  <2> HIDE DEF From
  <2>8. CacheBounded'
    <3>1. Len(cache') <= MaxEntries
      BY <1>1, <2>7
    <3>2. \A l, m \in DOMAIN cache' : cache'[l].key = cache'[m].key => l = m
      BY <1>1, <2>3, <2>4, <2>5, <2>7
    <3>3. QED
      BY <3>1, <3>2 DEF CacheBounded
  <2>9. QED
    BY <2>3, <2>5, <2>7, <2>8
<1>3. CASE ~\E n \in DOMAIN cache : cache[n].key = key
  <2>1. cache' = cache
    BY <1>3 DEF Without
  <2>2. QED
    BY <2>1 DEF CacheBounded
<1>4. QED
  BY <1>2, <1>3

\* A hit returns the value of an entry with the key.
LEMMA HitReturnsEntry ==
  ASSUME NEW key, NEW clock, Cached(key, clock)
  PROVE  \E m \in DOMAIN cache : cache[m].key = key /\ CachedValue(key) = cache[m].value
<1>1. \E e \in {cache[n] : n \in DOMAIN cache} : e.key = key
  BY DEF Cached
<1>2. PICK e \in {cache[n] : n \in DOMAIN cache} : e.key = key /\ CachedValue(key) = e.value
  BY <1>1 DEF CachedValue
<1>3. QED
  BY <1>2

\* The series of a fetch that returned is the one it asked for, at its analysis's
\* cutoff, without bars after it.
ResultFacts ==
    \A f \in Fetch :
        /\ result[f] \in Series \cup {NoSeries}
        /\ stage[f] = "DONE" =>
              /\ result[f] \in Series /\ Closed(result[f])
              /\ result[f].request = f.request
              /\ result[f].as_of = asOf[f.analysis]

DataInv == CoreInv /\ CacheFacts /\ CacheBounded /\ ResultFacts

\* The system starts with an empty cache and no result.
LEMMA DataInit == Init => DataInv
<1> SUFFICES ASSUME Init PROVE DataInv
  OBVIOUS
<1>1. cache = <<>> /\ MaxEntries \in Nat
  BY Settings DEF Init
<1>2. CacheFacts /\ CacheBounded
  BY <1>1 DEF CacheFacts, CacheBounded
<1>3. ResultFacts
  BY DEF Init, ResultFacts
<1>4. QED
  BY <1>2, <1>3, CoreInit DEF DataInv

\* The cache after a step of a fetch.
LEMMA FetchCache ==
  ASSUME DataInv, NEW f \in Fetch, FetchStep(f)
  PROVE  CacheFacts' /\ CacheBounded'
<1>1. CoreInv /\ PlainTypes /\ Progressing /\ CacheFacts /\ CacheBounded /\ cache \in Seq(Entry)
  BY DEF DataInv, CoreInv, CacheFacts
<1>2. CASE cache' = cache
  BY <1>1, <1>2 DEF CacheFacts, CacheBounded
<1>3. CASE \E key : cache' = Without(key)
  <2>1. PICK key : cache' = Without(key)
    BY <1>3
  <2>2. /\ cache' \in Seq(Entry) /\ CacheBounded'
        /\ \A n \in DOMAIN cache' : \E m \in DOMAIN cache : cache'[n] = cache[m]
    BY <1>1, <2>1, WithoutKeeps
  <2>3. QED
    BY <1>1, <2>2 DEF CacheFacts
<1>4. CASE \E rows \in Payload : Stores(f, SeriesOf(f, rows))
  <2>1. PICK rows \in Payload : Stores(f, SeriesOf(f, rows))
    BY <1>4
  <2> DEFINE v == SeriesOf(f, rows)
  <2> DEFINE c == asOf[f.analysis]
  <2>2. c \in Cutoff /\ c \in Nat /\ f.request \in Request
    BY <1>1, <2>1, Settings, FetchFields DEF Stores, Progressing
  <2>3. v \in Series /\ Closed(v) /\ v.request = f.request /\ v.as_of = c
    BY <2>2, SeriesType
  <2>4. Put(<<f.request, c>>, v, c)
    BY <2>1 DEF Stores, CacheKey
  <2>5. <<f.request, c>> \in Request \X Cutoff
    BY <2>2
  <2> HIDE DEF v, c
  <2>6. /\ cache' \in Seq(Entry) /\ CacheBounded'
        /\ \A n \in DOMAIN cache' :
              \/ cache'[n] = [key |-> <<f.request, c>>, value |-> v, expires_at |-> c + CacheTtl * Second]
              \/ \E m \in DOMAIN cache : cache'[n] = cache[m]
    BY <1>1, <2>2, <2>3, <2>4, <2>5, PutKeeps
  <2>7. Faithful([key |-> <<f.request, c>>, value |-> v, expires_at |-> c + CacheTtl * Second])
    BY <2>3 DEF Faithful
  <2>8. \A n \in DOMAIN cache' : Faithful(cache'[n])
    BY <1>1, <2>6, <2>7 DEF CacheFacts
  <2>9. QED
    BY <2>6, <2>8 DEF CacheFacts
<1>5. QED
  BY <1>2, <1>3, <1>4 DEF FetchStep, Enter, Send, Fails, Fail, Pauses, ReceiveUndecodable, Retry

\* The series a step of a fetch leaves with it is its own.
LEMMA FetchResults ==
  ASSUME DataInv, NEW f \in Fetch, FetchStep(f)
  PROVE  ResultFacts'
<1>1. CoreInv /\ PlainTypes /\ Progressing /\ CacheFacts /\ CacheBounded /\ ResultFacts
  BY DEF DataInv, CoreInv
<1>2. /\ asOf' = asOf
      /\ \E v \in Stage : stage' = [stage EXCEPT ![f] = v] /\ <<stage[f], v>> \in Moves
  BY <1>1, FetchMoves
<1>3. CASE result' = result /\ stage'[f] # "DONE"
  BY <1>1, <1>2, <1>3 DEF ResultFacts, PlainTypes
<1>4. CASE \E v \in Series :
             /\ Closed(v) /\ v.request = f.request /\ v.as_of = asOf[f.analysis]
             /\ result' = [result EXCEPT ![f] = v]
  <2>1. PICK v \in Series :
             /\ Closed(v) /\ v.request = f.request /\ v.as_of = asOf[f.analysis]
             /\ result' = [result EXCEPT ![f] = v]
    BY <1>4
  <2>2. result'[f] = v /\ \A g \in Fetch : g # f => result'[g] = result[g]
    BY <1>1, <2>1 DEF PlainTypes
  <2>3. \A g \in Fetch : g # f => stage'[g] = stage[g]
    BY <1>1, <1>2 DEF PlainTypes
  <2>4. Closed(result'[f])
    BY <2>1, <2>2
  <2>5. ASSUME NEW g \in Fetch
        PROVE  /\ result'[g] \in Series \cup {NoSeries}
               /\ stage'[g] = "DONE" =>
                     /\ result'[g] \in Series /\ Closed(result'[g])
                     /\ result'[g].request = g.request
                     /\ result'[g].as_of = asOf'[g.analysis]
    <3>1. CASE g = f
      BY <1>2, <2>1, <2>2, <2>4, <3>1
    <3>2. CASE g # f
      BY <1>1, <1>2, <2>2, <2>3, <3>2 DEF ResultFacts
    <3>3. QED
      BY <3>1, <3>2
  <2>6. QED
    BY <2>5 DEF ResultFacts
<1>5. CASE Enter(f)
  <2>1. stage[f] = "QUEUED" /\ asOf[f.analysis] \in Cutoff
    <3>1. collectorQueue \in Seq(Fetch) /\ WaitingAt(collectorQueue, "QUEUED")
      BY <1>1 DEF CoreInv, PlainTypes
    <3>2. stage[f] = "QUEUED"
      BY <1>5, <3>1, QueueHead DEF Enter, WaitingAt
    <3>3. QED
      BY <1>1, <3>2 DEF Progressing
  <2> DEFINE c == asOf[f.analysis]
  <2> DEFINE key == CacheKey(f.request, c)
  <2>2. CASE Cached(key, c)
    <3>1. result' = [result EXCEPT ![f] = CachedValue(key)]
      BY <1>5, <2>2 DEF Enter
    <3>2. PICK n \in DOMAIN cache : cache[n].key = key /\ CachedValue(key) = cache[n].value
      BY <2>2, HitReturnsEntry
    <3>3. /\ cache[n].value \in Series /\ Closed(cache[n].value)
          /\ cache[n].key = <<cache[n].value.request, cache[n].value.as_of>>
      BY <1>1 DEF CacheFacts, Faithful
    <3>4. cache[n].value.request = f.request /\ cache[n].value.as_of = c
      BY <3>2, <3>3 DEF CacheKey
    <3> HIDE DEF c, key
    <3>5. QED
      BY <1>4, <3>1, <3>2, <3>3, <3>4 DEF c
  <2>3. CASE ~Cached(key, c)
    <3>1. result' = result /\ stage' = [stage EXCEPT ![f] = "WAITING"]
      BY <1>5, <2>3 DEF Enter
    <3>2. QED
      BY <1>1, <1>3, <3>1 DEF PlainTypes
  <2>4. QED
    BY <2>2, <2>3
<1>6. CASE \E rows \in Payload : Stores(f, SeriesOf(f, rows))
  <2>1. PICK rows \in Payload : Stores(f, SeriesOf(f, rows))
    BY <1>6
  <2>2. asOf[f.analysis] \in Cutoff
    BY <1>1, <2>1 DEF Stores, Progressing
  <2>3. /\ SeriesOf(f, rows) \in Series /\ Closed(SeriesOf(f, rows))
        /\ SeriesOf(f, rows).request = f.request
        /\ SeriesOf(f, rows).as_of = asOf[f.analysis]
    BY <2>2, SeriesType
  <2>4. result' = [result EXCEPT ![f] = SeriesOf(f, rows)]
    BY <2>1 DEF Stores
  <2>5. QED
    BY <1>4, <2>3, <2>4
<1>7. CASE Send(f) \/ Fails(f) \/ Pauses(f) \/ ReceiveUndecodable(f) \/ Retry(f)
  <2>1. result' = result /\ \E v \in {"REQUEST", "FAILED", "SLEEP"} :
                               stage' = [stage EXCEPT ![f] = v]
    BY <1>7 DEF Send, Fails, Fail, Pauses, ReceiveUndecodable, Retry
  <2>2. QED
    BY <1>1, <1>3, <2>1 DEF PlainTypes
<1>8. QED
  BY <1>5, <1>6, <1>7 DEF FetchStep

\* A step of an analysis leaves the cache and its fetches' series alone.
LEMMA AnalysisData ==
  ASSUME DataInv, NEW a \in Analysis, StartAnalysis(a) \/ RefuseTask(a) \/ Conclude(a)
  PROVE  CacheFacts' /\ CacheBounded' /\ ResultFacts'
<1>1. CoreInv /\ PlainTypes /\ Progressing /\ CacheFacts /\ CacheBounded /\ ResultFacts
  BY DEF DataInv, CoreInv
<1>2. cache' = cache /\ result' = result
  BY DEF StartAnalysis, RefuseTask, Conclude, fetchVars
<1>3. CacheFacts' /\ CacheBounded'
  BY <1>1, <1>2 DEF CacheFacts, CacheBounded
<1>4. ASSUME NEW f \in Fetch, stage'[f] = "DONE"
      PROVE  stage[f] = "DONE" /\ asOf'[f.analysis] = asOf[f.analysis]
  <2>1. CASE StartAnalysis(a)
    <3>1. /\ stage'[f] = (IF f.analysis = a THEN "QUEUED" ELSE stage[f])
          /\ \E c \in Cutoff : asOf' = [asOf EXCEPT ![a] = c]
      BY <2>1 DEF StartAnalysis
    <3>2. f.analysis # a /\ stage[f] = "DONE" /\ f.analysis \in Analysis
      BY <1>4, <3>1, FetchFields
    <3>3. QED
      BY <1>1, <3>1, <3>2 DEF PlainTypes
  <2>2. CASE RefuseTask(a) \/ Conclude(a)
    <3>1. stage' = stage /\ asOf' = asOf
      BY <2>2 DEF RefuseTask, Conclude, fetchVars
    <3>2. QED
      BY <1>4, <3>1
  <2>3. QED
    BY <2>1, <2>2
<1>5. ResultFacts'
  BY <1>1, <1>2, <1>4 DEF ResultFacts
<1>6. QED
  BY <1>3, <1>5

\* DataInv is inductive.
LEMMA DataStep == ASSUME DataInv, [Next]_vars PROVE DataInv'
<1>1. CoreInv'
  BY CoreStep DEF DataInv
<1>2. CASE UNCHANGED vars
  <2>1. UNCHANGED <<cache, result, stage, asOf>>
    BY <1>2 DEF vars, analysisVars, fetchVars
  <2>2. CacheFacts' /\ CacheBounded' /\ ResultFacts'
    BY <2>1 DEF DataInv, CacheFacts, CacheBounded, ResultFacts
  <2>3. QED
    BY <1>1, <2>2 DEF DataInv
<1>3. CASE \E a \in Analysis : StartAnalysis(a) \/ RefuseTask(a) \/ Conclude(a)
  BY <1>1, <1>3, AnalysisData DEF DataInv
<1>4. CASE \E f \in Fetch : FetchStep(f)
  BY <1>1, <1>4, FetchCache, FetchResults DEF DataInv
<1>5. QED
  BY <1>2, <1>3, <1>4, Steps

\* DataInv holds in every reachable state.
LEMMA DataAlways == Spec => []DataInv
BY DataInit, DataStep, PTL DEF Spec

\* The cache never grows past max_entries nor holds a key twice, however many
\* fetches of one key miss and store (cache.py:45-50).
THEOREM CacheStaysBounded == Spec => []CacheBounded
<1>1. DataInv => CacheBounded
  BY DEF DataInv
<1>2. QED
  BY <1>1, DataAlways, PTL
-----------------------------------------------------------------------------
(* The gate *)

\* A series of its request and its cutoff, without later bars, is rejected for
\* what the provider sent, if it is rejected.
LEMMA VerdictOnOwnSeries ==
  ASSUME NEW s \in Series, NEW c \in Cutoff, Closed(s), s.as_of = c
  PROVE  /\ Validate(s, s.request, c) \notin {"PROVIDER_MISMATCH", "CUTOFF_MISMATCH", "FUTURE_DATA"}
         /\ Validate(s, s.request, c) \in QualityReason \cup {"VALID"}
<1>1. s.bars \in Seq(Bar) /\ c \in Nat
  BY Settings DEF Series
<1>2. \A j \in 1..Len(s.bars) : ~(s.bars[j].close > c)
  <2>1. ASSUME NEW j \in 1..Len(s.bars) PROVE ~(s.bars[j].close > c)
    <3>1. s.bars[j] \in Bar /\ j \in DOMAIN s.bars
      BY <1>1
    <3>2. s.bars[j].close \in Nat /\ s.bars[j].close <= c
      BY <3>1 DEF Bar, Closed
    <3>3. QED
      BY <1>1, <3>2
  <2>2. QED
    BY <2>1
<1>3. QED
  BY <1>2 DEF Validate, QualityReason

\* No series of another request, of another cutoff or from the future reaches a
\* gate, for any number of analyses and cutoffs sharing the cache
\* (binance.py:92-95, validation.py:17-46).
THEOREM CutoffsStaySeparate == Spec => []CutoffsNeverMixed
<1>1. Init => CutoffsNeverMixed
  BY DEF Init, CutoffsNeverMixed
<1>2. ASSUME DataInv, CutoffsNeverMixed, [Next]_vars PROVE CutoffsNeverMixed'
  <2>1. CoreInv /\ PlainTypes /\ ResultFacts /\ Progressing
    BY <1>2 DEF DataInv, CoreInv
  <2> DEFINE Bad == {"PROVIDER_MISMATCH", "CUTOFF_MISMATCH", "FUTURE_DATA"}
  <2>2. CASE reason' = reason
    BY <1>2, <2>2 DEF CutoffsNeverMixed
  <2>3. CASE \E a \in Analysis : \E code : code \notin Bad /\ reason' = [reason EXCEPT ![a] = code]
    BY <1>2, <2>1, <2>3 DEF CutoffsNeverMixed, PlainTypes
  <2>4. CASE \E f \in Fetch : FetchStep(f)
    <3>1. PICK f \in Fetch : FetchStep(f)
      BY <2>4
    <3>2. \/ reason' = reason
          \/ \E code \in ProviderReason : reason' = [reason EXCEPT ![f.analysis] = code]
      BY <2>1, <3>1, FetchMoves
    <3>3. f.analysis \in Analysis /\ \A code \in ProviderReason : code \notin Bad
      BY FetchFields DEF ProviderReason
    <3>4. QED
      BY <2>2, <2>3, <3>2, <3>3
  <2>5. CASE \E a \in Analysis : StartAnalysis(a) \/ RefuseTask(a) \/ Conclude(a)
    <3>1. PICK a \in Analysis : StartAnalysis(a) \/ RefuseTask(a) \/ Conclude(a)
      BY <2>5
    <3>2. CASE StartAnalysis(a) \/ RefuseTask(a)
      BY <2>2, <3>2 DEF StartAnalysis, RefuseTask
    <3>3. CASE Conclude(a)
      <4>1. CASE reason' = reason
        BY <2>2, <4>1
      <4>2. CASE reason' # reason
        <5> DEFINE F(i) == [analysis |-> a, request |-> i]
        <5>1. PICK i \in Request :
                 reason' = [reason EXCEPT ![a] = Validate(result[F(i)], i, asOf[a])]
          BY <3>3, <4>2 DEF Conclude, Abstain
        <5>2. stage[F(i)] = "DONE"
          BY <3>3 DEF Conclude
        <5>3. F(i) \in Fetch /\ F(i).analysis = a /\ F(i).request = i
          BY FetchFields
        <5>4. asOf[a] \in Cutoff
          BY <2>1, <5>2, <5>3 DEF Progressing
        <5>5. /\ result[F(i)] \in Series /\ Closed(result[F(i)])
              /\ result[F(i)].request = i /\ result[F(i)].as_of = asOf[a]
          BY <2>1, <5>2, <5>3 DEF ResultFacts
        <5> HIDE DEF F
        <5>6. Validate(result[F(i)], i, asOf[a]) \notin Bad
          BY <5>4, <5>5, VerdictOnOwnSeries
        <5>7. QED
          BY <2>3, <5>1, <5>6
      <4>3. QED
        BY <4>1, <4>2
    <3>4. QED
      BY <3>1, <3>2, <3>3
  <2>6. CASE UNCHANGED vars
    BY <2>2, <2>6 DEF vars, analysisVars
  <2>7. QED
    BY <1>2, <2>4, <2>5, <2>6, Steps
<1>3. QED
  BY <1>1, <1>2, DataAlways, PTL DEF Spec
-----------------------------------------------------------------------------
(* The slots *)

AtCollector == {"WAITING", "REQUEST", "SLEEP"}
AtProvider == {"REQUEST", "SLEEP"}

\* The slots a fetch gives back by moving to v, of the semaphore held at s.
Returned(f, v, s) ==
    (IF stage[f] \in s THEN 1 ELSE 0) - (IF v \in s THEN 1 ELSE 0)

\* A fetch that moves changes the count of a set of stages by itself only.
LEMMA HoldingMoves ==
  ASSUME PlainTypes, NEW f \in Fetch, NEW v, stage' = [stage EXCEPT ![f] = v], NEW s
  PROVE  /\ Holding(s) \in Nat /\ Holding(s)' \in Nat
         /\ (v \in s <=> stage[f] \in s) => Holding(s)' = Holding(s)
         /\ v \in s /\ stage[f] \notin s => Holding(s)' = Holding(s) + 1
         /\ v \notin s /\ stage[f] \in s => Holding(s)' + 1 = Holding(s)
<1> DEFINE S == {g \in Fetch : stage[g] \in s}
<1> DEFINE T == {g \in Fetch : stage'[g] \in s}
<1>1. stage'[f] = v /\ \A g \in Fetch : g # f => stage'[g] = stage[g]
  BY DEF PlainTypes
<1>2. IsFiniteSet(S) /\ IsFiniteSet(T)
  BY FetchAssumption, FS_Subset
<1>3. Cardinality(S) \in Nat /\ Cardinality(T) \in Nat
  BY <1>2, FS_CardinalityType
<1>4. Holding(s) = Cardinality(S) /\ Holding(s)' = Cardinality(T)
  BY DEF Holding
<1>5. (v \in s <=> stage[f] \in s) => T = S
  BY <1>1
<1>6. v \in s /\ stage[f] \notin s => T = S \cup {f} /\ f \notin S
  BY <1>1
<1>7. v \notin s /\ stage[f] \in s => S = T \cup {f} /\ f \notin T
  BY <1>1
<1> HIDE DEF S, T
<1>8. f \notin S => Cardinality(S \cup {f}) = Cardinality(S) + 1
  BY <1>2, FS_AddElement
<1>9. f \notin T => Cardinality(T \cup {f}) = Cardinality(T) + 1
  BY <1>2, FS_AddElement
<1>10. QED
  BY <1>3, <1>4, <1>5, <1>6, <1>7, <1>8, <1>9

\* The counts the semaphores depend on, and no semaphore overdrawn.
SlotsInv == CoreInv /\ SlotsConserved /\ collectorFree \in Nat /\ providerFree \in Nat

\* What a fetch does to the free slots, by where it goes.
LEMMA FetchSlots ==
  ASSUME SlotsInv, NEW f \in Fetch, FetchStep(f)
  PROVE  /\ collectorFree' \in Nat /\ providerFree' \in Nat
         /\ SlotsConserved'
<1>1. CoreInv /\ PlainTypes /\ SlotsConserved /\ collectorFree \in Nat /\ providerFree \in Nat
  BY DEF SlotsInv, CoreInv
<1>2. \E v \in Stage : stage' = [stage EXCEPT ![f] = v] /\ <<stage[f], v>> \in Moves
  BY <1>1, FetchMoves
<1>3. /\ CollectorSlots \in Nat /\ ProviderSlots \in Nat
      /\ collectorFree + Holding(AtCollector) = CollectorSlots
      /\ providerFree + Holding(AtProvider) = ProviderSlots
  BY <1>1, Settings DEF SlotsConserved, AtCollector, AtProvider
<1>4. ASSUME NEW v, stage' = [stage EXCEPT ![f] = v],
             collectorFree' = collectorFree + Returned(f, v, AtCollector),
             providerFree' = providerFree + Returned(f, v, AtProvider),
             collectorFree' \in Nat, providerFree' \in Nat
      PROVE  /\ collectorFree' \in Nat /\ providerFree' \in Nat
             /\ SlotsConserved'
  <2>1. /\ Holding(AtCollector) \in Nat /\ Holding(AtCollector)' \in Nat
        /\ (v \in AtCollector <=> stage[f] \in AtCollector)
              => Holding(AtCollector)' = Holding(AtCollector)
        /\ v \in AtCollector /\ stage[f] \notin AtCollector
              => Holding(AtCollector)' = Holding(AtCollector) + 1
        /\ v \notin AtCollector /\ stage[f] \in AtCollector
              => Holding(AtCollector)' + 1 = Holding(AtCollector)
    BY <1>1, <1>4, HoldingMoves
  <2>2. /\ Holding(AtProvider) \in Nat /\ Holding(AtProvider)' \in Nat
        /\ (v \in AtProvider <=> stage[f] \in AtProvider)
              => Holding(AtProvider)' = Holding(AtProvider)
        /\ v \in AtProvider /\ stage[f] \notin AtProvider
              => Holding(AtProvider)' = Holding(AtProvider) + 1
        /\ v \notin AtProvider /\ stage[f] \in AtProvider
              => Holding(AtProvider)' + 1 = Holding(AtProvider)
    BY <1>1, <1>4, HoldingMoves
  <2>3. collectorFree' + Holding(AtCollector)' = CollectorSlots
    BY <1>1, <1>3, <1>4, <2>1 DEF Returned
  <2>4. providerFree' + Holding(AtProvider)' = ProviderSlots
    BY <1>1, <1>3, <1>4, <2>2 DEF Returned
  <2>5. QED
    BY <1>4, <2>3, <2>4 DEF SlotsConserved, AtCollector, AtProvider
<1>5. ASSUME NEW v, stage' = [stage EXCEPT ![f] = v], UNCHANGED <<collectorFree, providerFree>>,
             v \in AtCollector <=> stage[f] \in AtCollector,
             v \in AtProvider <=> stage[f] \in AtProvider
      PROVE  /\ collectorFree' \in Nat /\ providerFree' \in Nat
             /\ SlotsConserved'
  <2>1. Returned(f, v, AtCollector) = 0 /\ Returned(f, v, AtProvider) = 0
    BY <1>5 DEF Returned
  <2>2. /\ collectorFree' = collectorFree + Returned(f, v, AtCollector)
        /\ providerFree' = providerFree + Returned(f, v, AtProvider)
        /\ collectorFree' \in Nat /\ providerFree' \in Nat
    BY <1>1, <1>5, <2>1
  <2>3. QED
    BY <1>4, <1>5, <2>2
<1>6. ASSUME NEW v, stage' = [stage EXCEPT ![f] = v], Leave, stage[f] = "REQUEST",
             v \in {"DONE", "FAILED"}
      PROVE  /\ collectorFree' \in Nat /\ providerFree' \in Nat
             /\ SlotsConserved'
  <2>1. collectorFree' = collectorFree + 1 /\ providerFree' = providerFree + 1
    BY <1>6 DEF Leave
  <2>2. Returned(f, v, AtCollector) = 1 /\ Returned(f, v, AtProvider) = 1
    BY <1>6 DEF Returned, AtCollector, AtProvider
  <2>3. collectorFree' \in Nat /\ providerFree' \in Nat
    BY <1>1, <2>1
  <2>4. QED
    BY <1>4, <1>6, <2>1, <2>2, <2>3
<1>7. CASE Enter(f)
  <2>1. stage[f] = "QUEUED"
    BY <1>1, <1>7, QueueHead DEF Enter, CoreInv, WaitingAt, PlainTypes
  <2>2. CASE stage' = [stage EXCEPT ![f] = "DONE"] /\ UNCHANGED <<collectorFree, providerFree>>
    BY <1>5, <2>1, <2>2 DEF AtCollector, AtProvider
  <2>3. CASE /\ stage' = [stage EXCEPT ![f] = "WAITING"]
             /\ collectorFree' = collectorFree - 1 /\ UNCHANGED providerFree
             /\ collectorFree > 0
    <3>1. /\ Returned(f, "WAITING", AtCollector) = 0 - 1
          /\ Returned(f, "WAITING", AtProvider) = 0
      BY <2>1 DEF Returned, AtCollector, AtProvider
    <3>2. /\ collectorFree' = collectorFree + Returned(f, "WAITING", AtCollector)
          /\ providerFree' = providerFree + Returned(f, "WAITING", AtProvider)
          /\ collectorFree' \in Nat /\ providerFree' \in Nat
      BY <1>1, <2>3, <3>1
    <3>3. QED
      BY <1>4, <2>3, <3>2
  <2>4. QED
    BY <1>7, <2>2, <2>3 DEF Enter
<1>8. CASE Send(f)
  <2>1. stage[f] = "WAITING"
    BY <1>1, <1>8, QueueHead DEF Send, CoreInv, WaitingAt, PlainTypes
  <2>2. /\ Returned(f, "REQUEST", AtCollector) = 0
        /\ Returned(f, "REQUEST", AtProvider) = 0 - 1
    BY <2>1 DEF Returned, AtCollector, AtProvider
  <2>3. /\ stage' = [stage EXCEPT ![f] = "REQUEST"] /\ collectorFree' = collectorFree
        /\ providerFree' = providerFree - 1 /\ providerFree > 0
    BY <1>8 DEF Send
  <2>4. /\ collectorFree' = collectorFree + Returned(f, "REQUEST", AtCollector)
        /\ providerFree' = providerFree + Returned(f, "REQUEST", AtProvider)
        /\ collectorFree' \in Nat /\ providerFree' \in Nat
    BY <1>1, <2>2, <2>3
  <2>5. QED
    BY <1>4, <2>3, <2>4
<1>9. CASE Fails(f)
  BY <1>6, <1>9 DEF Fails, Fail
<1>10. CASE ReceiveUndecodable(f)
  BY <1>6, <1>10 DEF ReceiveUndecodable
<1>11. CASE \E rows \in Payload : Stores(f, SeriesOf(f, rows))
  BY <1>6, <1>11 DEF Stores
<1>12. CASE Pauses(f)
  BY <1>5, <1>12 DEF Pauses, slotVars, AtCollector, AtProvider
<1>13. CASE Retry(f)
  BY <1>5, <1>13 DEF Retry, slotVars, AtCollector, AtProvider
<1>14. QED
  BY <1>7, <1>8, <1>9, <1>10, <1>11, <1>12, <1>13 DEF FetchStep

\* The slots are counted right at the start and by every step.
LEMMA SlotsInit == Init => SlotsInv
<1> SUFFICES ASSUME Init PROVE SlotsInv
  OBVIOUS
<1>1. \A s : "IDLE" \notin s => {f \in Fetch : stage[f] \in s} = {}
  BY DEF Init
<1>2. Holding(AtCollector) = 0 /\ Holding(AtProvider) = 0
  BY <1>1, FS_EmptySet DEF Holding, AtCollector, AtProvider
<1>3. /\ collectorFree = CollectorSlots /\ providerFree = ProviderSlots
      /\ CollectorSlots \in Nat /\ ProviderSlots \in Nat
  BY Settings DEF Init
<1>4. SlotsConserved
  BY <1>2, <1>3 DEF SlotsConserved, AtCollector, AtProvider
<1>5. QED
  BY <1>3, <1>4, CoreInit DEF SlotsInv

\* No slot is lost or doubled by a step.
LEMMA SlotsStep == ASSUME SlotsInv, [Next]_vars PROVE SlotsInv'
<1>1. /\ CoreInv /\ PlainTypes /\ Progressing /\ SlotsConserved
      /\ collectorFree \in Nat /\ providerFree \in Nat
  BY DEF SlotsInv, CoreInv
<1>2. CoreInv'
  BY <1>1, CoreStep
<1>3. ASSUME UNCHANGED <<collectorFree, providerFree>>,
             \A f \in Fetch, s \in {AtCollector, AtProvider} : stage'[f] \in s <=> stage[f] \in s
      PROVE  SlotsInv'
  <2>1. \A s \in {AtCollector, AtProvider} :
           {f \in Fetch : stage'[f] \in s} = {f \in Fetch : stage[f] \in s}
    BY <1>3
  <2>2. Holding(AtCollector)' = Holding(AtCollector) /\ Holding(AtProvider)' = Holding(AtProvider)
    BY <2>1 DEF Holding
  <2>3. SlotsConserved'
    BY <1>1, <1>3, <2>2 DEF SlotsConserved, AtCollector, AtProvider
  <2>4. QED
    BY <1>1, <1>2, <1>3, <2>3 DEF SlotsInv
<1>4. CASE UNCHANGED vars
  BY <1>3, <1>4 DEF vars, fetchVars, slotVars
<1>5. CASE \E a \in Analysis : StartAnalysis(a) \/ RefuseTask(a) \/ Conclude(a)
  <2>1. PICK a \in Analysis : StartAnalysis(a) \/ RefuseTask(a) \/ Conclude(a)
    BY <1>5
  <2>2. UNCHANGED <<collectorFree, providerFree>>
    BY <2>1 DEF StartAnalysis, RefuseTask, Conclude, slotVars
  <2>3. CASE StartAnalysis(a)
    <3>1. ASSUME NEW f \in Fetch
          PROVE  stage'[f] = stage[f] \/ (stage[f] = "IDLE" /\ stage'[f] = "QUEUED")
      <4>1. /\ outcome[a] = "NEW"
            /\ stage'[f] = (IF f.analysis = a THEN "QUEUED" ELSE stage[f])
        BY <2>3 DEF StartAnalysis
      <4>2. stage[f] # "IDLE" => outcome[f.analysis] # "NEW"
        BY <1>1 DEF Progressing
      <4>3. CASE f.analysis = a
        BY <4>1, <4>2, <4>3
      <4>4. CASE f.analysis # a
        BY <4>1, <4>4
      <4>5. QED
        BY <4>3, <4>4
    <3>2. QED
      BY <1>3, <2>2, <3>1 DEF AtCollector, AtProvider
  <2>4. CASE RefuseTask(a) \/ Conclude(a)
    BY <1>3, <2>2, <2>4 DEF RefuseTask, Conclude, fetchVars
  <2>5. QED
    BY <2>1, <2>3, <2>4
<1>6. CASE \E f \in Fetch : FetchStep(f)
  BY <1>2, <1>6, FetchSlots DEF SlotsInv
<1>7. QED
  BY <1>4, <1>5, <1>6, Steps

\* SlotsInv holds in every reachable state.
LEMMA SlotsAlways == Spec => []SlotsInv
BY SlotsInit, SlotsStep, PTL DEF Spec

\* No path through a fetch loses or duplicates a slot, for any number of slots,
\* attempts, analyses and fetches (service.py:47, binance.py:213).
THEOREM SlotsAreConserved == Spec => []SlotsConserved
<1>1. SlotsInv => SlotsConserved
  BY DEF SlotsInv
<1>2. QED
  BY <1>1, SlotsAlways, PTL

\* The variables keep their types; a semaphore never frees more than it has.
THEOREM TypeCorrect == Spec => []TypeOK
<1>1. ASSUME DataInv, SlotsInv PROVE TypeOK
  <2>1. PlainTypes /\ CacheFacts /\ ResultFacts /\ SlotsConserved
    BY <1>1 DEF DataInv, SlotsInv, CoreInv
  <2>2. collectorFree \in 0..CollectorSlots /\ providerFree \in 0..ProviderSlots
    <3>1. \A s : {f \in Fetch : stage[f] \in s} \subseteq Fetch
      OBVIOUS
    <3>2. \A s : Holding(s) \in Nat
      BY <3>1, FetchAssumption, FS_Subset, FS_CardinalityType DEF Holding
    <3>3. QED
      BY <1>1, <2>1, <3>2, Settings DEF SlotsInv, SlotsConserved
  <2>3. result \in [Fetch -> Series \cup {NoSeries}]
    BY <2>1 DEF PlainTypes, ResultFacts
  <2>4. cache \in Seq([key : Request \X Cutoff, value : Series, expires_at : Nat])
    BY <2>1 DEF CacheFacts, Entry
  <2>5. QED
    BY <2>1, <2>2, <2>3, <2>4 DEF PlainTypes, TypeOK
<1>2. QED
  BY <1>1, DataAlways, SlotsAlways, PTL
-----------------------------------------------------------------------------
(* What the role is promised *)

\* One step more is one interval more.
LEMMA OneMore ==
  ASSUME NEW d \in Nat, NEW j \in Nat
  PROVE  (j + 1) * d = j * d + d /\ j * d \in Int
<1>1. j * d \in Int
  BY SMTT(30)
<1>2. (j + 1) * d = j * d + d
  BY SMTT(30)
<1>3. QED
  BY <1>1, <1>2

\* A difference that is d seconds after truncation is at least d seconds and less
\* than d + 1.
LEMMA Truncated ==
  ASSUME NEW a \in Int, NEW w \in Nat \ {0}, NEW d \in Nat, a \div w = d
  PROVE  a >= d * w /\ a <= d * w + w - 1
BY SMTT(60)

\* Neighbours that are at least least and at most most apart: the same holds of all
\* pairs, times the number of steps between them.
LEMMA Accumulates ==
  ASSUME NEW bars \in Seq(Bar), NEW least \in Nat, NEW most \in Nat,
         \A k \in 1..(Len(bars) - 1) : /\ bars[k + 1].open >= bars[k].open + least
                                      /\ bars[k + 1].open <= bars[k].open + most
  PROVE  \A j, k \in 1..Len(bars) : j < k =>
            /\ bars[k].open >= bars[j].open + (k - j) * least
            /\ bars[k].open <= bars[j].open + (k - j) * most
<1> DEFINE n == Len(bars)
<1> DEFINE Apart(j, m) == /\ bars[j + m].open >= bars[j].open + m * least
                          /\ bars[j + m].open <= bars[j].open + m * most
<1> DEFINE S == {m \in Nat : \A j \in 1..n : j + m <= n => Apart(j, m)}
<1>1. n \in Nat /\ \A k \in 1..n : bars[k].open \in Nat
  <2>1. n \in Nat /\ \A k \in 1..n : bars[k] \in Bar
    OBVIOUS
  <2>2. \A b \in Bar : b.open \in Nat
    BY DEF Bar
  <2>3. QED
    BY <2>1, <2>2
<1>2. \A k \in 1..(n - 1) : /\ bars[k + 1].open >= bars[k].open + least
                            /\ bars[k + 1].open <= bars[k].open + most
  OBVIOUS
<1> HIDE DEF n
<1>3. 0 \in S
  <2>1. SUFFICES ASSUME NEW j \in 1..n PROVE Apart(j, 0)
    OBVIOUS
  <2>2. j + 0 = j /\ 0 * least = 0 /\ 0 * most = 0 /\ bars[j].open \in Nat
    BY <1>1
  <2>3. QED
    BY <2>2
<1>4. ASSUME NEW m \in Nat, m \in S PROVE m + 1 \in S
  <2>1. SUFFICES ASSUME NEW j \in 1..n, j + (m + 1) <= n PROVE Apart(j, m + 1)
    OBVIOUS
  <2>2. j + m \in 1..(n - 1) /\ j + m \in 1..n /\ (j + m) + 1 \in 1..n /\ j + m <= n
    BY <1>1, <2>1
  <2>3. Apart(j, m)
    BY <1>4, <2>2
  <2>4. PICK x : x = bars[j + m].open
    OBVIOUS
  <2>5. PICK y : y = bars[(j + m) + 1].open
    OBVIOUS
  <2>6. y >= x + least /\ y <= x + most /\ x \in Nat /\ y \in Nat /\ bars[j].open \in Nat
    BY <1>1, <1>2, <2>2, <2>4, <2>5
  <2>7. x >= bars[j].open + m * least /\ x <= bars[j].open + m * most
    BY <2>3, <2>4
  <2>8. /\ (m + 1) * least = m * least + least /\ m * least \in Int
        /\ (m + 1) * most = m * most + most /\ m * most \in Int
    BY OneMore
  <2>9. y >= bars[j].open + (m + 1) * least /\ y <= bars[j].open + (m + 1) * most
    BY <2>6, <2>7, <2>8
  <2>10. j + (m + 1) = (j + m) + 1
    BY <1>1
  <2>11. QED
    BY <2>5, <2>9, <2>10
<1> HIDE DEF S
<1>5. Nat \subseteq S
  BY <1>3, <1>4, SetInduction
<1>6. ASSUME NEW j \in 1..n, NEW k \in 1..n, j < k
      PROVE  /\ bars[k].open >= bars[j].open + (k - j) * least
             /\ bars[k].open <= bars[j].open + (k - j) * most
  <2>1. k - j \in Nat /\ j + (k - j) = k /\ j + (k - j) <= n
    BY <1>1, <1>6
  <2>2. k - j \in S
    BY <1>5, <2>1
  <2>3. Apart(j, k - j)
    BY <2>1, <2>2 DEF S
  <2>4. QED
    BY <2>1, <2>3
<1>7. QED
  BY <1>6 DEF n

\* No gap: the bars keep to the interval but for a lateness below one second a step.
LEMMA NoGapIsRegular ==
  ASSUME NEW bars \in Seq(Bar), NEW d \in Nat, ~HasGap(bars, d)
  PROVE  /\ d * Second \in Nat /\ d * Second + Second - 1 \in Nat
         /\ \A j, k \in 1..Len(bars) : j < k =>
              /\ bars[k].open >= bars[j].open + (k - j) * (d * Second)
              /\ bars[k].open <= bars[j].open + (k - j) * (d * Second + Second - 1)
<1> DEFINE least == d * Second
<1> DEFINE most == d * Second + Second - 1
<1>1. Second \in Nat \ {0} /\ least \in Nat
  BY Settings, Multiples
<1>2. most \in Nat
  <2>1. PICK w : w = d * Second
    OBVIOUS
  <2>2. w + Second - 1 \in Nat
    BY <1>1, <2>1
  <2>3. QED
    BY <2>1, <2>2
<1>3. Len(bars) \in Nat /\ \A k \in 1..Len(bars) : bars[k].open \in Nat
  <2>1. Len(bars) \in Nat /\ \A k \in 1..Len(bars) : bars[k] \in Bar
    OBVIOUS
  <2>2. \A b \in Bar : b.open \in Nat
    BY DEF Bar
  <2>3. QED
    BY <2>1, <2>2
<1>4. ASSUME NEW k \in 1..(Len(bars) - 1)
      PROVE  bars[k + 1].open >= bars[k].open + least /\ bars[k + 1].open <= bars[k].open + most
  <2>1. k \in 1..Len(bars) /\ k + 1 \in 1..Len(bars)
    BY <1>3
  <2>2. PICK x \in Nat : x = bars[k].open
    BY <1>3, <2>1
  <2>3. PICK y \in Nat : y = bars[k + 1].open
    BY <1>3, <2>1
  <2>4. (y - x) \div Second = d /\ y - x \in Int
    BY <2>2, <2>3 DEF HasGap
  <2>5. y - x >= least /\ y - x <= most
    BY <1>1, <2>4, Truncated
  <2> HIDE DEF least, most
  <2>6. y >= x + least /\ y <= x + most
    BY <1>1, <1>2, <2>5
  <2>7. QED
    BY <2>2, <2>3, <2>6
<1>5. \A j, k \in 1..Len(bars) : j < k =>
         /\ bars[k].open >= bars[j].open + (k - j) * least
         /\ bars[k].open <= bars[j].open + (k - j) * most
  <2> HIDE DEF least, most
  <2>1. QED
    BY <1>1, <1>2, <1>4, Accumulates
<1>6. QED
  BY <1>1, <1>2, <1>5

\* A series the gate lets through is what the role is promised.
LEMMA ValidIsSound ==
  ASSUME NEW s \in Series, NEW i \in Request, NEW c \in Cutoff, Validate(s, i, c) = "VALID"
  PROVE  Sound(s, i, c)
<1> DEFINE bars == s.bars
<1> DEFINE n == Len(bars)
<1> DEFINE req == RequiredData[i]
<1>1. /\ bars \in Seq(Bar) /\ n \in Nat /\ c \in Nat /\ DOMAIN bars = 1..n
      /\ req.interval \in Nat /\ req.minimum_bars \in Nat \ {0} /\ req.max_age \in Nat
  BY Settings DEF Series
<1>2. /\ s.request = i /\ s.as_of = c
      /\ ~(n < req.minimum_bars)
      /\ ~(\E j \in 1..n : bars[j].close > c)
      /\ ~HasGap(bars, req.interval)
      /\ ~(c > bars[n].close + req.max_age * Second)
  BY DEF Validate
<1>3. \A k \in 1..n : bars[k].close \in Nat
  <2>1. \A k \in 1..n : bars[k] \in Bar
    BY <1>1
  <2>2. \A b \in Bar : b.close \in Nat
    BY DEF Bar
  <2>3. QED
    BY <2>1, <2>2
<1>4. n \in 1..n
  BY <1>1, <1>2
<1>5. \A j, k \in 1..n : j < k =>
         /\ bars[k].open >= bars[j].open + (k - j) * (req.interval * Second)
         /\ bars[k].open <= bars[j].open + (k - j) * (req.interval * Second + Second - 1)
  BY <1>1, <1>2, NoGapIsRegular
<1>6. \A k \in 1..n : bars[k].close <= c
  BY <1>1, <1>2, <1>3
<1>7. n >= req.minimum_bars
  BY <1>1, <1>2
<1>8. c <= bars[n].close + req.max_age * Second
  <2>1. PICK age : age = req.max_age * Second
    OBVIOUS
  <2>2. age \in Nat
    BY <1>1, <2>1, Settings, Multiples
  <2>3. ~(c > bars[n].close + age) => c <= bars[n].close + age
    BY <1>1, <1>3, <1>4, <2>2
  <2>4. QED
    BY <1>2, <2>1, <2>3
<1>9. QED
  BY <1>2, <1>5, <1>6, <1>7, <1>8 DEF Sound

\* A role forms an opinion only on data that the gate guarantees (Sound: no candle
\* is missing, a lateness below one second a step apart), for every definition, any
\* set of responses and any number of analyses, slots and cache entries
\* (collect, service.py:50-60).
THEOREM OpinionsOnSoundData == Spec => []FailClosed
<1> DEFINE F(a, i) == [analysis |-> a, request |-> i]
<1> DEFINE Final ==
      \A a \in Analysis : outcome[a] \in {"ANALYSED", "ABSTAIN", "RAISED"} =>
          /\ outcome'[a] = outcome[a]
          /\ reason'[a] = reason[a]
          /\ outcome[a] = "ANALYSED" => \A i \in Request : result'[F(a, i)] = result[F(a, i)]
<1>1. Init => FailClosed
  BY DEF Init, FailClosed
<1>2. ASSUME DataInv, FailClosed, [Next]_vars, [Final]_vars PROVE FailClosed'
  <2>1. CoreInv /\ PlainTypes /\ ResultFacts /\ Progressing
    BY <1>2 DEF DataInv, CoreInv
  <2>2. CASE UNCHANGED vars
    <3>1. UNCHANGED <<outcome, result, asOf>>
      BY <2>2 DEF vars, analysisVars, fetchVars
    <3>2. QED
      BY <1>2, <3>1 DEF FailClosed
  <2>3. CASE Final /\ (\/ \E a \in Analysis : StartAnalysis(a) \/ RefuseTask(a) \/ Conclude(a)
                       \/ \E f \in Fetch : FetchStep(f))
    <3>1. ASSUME NEW a \in Analysis, outcome[a] = "ANALYSED", NEW i \in Request
          PROVE  Sound(result'[F(a, i)], i, asOf'[a])
      <4>1. asOf'[a] = asOf[a]
        <5>1. CASE \E b \in Analysis : StartAnalysis(b)
          <6>1. PICK b \in Analysis : StartAnalysis(b)
            BY <5>1
          <6>2. outcome[b] = "NEW" /\ \E c : asOf' = [asOf EXCEPT ![b] = c]
            BY <6>1 DEF StartAnalysis
          <6>3. b # a
            BY <3>1, <6>2
          <6>4. QED
            BY <2>1, <6>2, <6>3 DEF PlainTypes
        <5>2. CASE \E b \in Analysis : RefuseTask(b) \/ Conclude(b)
          BY <5>2 DEF RefuseTask, Conclude
        <5>3. CASE \E f \in Fetch : FetchStep(f)
          BY <2>1, <5>3, FetchMoves
        <5>4. QED
          BY <2>3, <5>1, <5>2, <5>3
      <4>2. result'[F(a, i)] = result[F(a, i)]
        BY <2>3, <3>1
      <4>3. Sound(result[F(a, i)], i, asOf[a])
        BY <1>2, <3>1 DEF FailClosed
      <4>4. QED
        BY <4>1, <4>2, <4>3
    <3>2. ASSUME NEW a \in Analysis, outcome[a] # "ANALYSED", outcome'[a] = "ANALYSED",
                 NEW i \in Request
          PROVE  Sound(result'[F(a, i)], i, asOf'[a])
      <4>1. Conclude(a)
        <5>1. CASE \E b \in Analysis : StartAnalysis(b) \/ RefuseTask(b)
          <6>1. \E b \in Analysis, o \in {"COLLECTING", "RAISED"} :
                   outcome' = [outcome EXCEPT ![b] = o]
            BY <5>1 DEF StartAnalysis, RefuseTask
          <6>2. QED
            BY <2>1, <3>2, <6>1 DEF PlainTypes
        <5>2. CASE \E b \in Analysis : Conclude(b)
          <6>1. PICK b \in Analysis : Conclude(b)
            BY <5>2
          <6>2. \E o : outcome' = [outcome EXCEPT ![b] = o]
            BY <6>1 DEF Conclude, Abstain
          <6>3. b = a
            BY <2>1, <3>2, <6>2 DEF PlainTypes
          <6>4. QED
            BY <6>1, <6>3
        <5>3. CASE \E f \in Fetch : FetchStep(f)
          <6>1. PICK f \in Fetch : FetchStep(f)
            BY <5>3
          <6>2. \/ outcome' = outcome
                \/ \E o \in {"ABSTAIN", "RAISED"} : outcome' = [outcome EXCEPT ![f.analysis] = o]
            BY <2>1, <6>1, FetchMoves
          <6>3. QED
            BY <2>1, <3>2, <6>2 DEF PlainTypes
        <5>4. QED
          BY <2>3, <5>1, <5>2, <5>3
      <4>2. /\ stage[F(a, i)] = "DONE" /\ Validate(result[F(a, i)], i, asOf[a]) = "VALID"
            /\ result' = result /\ asOf' = asOf
        <5>1. result' = result /\ asOf' = asOf /\ stage[F(a, i)] = "DONE"
          BY <4>1 DEF Conclude, fetchVars
        <5>2. {j \in Request : Validate(result[F(a, j)], j, asOf[a]) # "VALID"} = {}
          <6>1. outcome' = [outcome EXCEPT ![a] = "ABSTAIN"] => outcome'[a] = "ABSTAIN"
            BY <2>1 DEF PlainTypes
          <6>2. outcome' # [outcome EXCEPT ![a] = "ABSTAIN"]
            BY <3>2, <6>1
          <6>3. QED
            BY <4>1, <6>2 DEF Conclude, Abstain
        <5>3. QED
          BY <5>1, <5>2
      <4>3. F(a, i) \in Fetch /\ F(a, i).analysis = a
        BY FetchFields
      <4>4. result[F(a, i)] \in Series /\ asOf[a] \in Cutoff
        BY <2>1, <4>2, <4>3 DEF ResultFacts, Progressing
      <4> HIDE DEF F
      <4>5. QED
        BY <4>2, <4>4, ValidIsSound
    <3>3. QED
      BY <3>1, <3>2 DEF FailClosed
  <2>4. QED
    BY <1>2, <2>2, <2>3, Steps
<1>3. QED
  BY <1>1, <1>2, DataAlways, ReportsAreFinal, PTL DEF Spec, ReportIsFinal
=============================================================================
