----------------------------- MODULE MarketData -----------------------------
(***************************************************************************)
(* How an analytical agent obtains its market data: the role handler, the  *)
(* collector, the Binance provider with its retries and its cache, and the *)
(* quality gate in front of the role.                                      *)
(*                                                                         *)
(* All analyses of an agent run as coroutines of one process.  A step is   *)
(* what one coroutine does between two awaits that can suspend it.  The    *)
(* cache's lock is never contended (its sections do not await), so a cache *)
(* operation belongs to the step around it.                                *)
(*                                                                         *)
(* An analysis fetches every series its definition requires, all at once:  *)
(* a fetch first takes a slot of the collector, then, unless the cache     *)
(* answers, a slot of the provider, and keeps both over all its attempts   *)
(* and the pauses between them.  The first fetch that fails ends the       *)
(* analysis while the other fetches go on unattended.                      *)
(*                                                                         *)
(* Prices are abstracted to whether a row passes the bar's validators.     *)
(* Times are natural numbers, Second of them to a second: the provider's   *)
(* candle times have milliseconds, which the gap check truncates and the   *)
(* staleness check does not.                                               *)
(***************************************************************************)
EXTENDS Integers, Sequences, FiniteSets

CONSTANTS
    Analysis,         \* executions of the role handler
    Cutoff,           \* values as_of may take
    Second,           \* units of time in a second
    RequiredData,     \* the definition: Seq of [interval, minimum_bars, max_age],
                      \* interval and max_age in seconds
    Payload,          \* well-formed responses: sequences of rows [open, close]
    CollectorSlots, ProviderSlots,      \* the two semaphores' max_concurrency
    MaxAttempts, MaxEntries, CacheTtl,  \* CacheTtl in seconds
    NoSeries          \* a fetch that has no result yet

Request == DOMAIN RequiredData
Fetch == [analysis : Analysis, request : Request]

\* The lower bounds of BinanceProviderSettings and of the collector.
ValidSettings ==
    /\ CollectorSlots \in Nat \ {0} /\ ProviderSlots \in Nat \ {0}
    /\ MaxAttempts \in Nat \ {0} /\ MaxEntries \in Nat \ {0}
    /\ CacheTtl \in Nat \ {0} /\ Second \in Nat \ {0}

\* The lower bounds of RoleDataRequirement.
ValidRequirements ==
    RequiredData \in Seq([interval : Nat \ {0}, minimum_bars : Nat \ {0, 1},
                          max_age : Nat \ {0}])

ASSUME SettingsAssumption == ValidSettings /\ ValidRequirements
ASSUME DataAssumption ==
    /\ Cutoff \subseteq Nat
    /\ Payload \subseteq Seq([open : Nat, close : Nat])
ASSUME FetchAssumption == IsFiniteSet(Fetch)

Bar == [open : Nat, close : Nat]
Series == [request : Request, as_of : Cutoff, bars : Seq(Bar)]
ASSUME NoSeriesAssumption == NoSeries \notin Series

VARIABLES
    asOf,             \* analysis -> its cutoff
    outcome,          \* analysis -> NEW, COLLECTING, ANALYSED, ABSTAIN or RAISED
    reason,           \* analysis -> the reason code it abstained with
    stage,            \* fetch -> where its coroutine stands
    attempt,          \* fetch -> number of the current HTTP attempt
    result,           \* fetch -> the series it returned
    cache,            \* the cache's dict in insertion order: [key, value, expires_at]
    collectorQueue, collectorFree,      \* the collector's semaphore: waiters, free slots
    providerQueue, providerFree         \* the provider's semaphore

analysisVars == <<asOf, outcome, reason>>
fetchVars == <<stage, attempt, result>>
slotVars == <<collectorQueue, collectorFree, providerQueue, providerFree>>
vars == <<analysisVars, fetchVars, cache, slotVars>>
-----------------------------------------------------------------------------
(* The quality gate and the normalisation of a response.  An operator       *)
(* Name_Fault is a faulty variant of Name that the specification never uses. *)

ProviderReason == {"PROVIDER_NON_RETRYABLE", "PROVIDER_RESPONSE_TOO_LARGE",
                   "PROVIDER_SCHEMA_ERROR", "PROVIDER_EMPTY_RESPONSE",
                   "PROVIDER_TIMEOUT", "PROVIDER_ERROR"}
QualityReason == {"PROVIDER_MISMATCH", "CUTOFF_MISMATCH", "INSUFFICIENT_HISTORY",
                  "DUPLICATE_BAR", "NON_MONOTONIC_TIME", "FUTURE_DATA", "DATA_GAP",
                  "DATA_STALE"}

\* validate: two neighbouring bars that are not one interval apart, in whole
\* seconds.  (int() cuts towards zero and \div downwards: the same here, since
\* the check before this one leaves no negative difference.)
HasGap_OffByOne(bars, interval) ==
    \E k \in 1..(Len(bars) - 2) : (bars[k + 1].open - bars[k].open) \div Second # interval
HasGap(bars, interval) ==
    \E k \in 1..(Len(bars) - 1) : (bars[k + 1].open - bars[k].open) \div Second # interval

\* MarketDataValidator.validate: the first check that fails names the reason.
\* (Every request is closed_only, and a bar is closed iff it closes by the
\* cutoff, so OPEN_CANDLE coincides with FUTURE_DATA.)
Validate(s, i, c) ==
    LET bars == s.bars
        n == Len(bars)
        req == RequiredData[i]
    IN  IF s.request # i THEN "PROVIDER_MISMATCH"
        ELSE IF s.as_of # c THEN "CUTOFF_MISMATCH"
        ELSE IF n < req.minimum_bars THEN "INSUFFICIENT_HISTORY"
        ELSE IF \E j, k \in 1..n : j # k /\ bars[j].open = bars[k].open
             THEN "DUPLICATE_BAR"
        ELSE IF \E j, k \in 1..n : j < k /\ bars[j].open > bars[k].open
             THEN "NON_MONOTONIC_TIME"
        ELSE IF \E j \in 1..n : bars[j].close > c THEN "FUTURE_DATA"
        ELSE IF HasGap(bars, req.interval) THEN "DATA_GAP"
        ELSE IF c > bars[n].close + req.max_age * Second THEN "DATA_STALE"
        ELSE "VALID"

\* get_ohlcv: rows still open at the cutoff are skipped, and never validated.
ClosedRows(rows, c) ==
    LET kept[k \in 0..Len(rows)] ==
          IF k = 0 THEN <<>>
          ELSE IF rows[k].close <= c THEN Append(kept[k - 1], rows[k]) ELSE kept[k - 1]
    IN  kept[Len(rows)]

\* get_ohlcv: bars[-minimum_bars:]
LastBars(rows, n) ==
    SubSeq(rows, IF Len(rows) > n THEN Len(rows) - n + 1 ELSE 1, Len(rows))

\* What the bar's validators reject: a row that does not open before it closes.
Malformed(rows) == \E k \in DOMAIN rows : rows[k].open >= rows[k].close
-----------------------------------------------------------------------------
(* The cache *)

\* The instrument, the timeframe and minimum_bars are those of the request.
CacheKey_NoCutoff(i, c) == <<i, CHOOSE any \in Cutoff : TRUE>>
CacheKey(i, c) == <<i, c>>

Cached(key, clock) == \E n \in DOMAIN cache : /\ cache[n].key = key
                                             /\ cache[n].expires_at > clock
CachedValue(key) == (CHOOSE e \in {cache[n] : n \in DOMAIN cache} : e.key = key).value

\* cache.get drops an entry whose time has come.
Without(key) ==
    IF \E n \in DOMAIN cache : cache[n].key = key
    THEN LET n == CHOOSE n \in DOMAIN cache : cache[n].key = key
         IN  [m \in 1..(Len(cache) - 1) |-> cache[IF m < n THEN m ELSE m + 1]]
    ELSE cache

\* cache.put: a new key evicts the oldest entry of a full cache; a known key
\* keeps its place.
Put_NoEviction(key, value, clock) ==
    LET entry == [key |-> key, value |-> value, expires_at |-> clock + CacheTtl * Second]
    IN  IF \E n \in DOMAIN cache : cache[n].key = key
        THEN cache' = [n \in DOMAIN cache |-> IF cache[n].key = key THEN entry ELSE cache[n]]
        ELSE cache' = Append(cache, entry)
Put(key, value, clock) ==
    LET entry == [key |-> key, value |-> value, expires_at |-> clock + CacheTtl * Second]
    IN  IF \E n \in DOMAIN cache : cache[n].key = key
        THEN cache' = [n \in DOMAIN cache |-> IF cache[n].key = key THEN entry ELSE cache[n]]
        ELSE cache' = Append(IF Len(cache) >= MaxEntries THEN Tail(cache) ELSE cache, entry)
-----------------------------------------------------------------------------
Init ==
    /\ asOf = [a \in Analysis |-> 0]
    /\ outcome = [a \in Analysis |-> "NEW"]
    /\ reason = [a \in Analysis |-> "NONE"]
    /\ stage = [f \in Fetch |-> "IDLE"]
    /\ attempt = [f \in Fetch |-> 0]
    /\ result = [f \in Fetch |-> NoSeries]
    /\ cache = <<>>
    /\ collectorQueue = <<>> /\ collectorFree = CollectorSlots
    /\ providerQueue = <<>> /\ providerFree = ProviderSlots

\* analyze up to the gather: one coroutine per request, started in order.  The
\* cutoff is the task's creation time or the one its context asks for.
StartAnalysis(a) ==
    /\ outcome[a] = "NEW"
    /\ \E c \in Cutoff : asOf' = [asOf EXCEPT ![a] = c]
    /\ outcome' = [outcome EXCEPT ![a] = "COLLECTING"]
    /\ stage' = [f \in Fetch |-> IF f.analysis = a THEN "QUEUED" ELSE stage[f]]
    /\ collectorQueue' = collectorQueue \o
          [i \in Request |-> [analysis |-> a, request |-> i]]
    /\ UNCHANGED <<reason, attempt, result, cache, collectorFree, providerQueue,
                   providerFree>>

\* analyze raises before any request: another agent's task, a cutoff that is not
\* an instant or lies in the future, an asset the definition does not cover.
RefuseTask(a) ==
    /\ outcome[a] = "NEW"
    /\ outcome' = [outcome EXCEPT ![a] = "RAISED"]
    /\ UNCHANGED <<asOf, reason, fetchVars, cache, slotVars>>

\* A fetch gets the collector's next slot and asks the cache.
\* The cache's clock is the cutoff itself.
Enter(f) ==
    /\ collectorQueue # <<>> /\ f = Head(collectorQueue)
    /\ collectorFree > 0
    /\ collectorQueue' = Tail(collectorQueue)
    /\ LET c == asOf[f.analysis]
           key == CacheKey(f.request, c)
       IN  \/ /\ Cached(key, c)
              /\ stage' = [stage EXCEPT ![f] = "DONE"]
              /\ result' = [result EXCEPT ![f] = CachedValue(key)]
              /\ UNCHANGED <<cache, collectorFree, providerQueue>>
           \/ /\ ~Cached(key, c)
              /\ cache' = Without(key)
              /\ stage' = [stage EXCEPT ![f] = "WAITING"]
              /\ collectorFree' = collectorFree - 1
              /\ providerQueue' = Append(providerQueue, f)
              /\ UNCHANGED result
    /\ UNCHANGED <<analysisVars, attempt, providerFree>>

\* A fetch gets the provider's next slot and sends its first HTTP request.
Send(f) ==
    /\ providerQueue # <<>> /\ f = Head(providerQueue)
    /\ providerFree > 0
    /\ providerQueue' = Tail(providerQueue)
    /\ providerFree' = providerFree - 1
    /\ stage' = [stage EXCEPT ![f] = "REQUEST"]
    /\ attempt' = [attempt EXCEPT ![f] = 1]
    /\ UNCHANGED <<analysisVars, result, cache, collectorQueue, collectorFree>>

\* A fetch that returns or raises leaves both semaphores.
Leave_KeepsProvider == /\ collectorFree' = collectorFree + 1
                       /\ UNCHANGED <<providerFree, collectorQueue, providerQueue>>
Leave == /\ providerFree' = providerFree + 1
         /\ collectorFree' = collectorFree + 1
         /\ UNCHANGED <<collectorQueue, providerQueue>>

\* _provider_abstention: the analysis ends without an opinion, whoever found out.
Abstain(a, code) ==
    /\ outcome' = [outcome EXCEPT ![a] = "ABSTAIN"]
    /\ reason' = [reason EXCEPT ![a] = code]

\* The fetch fails with a MarketDataError: gather hands the first failure to
\* the analysis, which abstains with its code; later ones find no listener.
Fail_Overwrites(f, code) ==
    /\ stage' = [stage EXCEPT ![f] = "FAILED"]
    /\ Abstain(f.analysis, code)
    /\ Leave
    /\ UNCHANGED <<asOf, attempt, result, cache>>
Fail(f, code) ==
    LET a == f.analysis IN
    /\ stage' = [stage EXCEPT ![f] = "FAILED"]
    /\ IF outcome[a] = "COLLECTING" THEN Abstain(a, code)
       ELSE UNCHANGED <<outcome, reason>>
    /\ Leave
    /\ UNCHANGED <<asOf, attempt, result, cache>>

\* A well-formed response.  The series enters the cache before the quality gate
\* has seen it.
Receive(f, rows) ==
    LET c == asOf[f.analysis]
        closed == ClosedRows(rows, c)
        series == [request |-> f.request, as_of |-> c,
                   bars |-> LastBars(closed, RequiredData[f.request].minimum_bars)]
    IN  /\ stage[f] = "REQUEST"
        /\ IF Malformed(closed) THEN Fail(f, "PROVIDER_SCHEMA_ERROR")
           ELSE IF closed = <<>> THEN Fail(f, "PROVIDER_EMPTY_RESPONSE")
           ELSE /\ stage' = [stage EXCEPT ![f] = "DONE"]
                /\ result' = [result EXCEPT ![f] = series]
                /\ Put(CacheKey(f.request, c), series, c)
                /\ Leave
                /\ UNCHANGED <<analysisVars, attempt>>

\* A 4xx other than 429, a body over the limit, JSON of another shape.
ReceiveUnusable(f) ==
    /\ stage[f] = "REQUEST"
    /\ \E code \in {"PROVIDER_NON_RETRYABLE", "PROVIDER_RESPONSE_TOO_LARGE",
                    "PROVIDER_SCHEMA_ERROR"} : Fail(f, code)

\* A body that is no text at all: json.loads raises UnicodeDecodeError, which is
\* neither JSONDecodeError nor a transport error, so nothing turns it into a
\* MarketDataError and the analysis itself raises.  (So does a time beyond what
\* fromtimestamp can represent, an OverflowError.)
ReceiveUndecodable(f) ==
    LET a == f.analysis IN
    /\ stage[f] = "REQUEST"
    /\ stage' = [stage EXCEPT ![f] = "FAILED"]
    /\ outcome' = [outcome EXCEPT ![a] = IF @ = "COLLECTING" THEN "RAISED" ELSE @]
    /\ Leave
    /\ UNCHANGED <<asOf, reason, attempt, result, cache>>

\* A timeout, a transport error, a redirect, 429 or 5xx: pause, slots in hand, or
\* give up after the last attempt.
AttemptFails_Unbounded(f, code) ==
    /\ stage[f] = "REQUEST"
    /\ stage' = [stage EXCEPT ![f] = "SLEEP"]
    /\ UNCHANGED <<analysisVars, attempt, result, cache, slotVars>>
AttemptFails(f, code) ==
    /\ stage[f] = "REQUEST"
    /\ IF attempt[f] = MaxAttempts
       THEN Fail(f, code)
       ELSE /\ stage' = [stage EXCEPT ![f] = "SLEEP"]
            /\ UNCHANGED <<analysisVars, attempt, result, cache, slotVars>>

Retry_SameAttempt(f) ==
    /\ stage[f] = "SLEEP"
    /\ stage' = [stage EXCEPT ![f] = "REQUEST"]
    /\ UNCHANGED <<analysisVars, attempt, result, cache, slotVars>>
Retry(f) ==
    /\ stage[f] = "SLEEP"
    /\ stage' = [stage EXCEPT ![f] = "REQUEST"]
    /\ attempt' = [attempt EXCEPT ![f] = @ + 1]
    /\ UNCHANGED <<analysisVars, result, cache, slotVars>>

\* gather returns: the gate judges the series in the definition's order, and the
\* first one it rejects makes the analysis abstain; the role sees the bundle
\* only when it rejects none.
Conclude(a) ==
    LET Verdict(i) == Validate(result[[analysis |-> a, request |-> i]], i, asOf[a])
        rejected == {i \in Request : Verdict(i) # "VALID"}
    IN  /\ outcome[a] = "COLLECTING"
        /\ \A i \in Request : stage[[analysis |-> a, request |-> i]] = "DONE"
        /\ \/ /\ rejected = {}
              /\ outcome' = [outcome EXCEPT ![a] = "ANALYSED"]
              /\ UNCHANGED reason
           \/ \E i \in rejected :
                 /\ \A j \in rejected : i <= j
                 /\ Abstain(a, Verdict(i))
        /\ UNCHANGED <<asOf, fetchVars, cache, slotVars>>

Respond(f) ==
    \/ \E rows \in Payload : Receive(f, rows)
    \/ ReceiveUnusable(f)
    \/ ReceiveUndecodable(f)
    \/ \E code \in {"PROVIDER_TIMEOUT", "PROVIDER_ERROR"} : AttemptFails(f, code)

Progress(f) == Enter(f) \/ Send(f) \/ Respond(f) \/ Retry(f)

Next ==
    \/ \E a \in Analysis : StartAnalysis(a) \/ RefuseTask(a) \/ Conclude(a)
    \/ \E f \in Fetch : Progress(f)

Spec == Init /\ [][Next]_vars

\* The event loop runs every coroutine that can run; the connect and read
\* timeouts with the body limit end every attempt, and a pause is bounded.
Fairness ==
    /\ \A f \in Fetch : WF_vars(Progress(f))
    /\ \A a \in Analysis : WF_vars(Conclude(a))
FairSpec == Spec /\ Fairness
-----------------------------------------------------------------------------
(* Properties *)

Stage == {"IDLE", "QUEUED", "WAITING", "REQUEST", "SLEEP", "DONE", "FAILED"}

TypeOK ==
    /\ asOf \in [Analysis -> Cutoff \cup {0}]
    /\ outcome \in [Analysis -> {"NEW", "COLLECTING", "ANALYSED", "ABSTAIN", "RAISED"}]
    /\ reason \in [Analysis -> ProviderReason \cup QualityReason \cup {"NONE"}]
    /\ stage \in [Fetch -> Stage]
    /\ attempt \in [Fetch -> 0..MaxAttempts]
    /\ result \in [Fetch -> Series \cup {NoSeries}]
    /\ cache \in Seq([key : Request \X Cutoff, value : Series, expires_at : Nat])
    /\ collectorQueue \in Seq(Fetch) /\ providerQueue \in Seq(Fetch)
    /\ collectorFree \in 0..CollectorSlots /\ providerFree \in 0..ProviderSlots

\* What the gate guarantees the role: at least minimum_bars closed candles, none
\* of them later than the cutoff and the last one recent enough; and between any
\* two of them as many intervals as there are steps, each late by less than a
\* second.  The lateness adds up: no candle is missing or out of place by more
\* than that, but the series need not be on the grid of its timeframe.  Stated
\* of all pairs by closed formulas, not by the gate's checks of neighbours.
Sound(s, i, c) ==
    LET req == RequiredData[i]
        n == Len(s.bars)
    IN  /\ s.request = i /\ s.as_of = c
        /\ n >= req.minimum_bars
        /\ \A k \in 1..n : s.bars[k].close <= c
        /\ \A j, k \in 1..n : j < k =>
              /\ s.bars[k].open >= s.bars[j].open + (k - j) * (req.interval * Second)
              /\ s.bars[k].open <= s.bars[j].open + (k - j) * (req.interval * Second + Second - 1)
        /\ c <= s.bars[n].close + req.max_age * Second

\* A role forms an opinion only on data that satisfies Sound for the analysis's
\* own cutoff, whether the series came from the provider or from the cache and
\* whatever the other analyses were doing (collect, service.py:50-60).
FailClosed ==
    \A a \in Analysis : outcome[a] = "ANALYSED" =>
        \A i \in Request : Sound(result[[analysis |-> a, request |-> i]], i, asOf[a])

\* Analyses with different cutoffs share the cache and the process, yet no
\* analysis is ever stopped because a series of another request, of another
\* cutoff or with a bar from its future reached its gate: a quality abstention
\* always speaks of the provider's data (binance.py:92-95, validation.py:17-46).
CutoffsNeverMixed ==
    \A a \in Analysis :
        reason[a] \notin {"PROVIDER_MISMATCH", "CUTOFF_MISMATCH", "FUTURE_DATA"}

\* The cache holds at most one entry per key and never more than max_entries,
\* although two fetches of one key may both miss and both store (cache.py:45-50).
CacheBounded ==
    /\ Len(cache) <= MaxEntries
    /\ \A m, n \in DOMAIN cache : cache[m].key = cache[n].key => m = n

Holding(s) == Cardinality({f \in Fetch : stage[f] \in s})

\* No path through a fetch loses or duplicates a slot of either semaphore, those
\* of a fetch whose analysis has already ended included (service.py:47,
\* binance.py:213).
SlotsConserved ==
    /\ collectorFree + Holding({"WAITING", "REQUEST", "SLEEP"}) = CollectorSlots
    /\ providerFree + Holding({"REQUEST", "SLEEP"}) = ProviderSlots

\* What an analysis reported is final: a fetch that fails, or an analysis of the
\* same cutoff that ends, after it never rewrites it (service.py:50).
ReportIsFinal ==
    [][\A a \in Analysis : outcome[a] \in {"ANALYSED", "ABSTAIN", "RAISED"} =>
          /\ outcome'[a] = outcome[a]
          /\ reason'[a] = reason[a]
          /\ outcome[a] = "ANALYSED" => \A i \in Request :
                LET f == [analysis |-> a, request |-> i] IN result'[f] = result[f]]_vars

\* Every analysis that starts ends with an opinion, an abstention or an error,
\* however the fetches of all analyses compete for slots, and every fetch ends,
\* the unattended ones too (MARKET_DATA_FOUNDATION.md:21-24): again and again
\* nothing is left running.
EveryFetchEnds ==
    []<>(/\ \A a \in Analysis : outcome[a] # "COLLECTING"
         /\ \A f \in Fetch : stage[f] \in {"IDLE", "DONE", "FAILED"})

\* "Duplicate, non-monotonic, future, open, stale, malformed, ... data never
\* becomes NEUTRAL; it becomes ABSTAIN with a machine-readable reason"
\* (MARKET_DATA_FOUNDATION.md:17-19): an analysis that asked for data does not
\* raise.  binance.py:251 lets an undecodable body through.
BadDataAbstains ==
    [][\A a \in Analysis : outcome[a] = "COLLECTING" => outcome'[a] # "RAISED"]_vars
=============================================================================
