# TOMIRIS: a TLA+ verification project

TOMIRIS collects opinions of independent agents about a market snapshot. A Hub stores signed
signals, an orchestrator plans *runs*, sends one *task* per agent and capability to the agents'
HTTP runtimes and decides when enough answers have come back, and a notification gateway delivers
messages through an outbox. An agent's runtime acknowledges a command, fetches market data, computes
indicators and posts one signal. All durable state is in PostgreSQL; the processes are asyncio
programs that may run several at a time and may die at any moment.

The modules here model the parts of that system whose correctness depends on interleavings, crashes,
timing and numeric boundaries. TLC checks them on small instances; TLAPS proves the main properties
for every instance. Paths below are relative to the repository (`src/` = the Python packages).

## Inventory

| part | state | operations | modelled in |
|---|---|---|---|
| planner, routing (`tomiris_orchestrator/planner.py`, `routing.py`) | inserts `orchestration_runs`, `agent_tasks` | `create`, `select` | `Orchestration`: `Plan`, `Routed`; `RunContract`: `Plan` |
| dispatch worker (`dispatch.py`, `client.py`, `backoff.py`, `worker.py`) | task leases, attempts, retries; `agent_runtime_states` (circuit breaker) | `expire_dispatch_deadlines`, `_claim`, `dispatch`, `_record_result` | `Orchestration`: `Expire`, `Claim`, `Send`, `Record`, `Crash` |
| recovery (`recovery.py`) | repairs task rows | `reconcile` | `Orchestration`, `SignalIntake`: `ReconcileRead`, `ReconcileWrite` |
| completeness evaluator (`quorum.py`) | run status and outcome | `evaluate` | `Completeness`: `Verdict`; `Orchestration`: `Evaluate`; `RunContract`: `Declare` |
| signal ingestion (`tomiris_hub/api/signals.py`, `services/signal_ingestion.py`) | `used_nonces`, `signals`, task status, audit | `ingest_signal`, `ingest`, `record_rejection` | `SignalIntake` (per statement); `Orchestration`: `AcceptSignal`, `RejectSignal` (one step) |
| authentication (`tomiris_hub/services/authentication.py`, `tomiris_agent_runtime/security.py`) | none but nonces | `verify` | decisions only: `SignalIntake`: `Verify`; `AgentRuntime`: `Admissible` |
| agent runtime (`tomiris_agent_runtime`) | process-local task and nonce store, background executions | `/v1/analyze`, `accept`, `execute` | `AgentRuntime`, `ExecutionContract`; in `Orchestration` as `runtime`, `AgentRestart` |
| market data (`tomiris_market_data`, `analytical.py`) | cache, semaphores, attempts | `get_ohlcv`, `collect`, `validate`, `analyze` | `MarketData` |
| features (`tomiris_features`) | none | indicators | `Indicators` |
| analytical roles (`tomiris_agent_roles`) | none | `_analyze_timeframe`, `analyze`, `plan` | `TimeframeAnalysis`, `TechnicalEngine` |
| notification outbox (`tomiris_notifications`) | `notification_outbox` | `enqueue_notification`, `process_one`, `send` | `NotificationOutbox` |
| health prober (`health.py`) | `availability` columns | `probe` | no |
| crypto, endpoint validation, contracts, audit, metrics, wiring | none, or append-only | checks, records | no |

### How the parts interact

Planner, workers, recovery, evaluator and ingestion never call each other across processes: they
meet in the rows of `orchestration_runs`, `agent_tasks`, `signals` and `agent_runtime_states`.
A worker's loop (`worker.py:21-31`) is *reconcile; then for ever: expire, claim a batch, send and record
one command after the other, reconcile*. Reconcile ends by evaluating every run it visited. The
agent's runtime acknowledges a command at once, analyses in the background and posts a signal to the
Hub, which may be before or after the worker has recorded the acknowledgement, or never.

Inside an agent, the analysis plans one data request per timeframe, `collect` fetches them
concurrently through a shared provider (cache, two semaphores, retries), the quality gate judges the
series, the engine scores every timeframe with the indicators and combines the scores into a bias
and a confidence, and everything that fails with a `MarketDataError` on the way becomes ABSTAIN.

### What is hard

* `reconcile` reads task rows without locking them and writes them back later (`recovery.py:53`),
  while other workers claim, record and expire the same rows, and while the Hub accepts their signals.
* Ingestion locks task then run, recovery run then task: they may deadlock.
* Two deliveries of one request, message or task result pass the same reads; only unique keys decide.
* Leases expire during sends; answers arrive after the lease, the task or the run has moved on.
* Acknowledgements get lost after delivery, so a task may be retried while its agent is working on
  it; agents restart, and evict tasks from a bounded store, and forget what they have accepted.
* Two deadlines of the task and one of the run race with signals, repairs and evaluation.
* Nothing in the worker's loop catches exceptions: a database or protocol error is a crash.
* The outbox row does not say who is sending it: late senders meet rows that others have taken.
* A failed fetch ends its analysis while the sibling fetches go on, holding slots and filling the cache
  that other analyses, with other cutoffs, read.
* Warm-up lengths, zero movement, thresholds met exactly, conflicting timeframes.

### What makes each part correct

* Ingestion: a captured request, a message and a task yield one stored signal; the task agrees with
  it and no other process undoes either; the reasons given to clients are true; every delivery ends.
* Evaluator: an outcome is true when it is declared and stays true of the rows; insufficiency is
  declared only for a loss that is real and is never upgraded; a critical task is not given up before
  the collection deadline; every run is finalised.
* Dispatch: only the attempt that holds the lease is recorded; the breaker opens at its threshold.
* Agent runtime: a command is accepted once, a remembered task analysed once, a retry never refused.
* Market data: an opinion rests on sound data of its own cutoff; slots, cache and reports survive
  failures and retries; every fetch ends.
* Roles and features: an opinion is complete, its direction supported, its confidence bounded; the
  scores neither depend on the price level nor prefer a direction.
* Outbox: settled means what it says and is for good; attempts are bounded.

## Modules

| module | content |
|---|---|
| `Completeness` | the quorum of `quorum.py` as operators on a set of tasks, their statuses and a policy |
| `Orchestration` | runs, tasks, leases, breaker, reconciliation and ingestion; its properties |
| `RunContract` | abstract: what a run promises its caller; `Orchestration` implements it (`RunsKeepContract`) |
| `SignalIntake` | `POST /v1/signals` statement by statement, beside a recovery transaction |
| `NotificationOutbox` | the outbox and its workers |
| `AgentRuntime` | an agent's HTTP process: commands, nonces, bounded task store, executions |
| `ExecutionContract` | abstract: what the orchestrator relies on about one task in an agent; `AgentRuntime` implements it (`KeepsContract`) |
| `MarketData` | role handler, collector, provider, cache and quality gate |
| `Indicators` | the indicators of `indicators.py` as scaled integers |
| `TimeframeAnalysis` | the score of one timeframe, over every bounded series |
| `TechnicalEngine` | the combination of the timeframes into bias and confidence |
| `MC...` | constants of the instances TLC checks |
| `...Proofs` | theorems about `Orchestration`, `RunContract`'s refinement, `SignalIntake`, `AgentRuntime`, `NotificationOutbox`, `MarketData`, `TechnicalEngine`, `TimeframeAnalysis` with `Indicators` |

Operators named `Name_Fault` next to `Name` are faulty variants that no specification uses. Each
stands for a plausible bug, and TLC finds the corresponding property violated when it is put in the
place of `Name`.

### Orchestration: correspondence with the code

**Rows.** `runs`, `tasks`, `signals`, `circuit`, `enabled` are the tables `orchestration_runs`,
`agent_tasks`, `signals`, `agent_runtime_states` and `agent_endpoints.enabled`, with the columns that
control anything; `"ABSENT"` is a row not inserted yet. A task is identified by run, capability and
agent (`uq_agent_task_assignment`). The three deadlines are functions of the run's creation time and
of the policy, as `planner.py` computes them. `after`, `owner`, `until` and `attempts` are
`dispatch_after`, `lease_owner`, `lease_until` and `attempt_count`. Columns that nothing reads
(`availability`, latencies, error codes, audit events) are left out. The statuses ACKNOWLEDGED and
SKIPPED of a task and CREATED, FAILED, TIMED_OUT and CANCELLED of a run are tested by the code and
assigned nowhere; the model keeps the tests.

**Steps.** One step is one database transaction or one HTTP exchange. PostgreSQL runs at its default,
READ COMMITTED. What that allows, and why the grain is right:

* `reconcile` is the only transaction split in two (`ReconcileRead`, `ReconcileWrite`). Its task reads
  take no lock, so every other transaction on tasks may commit between the read and the write; the
  write is an UPDATE of the changed columns, whatever the row holds by then. With several runs in a
  pass the session flushes a run's updates before it reads the next run's tasks; per run the window
  is the one modelled.
* While `reconcile` holds a run row FOR UPDATE, `evaluate` waits for that row, an acknowledgement
  that must change the run's status waits, and so does the insertion of a signal: the foreign key
  `signals.orchestration_run_id` (`models.py:84-86`) takes a key-share lock on the run row. This is
  `Locked`, `SignalInsertable` and the guard of `RecordAck`. It is this foreign key that protects
  accepted answers from stale repairs: without it (`SignalInsertable_NoForeignKey`) `StoredIffReceived`
  fails. `SignalIntake` shows the same at the grain of statements (`ReceivedIffStored`).
* `_claim`, `_record_result` and `expire_dispatch_deadlines` lock the task rows they change.
  `evaluate` holds the run row, reads the tasks once and does not tell unfinished statuses apart; a
  clock read before it waited for the lock can only postpone a verdict. Each is one step.
* Lock-order deadlocks are resolved by an abort: either the signal is not stored, which the model
  allows at any time, or the worker's loop ends, which is `Crash`.

**Environment.** `Send` covers every answer of the agent: delivered or not, and, independently of
delivery unless it is an acknowledgement, retryable or permanent. A task whose handler failed, or
whose signal was lost or refused for a reason unrelated to the task (time to live, closed snapshot,
disabled agent), stays WORKING. `AgentRestart` empties the runtime's store; an eviction from a full
store is left out here (it has the same effect on one task) and is in `AgentRuntime`.
`DisableEndpoint` is an operator's change of the registry. Which agents `Routed` picks beyond
`max_agents` and which backoff delay is drawn are left open.

**RunContract** keeps the planned tasks, the stored answers and the declared outcome of a run and
nothing else. The refinement mapping (`RunsKeepContract` in `Orchestration`) takes them from the rows;
leases, retries, breaker, clocks and reopened runs are invisible. A run may be declared again (the
code reopens runs), but every declaration is justified by the answers stored at that moment.

### SignalIntake: correspondence with the code

A handler is one delivery of a request. Its place `pc` names the next statement; uncommitted rows and
row locks follow from `pc`, so a rollback is a change of `pc`. Waiting follows PostgreSQL: an insert of
a key that an open transaction has inserted waits for its end (`InsertNonce`, `InsertSignal`), `SELECT
... FOR UPDATE` waits for the row (`LockTask`), the foreign key's key-share lock waits for recovery's
FOR UPDATE (`ShareRun`), and recovery's `SKIP LOCKED` skips a run that is shared. Under READ COMMITTED a
statement reads what has been committed before it, its own waiting included. `now` is read once, on
arrival. The signal statuses DISPATCHING, ACKNOWLEDGED and WAITING_SIGNAL, which `ingest` treats alike,
are the one value WAITING_SIGNAL. Recovery takes a task to SIGNAL_RECEIVED or TIMED_OUT; its lease
repairs are in `Orchestration`. Failures: any statement may fail with the database (`DatabaseFails`), a
commit may take effect although the connection breaks (`CommitUnknown`), a deadlock costs one of its
two transactions (`BreakDeadlock`), and the hub may die (`HubCrash`). Left out: unknown agents and
snapshots, wrong capability, asset or protocol, the schema of the body, and the `agent_runtime_states`
row that `ingest` locks last and keeps only until it commits.

### AgentRuntime: correspondence with the code

`analyze` (`application.py:126-170`) does not await between the body and its answer except for the
store's lock, which is never contended, so a delivery is one step: `RefuseReplay`, `AcceptAgain` or
`AcceptNew` (`state.py:27-51`). `network` keeps every command sent; each may be delivered at any time
and again. `Offset` is the difference of the two machines' clocks. `row` is the orchestrator's row of a
task: `Dispatch` claims it (`Claimed`: an attempt more, a new stamp, `dispatch.py:132-136`) and sends the
body built from the row as the claim left it (`Body`, `dispatch.py:150-166`, `client.py:84-99`; two
columns stand for all the planned ones, the context included). The agent compares the body of a command
with the one it remembers, so a column that a claim rewrites would, if it were in the body, turn a
retry into a conflict. `execute` is `Analyse` or
`AnalysisRaises`, then `HubAnswers` or `PostFails`: nothing is posted twice. `Restart` empties store,
nonces and executions. `accepted`, `starts`, `forgets` are history variables.

### MarketData: correspondence with the code

A step is what one coroutine does between two awaits that can suspend it. `StartAnalysis` is `analyze`
up to the gather, `Enter` the collector's slot and the cache lookup, `Send` the provider's slot and
the first request, `Receive` / `ReceiveUnusable` / `ReceiveUndecodable` / `AttemptFails` what
`_request_json` and `get_ohlcv` make of a response, `Retry` the end of a pause, `Conclude` the gate and
the role. Slots are kept over all attempts and pauses of a fetch, as the `async with` does. `Validate`
has the gate's checks in their order; `FailClosed` compares it with `Sound`, a closed description of
the data the role may see. Prices are abstracted to whether a row passes the bar's validator.

Times are in units of 1/`Second` of a second (milliseconds in the instance, as the provider sends
them), while intervals, ages and the cache's lifetime are whole seconds. `HasGap` truncates the
distance of neighbouring bars to whole seconds, as `int(total_seconds())` does (`validation.py:55`), so
a bar may open up to 999 ms late after its neighbour, and over a series the lateness adds up. What the
gate guarantees is therefore not a regular grid but `Sound`: at least `minimum_bars` bars, all closed at
the cutoff, the last one recent enough, and between any two bars as many intervals as there are
steps, each late by less than a second. `NoGapIsRegular` derives that from the check of neighbours.

### Indicators, TimeframeAnalysis, TechnicalEngine: correspondence with the code

The code computes in binary floating point; the modules compute the same expressions exactly, on
integers scaled by the powers that the denominators need (`Power`, `EmaScale`, `MacdScale`, ...). What they show
is thus true of the formulas; a comparison the code makes on values that differ by rounding only is
outside. `Config`, thresholds and periods are constants with the validators' bounds. One step of
`TimeframeAnalysis` appends a bar, so every series up to the bound is examined. In `TechnicalEngine` a
timeframe's score is any value of `ScoreValue`; `Begin`, `AnalyzeTimeframe`, `FeatureFails`, `FeatureRaises`,
`Combine` are the stages of `analyze`. `FeatureFails` is what `analyze` turns into an abstention (an invalid
feature, a `KeyError` or `ValueError`, `technical.py:183`); `FeatureRaises` is what escapes it: a positive
price that is 0.0 as a float is divided by (`indicators.py:208`), which ends the analysis without a
result.

### NotificationOutbox: correspondence with the code

`process_one` is `Take` (first transaction), `Send` (external call) and `Settle` (second transaction).
`wait` is the time left until `next_attempt_at`; `position` orders rows as `created_at` does. A worker
remembers the attempt number it read, as the code does. `Send` may return any result; a message may
have arrived although the answer was lost. `Crash` loses the worker's memory and leaves the row with
its lease. A send may outlast its lease: the HTTP client bounds the phases of a request, not the whole.

## Runs

| run | instance | checks |
|---|---|---|
| `orchestration_safety` | 1 run, critical + optional capability, 2 agents, 2 workers, the optional agent's endpoint may be disabled | `TypeOK`, `StoredIffReceived`, `OutcomeSound`, `NeverUpgraded`, `FullIsFinal` |
| `orchestration_faults` | 1 answer of 2 agents needed, 1 worker, 2 crashes, restarting agent, endpoints disabled (also before planning: CRITICAL plans) | `InsufficientJustified`, `RunsKeepContract` (refinement of `RunContract`) |
| `orchestration_leases` | 1 task of an optional but critical capability, 2 workers, 3 attempts, 1 crash, fairness | `CircuitCountsFailures`, `CriticalAwaited`, `OnlyCurrentAttemptRecorded`, `EventuallyFinal` |
| `signal_intake` | 2 deliveries of 4 requests (replay, two results of one task that are acceptable at the same time, repeated message, another agent), 1 task, recovery, the registry disabling and enabling an agent, database and hub failures, fairness | `TypeOK`, `StoredOnce`, `ReceivedIffStored`, `AnswersTrue`, `EveryDeliveryAnswered` |
| `outbox_delivery` | 2 rows, 2 workers, 2 attempts, 1 crash | `TypeOK`, `SettledHonestly`, `AttemptsNearBound`, `SettledForGood` |
| `agent_runtime` | 2 tasks, a store of 1, 3 commands, clock offset, 1 restart, fairness | `TypeOK`, `AcceptedOnce`, `WorkNotRepeated`, `RetryNeverConflicts`, `ExecutionsEnd`, `KeepsContract` (refinement of `ExecutionContract`) |
| `market_data_shared` | 2 analyses of 2 series, 2 cutoffs, 4 responses in milliseconds, 2 attempts, a cache of 2, 2 and 1 slots, fairness | `FailClosed`, `CutoffsNeverMixed`, `CacheBounded`, `SlotsConserved`, `ReportIsFinal`, `EveryFetchEnds` |
| `timeframe_scores` | every series of up to 5 bars over 3 prices, short periods | `EmaIsWeightedMean`, `IndicatorBounds`, `MirrorSymmetric`, `ScaleFree` |
| `technical_engine` | 1 to 3 timeframes, default weights and thresholds, scores at and around the thresholds; a two-asset definition | `OpinionIsComplete`, `DirectionSupported`, `ConfidenceBounded`, `BiasMonotone` |

**Bounds.** In `Orchestration`, `MaxTime` ends the clock one unit after the last collection deadline, so
every deadline, lease expiry, cooldown and backoff can be reached, before and after it. Two workers
suffice for a reader to overlap a writer, two attempts for a lease to change hands and for a retry to be
exhausted; the lease is the shortest possible (1), so it can expire during every send. The
runs have one orchestration run each: two runs meet only in the batch of a claim and in the breaker
of a shared agent, and the two tasks of one run meet there too. `MaxCrashes` bounds crashes, which only
multiply states. Workers are symmetric in the runs without liveness. In `SignalIntake` two deliveries
are enough for every conflict, which is between two keys; its clock passes the task's deadline and the
snapshot's expiry, requests are signed early and late, and two results of the task can meet at the insert
(every reason code of the transaction is reached). (The refusals for a forged signature, for
an expired signal and for an analysis in the future are in the module and in the proofs, not in the
instance: they happen before the transaction and touch nothing.) In `AgentRuntime` the store of one
entry makes every second task evict. In `MarketData` the provider's single slot makes fetches of
different analyses queue, and the cache of two entries evicts for four keys; one response has bars that are each
999 ms late, which the gate accepts, and one a bar late by 1000 ms, which it refuses. The theorems need none
of these bounds. Deadlock is checked in all orchestration runs (a worker's loop never ends); in
`signal_intake` the recovery never ends either; the other systems may really stop, when every row is
settled, every command delivered, every analysis over.

**Fairness.** `FairSpec` of `Orchestration` assumes that time passes and that each worker keeps taking
steps: the loop waits for nothing but timeouts (HTTP, poll interval) and row locks, and lock holders
are transactions without external calls; a crashed worker is restarted. Nothing is assumed of agents,
signals or delivery. `EventuallyFinal` is a statement `<>[]`: final runs can be reopened (below), but
only by finitely many acknowledgements. `SignalIntake`: each handler's next statement is executed when
it can be (the event loop and the database), the deadlock detector acts, and a recovery that holds the
run writes or rolls back. A waiting `ShareRun` gets strong fairness: recovery comes back again and
again and each time blocks it, but a waiter stands in the row's queue and recovery skips a row it
cannot lock at once (`SKIP LOCKED`). `AgentRuntime`: background tasks run, an analysis ends
(`EveryFetchEnds`) and the post has a timeout. `MarketData`: the event loop runs coroutines that can
run, timeouts and the body limit end every attempt, pauses are bounded. No liveness is stated for the
outbox: the repository has only a script that calls `process_one` once. `AttemptsNearBound` is the
safe half of "no endless loop": `max_attempts - 1`, one more for each crash and the triangular number
1 + ... + W for W overlapping workers. A worker that took the row when its counter was low records a
retry late and lets the others count once more, and the next such worker again: with three workers
and `max_attempts` 3 TLC reaches eight attempts without a crash, so that `max_attempts` and two more
per additional worker, which suffices for two workers, is not a bound.

### Disagreements between documents and code

Three runs state a document's sentence as their single property, which TLC violates.

| run | document | code |
|---|---|---|
| `final_reopened` | MASTER_ARCHITECTURE: FULL, DEGRADED, CRITICAL are terminal | a late acknowledgement writes COLLECTING (`dispatch.py:216`); never over FULL (`FullIsFinal`), and the outcome is re-derived (`NeverUpgraded`) |
| `half_open_burst` | PHASE_02_DECISIONS: one half-open recovery | all due tasks of the agent go out (`dispatch.py:132`) |
| `undecodable_body` | MARKET_DATA_FOUNDATION: malformed data becomes ABSTAIN | a body that is not UTF-8 raises `UnicodeDecodeError` (`binance.py:251`), which nothing turns into a `MarketDataError`: no signal is sent |

Further counterexamples can be reproduced with the configurations kept beside these; each states one
property of its module that the code does not have.

| configuration | document | code |
|---|---|---|
| `LostReopened.cfg` | AGENT_TASK_LIFECYCLE: FAILED, TIMED_OUT have no way out | a stale repair writes RETRY (`recovery.py:86`) |
| `LeaseRevoked.cfg` | ORCHESTRATOR_RECOVERY: active leases are preserved | a stale repair clears a lease taken since (`recovery.py:88`) |
| `RetryRejected.cfg` | ORCHESTRATION_PROTOCOL: the reasons for rejection | a result for a task in RETRY is rejected too (`signal_ingestion.py:109`) |
| `OrphanedWait.cfg` | FAILURE_MATRIX: a missing signal ends in TIMED_OUT | not when the run was finalised first (`recovery.py:42`) |
| `OutboxCrashLoop.cfg` | ADR 0011: bounded attempts, no endless loop | a reclaimed lease is not compared with `max_attempts` (`tomiris_notifications/worker.py:55`) |

Observations from the models without a configuration of their own:

* The first branch of `reconcile` (`recovery.py:74-80`, a stored signal whose task is not
  SIGNAL_RECEIVED) is never taken: `RepairFacts` (`OrchestrationProofs`) proves it.
* A critical task still unanswered at the collection deadline is no critical failure
  (`quorum.py:73-91`): if the minimum is met without it, the run is DEGRADED. `CriticalAwaited` says that this
  happens at the deadline only.
* A send that succeeds after another worker has settled its row is dropped
  (`tomiris_notifications/worker.py:92`): the delivered message may stay DEAD_LETTER.
* A commit whose answer is lost is reported as 503 DATABASE_UNAVAILABLE and audited as REJECTED although
  the signal is stored (`signals.py:62`). `AnswersTrue` allows exactly this; what must hold is that the
  retry stores nothing twice (`StoredOnce`).
* `AcceptedOnce` has a premise, a nonce lifetime above twice the clock skew; the settings' validators
  do not enforce it (`tomiris_agent_runtime/config.py:27-28`), the defaults (600 and 60) satisfy it.
* A definition with two assets always abstains: the engine compares the bundle of one asset with the
  requirements of all (`technical.py:97-112`). `OpinionIsComplete` includes it.
* If every score equals the neutral threshold, the bias is LONG or SHORT while no timeframe counts as
  agreeing (`technical.py:134-158`).
* Nothing relates a definition's `minimum_bars` to the warm-up of the configured indicators; too short
  a requirement abstains with FEATURE_FAILURE every time.

## Proofs

All proofs hold for every finite set of tasks, handlers or fetches and every value of the constants
that satisfies the assumptions stated in the modules, which are the validators and the lower bounds of
the settings.

| theorem | statement | inductive invariant and argument |
|---|---|---|
| `OrchestrationProofs!TypeCorrect` | `Spec => []TypeOK` | inductive as it stands; one lemma per action |
| `AnswersNeverLost` | `Spec => []StoredIffReceived` | `StoredInv`: adds that a pending repair is only for an existing, unanswered task of a run the pass holds locked, so that the repair SIGNAL_STORED never arises (`RepairFacts`), and that a run not created yet has no tasks (`AbsentRuns`). The stale write is harmless because the lock excludes the one transaction that could make it wrong |
| `OutcomesKeepTheirPromise` | `Spec => []OutcomeSound` | `OutcomeInv` on top of `StoredInv`: the planned tasks of an existing run do not change and its answers only grow (`AnswersOnlyGrow`), so a minimum once met stays met (`MinimumStays`, by cardinality of subsets), and only the evaluator and the planner write outcomes (`OutcomeWriters`) |
| `InsufficientIsJustified`, `InsufficientIsFinal` | `InsufficientJustified`, `NeverUpgraded` | `InsufficientInv`, which says why the verdict stands (`LossStands`): the collection deadline is past and a minimum missed, too few tasks of a capability are left to meet its minimum, or a critical task is lost; lost in the sense that no open pass is about to reopen it (`PermanentlyLost`). The bare property is not inductive: a stale repair reopens lost tasks (`LostReopened.cfg`), but none that the verdict rested on |
| `CriticalTasksAwaited` | `Spec => []CriticalAwaited` | `CriticalInv` on top of `StoredInv`: an evaluation that writes DEGRADED before the deadline found every task terminal and no critical one lost (`DegradedKeepsCritical`); afterwards answers only grow and the clock does not go back (`CriticalStays`) |
| `FullRunsStayFull` | `Spec => FullIsFinal` | `FullInv`: a run whose status is FULL has the outcome FULL, hence all its tasks answered (`OutcomeInv`); of the writers of a run's row (`RunWriters`) the acknowledgement spares such a run and the evaluator leaves a final one alone |
| `BreakerCounts` | `Spec => []CircuitCountsFailures` | with `TypeOK`; every writer of the breaker keeps the equivalence |
| `LeasesFence` | `OwnersDistinct => (Spec => OnlyCurrentAttemptRecorded)` | `LeaseInv`: a worker claims with empty hands (`ClaimsWithEmptyHands`), and a command in hand whose task is leased to that worker carries the task's current attempt (`FencedCommands`). Distinct instance ids are necessary: the lease names the owner, not the attempt |
| `RunContractProofs!OrchestrationImplementsContract` | `Spec => RunsKeepContract` | step simulation under `StoredInv`: planning maps to `Plan`, an accepted signal to `Answer`, an evaluation to `Declare` or a stutter, every other step to a stutter |
| `SignalIntakeProofs!IntakeTypes`, `NothingStoredTwice`, `TasksAgreeWithSignals`, `ReasonsAreTrue` | `TypeOK`, `StoredOnce`, `ReceivedIffStored`, `AnswersTrue` | one invariant `IInv`: `Stands` (what a handler's place says of its request and of the committed rows), `NoncesApart`, `TasksApart`, `SignalsApart` (two open transactions never hold the same key or row), `RunApart` (a task under repair has no handler about to commit) and the properties themselves |
| `AgentRuntimeProofs!RuntimeTypes`, `NoReplayAccepted`, `NoWorkRepeated`, `NoConflictOnRetry`, `RuntimeImplementsContract` | `TypeOK`, `AcceptedOnce`, `WorkNotRepeated`, `RetryNeverConflicts`, `KeepsContract` | `BaseInv`: nonces of commands are distinct, the store has no duplicates and entries in it are typed; for bodies, that every command sent and every entry remembered carries the body the task's row still has (`SameBodies`), which a claim leaves as it was (`ClaimKeepsBody`); for replays, that a command whose nonce has been dropped is too old for ever; for work, that a remembered task has been started once more than it was forgotten |
| `NotificationOutboxProofs!OutboxTypeCorrect`, `SettlementIsHonest`, `SettlementIsFinal` | `TypeOK`, `SettledHonestly`, `SettledForGood` | `OutboxInv` adds `InFlightFacts`: the row a worker holds exists, has counted at least the worker's attempt, and a success in hand is a delivery; the attempt it compares with `max_attempts` is thus never more than the row's |
| `AttemptsAreBounded` | `IsFiniteSet(Notification) /\ IsFiniteSet(Worker) => (Spec => []AttemptsNearBound)` | `BoundInv` adds `WithinBudget`: the workers that hold the row are early or late, as the attempt they read is below `max_attempts` or not; an early one may still free the row, and what it may then cost is reserved for it. By cardinalities of the two sets |
| `MarketDataProofs!TypeCorrect`, `SlotsAreConserved`, `ReportsAreFinal`, `CacheStaysBounded`, `CutoffsStaySeparate`, `OpinionsOnSoundData` | `TypeOK`, `SlotsConserved`, `ReportIsFinal`, `CacheBounded`, `CutoffsNeverMixed`, `FailClosed` | `CoreInv`: who waits in a queue stands at its place, once, and a fetch that has begun belongs to a started analysis; `SlotsInv`: a move changes the count of held slots by what it gives back; `DataInv`: every cache entry holds the series its key names without later bars (`Faithful`), and so does the result of every fetch that returned. The gate's checks entail `Sound` (`ValidIsSound`): that the lateness of neighbours, each below a second, accumulates to no more than `Sound` allows (`Accumulates`), and that filtering keeps closed rows, are proved by induction on sets of numbers (`SetInduction`, `Recursion`) |
| `TechnicalEngineProofs!CompleteOpinions`, `DirectionsAreSupported`, `ConfidenceIsBounded`, `BiasIsMonotone` | `OpinionIsComplete`, `DirectionSupported`, `ConfidenceBounded`, `BiasMonotone` | `EngineInv`: a result is nothing, an abstention, or `Bias` and `Confidence` of the scores of all timeframes asked for, with nothing failed. The rest is about these operators: a weighted mean lies between the least and the greatest score (`MeanBelow`, `MeanAbove`), rises with each score (`SumMonotone`), and a conflict turns only into a better bias (`BiasKeepsOrder`); products are reduced to four lemmas, since the provers do linear arithmetic only |
| `TimeframeAnalysisProofs!AverageIsWeightedMean`, `IndicatorsAreBounded`, `ScoreIsScaleFree` | `EmaIsWeightedMean`, `IndicatorBounds`, `ScaleFree` | the only invariant needed is that the series consists of bars; what the recursive indicators compute is proved by induction on positions (below) |
| `ScoreIsMirrorSymmetric` | `IsFiniteSet(Bar) => (Spec => []MirrorSymmetric)` | the property reflects prices at a point taken from the set of bars, which must be finite to have a highest and a lowest; `MirroredScore` holds for any point |

**Induction on a series.** The theorems about the indicators hold for series of every length. The
library's induction theorems take operators as parameters and cannot be used, so `Induction` is proved
for sets of integers from the well-foundedness of `<`, and `Recursion`, `Determined` and `Tabulated`
show that a recursive definition on an interval has one solution, whose values are integers; one lemma
for each definition (`PowerTabulated`, `TotalTabulated`, `EmaTabulated`, `WilderTabulated`) gives its
table. On the tables rest the laws:

* the average of an affine image is the affine image of the average (`EmaAffine`), and the average
  is a weighted mean (`MeanUnrolled`, `WeightedMean`);
* Wilder's smoothing lies between the bounds of its values (`WilderBounded`), whence RSI and ATR, and
  is homogeneous (`WilderScaled`);
* the denominators of the two averages of MACD divide the common one exactly (`MacdScaleExact`), so
  that an additive constant cancels in the line and a factor comes out of the histogram
  (`MacdLineImage`, `HistogramImage`).

A market in another unit and its mirror image are both affine images of the market (`Image`). Every
comparison the score makes is one of signs of quantities that scale by the factor, so `ScaledScore`
gives the same score for every positive factor, of which `ScaleFree` names one; under reflection gains
and losses change places, the extremes of the swing too, the true ranges stay, and every comparison
turns into its opposite (`MirroredScore`). Assumed are the validators (`ConfigAssumption`,
`BarAssumption`, `ThresholdAssumption`) with prices, and thresholds in percent, as naturals.

**Model-checked only.** Liveness (`EventuallyFinal`, `EveryDeliveryAnswered`,
`ExecutionsEnd`, `EveryFetchEnds`) is out of the prover's reach. Every safety invariant that a passing
run checks is stated by a theorem. The other way round, the types of `MarketData` are proved and not
part of its run.

## Not modelled

* HMAC, canonical strings, key derivation, URL and address validation, JSON schemas: pure functions
  without state; their verdicts are inputs of the models.
* Audit events beyond the rejection record, metrics: written with the modelled transactions and read
  by nothing.
* The health prober: no entry point starts it and nothing that routes or dispatches reads
  `availability`.
* `get_ticker` and `get_market_summary` of the provider: nothing calls them.
* Regimes, evidence and risk texts of the engine, the value of realized volatility and the volume
  ratio: they do not influence bias or confidence (only whether they are defined does, and that is
  in `FeaturesValid`).
* Wiring, settings classes and scripts; the settings appear as constants.

## Plan

1. Instances of `Orchestration` with two runs and with a shared instance id; attempts bounded by the
   dispatch deadline.
2. The row locks of `_claim` and `_record_result` at the grain of `SignalIntake`.
