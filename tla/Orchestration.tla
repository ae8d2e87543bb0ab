---------------------------- MODULE Orchestration ----------------------------
(***************************************************************************)
(* The orchestrator of TOMIRIS: runs and their tasks in PostgreSQL, the    *)
(* workers that dispatch tasks to agents under expiring leases, the        *)
(* reconciliation pass, the completeness evaluator, the per-agent circuit  *)
(* breaker, and the Hub's acceptance of task-bound signals.                *)
(*                                                                         *)
(* A step is one database transaction or one network exchange.  The only   *)
(* transaction split in two is the reconciliation pass: it reads its task  *)
(* rows without locking them and writes them back later (recovery.py:53),  *)
(* while it holds the run rows FOR UPDATE.  A run so held cannot be        *)
(* evaluated (quorum.py:42), cannot have its status rewritten, and cannot  *)
(* receive a signal: the foreign key signals.orchestration_run_id          *)
(* (models.py:84-86) takes a key-share lock on the run row.                *)
(*                                                                         *)
(* Time is a counter; the columns dispatch_deadline, signal_deadline and   *)
(* collection_deadline are functions of the run's creation time.           *)
(***************************************************************************)
EXTENDS Naturals, FiniteSets, Completeness

CONSTANTS
    Run,                  \* run identifiers
    Agent,                \* agents of the registry
    Registry,             \* pairs <<agent, capability>> the registry grants
    Policy,               \* capability -> [required, critical, minimum, max_agents]
    Worker,               \* orchestrator worker processes
    Owner,                \* worker -> the instance id it writes into lease_owner
    NoOwner,              \* lease_owner IS NULL
    NoCommand,            \* no dispatch in progress
    DispatchTimeout, SignalTimeout, CollectionTimeout,   \* the policy's timeouts
    LeaseSeconds, BatchSize, MaxAttempts, MaxBackoff,
    CircuitThreshold, CircuitOpenSeconds,
    Restarting,           \* agents whose process may restart
    Retiring,             \* agents whose endpoint an operator may disable
    MaxTime,              \* bound: the clock stops here
    MaxCrashes            \* bound: worker crashes in a behaviour

\* A task is one agent and one capability of one run (uq_agent_task_assignment).
Task == {t \in [run : Run, cap : DOMAIN Policy, agent : Agent] :
            <<t.agent, t.cap>> \in Registry}

\* A dispatch command, with the attempt it was claimed for.  The code's command
\* does not carry the attempt: the field only serves to state properties.
Command == [task : Task, attempt : Nat]

\* OrchestrationPolicy's validators, and the settings' lower bounds.
ASSUME PolicyAssumption ==
    /\ IsFiniteSet(Task)
    /\ \A c \in DOMAIN Policy :
          Policy[c] \in [required : BOOLEAN, critical : BOOLEAN,
                         minimum : Nat \ {0}, max_agents : Nat \ {0}]
ASSUME TimingAssumption ==
    /\ DispatchTimeout \in Nat \ {0}
    /\ SignalTimeout \in Nat /\ DispatchTimeout <= SignalTimeout
    /\ CollectionTimeout \in Nat /\ SignalTimeout <= CollectionTimeout
    /\ LeaseSeconds \in Nat \ {0}
    /\ BatchSize \in Nat \ {0}
    /\ MaxAttempts \in Nat \ {0}
    /\ MaxBackoff \in Nat \ {0}
    /\ CircuitThreshold \in Nat \ {0}
    /\ CircuitOpenSeconds \in Nat \ {0}
    /\ MaxTime \in Nat /\ MaxCrashes \in Nat
ASSUME IdentityAssumption ==
    /\ \A w \in Worker : Owner[w] # NoOwner
    /\ NoCommand \notin Command

VARIABLES
    now,        \* the clock
    runs,       \* orchestration_runs: run -> [status, outcome, created, missingOptional]
    tasks,      \* agent_tasks: task -> [status, attempts, after, owner, until]
    signals,    \* tasks that have a row in signals (uq_signals_task_result)
    enabled,    \* agents whose endpoint row is enabled
    circuit,    \* agent_runtime_states: agent -> [state, failures, open_until]
    runtime,    \* what each task's agent process did: see RuntimeStatus
    pc,         \* worker -> where its loop stands
    batch,      \* worker -> commands claimed and not yet answered
    current,    \* worker -> the command whose answer has come back
    reply,      \* worker -> that answer's disposition
    locked,     \* worker -> runs its open reconciliation transaction holds
    repair,     \* worker -> the update it decided for each task row it read
    readAt,     \* worker -> the time at which that transaction read the clock
    todo,       \* worker -> runs it still has to evaluate
    crashes     \* worker crashes so far

dbVars == <<runs, tasks, signals, circuit>>
envVars == <<now, enabled, runtime, crashes>>
dispatchVars == <<batch, current, reply>>
recoveryVars == <<locked, repair, readAt, todo>>
vars == <<dbVars, envVars, pc, dispatchVars, recoveryVars>>
-----------------------------------------------------------------------------
(* Rows and their columns.  An operator Name_Fault is a faulty variant of    *)
(* Name, never used by the specification: it stands for a plausible bug that *)
(* the properties are expected to catch.                                     *)

UnfinishedRunStatus_SkipsCollecting == {"CREATED", "DISPATCHING", "TIMED_OUT"}
UnfinishedRunStatus == {"CREATED", "DISPATCHING", "COLLECTING", "TIMED_OUT"}
FinalRunStatus == {"FULL", "DEGRADED", "CRITICAL", "FAILED", "CANCELLED"}

\* "ABSENT" marks a row not inserted yet.
AbsentRun == [status |-> "ABSENT", outcome |-> "NONE", created |-> 0,
              missingOptional |-> FALSE]
AbsentTask == [status |-> "ABSENT", attempts |-> 0, after |-> 0,
               owner |-> NoOwner, until |-> 0]

\* IDLE: the running process has accepted no command for the task; WORKING: it
\* has, and the Hub has not answered (a handler that raised or a post that got
\* lost is only logged, so such a task stays here); DONE: the Hub has answered.
RuntimeStatus == {"IDLE", "WORKING", "DONE"}

Disposition == {"ACKNOWLEDGED", "RETRYABLE", "PERMANENT"}

Repair == {"KEEP", "SIGNAL_STORED", "LEASE_EXPIRED", "SIGNAL_TIMEOUT"}

Least(a, b) == IF a <= b THEN a ELSE b
Greatest(a, b) == IF a >= b THEN a ELSE b

Planned(r) == {t \in Task : t.run = r /\ tasks[t].status # "ABSENT"}
Status == [t \in Task |-> tasks[t].status]

CollectionDeadline(r) == runs[r].created + CollectionTimeout
DispatchDeadline(t) == runs[t.run].created + DispatchTimeout
SignalDeadline(t) ==
    Least(runs[t.run].created + SignalTimeout, CollectionDeadline(t.run))

Locked(r) == \E w \in Worker : r \in locked[w]

\* Claim order: priority (100 when critical, else 50), then creation time.
Before(t, u) ==
    \/ Policy[t.cap].critical /\ ~Policy[u.cap].critical
    \/ /\ Policy[t.cap].critical = Policy[u.cap].critical
       /\ runs[t.run].created < runs[u.run].created

Init ==
    /\ now = 0
    /\ runs = [r \in Run |-> AbsentRun]
    /\ tasks = [t \in Task |-> AbsentTask]
    /\ signals = {}
    /\ enabled = Agent
    /\ circuit = [a \in Agent |->
                    [state |-> "CLOSED", failures |-> 0, open_until |-> 0]]
    /\ runtime = [t \in Task |-> "IDLE"]
    /\ pc = [w \in Worker |-> "reconcile"]
    /\ batch = [w \in Worker |-> {}]
    /\ current = [w \in Worker |-> NoCommand]
    /\ reply = [w \in Worker |-> "NONE"]
    /\ locked = [w \in Worker |-> {}]
    /\ repair = [w \in Worker |-> [t \in Task |-> "KEEP"]]
    /\ readAt = [w \in Worker |-> 0]
    /\ todo = [w \in Worker |-> {}]
    /\ crashes = 0
-----------------------------------------------------------------------------
(* OrchestrationPlanner.create *)

\* CapabilityRouter.select: enabled agents with the capability, at most
\* max_agents of them (which ones: the registry's order, left open here).
Routed(r, chosen) ==
    LET eligible == {t \in Task : t.run = r /\ t.agent \in enabled}
    IN  /\ chosen \subseteq eligible
        /\ \A c \in DOMAIN Policy :
              Cardinality(CapabilityTasks(chosen, c)) =
                Least(Policy[c].max_agents, Cardinality(CapabilityTasks(eligible, c)))

Underplanned(chosen, c) ==
    Cardinality(CapabilityTasks(chosen, c)) < Policy[c].minimum

Plan(r) ==
    /\ runs[r].status = "ABSENT"
    /\ now + CollectionTimeout < MaxTime
    /\ \E chosen \in SUBSET Task :
         /\ Routed(r, chosen)
         /\ LET missing == {c \in DOMAIN Policy : Underplanned(chosen, c)}
                critical == \E c \in missing : Policy[c].required
            IN /\ runs' = [runs EXCEPT ![r] =
                    [status  |-> IF critical THEN "CRITICAL" ELSE "DISPATCHING",
                     outcome |-> IF critical THEN "INSUFFICIENT_DATA" ELSE "NONE",
                     created |-> now,
                     missingOptional |-> \E c \in missing : ~Policy[c].required]]
               /\ tasks' = [t \in Task |->
                    IF t \in chosen
                    THEN [AbsentTask EXCEPT
                            !.status = IF critical THEN "CANCELLED" ELSE "PENDING",
                            !.after = now]
                    ELSE tasks[t]]
    /\ UNCHANGED <<signals, circuit, envVars, pc, dispatchVars, recoveryVars>>
-----------------------------------------------------------------------------
(* DispatchWorker *)

\* expire_dispatch_deadlines, whatever the state of the task's run.
Expired(t) ==
    /\ tasks[t].status \in {"PENDING", "RETRY", "DISPATCHING"}
    /\ DispatchDeadline(t) <= now

Expire(w) ==
    /\ pc[w] = "expire"
    /\ tasks' = [t \in Task |->
         IF Expired(t)
         THEN [tasks[t] EXCEPT !.status = "TIMED_OUT", !.owner = NoOwner, !.until = 0]
         ELSE tasks[t]]
    /\ pc' = [pc EXCEPT ![w] = "claim"]
    /\ UNCHANGED <<runs, signals, circuit, envVars, dispatchVars, recoveryVars>>

\* The WHERE clause of _claim: due tasks, and tasks whose lease ran out.
Claimable ==
    {t \in Task :
        /\ \/ tasks[t].status \in {"PENDING", "RETRY"} /\ tasks[t].after <= now
           \/ tasks[t].status = "DISPATCHING" /\ tasks[t].until # 0 /\ tasks[t].until < now
        /\ DispatchDeadline(t) > now}

CircuitHolds(a) ==
    circuit[a].state = "OPEN" /\ circuit[a].open_until > now

\* What _claim does with one selected row, in the order of its early exits.
ClaimVerdict(t) ==
    IF runs[t.run].status \in FinalRunStatus \cup {"TIMED_OUT"} THEN "CANCELLED"
    ELSE IF t.agent \notin enabled THEN "FAILED"
    ELSE IF CircuitHolds(t.agent) THEN "RETRY"
    ELSE "DISPATCHING"

Lease(w, t) ==
    [tasks[t] EXCEPT !.status = "DISPATCHING",
                     !.attempts = tasks[t].attempts + 1,
                     !.owner = Owner[w], !.until = now + LeaseSeconds]

ClaimRow(w, t) ==
    CASE ClaimVerdict(t) = "DISPATCHING" -> Lease(w, t)
      [] ClaimVerdict(t) = "RETRY" ->
            [tasks[t] EXCEPT !.status = "RETRY", !.after = circuit[t.agent].open_until]
      [] OTHER -> [tasks[t] EXCEPT !.status = ClaimVerdict(t)]

Claim(w) ==
    /\ pc[w] = "claim"
    /\ \E B \in SUBSET Claimable :
         /\ Cardinality(B) = Least(BatchSize, Cardinality(Claimable))
         /\ \A t \in B, u \in Claimable \ B : ~Before(u, t)
         /\ LET leased == {t \in B : ClaimVerdict(t) = "DISPATCHING"}
            IN /\ tasks' = [t \in Task |-> IF t \in B THEN ClaimRow(w, t) ELSE tasks[t]]
               /\ circuit' = [a \in Agent |->
                    IF circuit[a].state = "OPEN" /\ \E t \in leased : t.agent = a
                    THEN [circuit[a] EXCEPT !.state = "HALF_OPEN"]
                    ELSE circuit[a]]
               /\ batch' = [batch EXCEPT ![w] =
                    {[task |-> t, attempt |-> tasks[t].attempts + 1] : t \in leased}]
               /\ pc' = [pc EXCEPT ![w] = IF leased = {} THEN "reconcile" ELSE "send"]
    /\ UNCHANGED <<runs, signals, envVars, current, reply, recoveryVars>>

\* AgentDispatchClient.dispatch and the runtime's /v1/analyze.  A delivered
\* command starts the handler unless the process already knows the task; the
\* runtime refuses one whose deadline has passed.  The answer may be lost or
\* malformed after delivery, so only an acknowledgement tells.
Send(w) ==
    /\ pc[w] = "send"
    /\ \E c \in batch[w], delivered \in BOOLEAN, d \in Disposition :
         /\ \A o \in batch[w] : ~Before(o.task, c.task)
         /\ delivered => now < SignalDeadline(c.task)
         /\ d = "ACKNOWLEDGED" => delivered
         /\ runtime' = [runtime EXCEPT ![c.task] =
              IF delivered /\ @ = "IDLE" THEN "WORKING" ELSE @]
         /\ current' = [current EXCEPT ![w] = c]
         /\ reply' = [reply EXCEPT ![w] = d]
         /\ batch' = [batch EXCEPT ![w] = @ \ {c}]
    /\ pc' = [pc EXCEPT ![w] = "record"]
    /\ UNCHANGED <<dbVars, now, enabled, crashes, recoveryVars>>

HoldsLease_AnyOwner(w, t) == tasks[t].status = "DISPATCHING"
HoldsLease_Unchecked(w, t) == TRUE
\* _record_result acts only for the worker that holds the task's lease now.
HoldsLease(w, t) ==
    tasks[t].status = "DISPATCHING" /\ tasks[t].owner = Owner[w]

FailedCircuit_OffByOne(a) ==
    LET failures == circuit[a].failures + 1
    IN  IF failures > CircuitThreshold
        THEN [state |-> "OPEN", failures |-> failures,
              open_until |-> now + CircuitOpenSeconds]
        ELSE [circuit[a] EXCEPT !.failures = failures]
FailedCircuit(a) ==
    LET failures == circuit[a].failures + 1
    IN  IF failures >= CircuitThreshold
        THEN [state |-> "OPEN", failures |-> failures,
              open_until |-> now + CircuitOpenSeconds]
        ELSE [circuit[a] EXCEPT !.failures = failures]

CanRetry(w, t) ==
    /\ reply[w] = "RETRYABLE"
    /\ tasks[t].attempts < MaxAttempts
    /\ now < DispatchDeadline(t)

\* The acknowledgement branch.  Rewriting the run's status waits for a
\* transaction that holds the run; an unchanged column is not written.
RecordAck(w, t) ==
    /\ reply[w] = "ACKNOWLEDGED"
    /\ runs[t.run].status # "COLLECTING" => ~Locked(t.run)
    /\ tasks' = [tasks EXCEPT ![t] =
         [tasks[t] EXCEPT !.status = "WAITING_SIGNAL", !.owner = NoOwner, !.until = 0]]
    /\ circuit' = [circuit EXCEPT ![t.agent] =
                     [state |-> "CLOSED", failures |-> 0, open_until |-> 0]]
    /\ runs' = [runs EXCEPT ![t.run].status = "COLLECTING"]

\* The failure branch: the backoff delay is jittered, any value up to its cap.
RetryAt(t, delay) ==
    IF FailedCircuit(t.agent).state = "OPEN"
    THEN Greatest(now + delay, FailedCircuit(t.agent).open_until)
    ELSE now + delay

RecordFailure(w, t) ==
    /\ reply[w] # "ACKNOWLEDGED"
    /\ circuit' = [circuit EXCEPT ![t.agent] = FailedCircuit(t.agent)]
    /\ \/ /\ CanRetry(w, t)
          /\ \E delay \in 1..MaxBackoff :
               tasks' = [tasks EXCEPT ![t] =
                 [tasks[t] EXCEPT !.status = "RETRY", !.after = RetryAt(t, delay),
                                  !.owner = NoOwner, !.until = 0]]
       \/ /\ ~CanRetry(w, t)
          /\ tasks' = [tasks EXCEPT ![t] =
                 [tasks[t] EXCEPT !.status = "FAILED", !.owner = NoOwner, !.until = 0]]
    /\ UNCHANGED runs

Record(w) ==
    /\ pc[w] = "record"
    /\ LET t == current[w].task
       IN \/ HoldsLease(w, t) /\ (RecordAck(w, t) \/ RecordFailure(w, t))
          \/ ~HoldsLease(w, t) /\ UNCHANGED <<runs, tasks, circuit>>
    /\ current' = [current EXCEPT ![w] = NoCommand]
    /\ reply' = [reply EXCEPT ![w] = "NONE"]
    /\ pc' = [pc EXCEPT ![w] = IF batch[w] = {} THEN "reconcile" ELSE "send"]
    /\ UNCHANGED <<signals, envVars, batch, recoveryVars>>
-----------------------------------------------------------------------------
(* RecoveryService.reconcile and CompletenessEvaluator.evaluate *)

\* What the pass decides for one task row, from what it read.
RepairOf(t) ==
    IF t \in signals /\ tasks[t].status # "SIGNAL_RECEIVED" THEN "SIGNAL_STORED"
    ELSE IF /\ tasks[t].status = "DISPATCHING"
            /\ tasks[t].until # 0 /\ tasks[t].until <= now
    THEN "LEASE_EXPIRED"
    ELSE IF /\ tasks[t].status \in {"ACKNOWLEDGED", "WAITING_SIGNAL"}
            /\ SignalDeadline(t) <= now
    THEN "SIGNAL_TIMEOUT"
    ELSE "KEEP"

\* The UPDATE statement it emits: changed columns only, whatever the row
\* holds by then.
RepairedRow(t, kind, at) ==
    CASE kind = "SIGNAL_STORED" ->
            [tasks[t] EXCEPT !.status = "SIGNAL_RECEIVED", !.owner = NoOwner, !.until = 0]
      [] kind = "LEASE_EXPIRED" ->
            [tasks[t] EXCEPT !.status = IF DispatchDeadline(t) > at THEN "RETRY" ELSE "TIMED_OUT",
                             !.after = at, !.owner = NoOwner, !.until = 0]
      [] kind = "SIGNAL_TIMEOUT" -> [tasks[t] EXCEPT !.status = "TIMED_OUT"]
      [] OTHER -> tasks[t]

\* FOR UPDATE SKIP LOCKED on the unfinished runs, then the unlocked reads.
ReconcileRead(w) ==
    /\ pc[w] = "reconcile"
    /\ LET held == {r \in Run : runs[r].status \in UnfinishedRunStatus /\ ~Locked(r)}
       IN /\ locked' = [locked EXCEPT ![w] = held]
          /\ repair' = [repair EXCEPT ![w] =
               [t \in Task |-> IF t.run \in held THEN RepairOf(t) ELSE "KEEP"]]
    /\ readAt' = [readAt EXCEPT ![w] = now]
    /\ pc' = [pc EXCEPT ![w] = "write"]
    /\ UNCHANGED <<dbVars, envVars, dispatchVars, todo>>

ReconcileWrite(w) ==
    /\ pc[w] = "write"
    /\ tasks' = [t \in Task |-> RepairedRow(t, repair[w][t], readAt[w])]
    /\ runs' = [r \in Run |->
         IF r \in locked[w] /\ runs[r].status = "TIMED_OUT"
         THEN [runs[r] EXCEPT !.status = "COLLECTING"] ELSE runs[r]]
    /\ todo' = [todo EXCEPT ![w] = locked[w]]
    /\ locked' = [locked EXCEPT ![w] = {}]
    /\ repair' = [repair EXCEPT ![w] = [t \in Task |-> "KEEP"]]
    /\ readAt' = [readAt EXCEPT ![w] = 0]
    /\ pc' = [pc EXCEPT ![w] = IF locked[w] = {} THEN "expire" ELSE "evaluate"]
    /\ UNCHANGED <<signals, circuit, envVars, dispatchVars>>

RunVerdict(r) ==
    Verdict(Planned(r), Status, Policy, now >= CollectionDeadline(r),
            runs[r].missingOptional)

EvaluatedRun(r) ==
    IF runs[r].status \in FinalRunStatus \/ RunVerdict(r) = "UNDECIDED"
    THEN runs[r]
    ELSE [runs[r] EXCEPT !.status = RunVerdict(r), !.outcome = OutcomeOf(RunVerdict(r))]

\* The evaluator takes the run row FOR UPDATE and waits for it.
Evaluate(w) ==
    /\ pc[w] = "evaluate"
    /\ \E r \in todo[w] :
         /\ ~Locked(r)
         /\ runs' = [runs EXCEPT ![r] = EvaluatedRun(r)]
         /\ todo' = [todo EXCEPT ![w] = @ \ {r}]
         /\ pc' = [pc EXCEPT ![w] = IF todo[w] = {r} THEN "expire" ELSE "evaluate"]
    /\ UNCHANGED <<tasks, signals, circuit, envVars, dispatchVars, locked, repair, readAt>>

\* OrchestratorWorkerLoop.run: one pass of the loop is expire, claim, then a
\* send and a record per command, then reconcile and evaluate.
WorkerStep(w) ==
    \/ Expire(w) \/ Claim(w) \/ Send(w) \/ Record(w)
    \/ ReconcileRead(w) \/ ReconcileWrite(w) \/ Evaluate(w)

\* A worker dies (nothing in the loop catches an exception) and is restarted:
\* its open transaction rolls back, its commands are forgotten, its leases stay.
Crash(w) ==
    /\ crashes < MaxCrashes
    /\ pc[w] # "reconcile"
    /\ crashes' = crashes + 1
    /\ pc' = [pc EXCEPT ![w] = "reconcile"]
    /\ batch' = [batch EXCEPT ![w] = {}]
    /\ current' = [current EXCEPT ![w] = NoCommand]
    /\ reply' = [reply EXCEPT ![w] = "NONE"]
    /\ locked' = [locked EXCEPT ![w] = {}]
    /\ repair' = [repair EXCEPT ![w] = [t \in Task |-> "KEEP"]]
    /\ readAt' = [readAt EXCEPT ![w] = 0]
    /\ todo' = [todo EXCEPT ![w] = {}]
    /\ UNCHANGED <<dbVars, now, enabled, runtime>>
-----------------------------------------------------------------------------
(* SignalIngestionService.ingest, and the agent process that posts to it *)

Accepting_IgnoresDeadline(t) ==
    /\ tasks[t].status \in {"DISPATCHING", "ACKNOWLEDGED", "WAITING_SIGNAL"}
    /\ t \notin signals
\* The task checks of ingest, and the unique index on signals.task_id.
Accepting(t) ==
    /\ now < SignalDeadline(t)
    /\ tasks[t].status \in {"DISPATCHING", "ACKNOWLEDGED", "WAITING_SIGNAL"}
    /\ t \notin signals

\* The insert into signals needs a key-share lock on the run row.
SignalInsertable_NoForeignKey(t) == TRUE
SignalInsertable(t) == ~Locked(t.run)

AcceptSignal(t) ==
    /\ runtime[t] = "WORKING"
    /\ Accepting(t)
    /\ SignalInsertable(t)
    /\ signals' = signals \cup {t}
    /\ tasks' = [tasks EXCEPT ![t] =
         [tasks[t] EXCEPT !.status = "SIGNAL_RECEIVED", !.owner = NoOwner, !.until = 0]]
    /\ runtime' = [runtime EXCEPT ![t] = "DONE"]
    /\ UNCHANGED <<runs, circuit, now, enabled, crashes, pc, dispatchVars, recoveryVars>>

RejectSignal(t) ==
    /\ runtime[t] = "WORKING"
    /\ ~Accepting(t)
    /\ runtime' = [runtime EXCEPT ![t] = "DONE"]
    /\ UNCHANGED <<dbVars, now, enabled, crashes, pc, dispatchVars, recoveryVars>>

\* The process-local task cache does not survive a restart of the agent.
AgentRestart(a) ==
    /\ a \in Restarting
    /\ \E t \in Task : t.agent = a /\ runtime[t] # "IDLE"
    /\ runtime' = [t \in Task |-> IF t.agent = a THEN "IDLE" ELSE runtime[t]]
    /\ UNCHANGED <<dbVars, now, enabled, crashes, pc, dispatchVars, recoveryVars>>

\* An operator disables an endpoint in the registry.
DisableEndpoint(a) ==
    /\ a \in enabled \cap Retiring
    /\ enabled' = enabled \ {a}
    /\ UNCHANGED <<dbVars, now, runtime, crashes, pc, dispatchVars, recoveryVars>>

Tick ==
    /\ now < MaxTime
    /\ now' = now + 1
    /\ UNCHANGED <<dbVars, enabled, runtime, crashes, pc, dispatchVars, recoveryVars>>

Next ==
    \/ \E r \in Run : Plan(r)
    \/ \E w \in Worker : WorkerStep(w) \/ Crash(w)
    \/ \E t \in Task : AcceptSignal(t) \/ RejectSignal(t)
    \/ \E a \in Agent : AgentRestart(a) \/ DisableEndpoint(a)
    \/ Tick

Spec == Init /\ [][Next]_vars

\* Time passes, and every worker keeps taking steps: its loop never waits on
\* anything but timeouts and row locks of transactions that end.
FairSpec == Spec /\ WF_vars(Tick) /\ \A w \in Worker : WF_vars(WorkerStep(w))
-----------------------------------------------------------------------------
(* Type invariant *)

RunRow == [status : {"ABSENT"} \cup UnfinishedRunStatus \cup FinalRunStatus,
           outcome : {"NONE", "FULL", "DEGRADED", "INSUFFICIENT_DATA"},
           created : Nat, missingOptional : BOOLEAN]
LeaseOwner == {Owner[w] : w \in Worker} \cup {NoOwner}
TaskRow == [status : {"ABSENT"} \cup TaskStatus, attempts : Nat, after : Nat,
            owner : LeaseOwner, until : Nat]
CircuitRow == [state : {"CLOSED", "OPEN", "HALF_OPEN"}, failures : Nat,
               open_until : Nat]
WorkerPc == {"reconcile", "write", "evaluate", "expire", "claim", "send", "record"}

\* Every variable has its type; a worker at "record" has a command and an answer.
TypeOK ==
    /\ now \in Nat
    /\ runs \in [Run -> RunRow]
    /\ tasks \in [Task -> TaskRow]
    /\ signals \in SUBSET Task
    /\ enabled \in SUBSET Agent
    /\ circuit \in [Agent -> CircuitRow]
    /\ runtime \in [Task -> RuntimeStatus]
    /\ pc \in [Worker -> WorkerPc]
    /\ batch \in [Worker -> SUBSET Command]
    /\ current \in [Worker -> Command \cup {NoCommand}]
    /\ reply \in [Worker -> Disposition \cup {"NONE"}]
    /\ locked \in [Worker -> SUBSET Run]
    /\ repair \in [Worker -> [Task -> Repair]]
    /\ readAt \in [Worker -> Nat]
    /\ todo \in [Worker -> SUBSET Run]
    /\ crashes \in Nat
    /\ \A w \in Worker : pc[w] = "record" => current[w] \in Command
-----------------------------------------------------------------------------
(* Safety *)

\* Hub acceptance and task completion are one transaction, and nothing undoes
\* either: a task is SIGNAL_RECEIVED exactly when its signal is stored, also
\* while reconciliation writes back rows it read earlier without a lock.
StoredIffReceived ==
    \A t \in Task : t \in signals <=> tasks[t].status = "SIGNAL_RECEIVED"

\* What an outcome promised stays true of the rows: FULL has every planned
\* answer, DEGRADED has the minimum of every required capability, even after
\* late acknowledgements, timeouts and repairs.
OutcomeSound ==
    \A r \in Run :
        /\ runs[r].outcome = "FULL" => AllReceived(Planned(r), Status)
        /\ runs[r].outcome = "DEGRADED" => Missing(Planned(r), Status, Policy) = {}

\* A critical task is never given up early: a DEGRADED run has every critical
\* answer, or the collection deadline passed while one was still awaited.  A
\* critical task that is lost before makes the run CRITICAL, even one whose
\* capability has enough other answers or is optional.
CriticalAwaited ==
    \A r \in Run : runs[r].outcome = "DEGRADED" =>
        \/ CollectionDeadline(r) <= now
        \/ \A t \in Planned(r) :
              Policy[t.cap].critical => tasks[t].status = "SIGNAL_RECEIVED"

\* A run is declared INSUFFICIENT_DATA only for a loss that is real and stays:
\* a required capability under its minimum or a critical task lost.
InsufficientJustified ==
    \A r \in Run : runs[r].outcome = "INSUFFICIENT_DATA" =>
        \/ Missing(Planned(r), Status, Policy) # {}
        \/ CriticalFailure(Planned(r), Status, Policy)

\* The breaker counts: it is closed exactly below the threshold, so that one
\* failed half-open dispatch opens it again at once.
CircuitCountsFailures ==
    \A a \in Agent :
        circuit[a].state = "CLOSED" <=> circuit[a].failures < CircuitThreshold

\* A run once declared INSUFFICIENT_DATA is never upgraded by a re-evaluation.
NeverUpgraded ==
    [][\A r \in Run : runs[r].outcome = "INSUFFICIENT_DATA" =>
          runs'[r].outcome = "INSUFFICIENT_DATA"]_runs

\* FULL is final: no late answer of a worker reopens a complete run.
FullIsFinal ==
    [][\A r \in Run : runs[r].status = "FULL" => runs'[r].status = "FULL"]_runs

\* Lease fencing: the answer a worker records is for the attempt it claimed;
\* the answer of an attempt that lost its lease changes nothing.
OnlyCurrentAttemptRecorded ==
    [][\A w \in Worker :
          pc[w] = "record" /\ pc'[w] # "record" /\ tasks' # tasks =>
             tasks[current[w].task].attempts = current[w].attempt]_vars
-----------------------------------------------------------------------------
(* Liveness *)

\* Every run is finalised and stays so, whatever agents and crashes do.
EventuallyFinal ==
    \A r \in Run : <>[](runs[r].status \in FinalRunStatus \cup {"ABSENT"})
-----------------------------------------------------------------------------
(* Refinement *)

Contract == INSTANCE RunContract WITH
    planned <- [r \in Run |-> Planned(r)],
    answered <- signals,
    outcome <- [r \in Run |-> runs[r].outcome]

\* Leases, retries, repairs, late acknowledgements and re-evaluations implement
\* the run's contract: tasks planned once, answers stored once and kept, outcomes
\* declared only on what has been answered (planner.py, signal_ingestion.py,
\* recovery.py and quorum.py together).
RunsKeepContract == Contract!Spec
-----------------------------------------------------------------------------
(* What the documents say and the code does not do *)

\* MASTER_ARCHITECTURE: FULL, DEGRADED and CRITICAL are terminal.
FinalStaysFinal ==
    [][\A r \in Run : runs[r].status \in FinalRunStatus =>
          runs'[r].status = runs[r].status]_runs

\* AGENT_TASK_LIFECYCLE: FAILED, TIMED_OUT and CANCELLED have no way out.
LostStaysLost ==
    [][\A t \in Task : tasks[t].status \in LostTaskStates =>
          tasks'[t].status \in LostTaskStates]_tasks

\* ORCHESTRATOR_RECOVERY: reconciliation preserves active leases.
ActiveLeasePreserved ==
    [][\A w \in Worker, t \in Task :
          (/\ pc[w] = "write" /\ pc'[w] # "write"
           /\ tasks[t].status = "DISPATCHING" /\ tasks[t].until > now) =>
             tasks'[t].status = "DISPATCHING"]_vars

\* PHASE_02_DECISIONS: cooldown permits one half-open recovery.
OneHalfOpenRecovery ==
    [][\A a \in Agent : circuit'[a].state = "HALF_OPEN" =>
          \A t, u \in Task :
             (/\ t.agent = a /\ tasks'[t].attempts > tasks[t].attempts
              /\ u.agent = a /\ tasks'[u].attempts > tasks[u].attempts) => t = u]_vars

\* ORCHESTRATION_PROTOCOL: the reasons for which a signal is rejected.
RejectedAsDocumented ==
    [][\A t \in Task : runtime[t] = "WORKING" /\ runtime'[t] = "DONE" =>
          \/ t \in signals'
          \/ SignalDeadline(t) <= now
          \/ tasks[t].status \in TERMINAL_TASK_STATES]_vars

\* FAILURE_MATRIX: a signal that never arrives ends in TIMED_OUT.
EveryTaskSettles ==
    \A t \in Task :
        tasks[t].status = "WAITING_SIGNAL" ~> tasks[t].status \in TERMINAL_TASK_STATES
=============================================================================
