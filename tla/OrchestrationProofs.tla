------------------------- MODULE OrchestrationProofs -------------------------
(***************************************************************************)
(* Proofs about Orchestration, for any registry, policy, number of runs,   *)
(* workers, attempts, crashes, and whatever the clock does.                *)
(***************************************************************************)
EXTENDS Orchestration, FiniteSetTheorems, TLAPS

(* Facts about rows that every action uses *)

\* A task names a run, a capability of the policy and an agent.
LEMMA TaskFields ==
  ASSUME NEW t \in Task
  PROVE  t.run \in Run /\ t.cap \in DOMAIN Policy /\ t.agent \in Agent
BY DEF Task

\* lease_owner holds an instance id or NULL.
LEMMA OwnerType ==
  NoOwner \in LeaseOwner /\ \A w \in Worker : Owner[w] \in LeaseOwner
BY DEF LeaseOwner

\* The updates the code makes to a task row keep its columns typed.
LEMMA RowUpdate ==
  ASSUME NEW row \in TaskRow, NEW s \in TaskStatus, NEW o \in LeaseOwner,
         NEW u \in Nat, NEW a \in Nat, NEW n \in Nat
  PROVE  /\ [row EXCEPT !.status = s] \in TaskRow
         /\ [row EXCEPT !.status = s, !.owner = o, !.until = u] \in TaskRow
         /\ [row EXCEPT !.status = s, !.after = a] \in TaskRow
         /\ [row EXCEPT !.status = s, !.after = a, !.owner = o, !.until = u] \in TaskRow
         /\ [row EXCEPT !.status = s, !.attempts = n, !.owner = o, !.until = u] \in TaskRow
BY DEF TaskRow

\* Both updates of a breaker row keep its columns typed.
LEMMA CircuitUpdate ==
  ASSUME TypeOK, NEW a \in Agent
  PROVE  /\ [circuit[a] EXCEPT !.state = "HALF_OPEN"] \in CircuitRow
         /\ FailedCircuit(a) \in CircuitRow
<1>1. circuit[a] \in CircuitRow /\ now \in Nat
  BY DEF TypeOK
<1>2. [circuit[a] EXCEPT !.state = "HALF_OPEN"] \in CircuitRow
  BY <1>1 DEF CircuitRow
<1>3. FailedCircuit(a) \in CircuitRow
  BY <1>1, TimingAssumption DEF CircuitRow, FailedCircuit
<1>4. QED
  BY <1>2, <1>3

\* A task's deadlines are times.
LEMMA DeadlineType ==
  ASSUME TypeOK, NEW t \in Task
  PROVE  DispatchDeadline(t) \in Nat /\ SignalDeadline(t) \in Nat
<1>1. runs[t.run] \in RunRow
  BY TaskFields DEF TypeOK
<1>2. runs[t.run].created \in Nat
  BY <1>1 DEF RunRow
<1>3. QED
  BY <1>2, TimingAssumption DEF DispatchDeadline, SignalDeadline, CollectionDeadline, Least

-----------------------------------------------------------------------------
(* Type correctness, one lemma per action that writes rows *)

\* The planner's writes, with its two summary Booleans named.
PlanWrites(r, chosen, critical, gap) ==
    /\ Routed(r, chosen)
    /\ runs' = [runs EXCEPT ![r] =
          [status  |-> IF critical THEN "CRITICAL" ELSE "DISPATCHING",
           outcome |-> IF critical THEN "INSUFFICIENT_DATA" ELSE "NONE",
           created |-> now, missingOptional |-> gap]]
    /\ tasks' = [t \in Task |->
          IF t \in chosen
          THEN [AbsentTask EXCEPT
                  !.status = IF critical THEN "CANCELLED" ELSE "PENDING",
                  !.after = now]
          ELSE tasks[t]]

\* The planner writes some routed set of tasks.
LEMMA PlanRows ==
  ASSUME NEW r \in Run, Plan(r)
  PROVE  \E chosen \in SUBSET Task, critical \in BOOLEAN, gap \in BOOLEAN :
           PlanWrites(r, chosen, critical, gap)
<1> DEFINE Critical(chosen) ==
      \E c \in {x \in DOMAIN Policy : Underplanned(chosen, x)} : Policy[c].required
<1> DEFINE Gap(chosen) ==
      \E c \in {x \in DOMAIN Policy : Underplanned(chosen, x)} : ~Policy[c].required
<1>1. PICK chosen \in SUBSET Task : PlanWrites(r, chosen, Critical(chosen), Gap(chosen))
  BY DEF Plan, PlanWrites
<1>2. Critical(chosen) \in BOOLEAN /\ Gap(chosen) \in BOOLEAN
  OBVIOUS
<1> HIDE DEF Critical, Gap
<1>3. QED
  BY <1>1, <1>2, Zenon

\* OrchestrationPlanner.create inserts typed rows.
LEMMA PlanType ==
  ASSUME TypeOK, NEW r \in Run, Plan(r)
  PROVE  TypeOK'
<1>1. PICK chosen \in SUBSET Task, critical \in BOOLEAN, gap \in BOOLEAN :
        PlanWrites(r, chosen, critical, gap)
  BY PlanRows
<1>3. runs' \in [Run -> RunRow]
  BY <1>1 DEF PlanWrites, TypeOK, RunRow, UnfinishedRunStatus, FinalRunStatus
<1>4. AbsentTask \in TaskRow
  BY OwnerType DEF AbsentTask, TaskRow
<1>5. tasks' \in [Task -> TaskRow]
  <2>1. now \in Nat /\ "CANCELLED" \in TaskStatus /\ "PENDING" \in TaskStatus
    BY DEF TypeOK, TaskStatus
  <2>2. ASSUME NEW t \in Task PROVE tasks'[t] \in TaskRow
    BY <1>1, <1>4, <2>1, RowUpdate, OwnerType DEF PlanWrites, TypeOK
  <2>3. QED
    BY <1>1, <2>2 DEF PlanWrites
<1>6. QED
  BY <1>3, <1>5 DEF Plan, TypeOK, envVars, dispatchVars, recoveryVars

\* expire_dispatch_deadlines keeps rows typed.
LEMMA ExpireType ==
  ASSUME TypeOK, NEW w \in Worker, Expire(w)
  PROVE  TypeOK'
<1>1. tasks' \in [Task -> TaskRow]
  <2>1. ASSUME NEW t \in Task PROVE tasks'[t] \in TaskRow
    <3>1. tasks[t] \in TaskRow /\ "TIMED_OUT" \in TaskStatus
      BY DEF TypeOK, TaskStatus
    <3>2. QED
      BY <3>1, RowUpdate, OwnerType DEF Expire
  <2>2. QED
    BY <2>1 DEF Expire
<1>2. pc' \in [Worker -> WorkerPc] /\ \A v \in Worker : pc'[v] = "record" => pc[v] = "record"
  BY DEF Expire, TypeOK, WorkerPc
<1>3. QED
  BY <1>1, <1>2 DEF Expire, TypeOK, envVars, dispatchVars, recoveryVars

\* What _claim makes of a selected row is a row.
LEMMA ClaimRowType ==
  ASSUME TypeOK, NEW w \in Worker, NEW t \in Task
  PROVE  ClaimRow(w, t) \in TaskRow
<1>1. /\ tasks[t] \in TaskRow /\ now \in Nat
      /\ circuit[t.agent].open_until \in Nat
      /\ now + LeaseSeconds \in Nat
      /\ tasks[t].attempts + 1 \in Nat
  BY TaskFields, TimingAssumption DEF TypeOK, TaskRow, CircuitRow
<1>2. ClaimVerdict(t) \in TaskStatus /\ "RETRY" \in TaskStatus /\ "DISPATCHING" \in TaskStatus
  BY DEF ClaimVerdict, TaskStatus
<1>3. QED
  BY <1>1, <1>2, RowUpdate, OwnerType DEF ClaimRow, Lease

\* The writes of _claim, with the batch it selected named.
ClaimWrites(w, B, leased) ==
    /\ tasks' = [t \in Task |-> IF t \in B THEN ClaimRow(w, t) ELSE tasks[t]]
    /\ circuit' = [a \in Agent |->
          IF circuit[a].state = "OPEN" /\ \E t \in leased : t.agent = a
          THEN [circuit[a] EXCEPT !.state = "HALF_OPEN"] ELSE circuit[a]]
    /\ batch' = [batch EXCEPT ![w] =
          {[task |-> t, attempt |-> tasks[t].attempts + 1] : t \in leased}]
    /\ pc' = [pc EXCEPT ![w] = IF leased = {} THEN "reconcile" ELSE "send"]

\* _claim leases a part of a claimable batch.
LEMMA ClaimRows ==
  ASSUME NEW w \in Worker, Claim(w)
  PROVE  \E B \in SUBSET Task, leased \in SUBSET Task :
           /\ B \subseteq Claimable
           /\ leased = {t \in B : ClaimVerdict(t) = "DISPATCHING"}
           /\ ClaimWrites(w, B, leased)
<1>1. PICK B \in SUBSET Claimable :
        ClaimWrites(w, B, {t \in B : ClaimVerdict(t) = "DISPATCHING"})
  BY DEF Claim, ClaimWrites
<1>2. B \subseteq Task
  BY DEF Claimable
<1>3. QED
  BY <1>1, <1>2

\* _claim keeps rows typed and hands its worker well-formed commands.
LEMMA ClaimType ==
  ASSUME TypeOK, NEW w \in Worker, Claim(w)
  PROVE  TypeOK'
<1>1. PICK B \in SUBSET Task, leased \in SUBSET Task : ClaimWrites(w, B, leased)
  BY ClaimRows
<1>3. tasks' \in [Task -> TaskRow]
  BY <1>1, ClaimRowType DEF ClaimWrites, TypeOK
<1>4. circuit' \in [Agent -> CircuitRow]
  BY <1>1, CircuitUpdate DEF ClaimWrites, TypeOK
<1>5. batch' \in [Worker -> SUBSET Command]
  <2>1. ASSUME NEW t \in Task PROVE [task |-> t, attempt |-> tasks[t].attempts + 1] \in Command
    BY DEF TypeOK, TaskRow, Command
  <2>2. QED
    BY <1>1, <2>1 DEF ClaimWrites, TypeOK
<1>6. pc' \in [Worker -> WorkerPc] /\ \A v \in Worker : pc'[v] = "record" => pc[v] = "record"
  BY <1>1 DEF ClaimWrites, TypeOK, WorkerPc
<1>7. QED
  BY <1>3, <1>4, <1>5, <1>6 DEF Claim, TypeOK, envVars, recoveryVars

\* A dispatch leaves the worker at "record" with a command and an answer.
LEMMA SendType ==
  ASSUME TypeOK, NEW w \in Worker, Send(w)
  PROVE  TypeOK'
<1>1. PICK c \in batch[w], delivered \in BOOLEAN, d \in Disposition :
        /\ runtime' = [runtime EXCEPT ![c.task] =
              IF delivered /\ runtime[c.task] = "IDLE" THEN "WORKING" ELSE runtime[c.task]]
        /\ current' = [current EXCEPT ![w] = c]
        /\ reply' = [reply EXCEPT ![w] = d]
        /\ batch' = [batch EXCEPT ![w] = batch[w] \ {c}]
  BY DEF Send
<1>2. c \in Command
  BY DEF TypeOK
<1>3. runtime' \in [Task -> RuntimeStatus]
  BY <1>1, <1>2 DEF TypeOK, RuntimeStatus, Command
<1>4. /\ current' \in [Worker -> Command \cup {NoCommand}] /\ current'[w] \in Command
      /\ \A v \in Worker \ {w} : current'[v] = current[v]
      /\ reply' \in [Worker -> Disposition \cup {"NONE"}]
      /\ batch' \in [Worker -> SUBSET Command]
  BY <1>1, <1>2 DEF TypeOK
<1>5. pc' \in [Worker -> WorkerPc] /\ \A v \in Worker \ {w} : pc'[v] = pc[v]
  BY DEF Send, TypeOK, WorkerPc
<1>6. QED
  BY <1>3, <1>4, <1>5 DEF Send, TypeOK, dbVars, recoveryVars

\* _record_result keeps rows typed in each of its branches.
LEMMA RecordType ==
  ASSUME TypeOK, NEW w \in Worker, Record(w)
  PROVE  TypeOK'
<1> DEFINE t == current[w].task
<1>1. t \in Task
  BY DEF Record, TypeOK, Command
<1> HIDE DEF t
<1>2. /\ tasks[t] \in TaskRow /\ runs[t.run] \in RunRow /\ t.run \in Run /\ t.agent \in Agent
      /\ {"WAITING_SIGNAL", "RETRY", "FAILED"} \subseteq TaskStatus
  BY <1>1, TaskFields DEF TypeOK, TaskStatus
<1>3. /\ runs' \in [Run -> RunRow] /\ tasks' \in [Task -> TaskRow]
      /\ circuit' \in [Agent -> CircuitRow]
  <2>1. CASE RecordAck(w, t)
    <3>1. [runs[t.run] EXCEPT !.status = "COLLECTING"] \in RunRow
      BY <1>2 DEF RunRow, UnfinishedRunStatus
    <3>2. [state |-> "CLOSED", failures |-> 0, open_until |-> 0] \in CircuitRow
      BY DEF CircuitRow
    <3>3. tasks' \in [Task -> TaskRow]
      BY <2>1, <1>1, <1>2, RowUpdate, OwnerType DEF RecordAck, TypeOK
    <3>4. QED
      BY <2>1, <1>2, <3>1, <3>2, <3>3 DEF RecordAck, TypeOK
  <2>2. CASE RecordFailure(w, t)
    <3>1. circuit' \in [Agent -> CircuitRow]
      BY <2>2, <1>2, CircuitUpdate DEF RecordFailure, TypeOK
    <3>2. ASSUME NEW delay \in 1..MaxBackoff PROVE RetryAt(t, delay) \in Nat
      <4>1. FailedCircuit(t.agent) \in CircuitRow
        BY <1>2, CircuitUpdate
      <4>2. FailedCircuit(t.agent).open_until \in Nat
        BY <4>1 DEF CircuitRow
      <4>3. now + delay \in Nat
        BY TimingAssumption DEF TypeOK
      <4>4. QED
        BY <4>2, <4>3 DEF RetryAt, Greatest
    <3>3. tasks' \in [Task -> TaskRow]
      <4>1. CASE CanRetry(w, t)
        <5>1. PICK delay \in 1..MaxBackoff :
                tasks' = [tasks EXCEPT ![t] =
                  [tasks[t] EXCEPT !.status = "RETRY", !.after = RetryAt(t, delay),
                                   !.owner = NoOwner, !.until = 0]]
          BY <2>2, <4>1 DEF RecordFailure
        <5>2. RetryAt(t, delay) \in Nat
          BY <3>2
        <5>3. [tasks[t] EXCEPT !.status = "RETRY", !.after = RetryAt(t, delay),
                               !.owner = NoOwner, !.until = 0] \in TaskRow
          BY <1>2, <5>2, RowUpdate, OwnerType
        <5>4. QED
          BY <5>1, <5>3 DEF TypeOK
      <4>2. CASE ~CanRetry(w, t)
        <5>1. [tasks[t] EXCEPT !.status = "FAILED", !.owner = NoOwner, !.until = 0] \in TaskRow
          BY <1>2, RowUpdate, OwnerType
        <5>2. QED
          BY <2>2, <4>2, <5>1 DEF RecordFailure, TypeOK
      <4>3. QED
        BY <4>1, <4>2
    <3>4. QED
      BY <2>2, <3>1, <3>3 DEF RecordFailure, TypeOK
  <2>3. CASE UNCHANGED <<runs, tasks, circuit>>
    BY <2>3 DEF TypeOK
  <2>4. QED
    BY <2>1, <2>2, <2>3 DEF Record, t
<1>4. /\ current' \in [Worker -> Command \cup {NoCommand}]
      /\ reply' \in [Worker -> Disposition \cup {"NONE"}]
      /\ pc' \in [Worker -> WorkerPc] /\ pc'[w] # "record"
      /\ \A v \in Worker \ {w} : pc'[v] = pc[v] /\ current'[v] = current[v]
  BY DEF Record, TypeOK, WorkerPc
<1>5. QED
  BY <1>3, <1>4 DEF Record, TypeOK, envVars, recoveryVars

\* The reads of a reconciliation pass decide known repairs.
LEMMA ReconcileReadType ==
  ASSUME TypeOK, NEW w \in Worker, ReconcileRead(w)
  PROVE  TypeOK'
<1> DEFINE held == {r \in Run : runs[r].status \in UnfinishedRunStatus /\ ~Locked(r)}
<1>1. /\ locked' = [locked EXCEPT ![w] = held]
      /\ repair' = [repair EXCEPT ![w] =
            [t \in Task |-> IF t.run \in held THEN RepairOf(t) ELSE "KEEP"]]
  BY DEF ReconcileRead
<1>2. \A t \in Task : RepairOf(t) \in Repair /\ "KEEP" \in Repair
  BY DEF RepairOf, Repair
<1>3. held \in SUBSET Run
  OBVIOUS
<1> HIDE DEF held
<1>4. [t \in Task |-> IF t.run \in held THEN RepairOf(t) ELSE "KEEP"] \in [Task -> Repair]
  BY <1>2
<1>5. repair' \in [Worker -> [Task -> Repair]] /\ locked' \in [Worker -> SUBSET Run]
  BY <1>1, <1>3, <1>4 DEF TypeOK
<1>6. /\ readAt' \in [Worker -> Nat] /\ pc' \in [Worker -> WorkerPc]
      /\ \A v \in Worker : pc'[v] = "record" => pc[v] = "record"
  BY DEF ReconcileRead, TypeOK, WorkerPc
<1>7. QED
  BY <1>5, <1>6 DEF ReconcileRead, TypeOK, dbVars, envVars, dispatchVars

\* What reconciliation makes of a row is a row.
LEMMA RepairedRowType ==
  ASSUME TypeOK, NEW t \in Task, NEW kind \in Repair, NEW at \in Nat
  PROVE  RepairedRow(t, kind, at) \in TaskRow
<1>1. /\ tasks[t] \in TaskRow /\ 0 \in Nat
      /\ {"SIGNAL_RECEIVED", "RETRY", "TIMED_OUT"} \subseteq TaskStatus
  BY DEF TypeOK, TaskStatus
<1>2. QED
  BY <1>1, RowUpdate, OwnerType DEF RepairedRow

\* The writes of a reconciliation pass keep rows typed.
LEMMA ReconcileWriteType ==
  ASSUME TypeOK, NEW w \in Worker, ReconcileWrite(w)
  PROVE  TypeOK'
<1>1. tasks' \in [Task -> TaskRow]
  <2>1. ASSUME NEW t \in Task PROVE RepairedRow(t, repair[w][t], readAt[w]) \in TaskRow
    BY RepairedRowType DEF TypeOK
  <2>2. QED
    BY <2>1 DEF ReconcileWrite
<1>2. runs' \in [Run -> RunRow]
  <2>1. ASSUME NEW r \in Run
        PROVE  runs[r] \in RunRow /\ [runs[r] EXCEPT !.status = "COLLECTING"] \in RunRow
    <3>1. runs[r] \in RunRow
      BY DEF TypeOK
    <3>2. QED
      BY <3>1 DEF RunRow, UnfinishedRunStatus
  <2>2. QED
    BY <2>1 DEF ReconcileWrite
<1>3. [t \in Task |-> "KEEP"] \in [Task -> Repair]
  BY DEF Repair
<1>4. /\ todo' \in [Worker -> SUBSET Run] /\ locked' \in [Worker -> SUBSET Run]
      /\ repair' \in [Worker -> [Task -> Repair]] /\ readAt' \in [Worker -> Nat]
  BY <1>3 DEF ReconcileWrite, TypeOK
<1>5. pc' \in [Worker -> WorkerPc] /\ \A v \in Worker : pc'[v] = "record" => pc[v] = "record"
  BY DEF ReconcileWrite, TypeOK, WorkerPc
<1>6. QED
  BY <1>1, <1>2, <1>4, <1>5 DEF ReconcileWrite, TypeOK, envVars, dispatchVars

\* The evaluator's chain has four results.
LEMMA VerdictType ==
  ASSUME NEW r \in Run
  PROVE  RunVerdict(r) \in {"CRITICAL", "FULL", "DEGRADED", "UNDECIDED"}
BY DEF RunVerdict, Verdict

\* The evaluator writes a known status and outcome.
LEMMA EvaluateType ==
  ASSUME TypeOK, NEW w \in Worker, Evaluate(w)
  PROVE  TypeOK'
<1>1. PICK r \in todo[w] :
        /\ runs' = [runs EXCEPT ![r] = EvaluatedRun(r)]
        /\ todo' = [todo EXCEPT ![w] = @ \ {r}]
        /\ pc' = [pc EXCEPT ![w] = IF todo[w] = {r} THEN "expire" ELSE "evaluate"]
  BY DEF Evaluate
<1>2. r \in Run /\ runs[r] \in RunRow
  BY DEF TypeOK
<1>3. EvaluatedRun(r) \in RunRow
  BY <1>2, VerdictType DEF EvaluatedRun, RunRow, OutcomeOf, FinalRunStatus
<1>4. /\ runs' \in [Run -> RunRow] /\ todo' \in [Worker -> SUBSET Run]
  BY <1>1, <1>2, <1>3 DEF TypeOK
<1>5. pc' \in [Worker -> WorkerPc] /\ \A v \in Worker : pc'[v] = "record" => pc[v] = "record"
  BY <1>1 DEF TypeOK, WorkerPc
<1>6. QED
  BY <1>4, <1>5 DEF Evaluate, TypeOK, envVars, dispatchVars

\* A crashed worker restarts with empty, typed local state.
LEMMA CrashType ==
  ASSUME TypeOK, NEW w \in Worker, Crash(w)
  PROVE  TypeOK'
<1>1. [t \in Task |-> "KEEP"] \in [Task -> Repair]
  BY DEF Repair
<1>2. /\ repair' \in [Worker -> [Task -> Repair]] /\ readAt' \in [Worker -> Nat]
      /\ locked' \in [Worker -> SUBSET Run] /\ todo' \in [Worker -> SUBSET Run]
      /\ batch' \in [Worker -> SUBSET Command]
      /\ reply' \in [Worker -> Disposition \cup {"NONE"}]
      /\ current' \in [Worker -> Command \cup {NoCommand}]
  BY <1>1 DEF Crash, TypeOK
<1>3. /\ pc' \in [Worker -> WorkerPc] /\ crashes' \in Nat
      /\ \A v \in Worker : pc'[v] = "record" => pc[v] = "record" /\ current'[v] = current[v]
  BY DEF Crash, TypeOK, WorkerPc
<1>4. QED
  BY <1>2, <1>3 DEF Crash, TypeOK, dbVars

\* The Hub's answer to a signal keeps rows typed.
LEMMA SignalType ==
  ASSUME TypeOK, NEW t \in Task, AcceptSignal(t) \/ RejectSignal(t)
  PROVE  TypeOK'
<1>1. CASE AcceptSignal(t)
  <2>1. [tasks[t] EXCEPT !.status = "SIGNAL_RECEIVED", !.owner = NoOwner, !.until = 0] \in TaskRow
    BY RowUpdate, OwnerType DEF TypeOK, TaskStatus
  <2>2. tasks' \in [Task -> TaskRow] /\ signals' \in SUBSET Task
    BY <1>1, <2>1 DEF AcceptSignal, TypeOK
  <2>3. runtime' \in [Task -> RuntimeStatus]
    BY <1>1 DEF AcceptSignal, TypeOK, RuntimeStatus
  <2>4. QED
    BY <1>1, <2>2, <2>3 DEF AcceptSignal, TypeOK, dispatchVars, recoveryVars
<1>2. CASE RejectSignal(t)
  <2>1. runtime' \in [Task -> RuntimeStatus]
    BY <1>2 DEF RejectSignal, TypeOK, RuntimeStatus
  <2>2. QED
    BY <1>2, <2>1 DEF RejectSignal, TypeOK, dbVars, dispatchVars, recoveryVars
<1>3. QED
  BY <1>1, <1>2

\* So do the clock, agent restarts and retirements.
LEMMA EnvironmentType ==
  ASSUME TypeOK, Tick \/ \E a \in Agent : AgentRestart(a) \/ DisableEndpoint(a)
  PROVE  TypeOK'
<1>1. CASE Tick
  BY <1>1 DEF Tick, TypeOK, dbVars, dispatchVars, recoveryVars
<1>2. ASSUME NEW a \in Agent, AgentRestart(a) PROVE TypeOK'
  <2>1. runtime' \in [Task -> RuntimeStatus]
    BY <1>2 DEF AgentRestart, TypeOK, RuntimeStatus
  <2>2. QED
    BY <1>2, <2>1 DEF AgentRestart, TypeOK, dbVars, dispatchVars, recoveryVars
<1>3. ASSUME NEW a \in Agent, DisableEndpoint(a) PROVE TypeOK'
  BY <1>3 DEF DisableEndpoint, TypeOK, dbVars, dispatchVars, recoveryVars
<1>4. QED
  BY <1>1, <1>2, <1>3

\* The type invariant is inductive.
LEMMA TypeStep ==
  ASSUME TypeOK, [Next]_vars
  PROVE  TypeOK'
<1>1. CASE UNCHANGED vars
  BY <1>1 DEF TypeOK, vars, dbVars, envVars, dispatchVars, recoveryVars
<1>2. CASE Next
  BY <1>2, PlanType, ExpireType, ClaimType, SendType, RecordType, ReconcileReadType,
     ReconcileWriteType, EvaluateType, CrashType, SignalType, EnvironmentType
  DEF Next, WorkerStep
<1>3. QED
  BY <1>1, <1>2

\* It holds initially.
LEMMA TypeInit == Init => TypeOK
<1> SUFFICES ASSUME Init PROVE TypeOK
  OBVIOUS
<1>1. AbsentRun \in RunRow /\ AbsentTask \in TaskRow
  BY OwnerType DEF AbsentRun, RunRow, AbsentTask, TaskRow
<1>2. [state |-> "CLOSED", failures |-> 0, open_until |-> 0] \in CircuitRow
  BY DEF CircuitRow
<1>3. \A w \in Worker : pc[w] # "record"
  BY DEF Init
<1>4. /\ runs \in [Run -> RunRow] /\ tasks \in [Task -> TaskRow]
      /\ circuit \in [Agent -> CircuitRow]
  BY <1>1, <1>2 DEF Init
<1>5. QED
  BY <1>3, <1>4 DEF Init, TypeOK, RuntimeStatus, WorkerPc, Repair

\* Every behaviour of the orchestrator keeps its tables and its workers' local
\* state typed.
THEOREM TypeCorrect == Spec => []TypeOK
BY TypeInit, TypeStep, PTL DEF Spec
-----------------------------------------------------------------------------
(* A signal is stored exactly for the tasks that are SIGNAL_RECEIVED.        *)
(* The danger is ReconcileWrite, which overwrites rows on the strength of an *)
(* older read: the invariant says what that read still guarantees.           *)

\* A pending repair of a row: its run is still locked by the transaction, so no
\* signal of the task can have been stored since the read; the row exists.
RepairFacts ==
    \A w \in Worker, t \in Task : repair[w][t] # "KEEP" =>
        /\ t.run \in locked[w]
        /\ t \notin signals
        /\ repair[w][t] # "SIGNAL_STORED"
        /\ tasks[t].status # "ABSENT"

\* A run not created yet has no tasks and no outcome.
AbsentRuns ==
    \A r \in Run : runs[r].status = "ABSENT" =>
        /\ runs[r].outcome = "NONE"
        /\ \A t \in Task : t.run = r => tasks[t].status = "ABSENT"

StoredInv == TypeOK /\ StoredIffReceived /\ RepairFacts /\ AbsentRuns

\* A step that neither creates a task nor answers one nor takes an answer back.
SameAnswers ==
    \A t \in Task :
        /\ tasks'[t].status = "SIGNAL_RECEIVED" <=> tasks[t].status = "SIGNAL_RECEIVED"
        /\ tasks'[t].status = "ABSENT" <=> tasks[t].status = "ABSENT"

\* No transaction of the dispatch loop touches a received or an absent row.
LEMMA DispatchSameAnswers ==
  ASSUME StoredInv, NEW w \in Worker, Expire(w) \/ Claim(w) \/ Record(w)
  PROVE  SameAnswers
<1>1. \A t \in Task : tasks[t] \in TaskRow
  BY DEF StoredInv, TypeOK
<1>2. CASE Expire(w)
  BY <1>1, <1>2 DEF Expire, Expired, SameAnswers, TaskRow
<1>3. CASE Claim(w)
  <2>1. PICK B \in SUBSET Claimable :
          tasks' = [t \in Task |-> IF t \in B THEN ClaimRow(w, t) ELSE tasks[t]]
    BY <1>3 DEF Claim
  <2>2. ASSUME NEW t \in Claimable
        PROVE  /\ tasks[t].status \in {"PENDING", "RETRY", "DISPATCHING"}
               /\ ClaimRow(w, t).status \in {"CANCELLED", "FAILED", "RETRY", "DISPATCHING"}
    <3>1. t \in Task /\ tasks[t].status \in {"PENDING", "RETRY", "DISPATCHING"}
      BY DEF Claimable
    <3>2. ClaimVerdict(t) \in {"CANCELLED", "FAILED", "RETRY", "DISPATCHING"}
      BY DEF ClaimVerdict
    <3>3. QED
      BY <1>1, <3>1, <3>2 DEF ClaimRow, Lease, TaskRow
  <2>3. QED
    BY <2>1, <2>2 DEF SameAnswers
<1>4. CASE Record(w)
  <2> DEFINE t == current[w].task
  <2>1. t \in Task
    BY <1>4 DEF Record, StoredInv, TypeOK, Command
  <2> HIDE DEF t
  <2>2. CASE UNCHANGED tasks
    BY <2>2 DEF SameAnswers
  <2>3. CASE HoldsLease(w, t) /\ RecordAck(w, t)
    BY <1>1, <2>1, <2>3 DEF HoldsLease, RecordAck, SameAnswers, TaskRow, StoredInv, TypeOK
  <2>4. CASE HoldsLease(w, t) /\ RecordFailure(w, t)
    <3>1. CASE CanRetry(w, t)
      <4>1. PICK delay \in 1..MaxBackoff :
              tasks' = [tasks EXCEPT ![t] =
                [tasks[t] EXCEPT !.status = "RETRY", !.after = RetryAt(t, delay),
                                 !.owner = NoOwner, !.until = 0]]
        BY <2>4, <3>1 DEF RecordFailure
      <4>2. QED
        BY <1>1, <2>1, <2>4, <4>1 DEF HoldsLease, SameAnswers, TaskRow, StoredInv, TypeOK
    <3>2. CASE ~CanRetry(w, t)
      <4>1. tasks' = [tasks EXCEPT ![t] =
              [tasks[t] EXCEPT !.status = "FAILED", !.owner = NoOwner, !.until = 0]]
        BY <2>4, <3>2 DEF RecordFailure
      <4>2. QED
        BY <1>1, <2>1, <2>4, <4>1 DEF HoldsLease, SameAnswers, TaskRow, StoredInv, TypeOK
    <3>3. QED
      BY <3>1, <3>2
  <2>5. QED
    BY <1>4, <2>2, <2>3, <2>4 DEF Record, t
<1>5. QED
  BY <1>2, <1>3, <1>4

\* The late write of a reconciliation pass does not either: this is where the
\* run lock taken by the signal's foreign key is needed.
LEMMA ReconcileSameAnswers ==
  ASSUME StoredInv, NEW w \in Worker, ReconcileWrite(w)
  PROVE  SameAnswers
<1> SUFFICES ASSUME NEW t \in Task
             PROVE  /\ tasks'[t].status = "SIGNAL_RECEIVED" <=> tasks[t].status = "SIGNAL_RECEIVED"
                    /\ tasks'[t].status = "ABSENT" <=> tasks[t].status = "ABSENT"
  BY DEF SameAnswers
<1>1. tasks[t] \in TaskRow /\ tasks'[t] = RepairedRow(t, repair[w][t], readAt[w])
  BY DEF ReconcileWrite, StoredInv, TypeOK
<1>2. CASE repair[w][t] = "KEEP"
  BY <1>1, <1>2 DEF RepairedRow
<1>3. CASE repair[w][t] # "KEEP"
  <2>1. /\ tasks[t].status # "SIGNAL_RECEIVED" /\ tasks[t].status # "ABSENT"
        /\ repair[w][t] # "SIGNAL_STORED"
    BY <1>3 DEF StoredInv, RepairFacts, StoredIffReceived
  <2>2. repair[w][t] \in {"LEASE_EXPIRED", "SIGNAL_TIMEOUT"}
    BY <1>3, <2>1 DEF StoredInv, TypeOK, Repair
  <2>3. tasks'[t].status \in {"RETRY", "TIMED_OUT"}
    BY <1>1, <2>2 DEF RepairedRow, TaskRow
  <2>4. QED
    BY <2>1, <2>3
<1>4. QED
  BY <1>2, <1>3

\* What every step other than Plan and AcceptSignal preserves; a run's outcome
\* is written by Plan and Evaluate alone.
LEMMA StoredKept ==
  ASSUME StoredInv, TypeOK', SameAnswers, UNCHANGED signals,
         \A r \in Run : runs'[r].status = "ABSENT" => runs'[r] = runs[r],
         \A w \in Worker, t \in Task : repair'[w][t] # "KEEP" =>
             repair'[w][t] = repair[w][t] /\ locked'[w] = locked[w]
  PROVE  StoredInv'
<1>1. StoredIffReceived'
  BY DEF StoredInv, StoredIffReceived, SameAnswers
<1>2. RepairFacts'
  <2> SUFFICES ASSUME NEW w \in Worker, NEW t \in Task, repair'[w][t] # "KEEP"
               PROVE  /\ t.run \in locked'[w]
                      /\ t \notin signals'
                      /\ repair'[w][t] # "SIGNAL_STORED"
                      /\ tasks'[t].status # "ABSENT"
    BY DEF RepairFacts
  <2>1. QED
    BY DEF StoredInv, RepairFacts, SameAnswers
<1>3. AbsentRuns'
  BY DEF StoredInv, AbsentRuns, SameAnswers
<1>4. QED
  BY <1>1, <1>2, <1>3 DEF StoredInv

\* Planning inserts rows only for a run that had none.
LEMMA PlanStored ==
  ASSUME StoredInv, NEW r \in Run, Plan(r)
  PROVE  StoredInv'
<1>1. TypeOK'
  BY PlanType DEF StoredInv
<1>0. PICK chosen \in SUBSET Task, critical \in BOOLEAN, gap \in BOOLEAN :
        PlanWrites(r, chosen, critical, gap)
  BY PlanRows
<1>2. /\ \A t \in chosen : t.run = r
      /\ \A t \in Task \ chosen : tasks'[t] = tasks[t]
      /\ \A t \in chosen : tasks'[t].status \in {"CANCELLED", "PENDING"}
  BY <1>0 DEF PlanWrites, Routed, AbsentTask
<1>3. \A t \in chosen : tasks[t].status = "ABSENT" /\ t \notin signals
  BY <1>2 DEF Plan, StoredInv, AbsentRuns, StoredIffReceived
<1>4. StoredIffReceived'
  BY <1>2, <1>3 DEF Plan, StoredInv, StoredIffReceived
<1>5. RepairFacts'
  <2>1. UNCHANGED <<signals, locked, repair>>
    BY DEF Plan, recoveryVars
  <2>2. \A t \in Task : tasks[t].status # "ABSENT" => tasks'[t].status # "ABSENT"
    BY <1>2, <1>3
  <2>3. QED
    BY <2>1, <2>2 DEF StoredInv, RepairFacts
<1>6. AbsentRuns'
  <2>1. runs'[r].status # "ABSENT" /\ \A q \in Run \ {r} : runs'[q] = runs[q]
    BY <1>0 DEF PlanWrites, StoredInv, TypeOK
  <2>2. QED
    BY <1>2, <2>1 DEF StoredInv, AbsentRuns
<1>7. QED
  BY <1>1, <1>4, <1>5, <1>6 DEF StoredInv

\* Accepting a signal writes the signal and the task's status together, and never
\* under a pending repair.
LEMMA AcceptStored ==
  ASSUME StoredInv, NEW t \in Task, AcceptSignal(t)
  PROVE  StoredInv'
<1>1. TypeOK'
  BY SignalType DEF StoredInv
<1>2. /\ tasks'[t].status = "SIGNAL_RECEIVED" /\ tasks[t].status # "ABSENT"
      /\ \A u \in Task \ {t} : tasks'[u] = tasks[u]
      /\ signals' = signals \cup {t}
      /\ UNCHANGED <<runs, locked, repair>>
  BY DEF AcceptSignal, Accepting, StoredInv, TypeOK, TaskRow, recoveryVars
<1>3. StoredIffReceived'
  BY <1>2 DEF StoredInv, StoredIffReceived
<1>4. RepairFacts'
  <2>1. \A w \in Worker : repair[w][t] = "KEEP"
    BY DEF AcceptSignal, SignalInsertable, Locked, StoredInv, RepairFacts
  <2>2. QED
    BY <1>2, <2>1 DEF StoredInv, RepairFacts
<1>5. AbsentRuns'
  BY <1>2, TaskFields DEF StoredInv, AbsentRuns
<1>6. QED
  BY <1>1, <1>3, <1>4, <1>5 DEF StoredInv

\* A repair decided now is never SIGNAL_STORED, and never for a received row.
LEMMA ReconcileReadStored ==
  ASSUME StoredInv, NEW w \in Worker, ReconcileRead(w)
  PROVE  StoredInv'
<1>1. TypeOK'
  BY ReconcileReadType DEF StoredInv
<1>2. StoredIffReceived' /\ AbsentRuns'
  BY DEF ReconcileRead, dbVars, StoredInv, StoredIffReceived, AbsentRuns
<1>3. RepairFacts'
  <2> SUFFICES ASSUME NEW v \in Worker, NEW t \in Task, repair'[v][t] # "KEEP"
               PROVE  /\ t.run \in locked'[v]
                      /\ t \notin signals
                      /\ repair'[v][t] # "SIGNAL_STORED"
                      /\ tasks[t].status # "ABSENT"
    BY DEF RepairFacts, ReconcileRead, dbVars
  <2>1. CASE v = w
    <3>1. t.run \in locked'[w] /\ repair'[w][t] = RepairOf(t)
      BY <2>1 DEF ReconcileRead, StoredInv, TypeOK
    <3>2. t \in signals => tasks[t].status = "SIGNAL_RECEIVED"
      BY DEF StoredInv, StoredIffReceived
    <3>3. QED
      BY <2>1, <3>1, <3>2 DEF RepairOf
  <2>2. CASE v # w
    BY <2>2 DEF ReconcileRead, StoredInv, TypeOK, RepairFacts
  <2>3. QED
    BY <2>1, <2>2
<1>4. QED
  BY <1>1, <1>2, <1>3 DEF StoredInv

\* Every other step: the premises of StoredKept, one action at a time.
LEMMA WorkerStored ==
  ASSUME StoredInv, NEW w \in Worker,
         Expire(w) \/ Claim(w) \/ Send(w) \/ Record(w) \/ ReconcileWrite(w)
           \/ Evaluate(w) \/ Crash(w)
  PROVE  StoredInv'
<1>1. CASE Expire(w)
  <2>1. TypeOK' /\ SameAnswers
    BY <1>1, ExpireType, DispatchSameAnswers DEF StoredInv
  <2>2. UNCHANGED <<signals, runs, repair, locked>>
    BY <1>1 DEF Expire, recoveryVars
  <2>3. QED
    BY <2>1, <2>2, StoredKept
<1>2. CASE Claim(w)
  <2>1. TypeOK' /\ SameAnswers
    BY <1>2, ClaimType, DispatchSameAnswers DEF StoredInv
  <2>2. UNCHANGED <<signals, runs, repair, locked>>
    BY <1>2 DEF Claim, recoveryVars
  <2>3. QED
    BY <2>1, <2>2, StoredKept
<1>3. CASE Send(w)
  <2>1. UNCHANGED <<signals, runs, tasks, repair, locked>>
    BY <1>3 DEF Send, dbVars, recoveryVars
  <2>2. TypeOK' /\ SameAnswers
    BY <1>3, <2>1, SendType DEF StoredInv, SameAnswers
  <2>3. QED
    BY <2>1, <2>2, StoredKept
<1>4. CASE Record(w)
  <2>1. TypeOK' /\ SameAnswers
    BY <1>4, RecordType, DispatchSameAnswers DEF StoredInv
  <2>2. UNCHANGED <<signals, repair, locked>>
    BY <1>4 DEF Record, recoveryVars
  <2>3. \A r \in Run : runs'[r].status = "ABSENT" => runs'[r] = runs[r]
    <3>1. UNCHANGED runs \/ runs' = [runs EXCEPT ![current[w].task.run].status = "COLLECTING"]
      BY <1>4 DEF Record, RecordAck, RecordFailure
    <3>2. QED
      BY <3>1 DEF StoredInv, TypeOK, RunRow
  <2>4. QED
    BY <2>1, <2>2, <2>3, StoredKept
<1>5. CASE ReconcileWrite(w)
  <2>1. TypeOK' /\ SameAnswers
    BY <1>5, ReconcileWriteType, ReconcileSameAnswers DEF StoredInv
  <2>2. /\ UNCHANGED signals
        /\ \A v \in Worker, t \in Task : repair'[v][t] # "KEEP" =>
             repair'[v][t] = repair[v][t] /\ locked'[v] = locked[v]
    BY <1>5 DEF ReconcileWrite, StoredInv, TypeOK
  <2>3. \A r \in Run : runs'[r].status = "ABSENT" => runs'[r] = runs[r]
    BY <1>5 DEF ReconcileWrite, StoredInv, TypeOK, RunRow
  <2>4. QED
    BY <2>1, <2>2, <2>3, StoredKept
<1>6. CASE Evaluate(w)
  <2>1. UNCHANGED <<signals, tasks, repair, locked>>
    BY <1>6 DEF Evaluate
  <2>2. TypeOK' /\ SameAnswers
    BY <1>6, <2>1, EvaluateType DEF StoredInv, SameAnswers
  <2>3. \A r \in Run : runs'[r].status = "ABSENT" => runs'[r] = runs[r]
    <3>1. PICK q \in Run : runs' = [runs EXCEPT ![q] = EvaluatedRun(q)]
      BY <1>6 DEF Evaluate, StoredInv, TypeOK
    <3>2. EvaluatedRun(q) = runs[q] \/ EvaluatedRun(q).status # "ABSENT"
      BY <3>1, VerdictType DEF EvaluatedRun, StoredInv, TypeOK, RunRow
    <3>3. QED
      BY <3>1, <3>2 DEF StoredInv, TypeOK
  <2>4. QED
    BY <2>1, <2>2, <2>3, StoredKept
<1>7. CASE Crash(w)
  <2>1. UNCHANGED <<signals, runs, tasks>>
    BY <1>7 DEF Crash, dbVars
  <2>2. TypeOK' /\ SameAnswers
    BY <1>7, <2>1, CrashType DEF StoredInv, SameAnswers
  <2>3. \A v \in Worker, t \in Task : repair'[v][t] # "KEEP" =>
          repair'[v][t] = repair[v][t] /\ locked'[v] = locked[v]
    BY <1>7 DEF Crash, StoredInv, TypeOK
  <2>4. QED
    BY <2>1, <2>2, <2>3, StoredKept
<1>8. QED
  BY <1>1, <1>2, <1>3, <1>4, <1>5, <1>6, <1>7

\* StoredInv is inductive.
LEMMA StoredStep ==
  ASSUME StoredInv, [Next]_vars
  PROVE  StoredInv'
<1>1. TypeOK'
  BY TypeStep DEF StoredInv
<1>2. ASSUME UNCHANGED <<signals, runs, tasks, repair, locked>> PROVE StoredInv'
  <2>1. SameAnswers
    BY <1>2 DEF SameAnswers
  <2>2. QED
    BY <1>1, <1>2, <2>1, StoredKept
<1>3. CASE UNCHANGED vars
  BY <1>2, <1>3 DEF vars, dbVars, recoveryVars
<1>4. ASSUME NEW t \in Task, RejectSignal(t) PROVE StoredInv'
  BY <1>2, <1>4 DEF RejectSignal, dbVars, recoveryVars
<1>5. ASSUME NEW a \in Agent, AgentRestart(a) \/ DisableEndpoint(a) PROVE StoredInv'
  BY <1>2, <1>5 DEF AgentRestart, DisableEndpoint, dbVars, recoveryVars
<1>6. CASE Tick
  BY <1>2, <1>6 DEF Tick, dbVars, recoveryVars
<1>7. CASE Next
  BY <1>4, <1>5, <1>6, <1>7, PlanStored, AcceptStored, ReconcileReadStored, WorkerStored
  DEF Next, WorkerStep
<1>8. QED
  BY <1>3, <1>7

\* StoredInv holds initially.
LEMMA StoredInit == Init => StoredInv
<1> SUFFICES ASSUME Init PROVE StoredInv
  OBVIOUS
<1>1. TypeOK
  BY TypeInit
<1>2. StoredIffReceived /\ RepairFacts /\ AbsentRuns
  BY DEF Init, StoredIffReceived, RepairFacts, AbsentRuns, AbsentTask, AbsentRun
<1>3. QED
  BY <1>1, <1>2 DEF StoredInv

\* StoredInv is an invariant of the orchestrator.
LEMMA StoredInvariant == Spec => []StoredInv
BY StoredInit, StoredStep, PTL DEF Spec

\* A task is SIGNAL_RECEIVED exactly when the Hub stored its signal, although
\* reconciliation writes back rows it read without a lock: the key-share lock of
\* the signal's foreign key keeps the Hub out of a run being reconciled.
THEOREM AnswersNeverLost == Spec => []StoredIffReceived
<1>1. StoredInv => StoredIffReceived
  BY DEF StoredInv
<1>2. QED
  BY <1>1, StoredInvariant, PTL
-----------------------------------------------------------------------------
(* An outcome keeps its promise: the planned tasks of a run never change and *)
(* their answers are never taken back.                                       *)

AnswersGrow(r) ==
    \A t \in Task : t.run = r =>
        /\ tasks[t].status = "SIGNAL_RECEIVED" => tasks'[t].status = "SIGNAL_RECEIVED"
        /\ tasks'[t].status = "ABSENT" <=> tasks[t].status = "ABSENT"

\* Once a run exists no step adds or removes a task of it, or loses an answer.
LEMMA AnswersOnlyGrow ==
  ASSUME StoredInv, [Next]_vars, NEW r \in Run, runs[r].status # "ABSENT"
  PROVE  AnswersGrow(r)
<1>1. ASSUME SameAnswers PROVE AnswersGrow(r)
  BY <1>1 DEF SameAnswers, AnswersGrow
<1>2. ASSUME UNCHANGED tasks PROVE AnswersGrow(r)
  BY <1>2 DEF AnswersGrow
<1>3. CASE UNCHANGED vars
  BY <1>2, <1>3 DEF vars, dbVars
<1>4. ASSUME NEW q \in Run, Plan(q) PROVE AnswersGrow(r)
  <2>1. PICK chosen \in SUBSET Task, critical \in BOOLEAN, gap \in BOOLEAN :
          PlanWrites(q, chosen, critical, gap)
    BY <1>4, PlanRows
  <2>2. q # r
    BY <1>4 DEF Plan
  <2>3. \A t \in Task : t.run = r => tasks'[t] = tasks[t]
    BY <2>1, <2>2 DEF PlanWrites, Routed
  <2>4. QED
    BY <2>3 DEF AnswersGrow
<1>5. ASSUME NEW w \in Worker, WorkerStep(w) \/ Crash(w) PROVE AnswersGrow(r)
  <2>1. CASE Expire(w) \/ Claim(w) \/ Record(w) \/ ReconcileWrite(w)
    BY <1>1, <2>1, DispatchSameAnswers, ReconcileSameAnswers
  <2>2. CASE Send(w) \/ ReconcileRead(w) \/ Evaluate(w) \/ Crash(w)
    BY <1>2, <2>2 DEF Send, ReconcileRead, Evaluate, Crash, dbVars
  <2>3. QED
    BY <1>5, <2>1, <2>2 DEF WorkerStep
<1>6. ASSUME NEW t \in Task, AcceptSignal(t) PROVE AnswersGrow(r)
  BY <1>6 DEF AcceptSignal, Accepting, AnswersGrow, StoredInv, TypeOK, TaskRow
<1>7. ASSUME \/ Tick \/ \E t \in Task : RejectSignal(t)
             \/ \E a \in Agent : AgentRestart(a) \/ DisableEndpoint(a)
      PROVE  AnswersGrow(r)
  BY <1>2, <1>7 DEF Tick, RejectSignal, AgentRestart, DisableEndpoint, dbVars
<1>8. QED
  BY <1>3, <1>4, <1>5, <1>6, <1>7 DEF Next

\* The outcome column is written by the planner, never as FULL or DEGRADED, and
\* by the evaluator, from the task rows as they are at that moment.
OutcomeWritten(r) ==
    \/ runs'[r].outcome = runs[r].outcome
    \/ runs'[r].outcome \notin {"FULL", "DEGRADED"}
    \/ tasks' = tasks /\ runs'[r].outcome = RunVerdict(r)

\* No other step touches the column.
LEMMA OutcomeWriters ==
  ASSUME StoredInv, [Next]_vars, NEW r \in Run
  PROVE  OutcomeWritten(r)
<1>1. ASSUME UNCHANGED runs PROVE OutcomeWritten(r)
  BY <1>1 DEF OutcomeWritten
<1>2. ASSUME NEW q \in Run, Plan(q) PROVE OutcomeWritten(r)
  <2>1. PICK chosen \in SUBSET Task, critical \in BOOLEAN, gap \in BOOLEAN :
          PlanWrites(q, chosen, critical, gap)
    BY <1>2, PlanRows
  <2>2. QED
    BY <2>1 DEF PlanWrites, OutcomeWritten, StoredInv, TypeOK
<1>3. ASSUME NEW w \in Worker, Record(w) PROVE OutcomeWritten(r)
  <2>1. UNCHANGED runs \/ runs' = [runs EXCEPT ![current[w].task.run].status = "COLLECTING"]
    BY <1>3 DEF Record, RecordAck, RecordFailure
  <2>2. runs[r] \in RunRow /\ runs \in [Run -> RunRow]
    BY DEF StoredInv, TypeOK
  <2>3. runs'[r].outcome = runs[r].outcome
    BY <2>1, <2>2 DEF RunRow
  <2>4. QED
    BY <2>3 DEF OutcomeWritten
<1>4. ASSUME NEW w \in Worker, ReconcileWrite(w) PROVE OutcomeWritten(r)
  BY <1>4 DEF ReconcileWrite, OutcomeWritten, StoredInv, TypeOK, RunRow
<1>5. ASSUME NEW w \in Worker, Evaluate(w) PROVE OutcomeWritten(r)
  <2>1. PICK q \in Run : runs' = [runs EXCEPT ![q] = EvaluatedRun(q)]
    BY <1>5 DEF Evaluate, StoredInv, TypeOK
  <2>2. \/ EvaluatedRun(q).outcome = runs[q].outcome
        \/ EvaluatedRun(q).outcome \notin {"FULL", "DEGRADED"}
        \/ EvaluatedRun(q).outcome = RunVerdict(q)
    <3>1. runs[q] \in RunRow
      BY <2>1 DEF StoredInv, TypeOK
    <3>2. \A s, o : [runs[q] EXCEPT !.status = s, !.outcome = o].outcome = o
      BY <3>1 DEF RunRow
    <3>3. QED
      BY <3>2 DEF EvaluatedRun, OutcomeOf
  <2>3. UNCHANGED tasks
    BY <1>5 DEF Evaluate
  <2>4. QED
    BY <2>1, <2>2, <2>3 DEF OutcomeWritten, StoredInv, TypeOK
<1>6. ASSUME NEW w \in Worker,
             Expire(w) \/ Claim(w) \/ Send(w) \/ ReconcileRead(w) \/ Crash(w)
      PROVE  OutcomeWritten(r)
  BY <1>1, <1>6 DEF Expire, Claim, Send, ReconcileRead, Crash, dbVars
<1>7. ASSUME NEW t \in Task, AcceptSignal(t) \/ RejectSignal(t) PROVE OutcomeWritten(r)
  BY <1>1, <1>7 DEF AcceptSignal, RejectSignal, dbVars
<1>8. ASSUME Tick \/ \E a \in Agent : AgentRestart(a) \/ DisableEndpoint(a)
      PROVE  OutcomeWritten(r)
  BY <1>1, <1>8 DEF Tick, AgentRestart, DisableEndpoint, dbVars
<1>9. CASE UNCHANGED vars
  BY <1>1, <1>9 DEF vars, dbVars
<1>10. QED
  BY <1>2, <1>3, <1>4, <1>5, <1>6, <1>7, <1>8, <1>9 DEF Next, WorkerStep

OutcomeInv == StoredInv /\ OutcomeSound

\* What the quorum counts: with the same planned tasks and at least the same
\* answers, a complete run stays complete and no required capability goes missing.
LEMMA CompleteStays ==
  ASSUME NEW r \in Run, AnswersGrow(r), AllReceived(Planned(r), Status)
  PROVE  AllReceived(Planned(r), Status)'
BY DEF AnswersGrow, AllReceived, Planned, Status

\* The same for the minimum of every required capability, by cardinality.
LEMMA MinimumStays ==
  ASSUME NEW r \in Run, AnswersGrow(r), Missing(Planned(r), Status, Policy) = {}
  PROVE  Missing(Planned(r), Status, Policy)' = {}
<1> SUFFICES ASSUME NEW c \in DOMAIN Policy, Policy[c].required
             PROVE  MinimumMet(Planned(r), Status, Policy, c)'
  BY DEF Missing
<1> DEFINE R == Received(CapabilityTasks(Planned(r), c), Status)
<1>1. R \subseteq R'
  BY DEF AnswersGrow, Received, CapabilityTasks, Planned, Status
<1>2. R' \subseteq Task
  BY DEF Received, CapabilityTasks, Planned
<1>3. IsFiniteSet(R') /\ IsFiniteSet(R)
  BY <1>1, <1>2, FS_Subset, PolicyAssumption
<1>4. Cardinality(R) <= Cardinality(R')
  BY <1>1, <1>3, FS_Subset
<1>5. Cardinality(R) \in Nat /\ Cardinality(R') \in Nat
  BY <1>3, FS_CardinalityType
<1>6. Cardinality(R) >= Policy[c].minimum
  BY DEF Missing, MinimumMet
<1>7. Policy[c].minimum \in Nat
  BY PolicyAssumption
<1> HIDE DEF R
<1>8. Cardinality(R') >= Policy[c].minimum
  BY <1>4, <1>5, <1>6, <1>7
<1>9. QED
  BY <1>8 DEF MinimumMet, R

\* What the evaluator checked before it wrote FULL or DEGRADED.
LEMMA VerdictSound ==
  ASSUME NEW r \in Run
  PROVE  /\ RunVerdict(r) = "FULL" => AllReceived(Planned(r), Status)
         /\ RunVerdict(r) = "DEGRADED" => Missing(Planned(r), Status, Policy) = {}
<1>1. RunVerdict(r) = "FULL" => AllReceived(Planned(r), Status)
  BY DEF RunVerdict, Verdict
<1>2. ASSUME RunVerdict(r) = "DEGRADED" PROVE Missing(Planned(r), Status, Policy) = {}
  BY <1>2 DEF RunVerdict, Verdict
<1>3. QED
  BY <1>1, <1>2

\* OutcomeInv is inductive.
LEMMA OutcomeStep ==
  ASSUME OutcomeInv, [Next]_vars
  PROVE  OutcomeInv'
<1>1. StoredInv /\ StoredInv'
  BY StoredStep DEF OutcomeInv
<1>2. ASSUME NEW r \in Run
      PROVE  /\ runs'[r].outcome = "FULL" => AllReceived(Planned(r), Status)'
             /\ runs'[r].outcome = "DEGRADED" => Missing(Planned(r), Status, Policy)' = {}
  <2>1. OutcomeWritten(r)
    BY <1>1, OutcomeWriters
  <2>2. CASE runs'[r].outcome = runs[r].outcome
    <3>1. CASE runs[r].status = "ABSENT"
      BY <1>1, <2>2, <3>1 DEF StoredInv, AbsentRuns
    <3>2. CASE runs[r].status # "ABSENT"
      <4>1. AnswersGrow(r)
        BY <1>1, <3>2, AnswersOnlyGrow
      <4>2. QED
        BY <2>2, <4>1, CompleteStays, MinimumStays DEF OutcomeInv, OutcomeSound
    <3>3. QED
      BY <3>1, <3>2
  <2>3. CASE tasks' = tasks /\ runs'[r].outcome = RunVerdict(r)
    <3>1. Planned(r)' = Planned(r) /\ Status' = Status
      BY <2>3 DEF Planned, Status
    <3>2. QED
      BY <2>3, <3>1, VerdictSound
  <2>4. QED
    BY <2>1, <2>2, <2>3 DEF OutcomeWritten
<1>3. OutcomeSound'
  BY <1>2 DEF OutcomeSound
<1>4. QED
  BY <1>1, <1>3 DEF OutcomeInv

\* OutcomeInv holds initially.
LEMMA OutcomeInit == Init => OutcomeInv
<1>1. Init => OutcomeSound
  BY DEF Init, OutcomeSound, AbsentRun
<1>2. QED
  BY <1>1, StoredInit DEF OutcomeInv

\* A FULL run has every planned answer and a DEGRADED run the minimum of every
\* required capability, at the evaluation and for ever after.
THEOREM OutcomesKeepTheirPromise == Spec => []OutcomeSound
<1>1. OutcomeInv => OutcomeSound
  BY DEF OutcomeInv
<1>2. QED
  BY <1>1, OutcomeInit, OutcomeStep, PTL DEF Spec
-----------------------------------------------------------------------------
(* The circuit breaker *)

CircuitInv == TypeOK /\ CircuitCountsFailures

\* One breaker row: a failure counts up and opens at the threshold, whatever
\* the row's state was.
LEMMA FailureOpensAtThreshold ==
  ASSUME CircuitInv, NEW a \in Agent
  PROVE  FailedCircuit(a).state = "CLOSED" <=> FailedCircuit(a).failures < CircuitThreshold
<1>1. circuit[a] \in CircuitRow
  BY DEF CircuitInv, TypeOK
<1>2. circuit[a].state = "CLOSED" <=> circuit[a].failures < CircuitThreshold
  BY DEF CircuitInv, CircuitCountsFailures
<1>3. QED
  BY <1>1, <1>2, TimingAssumption DEF FailedCircuit, CircuitRow

\* CircuitCountsFailures is inductive: only _claim and _record_result write breaker rows.
LEMMA CircuitStep ==
  ASSUME CircuitInv, [Next]_vars
  PROVE  CircuitInv'
<1>1. TypeOK /\ TypeOK'
  BY TypeStep DEF CircuitInv
<1>2. \A a \in Agent : circuit[a] \in CircuitRow
  BY <1>1 DEF TypeOK
<1>3. ASSUME UNCHANGED circuit PROVE CircuitCountsFailures'
  BY <1>3 DEF CircuitInv, CircuitCountsFailures
<1>4. ASSUME NEW w \in Worker, Claim(w) PROVE CircuitCountsFailures'
  <2>1. ASSUME NEW a \in Agent
        PROVE  \/ circuit'[a] = circuit[a]
               \/ circuit[a].state = "OPEN" /\ circuit'[a] = [circuit[a] EXCEPT !.state = "HALF_OPEN"]
    BY <1>4 DEF Claim
  <2>2. QED
    BY <1>2, <2>1 DEF CircuitInv, CircuitCountsFailures, CircuitRow
<1>5. ASSUME NEW w \in Worker, Record(w) PROVE CircuitCountsFailures'
  <2>1. PICK b \in Agent :
          \/ circuit' = circuit
          \/ circuit' = [circuit EXCEPT ![b] =
                           [state |-> "CLOSED", failures |-> 0, open_until |-> 0]]
          \/ circuit' = [circuit EXCEPT ![b] = FailedCircuit(b)]
    <3>1. current[w].task \in Task
      BY <1>1, <1>5 DEF Record, TypeOK, Command
    <3>2. current[w].task.agent \in Agent
      BY <3>1, TaskFields
    <3>3. QED
      BY <1>5, <3>2 DEF Record, RecordAck, RecordFailure
  <2>2. circuit \in [Agent -> CircuitRow] /\ CircuitThreshold \in Nat \ {0}
    BY <1>1, TimingAssumption DEF TypeOK
  <2>3. CASE circuit' = [circuit EXCEPT ![b] = FailedCircuit(b)]
    <3>1. FailedCircuit(b).state = "CLOSED" <=> FailedCircuit(b).failures < CircuitThreshold
      BY FailureOpensAtThreshold
    <3>2. circuit'[b] = FailedCircuit(b) /\ \A a \in Agent \ {b} : circuit'[a] = circuit[a]
      BY <2>2, <2>3
    <3>3. QED
      BY <3>1, <3>2 DEF CircuitInv, CircuitCountsFailures
  <2>4. CASE circuit' = [circuit EXCEPT ![b] =
                           [state |-> "CLOSED", failures |-> 0, open_until |-> 0]]
    BY <2>2, <2>4 DEF CircuitInv, CircuitCountsFailures
  <2>5. QED
    BY <1>3, <2>1, <2>3, <2>4
<1>6. ASSUME NEW w \in Worker,
             \/ Expire(w) \/ Send(w) \/ ReconcileRead(w) \/ ReconcileWrite(w)
             \/ Evaluate(w) \/ Crash(w)
      PROVE  UNCHANGED circuit
  BY <1>6 DEF Expire, Send, ReconcileRead, ReconcileWrite, Evaluate, Crash, dbVars
<1>7. ASSUME \/ \E r \in Run : Plan(r)
             \/ \E t \in Task : AcceptSignal(t) \/ RejectSignal(t)
             \/ \E a \in Agent : AgentRestart(a) \/ DisableEndpoint(a)
             \/ Tick \/ UNCHANGED vars
      PROVE  UNCHANGED circuit
  BY <1>7 DEF Plan, AcceptSignal, RejectSignal, AgentRestart, DisableEndpoint, Tick,
              vars, dbVars
<1>8. CircuitCountsFailures'
  BY <1>3, <1>4, <1>5, <1>6, <1>7 DEF Next, WorkerStep
<1>9. QED
  BY <1>1, <1>8 DEF CircuitInv

\* The breaker of an agent is closed exactly while it has counted fewer
\* consecutive failures than the threshold, so a failed half-open dispatch
\* reopens it at once, whatever the dispatch worker and its crashes do.
THEOREM BreakerCounts == Spec => []CircuitCountsFailures
<1>1. Init => CircuitInv
  <2>1. Init => CircuitCountsFailures
    BY TimingAssumption DEF Init, CircuitCountsFailures
  <2>2. QED
    BY <2>1, TypeInit DEF CircuitInv
<1>2. CircuitInv => CircuitCountsFailures
  BY DEF CircuitInv
<1>3. QED
  BY <1>1, <1>2, CircuitStep, PTL DEF Spec
-----------------------------------------------------------------------------
(* Lease fencing.  An answer carries no attempt number: the code compares the *)
(* row's owner with the worker's instance id.  That is enough when instance   *)
(* ids are distinct, because a worker forgets its commands before it claims   *)
(* again.                                                                     *)

OwnersDistinct == \A v, w \in Worker : Owner[v] = Owner[w] => v = w

\* The commands a worker still has to send or to record.
Pending(w) == batch[w] \cup ({current[w]} \cap Command)

\* A pending command whose task the worker still holds is for the row's attempt.
FencedCommands ==
    \A w \in Worker : \A c \in Pending(w) :
        HoldsLease(w, c.task) => tasks[c.task].attempts = c.attempt

\* A worker that claims has nothing pending.
ClaimsWithEmptyHands ==
    \A w \in Worker :
        /\ pc[w] \notin {"send", "record"} => batch[w] = {}
        /\ pc[w] # "record" => current[w] = NoCommand

LeaseInv == TypeOK /\ ClaimsWithEmptyHands /\ FencedCommands

\* A step that gives no lease: a row leased afterwards has not been written.
NoNewLease == \A t \in Task : tasks'[t].status = "DISPATCHING" => tasks'[t] = tasks[t]

\* Without a new lease, a worker that takes no new command stays fenced.
LEMMA FencedKept ==
  ASSUME LeaseInv, NoNewLease, TypeOK',
         \A w \in Worker : Pending(w)' \subseteq Pending(w)
  PROVE  FencedCommands'
<1> SUFFICES ASSUME NEW w \in Worker, NEW c \in Pending(w)', HoldsLease(w, c.task)'
             PROVE  tasks'[c.task].attempts = c.attempt
  BY DEF FencedCommands
<1>1. c \in Pending(w) /\ c \in Command
  BY DEF Pending, LeaseInv, TypeOK
<1>2. c.task \in Task
  BY <1>1 DEF Command
<1>3. tasks'[c.task] = tasks[c.task]
  BY <1>2 DEF HoldsLease, NoNewLease
<1>4. HoldsLease(w, c.task)
  BY <1>3 DEF HoldsLease
<1>5. QED
  BY <1>1, <1>3, <1>4 DEF LeaseInv, FencedCommands

\* Only _claim leases.
LEMMA OnlyClaimLeases ==
  ASSUME LeaseInv, [Next]_vars, ~\E w \in Worker : Claim(w)
  PROVE  NoNewLease
<1>1. \A t \in Task : tasks[t] \in TaskRow
  BY DEF LeaseInv, TypeOK
<1>2. ASSUME UNCHANGED tasks PROVE NoNewLease
  BY <1>2 DEF NoNewLease
<1>3. ASSUME NEW r \in Run, Plan(r) PROVE NoNewLease
  <2>1. PICK chosen \in SUBSET Task, critical \in BOOLEAN, gap \in BOOLEAN :
          PlanWrites(r, chosen, critical, gap)
    BY <1>3, PlanRows
  <2>2. QED
    BY <2>1 DEF PlanWrites, AbsentTask, NoNewLease
<1>4. ASSUME NEW w \in Worker, Expire(w) PROVE NoNewLease
  BY <1>1, <1>4 DEF Expire, NoNewLease, TaskRow
<1>5. ASSUME NEW w \in Worker, Record(w) PROVE NoNewLease
  <2> DEFINE t == current[w].task
  <2>1. t \in Task /\ tasks \in [Task -> TaskRow]
    BY <1>5 DEF Record, LeaseInv, TypeOK, Command
  <2> HIDE DEF t
  <2>2. CASE RecordAck(w, t)
    BY <1>1, <2>1, <2>2 DEF RecordAck, NoNewLease, TaskRow
  <2>3. CASE RecordFailure(w, t) /\ CanRetry(w, t)
    <3>1. PICK delay \in 1..MaxBackoff :
            tasks' = [tasks EXCEPT ![t] =
              [tasks[t] EXCEPT !.status = "RETRY", !.after = RetryAt(t, delay),
                               !.owner = NoOwner, !.until = 0]]
      BY <2>3 DEF RecordFailure
    <3>2. QED
      BY <1>1, <2>1, <3>1 DEF NoNewLease, TaskRow
  <2>4. CASE RecordFailure(w, t) /\ ~CanRetry(w, t)
    BY <1>1, <2>1, <2>4 DEF RecordFailure, NoNewLease, TaskRow
  <2>5. QED
    BY <1>2, <1>5, <2>2, <2>3, <2>4 DEF Record, t
<1>6. ASSUME NEW w \in Worker, ReconcileWrite(w) PROVE NoNewLease
  <2>1. ASSUME NEW t \in Task
        PROVE  tasks'[t] = tasks[t] \/ tasks'[t].status # "DISPATCHING"
    <3>1. tasks'[t] = RepairedRow(t, repair[w][t], readAt[w])
      BY <1>6 DEF ReconcileWrite
    <3>2. QED
      BY <1>1, <3>1 DEF RepairedRow, TaskRow
  <2>2. QED
    BY <2>1 DEF NoNewLease
<1>7. ASSUME NEW t \in Task, AcceptSignal(t) PROVE NoNewLease
  BY <1>1, <1>7 DEF AcceptSignal, NoNewLease, TaskRow, LeaseInv, TypeOK
<1>8. ASSUME NEW w \in Worker, Send(w) \/ ReconcileRead(w) \/ Evaluate(w) \/ Crash(w)
      PROVE  NoNewLease
  BY <1>2, <1>8 DEF Send, ReconcileRead, Evaluate, Crash, dbVars
<1>9. ASSUME \/ Tick \/ UNCHANGED vars \/ \E t \in Task : RejectSignal(t)
             \/ \E a \in Agent : AgentRestart(a) \/ DisableEndpoint(a)
      PROVE  NoNewLease
  BY <1>2, <1>9 DEF Tick, RejectSignal, AgentRestart, DisableEndpoint, vars, dbVars
<1>10. QED
  BY <1>3, <1>4, <1>5, <1>6, <1>7, <1>8, <1>9 DEF Next, WorkerStep

\* A worker has commands pending only while it is dispatching a batch.
LEMMA EmptyHandsStep ==
  ASSUME LeaseInv, [Next]_vars
  PROVE  /\ ClaimsWithEmptyHands'
         /\ \A w \in Worker : Claim(w) \/ Pending(w)' \subseteq Pending(w)
<1>1. TypeOK /\ ClaimsWithEmptyHands
  BY DEF LeaseInv
<1>2. ASSUME UNCHANGED <<pc, batch, current>>
      PROVE  /\ ClaimsWithEmptyHands'
             /\ \A v \in Worker : Pending(v)' \subseteq Pending(v)
  BY <1>1, <1>2 DEF ClaimsWithEmptyHands, Pending
<1>3. ASSUME NEW w \in Worker,
             Expire(w) \/ ReconcileRead(w) \/ ReconcileWrite(w) \/ Evaluate(w)
      PROVE  /\ ClaimsWithEmptyHands'
             /\ \A v \in Worker : Pending(v)' \subseteq Pending(v)
  <2>1. /\ UNCHANGED <<batch, current>> /\ pc[w] \notin {"send", "record"}
        /\ \A v \in Worker \ {w} : pc'[v] = pc[v]
    BY <1>1, <1>3 DEF Expire, ReconcileRead, ReconcileWrite, Evaluate, dispatchVars, TypeOK
  <2>2. QED
    BY <1>1, <2>1 DEF ClaimsWithEmptyHands, Pending
<1>4. ASSUME NEW w \in Worker, Claim(w)
      PROVE  /\ ClaimsWithEmptyHands'
             /\ \A v \in Worker \ {w} : Pending(v)' \subseteq Pending(v)
  <2>1. /\ UNCHANGED current /\ pc[w] = "claim"
        /\ \A v \in Worker \ {w} : pc'[v] = pc[v] /\ batch'[v] = batch[v]
        /\ pc'[w] = "send" \/ (pc'[w] = "reconcile" /\ batch'[w] = {})
    <3>1. PICK B \in SUBSET Task, leased \in SUBSET Task : ClaimWrites(w, B, leased)
      BY <1>4, ClaimRows
    <3>2. UNCHANGED current /\ pc[w] = "claim"
      BY <1>4 DEF Claim
    <3>3. \A v \in Worker \ {w} : pc'[v] = pc[v] /\ batch'[v] = batch[v]
      BY <1>1, <3>1 DEF ClaimWrites, TypeOK
    <3>4. pc'[w] = "send" \/ (pc'[w] = "reconcile" /\ batch'[w] = {})
      BY <1>1, <3>1 DEF ClaimWrites, TypeOK
    <3>5. QED
      BY <3>2, <3>3, <3>4
  <2>2. QED
    BY <1>1, <2>1 DEF ClaimsWithEmptyHands, Pending
<1>5. ASSUME NEW w \in Worker, Send(w)
      PROVE  /\ ClaimsWithEmptyHands'
             /\ \A v \in Worker : Pending(v)' \subseteq Pending(v)
  <2>1. PICK c \in batch[w] : /\ current' = [current EXCEPT ![w] = c]
                              /\ batch' = [batch EXCEPT ![w] = batch[w] \ {c}]
    BY <1>5 DEF Send
  <2>2. /\ \A v \in Worker \ {w} : /\ pc'[v] = pc[v] /\ batch'[v] = batch[v]
                                   /\ current'[v] = current[v]
        /\ pc'[w] = "record" /\ current'[w] = c /\ batch'[w] = batch[w] \ {c}
    BY <1>1, <1>5, <2>1 DEF Send, TypeOK
  <2>3. QED
    BY <1>1, <2>1, <2>2 DEF ClaimsWithEmptyHands, Pending
<1>6. ASSUME NEW w \in Worker, Record(w) \/ Crash(w)
      PROVE  /\ ClaimsWithEmptyHands'
             /\ \A v \in Worker : Pending(v)' \subseteq Pending(v)
  <2>1. /\ \A v \in Worker \ {w} : /\ pc'[v] = pc[v] /\ batch'[v] = batch[v]
                                   /\ current'[v] = current[v]
        /\ current'[w] = NoCommand /\ batch'[w] \subseteq batch[w]
        /\ pc'[w] # "send" => batch'[w] = {}
    BY <1>1, <1>6 DEF Record, Crash, TypeOK
  <2>2. QED
    BY <1>1, <2>1, IdentityAssumption DEF ClaimsWithEmptyHands, Pending
<1>7. ASSUME \/ \E r \in Run : Plan(r)
             \/ \E t \in Task : AcceptSignal(t) \/ RejectSignal(t)
             \/ \E a \in Agent : AgentRestart(a) \/ DisableEndpoint(a)
             \/ Tick \/ UNCHANGED vars
      PROVE  UNCHANGED <<pc, batch, current>>
  BY <1>7 DEF Plan, AcceptSignal, RejectSignal, AgentRestart, DisableEndpoint, Tick,
              vars, dispatchVars
<1>8. QED
  BY <1>2, <1>3, <1>4, <1>5, <1>6, <1>7 DEF Next, WorkerStep

\* A claim fences its own new commands, and those of any worker it takes a
\* lease from: here the instance ids must differ.
LEMMA ClaimFences ==
  ASSUME OwnersDistinct, LeaseInv, TypeOK', NEW w \in Worker, Claim(w)
  PROVE  FencedCommands'
<1>1. PICK B \in SUBSET Task, leased \in SUBSET Task :
        /\ leased = {t \in B : ClaimVerdict(t) = "DISPATCHING"}
        /\ ClaimWrites(w, B, leased)
  BY ClaimRows
<1>2. \A t \in Task : tasks[t] \in TaskRow
  BY DEF LeaseInv, TypeOK
<1>3. ASSUME NEW t \in leased
      PROVE  tasks'[t].owner = Owner[w] /\ tasks'[t].attempts = tasks[t].attempts + 1
  BY <1>1, <1>2 DEF ClaimWrites, ClaimRow, Lease, TaskRow
<1>4. ASSUME NEW t \in Task \ leased, tasks'[t].status = "DISPATCHING"
      PROVE  tasks'[t] = tasks[t]
  <2>1. CASE t \in B
    <3>1. ClaimVerdict(t) \in {"CANCELLED", "FAILED", "RETRY"}
      BY <1>1, <1>4, <2>1 DEF ClaimVerdict
    <3>2. tasks'[t] = ClaimRow(w, t) /\ tasks[t] \in TaskRow
      BY <1>1, <1>2, <2>1 DEF ClaimWrites
    <3>3. tasks'[t].status # "DISPATCHING"
      BY <3>1, <3>2 DEF ClaimRow, TaskRow
    <3>4. QED
      BY <1>4, <3>3
  <2>2. CASE t \notin B
    BY <1>1, <2>2 DEF ClaimWrites
  <2>3. QED
    BY <2>1, <2>2
<1> SUFFICES ASSUME NEW v \in Worker, NEW c \in Pending(v)', HoldsLease(v, c.task)'
             PROVE  tasks'[c.task].attempts = c.attempt
  BY DEF FencedCommands
<1>5. c \in Command /\ c.task \in Task
  BY DEF Pending, TypeOK, Command
<1>6. CASE v = w
  <2>1. current[w] = NoCommand /\ current' = current
    BY DEF Claim, LeaseInv, ClaimsWithEmptyHands
  <2>2. c \in batch'[w]
    BY <1>6, <2>1, IdentityAssumption DEF Pending
  <2>3. PICK t \in leased : c = [task |-> t, attempt |-> tasks[t].attempts + 1]
    BY <1>1, <2>2 DEF ClaimWrites, LeaseInv, TypeOK
  <2>4. QED
    BY <1>3, <2>3
<1>7. CASE v # w
  <2>1. c \in Pending(v)
    BY <1>1, <1>7 DEF Claim, ClaimWrites, Pending, LeaseInv, TypeOK
  <2>2. c.task \notin leased
    BY <1>3, <1>7 DEF HoldsLease, OwnersDistinct
  <2>3. tasks'[c.task] = tasks[c.task]
    BY <1>4, <1>5, <2>2 DEF HoldsLease
  <2>4. QED
    BY <2>1, <2>3 DEF LeaseInv, FencedCommands, HoldsLease
<1>8. QED
  BY <1>6, <1>7

\* LeaseInv is inductive.
LEMMA LeaseStep ==
  ASSUME OwnersDistinct, LeaseInv, [Next]_vars
  PROVE  LeaseInv'
<1>1. TypeOK' /\ ClaimsWithEmptyHands'
  BY TypeStep, EmptyHandsStep DEF LeaseInv
<1>2. CASE \E w \in Worker : Claim(w)
  BY <1>1, <1>2, ClaimFences DEF LeaseInv
<1>3. CASE ~\E w \in Worker : Claim(w)
  BY <1>1, <1>3, OnlyClaimLeases, EmptyHandsStep, FencedKept DEF LeaseInv
<1>4. QED
  BY <1>2, <1>3

\* LeaseInv holds initially.
LEMMA LeaseInit == Init => LeaseInv
<1> SUFFICES ASSUME Init PROVE LeaseInv
  OBVIOUS
<1>1. TypeOK
  BY TypeInit
<1>2. ClaimsWithEmptyHands /\ \A w \in Worker : Pending(w) = {}
  BY IdentityAssumption DEF Init, ClaimsWithEmptyHands, Pending
<1>3. QED
  BY <1>1, <1>2 DEF LeaseInv, FencedCommands

\* When a worker leaves "record" and rows changed, it held the lease.
LEMMA RecordsItsAttempt ==
  ASSUME LeaseInv, [Next]_vars, NEW w \in Worker,
         pc[w] = "record", pc'[w] # "record", tasks' # tasks
  PROVE  tasks[current[w].task].attempts = current[w].attempt
<1>1. Record(w)
  <2>1. \A v \in Worker : WorkerStep(v) => v = w
    BY DEF WorkerStep, Expire, Claim, Send, Record, ReconcileRead, ReconcileWrite, Evaluate,
           LeaseInv, TypeOK
  <2>2. WorkerStep(w) \/ Crash(w)
    BY <2>1 DEF Next, Plan, AcceptSignal, RejectSignal, AgentRestart, DisableEndpoint, Tick,
           Crash, vars, dbVars
  <2>3. QED
    BY <2>2 DEF WorkerStep, Expire, Claim, Send, ReconcileRead, ReconcileWrite, Evaluate,
           Crash, dbVars
<1>2. HoldsLease(w, current[w].task)
  BY <1>1 DEF Record
<1>3. current[w] \in Pending(w)
  BY DEF LeaseInv, TypeOK, Pending
<1>4. QED
  BY <1>2, <1>3 DEF LeaseInv, FencedCommands

\* With distinct instance ids, an answer that arrives after its lease was taken
\* over changes nothing: every recorded answer is for the attempt it was claimed for.
THEOREM LeasesFence == OwnersDistinct => (Spec => OnlyCurrentAttemptRecorded)
<1> SUFFICES ASSUME OwnersDistinct PROVE Spec => OnlyCurrentAttemptRecorded
  OBVIOUS
<1>1. LeaseInv /\ [Next]_vars =>
        [\A w \in Worker :
            pc[w] = "record" /\ pc'[w] # "record" /\ tasks' # tasks =>
               tasks[current[w].task].attempts = current[w].attempt]_vars
  BY RecordsItsAttempt
<1>2. LeaseInv /\ [Next]_vars => LeaseInv'
  BY LeaseStep
<1>3. QED
  BY <1>1, <1>2, LeaseInit, PTL DEF Spec, OnlyCurrentAttemptRecorded
-----------------------------------------------------------------------------
(* FULL is final.  A late acknowledgement may move a final run back to        *)
(* COLLECTING, but only one that still has a task being dispatched.           *)

\* Who writes a run row, and what holds when it is written.
RunWritten(r) ==
    \/ runs'[r] = runs[r]
    \/ Plan(r)
    \/ /\ runs[r].status # "ABSENT"
       /\ runs[r].status # "FULL" \/ ~AllReceived(Planned(r), Status)
       /\ runs'[r] = [runs[r] EXCEPT !.status = "COLLECTING"]
    \/ /\ UNCHANGED <<now, tasks, repair>> /\ ~Locked(r)
       /\ runs'[r] = EvaluatedRun(r)

\* No other transaction updates orchestration_runs.
LEMMA RunWriters ==
  ASSUME StoredInv, [Next]_vars, NEW r \in Run
  PROVE  RunWritten(r)
<1>1. ASSUME UNCHANGED runs PROVE RunWritten(r)
  BY <1>1 DEF RunWritten
<1>2. runs \in [Run -> RunRow] /\ runs[r] \in RunRow
  BY DEF StoredInv, TypeOK
<1>3. ASSUME NEW q \in Run, Plan(q) PROVE RunWritten(r)
  <2>1. PICK chosen \in SUBSET Task, critical \in BOOLEAN, gap \in BOOLEAN :
          PlanWrites(q, chosen, critical, gap)
    BY <1>3, PlanRows
  <2>2. q # r => runs'[r] = runs[r]
    BY <1>2, <2>1 DEF PlanWrites
  <2>3. QED
    BY <1>3, <2>2 DEF RunWritten
<1>4. ASSUME NEW w \in Worker, Record(w) PROVE RunWritten(r)
  <2> DEFINE t == current[w].task
  <2>1. t \in Task
    BY <1>4 DEF Record, StoredInv, TypeOK, Command
  <2>2. UNCHANGED runs \/ (HoldsLease(w, t) /\ RecordAck(w, t))
    BY <1>4 DEF Record, RecordFailure
  <2> HIDE DEF t
  <2>3. CASE HoldsLease(w, t) /\ RecordAck(w, t) /\ t.run = r
    <3>1. tasks[t].status = "DISPATCHING"
      BY <2>3 DEF HoldsLease
    <3>2. runs[r].status # "ABSENT"
      BY <2>1, <2>3, <3>1 DEF StoredInv, AbsentRuns
    <3>3. t \in Planned(r) /\ Status[t] # "SIGNAL_RECEIVED"
      BY <2>1, <2>3, <3>1 DEF Planned, Status
    <3>4. runs'[r] = [runs[r] EXCEPT !.status = "COLLECTING"]
      BY <1>2, <2>3 DEF RecordAck
    <3>5. QED
      BY <3>2, <3>3, <3>4 DEF RunWritten, AllReceived
  <2>4. CASE RecordAck(w, t) /\ t.run # r
    <3>1. runs'[r] = runs[r]
      BY <1>2, <2>4 DEF RecordAck
    <3>2. QED
      BY <3>1 DEF RunWritten
  <2>5. QED
    BY <1>1, <2>2, <2>3, <2>4
<1>5. ASSUME NEW w \in Worker, ReconcileWrite(w) PROVE RunWritten(r)
  BY <1>2, <1>5 DEF ReconcileWrite, RunWritten
<1>6. ASSUME NEW w \in Worker, Evaluate(w) PROVE RunWritten(r)
  <2>1. PICK q \in todo[w] : ~Locked(q) /\ runs' = [runs EXCEPT ![q] = EvaluatedRun(q)]
    BY <1>6 DEF Evaluate
  <2>2. UNCHANGED <<now, tasks, repair>>
    BY <1>6 DEF Evaluate, envVars
  <2>3. runs'[r] = runs[r] \/ (q = r /\ runs'[r] = EvaluatedRun(r))
    BY <1>2, <2>1
  <2>4. QED
    BY <2>1, <2>2, <2>3 DEF RunWritten
<1>7. ASSUME NEW w \in Worker,
             Expire(w) \/ Claim(w) \/ Send(w) \/ ReconcileRead(w) \/ Crash(w)
      PROVE  RunWritten(r)
  BY <1>1, <1>7 DEF Expire, Claim, Send, ReconcileRead, Crash, dbVars
<1>8. ASSUME \/ \E t \in Task : AcceptSignal(t) \/ RejectSignal(t)
             \/ \E a \in Agent : AgentRestart(a) \/ DisableEndpoint(a)
             \/ Tick \/ UNCHANGED vars
      PROVE  RunWritten(r)
  BY <1>1, <1>8 DEF AcceptSignal, RejectSignal, AgentRestart, DisableEndpoint, Tick,
                    vars, dbVars
<1>9. QED
  BY <1>3, <1>4, <1>5, <1>6, <1>7, <1>8 DEF Next, WorkerStep

\* A run's status FULL and its outcome FULL are written together.
FullInv ==
    /\ OutcomeInv
    /\ \A r \in Run : runs[r].status = "FULL" => runs[r].outcome = "FULL"

\* The evaluator leaves a final run alone and writes FULL with its outcome.
LEMMA EvaluatedFull ==
  ASSUME TypeOK, NEW r \in Run
  PROVE  /\ runs[r].status = "FULL" => EvaluatedRun(r) = runs[r]
         /\ EvaluatedRun(r).status = "FULL" =>
              EvaluatedRun(r) = runs[r] \/ EvaluatedRun(r).outcome = "FULL"
<1>1. runs[r] \in RunRow
  BY DEF TypeOK
<1>2. runs[r].status = "FULL" => EvaluatedRun(r) = runs[r]
  BY DEF EvaluatedRun, FinalRunStatus
<1>3. \A s, o : /\ [runs[r] EXCEPT !.status = s, !.outcome = o].status = s
                /\ [runs[r] EXCEPT !.status = s, !.outcome = o].outcome = o
  BY <1>1 DEF RunRow
<1>4. EvaluatedRun(r).status = "FULL" =>
        EvaluatedRun(r) = runs[r] \/ EvaluatedRun(r).outcome = "FULL"
  BY <1>3 DEF EvaluatedRun, OutcomeOf
<1>5. QED
  BY <1>2, <1>4

\* The planner never writes FULL.
LEMMA PlanNotFull ==
  ASSUME StoredInv, NEW r \in Run, Plan(r)
  PROVE  runs[r].status = "ABSENT" /\ runs'[r].status \in {"CRITICAL", "DISPATCHING"}
<1>1. PICK chosen \in SUBSET Task, critical \in BOOLEAN, gap \in BOOLEAN :
        PlanWrites(r, chosen, critical, gap)
  BY PlanRows
<1>2. QED
  BY <1>1 DEF Plan, PlanWrites, StoredInv, TypeOK

\* FullInv is inductive, and under it no step moves a FULL run.
LEMMA FullStep ==
  ASSUME FullInv, [Next]_vars
  PROVE  /\ FullInv'
         /\ \A r \in Run : runs[r].status = "FULL" => runs'[r].status = "FULL"
<1>1. OutcomeInv /\ OutcomeInv' /\ StoredInv /\ TypeOK
  BY OutcomeStep DEF FullInv, OutcomeInv, StoredInv
<1>2. ASSUME NEW r \in Run
      PROVE  /\ runs'[r].status = "FULL" => runs'[r].outcome = "FULL"
             /\ runs[r].status = "FULL" => runs'[r].status = "FULL"
  <2>1. RunWritten(r)
    BY <1>1, RunWriters
  <2>2. /\ runs[r].status = "FULL" => runs[r].outcome = "FULL"
        /\ runs[r].outcome = "FULL" => AllReceived(Planned(r), Status)
    BY DEF FullInv, OutcomeInv, OutcomeSound
  <2>3. CASE Plan(r)
    BY <1>1, <2>3, PlanNotFull
  <2>4. CASE /\ runs[r].status # "FULL" \/ ~AllReceived(Planned(r), Status)
             /\ runs'[r] = [runs[r] EXCEPT !.status = "COLLECTING"]
    <3>1. runs[r].status # "FULL"
      BY <2>2, <2>4
    <3>2. runs'[r].status = "COLLECTING"
      BY <1>1, <2>4 DEF TypeOK, RunRow
    <3>3. QED
      BY <3>1, <3>2
  <2>5. CASE runs'[r] = EvaluatedRun(r)
    BY <1>1, <2>2, <2>5, EvaluatedFull
  <2>6. QED
    BY <2>1, <2>2, <2>3, <2>4, <2>5 DEF RunWritten
<1>3. QED
  BY <1>1, <1>2 DEF FullInv

\* FullInv holds initially.
LEMMA FullInit == Init => FullInv
<1>1. Init => \A r \in Run : runs[r].status # "FULL"
  BY DEF Init, AbsentRun
<1>2. QED
  BY <1>1, OutcomeInit DEF FullInv

\* No late acknowledgement, reconciliation or evaluation moves a FULL run: the
\* only writer that could, _record_result, needs a task of the run in dispatch.
THEOREM FullRunsStayFull == Spec => FullIsFinal
<1>1. FullInv /\ [Next]_vars =>
        [\A r \in Run : runs[r].status = "FULL" => runs'[r].status = "FULL"]_runs
  BY FullStep
<1>2. FullInv /\ [Next]_vars => FullInv'
  BY FullStep
<1>3. QED
  BY <1>1, <1>2, FullInit, PTL DEF Spec, FullIsFinal
-----------------------------------------------------------------------------
(* INSUFFICIENT_DATA is declared for a loss that is real and stays.  Rows are *)
(* not enough to say so: reconciliation may put a lost task back to RETRY on  *)
(* the strength of a lease it read earlier.  What stays is a loss that no     *)
(* open reconciliation is about to undo.                                      *)

\* A lost task that no open reconciliation has read as an expired lease.
PermanentlyLost(t) ==
    /\ tasks[t].status \in LostTaskStates
    /\ \A w \in Worker : repair[w][t] # "LEASE_EXPIRED"

\* The tasks of a capability that have answered or may still answer.
Remaining(r, c) == {t \in CapabilityTasks(Planned(r), c) : ~PermanentlyLost(t)}

\* The reason for which a run lacks data, in a form that no step undoes.
LateAndMissing(r) ==
    now >= CollectionDeadline(r) /\ Missing(Planned(r), Status, Policy) # {}
OutOfTasks(r) ==
    \E c \in DOMAIN Policy :
        Policy[c].required /\ Cardinality(Remaining(r, c)) < Policy[c].minimum
CriticalLost(r) ==
    \E c \in DOMAIN Policy :
        Policy[c].critical /\ \E t \in CapabilityTasks(Planned(r), c) : PermanentlyLost(t)
LossStands(r) == LateAndMissing(r) \/ OutOfTasks(r) \/ CriticalLost(r)

InsufficientInv ==
    /\ StoredInv
    /\ \A r \in Run : runs[r].outcome = "INSUFFICIENT_DATA" => LossStands(r)

\* A permanent loss stays one: claims, answers and expiries touch no lost row,
\* and a reconciliation that reads one decides nothing for it.
LEMMA LossIsPermanent ==
  ASSUME StoredInv, [Next]_vars, NEW t \in Task, PermanentlyLost(t)
  PROVE  PermanentlyLost(t)'
<1>1. /\ tasks[t] \in TaskRow /\ tasks \in [Task -> TaskRow]
      /\ repair \in [Worker -> [Task -> Repair]]
  BY DEF StoredInv, TypeOK
<1>2. /\ tasks[t].status \in LostTaskStates
      /\ tasks[t].status \notin {"ABSENT", "PENDING", "RETRY", "DISPATCHING", "ACKNOWLEDGED",
                                 "WAITING_SIGNAL", "SIGNAL_RECEIVED"}
      /\ \A w \in Worker : repair[w][t] # "LEASE_EXPIRED"
  BY DEF PermanentlyLost, LostTaskStates
<1>3. ASSUME tasks'[t].status \in LostTaskStates, UNCHANGED repair PROVE PermanentlyLost(t)'
  BY <1>2, <1>3 DEF PermanentlyLost
<1>4. ASSUME NEW r \in Run, Plan(r) PROVE PermanentlyLost(t)'
  <2>1. PICK chosen \in SUBSET Task, critical \in BOOLEAN, gap \in BOOLEAN :
          PlanWrites(r, chosen, critical, gap)
    BY <1>4, PlanRows
  <2>2. t.run # r
    BY <1>2, <1>4 DEF Plan, StoredInv, AbsentRuns
  <2>3. tasks'[t] = tasks[t]
    BY <2>1, <2>2 DEF PlanWrites, Routed
  <2>4. QED
    BY <1>2, <1>3, <1>4, <2>3 DEF Plan, recoveryVars
<1>5. ASSUME NEW w \in Worker, Expire(w) PROVE PermanentlyLost(t)'
  BY <1>2, <1>3, <1>5 DEF Expire, Expired, recoveryVars
<1>6. ASSUME NEW w \in Worker, Claim(w) PROVE PermanentlyLost(t)'
  <2>1. PICK B \in SUBSET Claimable :
          tasks' = [u \in Task |-> IF u \in B THEN ClaimRow(w, u) ELSE tasks[u]]
    BY <1>6 DEF Claim
  <2>2. t \notin B
    BY <1>2 DEF Claimable
  <2>3. QED
    BY <1>2, <1>3, <1>6, <2>1, <2>2 DEF Claim, recoveryVars
<1>7. ASSUME NEW w \in Worker, Record(w) PROVE PermanentlyLost(t)'
  <2> DEFINE u == current[w].task
  <2>1. u \in Task
    BY <1>7 DEF Record, StoredInv, TypeOK, Command
  <2>2. UNCHANGED tasks \/ (HoldsLease(w, u) /\ (RecordAck(w, u) \/ RecordFailure(w, u)))
    BY <1>7 DEF Record
  <2> HIDE DEF u
  <2>3. tasks'[t] = tasks[t]
    <3>1. ASSUME HoldsLease(w, u) PROVE u # t
      BY <1>2, <3>1 DEF HoldsLease
    <3>2. ASSUME RecordAck(w, u), u # t PROVE tasks'[t] = tasks[t]
      BY <1>1, <3>2 DEF RecordAck
    <3>3. ASSUME RecordFailure(w, u), u # t PROVE tasks'[t] = tasks[t]
      BY <1>1, <3>3 DEF RecordFailure
    <3>4. QED
      BY <2>2, <3>1, <3>2, <3>3
  <2>4. QED
    BY <1>2, <1>3, <1>7, <2>3 DEF Record, recoveryVars
<1>8. ASSUME NEW w \in Worker, ReconcileRead(w) PROVE PermanentlyLost(t)'
  <2>1. UNCHANGED tasks
    BY <1>8 DEF ReconcileRead, dbVars
  <2>2. RepairOf(t) # "LEASE_EXPIRED"
    BY <1>2 DEF RepairOf
  <2>3. repair'[w][t] # "LEASE_EXPIRED" /\ \A v \in Worker \ {w} : repair'[v] = repair[v]
    BY <1>1, <1>8, <2>2 DEF ReconcileRead
  <2>4. QED
    BY <1>2, <2>1, <2>3 DEF PermanentlyLost
<1>9. ASSUME NEW w \in Worker, ReconcileWrite(w) PROVE PermanentlyLost(t)'
  <2>1. tasks'[t] = RepairedRow(t, repair[w][t], readAt[w])
    BY <1>9 DEF ReconcileWrite
  <2>2. repair[w][t] \in {"KEEP", "SIGNAL_TIMEOUT"}
    BY <1>1, <1>2 DEF Repair, StoredInv, RepairFacts
  <2>3. tasks'[t].status \in LostTaskStates
    BY <1>1, <1>2, <2>1, <2>2 DEF RepairedRow, TaskRow, LostTaskStates
  <2>4. repair'[w][t] = "KEEP" /\ \A v \in Worker \ {w} : repair'[v] = repair[v]
    BY <1>1, <1>9 DEF ReconcileWrite
  <2>5. QED
    BY <1>2, <2>3, <2>4 DEF PermanentlyLost
<1>10. ASSUME NEW w \in Worker, Crash(w) PROVE PermanentlyLost(t)'
  <2>1. repair'[w][t] = "KEEP" /\ \A v \in Worker \ {w} : repair'[v] = repair[v]
    BY <1>1, <1>10 DEF Crash
  <2>2. QED
    BY <1>2, <1>10, <2>1 DEF Crash, dbVars, PermanentlyLost
<1>11. ASSUME NEW w \in Worker, Send(w) \/ Evaluate(w) PROVE PermanentlyLost(t)'
  BY <1>2, <1>3, <1>11 DEF Send, Evaluate, dbVars, recoveryVars
<1>12. ASSUME NEW u \in Task, AcceptSignal(u) PROVE PermanentlyLost(t)'
  <2>1. u # t
    BY <1>2, <1>12 DEF AcceptSignal, Accepting
  <2>2. QED
    BY <1>1, <1>2, <1>3, <1>12, <2>1 DEF AcceptSignal, recoveryVars
<1>13. ASSUME \/ \E u \in Task : RejectSignal(u)
              \/ \E a \in Agent : AgentRestart(a) \/ DisableEndpoint(a)
              \/ Tick \/ UNCHANGED vars
       PROVE  PermanentlyLost(t)'
  BY <1>2, <1>3, <1>13 DEF RejectSignal, AgentRestart, DisableEndpoint, Tick,
                           vars, dbVars, recoveryVars
<1>14. QED
  BY <1>4, <1>5, <1>6, <1>7, <1>8, <1>9, <1>10, <1>11, <1>12, <1>13 DEF Next, WorkerStep

\* A new answer is a signal that the Hub accepted before the task's deadline.
LEMMA NewAnswerInTime ==
  ASSUME StoredInv, [Next]_vars, NEW t \in Task,
         tasks[t].status # "SIGNAL_RECEIVED", tasks'[t].status = "SIGNAL_RECEIVED"
  PROVE  now < SignalDeadline(t)
<1>1. ~SameAnswers /\ ~UNCHANGED tasks
  BY DEF SameAnswers
<1>2. ASSUME NEW r \in Run PROVE ~Plan(r)
  <2> SUFFICES ASSUME Plan(r) PROVE FALSE
    OBVIOUS
  <2>1. PICK chosen \in SUBSET Task, critical \in BOOLEAN, gap \in BOOLEAN :
          PlanWrites(r, chosen, critical, gap)
    BY PlanRows
  <2>2. QED
    BY <2>1 DEF PlanWrites, AbsentTask
<1>3. ASSUME NEW w \in Worker PROVE ~WorkerStep(w) /\ ~Crash(w)
  <2>1. ~Expire(w) /\ ~Claim(w) /\ ~Record(w) /\ ~ReconcileWrite(w)
    BY <1>1, DispatchSameAnswers, ReconcileSameAnswers
  <2>2. ~Send(w) /\ ~ReconcileRead(w) /\ ~Evaluate(w) /\ ~Crash(w)
    BY <1>1 DEF Send, ReconcileRead, Evaluate, Crash, dbVars
  <2>3. QED
    BY <2>1, <2>2 DEF WorkerStep
<1>4. /\ \A u \in Task : ~RejectSignal(u)
      /\ \A a \in Agent : ~AgentRestart(a) /\ ~DisableEndpoint(a)
      /\ ~Tick /\ ~UNCHANGED vars
  BY <1>1 DEF RejectSignal, AgentRestart, DisableEndpoint, Tick, vars, dbVars
<1>5. PICK u \in Task : AcceptSignal(u)
  BY <1>2, <1>3, <1>4 DEF Next
<1>6. u = t
  BY <1>5 DEF AcceptSignal, StoredInv, TypeOK
<1>7. QED
  BY <1>5, <1>6 DEF AcceptSignal, Accepting

\* The clock does not go back.
LEMMA ClockAdvances ==
  ASSUME TypeOK, [Next]_vars
  PROVE  now' = now \/ now' = now + 1
BY DEF Next, WorkerStep, Plan, Expire, Claim, Send, Record, ReconcileRead, ReconcileWrite,
       Evaluate, Crash, AcceptSignal, RejectSignal, AgentRestart, DisableEndpoint, Tick,
       vars, envVars

\* created_at of a run is written once.
LEMMA CreatedKept ==
  ASSUME StoredInv, [Next]_vars, NEW r \in Run, runs[r].status # "ABSENT"
  PROVE  runs'[r].created = runs[r].created
<1>1. RunWritten(r) /\ runs[r] \in RunRow
  BY RunWriters DEF StoredInv, TypeOK
<1>2. ~Plan(r)
  BY DEF Plan
<1>3. EvaluatedRun(r).created = runs[r].created
  BY <1>1 DEF EvaluatedRun, RunRow
<1>4. QED
  BY <1>1, <1>2, <1>3 DEF RunWritten, RunRow

\* The parts of a run's tasks are finite sets with a cardinality.
LEMMA PartsFinite ==
  ASSUME NEW r \in Run, NEW c \in DOMAIN Policy, NEW S, S \subseteq CapabilityTasks(Planned(r), c)
  PROVE  IsFiniteSet(S) /\ Cardinality(S) \in Nat
<1>1. S \subseteq Task
  BY DEF CapabilityTasks, Planned
<1>2. IsFiniteSet(S)
  BY <1>1, FS_Subset, PolicyAssumption
<1>3. QED
  BY <1>2, FS_CardinalityType

\* Once the collection deadline has passed no capability gains an answer.
LEMMA LateStays ==
  ASSUME StoredInv, StoredInv', [Next]_vars, NEW r \in Run, runs[r].status # "ABSENT",
         LateAndMissing(r)
  PROVE  LateAndMissing(r)'
<1>1. /\ now \in Nat /\ now' \in Nat /\ runs[r] \in RunRow /\ runs[r].created \in Nat
  BY DEF StoredInv, TypeOK, RunRow
<1>2. now >= CollectionDeadline(r) /\ CollectionDeadline(r) \in Nat
  BY <1>1, TimingAssumption DEF LateAndMissing, CollectionDeadline
<1>3. CollectionDeadline(r)' = CollectionDeadline(r)
  BY CreatedKept DEF CollectionDeadline
<1>4. now' >= CollectionDeadline(r)'
  <2>1. now' = now \/ now' = now + 1
    BY ClockAdvances DEF StoredInv
  <2>2. QED
    BY <1>1, <1>2, <1>3, <2>1
<1>5. AnswersGrow(r)
  BY AnswersOnlyGrow
<1>6. ASSUME NEW t \in Task, t.run = r, tasks'[t].status = "SIGNAL_RECEIVED"
      PROVE  tasks[t].status = "SIGNAL_RECEIVED"
  <2>1. SignalDeadline(t) <= CollectionDeadline(r)
    BY <1>1, <1>6, TimingAssumption DEF SignalDeadline, CollectionDeadline, Least
  <2>2. SignalDeadline(t) \in Nat
    BY DeadlineType DEF StoredInv
  <2>3. ~(now < SignalDeadline(t))
    BY <1>1, <1>2, <2>1, <2>2
  <2>4. QED
    BY <1>6, <2>3, NewAnswerInTime
<1>7. ASSUME NEW c \in DOMAIN Policy
      PROVE  Received(CapabilityTasks(Planned(r), c), Status)'
               = Received(CapabilityTasks(Planned(r), c), Status)
  BY <1>5, <1>6 DEF AnswersGrow, Received, CapabilityTasks, Planned, Status
<1>8. Missing(Planned(r), Status, Policy)' = Missing(Planned(r), Status, Policy)
  BY <1>7 DEF Missing, MinimumMet
<1>9. QED
  BY <1>4, <1>8 DEF LateAndMissing

\* The tasks that may still answer only become fewer.
LEMMA OutOfTasksStays ==
  ASSUME StoredInv, [Next]_vars, NEW r \in Run, runs[r].status # "ABSENT", OutOfTasks(r)
  PROVE  OutOfTasks(r)'
<1>1. PICK c \in DOMAIN Policy :
        Policy[c].required /\ Cardinality(Remaining(r, c)) < Policy[c].minimum
  BY DEF OutOfTasks
<1>2. AnswersGrow(r)
  BY AnswersOnlyGrow
<1>3. CapabilityTasks(Planned(r), c)' = CapabilityTasks(Planned(r), c)
  BY <1>2 DEF AnswersGrow, CapabilityTasks, Planned
<1>4. CapabilityTasks(Planned(r), c) \subseteq Task
  BY DEF CapabilityTasks, Planned
<1>5. Remaining(r, c)' \subseteq Remaining(r, c)
  BY <1>3, <1>4, LossIsPermanent DEF Remaining
<1>6. IsFiniteSet(Remaining(r, c)) /\ Cardinality(Remaining(r, c)) \in Nat
  BY PartsFinite DEF Remaining
<1>7. /\ Cardinality(Remaining(r, c)') <= Cardinality(Remaining(r, c))
      /\ Cardinality(Remaining(r, c)') \in Nat
  BY <1>5, <1>6, FS_Subset, FS_CardinalityType
<1>8. Policy[c].minimum \in Nat
  BY PolicyAssumption
<1>9. Cardinality(Remaining(r, c)') < Policy[c].minimum
  BY <1>1, <1>6, <1>7, <1>8
<1>10. QED
  BY <1>1, <1>9 DEF OutOfTasks

\* The reason for which a run lacks data stands in every later state.
LEMMA LossStays ==
  ASSUME StoredInv, StoredInv', [Next]_vars, NEW r \in Run, runs[r].status # "ABSENT",
         LossStands(r)
  PROVE  LossStands(r)'
<1>1. CASE LateAndMissing(r)
  BY <1>1, LateStays DEF LossStands
<1>2. CASE OutOfTasks(r)
  BY <1>2, OutOfTasksStays DEF LossStands
<1>3. CASE CriticalLost(r)
  <2>1. PICK c \in DOMAIN Policy :
          Policy[c].critical /\ \E t \in CapabilityTasks(Planned(r), c) : PermanentlyLost(t)
    BY <1>3 DEF CriticalLost
  <2>2. PICK t \in CapabilityTasks(Planned(r), c) : PermanentlyLost(t)
    BY <2>1
  <2>3. t \in Task /\ PermanentlyLost(t)'
    BY <2>2, LossIsPermanent DEF CapabilityTasks, Planned
  <2>4. t \in CapabilityTasks(Planned(r), c)'
    BY <2>2, <2>3, AnswersOnlyGrow DEF AnswersGrow, CapabilityTasks, Planned
  <2>5. QED
    BY <2>1, <2>3, <2>4 DEF CriticalLost, LossStands
<1>4. QED
  BY <1>1, <1>2, <1>3 DEF LossStands

\* How the tasks of a capability divide: what has answered or is unfinished is
\* not lost, and the evaluator counts the two apart.
LEMMA CountedParts ==
  ASSUME NEW r \in Run, NEW c \in DOMAIN Policy
  PROVE  LET R == Received(CapabilityTasks(Planned(r), c), Status)
             U == Unfinished(CapabilityTasks(Planned(r), c), Status)
         IN  /\ R \cup U \subseteq Remaining(r, c)
             /\ Cardinality(R) + Cardinality(U) = Cardinality(R \cup U)
             /\ Cardinality(R \cup U) <= Cardinality(Remaining(r, c))
             /\ Cardinality(R) <= Cardinality(Remaining(r, c))
<1> DEFINE C == CapabilityTasks(Planned(r), c)
           R == Received(C, Status)
           U == Unfinished(C, Status)
<1>1. C \subseteq Task
  BY DEF CapabilityTasks, Planned
<1>2. R \cup U \subseteq Remaining(r, c)
  BY <1>1 DEF Received, Unfinished, Status, Remaining, PermanentlyLost, LostTaskStates,
             TERMINAL_TASK_STATES
<1>3. R \cap U = {}
  BY DEF Received, Unfinished, TERMINAL_TASK_STATES
<1>4. /\ R \subseteq C /\ U \subseteq C /\ Remaining(r, c) \subseteq C
  BY DEF Received, Unfinished, Remaining
<1>5. /\ IsFiniteSet(R) /\ IsFiniteSet(U) /\ IsFiniteSet(Remaining(r, c))
      /\ Cardinality(R) \in Nat /\ Cardinality(U) \in Nat
  BY <1>4, PartsFinite
<1>6. Cardinality(R \cup U) = Cardinality(R) + Cardinality(U) - Cardinality({})
  BY <1>3, <1>5, FS_Union
<1>7. Cardinality({}) = 0
  BY FS_EmptySet
<1>8. Cardinality(R) + Cardinality(U) = Cardinality(R \cup U)
  BY <1>5, <1>6, <1>7
<1>9. /\ Cardinality(R \cup U) <= Cardinality(Remaining(r, c))
      /\ Cardinality(R) <= Cardinality(Remaining(r, c))
  BY <1>2, <1>5, FS_Subset
<1>10. QED
  BY <1>2, <1>8, <1>9

\* While the loss stands the evaluator can only say CRITICAL.
LEMMA LossIsCritical ==
  ASSUME NEW r \in Run, LossStands(r)
  PROVE  /\ RunVerdict(r) = "CRITICAL"
         /\ \/ Missing(Planned(r), Status, Policy) # {}
            \/ CriticalFailure(Planned(r), Status, Policy)
<1>1. CASE LateAndMissing(r)
  BY <1>1 DEF LateAndMissing, RunVerdict, Verdict
<1>2. CASE OutOfTasks(r)
  <2>1. PICK c \in DOMAIN Policy :
          Policy[c].required /\ Cardinality(Remaining(r, c)) < Policy[c].minimum
    BY <1>2 DEF OutOfTasks
  <2> DEFINE R == Received(CapabilityTasks(Planned(r), c), Status)
             U == Unfinished(CapabilityTasks(Planned(r), c), Status)
  <2>2. /\ Cardinality(R) + Cardinality(U) <= Cardinality(Remaining(r, c))
        /\ Cardinality(R) <= Cardinality(Remaining(r, c))
    BY CountedParts
  <2>3. /\ Cardinality(R) \in Nat /\ Cardinality(U) \in Nat
        /\ Cardinality(Remaining(r, c)) \in Nat
    BY PartsFinite DEF Received, Unfinished, Remaining
  <2>4. Policy[c].minimum \in Nat
    BY PolicyAssumption
  <2>5. /\ Cardinality(R) + Cardinality(U) < Policy[c].minimum
        /\ ~(Cardinality(R) >= Policy[c].minimum)
    <3> HIDE DEF R, U
    <3>1. QED
      BY <2>1, <2>2, <2>3, <2>4
  <2>6. c \in Missing(Planned(r), Status, Policy)
    BY <2>1, <2>5 DEF Missing, MinimumMet
  <2>7. Impossible(Planned(r), Status, Policy)
    BY <2>5, <2>6 DEF Impossible
  <2>8. QED
    BY <2>6, <2>7 DEF RunVerdict, Verdict
<1>3. CASE CriticalLost(r)
  <2>1. CriticalFailure(Planned(r), Status, Policy)
    BY <1>3 DEF CriticalLost, CriticalFailure, PermanentlyLost, CapabilityTasks, Planned, Status
  <2>2. QED
    BY <2>1 DEF RunVerdict, Verdict
<1>4. QED
  BY <1>1, <1>2, <1>3 DEF LossStands

\* The evaluator says CRITICAL only when such a loss stands: it holds the run row,
\* so no reconciliation of the run is open.
LEMMA CriticalIsLoss ==
  ASSUME StoredInv, NEW r \in Run, ~Locked(r), RunVerdict(r) = "CRITICAL"
  PROVE  LossStands(r)
<1>1. ASSUME NEW t \in Planned(r) PROVE PermanentlyLost(t) <=> Status[t] \in LostTaskStates
  BY DEF Planned, Status, PermanentlyLost, Locked, StoredInv, RepairFacts
<1>2. \/ /\ Missing(Planned(r), Status, Policy) # {}
         /\ \/ Impossible(Planned(r), Status, Policy)
            \/ now >= CollectionDeadline(r)
            \/ AllTerminal(Planned(r), Status)
      \/ CriticalFailure(Planned(r), Status, Policy)
  BY DEF RunVerdict, Verdict
<1>3. CASE CriticalFailure(Planned(r), Status, Policy)
  BY <1>1, <1>3 DEF CriticalFailure, CriticalLost, LossStands, CapabilityTasks
<1>4. CASE Missing(Planned(r), Status, Policy) # {} /\ now >= CollectionDeadline(r)
  BY <1>4 DEF LossStands, LateAndMissing
<1>5. ASSUME NEW c \in Missing(Planned(r), Status, Policy),
             \/ AllTerminal(Planned(r), Status)
             \/ Cardinality(Received(CapabilityTasks(Planned(r), c), Status))
                  + Cardinality(Unfinished(CapabilityTasks(Planned(r), c), Status))
                < Policy[c].minimum
      PROVE  LossStands(r)
  <2> DEFINE C == CapabilityTasks(Planned(r), c)
             R == Received(C, Status)
             U == Unfinished(C, Status)
  <2>1. c \in DOMAIN Policy /\ Policy[c].required /\ ~(Cardinality(R) >= Policy[c].minimum)
    BY DEF Missing, MinimumMet
  <2>2. Policy[c].minimum \in Nat
    BY <2>1, PolicyAssumption
  <2>3. /\ R \subseteq C /\ U \subseteq C /\ Remaining(r, c) \subseteq C
    BY DEF Received, Unfinished, Remaining
  <2>4. /\ Cardinality(R) \in Nat /\ Cardinality(U) \in Nat
        /\ IsFiniteSet(R \cup U) /\ IsFiniteSet(R)
    BY <2>1, <2>3, PartsFinite
  <2>5. Remaining(r, c) \subseteq R \cup U
    BY <1>1 DEF Remaining, Received, Unfinished, TERMINAL_TASK_STATES, CapabilityTasks
  <2>6. Cardinality(R) + Cardinality(U) = Cardinality(R \cup U)
    BY <2>1, CountedParts
  <2>7. CASE AllTerminal(Planned(r), Status)
    <3>1. U = {}
      BY <2>7 DEF AllTerminal, Unfinished, CapabilityTasks
    <3>2. Remaining(r, c) \subseteq R
      BY <2>5, <3>1
    <3>3. Cardinality(Remaining(r, c)) <= Cardinality(R) /\ Cardinality(Remaining(r, c)) \in Nat
      BY <2>4, <3>2, FS_Subset, FS_CardinalityType
    <3> HIDE DEF R
    <3>4. Cardinality(Remaining(r, c)) < Policy[c].minimum
      BY <2>1, <2>2, <2>4, <3>3
    <3>5. QED
      BY <2>1, <3>4 DEF OutOfTasks, LossStands
  <2>8. CASE Cardinality(R) + Cardinality(U) < Policy[c].minimum
    <3>1. /\ Cardinality(Remaining(r, c)) <= Cardinality(R \cup U)
          /\ Cardinality(Remaining(r, c)) \in Nat
      BY <2>4, <2>5, FS_Subset, FS_CardinalityType
    <3> HIDE DEF R, U
    <3>2. Cardinality(Remaining(r, c)) < Policy[c].minimum
      BY <2>2, <2>4, <2>6, <2>8, <3>1
    <3>3. QED
      BY <2>1, <3>2 DEF OutOfTasks, LossStands
  <2>9. QED
    BY <1>5, <2>7, <2>8
<1>6. QED
  BY <1>2, <1>3, <1>4, <1>5 DEF Impossible

\* The planner declares a run INSUFFICIENT_DATA only when the routed tasks of some
\* required capability are fewer than its minimum.
LEMMA PlanJustified ==
  ASSUME StoredInv, StoredInv', NEW r \in Run, Plan(r),
         runs'[r].outcome = "INSUFFICIENT_DATA"
  PROVE  LossStands(r)'
<1> DEFINE Critical(chosen) ==
      \E c \in {x \in DOMAIN Policy : Underplanned(chosen, x)} : Policy[c].required
<1> DEFINE Gap(chosen) ==
      \E c \in {x \in DOMAIN Policy : Underplanned(chosen, x)} : ~Policy[c].required
<1>1. PICK chosen \in SUBSET Task : PlanWrites(r, chosen, Critical(chosen), Gap(chosen))
  BY DEF Plan, PlanWrites
<1>2. Critical(chosen)
  <2> HIDE DEF Critical, Gap
  <2>1. runs'[r].outcome = IF Critical(chosen) THEN "INSUFFICIENT_DATA" ELSE "NONE"
    BY <1>1 DEF PlanWrites, StoredInv, TypeOK
  <2>2. QED
    BY <2>1
<1>3. PICK c \in DOMAIN Policy : Policy[c].required /\ Underplanned(chosen, c)
  BY <1>2
<1> HIDE DEF Critical, Gap
<1>4. ASSUME NEW t \in Planned(r)' PROVE t \in chosen
  <2>1. t \in Task /\ t.run = r /\ tasks'[t].status # "ABSENT"
    BY DEF Planned
  <2>2. tasks[t].status = "ABSENT"
    BY <2>1 DEF Plan, StoredInv, AbsentRuns
  <2>3. QED
    BY <1>1, <2>1, <2>2 DEF PlanWrites
<1>5. Remaining(r, c)' \subseteq CapabilityTasks(chosen, c)
  BY <1>4 DEF Remaining, CapabilityTasks
<1>6. IsFiniteSet(CapabilityTasks(chosen, c))
  BY FS_Subset, PolicyAssumption DEF CapabilityTasks
<1>7. /\ Cardinality(Remaining(r, c)') <= Cardinality(CapabilityTasks(chosen, c))
      /\ Cardinality(Remaining(r, c)') \in Nat
      /\ Cardinality(CapabilityTasks(chosen, c)) \in Nat
  BY <1>5, <1>6, FS_Subset, FS_CardinalityType
<1>8. Cardinality(CapabilityTasks(chosen, c)) < Policy[c].minimum /\ Policy[c].minimum \in Nat
  BY <1>3, PolicyAssumption DEF Underplanned
<1>9. Cardinality(Remaining(r, c)') < Policy[c].minimum
  BY <1>7, <1>8
<1>10. OutOfTasks(r)'
  BY <1>3, <1>9 DEF OutOfTasks
<1>11. QED
  BY <1>10 DEF LossStands

\* The evaluator's answer for a run: kept when it is final or undecided.
LEMMA EvaluatedOutcome ==
  ASSUME TypeOK, NEW r \in Run
  PROVE  \/ EvaluatedRun(r) = runs[r]
         \/ /\ EvaluatedRun(r).outcome = OutcomeOf(RunVerdict(r))
            /\ EvaluatedRun(r).created = runs[r].created
<1>1. runs[r] \in RunRow
  BY DEF TypeOK
<1>2. \A s, o : /\ [runs[r] EXCEPT !.status = s, !.outcome = o].outcome = o
                /\ [runs[r] EXCEPT !.status = s, !.outcome = o].created = runs[r].created
  BY <1>1 DEF RunRow
<1>3. QED
  BY <1>2 DEF EvaluatedRun

\* An evaluation that declares a run INSUFFICIENT_DATA found a loss that stands.
LEMMA EvaluationJustified ==
  ASSUME StoredInv, NEW r \in Run, UNCHANGED <<now, tasks, repair>>, ~Locked(r),
         runs'[r] = EvaluatedRun(r), EvaluatedRun(r) # runs[r],
         runs'[r].outcome = "INSUFFICIENT_DATA"
  PROVE  LossStands(r)'
<1>1. /\ EvaluatedRun(r).outcome = OutcomeOf(RunVerdict(r))
      /\ runs'[r].created = runs[r].created
  BY EvaluatedOutcome DEF StoredInv
<1>2. RunVerdict(r) = "CRITICAL"
  BY <1>1, VerdictType DEF OutcomeOf
<1>3. LossStands(r)
  BY <1>2, CriticalIsLoss
<1>4. /\ Planned(r)' = Planned(r) /\ Status' = Status
      /\ CollectionDeadline(r)' = CollectionDeadline(r)
      /\ \A t : PermanentlyLost(t)' <=> PermanentlyLost(t)
  BY <1>1 DEF Planned, Status, CollectionDeadline, PermanentlyLost
<1>5. \A c : Remaining(r, c)' = Remaining(r, c)
  BY <1>4 DEF Remaining
<1>6. /\ LateAndMissing(r)' <=> LateAndMissing(r)
      /\ OutOfTasks(r)' <=> OutOfTasks(r)
      /\ CriticalLost(r)' <=> CriticalLost(r)
  BY <1>4, <1>5 DEF LateAndMissing, OutOfTasks, CriticalLost
<1>7. QED
  BY <1>3, <1>6 DEF LossStands

\* A run with an outcome exists.
LEMMA OutcomeMeansPlanned ==
  ASSUME StoredInv, NEW r \in Run, runs[r].outcome = "INSUFFICIENT_DATA"
  PROVE  runs[r].status # "ABSENT"
BY DEF StoredInv, AbsentRuns

\* InsufficientInv is inductive, and under it no evaluation writes another outcome.
LEMMA InsufficientStep ==
  ASSUME InsufficientInv, [Next]_vars
  PROVE  /\ InsufficientInv'
         /\ \A r \in Run : runs[r].outcome = "INSUFFICIENT_DATA" =>
              runs'[r].outcome = "INSUFFICIENT_DATA"
<1>1. StoredInv /\ StoredInv' /\ TypeOK
  BY StoredStep DEF InsufficientInv, StoredInv
<1>2. ASSUME NEW r \in Run, runs[r].outcome = "INSUFFICIENT_DATA"
      PROVE  LossStands(r)' /\ runs'[r].outcome = "INSUFFICIENT_DATA"
  <2>1. LossStands(r) /\ runs[r].status # "ABSENT"
    BY <1>1, <1>2, OutcomeMeansPlanned DEF InsufficientInv
  <2>2. LossStands(r)'
    BY <1>1, <2>1, LossStays
  <2>3. RunVerdict(r) = "CRITICAL"
    BY <2>1, LossIsCritical
  <2>4. RunWritten(r) /\ ~Plan(r)
    BY <1>1, <2>1, RunWriters DEF Plan
  <2>5. EvaluatedRun(r).outcome = "INSUFFICIENT_DATA"
    BY <1>1, <1>2, <2>3, EvaluatedOutcome DEF OutcomeOf
  <2>6. [runs[r] EXCEPT !.status = "COLLECTING"].outcome = "INSUFFICIENT_DATA"
    BY <1>1, <1>2 DEF TypeOK, RunRow
  <2>7. QED
    BY <1>2, <2>2, <2>4, <2>5, <2>6 DEF RunWritten
<1>3. ASSUME NEW r \in Run, runs[r].outcome # "INSUFFICIENT_DATA",
             runs'[r].outcome = "INSUFFICIENT_DATA"
      PROVE  LossStands(r)'
  <2>1. [runs[r] EXCEPT !.status = "COLLECTING"].outcome # "INSUFFICIENT_DATA"
    BY <1>1, <1>3 DEF TypeOK, RunRow
  <2>2. CASE Plan(r)
    BY <1>1, <1>3, <2>2, PlanJustified
  <2>3. CASE ~Plan(r)
    <3>1. /\ UNCHANGED <<now, tasks, repair>> /\ ~Locked(r)
          /\ runs'[r] = EvaluatedRun(r) /\ EvaluatedRun(r) # runs[r]
      BY <1>1, <1>3, <2>1, <2>3, RunWriters DEF RunWritten
    <3>2. QED
      BY <1>1, <1>3, <3>1, EvaluationJustified
  <2>4. QED
    BY <2>2, <2>3
<1>4. QED
  BY <1>1, <1>2, <1>3 DEF InsufficientInv

\* InsufficientInv holds initially.
LEMMA InsufficientInit == Init => InsufficientInv
<1>1. Init => \A r \in Run : runs[r].outcome # "INSUFFICIENT_DATA"
  BY DEF Init, AbsentRun
<1>2. QED
  BY <1>1, StoredInit DEF InsufficientInv

\* A run declared INSUFFICIENT_DATA, by the planner or by the evaluator, lacks a
\* required capability's minimum or has lost a critical task in every later state,
\* although a reconciliation may reopen lost tasks and late answers arrive.
THEOREM InsufficientIsJustified == Spec => []InsufficientJustified
<1>1. InsufficientInv => InsufficientJustified
  BY LossIsCritical DEF InsufficientInv, InsufficientJustified
<1>2. InsufficientInv /\ [Next]_vars => InsufficientInv'
  BY InsufficientStep
<1>3. QED
  BY <1>1, <1>2, InsufficientInit, PTL DEF Spec

\* Nor does a re-evaluation upgrade it: a late acknowledgement may put its status
\* back to COLLECTING, but the evaluator then finds CRITICAL again.
THEOREM InsufficientIsFinal == Spec => NeverUpgraded
<1>1. InsufficientInv /\ [Next]_vars =>
        [\A r \in Run : runs[r].outcome = "INSUFFICIENT_DATA" =>
            runs'[r].outcome = "INSUFFICIENT_DATA"]_runs
  BY InsufficientStep
<1>2. InsufficientInv /\ [Next]_vars => InsufficientInv'
  BY InsufficientStep
<1>3. QED
  BY <1>1, <1>2, InsufficientInit, PTL DEF Spec, NeverUpgraded
-----------------------------------------------------------------------------
(* A critical task is not given up before the collection deadline.           *)

CriticalAnswered(r) ==
    \A t \in Planned(r) : Policy[t.cap].critical => tasks[t].status = "SIGNAL_RECEIVED"

CriticalKept(r) == CollectionDeadline(r) <= now \/ CriticalAnswered(r)

CriticalInv == StoredInv /\ CriticalAwaited

\* An evaluation that writes DEGRADED is late or has every critical answer: a
\* critical task that ended otherwise is a failure.
LEMMA DegradedKeepsCritical ==
  ASSUME StoredInv, NEW r \in Run, RunVerdict(r) = "DEGRADED"
  PROVE  CriticalKept(r)
<1>1. ~CriticalFailure(Planned(r), Status, Policy)
  BY DEF RunVerdict, Verdict
<1>2. AllTerminal(Planned(r), Status) \/ now >= CollectionDeadline(r)
  BY DEF RunVerdict, Verdict
<1>3. ASSUME AllTerminal(Planned(r), Status), NEW t \in Planned(r), Policy[t.cap].critical
      PROVE  tasks[t].status = "SIGNAL_RECEIVED"
  <2>1. t \in Task /\ Status[t] = tasks[t].status /\ t.cap \in DOMAIN Policy
    BY DEF Planned, Status, Task
  <2>2. Status[t] \in TERMINAL_TASK_STATES
    BY <1>3 DEF AllTerminal
  <2>3. Status[t] \notin LostTaskStates
    BY <1>1, <1>3, <2>1 DEF CriticalFailure, CapabilityTasks
  <2>4. QED
    BY <2>1, <2>2, <2>3 DEF TERMINAL_TASK_STATES
<1>4. /\ now \in Nat /\ CollectionDeadline(r) \in Nat
  BY TimingAssumption DEF StoredInv, TypeOK, RunRow, CollectionDeadline
<1>5. QED
  BY <1>2, <1>3, <1>4 DEF CriticalKept, CriticalAnswered

\* Later steps take no answer back, and the clock does not go back either.
LEMMA CriticalStays ==
  ASSUME StoredInv, [Next]_vars, NEW r \in Run, runs[r].status # "ABSENT", CriticalKept(r)
  PROVE  CriticalKept(r)'
<1>1. AnswersGrow(r)
  BY AnswersOnlyGrow
<1>2. CriticalAnswered(r) => CriticalAnswered(r)'
  BY <1>1 DEF AnswersGrow, CriticalAnswered, Planned
<1>3. now \in Nat /\ CollectionDeadline(r) \in Nat
  BY TimingAssumption DEF StoredInv, TypeOK, RunRow, CollectionDeadline
<1>4. now' = now \/ now' = now + 1
  BY ClockAdvances DEF StoredInv
<1>5. CollectionDeadline(r)' = CollectionDeadline(r)
  BY CreatedKept DEF CollectionDeadline
<1>6. CollectionDeadline(r) <= now => CollectionDeadline(r)' <= now'
  BY <1>3, <1>4, <1>5
<1>7. QED
  BY <1>2, <1>6 DEF CriticalKept

\* CriticalInv is inductive.
LEMMA CriticalStep ==
  ASSUME CriticalInv, [Next]_vars
  PROVE  CriticalInv'
<1>1. StoredInv /\ StoredInv' /\ TypeOK
  BY StoredStep DEF CriticalInv, StoredInv
<1>2. ASSUME NEW r \in Run, runs'[r].outcome = "DEGRADED"
      PROVE  CriticalKept(r)'
  <2>1. CASE runs[r].outcome = "DEGRADED"
    <3>1. runs[r].status # "ABSENT"
      BY <1>1, <2>1 DEF StoredInv, AbsentRuns
    <3>2. CriticalKept(r)
      BY <2>1 DEF CriticalInv, CriticalAwaited, CriticalKept, CriticalAnswered
    <3>3. QED
      BY <1>1, <3>1, <3>2, CriticalStays
  <2>2. CASE runs[r].outcome # "DEGRADED"
    <3>1. ~Plan(r)
      <4>1. ASSUME Plan(r) PROVE runs'[r].outcome # "DEGRADED"
        <5>1. PICK chosen \in SUBSET Task, critical \in BOOLEAN, gap \in BOOLEAN :
                PlanWrites(r, chosen, critical, gap)
          BY <4>1, PlanRows
        <5>2. QED
          BY <1>1, <5>1 DEF PlanWrites, TypeOK
      <4>2. QED
        BY <1>2, <4>1
    <3>2. [runs[r] EXCEPT !.status = "COLLECTING"].outcome # "DEGRADED"
      BY <1>1, <2>2 DEF TypeOK, RunRow
    <3>3. UNCHANGED <<now, tasks>> /\ runs'[r] = EvaluatedRun(r) /\ EvaluatedRun(r) # runs[r]
      BY <1>1, <1>2, <2>2, <3>1, <3>2, RunWriters DEF RunWritten
    <3>4. /\ EvaluatedRun(r).outcome = OutcomeOf(RunVerdict(r))
          /\ EvaluatedRun(r).created = runs[r].created
      BY <1>1, <3>3, EvaluatedOutcome
    <3>5. RunVerdict(r) = "DEGRADED"
      BY <1>2, <3>3, <3>4 DEF OutcomeOf
    <3>6. CriticalKept(r)
      BY <1>1, <3>5, DegradedKeepsCritical
    <3>7. Planned(r)' = Planned(r) /\ CollectionDeadline(r)' = CollectionDeadline(r)
      BY <3>3, <3>4 DEF Planned, CollectionDeadline
    <3>8. QED
      BY <3>3, <3>6, <3>7 DEF CriticalKept, CriticalAnswered
  <2>3. QED
    BY <2>1, <2>2
<1>3. CriticalAwaited'
  BY <1>2 DEF CriticalAwaited, CriticalKept, CriticalAnswered
<1>4. QED
  BY <1>1, <1>3 DEF CriticalInv

\* CriticalInv holds initially.
LEMMA CriticalInit == Init => CriticalInv
<1>1. Init => CriticalAwaited
  BY DEF Init, CriticalAwaited, AbsentRun
<1>2. QED
  BY <1>1, StoredInit DEF CriticalInv

\* A run is DEGRADED only with every critical answer, or when its collection
\* deadline passed while one was still awaited, whatever else answered.
THEOREM CriticalTasksAwaited == Spec => []CriticalAwaited
<1>1. CriticalInv => CriticalAwaited
  BY DEF CriticalInv
<1>2. QED
  BY <1>1, CriticalInit, CriticalStep, PTL DEF Spec
=============================================================================
