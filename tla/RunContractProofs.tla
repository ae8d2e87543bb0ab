-------------------------- MODULE RunContractProofs --------------------------
(***************************************************************************)
(* Orchestration implements RunContract.  A step of the detailed           *)
(* specification is a step of the contract or leaves its variables alone:  *)
(* the planner plans, an accepted signal answers, the evaluator declares,  *)
(* and everything else, the stale writes of the reconciliation included,   *)
(* stutters.  Rests on the invariant StoredInv of OrchestrationProofs.     *)
(***************************************************************************)
EXTENDS OrchestrationProofs

AbsPlanned == [r \in Run |-> Planned(r)]
AbsOutcome == [r \in Run |-> runs[r].outcome]

Hidden == UNCHANGED <<AbsPlanned, signals, AbsOutcome>>

\* The contract's own copy of Cardinality is the library's.
LEMMA SameCardinality == \A S : Contract!Cardinality(S) = Cardinality(S)
BY DEF Contract!Cardinality, Cardinality

\* Rows that neither appear nor disappear leave the plan as it is.
LEMMA SamePlan ==
  ASSUME SameAnswers \/ UNCHANGED tasks
  PROVE  UNCHANGED AbsPlanned
<1>1. ASSUME NEW r \in Run PROVE Planned(r)' = Planned(r)
  BY DEF SameAnswers, Planned
<1>2. QED
  BY <1>1 DEF AbsPlanned

\* A transaction of the loop that neither plans, answers nor evaluates is
\* invisible: it may change leases, retries, circuits and statuses only.
LEMMA HiddenWorkerStep ==
  ASSUME StoredInv, NEW w \in Worker, WorkerStep(w) \/ Crash(w), ~Evaluate(w)
  PROVE  Hidden
<1>1. ASSUME UNCHANGED runs PROVE UNCHANGED AbsOutcome
  BY <1>1 DEF AbsOutcome
<1>2. CASE Expire(w) \/ Claim(w)
  <2>1. SameAnswers
    BY <1>2, DispatchSameAnswers
  <2>2. UNCHANGED <<runs, signals>>
    BY <1>2 DEF Expire, Claim
  <2>3. QED
    BY <1>1, <2>1, <2>2, SamePlan DEF Hidden
<1>3. CASE Record(w)
  <2>1. SameAnswers
    BY <1>3, DispatchSameAnswers
  <2>2. UNCHANGED signals
    BY <1>3 DEF Record
  <2>3. UNCHANGED runs \/ runs' = [runs EXCEPT ![current[w].task.run].status = "COLLECTING"]
    BY <1>3 DEF Record, RecordAck, RecordFailure
  <2>4. runs \in [Run -> RunRow]
    BY DEF StoredInv, TypeOK
  <2>5. ASSUME NEW r \in Run PROVE runs'[r].outcome = runs[r].outcome
    BY <2>3, <2>4 DEF RunRow
  <2>6. UNCHANGED AbsOutcome
    BY <2>5 DEF AbsOutcome
  <2>7. QED
    BY <2>1, <2>2, <2>6, SamePlan DEF Hidden
<1>4. CASE ReconcileWrite(w)
  <2>1. SameAnswers
    BY <1>4, ReconcileSameAnswers
  <2>2. UNCHANGED signals
    BY <1>4 DEF ReconcileWrite
  <2>3. ASSUME NEW r \in Run PROVE runs'[r].outcome = runs[r].outcome
    BY <1>4 DEF ReconcileWrite, StoredInv, TypeOK, RunRow
  <2>4. UNCHANGED AbsOutcome
    BY <2>3 DEF AbsOutcome
  <2>5. QED
    BY <2>1, <2>2, <2>4, SamePlan DEF Hidden
<1>5. CASE Send(w) \/ ReconcileRead(w) \/ Crash(w)
  <2>1. UNCHANGED <<runs, tasks, signals>>
    BY <1>5 DEF Send, ReconcileRead, Crash, dbVars
  <2>2. QED
    BY <1>1, <2>1, SamePlan DEF Hidden
<1>6. QED
  BY <1>2, <1>3, <1>4, <1>5 DEF WorkerStep

\* The planner's writes, with the reason for an immediate loss kept.
LEMMA PlanReason ==
  ASSUME NEW r \in Run, Plan(r)
  PROVE  \E chosen \in SUBSET Task, critical \in BOOLEAN, gap \in BOOLEAN :
           /\ PlanWrites(r, chosen, critical, gap)
           /\ critical => \E c \in DOMAIN Policy :
                             Policy[c].required /\ Underplanned(chosen, c)
<1> DEFINE Critical(chosen) ==
      \E c \in {x \in DOMAIN Policy : Underplanned(chosen, x)} : Policy[c].required
<1> DEFINE Gap(chosen) ==
      \E c \in {x \in DOMAIN Policy : Underplanned(chosen, x)} : ~Policy[c].required
<1>1. PICK chosen \in SUBSET Task : PlanWrites(r, chosen, Critical(chosen), Gap(chosen))
  BY DEF Plan, PlanWrites
<1>2. Critical(chosen) \in BOOLEAN /\ Gap(chosen) \in BOOLEAN
  OBVIOUS
<1>3. Critical(chosen) => \E c \in DOMAIN Policy :
                             Policy[c].required /\ Underplanned(chosen, c)
  OBVIOUS
<1> HIDE DEF Critical, Gap
<1>4. QED
  BY <1>1, <1>2, <1>3, Zenon

\* Planning is the contract's Plan: nothing was planned before, and a run that
\* is lost at once has a required capability no answer can fill.
LEMMA PlanIsPlan ==
  ASSUME StoredInv, NEW r \in Run, Plan(r)
  PROVE  \E T \in SUBSET {t \in Task : t.run = r} : Contract!Plan(r, T)
<1>1. PICK chosen \in SUBSET Task, critical \in BOOLEAN, gap \in BOOLEAN :
        /\ PlanWrites(r, chosen, critical, gap)
        /\ critical => \E c \in DOMAIN Policy :
                          Policy[c].required /\ Underplanned(chosen, c)
  BY PlanReason
<1>2. chosen \in SUBSET {t \in Task : t.run = r}
  BY <1>1 DEF PlanWrites, Routed
<1>3. runs[r].status = "ABSENT" /\ runs[r].outcome = "NONE"
      /\ \A t \in Task : t.run = r => tasks[t].status = "ABSENT"
  BY DEF Plan, StoredInv, AbsentRuns
<1>4. Planned(r) = {} /\ chosen \cap signals = {}
  BY <1>2, <1>3 DEF Planned, StoredInv, StoredIffReceived
<1>5. \A t \in Task : (tasks'[t].status = "ABSENT") = (t \notin chosen /\ tasks[t].status = "ABSENT")
  BY <1>1 DEF PlanWrites, AbsentTask
<1>6. Planned(r)' = chosen
  BY <1>2, <1>3, <1>5 DEF Planned
<1>7. \A q \in Run : q # r => Planned(q)' = Planned(q)
  BY <1>2, <1>5 DEF Planned
<1>8. AbsPlanned' = [AbsPlanned EXCEPT ![r] = chosen]
  BY <1>6, <1>7 DEF AbsPlanned
<1>9. AbsOutcome' = [AbsOutcome EXCEPT ![r] = IF critical THEN "INSUFFICIENT_DATA" ELSE "NONE"]
  BY <1>1 DEF PlanWrites, AbsOutcome, StoredInv, TypeOK
<1>10. AbsOutcome[r] = "NONE" /\ AbsPlanned[r] = {}
  BY <1>3, <1>4 DEF AbsOutcome, AbsPlanned
<1>11. UNCHANGED signals
  BY DEF Plan
<1>12. critical => Contract!Justified(chosen, "INSUFFICIENT_DATA")
  <2> DEFINE A(c) == {t \in chosen \cap signals : t.cap = c}
  <2>1. ASSUME NEW c \in DOMAIN Policy PROVE Cardinality(A(c)) < Policy[c].minimum
    <3>1. A(c) = {}
      BY <1>4
    <3>2. Cardinality(A(c)) = 0
      BY <3>1, FS_EmptySet
    <3>3. Policy[c].minimum \in Nat \ {0}
      BY PolicyAssumption
    <3> HIDE DEF A
    <3>4. QED
      BY <3>2, <3>3
  <2>2. critical => Contract!Short(chosen)
    BY <1>1, <2>1, SameCardinality, Zenon DEF Contract!Short
  <2>3. QED
    BY <2>2 DEF Contract!Justified
<1>13. AbsOutcome' = AbsOutcome \/ (critical /\ AbsOutcome' = [AbsOutcome EXCEPT ![r] = "INSUFFICIENT_DATA"])
  <2>1. CASE critical
    BY <1>9, <2>1
  <2>2. CASE ~critical
    BY <1>9, <1>10, <2>2 DEF AbsOutcome
  <2>3. QED
    BY <2>1, <2>2
<1>14. Contract!Plan(r, chosen)
  BY <1>8, <1>10, <1>11, <1>12, <1>13 DEF Contract!Plan, AbsPlanned, AbsOutcome
<1>15. QED
  BY <1>2, <1>14

\* Accepting a signal answers a planned task that had no answer.
LEMMA AcceptIsAnswer ==
  ASSUME StoredInv, NEW t \in Task, AcceptSignal(t)
  PROVE  Contract!Answer(t)
<1>1. t.run \in Run
  BY TaskFields
<1>2. t \notin signals /\ signals' = signals \cup {t}
  BY DEF AcceptSignal, Accepting
<1>3. t \in AbsPlanned[t.run]
  BY <1>1 DEF AcceptSignal, Accepting, AbsPlanned, Planned
<1>4. \A u \in Task : tasks'[u].status = "ABSENT" <=> tasks[u].status = "ABSENT"
  BY DEF AcceptSignal, Accepting, StoredInv, TypeOK, TaskRow
<1>5. UNCHANGED AbsPlanned
  <2>1. ASSUME NEW r \in Run PROVE Planned(r)' = Planned(r)
    BY <1>4 DEF Planned
  <2>2. QED
    BY <2>1 DEF AbsPlanned
<1>6. UNCHANGED AbsOutcome
  BY DEF AcceptSignal, AbsOutcome
<1>7. QED
  BY <1>2, <1>3, <1>5, <1>6 DEF Contract!Answer, AbsPlanned, AbsOutcome

\* What the evaluator's verdict says in terms of answers.
LEMMA VerdictIsJustified ==
  ASSUME StoredInv, NEW r \in Run, RunVerdict(r) # "UNDECIDED"
  PROVE  /\ OutcomeOf(RunVerdict(r)) \in {"FULL", "DEGRADED", "INSUFFICIENT_DATA"}
         /\ Contract!Justified(Planned(r), OutcomeOf(RunVerdict(r)))
<1> DEFINE T == Planned(r)
<1>1. T \subseteq Task
  BY DEF Planned
<1>2. \A t \in Task : Status[t] = "SIGNAL_RECEIVED" <=> t \in signals
  BY DEF Status, StoredInv, StoredIffReceived
<1>3. \A c : Received(CapabilityTasks(T, c), Status) = {t \in T \cap signals : t.cap = c}
  BY <1>1, <1>2 DEF Received, CapabilityTasks
<1>4. ASSUME NEW c \in DOMAIN Policy
      PROVE  MinimumMet(T, Status, Policy, c) <=>
               ~(Cardinality({t \in T \cap signals : t.cap = c}) < Policy[c].minimum)
  <2> DEFINE A == {t \in T \cap signals : t.cap = c}
  <2>1. A \subseteq Task
    BY <1>1
  <2>2. Cardinality(A) \in Nat
    BY <2>1, PolicyAssumption, FS_Subset, FS_CardinalityType
  <2>3. Policy[c].minimum \in Nat
    BY PolicyAssumption
  <2>4. MinimumMet(T, Status, Policy, c) <=> Cardinality(A) >= Policy[c].minimum
    BY <1>3 DEF MinimumMet
  <2> HIDE DEF A
  <2>5. Cardinality(A) >= Policy[c].minimum <=> ~(Cardinality(A) < Policy[c].minimum)
    BY <2>2, <2>3
  <2>6. QED
    BY <2>4, <2>5 DEF A
<1>5. (Missing(T, Status, Policy) # {}) <=> Contract!Short(T)
  BY <1>4, SameCardinality, Zenon DEF Missing, Contract!Short
<1>6. CriticalFailure(T, Status, Policy) => Contract!CriticalUnanswered(T)
  BY <1>1, <1>2 DEF CriticalFailure, CapabilityTasks, LostTaskStates, Contract!CriticalUnanswered
<1>7. AllReceived(T, Status) => T \subseteq signals
  BY <1>1, <1>2 DEF AllReceived
<1> HIDE DEF T
<1>8. CASE RunVerdict(r) = "CRITICAL"
  <2>1. Missing(T, Status, Policy) # {} \/ CriticalFailure(T, Status, Policy)
    BY <1>8 DEF RunVerdict, Verdict, T
  <2>2. QED
    BY <1>5, <1>6, <1>8, <2>1 DEF OutcomeOf, Contract!Justified, T
<1>9. CASE RunVerdict(r) = "FULL"
  <2>1. AllReceived(T, Status)
    BY <1>9, VerdictSound DEF T
  <2>2. QED
    BY <1>7, <1>9, <2>1 DEF OutcomeOf, Contract!Justified, T
<1>10. CASE RunVerdict(r) = "DEGRADED"
  <2>1. Missing(T, Status, Policy) = {}
    BY <1>10, VerdictSound DEF T
  <2>2. QED
    BY <1>5, <1>10, <2>1 DEF OutcomeOf, Contract!Justified, T
<1>11. RunVerdict(r) \in {"CRITICAL", "FULL", "DEGRADED", "UNDECIDED"}
  BY DEF RunVerdict, Verdict
<1>12. QED
  BY <1>8, <1>9, <1>10, <1>11

\* An evaluation declares a justified outcome or changes none.
LEMMA EvaluateIsDeclare ==
  ASSUME StoredInv, NEW w \in Worker, Evaluate(w)
  PROVE  \/ Hidden
         \/ \E r \in Run, o \in {"FULL", "DEGRADED", "INSUFFICIENT_DATA"} :
               Contract!Declare(r, o)
<1>1. PICK r \in Run : runs' = [runs EXCEPT ![r] = EvaluatedRun(r)]
  BY DEF Evaluate, StoredInv, TypeOK
<1>2. UNCHANGED <<tasks, signals>>
  BY DEF Evaluate
<1>3. UNCHANGED AbsPlanned
  BY <1>2, SamePlan
<1>4. runs \in [Run -> RunRow]
  BY DEF StoredInv, TypeOK
<1>5. CASE EvaluatedRun(r) = runs[r]
  BY <1>1, <1>2, <1>3, <1>4, <1>5 DEF Hidden, AbsOutcome
<1>6. CASE EvaluatedRun(r) # runs[r]
  <2>1. RunVerdict(r) # "UNDECIDED"
    BY <1>6 DEF EvaluatedRun
  <2>2. EvaluatedRun(r) = [runs[r] EXCEPT !.status = RunVerdict(r), !.outcome = OutcomeOf(RunVerdict(r))]
    BY <1>6 DEF EvaluatedRun
  <2>3. EvaluatedRun(r).outcome = OutcomeOf(RunVerdict(r))
    <3>1. runs[r] \in RunRow
      BY <1>4
    <3>2. \A s, o : [runs[r] EXCEPT !.status = s, !.outcome = o].outcome = o
      BY <3>1 DEF RunRow
    <3>3. QED
      BY <2>2, <3>2
  <2>4. AbsOutcome' = [AbsOutcome EXCEPT ![r] = OutcomeOf(RunVerdict(r))]
    BY <1>1, <1>4, <2>3 DEF AbsOutcome
  <2>5. OutcomeOf(RunVerdict(r)) \in {"FULL", "DEGRADED", "INSUFFICIENT_DATA"}
        /\ Contract!Justified(Planned(r), OutcomeOf(RunVerdict(r)))
    BY <2>1, VerdictIsJustified
  <2>6. PICK o \in {"FULL", "DEGRADED", "INSUFFICIENT_DATA"} : o = OutcomeOf(RunVerdict(r))
    BY <2>5
  <2>7. Contract!Declare(r, o)
    BY <1>2, <1>3, <2>4, <2>5, <2>6 DEF Contract!Declare, AbsPlanned, AbsOutcome
  <2>8. QED
    BY <2>7
<1>7. QED
  BY <1>5, <1>6

\* Every step maps to a step of the contract or to a stutter.
LEMMA ContractStep ==
  ASSUME StoredInv, [Next]_vars
  PROVE  Hidden \/ Contract!Next
<1>1. ASSUME UNCHANGED <<runs, tasks, signals>> PROVE Hidden
  BY <1>1, SamePlan DEF Hidden, AbsOutcome
<1>2. CASE UNCHANGED vars
  BY <1>1, <1>2 DEF vars, dbVars
<1>3. ASSUME NEW r \in Run, Plan(r) PROVE Contract!Next
  BY <1>3, PlanIsPlan DEF Contract!Next
<1>4. ASSUME NEW w \in Worker, WorkerStep(w) \/ Crash(w) PROVE Hidden \/ Contract!Next
  <2>1. CASE Evaluate(w)
    BY <2>1, EvaluateIsDeclare DEF Contract!Next
  <2>2. CASE ~Evaluate(w)
    BY <1>4, <2>2, HiddenWorkerStep
  <2>3. QED
    BY <2>1, <2>2
<1>5. ASSUME NEW t \in Task, AcceptSignal(t) PROVE Contract!Next
  BY <1>5, AcceptIsAnswer DEF Contract!Next
<1>6. ASSUME \/ Tick \/ \E t \in Task : RejectSignal(t)
             \/ \E a \in Agent : AgentRestart(a) \/ DisableEndpoint(a)
      PROVE  Hidden
  BY <1>1, <1>6 DEF Tick, RejectSignal, AgentRestart, DisableEndpoint, dbVars
<1>7. QED
  BY <1>2, <1>3, <1>4, <1>5, <1>6 DEF Next

\* Initially nothing is planned, answered or declared.
LEMMA ContractInit == Init => Contract!Init
<1> SUFFICES ASSUME Init PROVE Contract!Init
  OBVIOUS
<1>1. \A r \in Run : Planned(r) = {} /\ runs[r].outcome = "NONE"
  BY DEF Init, Planned, AbsentTask, AbsentRun
<1>2. signals = {}
  BY DEF Init
<1>3. QED
  BY <1>1, <1>2 DEF Contract!Init

\* The orchestrator, for every set of runs, agents, workers, policy and timing,
\* implements the run contract.
THEOREM OrchestrationImplementsContract == Spec => RunsKeepContract
<1>1. ASSUME StoredInv, [Next]_vars PROVE [Contract!Next]_(Contract!vars)
  BY <1>1, ContractStep DEF Hidden, Contract!vars, AbsPlanned, AbsOutcome
<1>2. QED
  BY <1>1, ContractInit, StoredInvariant, PTL DEF Spec, RunsKeepContract, Contract!Spec
=============================================================================
