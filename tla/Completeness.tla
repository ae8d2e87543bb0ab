---------------------------- MODULE Completeness ----------------------------
(***************************************************************************)
(* The collection quorum of CompletenessEvaluator.evaluate                 *)
(* (tomiris_orchestrator/quorum.py), as operators on                       *)
(*                                                                         *)
(*   T       the task rows of one run (a task has a field cap, its         *)
(*           required capability),                                         *)
(*   status  a function from tasks to their status column,                 *)
(*   policy  a function from capabilities to requirements                  *)
(*           [required, critical, minimum, max_agents].                    *)
(*                                                                         *)
(* Nothing here looks at what a signal says: the quorum counts answers.    *)
(***************************************************************************)
EXTENDS Naturals, FiniteSets

\* ck_agent_task_status: every value the status column may hold.
TaskStatus ==
    {"PENDING", "DISPATCHING", "ACKNOWLEDGED", "WAITING_SIGNAL",
     "SIGNAL_RECEIVED", "RETRY", "TIMED_OUT", "FAILED", "CANCELLED", "SKIPPED"}

\* TERMINAL_TASK_STATES, and the part of it that is a loss (quorum.py:73-77).
LostTaskStates == {"TIMED_OUT", "FAILED", "CANCELLED", "SKIPPED"}
TERMINAL_TASK_STATES == LostTaskStates \cup {"SIGNAL_RECEIVED"}

CapabilityTasks(T, c) == {t \in T : t.cap = c}

Received(T, status) == {t \in T : status[t] = "SIGNAL_RECEIVED"}

Unfinished(T, status) == {t \in T : status[t] \notin TERMINAL_TASK_STATES}

\* A required capability with enough answers.
MinimumMet(T, status, policy, c) ==
    Cardinality(Received(CapabilityTasks(T, c), status)) >= policy[c].minimum

\* The required capabilities that still lack answers.
Missing(T, status, policy) ==
    {c \in DOMAIN policy :
        policy[c].required /\ ~MinimumMet(T, status, policy, c)}

\* Not even the unfinished tasks of some missing capability can fill it.
Impossible(T, status, policy) ==
    \E c \in Missing(T, status, policy) :
        Cardinality(Received(CapabilityTasks(T, c), status))
          + Cardinality(Unfinished(CapabilityTasks(T, c), status))
        < policy[c].minimum

\* A faulty variant: a loss that counts only under the minimum.
CriticalFailure_OfRequired(T, status, policy) ==
    \E c \in Missing(T, status, policy) :
        /\ policy[c].critical
        /\ \E t \in CapabilityTasks(T, c) : status[t] \in LostTaskStates
\* A critical capability has lost one of its tasks, however many others answered.
CriticalFailure(T, status, policy) ==
    \E c \in DOMAIN policy :
        /\ policy[c].critical
        /\ \E t \in CapabilityTasks(T, c) : status[t] \in LostTaskStates

AllTerminal(T, status) == \A t \in T : status[t] \in TERMINAL_TASK_STATES
AllReceived(T, status) == \A t \in T : status[t] = "SIGNAL_RECEIVED"

\* Faulty variants of Verdict: a deadline that does not fail a run with missing
\* capabilities; a loss of any task that does.
Verdict_DeadlineForgives(T, status, policy, deadlineReached, missingOptional) ==
    IF \/ Impossible(T, status, policy)
       \/ CriticalFailure(T, status, policy)
    THEN "CRITICAL"
    ELSE IF AllReceived(T, status) /\ ~missingOptional
    THEN "FULL"
    ELSE IF AllTerminal(T, status) \/ deadlineReached
    THEN "DEGRADED"
    ELSE "UNDECIDED"
Verdict_AnyLossFails(T, status, policy, deadlineReached, missingOptional) ==
    IF \/ /\ Missing(T, status, policy) # {}
          /\ \/ Impossible(T, status, policy)
             \/ deadlineReached
             \/ AllTerminal(T, status)
       \/ \E t \in T : status[t] \in LostTaskStates
    THEN "CRITICAL"
    ELSE IF AllReceived(T, status) /\ ~missingOptional
    THEN "FULL"
    ELSE IF AllTerminal(T, status) \/ deadlineReached
    THEN "DEGRADED"
    ELSE "UNDECIDED"

\* The evaluator's if/elif chain; "UNDECIDED" is its not-yet-completed result.
Verdict(T, status, policy, deadlineReached, missingOptional) ==
    IF \/ /\ Missing(T, status, policy) # {}
          /\ \/ Impossible(T, status, policy)
             \/ deadlineReached
             \/ AllTerminal(T, status)
       \/ CriticalFailure(T, status, policy)
    THEN "CRITICAL"
    ELSE IF AllReceived(T, status) /\ ~missingOptional
    THEN "FULL"
    ELSE IF AllTerminal(T, status) \/ deadlineReached
    THEN "DEGRADED"
    ELSE "UNDECIDED"

\* The outcome column that goes with a final status.
OutcomeOf_StatusCopied(verdict) == verdict
OutcomeOf(verdict) == IF verdict = "CRITICAL" THEN "INSUFFICIENT_DATA" ELSE verdict
=============================================================================
