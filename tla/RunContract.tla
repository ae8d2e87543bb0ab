----------------------------- MODULE RunContract -----------------------------
(***************************************************************************)
(* What a run promises its caller, without leases, retries, circuits or    *)
(* clocks: its tasks are planned once, each is answered at most once and   *)
(* for ever, and whatever outcome is declared is justified by the answers  *)
(* there are at that moment.                                               *)
(***************************************************************************)
EXTENDS Naturals, FiniteSets

CONSTANTS Run, Task, Policy

VARIABLES
    planned,      \* run -> its tasks
    answered,     \* tasks whose signal is stored
    outcome       \* run -> NONE or the outcome declared

vars == <<planned, answered, outcome>>

Init ==
    /\ planned = [r \in Run |-> {}]
    /\ answered = {}
    /\ outcome = [r \in Run |-> "NONE"]

\* A required capability has fewer answers than its minimum.
Short(T) ==
    \E c \in DOMAIN Policy :
        /\ Policy[c].required
        /\ Cardinality({t \in T \cap answered : t.cap = c}) < Policy[c].minimum

CriticalUnanswered(T) == \E t \in T \ answered : Policy[t.cap].critical

\* When an outcome may be declared for a run with the tasks T.
Justified(T, o) ==
    \/ o = "FULL" /\ T \subseteq answered
    \/ o = "DEGRADED" /\ ~Short(T)
    \/ o = "INSUFFICIENT_DATA" /\ (Short(T) \/ CriticalUnanswered(T))

\* A run for which too few agents are available is declared lost at once.
Plan(r, T) ==
    /\ planned[r] = {} /\ outcome[r] = "NONE"
    /\ planned' = [planned EXCEPT ![r] = T]
    /\ \/ UNCHANGED outcome
       \/ /\ Justified(T, "INSUFFICIENT_DATA")
          /\ outcome' = [outcome EXCEPT ![r] = "INSUFFICIENT_DATA"]
    /\ UNCHANGED answered

Answer(t) ==
    /\ t \in planned[t.run] \ answered
    /\ answered' = answered \cup {t}
    /\ UNCHANGED <<planned, outcome>>

Declare(r, o) ==
    /\ Justified(planned[r], o)
    /\ outcome' = [outcome EXCEPT ![r] = o]
    /\ UNCHANGED <<planned, answered>>

Next ==
    \/ \E r \in Run :
          \/ \E T \in SUBSET {t \in Task : t.run = r} : Plan(r, T)
          \/ \E o \in {"FULL", "DEGRADED", "INSUFFICIENT_DATA"} : Declare(r, o)
    \/ \E t \in Task : Answer(t)

Spec == Init /\ [][Next]_vars
=============================================================================
