-------------------------- MODULE ExecutionContract --------------------------
(***************************************************************************)
(* What the orchestrator may rely on about an agent process: a task it     *)
(* accepted is worked on once, until the Hub has answered the signal, and  *)
(* is started again only after the process has forgotten it.               *)
(***************************************************************************)
CONSTANT Task

VARIABLE status         \* task -> IDLE, WORKING or DONE

Init == status = [t \in Task |-> "IDLE"]

Accept(t) == /\ status[t] = "IDLE"
             /\ status' = [status EXCEPT ![t] = "WORKING"]

Answered(t) == /\ status[t] = "WORKING"
               /\ status' = [status EXCEPT ![t] = "DONE"]

\* The process restarts, or drops the oldest tasks it remembers.
Forget(S) == status' = [t \in Task |-> IF t \in S THEN "IDLE" ELSE status[t]]

\* A process that makes room for a task forgets another one in the same step.
Replace(t, u) ==
    /\ t # u /\ status[t] = "IDLE"
    /\ status' = [status EXCEPT ![t] = "WORKING", ![u] = "IDLE"]

Next ==
    \/ \E t \in Task : Accept(t) \/ Answered(t)
    \/ \E t, u \in Task : Replace(t, u)
    \/ \E S \in SUBSET Task : Forget(S)

Spec == Init /\ [][Next]_status
=============================================================================
