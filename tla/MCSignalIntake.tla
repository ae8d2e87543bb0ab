--------------------------- MODULE MCSignalIntake ---------------------------
(* Instances of SignalIntake for TLC. *)
EXTENDS SignalIntake, TLC

CONSTANTS h1, h2, A, B, m1, m2, n1, n2, t1

MCTaskAgent == t1 :> A

Post(a, m, n, t, signed) ==
    [agent |-> a, message |-> m, nonce |-> n, task |-> t, signed |-> signed,
     analysed |-> 0, authentic |-> TRUE]

\* A result of t1; another result of it, acceptable at the same time; a signal
\* without a task that repeats the message of the first and the nonce of the
\* second; another agent's result for t1, with a nonce that A uses too.
MCRequest == {Post(A, m1, n1, t1, 1), Post(A, m2, n2, t1, 1),
              Post(A, m1, n2, NoTask, 0), Post(B, m2, n1, t1, 2)}
=============================================================================
