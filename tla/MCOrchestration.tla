--------------------------- MODULE MCOrchestration ---------------------------
(***************************************************************************)
(* Small instances of Orchestration for TLC.                               *)
(***************************************************************************)
EXTENDS Orchestration, TLC

CONSTANTS r1, r2, a1, a2, w1, w2, none, idle

Req(required, critical, minimum, max) ==
    [required |-> required, critical |-> critical, minimum |-> minimum,
     max_agents |-> max]

\* A required and critical capability that one agent has, and an optional one.
TwoCapabilities == [tech |-> Req(TRUE, TRUE, 1, 1), news |-> Req(FALSE, FALSE, 1, 1)]
\* One required capability that two agents have, one of which may be lost.
OneOfTwo == [tech |-> Req(TRUE, FALSE, 1, 2)]

\* One agent, whose answer is critical but not required: the run goes on without
\* it at the collection deadline, and fails when it is lost before.
Solo == [tech |-> Req(FALSE, TRUE, 1, 1)]
SoloRegistry == {<<a1, "tech">>}

PairRegistry == {<<a1, "tech">>, <<a2, "news">>}
SharedRegistry == {<<a1, "tech">>, <<a2, "tech">>}
OneAgentRegistry == {<<a1, "tech">>, <<a1, "news">>}

DistinctOwners == [w \in Worker |-> w]

WorkerSymmetry == Permutations(Worker)
=============================================================================
