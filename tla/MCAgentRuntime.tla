--------------------------- MODULE MCAgentRuntime ---------------------------
(* Instances of AgentRuntime for TLC. *)
EXTENDS AgentRuntime, TLC

CONSTANTS t1, t2

\* t2 has the earlier deadline.
MCDeadline == (t1 :> 4) @@ (t2 :> 3)
=============================================================================
