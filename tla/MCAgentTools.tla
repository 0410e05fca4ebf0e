----------------------------- MODULE MCAgentTools -----------------------------
(* Instances of AgentTools for TLC. *)
EXTENDS AgentTools, TLC

CONSTANTS a1, a2   \* two server processes

AgentSymmetry == Permutations({a1, a2})

=============================================================================
