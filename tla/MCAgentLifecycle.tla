-------------------------- MODULE MCAgentLifecycle --------------------------
(* Instances of AgentLifecycle for TLC. *)
EXTENDS AgentLifecycle, TLC

CONSTANTS a1, a2

(* The callers run the same code. *)
CallerSymmetry == Permutations(Callers)

OneAgent == <<a1>>
TwoAgents == <<a1, a2>>
=============================================================================
