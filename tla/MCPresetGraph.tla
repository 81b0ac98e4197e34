---------------------------- MODULE MCPresetGraph ----------------------------
(* Instances of PresetGraph for TLC. *)
EXTENDS PresetGraph

(* Callers and ids are interchangeable. *)
Symmetry == Permutations(Callers) \cup Permutations(PresetIds) \cup Permutations(AgentIds)
=============================================================================
