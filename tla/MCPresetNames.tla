---------------------------- MODULE MCPresetNames ----------------------------
(* Instances of PresetNames for TLC. *)
EXTENDS PresetNames, TLC

(* Callers, ids and names are interchangeable. *)
Symmetry == Permutations(Callers) \cup Permutations(PresetIds) \cup Permutations(Names)
=============================================================================
