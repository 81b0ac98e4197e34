--------------------------- MODULE MCContextTokens ---------------------------
(* Instances of ContextTokens for TLC. *)
EXTENDS ContextTokens, TLC

CONSTANTS a1, a2

(* An external input fans out to both agents; the first feeds the second,  *)
(* the second feeds itself.                                                *)
FanOut == <<a1, a2>>
Cyclic == a1 :> <<a2>> @@ a2 :> <<a2>>

FlowSymmetry == Permutations(Flows)
=============================================================================
