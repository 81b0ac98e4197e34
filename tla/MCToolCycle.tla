---------------------------- MODULE MCToolCycle ----------------------------
(* Instances of ToolCycle for TLC. *)
EXTENDS ToolCycle, TLC

CONSTANTS c1, c2, f1, f2, n1, n2, a1, a2

(* Two chats, each in a flow of its own. *)
OwnFlows == (c1 :> f1) @@ (c2 :> f2)
=============================================================================
