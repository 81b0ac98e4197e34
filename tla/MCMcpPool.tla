----------------------------- MODULE MCMcpPool -----------------------------
(* Instances of McpPool for TLC. *)
EXTENDS McpPool
=============================================================================
