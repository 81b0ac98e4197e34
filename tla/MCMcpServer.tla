----------------------------- MODULE MCMcpServer -----------------------------
(***************************************************************************)
(* The MCP server's two parts with state, the tools that edit configs and  *)
(* the ring of events.  They share nothing, so one is left in its initial  *)
(* state while the other moves: their interleavings would show nothing     *)
(* more.                                                                   *)
(***************************************************************************)
EXTENDS AgentConfigs, EventRing

ServerInit == CfgInit /\ RingInit
ServerNext ==
    \/ CfgNext /\ servers = 0 /\ UNCHANGED ringVars
    \/ RingNext /\ edits = 0 /\ UNCHANGED cfgVars
ServerSpec == ServerInit /\ [][ServerNext]_<<cfgVars, ringVars>>

DeclaredConfigs == [n |-> 1, c0 |-> ""]
GeneratedKeys == [n \in 1 .. 2 |-> IF n = 1 THEN {} ELSE {"c1"}]
ParkedNames == [old |-> "_old", c1 |-> "_c1"]
OldFiles == {[c0 |-> "o", old |-> "z"], [n |-> 2, c1 |-> "w"]}
AskedConfigs == {[n |-> 2], [n |-> 1], [c0 |-> "x"], [c1 |-> "y"], [n |-> 2, c1 |-> "y"],
                 [secret |-> "s"], [stray |-> "y"]}

PollKinds == [p |-> "outputs", q |-> "errors"]
Filters == [p |-> "any", q |-> "p1"]
RuntimeEvents == {AgentError("a", "p1"), AgentError("b", "p2"), ExternalOutput("ch", 1), OtherEvent}
=============================================================================
