-------------------------- MODULE PresetToolProofs --------------------------
(***************************************************************************)
(* Proofs about PresetTool, for any agents, names, flows and callers: also *)
(* for callers that share a flow, as a CallToolAgent may do with the chat  *)
(* it serves; and about ToolCycle, the cycle of tool calls that uses it.   *)
(***************************************************************************)
EXTENDS ToolCycle, TLAPS, FiniteSetTheorems

(* What a tool_call knows while it lasts. *)
ToolKnown == \A c \in Callers : pc[c] \in {"locking", "waiting"} => tool[c] \in Agents

(* A call that waits for the lock has been told nothing. *)
LockingFresh == \A c \in Callers : pc[c] = "locking" => result[c] = <<>>

(* Calls in progress have numbers of their own. *)
CallsNumbered ==
    /\ \A c \in Callers : call[c] <= made
    /\ \A c, d \in Callers : c # d /\ pc[c] # "idle" /\ pc[d] # "idle" => call[c] # call[d]

(* What a workflow has yet to answer was asked by a call that registered:  *)
(* if it still waits, on this agent and under this flow.                   *)
WorkAsked ==
    \A w \in work :
        /\ w.call <= made
        /\ \A c \in Callers : pc[c] = "locking" => call[c] # w.call
        /\ \A c \in Callers : pc[c] = "waiting" /\ call[c] = w.call =>
              tool[c] = w.agent /\ FlowOf[c] = w.flow

IInv == TypeOK /\ ToolKnown /\ LockingFresh /\ CallsNumbered /\ WorkAsked /\ WaitersMatched

-----------------------------------------------------------------------------
(* Every variable keeps its type. *)
LEMMA TypeStep == TypeOK /\ ToolKnown /\ [Next]_toolVars => TypeOK'
<1> SUFFICES ASSUME TypeOK, ToolKnown, [Next]_toolVars PROVE TypeOK'
  OBVIOUS
<1> USE PresetToolAssumption
<1>0. <<0>> \in Seq(Nat) /\ <<>> \in Seq(Nat)
  OBVIOUS
<1>1. ASSUME NEW S \in SUBSET Callers PROVE Dropped(S) \in [Callers -> Seq(Nat)]
  BY <1>0 DEF TypeOK, Dropped
<1>2. CASE UNCHANGED toolVars
  BY <1>2 DEF TypeOK, toolVars
<1>3. ASSUME NEW a \in Agents, Start(a) PROVE TypeOK'
  BY <1>3 DEF TypeOK, Start, callVars, Status
<1>4. ASSUME NEW a \in Agents, Stop(a) PROVE TypeOK'
  <2>1. Waiters(a) \in SUBSET Callers
    BY DEF TypeOK, Waiters
  <2>2. result' \in [Callers -> Seq(Nat)]
    BY <1>1, <1>4, <2>1 DEF Stop
  <2>3. pending' \in [Agents -> [Flows -> Callers \cup {NoCaller}]]
    BY <1>4 DEF TypeOK, Stop
  <2> QED
    BY <1>4, <2>2, <2>3 DEF TypeOK, Stop, callVars, Status
<1>5. ASSUME NEW a \in Agents, NEW n \in Names, Rename(a, n) PROVE TypeOK'
  <2>1. registry' \in [Names -> Agents \cup {NoAgent}]
    BY <1>5 DEF TypeOK, Rename, Renamed
  <2> QED
    BY <1>5, <2>1 DEF TypeOK, Rename, callVars
<1>6. ASSUME NEW w \in work, Answer(w) PROVE TypeOK'
  <2>1. w.agent \in Agents /\ w.flow \in Flows /\ w.call \in Nat
    BY DEF TypeOK, Work
  <2>2. <<w.call>> \in Seq(Nat)
    BY <2>1
  <2>5. pending \in [Agents -> [Flows -> Callers \cup {NoCaller}]] /\ result \in [Callers -> Seq(Nat)]
    BY DEF TypeOK
  <2>3. pending' \in [Agents -> [Flows -> Callers \cup {NoCaller}]]
    <3>1. CASE UNCHANGED pending
      BY <2>5, <3>1
    <3>2. CASE pending' = [pending EXCEPT ![w.agent][w.flow] = NoCaller]
      BY <2>1, <2>5, <3>2
    <3> QED
      BY <1>6, <3>1, <3>2 DEF Answer
  <2>4. result' \in [Callers -> Seq(Nat)]
    <3>1. pending[w.agent][w.flow] \in Callers \cup {NoCaller}
      BY <2>1, <2>5
    <3> QED
      BY <1>6, <2>2, <2>5, <3>1 DEF Answer
  <2> QED
    BY <1>6, <2>3, <2>4 DEF TypeOK, Answer, agentVars, callVars
<1>7. ASSUME NEW f \in Flows, Cancel(f) PROVE TypeOK'
  BY <1>7 DEF TypeOK, Cancel, agentVars, callVars
<1>8. ASSUME NEW c \in Callers, NEW n \in Names, BeginCall(c, n) PROVE TypeOK'
  BY <1>0, <1>8 DEF TypeOK, BeginCall, agentVars
<1>9. ASSUME NEW c \in Callers, NEW r \in [Callers -> Seq(Nat)], Over(c, r),
             pending' \in [Agents -> [Flows -> Callers \cup {NoCaller}]]
      PROVE  TypeOK'
  BY <1>0, <1>9 DEF TypeOK, Over, agentVars
<1>10. ASSUME NEW c \in Callers, pc[c] \in {"locking", "waiting"}
       PROVE  /\ tool[c] \in Agents /\ FlowOf[c] \in Flows
              /\ Displaced(c) \in SUBSET Callers
              /\ [pending EXCEPT ![tool[c]][FlowOf[c]] = NoCaller]
                    \in [Agents -> [Flows -> Callers \cup {NoCaller}]]
  BY <1>10 DEF TypeOK, ToolKnown, Displaced
<1>11. ASSUME NEW c \in Callers, RegisterCancelled(c) PROVE TypeOK'
  BY <1>9, <1>11 DEF TypeOK, RegisterCancelled
<1>12. ASSUME NEW c \in Callers, Register(c) PROVE TypeOK'
  <2>1. pc[c] \in {"locking", "waiting"}
    BY <1>12 DEF Register
  <2>2. result' \in [Callers -> Seq(Nat)]
    BY <1>1, <1>10, <1>12, <2>1 DEF Register
  <2>3. pending' \in [Agents -> [Flows -> Callers \cup {NoCaller}]]
    BY <1>10, <1>12, <2>1 DEF TypeOK, Register
  <2>4. [agent |-> tool[c], flow |-> FlowOf[c], call |-> call[c]] \in Work
    BY <1>10, <2>1 DEF TypeOK, Work
  <2>5. work' \in SUBSET Work
    BY <1>12, <2>4 DEF TypeOK, Register
  <2>6. PICK t \in BOOLEAN : timed' = [timed EXCEPT ![c] = t]
    BY <1>12 DEF Register
  <2>7. timed' \in [Callers -> BOOLEAN]
    BY <2>6 DEF TypeOK
  <2> QED
    BY <1>12, <2>2, <2>3, <2>5, <2>7 DEF TypeOK, Register, agentVars
<1>13. ASSUME NEW c \in Callers, RegisterFails(c) PROVE TypeOK'
  BY <1>1, <1>9, <1>10, <1>13 DEF RegisterFails
<1>14. ASSUME NEW c \in Callers, EndWait(c), pc[c] = "waiting" PROVE TypeOK'
  BY <1>1, <1>9, <1>10, <1>14 DEF EndWait
<1>15. ASSUME NEW c \in Callers, CallStep(c) PROVE TypeOK'
  BY <1>11, <1>12, <1>13, <1>14, <1>15 DEF CallStep, Receive, Timeout, CallCancelled
<1> QED
  BY <1>2, <1>3, <1>4, <1>5, <1>6, <1>7, <1>8, <1>15 DEF Next, AgentStep

-----------------------------------------------------------------------------
(* What calls know of each other and of the workflow's work. *)
LEMMA CallsStep == IInv /\ [Next]_toolVars => (ToolKnown /\ CallsNumbered /\ WorkAsked)'
<1> SUFFICES ASSUME IInv, [Next]_toolVars PROVE (ToolKnown /\ CallsNumbered /\ WorkAsked)'
  OBVIOUS
<1> USE PresetToolAssumption
<1>1. /\ pc \in [Callers -> {"idle", "locking", "waiting"}] /\ tool \in [Callers -> Agents \cup {NoAgent}]
      /\ call \in [Callers -> Nat] /\ made \in Nat /\ work \in SUBSET Work
      /\ registry \in [Names -> Agents \cup {NoAgent}]
  BY DEF IInv, TypeOK
<1>2. ToolKnown /\ CallsNumbered /\ WorkAsked
  BY DEF IInv
<1>3. ASSUME UNCHANGED <<pc, tool, call, made>>, work' \subseteq work
      PROVE  (ToolKnown /\ CallsNumbered /\ WorkAsked)'
  BY <1>2, <1>3 DEF ToolKnown, CallsNumbered, WorkAsked
<1>4. CASE UNCHANGED toolVars \/ AgentStep
  <2>1. UNCHANGED <<pc, tool, call, made>> /\ work' \subseteq work
    BY <1>4 DEF toolVars, AgentStep, Start, Stop, Rename, Answer, Cancel, callVars
  <2> QED
    BY <1>3, <2>1
<1>5. ASSUME NEW c \in Callers, NEW n \in Names, BeginCall(c, n)
      PROVE  (ToolKnown /\ CallsNumbered /\ WorkAsked)'
  <2>1. /\ pc' = [pc EXCEPT ![c] = "locking"] /\ tool' = [tool EXCEPT ![c] = registry[n]]
        /\ call' = [call EXCEPT ![c] = made + 1] /\ made' = made + 1 /\ work' = work
        /\ registry[n] \in Agents
    BY <1>1, <1>5 DEF BeginCall
  <2>2. ToolKnown'
    BY <1>1, <1>2, <2>1 DEF ToolKnown
  <2>3. CallsNumbered'
    BY <1>1, <1>2, <2>1 DEF CallsNumbered
  <2>4. WorkAsked'
    <3> SUFFICES ASSUME NEW w \in work
                 PROVE  /\ w.call <= made + 1
                        /\ \A d \in Callers : pc'[d] = "locking" => call'[d] # w.call
                        /\ \A d \in Callers : pc'[d] = "waiting" /\ call'[d] = w.call =>
                              tool'[d] = w.agent /\ FlowOf[d] = w.flow
      BY <2>1 DEF WorkAsked
    <3>1. w.call \in Nat /\ w.call <= made
      BY <1>1, <1>2 DEF WorkAsked, Work
    <3> QED
      BY <1>1, <1>2, <2>1, <3>1 DEF WorkAsked
  <2> QED
    BY <2>2, <2>3, <2>4
<1>6. ASSUME NEW c \in Callers, NEW r, Over(c, r)
      PROVE  (ToolKnown /\ CallsNumbered /\ WorkAsked)'
  <2>1. /\ pc' = [pc EXCEPT ![c] = "idle"] /\ tool' = [tool EXCEPT ![c] = NoAgent]
        /\ call' = [call EXCEPT ![c] = 0] /\ made' = made /\ work' = work
    BY <1>6 DEF Over
  <2>2. ToolKnown'
    BY <1>1, <1>2, <2>1 DEF ToolKnown
  <2>3. CallsNumbered'
    BY <1>1, <1>2, <2>1 DEF CallsNumbered
  <2>4. WorkAsked'
    BY <1>1, <1>2, <2>1 DEF WorkAsked
  <2> QED
    BY <2>2, <2>3, <2>4
<1>7. ASSUME NEW c \in Callers, Register(c)
      PROVE  (ToolKnown /\ CallsNumbered /\ WorkAsked)'
  <2> DEFINE new == [agent |-> tool[c], flow |-> FlowOf[c], call |-> call[c]]
  <2>1. /\ pc[c] = "locking" /\ pc' = [pc EXCEPT ![c] = "waiting"]
        /\ tool' = tool /\ call' = call /\ made' = made /\ work' = work \cup {new}
    BY <1>7 DEF Register
  <2>2. ToolKnown'
    BY <1>1, <1>2, <2>1 DEF ToolKnown
  <2>3. CallsNumbered'
    BY <1>1, <1>2, <2>1 DEF CallsNumbered
  <2>4. WorkAsked'
    <3> SUFFICES ASSUME NEW w \in work \cup {new}
                 PROVE  /\ w.call <= made
                        /\ \A d \in Callers : pc'[d] = "locking" => call[d] # w.call
                        /\ \A d \in Callers : pc'[d] = "waiting" /\ call[d] = w.call =>
                              tool[d] = w.agent /\ FlowOf[d] = w.flow
      BY <2>1 DEF WorkAsked
    <3>1. CASE w \in work
      BY <1>1, <1>2, <2>1, <3>1 DEF WorkAsked
    <3>2. CASE w = new
      <4>1. w.call = call[c] /\ w.agent = tool[c] /\ w.flow = FlowOf[c]
        BY <3>2
      <4> QED
        BY <1>1, <1>2, <2>1, <4>1 DEF CallsNumbered
    <3> QED
      BY <3>1, <3>2
  <2> QED
    BY <2>2, <2>3, <2>4
<1>8. ASSUME NEW c \in Callers, CallStep(c) PROVE (ToolKnown /\ CallsNumbered /\ WorkAsked)'
  BY <1>6, <1>7, <1>8
     DEF CallStep, RegisterCancelled, RegisterFails, Receive, Timeout, CallCancelled, EndWait
<1> QED
  BY <1>4, <1>5, <1>8 DEF Next

-----------------------------------------------------------------------------
(* The senders that wait stay those of the calls that wait. *)
LEMMA MatchStep == IInv /\ [Next]_toolVars => WaitersMatched'
<1> SUFFICES ASSUME IInv, [Next]_toolVars PROVE WaitersMatched'
  OBVIOUS
<1> USE PresetToolAssumption
<1>1. /\ pc \in [Callers -> {"idle", "locking", "waiting"}] /\ tool \in [Callers -> Agents \cup {NoAgent}]
      /\ result \in [Callers -> Seq(Nat)] /\ work \in SUBSET Work
      /\ pending \in [Agents -> [Flows -> Callers \cup {NoCaller}]]
  BY DEF IInv, TypeOK
<1>2. WaitersMatched /\ ToolKnown
  BY DEF IInv
<1>3. ASSUME UNCHANGED <<pc, tool, result, pending>> PROVE WaitersMatched'
  BY <1>2, <1>3 DEF WaitersMatched
<1>4. CASE UNCHANGED toolVars \/ (\E f \in Flows : Cancel(f))
           \/ (\E a \in Agents : Start(a) \/ \E n \in Names : Rename(a, n))
  BY <1>3, <1>4 DEF toolVars, Cancel, Start, Rename, callVars
<1>5. \A n \in Nat : <<n>> # <<>>
  OBVIOUS
<1>6. ASSUME NEW a \in Agents, Stop(a) PROVE WaitersMatched'
  <2>1. /\ pc' = pc /\ tool' = tool /\ result' = Dropped(Waiters(a))
        /\ pending' = [pending EXCEPT ![a] = [f \in Flows |-> NoCaller]]
    BY <1>6 DEF Stop, callVars
  <2> SUFFICES ASSUME NEW b \in Agents, NEW f \in Flows, NEW c \in Callers
               PROVE  pending'[b][f] = c <=>
                         pc[c] = "waiting" /\ result'[c] = <<>> /\ tool[c] = b /\ FlowOf[c] = f
    BY <2>1 DEF WaitersMatched
  <2>2. result'[c] = IF c \in Waiters(a) THEN <<0>> ELSE result[c]
    BY <2>1 DEF Dropped
  <2>3. c \in Waiters(a) <=> \E g \in Flows : pending[a][g] = c
    BY DEF Waiters
  <2>4. CASE b = a
    <3>1. pending'[b][f] # c
      BY <1>1, <2>1, <2>4
    <3>2. ~(pc[c] = "waiting" /\ result'[c] = <<>> /\ tool[c] = b /\ FlowOf[c] = f)
      BY <1>2, <1>5, <2>2, <2>3, <2>4 DEF WaitersMatched
    <3> QED
      BY <3>1, <3>2
  <2>5. CASE b # a
    <3>1. pending'[b][f] = pending[b][f]
      BY <1>1, <2>1, <2>5
    <3>2. tool[c] = b => result'[c] = result[c]
      BY <1>2, <2>2, <2>3, <2>5 DEF WaitersMatched
    <3>3. pending[b][f] = c => tool[c] = b
      BY <1>2 DEF WaitersMatched
    <3> QED
      BY <1>2, <3>1, <3>2, <3>3 DEF WaitersMatched
  <2> QED
    BY <2>4, <2>5
<1>7. ASSUME NEW w \in work, Answer(w) PROVE WaitersMatched'
  <2>1. w.agent \in Agents /\ w.flow \in Flows /\ w.call \in Nat
    BY <1>1 DEF Work
  <2> DEFINE d == pending[w.agent][w.flow]
  <2>2. CASE UNCHANGED <<pending, result>>
    BY <1>3, <1>7, <2>2 DEF Answer, callVars
  <2>3. CASE /\ d # NoCaller
             /\ pending' = [pending EXCEPT ![w.agent][w.flow] = NoCaller]
             /\ result' = [result EXCEPT ![d] = <<w.call>>]
    <3>1. d \in Callers /\ <<w.call>> # <<>>
      BY <1>1, <1>5, <2>1, <2>3
    <3>2. pc' = pc /\ tool' = tool
      BY <1>7 DEF Answer, callVars
    <3> SUFFICES ASSUME NEW b \in Agents, NEW f \in Flows, NEW c \in Callers
                 PROVE  pending'[b][f] = c <=>
                           pc[c] = "waiting" /\ result'[c] = <<>> /\ tool[c] = b /\ FlowOf[c] = f
      BY <3>2 DEF WaitersMatched
    <3>3. pending'[b][f] = IF b = w.agent /\ f = w.flow THEN NoCaller ELSE pending[b][f]
      BY <1>1, <2>1, <2>3
    <3>4. result'[c] = IF c = d THEN <<w.call>> ELSE result[c]
      BY <1>1, <2>3, <3>1
    <3> QED
      BY <1>2, <2>1, <3>1, <3>3, <3>4 DEF WaitersMatched
  <2> QED
    BY <1>7, <2>2, <2>3 DEF Answer
<1>8. ASSUME NEW c \in Callers, NEW n \in Names, BeginCall(c, n) PROVE WaitersMatched'
  <2>1. /\ pc[c] = "idle" /\ pc' = [pc EXCEPT ![c] = "locking"] /\ pending' = pending
        /\ tool' = [tool EXCEPT ![c] = registry[n]] /\ result' = [result EXCEPT ![c] = <<>>]
    BY <1>8 DEF BeginCall
  <2> QED
    BY <1>1, <1>2, <2>1 DEF WaitersMatched
<1>9. ASSUME NEW c \in Callers, pc[c] = "locking", Over(c, result), UNCHANGED pending
      PROVE  WaitersMatched'
  <2>1. /\ pc' = [pc EXCEPT ![c] = "idle"] /\ pending' = pending
        /\ tool' = [tool EXCEPT ![c] = NoAgent] /\ result' = [result EXCEPT ![c] = <<>>]
    BY <1>9 DEF Over
  <2> QED
    BY <1>1, <1>2, <1>9, <2>1 DEF WaitersMatched
<1>10. ASSUME NEW c \in Callers, pc[c] \in {"locking", "waiting"}, Over(c, Dropped(Displaced(c))),
              pending' = [pending EXCEPT ![tool[c]][FlowOf[c]] = NoCaller]
       PROVE  WaitersMatched'
  <2> DEFINE a == tool[c]  d == pending[tool[c]][FlowOf[c]]
  <2>1. /\ pc' = [pc EXCEPT ![c] = "idle"] /\ tool' = [tool EXCEPT ![c] = NoAgent]
        /\ result' = [Dropped(Displaced(c)) EXCEPT ![c] = <<>>]
    BY <1>10 DEF Over
  <2>2. a \in Agents /\ FlowOf[c] \in Flows
    BY <1>2, <1>10 DEF ToolKnown
  <2> SUFFICES ASSUME NEW b \in Agents, NEW f \in Flows, NEW e \in Callers
               PROVE  pending'[b][f] = e <=>
                         pc'[e] = "waiting" /\ result'[e] = <<>> /\ tool'[e] = b /\ FlowOf[e] = f
    BY DEF WaitersMatched
  <2>3. pending'[b][f] = IF b = a /\ f = FlowOf[c] THEN NoCaller ELSE pending[b][f]
    BY <1>1, <1>10, <2>2
  <2>4. CASE e = c
    <3>1. pc'[e] = "idle"
      BY <1>1, <2>1, <2>4
    <3>2. pending'[b][f] # c
      BY <1>2, <2>2, <2>3 DEF WaitersMatched
    <3> QED
      BY <2>4, <3>1, <3>2
  <2>5. CASE e # c
    <3>1. pc'[e] = pc[e] /\ tool'[e] = tool[e]
      BY <1>1, <2>1, <2>5
    <3>2. result'[e] = IF e = d /\ d # NoCaller THEN <<0>> ELSE result[e]
      BY <2>1, <2>5 DEF Dropped, Displaced
    <3> QED
      BY <1>2, <1>5, <2>2, <2>3, <3>1, <3>2 DEF WaitersMatched
  <2> QED
    BY <2>4, <2>5
<1>11. ASSUME NEW c \in Callers, Register(c) PROVE WaitersMatched'
  <2> DEFINE a == tool[c]  d == pending[tool[c]][FlowOf[c]]
  <2>1. /\ pc[c] = "locking" /\ pc' = [pc EXCEPT ![c] = "waiting"] /\ tool' = tool
        /\ result' = Dropped(Displaced(c)) /\ pending' = [pending EXCEPT ![a][FlowOf[c]] = c]
    BY <1>11 DEF Register
  <2>2. a \in Agents /\ FlowOf[c] \in Flows
    BY <1>2, <2>1 DEF ToolKnown
  <2> SUFFICES ASSUME NEW b \in Agents, NEW f \in Flows, NEW e \in Callers
               PROVE  pending'[b][f] = e <=>
                         pc'[e] = "waiting" /\ result'[e] = <<>> /\ tool[e] = b /\ FlowOf[e] = f
    BY <2>1 DEF WaitersMatched
  <2>3. pending'[b][f] = IF b = a /\ f = FlowOf[c] THEN c ELSE pending[b][f]
    BY <1>1, <2>1, <2>2
  <2>4. result'[e] = IF e = d /\ d # NoCaller THEN <<0>> ELSE result[e]
    BY <2>1 DEF Dropped, Displaced
  <2>5. pc'[e] = IF e = c THEN "waiting" ELSE pc[e]
    BY <1>1, <2>1
  <2>6. d # c
    BY <1>2, <2>1, <2>2 DEF WaitersMatched
  <2>7. result[c] = <<>>
    BY <2>1 DEF IInv, LockingFresh
  <2> QED
    BY <1>2, <1>5, <2>1, <2>2, <2>3, <2>4, <2>5, <2>6, <2>7 DEF WaitersMatched
<1>12. ASSUME NEW c \in Callers, CallStep(c) PROVE WaitersMatched'
  BY <1>9, <1>10, <1>11, <1>12
     DEF CallStep, RegisterCancelled, RegisterFails, Receive, Timeout, CallCancelled, EndWait
<1> QED
  BY <1>4, <1>6, <1>7, <1>8, <1>12 DEF Next, AgentStep
-----------------------------------------------------------------------------
(* Only calls that wait for their result are told of it. *)
LEMMA FreshStep == IInv /\ [Next]_toolVars => LockingFresh'
<1> SUFFICES ASSUME IInv, [Next]_toolVars, NEW c \in Callers, pc'[c] = "locking"
             PROVE  result'[c] = <<>>
  BY DEF LockingFresh
<1> USE PresetToolAssumption
<1>1. /\ pc \in [Callers -> {"idle", "locking", "waiting"}] /\ result \in [Callers -> Seq(Nat)]
      /\ pending \in [Agents -> [Flows -> Callers \cup {NoCaller}]] /\ work \in SUBSET Work
  BY DEF IInv, TypeOK
<1>2. WaitersMatched /\ ToolKnown /\ LockingFresh
  BY DEF IInv
<1>3. ASSUME NEW a \in Agents, NEW f \in Flows, pending[a][f] \in Callers
      PROVE  pc[pending[a][f]] = "waiting"
  BY <1>2, <1>3 DEF WaitersMatched
<1>4. CASE pc[c] = "locking" /\ result'[c] = result[c]
  BY <1>2, <1>4 DEF LockingFresh
<1>5. CASE UNCHANGED toolVars \/ (\E f \in Flows : Cancel(f))
           \/ (\E a \in Agents : Start(a) \/ \E n \in Names : Rename(a, n))
  BY <1>4, <1>5 DEF toolVars, Cancel, Start, Rename, callVars
<1>6. ASSUME NEW a \in Agents, Stop(a) PROVE result'[c] = <<>>
  <2>1. pc[c] = "locking"
    BY <1>6 DEF Stop, callVars
  <2>2. c \notin Waiters(a)
    BY <1>3, <2>1 DEF Waiters
  <2> QED
    BY <1>4, <1>6, <2>1, <2>2 DEF Stop, Dropped
<1>7. ASSUME NEW w \in work, Answer(w) PROVE result'[c] = <<>>
  <2>1. pc[c] = "locking"
    BY <1>7 DEF Answer, callVars
  <2>2. w.agent \in Agents /\ w.flow \in Flows
    BY <1>1 DEF Work
  <2>3. pending[w.agent][w.flow] # c
    BY <1>3, <2>1, <2>2
  <2> QED
    BY <1>1, <1>4, <1>7, <2>1, <2>3 DEF Answer
<1>8. ASSUME NEW d \in Callers, NEW n \in Names, BeginCall(d, n) PROVE result'[c] = <<>>
  BY <1>1, <1>4, <1>8 DEF BeginCall
<1>9. ASSUME NEW d \in Callers, pc[d] \in {"locking", "waiting"}, pc[c] = "locking"
      PROVE  c \notin Displaced(d)
  BY <1>2, <1>3, <1>9 DEF Displaced, ToolKnown
<1>10. ASSUME NEW d \in Callers, NEW S, Over(d, Dropped(S)), pc[c] = "locking" => c \notin S
       PROVE  result'[c] = <<>>
  BY <1>1, <1>4, <1>10 DEF Over, Dropped
<1>11. ASSUME NEW d \in Callers, RegisterCancelled(d) PROVE result'[c] = <<>>
  BY <1>1, <1>4, <1>11 DEF RegisterCancelled, Over
<1>12. ASSUME NEW d \in Callers, Register(d) PROVE result'[c] = <<>>
  <2>1. pc[c] = "locking" /\ pc[d] = "locking"
    BY <1>1, <1>12 DEF Register
  <2> QED
    BY <1>4, <1>9, <1>12, <2>1 DEF Register, Dropped
<1>13. ASSUME NEW d \in Callers, CallStep(d) PROVE result'[c] = <<>>
  BY <1>9, <1>10, <1>11, <1>12, <1>13
     DEF CallStep, RegisterFails, Receive, Timeout, CallCancelled, EndWait
<1> QED
  BY <1>5, <1>6, <1>7, <1>8, <1>13 DEF Next, AgentStep

-----------------------------------------------------------------------------
(* The invariant holds at first. *)
LEMMA InitIInv == Init => IInv
<1> SUFFICES ASSUME Init PROVE IInv
  OBVIOUS
<1> USE PresetToolAssumption
<1>1. TypeOK
  BY DEF Init, TypeOK, Status
<1>2. ToolKnown /\ LockingFresh /\ WorkAsked
  BY DEF Init, ToolKnown, LockingFresh, WorkAsked
<1>3. CallsNumbered
  BY DEF Init, CallsNumbered
<1>4. WaitersMatched
  BY DEF Init, WaitersMatched
<1> QED
  BY <1>1, <1>2, <1>3, <1>4 DEF IInv

(* The invariant the theorems rest on. *)
LEMMA Invariance == Spec => []IInv
<1>1. IInv /\ [Next]_toolVars => IInv'
  BY TypeStep, CallsStep, MatchStep, FreshStep DEF IInv
<1> QED
  BY <1>1, InitIInv, PTL DEF Spec

(* Agents, registry, pending maps and calls keep their types. *)
THEOREM TypeCorrect == Spec => []TypeOK
<1>1. IInv => TypeOK
  BY DEF IInv
<1> QED
  BY <1>1, Invariance, PTL

(* The senders in the pending maps are always those of the calls that wait *)
(* without an answer, for callers that share a flow too: PresetTool's      *)
(* guard then removes the sender of another call, but never unnoticed.     *)
THEOREM WaitersAlwaysMatched == Spec => []WaitersMatched
<1>1. IInv => WaitersMatched
  BY DEF IInv
<1> QED
  BY <1>1, Invariance, PTL

-----------------------------------------------------------------------------
(* What AnswerReachesOwnCall says of one step. *)
AnswersOwn ==
    \A c \in Callers, d \in Callers :
        (/\ result'[c] # result[c]
         /\ result'[c] \notin {<<>>, <<0>>, <<call[c]>>}
         /\ result'[c] = <<call[d]>>)
        => ~(pc[d] = "waiting" /\ result[d] = <<>>)

(* Every step of a preset tool says so. *)
LEMMA AnswerStep == IInv /\ [Next]_toolVars => [AnswersOwn]_toolVars
<1> SUFFICES ASSUME IInv, Next, NEW c \in Callers, NEW d \in Callers,
                    result'[c] # result[c], result'[c] \notin {<<>>, << 0 >>, <<call[c]>>},
                    result'[c] = <<call[d]>>, pc[d] = "waiting", result[d] = <<>>
             PROVE  FALSE
  BY DEF AnswersOwn
<1> USE PresetToolAssumption
<1>1. /\ result \in [Callers -> Seq(Nat)] /\ call \in [Callers -> Nat] /\ work \in SUBSET Work
      /\ pending \in [Agents -> [Flows -> Callers \cup {NoCaller}]]
  BY DEF IInv, TypeOK
<1>2. ASSUME NEW S, NEW e \in Callers,
             result' = Dropped(S) \/ result' = [Dropped(S) EXCEPT ![e] = <<>>]
                \/ result' = [result EXCEPT ![e] = <<>>] \/ result' = result
      PROVE  FALSE
  BY <1>1, <1>2 DEF Dropped
<1>3. ASSUME NEW w \in work, Answer(w) PROVE FALSE
  <2> DEFINE e == pending[w.agent][w.flow]
  <2>1. w.agent \in Agents /\ w.flow \in Flows /\ w.call \in Nat
    BY <1>1 DEF Work
  <2>2. e \in Callers /\ result' = [result EXCEPT ![e] = <<w.call>>]
    BY <1>1, <1>3, <2>1 DEF Answer
  <2>3. c = e /\ <<w.call>> = <<call[d]>> /\ <<w.call>> # <<call[c]>>
    BY <1>1, <2>2
  <2>4. w.call = call[d] /\ c # d
    BY <1>1, <2>1, <2>3
  <2>5. tool[d] = w.agent /\ FlowOf[d] = w.flow
    BY <2>4 DEF IInv, WorkAsked
  <2>6. pending[w.agent][w.flow] = d
    BY <2>1, <2>5 DEF IInv, WaitersMatched
  <2> QED
    BY <2>3, <2>4, <2>6
<1>4. ASSUME NEW e \in Callers, CallStep(e) \/ (\E n \in Names : BeginCall(e, n)) PROVE FALSE
  BY <1>2, <1>4 DEF CallStep, RegisterCancelled, Register, RegisterFails, Receive, Timeout,
                    CallCancelled, EndWait, Over, BeginCall
<1>5. CASE \E a \in Agents : Start(a) \/ Stop(a) \/ \E n \in Names : Rename(a, n)
  BY <1>2, <1>5 DEF Start, Stop, Rename
<1>6. CASE \E f \in Flows : Cancel(f)
  BY <1>2, <1>6 DEF Cancel
<1> QED
  BY <1>3, <1>4, <1>5, <1>6 DEF Next, AgentStep

(* No step gives a call the value that a call beside it still waits for.   *)
THEOREM AnswerAlwaysReachesOwnCall == Spec => AnswerReachesOwnCall
  BY AnswerStep, Invariance, PTL DEF Spec, AnswerReachesOwnCall, AnswersOwn

-----------------------------------------------------------------------------
(* The registry never has a tool of an agent that is stopped, or under a   *)
(* name the agent had before: PresetToolAgent's start, stop and            *)
(* configs_changed.                                                        *)
THEOREM ToolsAreCurrent == Spec => []NoStaleTool
<1>1. Init => NoStaleTool
  BY DEF Init, NoStaleTool
<1>2. TypeOK /\ NoStaleTool /\ [Next]_toolVars => NoStaleTool'
  <2> SUFFICES ASSUME TypeOK, NoStaleTool, [Next]_toolVars PROVE NoStaleTool'
    OBVIOUS
  <2> USE PresetToolAssumption
  <2>1. /\ registry \in [Names -> Agents \cup {NoAgent}] /\ name \in [Agents -> Names]
        /\ status \in [Agents -> Status]
    BY DEF TypeOK
  <2>2. CASE UNCHANGED <<registry, name, status>>
    BY <2>2 DEF NoStaleTool
  <2>3. ASSUME NEW a \in Agents, Start(a) PROVE NoStaleTool'
    BY <2>1, <2>3 DEF NoStaleTool, Start
  <2>4. ASSUME NEW a \in Agents, Stop(a) PROVE NoStaleTool'
    BY <2>1, <2>4 DEF NoStaleTool, Stop
  <2>5. ASSUME NEW a \in Agents, NEW n \in Names, Rename(a, n) PROVE NoStaleTool'
    BY <2>1, <2>5 DEF NoStaleTool, Rename, Renamed
  <2>6. CASE UNCHANGED toolVars \/ (\E w \in work : Answer(w)) \/ (\E f \in Flows : Cancel(f))
    BY <2>2, <2>6 DEF toolVars, Answer, Cancel, agentVars
  <2>7. ASSUME NEW c \in Callers, CallStep(c) \/ (\E n \in Names : BeginCall(c, n)) PROVE NoStaleTool'
    BY <2>2, <2>7 DEF CallStep, RegisterCancelled, Register, RegisterFails, Receive, Timeout,
                      CallCancelled, EndWait, Over, BeginCall, agentVars
  <2> QED
    BY <2>3, <2>4, <2>5, <2>6, <2>7 DEF Next, AgentStep
<1> QED
  BY <1>1, <1>2, TypeCorrect, PTL DEF Spec
-----------------------------------------------------------------------------
(* The cycle of tool calls.                                                *)

(* A step of the cycle is a step of the preset tools or leaves them alone, *)
(* except that a stop of LoopControlAgent is counted among the edits.      *)
LEMMA CycleTools ==
    ASSUME [CycleNext]_cycleVars
    PROVE  [Next]_toolVars \/ LoopStop
<1>1. CASE CycleAgent
  BY <1>1 DEF CycleAgent, Next
<1>2. CASE LoopProcess
  BY <1>2 DEF LoopProcess
<1>3. ASSUME NEW c \in Callers, Emit(c) \/ Redeliver(c) \/ Finish(c)
      PROVE  UNCHANGED toolVars
  BY <1>3, Zenon DEF Emit, Redeliver, Finish
<1>4. ASSUME NEW c \in Callers, Execute(c)
      PROVE  [Next]_toolVars
  <2>1. CASE CycleRefused(c)
    BY <2>1 DEF CycleRefused
  <2>2. CASE CycleCall(c)
    BY <2>2 DEF CycleCall, Next
  <2>3. ASSUME NEW n \in Names, CycleBegin(c, n) PROVE Next
    BY <2>3 DEF CycleBegin, Next
  <2> QED
    BY <1>4, <2>1, <2>2, <2>3 DEF Execute
<1>5. CASE UNCHANGED cycleVars
  BY <1>5 DEF cycleVars
<1> QED
  BY <1>1, <1>2, <1>3, <1>4, <1>5 DEF CycleNext

(* The invariant of the preset tools holds in the cycle too. *)
LEMMA CycleInvariance == CycleSpec => []IInv
<1>1. IInv /\ [CycleNext]_cycleVars => IInv'
  <2> SUFFICES ASSUME IInv, [CycleNext]_cycleVars PROVE IInv'
    OBVIOUS
  <2>1. CASE [Next]_toolVars
    BY <2>1, TypeStep, CallsStep, MatchStep, FreshStep DEF IInv
  <2>2. CASE LoopStop
    <3>1. /\ UNCHANGED <<status, name, registry, pending, pc, tool, timed, result, call, work,
                         cancelled, made>>
          /\ edits' = edits + 1
      BY <2>2 DEF LoopStop, callVars
    <3>2. TypeOK'
      BY <3>1 DEF IInv, TypeOK
    <3> QED
      BY <3>1, <3>2 DEF IInv, ToolKnown, LockingFresh, CallsNumbered, WorkAsked, WaitersMatched
  <2> QED
    BY <2>1, <2>2, CycleTools
<1>2. CycleInit => IInv
  BY InitIInv DEF CycleInit
<1> QED
  BY <1>1, <1>2, PTL DEF CycleSpec

(* In the cycle, too, no sender is left behind for a later message and no  *)
(* call waits for a value that cannot come.                                *)
THEOREM CycleWaitersMatched == CycleSpec => []WaitersMatched
<1>1. IInv => WaitersMatched
  BY DEF IInv
<1> QED
  BY <1>1, CycleInvariance, PTL

(* In the cycle, too, a call never takes the value that a call beside it   *)
(* still waits for.                                                        *)
THEOREM CycleAnswersOwnCall == CycleSpec => AnswerReachesOwnCall
<1>1. IInv /\ [CycleNext]_cycleVars => [AnswersOwn]_toolVars
  <2> SUFFICES ASSUME IInv, [CycleNext]_cycleVars PROVE [AnswersOwn]_toolVars
    OBVIOUS
  <2>1. CASE LoopStop
    <3>1. result' = result
      BY <2>1 DEF LoopStop
    <3> QED
      BY <3>1 DEF AnswersOwn
  <2> QED
    BY <2>1, CycleTools, AnswerStep
<1> QED
  BY <1>1, CycleInvariance, PTL DEF CycleSpec, AnswerReachesOwnCall, AnswersOwn

-----------------------------------------------------------------------------
(* LoopControlAgent's count.                                               *)

MessageId == Callers \X Nat
ChatMessage == [caller : Callers, turn : Nat, hasId : BOOLEAN]

ChatType == inbox \in Seq(ChatMessage) /\ sent \in [Callers -> ChatMessage]

LoopType ==
    /\ counts \in [Flows -> Nat]
    /\ last \in [Flows -> MessageId \cup {<<>>}]
    /\ ctx_key_order \in Seq(Flows)
    /\ passed \in [Flows -> SUBSET MessageId]

(* The eviction queue holds the counted flows, each once. *)
Tracked ==
    /\ Len(ctx_key_order) <= MaxTracked
    /\ \A i, j \in DOMAIN ctx_key_order : ctx_key_order[i] = ctx_key_order[j] => i = j
    /\ \A f \in Flows : counts[f] > 0 <=> \E i \in DOMAIN ctx_key_order : ctx_key_order[i] = f

(* No more messages passed than were counted, none over the limit; the one *)
(* counted last passed if the count was within the limit.                  *)
Counted ==
    \A f \in Flows :
        /\ IsFiniteSet(passed[f])
        /\ Cardinality(passed[f]) <= counts[f]
        /\ MaxIterations > 0 => Cardinality(passed[f]) <= MaxIterations
        /\ last[f] # <<>> => counts[f] > 0
        /\ last[f] # <<>> /\ ~OverLimit(counts[f]) => last[f] \in passed[f]

LoopInv == ChatType /\ LoopType /\ Tracked /\ Counted

(* The queue without its head, and with a new flow at its end. *)
LEMMA QueueTail ==
    ASSUME NEW q \in Seq(Flows), q # <<>>
    PROVE  /\ Tail(q) \in Seq(Flows) /\ Head(q) \in Flows
           /\ Len(q) \in Nat /\ Len(q) > 0
           /\ Len(Tail(q)) = Len(q) - 1
           /\ Head(q) = q[1]
           /\ \A i \in 1 .. Len(q) - 1 : Tail(q)[i] = q[i + 1]
  OBVIOUS

(* What a queue gains with a flow that is not in it. *)
LEMMA QueueAppend ==
    ASSUME NEW q \in Seq(Flows), NEW f \in Flows,
           \A i, j \in DOMAIN q : q[i] = q[j] => i = j,
           \A i \in DOMAIN q : q[i] # f
    PROVE  /\ Append(q, f) \in Seq(Flows) /\ Len(Append(q, f)) = Len(q) + 1
           /\ \A i, j \in DOMAIN Append(q, f) : Append(q, f)[i] = Append(q, f)[j] => i = j
           /\ \A g \in Flows : (\E i \in DOMAIN Append(q, f) : Append(q, f)[i] = g)
                                <=> g = f \/ \E i \in DOMAIN q : q[i] = g
<1> DEFINE r == Append(q, f)
<1>1. /\ r \in Seq(Flows) /\ Len(r) = Len(q) + 1 /\ Len(q) \in Nat
      /\ DOMAIN r = 1 .. Len(q) + 1 /\ DOMAIN q = 1 .. Len(q)
      /\ r[Len(q) + 1] = f
      /\ \A i \in DOMAIN q : r[i] = q[i]
  OBVIOUS
<1> HIDE DEF r
<1>2. \A i, j \in DOMAIN r : r[i] = r[j] => i = j
  <2> SUFFICES ASSUME NEW i \in DOMAIN r, NEW j \in DOMAIN r, r[i] = r[j] PROVE i = j
    OBVIOUS
  <2>1. CASE i \in DOMAIN q /\ j \in DOMAIN q
    BY <1>1, <2>1
  <2>2. CASE i = Len(q) + 1 \/ j = Len(q) + 1
    BY <1>1, <2>2
  <2> QED
    BY <1>1, <2>1, <2>2
<1>3. \A g \in Flows : (\E i \in DOMAIN r : r[i] = g) <=> g = f \/ \E i \in DOMAIN q : q[i] = g
  <2> SUFFICES ASSUME NEW g \in Flows
               PROVE  (\E i \in DOMAIN r : r[i] = g) <=> g = f \/ \E i \in DOMAIN q : q[i] = g
    OBVIOUS
  <2>1. ASSUME NEW i \in DOMAIN r, r[i] = g PROVE g = f \/ \E k \in DOMAIN q : q[k] = g
    BY <1>1, <2>1
  <2>2. ASSUME g = f PROVE \E i \in DOMAIN r : r[i] = g
    BY <1>1, <2>2
  <2>3. ASSUME NEW i \in DOMAIN q, q[i] = g PROVE \E k \in DOMAIN r : r[k] = g
    BY <1>1, <2>3
  <2> QED
    BY <2>1, <2>2, <2>3
<1> QED
  BY <1>1, <1>2, <1>3 DEF r

(* A message that is counted keeps LoopInv. *)
LEMMA LoopProcessStep ==
    ASSUME LoopInv, LoopProcess
    PROVE  LoopInv'
<1> USE ToolCycleAssumption, PresetToolAssumption
<1> DEFINE m == Head(inbox)
           c == m.caller
           f == FlowOf[c]
           id == <<c, m.turn>>
           E == Evicted(f)
           kept == [g \in Flows |-> IF g \in E THEN {} ELSE passed[g]]
<1>types. /\ counts \in [Flows -> Nat] /\ last \in [Flows -> MessageId \cup {<<>>}]
          /\ ctx_key_order \in Seq(Flows) /\ passed \in [Flows -> SUBSET MessageId]
          /\ inbox \in Seq(ChatMessage) /\ sent \in [Callers -> ChatMessage]
          /\ inbox # <<>>
  BY DEF LoopInv, LoopType, ChatType, LoopProcess
<1>m. m \in ChatMessage
  BY <1>types
<1>c. c \in Callers /\ m.turn \in Nat
  BY <1>m DEF ChatMessage
<1>f. f \in Flows /\ id \in MessageId /\ id # <<>>
  BY <1>c DEF MessageId
<1>step. /\ inbox' = Tail(inbox) /\ UNCHANGED sent
         /\ Again(m) => UNCHANGED <<counts, last, ctx_key_order>>
         /\ ~Again(m) =>
               /\ counts' = [g \in Flows |-> IF g = f THEN counts[f] + 1
                                             ELSE IF g \in E THEN 0 ELSE counts[g]]
               /\ last' = [g \in Flows |-> IF g = f THEN (IF m.hasId THEN id ELSE <<>>)
                                           ELSE IF g \in E THEN <<>> ELSE last[g]]
               /\ ctx_key_order' = OrderWith(f)
         /\ passed' = IF Forward(m) THEN [kept EXCEPT ![f] = @ \cup {id}] ELSE kept
  BY DEF LoopProcess
<1>again. Again(m) <=> m.hasId /\ last[f] = id
  BY DEF Again
<1>fwd. Forward(m) <=> IF Again(m) THEN ~OverLimit(counts[f]) ELSE ~OverLimit(counts[f] + 1)
  BY DEF Forward, ForwardAgain
<1>evict. E = IF counts[f] = 0 /\ Len(ctx_key_order) >= MaxTracked THEN {Head(ctx_key_order)} ELSE {}
  BY DEF Evicted
<1>order. OrderWith(f) = IF counts[f] # 0 THEN ctx_key_order
                         ELSE Append(IF E = {} THEN ctx_key_order ELSE Tail(ctx_key_order), f)
  BY DEF OrderWith
<1> HIDE DEF m, c, f, id, E
<1>chat. ChatType'
  <2>1. Tail(inbox) \in Seq(ChatMessage)
    BY <1>types
  <2> QED
    BY <2>1, <1>types, <1>step DEF ChatType
<1>kept. /\ passed' \in [Flows -> SUBSET MessageId]
         /\ passed'[f] = IF Forward(m) THEN kept[f] \cup {id} ELSE kept[f]
         /\ \A g \in Flows : g # f => passed'[g] = IF g \in E THEN {} ELSE passed[g]
  BY <1>types, <1>step, <1>f
<1>tracked. Tracked
  BY DEF LoopInv
<1>count. ASSUME NEW g \in Flows
          PROVE  /\ IsFiniteSet(passed[g])
                 /\ Cardinality(passed[g]) \in Nat
                 /\ Cardinality(passed[g]) <= counts[g]
                 /\ MaxIterations > 0 => Cardinality(passed[g]) <= MaxIterations
                 /\ last[g] # <<>> => counts[g] > 0
                 /\ last[g] # <<>> /\ ~OverLimit(counts[g]) => last[g] \in passed[g]
  BY <1>count, FS_CardinalityType DEF LoopInv, Counted
<1>1. CASE Again(m)
  <2>1. last[f] = id /\ counts[f] > 0 /\ E = {}
    BY <1>1, <1>again, <1>count, <1>f, <1>types, <1>evict
  <2>2. kept = passed
    BY <2>1, <1>types
  <2>3. Forward(m) => id \in passed[f]
    BY <1>1, <2>1, <1>fwd, <1>count, <1>f
  <2>4. passed' = passed
    <3>1. passed'[f] = passed[f]
      BY <2>2, <2>3, <1>kept
    <3>2. \A g \in Flows : passed'[g] = passed[g]
      BY <3>1, <2>1, <1>kept
    <3> QED
      BY <3>2, <1>kept, <1>types
  <2>5. UNCHANGED <<counts, last, ctx_key_order>>
    BY <1>1, <1>step
  <2> QED
    BY <2>4, <2>5, <1>chat DEF LoopInv, LoopType, Tracked, Counted, OverLimit
<1>2. CASE ~Again(m)
  <2>step. /\ counts' = [g \in Flows |-> IF g = f THEN counts[f] + 1
                                         ELSE IF g \in E THEN 0 ELSE counts[g]]
           /\ last' = [g \in Flows |-> IF g = f THEN (IF m.hasId THEN id ELSE <<>>)
                                       ELSE IF g \in E THEN <<>> ELSE last[g]]
           /\ ctx_key_order' = OrderWith(f)
    BY <1>2, <1>step
  <2>fwd. Forward(m) <=> ~OverLimit(counts[f] + 1)
    BY <1>2, <1>fwd
  <2>1. f \notin E
    <3>1. CASE E = {}
      BY <3>1
    <3>2. CASE E # {}
      <4>1. counts[f] = 0 /\ Len(ctx_key_order) >= MaxTracked /\ E = {Head(ctx_key_order)}
        BY <3>2, <1>evict
      <4>2. ctx_key_order # <<>>
        BY <4>1, <1>types
      <4>3. 1 \in DOMAIN ctx_key_order /\ Head(ctx_key_order) = ctx_key_order[1]
        BY <4>2, <1>types, QueueTail
      <4>4. ~(counts[f] > 0)
        BY <4>1
      <4>5. ctx_key_order[1] # f
        BY <4>3, <4>4, <1>f, <1>tracked DEF Tracked
      <4> QED
        BY <4>1, <4>3, <4>5
    <3> QED
      BY <3>1, <3>2
  <2>2. LoopType'
    <3>1. counts' \in [Flows -> Nat]
      BY <2>step, <1>types, <1>f
    <3>2. last' \in [Flows -> MessageId \cup {<<>>}]
      BY <2>step, <1>types, <1>f
    <3>3. OrderWith(f) \in Seq(Flows)
      <4>1. E # {} => ctx_key_order # <<>>
        BY <1>evict, <1>types
      <4> QED
        BY <4>1, <1>order, <1>types, <1>f
    <3> QED
      BY <3>1, <3>2, <3>3, <2>step, <1>kept DEF LoopType
  <2>3. Tracked'
    <3>1. CASE counts[f] # 0
      <4>1. E = {} /\ ctx_key_order' = ctx_key_order
        BY <3>1, <1>evict, <1>order, <2>step
      <4>2. \A g \in Flows : counts'[g] > 0 <=> counts[g] > 0
        BY <3>1, <4>1, <2>step, <1>types, <1>f
      <4> QED
        BY <4>1, <4>2, <1>tracked DEF Tracked
    <3>2. CASE counts[f] = 0
      <4> DEFINE q == IF E = {} THEN ctx_key_order ELSE Tail(ctx_key_order)
      <4>1. ctx_key_order' = Append(q, f)
        BY <3>2, <1>order, <2>step
      <4>2. /\ q \in Seq(Flows)
            /\ Len(q) < MaxTracked
            /\ \A i, j \in DOMAIN q : q[i] = q[j] => i = j
            /\ \A g \in Flows : (\E i \in DOMAIN q : q[i] = g) <=> g \notin E /\ counts[g] > 0
        <5>1. CASE E = {}
          <6>1. q = ctx_key_order
            BY <5>1
          <6>2. ~(Len(ctx_key_order) >= MaxTracked)
            BY <5>1, <3>2, <1>evict, Zenon
          <6>3. Len(ctx_key_order) < MaxTracked
            BY <6>2, <1>types
          <6> HIDE DEF q
          <6> QED
            BY <5>1, <6>1, <6>3, <1>types, <1>tracked DEF Tracked
        <5>2. CASE E # {}
          <6>1. E = {Head(ctx_key_order)} /\ Len(ctx_key_order) >= MaxTracked
            BY <5>2, <1>evict
          <6>2. ctx_key_order # <<>>
            BY <6>1, <1>types
          <6>3. /\ q = Tail(ctx_key_order) /\ q \in Seq(Flows)
                /\ Head(ctx_key_order) \in Flows
                /\ Len(ctx_key_order) \in Nat /\ Len(ctx_key_order) > 0
                /\ Len(q) = Len(ctx_key_order) - 1
                /\ Head(ctx_key_order) = ctx_key_order[1]
                /\ \A i \in 1 .. Len(ctx_key_order) - 1 : q[i] = ctx_key_order[i + 1]
            BY <5>2, <6>2, <1>types, QueueTail
          <6> HIDE DEF q
          <6>4. /\ DOMAIN q = 1 .. Len(ctx_key_order) - 1
                /\ DOMAIN ctx_key_order = 1 .. Len(ctx_key_order)
            BY <6>3, <1>types
          <6>5. Len(q) < MaxTracked
            BY <6>3, <1>tracked DEF Tracked
          <6>6. \A i, j \in DOMAIN q : q[i] = q[j] => i = j
            BY <6>3, <6>4, <1>tracked DEF Tracked
          <6>7. \A g \in Flows : (\E i \in DOMAIN q : q[i] = g) <=> g \notin E /\ counts[g] > 0
            <7> SUFFICES ASSUME NEW g \in Flows
                         PROVE  (\E i \in DOMAIN q : q[i] = g) <=> g \notin E /\ counts[g] > 0
              OBVIOUS
            <7>1. ASSUME NEW i \in DOMAIN q, q[i] = g PROVE g \notin E /\ counts[g] > 0
              <8>1. i + 1 \in DOMAIN ctx_key_order /\ 1 \in DOMAIN ctx_key_order
                    /\ ctx_key_order[i + 1] = g /\ i + 1 # 1
                BY <7>1, <6>3, <6>4
              <8>2. counts[g] > 0 /\ ctx_key_order[1] # g
                BY <8>1, <1>tracked DEF Tracked
              <8> QED
                BY <8>2, <6>1, <6>3
            <7>2. ASSUME g \notin E, counts[g] > 0 PROVE \E i \in DOMAIN q : q[i] = g
              <8>1. PICK i \in DOMAIN ctx_key_order : ctx_key_order[i] = g
                BY <7>2, <1>tracked DEF Tracked
              <8>2. i # 1
                BY <7>2, <8>1, <6>1, <6>3
              <8>3. i - 1 \in DOMAIN q /\ q[i - 1] = g
                BY <8>1, <8>2, <6>3, <6>4
              <8> QED
                BY <8>3
            <7> QED
              BY <7>1, <7>2
          <6> QED
            BY <6>3, <6>5, <6>6, <6>7
        <5> QED
          BY <5>1, <5>2
      <4> HIDE DEF q
      <4>3. \A i \in DOMAIN q : q[i] # f
        BY <4>2, <3>2, <1>f
      <4>4. /\ Len(ctx_key_order') = Len(q) + 1
            /\ \A i, j \in DOMAIN ctx_key_order' : ctx_key_order'[i] = ctx_key_order'[j] => i = j
            /\ \A g \in Flows : (\E i \in DOMAIN ctx_key_order' : ctx_key_order'[i] = g)
                                 <=> g = f \/ \E i \in DOMAIN q : q[i] = g
        BY <4>1, <4>2, <4>3, <1>f, QueueAppend
      <4>5. \A g \in Flows : counts'[g] > 0 <=> g = f \/ (g \notin E /\ counts[g] > 0)
        BY <2>step, <1>types, <1>f
      <4>6. Len(ctx_key_order') <= MaxTracked
        BY <4>2, <4>4
      <4> QED
        BY <4>2, <4>4, <4>5, <4>6 DEF Tracked
    <3> QED
      BY <3>1, <3>2
  <2>4. Counted'
    <3> SUFFICES ASSUME NEW g \in Flows
                 PROVE  /\ IsFiniteSet(passed'[g])
                        /\ Cardinality(passed'[g]) <= counts'[g]
                        /\ MaxIterations > 0 => Cardinality(passed'[g]) <= MaxIterations
                        /\ last'[g] # <<>> => counts'[g] > 0
                        /\ last'[g] # <<>> /\ ~OverLimit(counts'[g]) => last'[g] \in passed'[g]
      BY DEF Counted, OverLimit
    <3>1. CASE g # f /\ g \notin E
      <4>1. passed'[g] = passed[g] /\ counts'[g] = counts[g] /\ last'[g] = last[g]
        BY <3>1, <2>step, <1>kept
      <4> QED
        BY <4>1, <1>count
    <3>2. CASE g # f /\ g \in E
      <4>1. passed'[g] = {} /\ counts'[g] = 0 /\ last'[g] = <<>>
        BY <3>2, <2>step, <1>kept
      <4> QED
        BY <4>1, FS_EmptySet
    <3>3. CASE g = f
      <4>1. /\ kept[f] = passed[f] /\ counts'[f] = counts[f] + 1
            /\ last'[f] = IF m.hasId THEN id ELSE <<>>
            /\ counts[f] \in Nat
        BY <2>1, <2>step, <1>f, <1>types
      <4>2. CASE Forward(m)
        <5>1. passed'[f] = passed[f] \cup {id}
          BY <4>1, <4>2, <1>kept
        <5>2. /\ IsFiniteSet(passed'[f]) /\ Cardinality(passed'[f]) \in Nat
              /\ Cardinality(passed'[f]) <= Cardinality(passed[f]) + 1
          <6>1. IsFiniteSet(passed[f]) /\ Cardinality(passed[f]) \in Nat
            BY <1>count, <1>f
          <6>2. /\ IsFiniteSet(passed[f] \cup {id})
                /\ Cardinality(passed[f] \cup {id}) =
                      IF id \in passed[f] THEN Cardinality(passed[f]) ELSE Cardinality(passed[f]) + 1
            BY <6>1, FS_AddElement
          <6> QED
            BY <6>1, <6>2, <5>1
        <5>3. MaxIterations > 0 => counts[f] + 1 <= MaxIterations
          BY <4>1, <4>2, <2>fwd DEF OverLimit
        <5>4. Cardinality(passed[f]) \in Nat /\ Cardinality(passed[f]) <= counts[f]
          BY <1>count, <1>f
        <5> QED
          BY <3>3, <4>1, <5>1, <5>2, <5>3, <5>4
      <4>3. CASE ~Forward(m)
        <5>1. passed'[f] = passed[f] /\ OverLimit(counts'[f])
          BY <4>1, <4>3, <1>kept, <2>fwd
        <5>2. /\ IsFiniteSet(passed[f]) /\ Cardinality(passed[f]) \in Nat
              /\ Cardinality(passed[f]) <= counts[f]
              /\ MaxIterations > 0 => Cardinality(passed[f]) <= MaxIterations
          BY <1>count, <1>f
        <5> QED
          BY <3>3, <4>1, <5>1, <5>2
      <4> QED
        BY <4>2, <4>3
    <3> QED
      BY <3>1, <3>2, <3>3
  <2> QED
    BY <1>chat, <2>2, <2>3, <2>4 DEF LoopInv
<1> QED
  BY <1>1, <1>2

(* Every step keeps LoopInv. *)
LEMMA LoopStep == LoopInv /\ [CycleNext]_cycleVars => LoopInv'
<1> SUFFICES ASSUME LoopInv, [CycleNext]_cycleVars PROVE LoopInv'
  OBVIOUS
<1>types. inbox \in Seq(ChatMessage) /\ sent \in [Callers -> ChatMessage]
  BY DEF LoopInv, ChatType
<1>same. ASSUME UNCHANGED loopVars, ChatType' PROVE LoopInv'
  BY <1>same DEF loopVars, LoopInv, LoopType, Tracked, Counted, OverLimit
<1>1. ASSUME NEW c \in Callers, Emit(c) PROVE LoopInv'
  <2>1. /\ UNCHANGED loopVars
        /\ \E b \in BOOLEAN : sent' = [sent EXCEPT ![c].turn = @ + 1, ![c].hasId = b]
        /\ inbox' = Append(inbox, sent'[c])
    BY <1>1, Zenon DEF Emit
  <2>2. sent' \in [Callers -> ChatMessage]
    <3>1. PICK b \in BOOLEAN : sent' = [sent EXCEPT ![c].turn = @ + 1, ![c].hasId = b]
      BY <2>1
    <3>2. sent[c] \in ChatMessage /\ sent[c].turn + 1 \in Nat
      BY <1>types DEF ChatMessage
    <3>3. [sent[c] EXCEPT !.turn = @ + 1, !.hasId = b] \in ChatMessage
      BY <3>2, Zenon DEF ChatMessage
    <3>4. sent' = [sent EXCEPT ![c] = [sent[c] EXCEPT !.turn = @ + 1, !.hasId = b]]
      BY <3>1, <1>types
    <3> QED
      BY <3>3, <3>4, <1>types
  <2> QED
    BY <2>1, <2>2, <1>types, <1>same DEF ChatType
<1>2. ASSUME NEW c \in Callers, Redeliver(c) PROVE LoopInv'
  <2>1. UNCHANGED loopVars /\ UNCHANGED sent /\ inbox' = Append(inbox, sent[c])
    BY <1>2 DEF Redeliver
  <2> QED
    BY <2>1, <1>types, <1>same DEF ChatType
<1>quiet. ASSUME UNCHANGED loopVars, UNCHANGED <<inbox, sent>> PROVE LoopInv'
  BY <1>quiet, <1>types, <1>same DEF ChatType
<1>3. ASSUME NEW c \in Callers, Finish(c) \/ Execute(c) PROVE LoopInv'
  BY <1>3, <1>quiet DEF Finish, Execute, CycleRefused, CycleCall, CycleBegin, chatVars
<1>4. CASE CycleAgent
  BY <1>4, <1>quiet DEF CycleAgent, chatVars
<1>5. CASE LoopProcess
  BY <1>5, LoopProcessStep
<1>6. CASE LoopStop
  <2>1. /\ counts' = [f \in Flows |-> 0] /\ last' = [f \in Flows |-> <<>>]
        /\ ctx_key_order' = <<>> /\ passed' = [f \in Flows |-> {}]
        /\ UNCHANGED <<inbox, sent>>
    BY <1>6 DEF LoopStop, chatVars
  <2>2. LoopType' /\ ChatType'
    BY <2>1, <1>types DEF LoopType, ChatType
  <2>3. Tracked'
    BY <2>1, ToolCycleAssumption DEF Tracked
  <2>4. Counted'
    BY <2>1, FS_EmptySet, ToolCycleAssumption DEF Counted
  <2> QED
    BY <2>2, <2>3, <2>4 DEF LoopInv
<1>7. CASE UNCHANGED cycleVars
  BY <1>7, <1>quiet DEF cycleVars, chatVars
<1> QED
  BY <1>1, <1>2, <1>3, <1>4, <1>5, <1>6, <1>7 DEF CycleNext

(* While a flow is tracked at most max_iterations different messages pass, *)
(* however they are repeated and whatever other flows do; the queue of     *)
(* LoopControlAgent holds exactly the counted flows and stays bounded.     *)
THEOREM IterationsStayBounded == CycleSpec => []IterationsBounded
<1>1. CycleInit => LoopInv
  <2> SUFFICES ASSUME CycleInit PROVE LoopInv
    OBVIOUS
  <2>1. ChatType
    BY DEF CycleInit, ChatType, ChatMessage
  <2>2. LoopType /\ Tracked
    BY ToolCycleAssumption DEF CycleInit, LoopType, Tracked
  <2>3. Counted
    BY FS_EmptySet, ToolCycleAssumption DEF CycleInit, Counted
  <2> QED
    BY <2>1, <2>2, <2>3 DEF LoopInv
<1>2. LoopInv => IterationsBounded
  BY DEF LoopInv, Tracked, Counted, IterationsBounded
<1> QED
  BY <1>1, <1>2, LoopStep, PTL DEF CycleSpec
=============================================================================
