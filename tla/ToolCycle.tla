----------------------------- MODULE ToolCycle -----------------------------
(***************************************************************************)
(* The tool-call cycle of a chat: an LLM's message with tool calls passes  *)
(* LoopControlAgent, which counts the iterations of its flow and cuts the  *)
(* cycle at the limit, is executed through a preset tool (PresetTool), and *)
(* the result makes the LLM send its next message.                         *)
(*                                                                         *)
(* Messages that are not counted (streaming parts, user and tool messages, *)
(* other values) pass LoopControlAgent unchanged and leave no trace.  A    *)
(* streaming turn may deliver its final message twice; the second delivery *)
(* of an executed message is dropped by CallToolMessageAgent (ToolCalls).  *)
(***************************************************************************)
EXTENDS PresetTool, FiniteSetsExt

CONSTANTS
    MaxIterations,  \* the `max_iterations` config, 0 for no limit
    MaxTracked,     \* MAX_TRACKED_CTX_KEYS
    MaxTurns,       \* bound: messages with tool calls, of all chats
    MaxRepeats      \* bound: second deliveries

ASSUME ToolCycleAssumption ==
    /\ MaxIterations \in Nat
    /\ MaxTracked \in Nat \ {0}
    /\ MaxTurns \in Nat
    /\ MaxRepeats \in Nat

VARIABLES
    counts,         \* flow -> iterations counted, 0 when the flow is not tracked
    last,           \* flow -> id of the last counted message, <<>> for none
    ctx_key_order,  \* tracked flows, oldest first
    inbox,          \* messages on their way to LoopControlAgent
    phase,          \* caller -> "llm", "guard", "tool" or "done"
    sent,           \* caller -> its latest message with tool calls, turn 0 before the first
    repeated,       \* second deliveries made
    passed          \* flow -> messages forwarded since the flow is tracked

loopVars == <<counts, last, ctx_key_order, passed>>
chatVars == <<inbox, phase, sent, repeated>>
cycleVars == <<toolVars, loopVars, chatVars>>

CycleInit ==
    /\ Init
    /\ counts = [f \in Flows |-> 0]
    /\ last = [f \in Flows |-> <<>>]
    /\ ctx_key_order = <<>>
    /\ inbox = <<>>
    /\ phase = [c \in Callers |-> "llm"]
    /\ sent = [c \in Callers |-> [caller |-> c, turn |-> 0, hasId |-> FALSE]]
    /\ repeated = 0
    /\ passed = [f \in Flows |-> {}]

-----------------------------------------------------------------------------
(* The LLM: its messages have an id or none.                               *)
Emit(c) ==
    /\ phase[c] = "llm"
    /\ MapThenSumSet(LAMBDA d : sent[d].turn, Callers) < MaxTurns
    /\ \E b \in BOOLEAN : sent' = [sent EXCEPT ![c].turn = @ + 1, ![c].hasId = b]
    /\ phase' = [phase EXCEPT ![c] = "guard"]
    /\ inbox' = Append(inbox, sent'[c])
    /\ UNCHANGED <<toolVars, loopVars, repeated>>

(* The final message of the turn is delivered once more. *)
Redeliver(c) ==
    /\ repeated < MaxRepeats
    /\ phase[c] # "llm"
    /\ sent[c].turn > 0
    /\ repeated' = repeated + 1
    /\ inbox' = Append(inbox, sent[c])
    /\ UNCHANGED <<toolVars, loopVars, phase, sent>>

(* An answer without tool calls ends the cycle. *)
Finish(c) ==
    /\ phase[c] = "llm"
    /\ phase' = [phase EXCEPT ![c] = "done"]
    /\ UNCHANGED <<toolVars, loopVars, inbox, sent, repeated>>

-----------------------------------------------------------------------------
(* LoopControlAgent *)

(* record_count makes room for a flow it does not track. *)
Evicted(f) ==
    IF counts[f] = 0 /\ Len(ctx_key_order) >= MaxTracked THEN {Head(ctx_key_order)} ELSE {}

OrderWith(f) ==
    IF counts[f] # 0 THEN ctx_key_order
    ELSE Append(IF Evicted(f) = {} THEN ctx_key_order ELSE Tail(ctx_key_order), f)

OverLimit(count) == MaxIterations > 0 /\ count > MaxIterations

(* Is m a second delivery of the message counted last for its flow? *)
Again(m) == m.hasId /\ last[FlowOf[m.caller]] = <<m.caller, m.turn>>

(* Variant: a second delivery is always forwarded. *)
ForwardAgainAlways(m) == TRUE

(* Should a second delivery be forwarded?  Only if the first one was. *)
ForwardAgain(m) == ~OverLimit(counts[FlowOf[m.caller]])

Forward(m) ==
    IF Again(m) THEN ForwardAgain(m) ELSE ~OverLimit(counts[FlowOf[m.caller]] + 1)

(* process() of a message that is counted.  A forwarded message that was   *)
(* not executed yet goes to the tools; a message over the limit becomes    *)
(* the notice on limit_exceeded, which ends the cycle.                     *)
LoopProcess ==
    LET m == Head(inbox)
        c == m.caller
        f == FlowOf[c]
        kept == [g \in Flows |-> IF g \in Evicted(f) THEN {} ELSE passed[g]] IN
    /\ inbox # <<>>
    /\ inbox' = Tail(inbox)
    /\ IF Again(m) THEN UNCHANGED <<counts, last, ctx_key_order>>
       ELSE /\ counts' = [g \in Flows |-> IF g = f THEN counts[f] + 1
                                          ELSE IF g \in Evicted(f) THEN 0 ELSE counts[g]]
            /\ last' = [g \in Flows |-> IF g = f THEN (IF m.hasId THEN <<c, m.turn>> ELSE <<>>)
                                        ELSE IF g \in Evicted(f) THEN <<>> ELSE last[g]]
            /\ ctx_key_order' = OrderWith(f)
    /\ passed' = IF Forward(m) THEN [kept EXCEPT ![f] = @ \cup {<<c, m.turn>>}] ELSE kept
    /\ phase' = IF phase[c] = "guard" /\ m.turn = sent[c].turn
                THEN [phase EXCEPT ![c] = IF Forward(m) THEN "tool" ELSE "done"]
                ELSE phase
    /\ UNCHANGED <<toolVars, sent, repeated>>

(* stop() forgets all flows. *)
LoopStop ==
    /\ edits < MaxEdits
    /\ edits' = edits + 1
    /\ counts' = [f \in Flows |-> 0]
    /\ last' = [f \in Flows |-> <<>>]
    /\ ctx_key_order' = <<>>
    /\ passed' = [f \in Flows |-> {}]
    /\ UNCHANGED <<status, name, registry, pending, callVars, result, work, cancelled, chatVars>>

-----------------------------------------------------------------------------
(* The execution of a forwarded message. *)

CycleBegin(c, n) ==
    /\ phase[c] = "tool"
    /\ BeginCall(c, n)
    /\ UNCHANGED <<loopVars, chatVars>>

(* The result goes back to the LLM; in an aborted flow the cycle ends. *)
Returned(c) == [phase EXCEPT ![c] = IF FlowOf[c] \in cancelled THEN "done" ELSE "llm"]

(* The tool is unknown, or the flow aborted before the call. *)
CycleRefused(c) ==
    /\ phase[c] = "tool"
    /\ pc[c] = "idle"
    /\ \/ FlowOf[c] \in cancelled
       \/ \E n \in Names : registry[n] = NoAgent
       \/ made = MaxCalls
    /\ phase' = Returned(c)
    /\ UNCHANGED <<toolVars, loopVars, inbox, sent, repeated>>

CycleCall(c) ==
    /\ CallStep(c)
    /\ phase' = IF pc'[c] = "idle" THEN Returned(c) ELSE phase
    /\ UNCHANGED <<loopVars, inbox, sent, repeated>>

CycleAgent == AgentStep /\ UNCHANGED <<loopVars, chatVars>>

Execute(c) == CycleRefused(c) \/ CycleCall(c) \/ \E n \in Names : CycleBegin(c, n)

CycleNext ==
    \/ CycleAgent
    \/ LoopProcess
    \/ LoopStop
    \/ \E c \in Callers : Emit(c) \/ Redeliver(c) \/ Finish(c) \/ Execute(c)

(* The agents' tasks and timers run; nothing is assumed of the LLM, of the *)
(* workflow behind the tool, or of those who stop, rename and abort.       *)
CycleSpec == CycleInit /\ [][CycleNext]_cycleVars
FairCycleSpec ==
    CycleSpec /\ WF_cycleVars(LoopProcess) /\ \A c \in Callers : WF_cycleVars(Execute(c))

-----------------------------------------------------------------------------
(* While a flow is tracked, LoopControlAgent lets at most max_iterations   *)
(* different messages through, however often they are delivered; only an   *)
(* eviction or a stop starts the count anew.  The eviction queue holds     *)
(* exactly the flows that are counted, and no more than its limit.         *)
IterationsBounded ==
    /\ MaxIterations > 0 => \A f \in Flows : Cardinality(passed[f]) <= MaxIterations
    /\ Len(ctx_key_order) <= MaxTracked
    /\ \A f \in Flows : counts[f] > 0 <=> \E i \in DOMAIN ctx_key_order : ctx_key_order[i] = f

(* A forwarded message is answered, unless its call waits, without a       *)
(* timeout, for a workflow that does not answer and for a flow that nobody *)
(* aborts.                                                                 *)
Hung(c) ==
    pc[c] = "waiting" /\ ~timed[c] /\ result[c] = <<>> /\ FlowOf[c] \notin cancelled
CallsEnd == \A c \in Callers : []<>(phase[c] # "tool") \/ <>[]Hung(c)
=============================================================================
