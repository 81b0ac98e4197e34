----------------------------- MODULE ToolCalls -----------------------------
(***************************************************************************)
(* Execution of the tool calls of an LLM message by CallToolMessageAgent:  *)
(* the global tool registry, the filter for calls that were executed       *)
(* before, and call_tools, which runs consecutive Parallel calls together, *)
(* a Sequential call alone, and answers every call when the flow is        *)
(* aborted.                                                                *)
(*                                                                         *)
(* One agent handles one message at a time.  Its futures are polled by the *)
(* task of the agent; the tools finish, the registry changes and the flow  *)
(* is aborted while that task is anywhere.  A message that is streaming or *)
(* carries no tool calls leaves no trace and is not an action.             *)
(***************************************************************************)
EXTENDS Naturals, Sequences, FiniteSets, SequencesExt, SeqOps

CONSTANTS
    Names,           \* tool names
    Flows,           \* ctx_keys
    Ids,             \* tool call ids
    Messages,        \* the messages an LLM may send
    Filters,         \* values of the `tools` config: the names it matches, {} when it is empty
    MaxConcurrency,  \* the `max_concurrency` config
    MaxTracked,      \* MAX_TRACKED_CTX_KEYS
    NoFlow,
    NoId,            \* a call without an id
    MaxMessages,     \* bound: messages processed
    MaxRegistry      \* bound: changes of the registry

Call == [id : Ids \cup {NoId}, name : Names, wellFormed : BOOLEAN]

(* A message: its tool calls, and whether it was cut at the token limit.   *)
(* Nothing keeps the calls of a message from sharing an id.                *)
ASSUME ToolCallsAssumption ==
    /\ NoFlow \notin Flows
    /\ NoId \notin Ids
    /\ Filters \subseteq SUBSET Names
    /\ MaxConcurrency \in Nat
    /\ MaxTracked \in Nat \ {0}
    /\ MaxMessages \in Nat
    /\ MaxRegistry \in Nat
    /\ Messages \subseteq [calls : Seq(Call), truncated : BOOLEAN]

VARIABLES
    registry,       \* name -> execution mode of the registered tool, "none" if there is none
    cancelled,      \* flows whose token was cancelled
    executed,       \* flow -> ids recorded as executed
    ctx_key_order,  \* tracked flows, oldest first
    pc,             \* where process() is
    flow,           \* the flow of the message being processed
    calls,          \* tool_calls: the calls left by the filters
    modes,          \* the modes the calls were scheduled with, for those call_tools has looked at
    batch,          \* parallel_batch: indices into calls
    begun,          \* how many futures of the batch were polled
    flight,         \* calls whose future exists and has not yielded
    outcome,        \* call -> what its future is ready with, "none" while it is not
    slots,          \* call -> the kind of result the batch has for it, "none" before
    resp_messages,  \* the kinds of results, in order
    runs,           \* history: <<flow, id>> -> the <<message, index>> of the calls for which a
                    \* tool was started, in order, while the flow was tracked
    messages,       \* number of messages processed
    changes         \* number of changes of the registry

registryVars == <<registry, changes>>
dedupVars == <<executed, ctx_key_order>>
callVars == <<flow, calls, modes, batch, begun, flight, outcome, slots, resp_messages>>
vars == <<registry, cancelled, executed, ctx_key_order, pc, flow, calls, modes, batch, begun,
          flight, outcome, slots, resp_messages, runs, messages, changes>>

Modes == {"Sequential", "Parallel"}

(* "real": the tool's answer; "error": the call was not executed, or the   *)
(* tool is unknown; "cancelled": AgentError::Cancelled; "aborted":         *)
(* ABORTED_TOOL_RESULT.                                                    *)
Kinds == {"real", "error", "cancelled", "aborted"}

Started == Flows \X (Ids \cup {NoId})

(* max_concurrency.max(1) *)
Width == IF MaxConcurrency = 0 THEN 1 ELSE MaxConcurrency

Init ==
    /\ registry \in [Names -> Modes \cup {"none"}]
    /\ cancelled = {}
    /\ executed = [f \in Flows |-> {}]
    /\ ctx_key_order = <<>>
    /\ pc = "idle"
    /\ flow = NoFlow
    /\ calls = <<>>
    /\ modes = <<>>
    /\ batch = <<>>
    /\ begun = 0
    /\ flight = {}
    /\ outcome = <<>>
    /\ slots = <<>>
    /\ resp_messages = <<>>
    /\ runs = [k \in Started |-> <<>>]
    /\ messages = 0
    /\ changes = 0

-----------------------------------------------------------------------------
(* The surroundings.                                                       *)

(* register_tool replaces a tool of the same name. *)
RegisterTool(n, mode) ==
    /\ changes < MaxRegistry
    /\ changes' = changes + 1
    /\ registry' = [registry EXCEPT ![n] = mode]
    /\ UNCHANGED <<cancelled, dedupVars, pc, callVars, runs, messages>>

UnregisterTool(n) ==
    /\ changes < MaxRegistry
    /\ changes' = changes + 1
    /\ registry' = [registry EXCEPT ![n] = "none"]
    /\ UNCHANGED <<cancelled, dedupVars, pc, callVars, runs, messages>>

(* The flow's token is cancelled. *)
AbortFlow(f) ==
    /\ f \notin cancelled
    /\ cancelled' = cancelled \cup {f}
    /\ UNCHANGED <<registryVars, dedupVars, pc, flow, calls, modes, batch, begun, flight, outcome,
                   slots, resp_messages, runs, messages>>

(* A running tool has its answer, or gives up because it watches the token *)
(* itself; the future is ready and waits to be polled.                     *)
ToolFinishes(i) ==
    /\ i \in flight
    /\ outcome[i] = "none"
    /\ \/ outcome' = [outcome EXCEPT ![i] = "real"]
       \/ /\ flow \in cancelled
          /\ outcome' = [outcome EXCEPT ![i] = "cancelled"]
    /\ UNCHANGED <<registryVars, cancelled, dedupVars, pc, flow, calls, modes, batch, begun,
                   flight, slots, resp_messages, runs, messages>>

-----------------------------------------------------------------------------
(* process() *)

Allowed(tools, call) == tools # {} => (call.name \in tools /\ registry[call.name] # "none")

(* Variant: calls that were executed before are run again. *)
FreshRepeated(f, tools, cs) == Pick(cs, {i \in DOMAIN cs : Allowed(tools, cs[i])})

(* The calls that the `tools` config allows and that were not executed     *)
(* before for this flow.                                                   *)
Fresh(f, tools, cs) ==
    Pick(cs, {i \in DOMAIN cs : Allowed(tools, cs[i]) /\ cs[i].id \notin executed[f]})

Recorded(cs) == {cs[i].id : i \in DOMAIN cs} \ {NoId}

(* mark_executed for every call that has an id: a flow that is not tracked *)
(* yet pushes out the oldest one when the limit is reached.                *)
Evicted(f) ==
    IF f \notin Range(ctx_key_order) /\ Len(ctx_key_order) >= MaxTracked
    THEN {Head(ctx_key_order)} ELSE {}

MarkExecuted(f, cs) ==
    IF Recorded(cs) = {} THEN UNCHANGED <<dedupVars, runs>>
    ELSE /\ ctx_key_order' = IF f \in Range(ctx_key_order) THEN ctx_key_order
                             ELSE Append(IF Evicted(f) = {} THEN ctx_key_order
                                         ELSE Tail(ctx_key_order), f)
         /\ executed' = [g \in Flows |->
                CASE g \in Evicted(f) -> {}
                  [] g = f            -> executed[g] \cup Recorded(cs)
                  [] OTHER            -> executed[g]]
         /\ runs' = [k \in Started |-> IF k[1] \in Evicted(f) THEN <<>> ELSE runs[k]]

(* A message comes in: its calls are filtered and recorded; a message cut  *)
(* at the token limit is answered with errors, any other goes to           *)
(* call_tools.                                                             *)
Process(f, tools, msg) ==
    /\ pc = "idle"
    /\ messages < MaxMessages
    /\ messages' = messages + 1
    /\ LET cs == Fresh(f, tools, msg.calls)
       IN /\ MarkExecuted(f, cs)
          /\ calls' = cs
          /\ outcome' = [i \in DOMAIN cs |-> "none"]
          /\ slots' = [i \in DOMAIN cs |-> "none"]
          /\ \/ /\ msg.truncated \/ cs = <<>>
                /\ resp_messages' = [i \in DOMAIN cs |-> "error"]
                /\ pc' = "reply"
             \/ /\ ~msg.truncated /\ cs # <<>>
                /\ resp_messages' = <<>>
                /\ pc' = "schedule"
    /\ flow' = f
    /\ modes' = <<>>
    /\ batch' = <<>>
    /\ begun' = 0
    /\ flight' = {}
    /\ UNCHANGED <<registryVars, cancelled>>

(* Variant: the sequential call does not wait for the batch. *)
ScheduleNoBarrier ==
    /\ pc = "schedule"
    /\ \/ /\ Len(modes) < Len(calls)
          /\ LET i == Len(modes) + 1
                 mode == registry[calls[i].name]
             IN \/ /\ mode = "Parallel"
                   /\ modes' = Append(modes, "Parallel")
                   /\ batch' = Append(batch, i)
                   /\ pc' = pc
                \/ /\ mode # "Parallel"
                   /\ modes' = Append(modes, "Sequential")
                   /\ batch' = batch
                   /\ pc' = "sequential"
       \/ /\ Len(modes) = Len(calls)
          /\ UNCHANGED <<modes, batch>>
          /\ pc' = IF batch = <<>> THEN "reply" ELSE "flush"
    /\ UNCHANGED <<registryVars, cancelled, dedupVars, flow, calls, begun, flight, outcome, slots,
                   resp_messages, runs, messages>>

(* call_tools looks at the next call: a Parallel one joins the batch, a    *)
(* Sequential (or unknown) one waits for the batch to be flushed.  After   *)
(* the last call the batch is flushed too.                                 *)
Schedule ==
    /\ pc = "schedule"
    /\ \/ /\ Len(modes) < Len(calls)
          /\ LET i == Len(modes) + 1
                 mode == registry[calls[i].name]
             IN \/ /\ mode = "Parallel"
                   /\ modes' = Append(modes, "Parallel")
                   /\ batch' = Append(batch, i)
                   /\ pc' = pc
                \/ /\ mode # "Parallel"
                   /\ modes' = Append(modes, "Sequential")
                   /\ batch' = batch
                   /\ pc' = IF batch = <<>> THEN "sequential" ELSE "flush"
       \/ /\ Len(modes) = Len(calls)
          /\ UNCHANGED <<modes, batch>>
          /\ pc' = IF batch = <<>> THEN "reply" ELSE "flush"
    /\ UNCHANGED <<registryVars, cancelled, dedupVars, flow, calls, begun, flight, outcome, slots,
                   resp_messages, runs, messages>>

(* Variant: a tool is called whether or not the flow is aborted. *)
ExecuteAborted(i) ==
    LET call == calls[i]
    IN IF ~call.wellFormed \/ registry[call.name] = "none"
       THEN /\ outcome' = [outcome EXCEPT ![i] = "error"]
            /\ UNCHANGED runs
       ELSE /\ UNCHANGED outcome
            /\ runs' = [runs EXCEPT ![<<flow, call.id>>] = Append(@, <<messages, i>>)]

(* The first poll of execute_tool_call: arguments that do not parse or do  *)
(* not fit the schema, an aborted flow and an unknown tool are answered at *)
(* once; otherwise the tool starts.                                        *)
ExecuteToolCall(i) ==
    LET call == calls[i]
    IN IF ~call.wellFormed \/ flow \in cancelled \/ registry[call.name] = "none"
       THEN /\ outcome' = [outcome EXCEPT ![i] = IF call.wellFormed /\ flow \in cancelled
                                                 THEN "cancelled" ELSE "error"]
            /\ UNCHANGED runs
       ELSE /\ UNCHANGED outcome
            /\ runs' = [runs EXCEPT ![<<flow, call.id>>] = Append(@, <<messages, i>>)]

(* buffer_unordered takes up the next future when there is room, during    *)
(* the salvage too.                                                        *)
BatchStart ==
    /\ pc \in {"flush", "salvage"}
    /\ begun < Len(batch)
    /\ Cardinality(flight) < Width
    /\ begun' = begun + 1
    /\ flight' = flight \cup {batch[begun + 1]}
    /\ ExecuteToolCall(batch[begun + 1])
    /\ UNCHANGED <<registryVars, cancelled, dedupVars, pc, flow, calls, modes, batch, slots,
                   resp_messages, messages>>

(* The stream yields a call that is ready. *)
BatchYield(i) ==
    /\ pc \in {"flush", "salvage"}
    /\ i \in flight
    /\ outcome[i] # "none"
    /\ flight' = flight \ {i}
    /\ slots' = [slots EXCEPT ![i] = outcome[i]]
    /\ UNCHANGED <<registryVars, cancelled, dedupVars, pc, flow, calls, modes, batch, begun,
                   outcome, resp_messages, runs, messages>>

(* run_unless_cancelled finds the token cancelled. *)
BatchAborted ==
    /\ pc = "flush"
    /\ flow \in cancelled
    /\ pc' = "salvage"
    /\ UNCHANGED <<registryVars, cancelled, dedupVars, callVars, runs, messages>>

(* The results of the batch, in the batch's order; a call without one is   *)
(* aborted.                                                                *)
BatchResults == [k \in DOMAIN batch |-> IF slots[batch[k]] = "none" THEN "aborted" ELSE slots[batch[k]]]

(* The stream is empty: the sequential call that waited runs next, or the  *)
(* calls are done.                                                         *)
BatchDone ==
    /\ pc = "flush"
    /\ begun = Len(batch)
    /\ flight = {}
    /\ resp_messages' = resp_messages \o BatchResults
    /\ batch' = <<>>
    /\ begun' = 0
    /\ pc' = IF Last(modes) = "Sequential" THEN "sequential" ELSE "reply"
    /\ UNCHANGED <<registryVars, cancelled, dedupVars, flow, calls, modes, flight, outcome, slots,
                   runs, messages>>

(* One aborted result for every call that has none. *)
AbortRest(resp) == resp \o [k \in 1 .. (Len(calls) - Len(resp)) |-> "aborted"]

(* Variant: the futures are dropped as soon as the token is cancelled. *)
BatchNotSalvaged ==
    /\ pc = "salvage"
    /\ resp_messages' = AbortRest(resp_messages \o BatchResults)
    /\ batch' = <<>>
    /\ begun' = 0
    /\ flight' = {}
    /\ pc' = "reply"
    /\ UNCHANGED <<registryVars, cancelled, dedupVars, flow, calls, modes, outcome, slots, runs,
                   messages>>

(* The salvage ends when a poll finds nothing ready: the futures are       *)
(* dropped, and every call without a result gets an aborted one.           *)
BatchSalvaged ==
    /\ pc = "salvage"
    /\ \A i \in flight : outcome[i] = "none"
    /\ begun = Len(batch) \/ Cardinality(flight) = Width
    /\ resp_messages' = AbortRest(resp_messages \o BatchResults)
    /\ batch' = <<>>
    /\ begun' = 0
    /\ flight' = {}
    /\ pc' = "reply"
    /\ UNCHANGED <<registryVars, cancelled, dedupVars, flow, calls, modes, outcome, slots, runs,
                   messages>>

(* The sequential call that Schedule stopped at is started ... *)
SequentialStart ==
    /\ pc = "sequential"
    /\ pc' = "await"
    /\ flight' = flight \cup {Len(modes)}
    /\ ExecuteToolCall(Len(modes))
    /\ UNCHANGED <<registryVars, cancelled, dedupVars, flow, calls, modes, batch, begun, slots,
                   resp_messages, messages>>

(* ... and has its result, ...                                             *)
SequentialDone ==
    /\ pc = "await"
    /\ outcome[Len(modes)] # "none"
    /\ resp_messages' = Append(resp_messages, outcome[Len(modes)])
    /\ flight' = flight \ {Len(modes)}
    /\ pc' = "schedule"
    /\ UNCHANGED <<registryVars, cancelled, dedupVars, flow, calls, modes, batch, begun, outcome,
                   slots, runs, messages>>

(* Variant: the calls behind an aborted one are forgotten. *)
SequentialAbortedShort ==
    /\ pc \in {"sequential", "await"}
    /\ flow \in cancelled
    /\ resp_messages' = Append(resp_messages, "aborted")
    /\ flight' = {}
    /\ pc' = "reply"
    /\ UNCHANGED <<registryVars, cancelled, dedupVars, flow, calls, modes, batch, begun, outcome,
                   slots, runs, messages>>

(* Variant: only a call that was not started yet is aborted. *)
SequentialAbortedEarly ==
    /\ pc = "sequential"
    /\ flow \in cancelled
    /\ resp_messages' = AbortRest(resp_messages)
    /\ flight' = {}
    /\ pc' = "reply"
    /\ UNCHANGED <<registryVars, cancelled, dedupVars, flow, calls, modes, batch, begun, outcome,
                   slots, runs, messages>>

(* ... or its future is dropped, polled or not, because the token is       *)
(* cancelled: the check comes first.                                       *)
SequentialAborted ==
    /\ pc \in {"sequential", "await"}
    /\ flow \in cancelled
    /\ resp_messages' = AbortRest(resp_messages)
    /\ flight' = {}
    /\ pc' = "reply"
    /\ UNCHANGED <<registryVars, cancelled, dedupVars, flow, calls, modes, batch, begun, outcome,
                   slots, runs, messages>>

Idle ==
    /\ pc' = "idle"
    /\ flow' = NoFlow
    /\ calls' = <<>>
    /\ modes' = <<>>
    /\ batch' = <<>>
    /\ begun' = 0
    /\ flight' = {}
    /\ outcome' = <<>>
    /\ slots' = <<>>
    /\ resp_messages' = <<>>

(* The results are sent, and process() returns. *)
Reply ==
    /\ pc = "reply"
    /\ Idle
    /\ UNCHANGED <<registryVars, cancelled, dedupVars, runs, messages>>

(* The agent is stopped: a process() under way is dropped, and the records *)
(* are cleared.                                                            *)
Stop ==
    /\ Idle
    /\ executed' = [f \in Flows |-> {}]
    /\ ctx_key_order' = <<>>
    /\ runs' = [k \in Started |-> <<>>]
    /\ UNCHANGED <<registryVars, cancelled, messages>>

(* The steps of the agent's own task. *)
Task ==
    \/ Schedule
    \/ BatchStart \/ (\E i \in flight : BatchYield(i))
    \/ BatchAborted \/ BatchDone \/ BatchSalvaged
    \/ SequentialStart \/ SequentialDone \/ SequentialAborted
    \/ Reply

Next ==
    \/ \E n \in Names : UnregisterTool(n) \/ \E mode \in Modes : RegisterTool(n, mode)
    \/ \E f \in Flows : AbortFlow(f) \/ \E tools \in Filters, msg \in Messages : Process(f, tools, msg)
    \/ \E i \in flight : ToolFinishes(i)
    \/ Task
    \/ Stop

Spec == Init /\ [][Next]_vars

(* A woken task is polled; tools need not finish. *)
FairSpec == Spec /\ WF_vars(Task)

-----------------------------------------------------------------------------
(* Types of all variables. *)
TypeOK ==
    /\ registry \in [Names -> Modes \cup {"none"}]
    /\ cancelled \subseteq Flows
    /\ executed \in [Flows -> SUBSET Ids]
    /\ ctx_key_order \in Seq(Flows)
    /\ pc \in {"idle", "schedule", "flush", "salvage", "sequential", "await", "reply"}
    /\ flow \in Flows \cup {NoFlow}
    /\ calls \in Seq(Call)
    /\ modes \in Seq(Modes)
    /\ batch \in Seq(DOMAIN calls)
    /\ begun \in 0 .. Len(batch)
    /\ flight \subseteq DOMAIN calls
    /\ outcome \in [DOMAIN calls -> Kinds \cup {"none"}]
    /\ slots \in [DOMAIN calls -> Kinds \cup {"none"}]
    /\ resp_messages \in Seq(Kinds)
    /\ runs \in [Started -> Seq(Nat \X Nat)]
    /\ messages \in 0 .. MaxMessages
    /\ changes \in 0 .. MaxRegistry

(* "At any point the calls still lacking a result are exactly              *)
(* tool_calls[resp_messages.len()..]": the calls call_tools has looked at  *)
(* are those with a result, then those of the batch, then the sequential   *)
(* one that waits or runs; and when the results are sent there is one for  *)
(* every call.                                                             *)
OneResultPerCall ==
    /\ pc \in {"schedule", "flush", "salvage"} =>
          /\ batch = [k \in DOMAIN batch |-> Len(resp_messages) + k]
          /\ Len(modes) - (Len(resp_messages) + Len(batch)) \in {0, 1}
    /\ pc \in {"sequential", "await"} => Len(modes) = Len(resp_messages) + 1
    /\ pc = "reply" => Len(resp_messages) = Len(calls)

(* A sequential call is a barrier: while it runs nothing else does, all    *)
(* calls before it have results and no later one was started; parallel     *)
(* calls run at most max_concurrency at a time.                            *)
BarriersHold ==
    /\ \A i \in flight : modes[i] = "Sequential" =>
          /\ flight = {i}
          /\ Len(resp_messages) = i - 1
    /\ Cardinality(flight) <= Width

(* An id is executed for one message of a flow only, while the flow is     *)
(* tracked: a message that repeats it later starts nothing.  Within the    *)
(* message each call is started at most once; calls that share an id all   *)
(* run, because process() filters the calls before it records any.         *)
ExecutedOnce ==
    \A f \in Flows, id \in Ids :
        LET started == runs[<<f, id>>] IN
        /\ \A r, s \in DOMAIN started :
             /\ started[r][1] = started[s][1]
             /\ started[r] = started[s] => r = s
        /\ started # <<>> => id \in executed[f]

(* No tool is started for a flow that is aborted, by the salvage neither.  *)
NoStartAfterAbort ==
    [][\A k \in Started : k[1] \in cancelled => Len(runs'[k]) <= Len(runs[k])]_vars

(* A parallel call that has its answer is not reported as aborted, even if *)
(* the answer came after the abort: its effects have happened.             *)
FinishedParallelCallReported ==
    \A i \in DOMAIN resp_messages :
        (resp_messages[i] = "aborted" /\ outcome[i] = "real") => modes[i] = "Sequential"

(* An aborted flow gets its results even if no tool ever finishes.         *)
AbortEndsCalls == \A f \in Flows : (flow = f /\ f \in cancelled) ~> flow # f
=============================================================================
