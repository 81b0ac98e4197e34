----------------------------- MODULE PresetTool -----------------------------
(***************************************************************************)
(* Preset tools: PresetToolAgent registers its workflow as a tool; a call  *)
(* leaves a sender in the agent's `pending` map, keyed by the id of its    *)
(* flow, emits the arguments on tool_in and waits for the workflow's value *)
(* on tool_out, for the timeout, or for the abort of its flow.             *)
(*                                                                         *)
(* The agent lock makes start(), stop(), configs_changed(), process() and  *)
(* the registration of a call atomic; a caller looks the tool up, waits    *)
(* for the lock and waits for its result in steps of its own.  A workflow  *)
(* answers a tool_in at most once, at any time, or never.                  *)
(***************************************************************************)
EXTENDS Naturals, Sequences

CONSTANTS
    Agents,      \* PresetToolAgents
    Names,       \* tool names
    Flows,       \* context ids
    Callers,     \* whoever runs one call after the other: a call_tools, a CallToolAgent
    FlowOf,      \* caller -> the flow its calls belong to
    Abortable,   \* flows that may be aborted
    NoAgent,
    NoCaller,
    MaxCalls,    \* bound: calls made
    MaxEdits     \* bound: starts, stops and renames of agents

ASSUME PresetToolAssumption ==
    /\ FlowOf \in [Callers -> Flows]
    /\ Abortable \subseteq Flows
    /\ NoAgent \notin Agents
    /\ NoCaller \notin Callers
    /\ MaxCalls \in Nat
    /\ MaxEdits \in Nat

VARIABLES
    status,     \* agent -> AgentStatus, Stop being left before the lock is
    name,       \* agent -> its tool name
    registry,   \* tool name -> the agent behind it
    pending,    \* agent -> flow -> the caller that holds the receiver
    pc,         \* caller -> where its tool_call is
    tool,       \* caller -> the agent of the tool it looked up
    timed,      \* caller -> whether timeout_secs was above 0 when it registered
    result,     \* caller -> what its receiver is ready with: <<call>> an answer, <<0>> a dropped sender
    call,       \* caller -> the number of its call
    work,       \* tool_in values the workflow has not answered
    cancelled,  \* flows whose token was cancelled
    made,       \* calls made
    edits       \* starts, stops and renames made

agentVars == <<status, name, registry, edits>>
callVars == <<pc, tool, timed, call, made>>
toolVars == <<status, name, registry, pending, pc, tool, timed, result, call, work, cancelled,
              made, edits>>

Status == {"Init", "Start"}
Work == [agent : Agents, flow : Flows, call : Nat]

TypeOK ==
    /\ status \in [Agents -> Status]
    /\ name \in [Agents -> Names]
    /\ registry \in [Names -> Agents \cup {NoAgent}]
    /\ pending \in [Agents -> [Flows -> Callers \cup {NoCaller}]]
    /\ pc \in [Callers -> {"idle", "locking", "waiting"}]
    /\ tool \in [Callers -> Agents \cup {NoAgent}]
    /\ timed \in [Callers -> BOOLEAN]
    /\ result \in [Callers -> Seq(Nat)]
    /\ call \in [Callers -> Nat]
    /\ work \in SUBSET Work
    /\ cancelled \in SUBSET Flows
    /\ made \in Nat
    /\ edits \in Nat

Init ==
    /\ status = [a \in Agents |-> "Init"]
    /\ name \in [Agents -> Names]
    /\ registry = [n \in Names |-> NoAgent]
    /\ pending = [a \in Agents |-> [f \in Flows |-> NoCaller]]
    /\ pc = [c \in Callers |-> "idle"]
    /\ tool = [c \in Callers |-> NoAgent]
    /\ timed = [c \in Callers |-> FALSE]
    /\ result = [c \in Callers |-> <<>>]
    /\ call = [c \in Callers |-> 0]
    /\ work = {}
    /\ cancelled = {}
    /\ made = 0
    /\ edits = 0

-----------------------------------------------------------------------------
(* The agent. *)

(* start() registers the tool, replacing one of the same name. *)
Start(a) ==
    /\ edits < MaxEdits
    /\ status[a] = "Init"
    /\ status' = [status EXCEPT ![a] = "Start"]
    /\ registry' = [registry EXCEPT ![name[a]] = a]
    /\ edits' = edits + 1
    /\ UNCHANGED <<name, pending, callVars, result, work, cancelled>>

(* The senders in S are dropped: their receivers are ready with an error.  *)
Dropped(S) == [c \in Callers |-> IF c \in S THEN <<0>> ELSE result[c]]

Waiters(a) == {pending[a][f] : f \in Flows} \ {NoCaller}

(* stop() takes the name out of the registry, whoever is registered under  *)
(* it, and drops all senders.                                              *)
Stop(a) ==
    /\ edits < MaxEdits
    /\ status[a] = "Start"
    /\ status' = [status EXCEPT ![a] = "Init"]
    /\ registry' = [registry EXCEPT ![name[a]] = NoAgent]
    /\ pending' = [pending EXCEPT ![a] = [f \in Flows |-> NoCaller]]
    /\ result' = Dropped(Waiters(a))
    /\ edits' = edits + 1
    /\ UNCHANGED <<name, callVars, work, cancelled>>

(* What configs_changed() makes of the registry when a is running: the new *)
(* name is registered first, then the old one removed.                     *)
Renamed(a, n) ==
    [registry EXCEPT ![n] = a, ![name[a]] = IF n = name[a] THEN a ELSE NoAgent]

Rename(a, n) ==
    /\ edits < MaxEdits
    /\ name' = [name EXCEPT ![a] = n]
    /\ registry' = IF status[a] = "Start" THEN Renamed(a, n) ELSE registry
    /\ edits' = edits + 1
    /\ UNCHANGED <<status, pending, callVars, result, work, cancelled>>

(* Variant: the sender of any flow is taken. *)
AnswerAnyFlow(w) ==
    LET f == CHOOSE g \in Flows : pending[w.agent][w.flow] # NoCaller => pending[w.agent][g] # NoCaller
        c == pending[w.agent][f] IN
    /\ w \in work
    /\ work' = work \ {w}
    /\ IF status[w.agent] = "Start" /\ c # NoCaller
       THEN /\ pending' = [pending EXCEPT ![w.agent][f] = NoCaller]
            /\ result' = [result EXCEPT ![c] = <<w.call>>]
       ELSE UNCHANGED <<pending, result>>
    /\ UNCHANGED <<agentVars, callVars, cancelled>>

(* process(): a value on tool_out takes the sender of its flow, if there   *)
(* is one; an agent that is not running never sees the value.              *)
Answer(w) ==
    LET c == pending[w.agent][w.flow] IN
    /\ w \in work
    /\ work' = work \ {w}
    /\ IF status[w.agent] = "Start" /\ c # NoCaller
       THEN /\ pending' = [pending EXCEPT ![w.agent][w.flow] = NoCaller]
            /\ result' = [result EXCEPT ![c] = <<w.call>>]
       ELSE UNCHANGED <<pending, result>>
    /\ UNCHANGED <<agentVars, callVars, cancelled>>

Cancel(f) ==
    /\ f \in Abortable
    /\ f \notin cancelled
    /\ cancelled' = cancelled \cup {f}
    /\ UNCHANGED <<agentVars, callVars, pending, result, work>>

-----------------------------------------------------------------------------
(* PresetTool::tool_call *)

(* The tool is looked up and the abort of the flow checked for the first   *)
(* time; then the caller waits for the agent lock.                         *)
BeginCall(c, n) ==
    /\ pc[c] = "idle"
    /\ made < MaxCalls
    /\ registry[n] # NoAgent
    /\ FlowOf[c] \notin cancelled
    /\ pc' = [pc EXCEPT ![c] = "locking"]
    /\ tool' = [tool EXCEPT ![c] = registry[n]]
    /\ made' = made + 1
    /\ call' = [call EXCEPT ![c] = made + 1]
    /\ result' = [result EXCEPT ![c] = <<>>]
    /\ UNCHANGED <<agentVars, pending, timed, work, cancelled>>

(* The call is over; what it knew is gone with it. *)
Over(c, res) ==
    /\ pc' = [pc EXCEPT ![c] = "idle"]
    /\ tool' = [tool EXCEPT ![c] = NoAgent]
    /\ timed' = [timed EXCEPT ![c] = FALSE]
    /\ call' = [call EXCEPT ![c] = 0]
    /\ result' = [res EXCEPT ![c] = <<>>]
    /\ UNCHANGED <<agentVars, work, cancelled, made>>

(* The flow was aborted while the caller waited for the lock. *)
RegisterCancelled(c) ==
    /\ pc[c] = "locking"
    /\ FlowOf[c] \in cancelled
    /\ Over(c, result)
    /\ UNCHANGED pending

Displaced(c) == {pending[tool[c]][FlowOf[c]]} \ {NoCaller}

(* start_tool_call under the lock: the sender goes into pending, displacing *)
(* one of the same flow, before tool_in is emitted.                        *)
Register(c) ==
    LET a == tool[c]
        f == FlowOf[c] IN
    /\ pc[c] = "locking"
    /\ f \notin cancelled
    /\ pc' = [pc EXCEPT ![c] = "waiting"]
    /\ pending' = [pending EXCEPT ![a][f] = c]
    /\ result' = Dropped(Displaced(c))
    /\ work' = work \cup {[agent |-> a, flow |-> f, call |-> call[c]]}
    /\ \E t \in BOOLEAN : timed' = [timed EXCEPT ![c] = t]
    /\ UNCHANGED <<agentVars, tool, call, cancelled, made>>

(* The output is refused, as when the queue of the message loop is full:   *)
(* the new sender is taken out again and the call fails.                   *)
RegisterFails(c) ==
    /\ pc[c] = "locking"
    /\ FlowOf[c] \notin cancelled
    /\ pending' = [pending EXCEPT ![tool[c]][FlowOf[c]] = NoCaller]
    /\ Over(c, Dropped(Displaced(c)))

(* Variant: there is no guard; the sender stays. *)
EndWaitUnguarded(c) == Over(c, result) /\ UNCHANGED pending

(* PendingGuard: however a wait ends, the sender under its flow goes, even *)
(* if it is another caller's.                                              *)
EndWait(c) ==
    /\ pending' = [pending EXCEPT ![tool[c]][FlowOf[c]] = NoCaller]
    /\ Over(c, Dropped(Displaced(c)))

(* The receiver is ready and the flow not aborted. *)
Receive(c) ==
    /\ pc[c] = "waiting"
    /\ result[c] # <<>>
    /\ FlowOf[c] \notin cancelled
    /\ EndWait(c)

(* Variant: the timer runs only for calls whose answer has come. *)
TimeoutLate(c) ==
    /\ pc[c] = "waiting"
    /\ timed[c]
    /\ result[c] # <<>>
    /\ FlowOf[c] \notin cancelled
    /\ EndWait(c)

(* tokio's timeout polls the receiver before the timer. *)
Timeout(c) ==
    /\ pc[c] = "waiting"
    /\ timed[c]
    /\ result[c] = <<>>
    /\ FlowOf[c] \notin cancelled
    /\ EndWait(c)

(* The biased select sees the abort first, and so does call_tools, which   *)
(* drops the whole call.                                                   *)
CallCancelled(c) ==
    /\ pc[c] = "waiting"
    /\ FlowOf[c] \in cancelled
    /\ EndWait(c)

-----------------------------------------------------------------------------
AgentStep ==
    \/ \E a \in Agents : Start(a) \/ Stop(a) \/ \E n \in Names : Rename(a, n)
    \/ \E w \in work : Answer(w)
    \/ \E f \in Flows : Cancel(f)

CallStep(c) ==
    \/ RegisterCancelled(c)
    \/ Register(c)
    \/ RegisterFails(c)
    \/ Receive(c)
    \/ Timeout(c)
    \/ CallCancelled(c)

Next == AgentStep \/ \E c \in Callers : CallStep(c) \/ \E n \in Names : BeginCall(c, n)

Spec == Init /\ [][Next]_toolVars

-----------------------------------------------------------------------------
(* A tool in the registry is that of a running agent, under the name the   *)
(* agent has now: neither a stop nor a rename leaves an entry behind that  *)
(* no later stop() removes.                                                *)
NoStaleTool ==
    \A n \in Names : registry[n] # NoAgent =>
        status[registry[n]] = "Start" /\ name[registry[n]] = n

(* The senders in the pending maps are exactly those of the calls that     *)
(* wait without an answer, each on its own agent and under its own flow.   *)
(* No sender is left behind to swallow the value of a later call, and a    *)
(* call whose sender is gone (answered, displaced, dropped by a stop) has  *)
(* been told, so that it does not wait for a value that cannot come.       *)
WaitersMatched ==
    \A a \in Agents, f \in Flows, c \in Callers :
        pending[a][f] = c <=>
            pc[c] = "waiting" /\ result[c] = <<>> /\ tool[c] = a /\ FlowOf[c] = f

(* The value a workflow returns for one call reaches another call only if  *)
(* its own call waits no more (it timed out, or its sender was displaced   *)
(* or dropped by a stop): the retry that the flow makes then may get the   *)
(* late answer, a call that runs beside it never does.                     *)
AnswerReachesOwnCall ==
    [][\A c \in Callers, d \in Callers :
          (/\ result'[c] # result[c]
           /\ result'[c] \notin {<<>>, <<0>>, <<call[c]>>}
           /\ result'[c] = <<call[d]>>)
          => ~(pc[d] = "waiting" /\ result[d] = <<>>)]_toolVars
=============================================================================
