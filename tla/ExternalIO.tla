----------------------------- MODULE ExternalIO -----------------------------
(***************************************************************************)
(* Values on their way between agents: the message loop of ModularAgent    *)
(* and its queue, the mailboxes and loops of agents, the agents that join  *)
(* the graph to named channels (ExternalInput, ExternalOutput and their    *)
(* local variants) and an ordinary agent that may fail, while callers      *)
(* start, stop and configure agents.                                       *)
(*                                                                         *)
(* start_agent and stop_agent are taken apart as in AgentLifecycle, so     *)
(* that an agent may have several loops.  Only single agents are started   *)
(* and stopped: the preset's token never fires, and a loop whose own token *)
(* has fired finds its slot gone and renews nothing.  The connections are  *)
(* those of a preset that is not edited meanwhile.  Values are numbered in *)
(* the order in which callers write them to channels.                      *)
(***************************************************************************)
EXTENDS Naturals, Sequences, SeqOps

CONSTANTS
    SpecAgents,   \* the agents of a preset, in the order of its spec
    Kind,         \* node -> "ext_in", "ext_out", "local_in", "local_out", "work"
    Connections,  \* node -> sequence of [target, source_port, target_port]
    FirstName,    \* node -> the `name` config of its spec, NoName if none
    AsName,       \* value -> the name it is as a config, NoName if it is no string
    NoName,
    WriteChannels,\* channels that callers write to
    Running,      \* nodes that have been started at first
    Callers,      \* tasks that start, stop and configure agents
    Starts,       \* set of <<caller, node>>: the start_agent calls there may be
    Stops,        \* set of <<caller, node>>: the stop_agent calls
    Renames,      \* set of <<caller, node, name>>: the set_agent_configs calls
    CentralCap,   \* size of the message loop's channel
    MailCap,      \* MESSAGE_LIMIT
    MaxWrites,    \* bound: values callers write
    MaxOps        \* bound: starts, stops and config changes by callers

Nodes == {SpecAgents[i] : i \in DOMAIN SpecAgents}
Values == 1 .. MaxWrites
InNodes == {a \in Nodes : Kind[a] \in {"ext_in", "local_in"}}
OutNodes == {a \in Nodes : Kind[a] \in {"ext_out", "local_out"}}

(* The channel an agent's name stands for: channel_name_for_local for the  *)
(* local kinds, which are scoped to the preset.                            *)
Channel(a, n) == <<IF Kind[a] \in {"local_in", "local_out"} THEN "local" ELSE "global", n>>

Names == ({FirstName[a] : a \in Nodes} \cup {AsName[v] : v \in Values} \cup {r[3] : r \in Renames})
         \ {NoName}
Channels == WriteChannels \cup {Channel(a, n) : a \in Nodes, n \in Names}

Target == [target : Nodes, source_port : STRING, target_port : STRING]

(* The loops of agents, each with its mailbox and its token: those of the  *)
(* agents that run at first, then one for each start.                      *)
Loops == 1 .. Len(SpecAgents) + MaxOps

ASSUME ExternalAssumption ==
    /\ SpecAgents \in Seq(Nodes) /\ SpecAgents # <<>>
    /\ \A i, j \in DOMAIN SpecAgents : SpecAgents[i] = SpecAgents[j] => i = j
    /\ FirstName \in [Nodes -> Names \cup {NoName}]
    /\ Connections \in [Nodes -> Seq(Target)]
    /\ Running \subseteq Nodes
    /\ Starts \subseteq Callers \X Nodes /\ Stops \subseteq Callers \X Nodes
    /\ <<>> \notin WriteChannels
    /\ Renames \subseteq Callers \X Nodes \X (Names \cup {NoName})
    /\ MaxWrites \in Nat /\ MaxOps \in Nat

VARIABLES
    status,                 \* node -> "Init" or "Start"
    name,                   \* node -> channel_name or var_name, NoName for None
    agent_txs,              \* node -> the loop its messages go to, 0 for none
    agent_tokens,           \* node -> the loop whose token is in its slot, 0 for none
    fired,                  \* loops whose token has been cancelled
    spawned,                \* number of loops numbered so far
    loop,                   \* loop -> where it is
    mailbox,                \* loop -> its queued messages
    call,                   \* caller -> the operation it is in
    ops,                    \* number of starts, stops and config changes
    central,                \* the message loop's channel
    route,                  \* the message loop
    external_input_agents,  \* channel -> the agents registered for it
    external_values,        \* channel -> the latest value, 0 for none
    written,                \* number of values written
    routed,                 \* history: number of them announced by an event
    doubled,                \* history: nodes whose start() ran on a running agent
    outdated                \* history: nodes of which an old loop processed an input

nodeVars == <<status, name, external_input_agents, doubled>>
slotVars == <<agent_txs, agent_tokens, fired, spawned>>
loopVars == <<loop, mailbox, outdated>>
callVars == <<call, ops>>
valueVars == <<external_values, written, routed>>
ioVars == <<nodeVars, slotVars, loopVars, callVars, central, route, valueVars>>

Message(kind, n, v) == [kind |-> kind, name |-> n, value |-> v]
NoMessage == Message("None", NoName, 0)
Stop == Message("Stop", NoName, 0)
Config(n) == Message("Config", n, 0)
Input(v) == Message("Input", NoName, v)

LoopAt(pc, a) == [pc |-> pc, agent |-> a, held |-> NoMessage]
CallAt(pc, a, g) == [pc |-> pc, agent |-> a, gen |-> g, name |-> NoName]
NoCall == CallAt("idle", SpecAgents[1], 0)
Receiving == [pc |-> "recv", value |-> 0, channel |-> <<>>, todo |-> <<>>, gen |-> 0]

Position(a) == CHOOSE i \in DOMAIN SpecAgents : SpecAgents[i] = a

(* The agents that run have been started in the order of the spec.         *)
Init ==
    /\ status = [a \in Nodes |-> IF a \in Running THEN "Start" ELSE "Init"]
    /\ name = FirstName
    /\ agent_txs = [a \in Nodes |-> IF a \in Running THEN Position(a) ELSE 0]
    /\ agent_tokens = agent_txs
    /\ fired = {} /\ spawned = Len(SpecAgents)
    /\ loop = [g \in Loops |->
          IF g \in DOMAIN SpecAgents /\ SpecAgents[g] \in Running
          THEN LoopAt("recv", SpecAgents[g]) ELSE LoopAt("none", SpecAgents[1])]
    /\ mailbox = [g \in Loops |-> <<>>]
    /\ call = [c \in Callers |-> NoCall]
    /\ central = <<>> /\ route = Receiving
    /\ external_input_agents =
          [c \in Channels |-> Pick(SpecAgents, {i \in DOMAIN SpecAgents :
              LET a == SpecAgents[i] IN
              /\ a \in InNodes \cap Running
              /\ FirstName[a] # NoName /\ Channel(a, FirstName[a]) = c})]
    /\ external_values = [c \in Channels |-> 0]
    /\ written = 0 /\ routed = 0 /\ ops = 0
    /\ doubled = {} /\ outdated = {}

Room == Len(central) < CentralCap

InProcess(g) == loop[g].pc \in {"sending", "sent", "failing"}

(* A process call that waits holds the agent's lock; every other use of    *)
(* the lock is over in one step.                                           *)
LockFree(a) == \A g \in Loops : InProcess(g) => loop[g].agent # a

(* A sender waits for room in the mailbox of g; it fails when g is over.   *)
Delivered(g, m) ==
    \/ loop[g].pc = "done" /\ UNCHANGED mailbox
    \/ /\ loop[g].pc # "done" /\ Len(mailbox[g]) < MailCap
       /\ mailbox' = [mailbox EXCEPT ![g] = Append(@, m)]

-----------------------------------------------------------------------------
(* Registration of the input agents *)

Registered(agents, c, a) == [agents EXCEPT ![c] = Append(@, a)]
Without(s, a) == Pick(s, {i \in DOMAIN s : s[i] # a})
Unregistered(agents, c, a) == [agents EXCEPT ![c] = Without(@, a)]

Named(a) == a \in InNodes /\ name[a] # NoName

(* Variant: the registration follows the name of a stopped agent too. *)
RepointAlways(a, n) ==
    LET agents == external_input_agents
        gone == IF name[a] = NoName THEN agents ELSE Unregistered(agents, Channel(a, name[a]), a) IN
    IF a \notin InNodes \/ name[a] = n THEN agents
    ELSE IF n = NoName THEN gone ELSE Registered(gone, Channel(a, n), a)

(* What configs_changed makes of external_input_agents. *)
Repoint(a, n) ==
    LET agents == external_input_agents
        gone == IF name[a] = NoName THEN agents ELSE Unregistered(agents, Channel(a, name[a]), a) IN
    IF a \notin InNodes \/ name[a] = n \/ status[a] # "Start" THEN agents
    ELSE IF n = NoName THEN gone ELSE Registered(gone, Channel(a, n), a)

(* set_config and configs_changed, under the agent's lock. *)
SetName(a, n) ==
    /\ LockFree(a)
    /\ external_input_agents' = Repoint(a, n)
    /\ name' = [name EXCEPT ![a] = n]
    /\ doubled' = IF name[a] = n \/ status[a] # "Start" THEN doubled ELSE doubled \ {a}
    /\ UNCHANGED status

(* AsAgent::start pushes the agent without a look at its status. *)
RunStart(a) ==
    /\ status' = [status EXCEPT ![a] = "Start"]
    /\ external_input_agents' = IF Named(a)
                                THEN Registered(external_input_agents, Channel(a, name[a]), a)
                                ELSE external_input_agents
    /\ doubled' = IF Named(a) /\ status[a] = "Start" THEN doubled \cup {a} ELSE doubled
    /\ UNCHANGED name

(* AsAgent::stop removes it wherever it stands. *)
RunStop(a) ==
    /\ status' = [status EXCEPT ![a] = "Init"]
    /\ external_input_agents' = IF Named(a)
                                THEN Unregistered(external_input_agents, Channel(a, name[a]), a)
                                ELSE external_input_agents
    /\ doubled' = doubled \ {a}
    /\ UNCHANGED name

-----------------------------------------------------------------------------
(* start_agent *)

(* The status is read under the lock; an agent that runs is left alone. *)
ReadStatus(c, a) ==
    /\ call[c].pc = "idle" /\ ops < MaxOps /\ ops' = ops + 1
    /\ LockFree(a) /\ status[a] = "Init"
    /\ call' = [call EXCEPT ![c] = CallAt("insert_tx", a, 0)]
    /\ UNCHANGED <<nodeVars, slotVars, loopVars, central, route, valueVars>>

(* The sender of a new mailbox replaces whatever agent_txs held. *)
InsertTx(c) ==
    /\ call[c].pc = "insert_tx" /\ spawned + 1 \in Loops
    /\ spawned' = spawned + 1
    /\ agent_txs' = [agent_txs EXCEPT ![call[c].agent] = spawned + 1]
    /\ call' = [call EXCEPT ![c] = CallAt("install_token", call[c].agent, spawned + 1)]
    /\ UNCHANGED <<nodeVars, agent_tokens, fired, loopVars, ops, central, route, valueVars>>

(* create_agent_token, and the spawn of the loop. *)
InstallToken(c) ==
    /\ call[c].pc = "install_token"
    /\ agent_tokens' = [agent_tokens EXCEPT ![call[c].agent] = call[c].gen]
    /\ loop' = [loop EXCEPT ![call[c].gen] = LoopAt("want_start", call[c].agent)]
    /\ call' = [call EXCEPT ![c] = NoCall]
    /\ UNCHANGED <<nodeVars, agent_txs, fired, spawned, mailbox, outdated, ops, central, route, valueVars>>

-----------------------------------------------------------------------------
(* stop_agent *)

(* The sender leaves agent_txs; Stop is queued if there is room for it. *)
TakeTx(c, a) ==
    LET g == agent_txs[a] IN
    /\ call[c].pc = "idle" /\ ops < MaxOps /\ ops' = ops + 1
    /\ agent_txs' = [agent_txs EXCEPT ![a] = 0]
    /\ mailbox' = IF g # 0 /\ loop[g].pc # "done" /\ Len(mailbox[g]) < MailCap
                  THEN [mailbox EXCEPT ![g] = Append(@, Stop)] ELSE mailbox
    /\ call' = [call EXCEPT ![c] = CallAt("take_token", a, 0)]
    /\ UNCHANGED <<nodeVars, agent_tokens, fired, spawned, loop, outdated, central, route, valueVars>>

(* The token leaves its slot, and is cancelled. *)
TakeToken(c) ==
    /\ call[c].pc = "take_token"
    /\ agent_tokens' = [agent_tokens EXCEPT ![call[c].agent] = 0]
    /\ call' = [call EXCEPT ![c] = CallAt("cancel", call[c].agent, agent_tokens[call[c].agent])]
    /\ UNCHANGED <<nodeVars, agent_txs, fired, spawned, loopVars, ops, central, route, valueVars>>

CancelToken(c) ==
    /\ call[c].pc = "cancel"
    /\ fired' = fired \cup ({call[c].gen} \ {0})
    /\ call' = [call EXCEPT ![c] = CallAt("stop_lock", call[c].agent, 0)]
    /\ UNCHANGED <<nodeVars, agent_txs, agent_tokens, spawned, loopVars, ops, central, route, valueVars>>

(* An agent that runs is stopped under its lock. *)
StopLock(c) ==
    LET a == call[c].agent IN
    /\ call[c].pc = "stop_lock" /\ LockFree(a)
    /\ \/ status[a] = "Start" /\ RunStop(a)
       \/ status[a] # "Start" /\ UNCHANGED nodeVars
    /\ call' = [call EXCEPT ![c] = NoCall]
    /\ UNCHANGED <<slotVars, loopVars, ops, central, route, valueVars>>

-----------------------------------------------------------------------------
(* set_agent_configs *)

Rename(c, a, n) ==
    /\ call[c].pc = "idle" /\ ops < MaxOps /\ ops' = ops + 1
    /\ call' = [call EXCEPT ![c] =
          [pc |-> IF agent_txs[a] = 0 THEN "direct" ELSE "push",
           agent |-> a, gen |-> agent_txs[a], name |-> n]]
    /\ UNCHANGED <<nodeVars, slotVars, loopVars, central, route, valueVars>>

RenamePush(c) ==
    /\ call[c].pc = "push"
    /\ Delivered(call[c].gen, Config(call[c].name))
    /\ call' = [call EXCEPT ![c] = NoCall]
    /\ UNCHANGED <<nodeVars, slotVars, loop, outdated, ops, central, route, valueVars>>

RenameDirect(c) ==
    /\ call[c].pc = "direct"
    /\ SetName(call[c].agent, call[c].name)
    /\ call' = [call EXCEPT ![c] = NoCall]
    /\ UNCHANGED <<slotVars, loopVars, ops, central, route, valueVars>>

-----------------------------------------------------------------------------
(* The agents' loops *)

(* The loop moves on, with what it has received, if anything. *)
LoopHolds(g, pc, m) == loop' = [loop EXCEPT ![g] = [pc |-> pc, agent |-> loop[g].agent, held |-> m]]
LoopGoto(g, pc) == LoopHolds(g, pc, loop[g].held)

LoopEnds(g) ==
    /\ LoopHolds(g, "done", NoMessage)
    /\ mailbox' = [mailbox EXCEPT ![g] = <<>>]

(* The select! before start() polls the token, then start() ... *)
PollStartToken(g) ==
    /\ loop[g].pc = "want_start"
    /\ IF g \in fired THEN LoopEnds(g) ELSE LoopGoto(g, "poll_start") /\ UNCHANGED mailbox
    /\ UNCHANGED <<nodeVars, slotVars, outdated, callVars, central, route, valueVars>>

(* ... which runs if it gets the lock, whatever has fired meanwhile. *)
PollStart(g) ==
    LET a == loop[g].agent IN
    /\ loop[g].pc = "poll_start"
    /\ IF LockFree(a) THEN RunStart(a) /\ LoopGoto(g, "recv")
       ELSE LoopGoto(g, "want_start") /\ UNCHANGED nodeVars
    /\ UNCHANGED <<slotVars, mailbox, outdated, callVars, central, route, valueVars>>

Recv(g) ==
    /\ loop[g].pc = "recv" /\ mailbox[g] # <<>>
    /\ LET m == Head(mailbox[g]) IN
       IF m.kind = "Stop" THEN LoopEnds(g)
       ELSE /\ LoopHolds(g, IF m.kind = "Config" THEN "config" ELSE "want_process", m)
            /\ mailbox' = [mailbox EXCEPT ![g] = Tail(@)]
    /\ UNCHANGED <<nodeVars, slotVars, outdated, callVars, central, route, valueVars>>

(* Somebody may still send to the mailbox of g. *)
HasSender(g) ==
    \/ \E a \in Nodes : agent_txs[a] = g
    \/ \E c \in Callers : call[c].pc = "push" /\ call[c].gen = g
    \/ route.pc = "push" /\ route.gen = g

RecvNone(g) ==
    /\ loop[g].pc = "recv" /\ mailbox[g] = <<>> /\ ~HasSender(g)
    /\ LoopEnds(g)
    /\ UNCHANGED <<nodeVars, slotVars, outdated, callVars, central, route, valueVars>>

ApplyConfig(g) ==
    /\ loop[g].pc = "config"
    /\ SetName(loop[g].agent, loop[g].held.name)
    /\ LoopHolds(g, "recv", NoMessage)
    /\ UNCHANGED <<slotVars, mailbox, outdated, callVars, central, route, valueVars>>

(* The select! around process() polls the token: a fired one drops the     *)
(* input.                                                                  *)
PollProcessToken(g) ==
    /\ loop[g].pc = "want_process"
    /\ IF g \in fired THEN LoopHolds(g, "recv", NoMessage) ELSE LoopGoto(g, "poll_process")
    /\ UNCHANGED <<nodeVars, slotVars, mailbox, outdated, callVars, central, route, valueVars>>

(* A loop of the same agent that was numbered later. *)
HasNewer(g) == \E h \in Loops : h > g /\ loop[h].agent = loop[g].agent /\ loop[h].pc # "none"

(* process() runs if it gets the lock, whatever has fired meanwhile.  An   *)
(* output agent without a name ignores its input, and an input agent has   *)
(* nothing to do.                                                          *)
PollProcess(g) ==
    LET a == loop[g].agent IN
    /\ loop[g].pc = "poll_process"
    /\ IF ~LockFree(a) THEN LoopGoto(g, "want_process") /\ UNCHANGED outdated
       ELSE /\ IF a \in InNodes \/ (a \in OutNodes /\ name[a] = NoName)
               THEN LoopHolds(g, "recv", NoMessage) ELSE LoopGoto(g, "sending")
            /\ outdated' = IF HasNewer(g) THEN outdated \cup {a} ELSE outdated
    /\ UNCHANGED <<nodeVars, slotVars, mailbox, callVars, central, route, valueVars>>

(* The token fires while process() waits: the call and its lock are gone.  *)
ProcessCancelled(g) ==
    /\ InProcess(g) /\ g \in fired
    /\ LoopHolds(g, "recv", NoMessage)
    /\ UNCHANGED <<nodeVars, slotVars, mailbox, outdated, callVars, central, route, valueVars>>

AgentOut(a, port, v) == [kind |-> "AgentOut", agent |-> a, port |-> port, value |-> v, channel |-> <<>>]
ToChannel(c, v) == [kind |-> "ExternalOutput", agent |-> "", port |-> "", value |-> v, channel |-> c]

(* process sends its value: to its channel, and is done; or to a port.     *)
SendOut(g) ==
    LET a == loop[g].agent
        v == loop[g].held.value IN
    /\ loop[g].pc = "sending" /\ Room
    /\ \/ /\ a \in OutNodes
          /\ central' = Append(central, ToChannel(Channel(a, name[a]), v))
          /\ LoopHolds(g, "recv", NoMessage)
       \/ /\ a \notin OutNodes
          /\ central' = Append(central, AgentOut(a, "value", v))
          /\ LoopGoto(g, "sent")
    /\ UNCHANGED <<nodeVars, slotVars, mailbox, outdated, callVars, route, valueVars>>

Finish(g) ==
    /\ loop[g].pc = "sent"
    /\ LoopHolds(g, "recv", NoMessage)
    /\ UNCHANGED <<nodeVars, slotVars, mailbox, outdated, callVars, central, route, valueVars>>

(* The process of an ordinary agent fails, before or after its output:     *)
(* Agent::process announces the error, then sends it to the port "err".    *)
Fail(g) ==
    /\ Kind[loop[g].agent] = "work" /\ loop[g].pc \in {"sending", "sent"}
    /\ LoopGoto(g, "failing")
    /\ UNCHANGED <<nodeVars, slotVars, mailbox, outdated, callVars, central, route, valueVars>>

SendErr(g) ==
    /\ loop[g].pc = "failing" /\ Room
    /\ central' = Append(central, AgentOut(loop[g].agent, "err", loop[g].held.value))
    /\ LoopHolds(g, "recv", NoMessage)
    /\ UNCHANGED <<nodeVars, slotVars, mailbox, outdated, callVars, route, valueVars>>

-----------------------------------------------------------------------------
(* The message loop *)

(* write_external_input and write_local_input, once there is room. *)
Write(c) ==
    /\ written < MaxWrites /\ Room
    /\ written' = written + 1
    /\ central' = Append(central, ToChannel(c, written + 1))
    /\ UNCHANGED <<nodeVars, slotVars, loopVars, callVars, route, external_values, routed>>

(* agent_out: the connections of the port; external_input: all those of    *)
(* the agents registered for the channel.                                  *)
TargetsOf(m) ==
    IF m.kind = "AgentOut"
    THEN LET all == Connections[m.agent] IN
         Pick(all, {i \in DOMAIN all : all[i].source_port = m.port})
    ELSE LET agents == external_input_agents[m.channel] IN
         Concatenated([i \in 1 .. Len(agents) |-> Connections[agents[i]]])

(* The message loop takes up a message; a channel's value is stored. *)
Handle(m) ==
    /\ route' = [pc |-> "deliver", value |-> m.value, channel |-> m.channel,
                 todo |-> TargetsOf(m), gen |-> 0]
    /\ external_values' = IF m.kind = "AgentOut" THEN external_values
                          ELSE [external_values EXCEPT ![m.channel] = m.value]
    /\ UNCHANGED <<nodeVars, slotVars, loopVars, callVars, written, routed>>

(* Variant: a message whose target has no room goes back to the queue. *)
ReceiveRequeues ==
    /\ central # <<>>
    /\ Handle(Head(central))
    /\ \/ route.pc = "recv" /\ central' = Tail(central)
       \/ /\ route.pc = "push" /\ Len(mailbox[route.gen]) >= MailCap /\ route.channel # <<>>
          /\ central' = Append(Tail(central), ToChannel(route.channel, route.value))

(* spawn_message_loop *)
Receive ==
    /\ route.pc = "recv" /\ central # <<>>
    /\ Handle(Head(central))
    /\ central' = Tail(central)

(* agent_input: "config:name" ports set configs. *)
PortMessage(t, v) == IF t.target_port = "config:name" THEN Config(AsName[v]) ELSE Input(v)

RouteGoto(pc, g) == route' = [route EXCEPT !.pc = pc, !.gen = g]
RouteNext == route' = [route EXCEPT !.pc = "deliver", !.gen = 0, !.todo = Tail(@)]

(* Variant: inputs wait for the agent to run. *)
LookUpWaits ==
    /\ route.pc = "deliver" /\ route.todo # <<>>
    /\ LET t == Head(route.todo)
           g == agent_txs[t.target] IN
       \/ g # 0 /\ RouteGoto("push", g)
       \/ g = 0 /\ t.target_port = "config:name" /\ RouteGoto("direct", 0)
    /\ UNCHANGED <<nodeVars, slotVars, loopVars, callVars, central, valueVars>>

(* The sender is cloned; an agent without one gets configs set directly,   *)
(* and no inputs.                                                          *)
LookUp ==
    /\ route.pc = "deliver" /\ route.todo # <<>>
    /\ LET t == Head(route.todo)
           g == agent_txs[t.target] IN
       \/ g # 0 /\ RouteGoto("push", g)
       \/ g = 0 /\ t.target_port = "config:name" /\ RouteGoto("direct", 0)
       \/ g = 0 /\ t.target_port # "config:name" /\ RouteNext
    /\ UNCHANGED <<nodeVars, slotVars, loopVars, callVars, central, valueVars>>

RoutePush ==
    /\ route.pc = "push"
    /\ Delivered(route.gen, PortMessage(Head(route.todo), route.value))
    /\ RouteNext
    /\ UNCHANGED <<nodeVars, slotVars, loop, outdated, callVars, central, valueVars>>

RouteDirect ==
    /\ route.pc = "direct"
    /\ SetName(Head(route.todo).target, AsName[route.value])
    /\ RouteNext
    /\ UNCHANGED <<slotVars, loopVars, callVars, central, valueVars>>

(* All targets are served; a channel's value is announced. *)
Routed ==
    /\ route.pc = "deliver" /\ route.todo = <<>>
    /\ route' = Receiving
    /\ routed' = IF route.channel # <<>> /\ route.value > routed THEN route.value ELSE routed
    /\ UNCHANGED <<nodeVars, slotVars, loopVars, callVars, central, external_values, written>>

-----------------------------------------------------------------------------
CallStep(c) ==
    \/ InsertTx(c) \/ InstallToken(c)
    \/ TakeToken(c) \/ CancelToken(c) \/ StopLock(c)
    \/ RenamePush(c) \/ RenameDirect(c)
LoopStep(g) ==
    \/ PollStartToken(g) \/ PollStart(g) \/ Recv(g) \/ RecvNone(g) \/ ApplyConfig(g)
    \/ PollProcessToken(g) \/ PollProcess(g) \/ ProcessCancelled(g)
    \/ SendOut(g) \/ Finish(g) \/ SendErr(g)
RouteStep == Receive \/ LookUp \/ RoutePush \/ RouteDirect \/ Routed

Next ==
    \/ \E s \in Starts : ReadStatus(s[1], s[2])
    \/ \E s \in Stops : TakeTx(s[1], s[2])
    \/ \E r \in Renames : Rename(r[1], r[2], r[3])
    \/ \E c \in Callers : CallStep(c)
    \/ \E g \in Loops : LoopStep(g) \/ Fail(g)
    \/ \E c \in WriteChannels : Write(c)
    \/ RouteStep

(* The message loop, the agents' loops and the calls that have begun are   *)
(* tasks of the executor, and process calls of these agents come to an end *)
(* unless they wait for room.                                              *)
Spec ==
    /\ Init /\ [][Next]_ioVars
    /\ WF_ioVars(RouteStep)
    /\ \A g \in Loops : WF_ioVars(LoopStep(g))
    /\ \A c \in Callers : WF_ioVars(CallStep(c))

-----------------------------------------------------------------------------
(* The messages in mailboxes and in the message loop's channel. *)
ConfigMessage == [kind : {"Config"}, name : Names \cup {NoName}, value : {0}]
InputMessage == [kind : {"Input"}, name : {NoName}, value : Values]
AgentMessage == ConfigMessage \cup InputMessage \cup {Stop}
CentralMessage ==
    [kind : {"AgentOut"}, agent : Nodes, port : {"value", "err"}, value : Values, channel : {<<>>}]
    \cup [kind : {"ExternalOutput"}, agent : {""}, port : {""}, value : Values, channel : Channels]

LoopState ==
    [pc : {"none", "want_start", "poll_start", "recv", "done"}, agent : Nodes, held : {NoMessage}]
    \cup [pc : {"config"}, agent : Nodes, held : ConfigMessage]
    \cup [pc : {"want_process", "poll_process", "sending", "sent", "failing"}, agent : Nodes,
          held : InputMessage]
CallState ==
    [pc : {"idle", "insert_tx", "take_token", "stop_lock"}, agent : Nodes, gen : {0}, name : {NoName}]
    \cup [pc : {"install_token"}, agent : Nodes, gen : Loops, name : {NoName}]
    \cup [pc : {"cancel"}, agent : Nodes, gen : Loops \cup {0}, name : {NoName}]
    \cup [pc : {"push"}, agent : Nodes, gen : Loops, name : Names \cup {NoName}]
    \cup [pc : {"direct"}, agent : Nodes, gen : {0}, name : Names \cup {NoName}]
RouteState ==
    {Receiving}
    \cup [pc : {"deliver"}, value : Values, channel : Channels \cup {<<>>}, todo : Seq(Target), gen : {0}]
    \cup [pc : {"push"}, value : Values, channel : Channels \cup {<<>>},
          todo : Seq(Target) \ {<<>>}, gen : Loops]
    \cup [pc : {"direct"}, value : Values, channel : Channels \cup {<<>>},
          todo : Seq(Target) \ {<<>>}, gen : {0}]

NodeTypes ==
    /\ status \in [Nodes -> {"Init", "Start"}]
    /\ name \in [Nodes -> Names \cup {NoName}]
    /\ external_input_agents \in [Channels -> Seq(Nodes)]
    /\ doubled \subseteq Nodes
SlotTypes ==
    /\ agent_txs \in [Nodes -> Loops \cup {0}]
    /\ agent_tokens \in [Nodes -> Loops \cup {0}]
    /\ fired \subseteq Loops /\ spawned \in Loops
LoopTypes ==
    /\ loop \in [Loops -> LoopState]
    /\ mailbox \in [Loops -> Seq(AgentMessage)]
    /\ outdated \subseteq Nodes
CallTypes == call \in [Callers -> CallState] /\ ops \in 0 .. MaxOps
QueueTypes == central \in Seq(CentralMessage) /\ route \in RouteState
ValueTypes ==
    /\ external_values \in [Channels -> 0 .. MaxWrites]
    /\ written \in 0 .. MaxWrites /\ routed \in 0 .. MaxWrites

(* Types of all variables. *)
IOTypeOK == NodeTypes /\ SlotTypes /\ LoopTypes /\ CallTypes /\ QueueTypes /\ ValueTypes

(* a is in s once, or not at all. *)
Once(s, a) == \E i \in DOMAIN s : \A j \in DOMAIN s : s[j] = a <=> j = i
Never(s, a) == \A i \in DOMAIN s : s[i] # a

(* An input agent is registered under its current name while it is         *)
(* started, and not at all otherwise, however starts, stops and config     *)
(* changes are mixed: it would get no value, or values it is not to see.   *)
(* It is registered once, and gets every value once, unless start() ran on *)
(* an agent already started, which two overlapping start_agent calls may   *)
(* bring about; stop_agent and a change of its name mend that.             *)
RegisteredOnce ==
    \A a \in InNodes, c \in Channels :
        IF status[a] = "Start" /\ name[a] # NoName /\ c = Channel(a, name[a])
        THEN Once(external_input_agents[c], a)
             \/ (a \in doubled /\ ~Never(external_input_agents[c], a))
        ELSE Never(external_input_agents[c], a)

(* The channels that no output agent can name: only callers write there.   *)
Direct(c) == \A a \in OutNodes, n \in Names : Channel(a, n) # c

(* Values come through a channel in the order in which they were written,  *)
(* whether or not some are lost on the way: in every preset if only        *)
(* callers write to it.  A channel behind agents, on one path from the     *)
(* channel written to, keeps the order as long as no loop has processed    *)
(* an input beside a later loop of its agent: a loop past its token poll   *)
(* does so once after a stop and a start, and so does the first of two     *)
(* loops that overlapping starts leave behind.                             *)
InWrittenOrder ==
    [][\A c \in Channels :
          external_values'[c] # external_values[c] /\ (Direct(c) \/ outdated = {}) =>
              external_values'[c] > external_values[c]]_ioVars

(* The message loop waits for an agent, for room in its mailbox or for its *)
(* lock, a process call of which waits for room in the message loop's      *)
(* channel.                                                                *)
Gridlocked ==
    /\ ~Room
    /\ \/ route.pc = "push" /\ Len(mailbox[route.gen]) >= MailCap
       \/ route.pc = "direct"
    /\ \E g \in Loops : /\ loop[g].pc \in {"sending", "failing"}
                        /\ loop[g].agent = Head(route.todo).target

(* Every value written is announced in the end, unless the loop and an     *)
(* agent wait for each other over full queues for ever: nothing else can   *)
(* stop the routing, not an agent that is stopped, fails or changes its    *)
(* channel, and not two loops of one agent.  A number once written or      *)
(* routed stays so: what holds again and again holds from then on.         *)
EveryWriteRouted == \A v \in Values : []<>(written >= v => routed >= v) \/ <>[]Gridlocked
=============================================================================
