----------------------------- MODULE PresetGraph -----------------------------
(***************************************************************************)
(* What a preset is made of, kept twice: in the preset's spec (the         *)
(* structure that is shown, saved and stopped) and in the runtime maps     *)
(* `agents` and `connections` (what exists and where messages go).  The    *)
(* structure operations of ModularAgent update both, in separate critical  *)
(* sections: the spec under the preset's async mutex, each map under a     *)
(* lock of its own.                                                        *)
(*                                                                         *)
(* Handles are left out: a connection is a pair of agent ids.              *)
(***************************************************************************)
EXTENDS Naturals, Sequences, FiniteSets, Functions, SequencesExt

CONSTANTS
    PresetIds,   \* preset ids new_id can hand out in one process
    AgentIds,    \* agent ids new_id can hand out in one process
    Callers,     \* concurrent API callers
    Ops,         \* the operations the callers use
    NoPreset, NoAgent,
    MaxCalls,    \* bound: API calls ever made
    MaxConns     \* bound: connections of one spec

AllOps == {"add_preset", "load_preset", "save_preset", "remove_preset", "add_agent",
           "remove_agent", "add_connection", "remove_connection", "add_batch",
           "restart"}

ASSUME GraphAssumption ==
    /\ NoPreset \notin PresetIds
    /\ NoAgent \notin AgentIds
    /\ Ops \subseteq AllOps
    /\ MaxCalls \in Nat /\ MaxConns \in Nat

VARIABLES
    usedPresets, usedAgents,  \* ids handed out by this process
    presets,       \* ids in the presets map
    presetLock,    \* presets whose async mutex is held across an await or a batch
    specAgents,    \* preset -> ids of spec.agents
    specConns,     \* preset -> spec.connections
    agents,        \* ids in the agents map
    presetOf,      \* agent -> the preset it was created in
    connections,   \* the routing table
    file,          \* the saved preset
    call,          \* caller -> where its call is
    calls,         \* number of calls made
    strays,        \* history: the connections the loads of this process left in doubt
    missed         \* history: the agents that escaped the removal of their preset

ids == <<usedPresets, usedAgents, strays>>
spec == <<specAgents, specConns>>
runtime == <<agents, presetOf, connections>>
vars == <<ids, presets, presetLock, spec, runtime, file, call, calls, missed>>

Conn == AgentIds \X AgentIds
NoConn == <<NoAgent, NoAgent>>
EmptySpec == [agents |-> {}, conns |-> <<>>]

CallPc == {"idle", "add_preset_insert", "save_write",
           "add_agent_build", "add_agent_spec",
           "add_conn_lookup", "add_conn", "remove_conn",
           "batch_agents", "batch_conns", "batch_rollback",
           "remove_lock", "remove_next", "stop", "drop_conns", "drop_agent",
           "remove_spec", "remove_map"}
Call == [op : AllOps, pc : CallPc, preset : PresetIds \cup {NoPreset},
         agent : AgentIds \cup {NoAgent}, conn : Conn \cup {NoConn},
         ids : SUBSET AgentIds, conns : Seq(Conn), done : Nat]
IdleCall == [op |-> "add_preset", pc |-> "idle", preset |-> NoPreset, agent |-> NoAgent,
             conn |-> NoConn, ids |-> {}, conns |-> <<>>, done |-> 0]

Init ==
    /\ usedPresets = {} /\ usedAgents = {}
    /\ presets = {} /\ presetLock = {}
    /\ specAgents = [p \in PresetIds |-> {}]
    /\ specConns = [p \in PresetIds |-> <<>>]
    /\ agents = {}
    /\ presetOf = [a \in AgentIds |-> NoPreset]
    /\ connections = {}
    /\ file = EmptySpec
    /\ call = [c \in Callers |-> IdleCall]
    /\ calls = 0
    /\ strays = {} /\ missed = {}

Goto(c, pc) == call' = [call EXCEPT ![c].pc = pc]
Return(c) == call' = [call EXCEPT ![c] = IdleCall]

Begin(c) ==
    /\ call[c].pc = "idle"
    /\ calls < MaxCalls
    /\ calls' = calls + 1

(* A call starts by looking its preset up in the presets map. *)
BeginIn(c, op, p, pc, a, cn) ==
    /\ Begin(c)
    /\ op \in Ops
    /\ p \in presets
    /\ call' = [call EXCEPT ![c] = [IdleCall EXCEPT !.op = op, !.pc = pc, !.preset = p,
                                                   !.agent = a, !.conn = cn]]
    /\ UNCHANGED <<ids, presets, presetLock, spec, runtime, file>>

At(c, pc) == call[c].pc = pc
Preset(c) == call[c].preset
Agent(c) == call[c].agent

(* The ids a caller has been shown: specs are read under the preset lock. *)
Shown(p) == IF p \in presetLock THEN {} ELSE specAgents[p]

Touching(ids_) == {cn \in Conn : cn[1] \in ids_ \/ cn[2] \in ids_}

(* update_ids: agents get new ids, connections follow; an id that belongs  *)
(* to none of the agents is kept as it is.                                 *)
NewIds(as) == Injection(as, AgentIds \ usedAgents)
Renamed(f, a) == IF a \in DOMAIN f THEN f[a] ELSE a
RenamedConns(f, conns) ==
    [i \in DOMAIN conns |-> <<Renamed(f, conns[i][1]), Renamed(f, conns[i][2])>>]

(* What a load leaves in doubt: a connection with an end that was kept,    *)
(* which may be the id of any agent of this process, and one that the file *)
(* lists twice, which the table has once.                                  *)
Strays(f, conns) ==
    LET new == RenamedConns(f, conns)
        kept == {a \in AgentIds \ DOMAIN f :
                   \E i \in DOMAIN conns : a \in {conns[i][1], conns[i][2]}}
    IN Touching(kept) \cup
       {cn \in Conn : \E i, j \in DOMAIN new : i # j /\ new[i] = cn /\ new[j] = cn}

(* PresetSpec::remove_connection removes the first entry equal to e. *)
FirstOf(s, e) == {i \in DOMAIN s : s[i] = e /\ \A j \in 1 .. (i - 1) : s[j] # e}

-----------------------------------------------------------------------------
(* add_preset_raw, on an empty spec or on the saved one: every agent gets  *)
(* a new id; the ones whose definition is unknown are left out of the      *)
(* agents map, a connection already in the table is left out of the table, *)
(* and both stay in the spec.  The preset is not yet visible.              *)
AddPreset(c, p, s, f, built) ==
    /\ Begin(c)
    /\ \/ "add_preset" \in Ops /\ s = EmptySpec
       \/ "load_preset" \in Ops /\ s = file
    /\ p \notin usedPresets
    /\ f \in NewIds(s.agents)
    /\ built \subseteq Range(f)
    /\ usedPresets' = usedPresets \cup {p}
    /\ usedAgents' = usedAgents \cup Range(f)
    /\ specAgents' = [specAgents EXCEPT ![p] = Range(f)]
    /\ specConns' = [specConns EXCEPT ![p] = RenamedConns(f, s.conns)]
    /\ agents' = agents \cup built
    /\ presetOf' = [a \in AgentIds |-> IF a \in built THEN p ELSE presetOf[a]]
    /\ connections' = connections \cup Range(RenamedConns(f, s.conns))
    /\ strays' = strays \cup Strays(f, s.conns)
    /\ call' = [call EXCEPT ![c] = [IdleCall EXCEPT !.pc = "add_preset_insert",
                                                    !.preset = p]]
    /\ UNCHANGED <<presets, presetLock, file>>

AddPresetInsert(c) ==
    /\ At(c, "add_preset_insert")
    /\ presets' = presets \cup {Preset(c)}
    /\ Return(c)
    /\ UNCHANGED <<ids, presetLock, spec, runtime, file, calls>>

-----------------------------------------------------------------------------
(* save_preset writes what get_preset_spec returns: the spec, read under   *)
(* the preset lock, with only those of its agents that have an instance    *)
(* when they are asked for their specs, and with all its connections.      *)
SaveSnapshot(c, p) ==
    /\ Begin(c)
    /\ "save_preset" \in Ops
    /\ p \in presets \ presetLock
    /\ call' = [call EXCEPT ![c] = [IdleCall EXCEPT !.op = "save_preset", !.pc = "save_write",
                                     !.preset = p, !.ids = specAgents[p], !.conns = specConns[p]]]
    /\ UNCHANGED <<ids, presets, presetLock, spec, runtime, file>>

SaveWrite(c) ==
    /\ At(c, "save_write")
    /\ file' = [agents |-> call[c].ids \cap agents, conns |-> call[c].conns]
    /\ Return(c)
    /\ UNCHANGED <<ids, presets, presetLock, spec, runtime, calls>>

(* The process ends and a new one begins: only the file is left, and       *)
(* new_id starts from 1 again.                                             *)
Restart ==
    /\ "restart" \in Ops
    /\ usedPresets # {}
    /\ usedPresets' = {} /\ usedAgents' = {}
    /\ presets' = {} /\ presetLock' = {}
    /\ specAgents' = [p \in PresetIds |-> {}]
    /\ specConns' = [p \in PresetIds |-> <<>>]
    /\ agents' = {}
    /\ presetOf' = [a \in AgentIds |-> NoPreset]
    /\ connections' = {} /\ strays' = {} /\ missed' = {}
    /\ call' = [c \in Callers |-> IdleCall]
    /\ UNCHANGED <<file, calls>>

-----------------------------------------------------------------------------
(* add_agent: the instance is built and put into the agents map (or the    *)
(* call fails), and then into the spec once the preset lock is free.       *)
AddAgentBuild(c) ==
    /\ At(c, "add_agent_build")
    /\ \E a \in AgentIds \ usedAgents :
         /\ usedAgents' = usedAgents \cup {a}
         /\ \/ /\ agents' = agents \cup {a}
               /\ presetOf' = [presetOf EXCEPT ![a] = Preset(c)]
               /\ call' = [call EXCEPT ![c].pc = "add_agent_spec", ![c].agent = a]
            \/ Return(c) /\ UNCHANGED <<agents, presetOf>>
    /\ UNCHANGED <<usedPresets, strays, presets, presetLock, spec, connections, file, calls>>

AddAgentSpec(c) ==
    /\ At(c, "add_agent_spec")
    /\ Preset(c) \notin presetLock
    /\ specAgents' = [specAgents EXCEPT ![Preset(c)] = @ \cup {Agent(c)}]
    /\ Return(c)
    /\ UNCHANGED <<ids, presets, presetLock, specConns, runtime, file, calls>>

-----------------------------------------------------------------------------
(* add_connection "between two agents in the specified preset": both       *)
(* agents must exist, then the preset is looked up ...                     *)
AddConnCheck(c, p, cn) ==
    /\ Begin(c)
    /\ "add_connection" \in Ops
    /\ p \in usedPresets
    /\ cn[1] \in Shown(p) \cap agents /\ cn[2] \in Shown(p) \cap agents
    /\ call' = [call EXCEPT ![c] = [IdleCall EXCEPT !.op = "add_connection",
                            !.pc = "add_conn_lookup", !.preset = p, !.conn = cn]]
    /\ UNCHANGED <<ids, presets, presetLock, spec, runtime, file>>

AddConnLookup(c) ==
    /\ At(c, "add_conn_lookup")
    /\ IF Preset(c) \in presets THEN Goto(c, "add_conn") ELSE Return(c)
    /\ UNCHANGED <<ids, presets, presetLock, spec, runtime, file, calls>>

(* ... and, holding its lock, the connection is put into the table unless  *)
(* it is there already, and then into the spec.                            *)
AddConn(c) ==
    /\ At(c, "add_conn")
    /\ Preset(c) \notin presetLock
    /\ Len(specConns[Preset(c)]) < MaxConns
    /\ IF call[c].conn \in connections
       THEN UNCHANGED <<connections, specConns>>
       ELSE /\ connections' = connections \cup {call[c].conn}
            /\ specConns' = [specConns EXCEPT ![Preset(c)] = Append(@, call[c].conn)]
    /\ Return(c)
    /\ UNCHANGED <<ids, presets, presetLock, specAgents, agents, presetOf, file, calls>>

(* remove_connection: the first such connection of the spec and the table  *)
(* entry; one the spec does not have fails the call.                       *)
RemoveConn(c) ==
    /\ At(c, "remove_conn")
    /\ Preset(c) \notin presetLock
    /\ \/ \E i \in FirstOf(specConns[Preset(c)], call[c].conn) :
            /\ specConns' = [specConns EXCEPT ![Preset(c)] = RemoveAt(@, i)]
            /\ connections' = connections \ {call[c].conn}
       \/ /\ ~Contains(specConns[Preset(c)], call[c].conn)
          /\ UNCHANGED <<connections, specConns>>
    /\ Return(c)
    /\ UNCHANGED <<ids, presets, presetLock, specAgents, agents, presetOf, file, calls>>

-----------------------------------------------------------------------------
(* add_agents_and_connections pastes copies of agents of the preset and of *)
(* connections, under the preset lock.                                     *)
BeginBatch(c, p, as, conns) ==
    /\ Begin(c)
    /\ "add_batch" \in Ops
    /\ p \in presets
    /\ as \subseteq Shown(p)
    /\ call' = [call EXCEPT ![c] = [IdleCall EXCEPT !.op = "add_batch", !.preset = p,
                            !.pc = "batch_agents", !.ids = as, !.conns = conns]]
    /\ UNCHANGED <<ids, presets, presetLock, spec, runtime, file>>

(* The agents, one by one into the map and into the spec; one that cannot  *)
(* be built ends the batch.                                                *)
BatchAgents(c, f, built) ==
    /\ At(c, "batch_agents")
    /\ Preset(c) \notin presetLock
    /\ Len(specConns[Preset(c)]) + Len(call[c].conns) <= MaxConns
    /\ f \in NewIds(call[c].ids)
    /\ built \subseteq Range(f)
    /\ usedAgents' = usedAgents \cup Range(f)
    /\ agents' = agents \cup built
    /\ presetOf' = [a \in AgentIds |-> IF a \in built THEN Preset(c) ELSE presetOf[a]]
    /\ specAgents' = [specAgents EXCEPT ![Preset(c)] = @ \cup built]
    /\ presetLock' = presetLock \cup {Preset(c)}
    /\ call' = IF built = Range(f)
               THEN [call EXCEPT ![c].pc = "batch_conns", ![c].ids = built,
                                 ![c].conns = RenamedConns(f, call[c].conns)]
               ELSE [call EXCEPT ![c].pc = "batch_rollback", ![c].ids = built,
                                 ![c].conns = <<>>]
    /\ UNCHANGED <<usedPresets, strays, presets, specConns, connections, file, calls>>

(* The connections, one by one into the table and into the spec; one that  *)
(* exists ends the batch.                                                  *)
BatchConns(c) ==
    /\ At(c, "batch_conns")
    /\ call[c].done < Len(call[c].conns)
    /\ LET cn == call[c].conns[call[c].done + 1] IN
       IF cn \in connections
       THEN /\ call' = [call EXCEPT ![c].pc = "batch_rollback",
                                    ![c].conns = SubSeq(@, 1, call[c].done)]
            /\ UNCHANGED <<connections, specConns>>
       ELSE /\ connections' = connections \cup {cn}
            /\ specConns' = [specConns EXCEPT ![Preset(c)] = Append(@, cn)]
            /\ call' = [call EXCEPT ![c].done = @ + 1]
    /\ UNCHANGED <<ids, presets, presetLock, specAgents, agents, presetOf, file, calls>>

BatchDone(c) ==
    /\ At(c, "batch_conns")
    /\ call[c].done = Len(call[c].conns)
    /\ presetLock' = presetLock \ {Preset(c)}
    /\ Return(c)
    /\ UNCHANGED <<ids, presets, spec, runtime, file, calls>>

(* Variant: the connection stays in the spec. *)
RollbackConnTableOnly(c) ==
    /\ At(c, "batch_rollback")
    /\ call[c].conns # <<>>
    /\ connections' = connections \ {Head(call[c].conns)}
    /\ call' = [call EXCEPT ![c].conns = Tail(@)]
    /\ UNCHANGED <<ids, presets, presetLock, spec, agents, presetOf, file, calls>>

(* A failed batch takes back what it had added: its connections, each out  *)
(* of the spec and of the table ...                                        *)
RollbackConn(c) ==
    /\ At(c, "batch_rollback")
    /\ call[c].conns # <<>>
    /\ \E i \in FirstOf(specConns[Preset(c)], Head(call[c].conns)) :
         specConns' = [specConns EXCEPT ![Preset(c)] = RemoveAt(@, i)]
    /\ connections' = connections \ {Head(call[c].conns)}
    /\ call' = [call EXCEPT ![c].conns = Tail(@)]
    /\ UNCHANGED <<ids, presets, presetLock, specAgents, agents, presetOf, file, calls>>

(* Variant: the spec keeps the agents of the failed batch. *)
RollbackAgentsKeepsSpec(c) ==
    /\ At(c, "batch_rollback")
    /\ call[c].conns = <<>>
    /\ agents' = agents \ call[c].ids
    /\ presetLock' = presetLock \ {Preset(c)}
    /\ Return(c)
    /\ UNCHANGED <<ids, presets, presetOf, connections, spec, file, calls>>

(* ... and its agents, which were never started.                           *)
RollbackAgents(c) ==
    /\ At(c, "batch_rollback")
    /\ call[c].conns = <<>>
    /\ specAgents' = [specAgents EXCEPT ![Preset(c)] = @ \ call[c].ids]
    /\ agents' = agents \ call[c].ids
    /\ presetLock' = presetLock \ {Preset(c)}
    /\ Return(c)
    /\ UNCHANGED <<ids, presets, presetOf, connections, specConns, file, calls>>

-----------------------------------------------------------------------------
(* remove_preset takes the lock, stops the preset's agents (AgentLifecycle *)
(* models that) and removes them one by one ...                            *)
RemoveLock(c) ==
    /\ At(c, "remove_lock")
    /\ Preset(c) \notin presetLock
    /\ presetLock' = presetLock \cup {Preset(c)}
    /\ call' = [call EXCEPT ![c].pc = "remove_next", ![c].ids = specAgents[Preset(c)]]
    /\ UNCHANGED <<ids, presets, spec, runtime, file, calls>>

RemoveNext(c, a) ==
    /\ At(c, "remove_next")
    /\ a \in call[c].ids
    /\ call' = [call EXCEPT ![c].pc = "stop", ![c].agent = a, ![c].ids = @ \ {a}]
    /\ UNCHANGED <<ids, presets, presetLock, spec, runtime, file, calls>>

(* After remove_agent_internal: remove_preset goes on with its next agent; *)
(* remove_agent removes the agent from the spec, an instance found or not. *)
AfterInternal(c) ==
    Goto(c, IF call[c].op = "remove_preset" THEN "remove_next" ELSE "remove_spec")

(* remove_agent_internal: stop_agent, which fails if there is no such      *)
(* agent or if a running agent's own stop does (after Preset::stop, one    *)
(* that was started again); remove_agent gives up on the latter,           *)
(* remove_preset on neither ...                                            *)
StopAgent(c) ==
    /\ At(c, "stop")
    /\ \/ Agent(c) \in agents /\ Goto(c, "drop_conns")
       \/ Agent(c) \notin agents /\ AfterInternal(c)
    /\ UNCHANGED <<ids, presets, presetLock, spec, runtime, file, calls>>

(* Variant: remove_agent goes on after a failed stop. *)
StopFailureIgnored(c) ==
    /\ At(c, "stop")
    /\ Agent(c) \in agents
    /\ AfterInternal(c)
    /\ UNCHANGED <<ids, presets, presetLock, spec, runtime, file, calls>>

StopAgentFails(c) ==
    /\ At(c, "stop")
    /\ Agent(c) \in agents
    /\ IF call[c].op = "remove_preset" THEN Goto(c, "remove_next") ELSE Return(c)
    /\ UNCHANGED <<ids, presets, presetLock, spec, runtime, file, calls>>

(* ... then the table entries from and to the agent ... *)
DropConns(c) ==
    /\ At(c, "drop_conns")
    /\ connections' = connections \ Touching({Agent(c)})
    /\ Goto(c, "drop_agent")
    /\ UNCHANGED <<ids, presets, presetLock, spec, agents, presetOf, file, calls>>

(* ... then the instance.                                                  *)
DropAgent(c) ==
    /\ At(c, "drop_agent")
    /\ agents' = agents \ {Agent(c)}
    /\ AfterInternal(c)
    /\ UNCHANGED <<ids, presets, presetLock, spec, presetOf, connections, file, calls>>

(* remove_agent: the spec's agent goes last, its connections stay.         *)
RemoveSpec(c) ==
    /\ At(c, "remove_spec")
    /\ Preset(c) \notin presetLock
    /\ specAgents' = [specAgents EXCEPT ![Preset(c)] = @ \ {Agent(c)}]
    /\ Return(c)
    /\ UNCHANGED <<ids, presets, presetLock, specConns, runtime, file, calls>>

(* ... then the connections of the spec, then the lock is dropped ...      *)
RemoveUnlock(c) ==
    /\ At(c, "remove_next")
    /\ call[c].ids = {}
    /\ connections' = connections \ Range(specConns[Preset(c)])
    /\ presetLock' = presetLock \ {Preset(c)}
    /\ Goto(c, "remove_map")
    /\ UNCHANGED <<ids, presets, spec, agents, presetOf, file, calls>>

(* ... and the preset leaves the map.                                      *)
RemoveMap(c) ==
    /\ At(c, "remove_map")
    /\ presets' = presets \ {Preset(c)}
    /\ Return(c)
    /\ UNCHANGED <<ids, presetLock, spec, runtime, file, calls>>

-----------------------------------------------------------------------------
Build(c) ==
    \/ \E p \in PresetIds, s \in {EmptySpec, file} :
         \E f \in NewIds(s.agents) : \E built \in SUBSET Range(f) : AddPreset(c, p, s, f, built)
    \/ \E f \in NewIds(call[c].ids) : \E built \in SUBSET Range(f) : BatchAgents(c, f, built)

BeginCall(c) ==
    \E p \in PresetIds :
        \/ SaveSnapshot(c, p)
        \/ BeginIn(c, "remove_preset", p, "remove_lock", NoAgent, NoConn)
        \/ BeginIn(c, "add_agent", p, "add_agent_build", NoAgent, NoConn)
        \/ \E a \in Shown(p) : BeginIn(c, "remove_agent", p, "stop", a, NoConn)
        \/ \E cn \in Shown(p) \X Shown(p) : AddConnCheck(c, p, cn)
        \/ \E cn \in Range(specConns[p]) :
             BeginIn(c, "remove_connection", p, "remove_conn", NoAgent, cn)
        \/ \E as \in SUBSET Shown(p), conns \in BoundedSeq(Shown(p) \X Shown(p), MaxConns) :
             BeginBatch(c, p, as, conns)

CallStep(c) ==
    \/ AddPresetInsert(c) \/ SaveWrite(c)
    \/ AddAgentBuild(c) \/ AddAgentSpec(c)
    \/ AddConnLookup(c) \/ AddConn(c) \/ RemoveConn(c)
    \/ BatchConns(c) \/ BatchDone(c) \/ RollbackConn(c) \/ RollbackAgents(c)
    \/ RemoveLock(c) \/ (\E a \in AgentIds : RemoveNext(c, a))
    \/ StopAgent(c) \/ StopAgentFails(c) \/ DropConns(c) \/ DropAgent(c)
    \/ RemoveSpec(c) \/ RemoveUnlock(c) \/ RemoveMap(c)

(* A remove_preset has been through the agents of preset p. *)
Overtaken(p) ==
    p \notin presets \/ \E c \in Callers : At(c, "remove_map") /\ Preset(c) = p

(* History: the agents that a step of caller c leaves where no removal of  *)
(* their preset reaches them.  add_agent and a batch looked the preset up  *)
(* before its removal and add to it after; remove_preset logs the failed   *)
(* stop of an agent and passes over it.                                    *)
Escaping(c) ==
    {a \in AgentIds :
        \/ At(c, "add_agent_spec") /\ a = Agent(c) /\ Overtaken(Preset(c))
        \/ At(c, "batch_agents") /\ a \in agents' \ agents /\ Overtaken(Preset(c))
        \/ At(c, "stop") /\ At(c, "remove_next")' /\ a = Agent(c) /\ a \in agents}

Next ==
    \/ Restart
    \/ \E c \in Callers :
         /\ Build(c) \/ BeginCall(c) \/ CallStep(c)
         /\ missed' = missed \cup Escaping(c)

Spec == Init /\ [][Next]_vars

-----------------------------------------------------------------------------
(* Types of all variables. *)
TypeOK ==
    /\ usedPresets \subseteq PresetIds /\ presets \subseteq usedPresets
    /\ presetLock \subseteq usedPresets
    /\ usedAgents \subseteq AgentIds /\ agents \subseteq usedAgents
    /\ specAgents \in [PresetIds -> SUBSET AgentIds]
    /\ specConns \in [PresetIds -> Seq(Conn)]
    /\ presetOf \in [AgentIds -> PresetIds \cup {NoPreset}]
    /\ connections \subseteq Conn /\ strays \subseteq Conn /\ missed \subseteq AgentIds
    /\ file \in [agents : SUBSET AgentIds, conns : Seq(Conn)]
    /\ call \in [Callers -> Call]
    /\ calls \in Nat

(* Ids in use have been handed out, and an agent that remove_agent is      *)
(* about to take out of the spec has no instance any more.                 *)
IdsInUse ==
    /\ \A a \in agents : presetOf[a] \in usedPresets
    /\ \A p \in PresetIds : specAgents[p] \subseteq usedAgents
    /\ \A c \in Callers :
         /\ At(c, "idle") \/ Preset(c) \in usedPresets
         /\ Agent(c) \in usedAgents \cup {NoAgent}
         /\ call[c].ids \subseteq usedAgents
         /\ At(c, "add_agent_spec") => Agent(c) \in usedAgents
         /\ At(c, "remove_spec") => Agent(c) \notin agents
         /\ At(c, "add_conn_lookup") \/ At(c, "add_conn") => call[c].conn \in Conn

Quiescent == \A c \in Callers : At(c, "idle")

(* Every agent instance is in the spec of a preset that is in the presets  *)
(* map, or about to enter it, so that whatever is done to the agents of    *)
(* the preset (stop, remove, save) reaches it; or its add_agent waits for  *)
(* the preset lock.  The exceptions are the instances a remove_preset has  *)
(* missed, by the ways Escaping names: they stay for the rest of the       *)
(* process, and no call about their preset finds them.                     *)
AgentKnownToPreset ==
    \A a \in agents \ missed :
        LET p == presetOf[a] IN
        \/ /\ a \in specAgents[p]
           /\ p \in presets \/ \E c \in Callers : At(c, "add_preset_insert") /\ Preset(c) = p
        \/ \E c \in Callers : At(c, "add_agent_spec") /\ Agent(c) = a /\ Preset(c) = p

BeingRemoved(p, cn) ==
    \E c \in Callers :
        \/ At(c, "drop_agent") /\ cn \in Touching({Agent(c)})
        \/ At(c, "remove_map") /\ Preset(c) = p

(* A connection that a preset shows is in the routing table, so messages   *)
(* take it, as long as both its agents exist and no removal of one of them *)
(* or of the preset is under way: no failed, repeated or overlapping call  *)
(* about other connections disconnects it.  Strays are excepted: with an   *)
(* id or an entry shared, one is removed with another.                     *)
SpecConnectionRouted ==
    \A p \in presets : \A cn \in Range(specConns[p]) :
        (/\ cn[1] \in agents /\ cn[2] \in agents
         /\ cn \notin strays /\ ~BeingRemoved(p, cn)) => cn \in connections

(* A batch that returns has added everything or nothing: after a failure   *)
(* neither the spec nor the runtime maps have anything of it (a stray may  *)
(* carry the id of one of its agents, which it did not add).               *)
BatchAllOrNothing ==
    [][\A c \in Callers :
        (call[c].op = "add_batch" /\ At(c, "idle")' /\ usedPresets' # {}) =>
        LET shown == specAgents'[Preset(c)]
            conns == Range(specConns'[Preset(c)])
        IN /\ At(c, "batch_conns") => /\ call[c].ids \subseteq shown \cap agents'
                                     /\ Range(call[c].conns) \subseteq conns
           /\ At(c, "batch_rollback") =>
                /\ call[c].ids \cap (shown \cup agents') = {}
                /\ (conns \cup connections') \cap Touching(call[c].ids) \subseteq strays]_vars
=============================================================================
