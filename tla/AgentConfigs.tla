---------------------------- MODULE AgentConfigs ----------------------------
(***************************************************************************)
(* The configs of agents and everyone who writes them: the MCP tools       *)
(* set_agent_configs, update_agent_spec and add_agent, connections to      *)
(* "config:" ports, presets opened from old files, and the agents' own     *)
(* rebuilding of generated configs.  What is written to a running agent    *)
(* goes through its mailbox; a tool that merges reads the configs first    *)
(* and writes all of them later.                                           *)
(*                                                                         *)
(* All agents have one definition: `n` and the keys of Declared, a global  *)
(* config, and a key for every number up to n, which is generated.         *)
(***************************************************************************)
EXTENDS Naturals, Sequences, SequencesExt

CONSTANTS
    Agents,      \* agent ids
    Clients,     \* MCP sessions
    Declared,    \* config key -> default, of the definition; "n" is one
    Generated,   \* value of n -> the keys the agent generates for it
    GlobalKeys,  \* keys of the definition's global_configs
    Parked,      \* key -> the key with `_` that reconcile_spec parks it under
    Routed,      \* keys of the "config:" ports that connections lead to, declared or not
    OldSpecs,    \* configs in files written for an older definition
    Patches,     \* configs that clients ask for
    CfgMailCap,  \* MESSAGE_LIMIT
    MaxEdits     \* bound: calls of clients, starts, stops and routed configs

Default == ""    \* the value of a generated config nobody has set

NumberedKeys == UNION {Generated[n] : n \in DOMAIN Generated}
ParkedKeys == {Parked[k] : k \in DOMAIN Parked}

(* The number is declared and has a value that keys are generated for, in  *)
(* the definition and in whatever is asked for.  Keys of one sort are of   *)
(* no other, and those that a definition may meet can be parked.           *)
ASSUME AgentConfigsAssumption ==
    /\ Agents # {}
    /\ Declared = [k \in DOMAIN Declared |-> Declared[k]]
    /\ "n" \in DOMAIN Declared /\ Declared["n"] \in DOMAIN Generated
    /\ \A cfg \in Patches \cup OldSpecs : "n" \in DOMAIN cfg => cfg["n"] \in DOMAIN Generated
    /\ \A cfg \in OldSpecs : DOMAIN cfg \subseteq DOMAIN Declared \cup DOMAIN Parked \cup ParkedKeys
    /\ DOMAIN Declared \cap NumberedKeys = {}
    /\ ParkedKeys \cap (DOMAIN Declared \cup NumberedKeys) = {}
    /\ CfgMailCap \in Nat \ {0} /\ MaxEdits \in Nat

VARIABLES
    created,     \* ids ever given to agents
    alive,       \* agents in the agents map
    running,     \* those reached through a mailbox
    configs,     \* agent -> its configs: function from keys
    queue,       \* agent -> config messages in its mailbox
    leftover,    \* agent -> those its stopped loops have yet to apply, loop by loop
    client,      \* client -> where its call is
    rejected,    \* agents whose add_agent answered with an error
    written,     \* history: agent -> key -> last value asked for
    raced,       \* history: agent -> keys an overlapping write may have undone
    strays,      \* history: agent -> keys routed to it that are not its definition's
    edits

agentVars == <<created, alive, running, configs, queue, leftover>>
cfgVars == <<agentVars, client, rejected, written, raced, strays, edits>>

NoConfigs == [k \in {} |-> Default]
IdleClient == [pc |-> "idle", agent |-> CHOOSE a \in Agents : TRUE, patch |-> NoConfigs, configs |-> NoConfigs]
Calls(pc, a, patch, cfg) == [pc |-> pc, agent |-> a, patch |-> patch, configs |-> cfg]

-----------------------------------------------------------------------------
(* The definition and the agent *)

OnlyKeys(cfg, keys) == [k \in DOMAIN cfg \cap keys |-> cfg[k]]

(* The configs `old`, with those of `new` set. *)
Over(new, old) ==
    [k \in DOMAIN new \cup DOMAIN old |-> IF k \in DOMAIN new THEN new[k] ELSE old[k]]

(* reconcile_spec: keys the definition does not know are parked, missing   *)
(* ones get their default.                                                 *)
Reconcile(cfg) ==
    LET known == DOMAIN Declared \cup ParkedKeys
        stale == {k \in DOMAIN cfg : k \notin known} IN
    Over([p \in {Parked[k] : k \in stale} |-> cfg[CHOOSE k \in stale : Parked[k] = p]],
         Over(OnlyKeys(cfg, known), Declared))

(* Variant: parked keys stay with the agent. *)
WithoutParkedNot(cfg) == cfg

(* AgentData::new *)
WithoutParked(cfg) == OnlyKeys(cfg, DOMAIN cfg \ ParkedKeys)

(* configs_changed of an agent that generates configs from `n`: it keeps   *)
(* the values it has, adds what is missing and drops what is too much.     *)
Rebuild(cfg) ==
    LET keys == (DOMAIN cfg \ NumberedKeys) \cup Generated[cfg["n"]] IN
    [k \in keys |-> IF k \in DOMAIN cfg THEN cfg[k] ELSE Default]

(* agent_new and AsAgent::new. *)
Construct(cfg) == WithoutParked(Rebuild(Reconcile(cfg)))

(* validate_config_keys against the live spec. *)
ValidKeys(a, patch) ==
    \A k \in DOMAIN patch : k \notin GlobalKeys /\ k \in DOMAIN configs[a] /\ k \notin ParkedKeys

CfgInit ==
    /\ created = {} /\ alive = {} /\ running = {}
    /\ configs = [a \in Agents |-> NoConfigs]
    /\ queue = [a \in Agents |-> <<>>] /\ leftover = [a \in Agents |-> <<>>]
    /\ client = [c \in Clients |-> IdleClient]
    /\ rejected = {}
    /\ written = [a \in Agents |-> Declared]
    /\ raced = [a \in Agents |-> {}]
    /\ strays = [a \in Agents |-> {}]
    /\ edits = 0

Edit == edits < MaxEdits /\ edits' = edits + 1

-----------------------------------------------------------------------------
(* Writing configs *)

(* A message replaces all configs (Configs), or sets one (Config).         *)
AllConfigs(cfg) == [kind |-> "Configs", configs |-> cfg]
OneConfig(k, v) == [kind |-> "Config", configs |-> [key \in {k} |-> v]]

(* No message waits for the agent's loops. *)
Settled(a) == queue[a] = <<>> /\ leftover[a] = <<>>

(* set_configs, set_config; both call configs_changed. *)
Applied(a, m) == Rebuild(IF m.kind = "Configs" THEN m.configs ELSE Over(m.configs, configs[a]))

(* set_agent_configs and agent_input: through the mailbox of an agent that *)
(* runs, directly otherwise.  A write that waited for room when the agent  *)
(* was stopped is left to the stopped loop.                                *)
Put(a, m) ==
    \/ /\ a \in running /\ Len(queue[a]) < CfgMailCap
       /\ queue' = [queue EXCEPT ![a] = Append(@, m)]
       /\ UNCHANGED <<configs, leftover>>
    \/ /\ a \notin running
       /\ configs' = [configs EXCEPT ![a] = Applied(a, m)]
       /\ UNCHANGED <<queue, leftover>>
    \/ /\ leftover[a] # <<>>
       /\ leftover' = [leftover EXCEPT ![a][Len(leftover[a])] = Append(@, m)]
       /\ UNCHANGED <<configs, queue>>

(* History of a write of `patch` that carries the other values `rest`      *)
(* along: a key of `rest` whose value is not the last one written is       *)
(* undone; and so is, later on, what overtakes a leftover of a stopped     *)
(* loop.                                                                   *)
Wrote(a, patch, rest) ==
    LET undone == {k \in DOMAIN rest \ DOMAIN patch : k \in DOMAIN written[a] /\ rest[k] # written[a][k]} IN
    /\ written' = [written EXCEPT ![a] = Over(OnlyKeys(patch, DOMAIN Declared), @)]
    /\ raced' = [raced EXCEPT ![a] =
          ((@ \ DOMAIN patch) \cup undone) \cup (IF leftover[a] # <<>> THEN DOMAIN Declared ELSE {})]

(* set_agent_configs of the MCP server reads and merges... *)
SetRead(c, a, patch) ==
    /\ Edit /\ client[c].pc = "idle"
    /\ a \in alive /\ ValidKeys(a, patch)
    /\ client' = [client EXCEPT ![c] = Calls("set", a, patch, Over(patch, configs[a]))]
    /\ UNCHANGED <<agentVars, rejected, written, raced, strays>>

(* ... and writes the result; the agent may have been removed meanwhile.   *)
SetWrite(c) ==
    LET a == client[c].agent IN
    /\ client[c].pc = "set"
    /\ client' = [client EXCEPT ![c] = IdleClient]
    /\ \/ a \notin alive /\ UNCHANGED <<configs, queue, leftover, written, raced>>
       \/ /\ a \in alive
          /\ Put(a, AllConfigs(client[c].configs))
          /\ Wrote(a, client[c].patch, client[c].configs)
    /\ UNCHANGED <<created, alive, running, rejected, strays, edits>>

(* update_agent_spec of the MCP server validates against what it reads...  *)
UpdateRead(c, a, patch) ==
    /\ Edit /\ client[c].pc = "idle"
    /\ a \in alive /\ ValidKeys(a, patch)
    /\ client' = [client EXCEPT ![c] = Calls("update", a, patch, NoConfigs)]
    /\ UNCHANGED <<agentVars, rejected, written, raced, strays>>

(* Variant: the patch replaces the configs, and the agent rebuilds them. *)
UpdatedReplaced(cfg, patch) == Rebuild(Over(patch, Declared))

(* AgentSpec::update merges the patch; update_spec then calls              *)
(* configs_changed.                                                        *)
Updated(cfg, patch) == Rebuild(Over(patch, cfg))

(* ... and merges under the agent's lock, past the mailbox.                *)
UpdateWrite(c) ==
    LET a == client[c].agent
        patch == client[c].patch IN
    /\ client[c].pc = "update"
    /\ client' = [client EXCEPT ![c] = IdleClient]
    /\ \/ a \notin alive /\ UNCHANGED <<configs, written, raced>>
       \/ /\ a \in alive
          /\ configs' = [configs EXCEPT ![a] = Updated(@, patch)]
          /\ written' = [written EXCEPT ![a] = Over(OnlyKeys(patch, DOMAIN Declared), @)]
          /\ raced' = [raced EXCEPT ![a] =
                (@ \ DOMAIN patch) \cup (IF Settled(a) THEN {} ELSE DOMAIN Declared)]
    /\ UNCHANGED <<created, alive, running, queue, leftover, rejected, strays, edits>>

(* A value arrives at a "config:" port.  Neither add_connection nor         *)
(* set_config looks whether the agent has such a config.                   *)
RouteConfig(a, k, v) ==
    /\ Edit
    /\ a \in alive
    /\ strays' = [strays EXCEPT ![a] = @ \cup ({k} \ (DOMAIN Declared \cup NumberedKeys))]
    /\ Put(a, OneConfig(k, v))
    /\ Wrote(a, OneConfig(k, v).configs, NoConfigs)
    /\ UNCHANGED <<created, alive, running, client, rejected>>

(* The agent's loop takes a message. *)
Receive(a) ==
    /\ a \in running /\ queue[a] # <<>>
    /\ configs' = [configs EXCEPT ![a] = Applied(a, Head(queue[a]))]
    /\ queue' = [queue EXCEPT ![a] = Tail(@)]
    /\ UNCHANGED <<created, alive, running, leftover, client, rejected, written, raced, strays, edits>>

(* A loop that outlives the stop of its agent takes its next message, and  *)
(* ends behind the last one.                                               *)
ReceiveLeftover(a, i) ==
    LET loops == leftover[a] IN
    /\ configs' = [configs EXCEPT ![a] = Applied(a, Head(loops[i]))]
    /\ leftover' = [leftover EXCEPT ![a] = IF Len(loops[i]) = 1 THEN RemoveAt(loops, i)
                                            ELSE [loops EXCEPT ![i] = Tail(loops[i])]]
    /\ UNCHANGED <<created, alive, running, queue, client, rejected, written, raced, strays, edits>>

-----------------------------------------------------------------------------
(* Adding, opening and removing agents *)

(* add_agent of the MCP server: what the definition declares goes into the *)
(* spec, the rest waits until the agent exists.                            *)
AddAgent(c, a, patch) ==
    LET deferred == OnlyKeys(patch, DOMAIN patch \ DOMAIN Declared) IN
    /\ Edit /\ client[c].pc = "idle"
    /\ a \notin created /\ DOMAIN patch \cap GlobalKeys = {}
    /\ created' = created \cup {a} /\ alive' = alive \cup {a}
    /\ configs' = [configs EXCEPT ![a] = Construct(Over(OnlyKeys(patch, DOMAIN Declared), Declared))]
    /\ written' = [written EXCEPT ![a] = Over(OnlyKeys(patch, DOMAIN Declared), @)]
    /\ client' = [client EXCEPT ![c] =
          IF deferred = NoConfigs THEN IdleClient ELSE Calls("check", a, deferred, NoConfigs)]
    /\ UNCHANGED <<running, queue, leftover, rejected, raced, strays>>

(* What it deferred is validated against the agent it made.  It is merged  *)
(* and set, or the agent is removed again.                                 *)
AddCheck(c) ==
    LET a == client[c].agent
        valid == a \in alive /\ ValidKeys(a, client[c].patch) IN
    /\ client[c].pc = "check"
    /\ client' = [client EXCEPT ![c] =
          IF valid THEN Calls("set", a, @.patch, Over(@.patch, configs[a]))
          ELSE Calls("rollback", a, NoConfigs, NoConfigs)]
    /\ UNCHANGED <<agentVars, rejected, written, raced, strays, edits>>

Removed(a) ==
    /\ alive' = alive \ {a} /\ running' = running \ {a}
    /\ queue' = [queue EXCEPT ![a] = <<>>] /\ leftover' = [leftover EXCEPT ![a] = <<>>]

(* stop_agent: configs still in the mailbox are applied later on. *)
Stopped(a) ==
    /\ running' = running \ {a}
    /\ leftover' = [leftover EXCEPT ![a] = IF queue[a] = <<>> THEN @ ELSE Append(@, queue[a])]
    /\ queue' = [queue EXCEPT ![a] = <<>>]

(* The removal may fail, because the stop of an agent that was started     *)
(* meanwhile does; the answer then says that the agent remains.            *)
AddRollback(c) ==
    LET a == client[c].agent IN
    /\ client[c].pc = "rollback"
    /\ client' = [client EXCEPT ![c] = IdleClient]
    /\ \/ Removed(a) /\ rejected' = rejected \cup {a}
       \/ a \in running /\ Stopped(a) /\ UNCHANGED <<alive, rejected>>
    /\ UNCHANGED <<created, configs, written, raced, strays, edits>>

(* A preset file of an older version is opened. *)
OpenOld(a, cfg) ==
    /\ Edit
    /\ a \notin created
    /\ created' = created \cup {a} /\ alive' = alive \cup {a}
    /\ configs' = [configs EXCEPT ![a] = Construct(cfg)]
    /\ written' = [written EXCEPT ![a] = Over(OnlyKeys(cfg, DOMAIN Declared), @)]
    /\ UNCHANGED <<running, queue, leftover, client, rejected, raced, strays>>

RemoveAgent(a) ==
    /\ Edit
    /\ a \in alive /\ Removed(a)
    /\ UNCHANGED <<created, configs, client, rejected, written, raced, strays>>

Start(a) ==
    /\ Edit
    /\ a \in alive \ running
    /\ running' = running \cup {a}
    /\ UNCHANGED <<created, alive, configs, queue, leftover, client, rejected, written, raced, strays>>

Stop(a) ==
    /\ Edit
    /\ a \in running /\ Stopped(a)
    /\ UNCHANGED <<created, alive, configs, client, rejected, written, raced, strays>>

RoutedValues(k) == IF k = "n" THEN DOMAIN Generated ELSE {"routed"}

CfgNext ==
    \/ \E c \in Clients : SetWrite(c) \/ UpdateWrite(c) \/ AddCheck(c) \/ AddRollback(c)
    \/ \E c \in Clients, a \in Agents, p \in Patches :
          SetRead(c, a, p) \/ UpdateRead(c, a, p) \/ AddAgent(c, a, p)
    \/ \E a \in Agents : Receive(a) \/ RemoveAgent(a) \/ Start(a) \/ Stop(a)
    \/ \E a \in Agents : \E i \in DOMAIN leftover[a] : ReceiveLeftover(a, i)
    \/ \E a \in Agents, k \in Routed : \E v \in RoutedValues(k) : RouteConfig(a, k, v)
    \/ \E a \in Agents, cfg \in OldSpecs : OpenOld(a, cfg)

CfgSpec == CfgInit /\ [][CfgNext]_cfgVars

-----------------------------------------------------------------------------
(* Once an agent's mailbox is empty, each declared config has the value    *)
(* that was asked for last, unless a merge read it before that write and   *)
(* wrote it back after, or the write overtook messages left to a stopped   *)
(* loop or, by update_agent_spec, those in the mailbox.  These are the     *)
(* only ways to lose an update.                                            *)
ValueIsLastWritten ==
    \A a \in alive : Settled(a) =>
        \A k \in DOMAIN Declared \ raced[a] : configs[a][k] = written[a][k]

(* But for the keys that "config:" ports brought it, an agent has exactly  *)
(* the configs of its definition and those its number stands for: no       *)
(* global config, no parked key, none that a merge from before a change of *)
(* `n` brings back; and an add_agent that answers with an error leaves no  *)
(* agent behind, unless it says so.                                        *)
OnlyValidAgents ==
    /\ \A a \in alive : DOMAIN configs[a] \ strays[a] = DOMAIN Declared \cup Generated[configs[a]["n"]]
    /\ rejected \cap alive = {}
=============================================================================
