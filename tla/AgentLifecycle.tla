--------------------------- MODULE AgentLifecycle ---------------------------
(***************************************************************************)
(* The life of the agents of one preset: ModularAgent::start_agent and     *)
(* stop_agent, the agent loop start_agent spawns, Preset::start and        *)
(* Preset::stop, the cancellation tokens that tie them together, and the   *)
(* mailbox each loop reads (agent_input is its writer).                    *)
(*                                                                         *)
(* Everything runs on a multi-threaded executor, so a step of the model is *)
(* one critical section of the code: one std mutex section, one use of the *)
(* agent's tokio mutex, one branch of a select!.  Calls of the API are     *)
(* concurrent tasks (Callers); each spawned loop is an incarnation, named  *)
(* by its generation.                                                      *)
(***************************************************************************)
EXTENDS Naturals, Sequences, FiniteSets

CONSTANTS
    SpecAgents,  \* the agents of the preset's spec, in spec order
    Disabled,    \* those whose spec says disabled
    Callers,     \* tasks that call the API
    Senders,     \* tasks that run agent_input (the message loop is one)
    Ops,         \* the operations the callers use
    Cap,         \* capacity of a mailbox (MESSAGE_LIMIT in the code)
    MaxGen,      \* bound: loops ever spawned
    MaxCalls,    \* bound: API calls ever made
    MaxSends     \* bound: messages ever sent

AllOps == {"start_agent", "stop_agent", "start_preset", "stop_preset"}

Agents == {SpecAgents[i] : i \in DOMAIN SpecAgents}

(* Initial value of agent fields that no step reads before setting them. *)
AnyAgent == CHOOSE a \in Agents : TRUE

ASSUME LifecycleAssumption ==
    /\ Agents # {}
    /\ SpecAgents \in Seq(Agents)
    /\ Disabled \subseteq Agents
    /\ Ops \subseteq AllOps
    /\ Cap \in Nat \ {0}
    /\ MaxGen \in Nat /\ MaxCalls \in Nat /\ MaxSends \in Nat

VARIABLES
    presetLock,    \* holder of the preset's async mutex: a set of callers, at most one
    running,       \* Preset::running
    preset_tokens, \* the preset's entry in preset_tokens: a token id, 0 for no entry
    presetSeq,     \* the last preset token id handed out
    firedPreset,   \* preset tokens that have been cancelled
    agent_txs,     \* agent -> generation of the mailbox it is reached by, 0 for none
    agent_tokens,  \* agent -> [gen, token], or NoSlot
    firedAgent,    \* agent tokens cancelled themselves (not through their parent)
    status,        \* agent -> AgentStatus
    locked,        \* agent -> its async mutex is held
    nextGen,       \* the generation the next loop gets
    loop,          \* generation -> the state of that agent loop
    mailbox,       \* generation -> the messages in its mpsc channel
    call,          \* caller -> where its API call is
    calls,         \* number of API calls made
    sender,        \* sender -> the send it is in
    sends          \* number of messages sent

presetVars == <<presetLock, running, preset_tokens, presetSeq, firedPreset>>
tokenVars == <<agent_tokens, firedAgent>>
agentVars == <<status, locked>>
loopVars == <<nextGen, loop, mailbox>>
sendVars == <<sender, sends>>
callVars == <<call, calls>>
vars == <<presetVars, agent_txs, tokenVars, agentVars, loopVars, callVars, sendVars>>

-----------------------------------------------------------------------------
(* Types and null values *)

Gen == 1 .. MaxGen

(* A child token: its parent, the loop it was made for, and the number of  *)
(* times that loop had renewed its token before.                           *)
Token == [parent : Nat, gen : Nat, ver : Nat]
NoToken == [parent |-> 0, gen |-> 0, ver |-> 0]

Slot == [gen : Nat, token : Token]
NoSlot == [gen |-> 0, token |-> NoToken]

Status == {"Init", "Start", "Stop"}
Message == {"Input", "Config", "Stop"}

LoopPc == {"none", "want_start", "poll_start", "starting", "recv",
           "want_process", "poll_process", "processing", "config",
           "renew", "renew_slot", "done"}
Loop == [pc : LoopPc, agent : Agents, token : Token, parent : Nat]

StartPc == {"read_status", "insert_tx", "preset_token", "install_token"}
StopPc == {"take_tx", "take_token", "cancel", "stop_lock", "stopping"}
CallPc == {"idle", "next"} \cup StartPc \cup StopPc
Call == [pc : CallPc, op : AllOps, todo : Seq(Agents), agent : Agents,
         gen : Nat, parent : Nat, token : Token]
IdleCall == [pc |-> "idle", op |-> "start_agent", todo |-> <<>>, agent |-> AnyAgent,
             gen |-> 0, parent |-> 0, token |-> NoToken]

SendPc == {"idle", "push", "direct"}
Send == [pc : SendPc, agent : Agents, gen : Nat, msg : Message]
IdleSend == [pc |-> "idle", agent |-> AnyAgent, gen |-> 0, msg |-> "Input"]

Live(g) == loop[g].pc \notin {"none", "done"}

(* CancellationToken semantics: a child is fired when it was cancelled or  *)
(* when its parent was, before or after its creation.                      *)
Fired(t) == t \in firedAgent \/ t.parent \in firedPreset

(* The mailbox g still has a sender: the registry's, or a clone held by a  *)
(* send in progress.                                                       *)
HasSender(g) ==
    \/ \E a \in Agents : agent_txs[a] = g
    \/ \E s \in Senders : sender[s].pc = "push" /\ sender[s].gen = g

-----------------------------------------------------------------------------
Init ==
    /\ presetLock = {}
    /\ running = FALSE
    /\ preset_tokens = 0
    /\ presetSeq = 0
    /\ firedPreset = {}
    /\ agent_txs = [a \in Agents |-> 0]
    /\ agent_tokens = [a \in Agents |-> NoSlot]
    /\ firedAgent = {}
    /\ status = [a \in Agents |-> "Init"]
    /\ locked = [a \in Agents |-> FALSE]
    /\ nextGen = 1
    /\ loop = [g \in Gen |-> [pc |-> "none", agent |-> AnyAgent,
                              token |-> NoToken, parent |-> 0]]
    /\ call = [c \in Callers |-> IdleCall]
    /\ sender = [s \in Senders |-> IdleSend]
    /\ mailbox = [g \in Gen |-> <<>>]
    /\ calls = 0
    /\ sends = 0

-----------------------------------------------------------------------------
(* API calls.  InPreset: the call is Preset::start or Preset::stop, which  *)
(* runs start_agent or stop_agent for its agents one after another and     *)
(* holds the preset lock meanwhile.                                        *)

InPreset(c) == call[c].op \in {"start_preset", "stop_preset"}

Goto(c, pc) == call' = [call EXCEPT ![c].pc = pc]

(* start_agent or stop_agent returns: to the loop of Preset::start or      *)
(* Preset::stop, or to the caller.                                         *)
AgentOpReturns(c) ==
    call' = [call EXCEPT ![c] =
                IF InPreset(c) THEN [IdleCall EXCEPT !.pc = "next", !.op = call[c].op,
                                                     !.todo = call[c].todo]
                ELSE IdleCall]

CallAgentOp(c, op, a) ==
    /\ call[c].pc = "idle"
    /\ calls < MaxCalls
    /\ op \in Ops \cap {"start_agent", "stop_agent"}
    /\ calls' = calls + 1
    /\ call' = [call EXCEPT ![c].op = op, ![c].agent = a, ![c].todo = <<>>,
                            ![c].pc = IF op = "start_agent" THEN "read_status"
                                                            ELSE "take_tx"]
    /\ UNCHANGED <<presetVars, agent_txs, tokenVars, agentVars, loopVars, sendVars>>

(* Preset::start up to its loop over the agents: a running preset returns  *)
(* at once; otherwise reset_preset_token installs a fresh parent token.    *)
StartPreset(c) ==
    /\ call[c].pc = "idle"
    /\ calls < MaxCalls
    /\ "start_preset" \in Ops
    /\ presetLock = {}
    /\ calls' = calls + 1
    /\ \/ /\ running
          /\ UNCHANGED <<presetVars, call>>
       \/ /\ ~running
          /\ running' = TRUE
          /\ presetLock' = {c}
          /\ presetSeq' = presetSeq + 1
          /\ preset_tokens' = presetSeq + 1
          /\ call' = [call EXCEPT ![c].pc = "next", ![c].op = "start_preset",
                                  ![c].todo = SpecAgents]
          /\ UNCHANGED firedPreset
    /\ UNCHANGED <<agent_txs, tokenVars, agentVars, loopVars, sendVars>>

(* Preset::stop up to its loop: cancel_preset_token fires the parent token *)
(* and leaves the entry in place.                                          *)
StopPreset(c) ==
    /\ call[c].pc = "idle"
    /\ calls < MaxCalls
    /\ "stop_preset" \in Ops
    /\ presetLock = {}
    /\ calls' = calls + 1
    /\ presetLock' = {c}
    /\ firedPreset' = firedPreset \cup ({preset_tokens} \ {0})
    /\ call' = [call EXCEPT ![c].pc = "next", ![c].op = "stop_preset",
                            ![c].todo = SpecAgents]
    /\ UNCHANGED <<running, preset_tokens, presetSeq, agent_txs, tokenVars,
                   agentVars, loopVars, sendVars>>

(* The loop of Preset::start or Preset::stop takes its next agent; start   *)
(* passes over a disabled one.                                             *)
NextAgent(c) ==
    /\ call[c].pc = "next"
    /\ call[c].todo # <<>>
    /\ LET a == Head(call[c].todo)
       IN call' = [call EXCEPT
              ![c].todo = Tail(@), ![c].agent = a,
              ![c].pc = IF call[c].op = "stop_preset" THEN "take_tx"
                        ELSE IF a \in Disabled THEN "next" ELSE "read_status"]
    /\ UNCHANGED <<presetVars, agent_txs, tokenVars, agentVars, loopVars, calls, sendVars>>

(* Preset::start returns; Preset::stop drops the fired parent token        *)
(* (remove_preset_token) and clears running first.                         *)
FinishPreset(c) ==
    /\ call[c].pc = "next"
    /\ call[c].todo = <<>>
    /\ presetLock' = {}
    /\ IF call[c].op = "stop_preset"
       THEN preset_tokens' = 0 /\ running' = FALSE
       ELSE UNCHANGED <<preset_tokens, running>>
    /\ call' = [call EXCEPT ![c] = IdleCall]
    /\ UNCHANGED <<presetSeq, firedPreset, agent_txs, tokenVars, agentVars,
                   loopVars, calls, sendVars>>

-----------------------------------------------------------------------------
(* start_agent *)

(* The status is read under the agent's lock; an agent that is not in Init *)
(* is left alone.                                                          *)
ReadStatus(c) ==
    /\ call[c].pc = "read_status"
    /\ ~locked[call[c].agent]
    /\ IF status[call[c].agent] = "Init" THEN Goto(c, "insert_tx") ELSE AgentOpReturns(c)
    /\ UNCHANGED <<presetVars, agent_txs, tokenVars, agentVars, loopVars, calls, sendVars>>

(* A new channel replaces whatever sender agent_txs held. *)
InsertTx(c) ==
    /\ call[c].pc = "insert_tx"
    /\ nextGen <= MaxGen
    /\ agent_txs' = [agent_txs EXCEPT ![call[c].agent] = nextGen]
    /\ nextGen' = nextGen + 1
    /\ call' = [call EXCEPT ![c].gen = nextGen, ![c].pc = "preset_token"]
    /\ UNCHANGED <<presetVars, tokenVars, agentVars, loop, mailbox, calls, sendVars>>

(* preset_token: the parent token, created if the preset has no entry. *)
PresetToken(c) ==
    /\ call[c].pc = "preset_token"
    /\ IF preset_tokens # 0
       THEN UNCHANGED <<preset_tokens, presetSeq>>
       ELSE preset_tokens' = presetSeq + 1 /\ presetSeq' = presetSeq + 1
    /\ call' = [call EXCEPT ![c].parent = preset_tokens', ![c].pc = "install_token"]
    /\ UNCHANGED <<presetLock, running, firedPreset, agent_txs, tokenVars,
                   agentVars, loopVars, calls, sendVars>>

(* Variant: the token is a new root, not a child of the preset's token. *)
InstallRootToken(c) ==
    /\ call[c].pc = "install_token"
    /\ LET g == call[c].gen
           a == call[c].agent
           t == [parent |-> 0, gen |-> g, ver |-> 0]
       IN /\ agent_tokens' = [agent_tokens EXCEPT ![a] = [gen |-> g, token |-> t]]
          /\ loop' = [loop EXCEPT ![g] = [pc |-> "want_start", agent |-> a,
                                          token |-> t, parent |-> 0]]
    /\ AgentOpReturns(c)
    /\ UNCHANGED <<presetVars, agent_txs, firedAgent, agentVars, nextGen,
                   mailbox, calls, sendVars>>

(* The rest of create_agent_token, and the spawn of the loop. *)
InstallToken(c) ==
    /\ call[c].pc = "install_token"
    /\ LET g == call[c].gen
           a == call[c].agent
           t == [parent |-> call[c].parent, gen |-> g, ver |-> 0]
       IN /\ agent_tokens' = [agent_tokens EXCEPT ![a] = [gen |-> g, token |-> t]]
          /\ loop' = [loop EXCEPT ![g] = [pc |-> "want_start", agent |-> a,
                                          token |-> t, parent |-> 0]]
    /\ AgentOpReturns(c)
    /\ UNCHANGED <<presetVars, agent_txs, firedAgent, agentVars, nextGen,
                   mailbox, calls, sendVars>>

-----------------------------------------------------------------------------
(* stop_agent *)

(* Variant: the sender stays in agent_txs. *)
TakeTxKeepsSender(c) ==
    /\ call[c].pc = "take_tx"
    /\ LET g == agent_txs[call[c].agent]
       IN mailbox' = IF g # 0 /\ loop[g].pc # "done" /\ Len(mailbox[g]) < Cap
                     THEN [mailbox EXCEPT ![g] = Append(@, "Stop")]
                     ELSE mailbox
    /\ Goto(c, "take_token")
    /\ UNCHANGED <<presetVars, agent_txs, tokenVars, agentVars, nextGen, loop,
                   calls, sendVars>>

(* The sender leaves agent_txs first; Stop is enqueued by try_send, which  *)
(* fails when the mailbox is full or its loop is gone.                     *)
TakeTx(c) ==
    /\ call[c].pc = "take_tx"
    /\ LET a == call[c].agent
           g == agent_txs[a]
       IN /\ agent_txs' = [agent_txs EXCEPT ![a] = 0]
          /\ mailbox' = IF g # 0 /\ loop[g].pc # "done" /\ Len(mailbox[g]) < Cap
                        THEN [mailbox EXCEPT ![g] = Append(@, "Stop")]
                        ELSE mailbox
    /\ Goto(c, "take_token")
    /\ UNCHANGED <<presetVars, tokenVars, agentVars, nextGen, loop, calls, sendVars>>

(* Variant: the token is read and its entry left in place. *)
TakeTokenKeepsSlot(c) ==
    /\ call[c].pc = "take_token"
    /\ call' = [call EXCEPT ![c].token = agent_tokens[call[c].agent].token,
                            ![c].pc = "cancel"]
    /\ UNCHANGED <<presetVars, agent_txs, tokenVars, agentVars, loopVars, calls, sendVars>>

(* The entry is removed before its token is cancelled. *)
TakeToken(c) ==
    /\ call[c].pc = "take_token"
    /\ agent_tokens' = [agent_tokens EXCEPT ![call[c].agent] = NoSlot]
    /\ call' = [call EXCEPT ![c].token = agent_tokens[call[c].agent].token,
                            ![c].pc = "cancel"]
    /\ UNCHANGED <<presetVars, agent_txs, firedAgent, agentVars, loopVars, calls, sendVars>>

CancelToken(c) ==
    /\ call[c].pc = "cancel"
    /\ firedAgent' = firedAgent \cup ({call[c].token} \ {NoToken})
    /\ Goto(c, "stop_lock")
    /\ UNCHANGED <<presetVars, agent_txs, agent_tokens, agentVars, loopVars, calls, sendVars>>

(* The agent's lock; AsAgent::stop runs only if the agent was started. *)
StopLock(c) ==
    LET a == call[c].agent IN
    /\ call[c].pc = "stop_lock"
    /\ ~locked[a]
    /\ IF status[a] = "Start"
       THEN /\ status' = [status EXCEPT ![a] = "Stop"]
            /\ locked' = [locked EXCEPT ![a] = TRUE]
            /\ Goto(c, "stopping")
       ELSE /\ AgentOpReturns(c)
            /\ UNCHANGED agentVars
    /\ UNCHANGED <<presetVars, agent_txs, tokenVars, loopVars, calls, sendVars>>

(* AsAgent::stop returns; an error leaves the status at Stop. *)
StopDone(c) ==
    LET a == call[c].agent IN
    /\ call[c].pc = "stopping"
    /\ \/ status' = [status EXCEPT ![a] = "Init"]
       \/ UNCHANGED status
    /\ locked' = [locked EXCEPT ![a] = FALSE]
    /\ AgentOpReturns(c)
    /\ UNCHANGED <<presetVars, agent_txs, tokenVars, loopVars, calls, sendVars>>

-----------------------------------------------------------------------------
(* The agent loop.  A biased select! polls the token first and the other   *)
(* future second; the two polls are separate steps, and a future that has  *)
(* begun is re-polled the same way.                                        *)

LoopGoto(g, pc) == loop' = [loop EXCEPT ![g].pc = pc]

(* The loop returns: its receiver with what was queued in it, and its *)
(* token, are dropped.                                                     *)
LoopEnd(g) ==
    /\ loop' = [loop EXCEPT ![g].pc = "done", ![g].token = NoToken, ![g].parent = 0]
    /\ mailbox' = [mailbox EXCEPT ![g] = <<>>]

Unlock(a) == locked' = [locked EXCEPT ![a] = FALSE]

(* Poll of the token before start(): a fired one ends the loop. *)
PollStartToken(g) ==
    /\ loop[g].pc = "want_start"
    /\ IF Fired(loop[g].token) THEN LoopEnd(g)
       ELSE LoopGoto(g, "poll_start") /\ UNCHANGED mailbox
    /\ UNCHANGED <<presetVars, agent_txs, tokenVars, agentVars, nextGen, callVars, sendVars>>

(* Poll of start(): it needs the agent's lock, and sets the status to      *)
(* Start before it calls AsAgent::start.                                   *)
PollStart(g) ==
    LET a == loop[g].agent IN
    /\ loop[g].pc = "poll_start"
    /\ IF locked[a]
       THEN LoopGoto(g, "want_start") /\ UNCHANGED agentVars
       ELSE /\ locked' = [locked EXCEPT ![a] = TRUE]
            /\ status' = [status EXCEPT ![a] = "Start"]
            /\ LoopGoto(g, "starting")
    /\ UNCHANGED <<presetVars, agent_txs, tokenVars, nextGen, mailbox, callVars, sendVars>>

StartOk(g) ==
    /\ loop[g].pc = "starting"
    /\ Unlock(loop[g].agent)
    /\ LoopGoto(g, "recv")
    /\ UNCHANGED <<presetVars, agent_txs, tokenVars, status, nextGen, mailbox,
                   callVars, sendVars>>

(* AsAgent::start fails: the loop returns and the status stays Start. *)
StartErr(g) ==
    /\ loop[g].pc = "starting"
    /\ Unlock(loop[g].agent)
    /\ LoopEnd(g)
    /\ UNCHANGED <<presetVars, agent_txs, tokenVars, status, nextGen, callVars, sendVars>>

(* Variant: start() is not raced against the token. *)
StartNotRaced(g) == FALSE

(* The token fires while start() is waiting: the future is dropped and the *)
(* lock with it.                                                           *)
StartCancelled(g) ==
    /\ loop[g].pc = "starting"
    /\ Fired(loop[g].token)
    /\ Unlock(loop[g].agent)
    /\ LoopEnd(g)
    /\ UNCHANGED <<presetVars, agent_txs, tokenVars, status, nextGen, callVars, sendVars>>

Recv(g) ==
    /\ loop[g].pc = "recv"
    /\ mailbox[g] # <<>>
    /\ IF Head(mailbox[g]) = "Stop" THEN LoopEnd(g)
       ELSE /\ mailbox' = [mailbox EXCEPT ![g] = Tail(@)]
            /\ LoopGoto(g, IF Head(mailbox[g]) = "Input" THEN "want_process" ELSE "config")
    /\ UNCHANGED <<presetVars, agent_txs, tokenVars, agentVars, nextGen, callVars, sendVars>>

(* recv() returns None: empty and no sender left. *)
RecvNone(g) ==
    /\ loop[g].pc = "recv"
    /\ mailbox[g] = <<>>
    /\ ~HasSender(g)
    /\ LoopEnd(g)
    /\ UNCHANGED <<presetVars, agent_txs, tokenVars, agentVars, nextGen, callVars, sendVars>>

PollProcessToken(g) ==
    /\ loop[g].pc = "want_process"
    /\ LoopGoto(g, IF Fired(loop[g].token) THEN "renew" ELSE "poll_process")
    /\ UNCHANGED <<presetVars, agent_txs, tokenVars, agentVars, nextGen, mailbox,
                   callVars, sendVars>>

PollProcess(g) ==
    LET a == loop[g].agent IN
    /\ loop[g].pc = "poll_process"
    /\ IF locked[a]
       THEN LoopGoto(g, "want_process") /\ UNCHANGED locked
       ELSE locked' = [locked EXCEPT ![a] = TRUE] /\ LoopGoto(g, "processing")
    /\ UNCHANGED <<presetVars, agent_txs, tokenVars, status, nextGen, mailbox,
                   callVars, sendVars>>

(* process() returns, with or without an error. *)
ProcessDone(g) ==
    /\ loop[g].pc = "processing"
    /\ Unlock(loop[g].agent)
    /\ LoopGoto(g, "recv")
    /\ UNCHANGED <<presetVars, agent_txs, tokenVars, status, nextGen, mailbox,
                   callVars, sendVars>>

ProcessCancelled(g) ==
    /\ loop[g].pc = "processing"
    /\ Fired(loop[g].token)
    /\ Unlock(loop[g].agent)
    /\ LoopGoto(g, "renew")
    /\ UNCHANGED <<presetVars, agent_txs, tokenVars, status, nextGen, mailbox,
                   callVars, sendVars>>

(* renew_agent_token, first section: look the parent up, never create it. *)
RenewLookup(g) ==
    /\ loop[g].pc = "renew"
    /\ IF preset_tokens = 0 THEN LoopGoto(g, "recv")
       ELSE loop' = [loop EXCEPT ![g].pc = "renew_slot", ![g].parent = preset_tokens]
    /\ UNCHANGED <<presetVars, agent_txs, tokenVars, agentVars, nextGen, mailbox,
                   callVars, sendVars>>

(* Variant: any slot of the agent is taken, whatever its generation. *)
RenewAnySlot(g) ==
    LET a == loop[g].agent
        fresh == [parent |-> loop[g].parent, gen |-> g, ver |-> loop[g].token.ver + 1]
    IN
    /\ loop[g].pc = "renew_slot"
    /\ IF agent_tokens[a] # NoSlot
       THEN /\ agent_tokens' = [agent_tokens EXCEPT ![a].token = fresh]
            /\ loop' = [loop EXCEPT ![g].pc = "recv", ![g].token = fresh, ![g].parent = 0]
       ELSE /\ loop' = [loop EXCEPT ![g].pc = "recv", ![g].parent = 0]
            /\ UNCHANGED agent_tokens
    /\ UNCHANGED <<presetVars, agent_txs, firedAgent, agentVars, nextGen, mailbox,
                   callVars, sendVars>>

(* Second section: the fresh child goes into the slot, and into the loop,  *)
(* only if the slot still belongs to this loop.                            *)
RenewSlot(g) ==
    LET a == loop[g].agent
        fresh == [parent |-> loop[g].parent, gen |-> g, ver |-> loop[g].token.ver + 1]
    IN
    /\ loop[g].pc = "renew_slot"
    /\ IF agent_tokens[a].gen = g
       THEN /\ agent_tokens' = [agent_tokens EXCEPT ![a].token = fresh]
            /\ loop' = [loop EXCEPT ![g].pc = "recv", ![g].token = fresh, ![g].parent = 0]
       ELSE /\ loop' = [loop EXCEPT ![g].pc = "recv", ![g].parent = 0]
            /\ UNCHANGED agent_tokens
    /\ UNCHANGED <<presetVars, agent_txs, firedAgent, agentVars, nextGen, mailbox,
                   callVars, sendVars>>

(* Config and Configs messages are applied under the lock, token or not. *)
ApplyConfig(g) ==
    /\ loop[g].pc = "config"
    /\ ~locked[loop[g].agent]
    /\ LoopGoto(g, "recv")
    /\ UNCHANGED <<presetVars, agent_txs, tokenVars, agentVars, nextGen, mailbox,
                   callVars, sendVars>>

-----------------------------------------------------------------------------
(* agent_input: look the sender up, then send to the clone of it.  With no *)
(* sender an input is dropped and a config is set on the agent directly.   *)

SendLookup(s, a, m) ==
    /\ sender[s].pc = "idle"
    /\ sends < MaxSends
    /\ m # "Stop"
    /\ sends' = sends + 1
    /\ sender' = IF agent_txs[a] = 0 /\ m = "Input" THEN sender
                 ELSE [sender EXCEPT
                         ![s] = [pc |-> IF agent_txs[a] # 0 THEN "push" ELSE "direct",
                                 agent |-> a, gen |-> agent_txs[a], msg |-> m]]
    /\ UNCHANGED <<presetVars, agent_txs, tokenVars, agentVars, loopVars, callVars>>

SendDirect(s) ==
    /\ sender[s].pc = "direct"
    /\ ~locked[sender[s].agent]
    /\ sender' = [sender EXCEPT ![s] = IdleSend]
    /\ UNCHANGED <<presetVars, agent_txs, tokenVars, agentVars, loopVars, callVars, sends>>

(* tx.send().await waits for room; it fails once the receiver is gone. *)
SendPush(s) ==
    LET g == sender[s].gen IN
    /\ sender[s].pc = "push"
    /\ \/ loop[g].pc = "done" /\ UNCHANGED mailbox
       \/ /\ loop[g].pc # "done"
          /\ Len(mailbox[g]) < Cap
          /\ mailbox' = [mailbox EXCEPT ![g] = Append(@, sender[s].msg)]
    /\ sender' = [sender EXCEPT ![s] = IdleSend]
    /\ UNCHANGED <<presetVars, agent_txs, tokenVars, agentVars, nextGen, loop,
                   callVars, sends>>

-----------------------------------------------------------------------------
CallStep(c) ==
    \/ NextAgent(c) \/ FinishPreset(c)
    \/ ReadStatus(c) \/ InsertTx(c) \/ PresetToken(c) \/ InstallToken(c)
    \/ TakeTx(c) \/ TakeToken(c) \/ CancelToken(c) \/ StopLock(c) \/ StopDone(c)

(* What the loop does by itself, once it is scheduled. *)
LoopStep(g) ==
    \/ PollStartToken(g) \/ PollStart(g) \/ StartCancelled(g)
    \/ Recv(g) \/ RecvNone(g) \/ PollProcessToken(g) \/ PollProcess(g)
    \/ ProcessCancelled(g) \/ RenewLookup(g) \/ RenewSlot(g) \/ ApplyConfig(g)

(* What the agent's own code does: it may also never return. *)
AgentCode(g) == StartOk(g) \/ StartErr(g) \/ ProcessDone(g)

SendStep(s) == SendDirect(s) \/ SendPush(s)

Next ==
    \/ \E c \in Callers :
        \/ \E op \in AllOps, a \in Agents : CallAgentOp(c, op, a)
        \/ StartPreset(c) \/ StopPreset(c) \/ CallStep(c)
    \/ \E g \in Gen : LoopStep(g) \/ AgentCode(g)
    \/ \E s \in Senders :
        \/ \E a \in Agents, m \in Message : SendLookup(s, a, m)
        \/ SendStep(s)

Spec == Init /\ [][Next]_vars

(* Calls and sends that have begun and loops that were spawned are         *)
(* scheduled by the executor; nobody has to make a call, and start() and   *)
(* process() of an agent may wait forever.  AsAgent::stop is assumed to    *)
(* return.                                                                 *)
Fairness ==
    /\ \A c \in Callers : WF_vars(CallStep(c))
    /\ \A g \in Gen : WF_vars(LoopStep(g))
    /\ \A s \in Senders : WF_vars(SendStep(s))

FairSpec == Spec /\ Fairness

-----------------------------------------------------------------------------
(* Types of all variables; a mailbox never holds more than its capacity. *)
TypeOK ==
    /\ presetLock \subseteq Callers
    /\ running \in BOOLEAN
    /\ preset_tokens \in Nat
    /\ presetSeq \in Nat
    /\ firedPreset \subseteq Nat
    /\ agent_txs \in [Agents -> Gen \cup {0}]
    /\ agent_tokens \in [Agents -> Slot]
    /\ firedAgent \subseteq Token
    /\ status \in [Agents -> Status]
    /\ locked \in [Agents -> BOOLEAN]
    /\ nextGen \in Nat \ {0}
    /\ loop \in [Gen -> Loop]
    /\ mailbox \in [Gen -> Seq(Message)]
    /\ \A g \in Gen : Len(mailbox[g]) <= Cap
    /\ call \in [Callers -> Call]
    /\ calls \in Nat
    /\ sender \in [Senders -> Send]
    /\ sends \in Nat

(* The token that stop_agent would take from agent_tokens is the one the   *)
(* loop owning the slot is racing against: however renewals and restarts   *)
(* interleave, cancelling the slot's token reaches that loop.              *)
SlotReachesLoop ==
    \A a \in Agents :
        LET slot == agent_tokens[a] IN
        (slot # NoSlot /\ Live(slot.gen)) =>
            loop[slot.gen].agent = a /\ loop[slot.gen].token = slot.token

(* Once stop_agent has cancelled a loop's token that loop keeps it until   *)
(* it ends, so the inputs queued ahead of Stop are skipped: it never gets  *)
(* a renewed token, not even from the slot of its own successor.           *)
CancelledLoopKeepsFiredToken ==
    \A t \in firedAgent : Live(t.gen) => loop[t.gen].token = t

(* The inductive strengthening of the two.  A token is retired when stop   *)
(* has taken it from its slot: no slot belongs to its loop any more.       *)
Retired(t) ==
    /\ t.gen \in Gen
    /\ loop[t.gen].pc # "none"
    /\ Live(t.gen) => loop[t.gen].token = t
    /\ \A a \in Agents : agent_tokens[a].gen # t.gen

Spawning(c) == call[c].pc \in {"preset_token", "install_token"}

SlotInv ==
    \A a \in Agents : agent_tokens[a] # NoSlot =>
        LET g == agent_tokens[a].gen IN
        /\ g \in Gen
        /\ agent_tokens[a].token.gen = g
        /\ loop[g].pc # "none"
        /\ loop[g].agent = a
        /\ Live(g) => loop[g].token = agent_tokens[a].token

RetiredInv ==
    /\ \A t \in firedAgent : Retired(t)
    /\ \A c \in Callers :
        (call[c].pc = "cancel" /\ call[c].token # NoToken) => Retired(call[c].token)

SpawnInv ==
    /\ \A c \in Callers : Spawning(c) =>
        /\ call[c].gen \in Gen
        /\ call[c].gen < nextGen
        /\ loop[call[c].gen].pc = "none"
    /\ \A c, d \in Callers :
        (c # d /\ Spawning(c) /\ Spawning(d)) => call[c].gen # call[d].gen
    /\ \A g \in Gen : g >= nextGen => loop[g].pc = "none"

TokenInv == SlotInv /\ RetiredInv /\ SpawnInv

(* From the moment Preset::stop has cancelled the preset's token until the *)
(* next Preset::start, every loop of the preset has a fired token, so none  *)
(* passes the token's poll again: renewed tokens are born cancelled.  Only *)
(* a loop that had passed the poll before may still begin a process().     *)
PresetStopSilencesLoops ==
    (\/ \E c \in Callers : call[c].pc # "idle" /\ call[c].op = "stop_preset"
     \/ presetLock = {} /\ ~running /\ preset_tokens = 0)
    => \A g \in Gen : Live(g) => Fired(loop[g].token)

(* Preset::stop returns, even when an agent is in a start() or process()   *)
(* that never does, because the agent's token ends the wait.  This needs   *)
(* the preset's lock to keep start_agent out: a stop_agent that comes      *)
(* between start_agent's insertion of the sender and of the token finds    *)
(* nothing to cancel and waits for as long as start() does.                *)
StopReturns ==
    \A c \in Callers :
        (call[c].op = "stop_preset" /\ call[c].pc # "idle") ~> call[c].pc = "idle"

(* A loop whose token stop_agent cancelled ends, unless a restarted loop   *)
(* of the same agent keeps the agent's lock from it for good, in a start() *)
(* or a process() of its own that never returns.                           *)
CancelledLoopEnds ==
    \A g \in Gen :
        (\E t \in firedAgent : t.gen = g)
            ~> (\/ ~Live(g)
                \/ [](\E h \in Gen \ {g} : /\ loop[h].agent = loop[g].agent
                                           /\ loop[h].pc \in {"starting", "processing"}))
=============================================================================
