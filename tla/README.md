# A TLA+ model of modular-agent-core

modular-agent-core is the orchestrator of a dataflow of agents.  A *preset* is a
graph of agents and connections; every running agent is a tokio task that reads
a mailbox; a central task routes what agents emit to the mailboxes of their
targets.  Around this core there are tools for LLMs (native, from MCP servers,
or presets used as tools), an MCP server that edits presets, and session logs.

This directory models the parts in which tasks, locks, cancellation and files
meet, checks them with TLC on small instances and proves the central invariants
with TLAPS for all instances.  Paths below are relative to
`src/modular-agent-core/src/`.

## 1. Inventory

| Component | Source | State | Operations | Module |
|---|---|---|---|---|
| agent lifecycle | `modular_agent.rs`, `preset.rs`, `agent.rs` | `agent_txs`, `agent_tokens`, `preset_tokens`, agent status and mutex, mailboxes | `start_agent`, `stop_agent`, the loop, `Preset::start/stop`, `agent_input` | `AgentLifecycle` |
| preset table and names | `modular_agent.rs` | `presets`, `preset_names`, `Preset::name` | `add_preset`, `rename_preset`, `remove_preset` | `PresetNames` |
| preset structure | `modular_agent.rs`, `preset.rs`, `spec.rs`, `id.rs` | `agents`, `connections`, the spec of each preset, saved files | add and remove agents, connections, batches, presets; save, open | `PresetGraph` |
| context tokens | `modular_agent.rs`, `context.rs` | `context_tokens` (weak), the token in each context | attach on dispatch, `abort_context`, pruning | `ContextTokens` |
| message routing | `message.rs`, `modular_agent.rs` | central channel, mailboxes | `agent_out`, `external_input`, `agent_input`, `spawn_message_loop` | `ExternalIO`, contexts in `ContextTokens` |
| external and local channels | `external_agent.rs`, `modular_agent.rs` | channel name -> agents, latest values | start, stop, `configs_changed`, writes | `ExternalIO` |
| tool calls | `tool.rs` | tool registry, executed ids per flow, results | `register_tool`, `call_tools`, `CallToolMessageAgent` | `ToolCalls` |
| preset tools | `tool.rs` | pending one-shot channels, registered name | `PresetToolAgent`, `PresetTool::tool_call` | `PresetTool` |
| loop control | `tool.rs` | iteration counters, their eviction queue | `LoopControlAgent` | `ToolCycle` |
| tool arguments | `tool.rs` | none | coercion and validation by a schema | `ToolArgs`, `Conversions` |
| sessions | `session.rs` | one JSONL file per session | `create`, `append`, `load`, `build_context` | `SessionLog`, `SessionStore` |
| MCP client | `mcp.rs` | connection pool, dead flags, services | `tool_call`, `get_or_create`, `invalidate`, `cancel_in_background`, shutdown | `McpPool` |
| MCP server | `mcp_server.rs` | event ring, requests in progress | `run_event_collector`, polling tools, edit tools, start and stop | `EventRing`, `AgentConfigs` |
| configuration | `config.rs`, `definition.rs`, `spec.rs`, `agent.rs` | configs of agents | `set_agent_configs`, `update_spec`, `reconcile_spec`, generated configs | `AgentConfigs` |
| events | `modular_agent.rs` | broadcast channel | `notify_observers`, a subscriber that lags | `EventRing` |
| values | `value.rs` | none | JSON forms, casts, accessors | `AgentValues`, `Conversions` |
| LLM messages | `llm.rs` | none | JSON forms, old and new, events, token estimates | `Messages`, `Conversions` |
| macros, registry, runtime, test utilities | `modular-agent-macros`, `registry.rs`, ... | none | code generation, registration | not modelled |

How the parts interact.  API calls are concurrent tasks on a multi-threaded
executor.  They share maps, each behind a std mutex of its own that is never
held across an await, and per-preset and per-agent async mutexes that are.  An
agent loop holds the agent's mutex while `start()` or `process()` runs, both of
which may never return; what ends them is a cancellation token, of which there
are three kinds: one per preset, one per agent loop (a child of the preset's)
and one per flow of messages, carried by the contexts.  Messages leave an agent
through one bounded channel, and the task that reads it fills the agents'
bounded mailboxes.

What is hard in this code:

* an operation is a sequence of short critical sections, and others come in
  between: start against stop of one agent, rename against remove of a preset,
  add against remove of agents;
* tokens are renewed, replaced and looked up while they fire;
* a `select!` polls its branches in an order, and a token may fire between two
  polls;
* operations of several steps fail in the middle (batches, removals, writes);
* ids restart in a new process while saved presets hold old ones;
* messages are delivered twice, limits are reached, agents and tools hang;
* queues are bounded at both ends of a cycle: the message loop fills mailboxes
  whose owners fill its own queue;
* a value is read, merged and written back in separate steps, and what waits in
  the mailbox of an agent can be overtaken;
* a value has two ways into JSON and two readers, which must agree.

What makes each part correct.  *Lifecycle*: a stop reaches the loop that runs,
now and after every renewal, a stopped loop does no more than what it had begun,
and stopping ends even if the agent hangs.  *Names*: a name leads to a preset that exists, a
preset has one name, nobody's name is taken away.  *Structure*: spec and runtime
maps describe the same graph once the calls are over.  *Context tokens*: an
abort reaches all that is left of the flow.  *Tool calls*: one answer per call,
in order, whatever is aborted; no call that two messages carry runs twice.  *Sessions*: what was
acknowledged is there after a crash.  *Preset tools*: an answer reaches the call
it is for, no sender outlives its call, every call ends.  *Routing*: values are
routed in order and an input agent is registered while it is started, under one
name.  *Configs*: the
last value written is the one the agent has.  *Event ring*: a client that pages
misses nothing that is kept.  *Conversions*: what is saved, cast or coerced once
does not change a second time, and a message survives its journeys, but for the
differences that section 6 names.  *MCP client*: every server process is in
the pool or has someone who will end it, and a call that hangs blocks nobody
else.

`PROJECT.json` lists the hazards at their lines, with the properties that cover
each of them or the reason why none does.

## 2. Modules and how they correspond to the code

A step of a model is one critical section of the code (one std mutex section,
one use of an async mutex, one branch of a `select!`, one write).  Variables
keep the names of the fields they model.  Definitions introduced by a comment
that begins with "Variant:" are wrong versions of the definition that follows,
which show that a property notices the difference; no specification uses them.

**AgentLifecycle.**  Callers run `start_agent`, `stop_agent`, `Preset::start`
and `Preset::stop`; `call[c].pc` is the critical section a call comes to next.
`start_agent` reads the status (`ReadStatus`), inserts the sender (`InsertTx`),
looks up the preset token (`PresetToken`) and installs a child token and spawns
the loop (`InstallToken`).  `stop_agent` takes the sender and tries to send Stop
(`TakeTx`), takes the slot (`TakeToken`), cancels (`CancelToken`), and stops the
agent under its mutex (`StopLock`, `StopDone`).  A loop is named by its
generation; it polls its token and then `start()` (`PollStartToken`,
`PollStart`, `StartOk`, `StartErr`, `StartCancelled`), receives (`Recv`,
`RecvNone`), polls token and `process()` the same way, and renews a fired token
in two sections (`RenewLookup`, `RenewSlot`), the second of which checks the
generation.  A token is a record of its parent, generation and version, so that
child cancellation is `t.parent \in firedPreset`.  `SendLookup`, `SendPush` and
`SendDirect` are `agent_input`.

**PresetNames.**  `AddReserve`/`AddInsert`, `RenameLookup`/`Index`/`Recheck`/
`Rollback`/`Set`, `RemoveLookup`/`Lock`/`Teardown`/`Preset`/`Names` are the
critical sections of the three operations, which never hold both tables' locks.
The teardown of the agents is the business of `PresetGraph`.

**PresetGraph.**  The spec of each preset (`specAgents`, `specConns`) and the
runtime maps (`agents`, `connections`).  A connection is a pair of agents:
handles are left out because no property tells them apart.  `SaveSnapshot` is
`get_preset_spec`, which reads the preset under its lock and the agents after
it; `Restart` is a new process, which keeps the file and starts ids afresh.
`Shown` stands for what `try_lock` sees of a locked preset.  `strays` is a
history variable: the connections a load of this process left in doubt, because
an end kept an id of the old process or because the file lists them twice (see
section 6).  `missed` is another: the agents a `remove_preset` has left behind, of
an `add_agent` or a batch it overtook or of a stop that failed (`Escaping`).

**ContextTokens.**  Contexts on the wire, in mailboxes and in `process()`; a
token is alive while a context carries it, which is what the weak reference in
the registry means.  `Deliver` hands a message to its targets one by one, as
`agent_out` does, with dispatches, ends and aborts in between.

**ToolCalls.**  One `CallToolMessageAgent`, its filter for repeated calls, and
`call_tools` poll by poll: `Schedule` looks at the next call and its tool's
mode, `BatchStart`, `BatchYield`, `BatchDone` and `BatchSalvaged` are
`flush_parallel_batch`, `Sequential...` the call that runs alone.  Tools finish
and flows are aborted at any time.  The filters of `process` are `Allowed`, the
config `tools` and the registry, and `Fresh`, which also leaves out the calls
that were executed before, all in one pass before any is recorded, so that calls
of one message that share an id all run; `Pick` (in `SeqOps`) is the `filter` itself.  The salvage after an abort polls the stream
once; a future it takes up for the first time finds the token cancelled and
answers "Cancelled" without running its tool.

**SeqOps.**  What the code does to vectors with iterators, for the modules that
need it: `Pick` is a `filter` or `retain`, `Concatenated` the loop over the
elements of all vectors of a vector.  Both are recursive functions, which TLC
evaluates and the proofs can reason about.

**SessionLog, SessionStore.**  `SessionLog` is what a store promises, and what
`InMemorySessionStore` does under its mutex.  `SessionStore` is the JSONL file:
a line is two halves, the second with the newline, so a write can end in the
middle; `LoadRead` and `LoadRepair` are the read and the truncation of `load`.
What a line holds is an entry id, since all the code does with it is to parse it
or fail.  `EntriesIn`, the entries on lines that parse, is what `load` collects;
applied to the file it is `Stored`, which maps the file to the log.
`ContextStart` is where `build_context` begins, `MessagesFrom` what it takes from
there.
`append` does not look at how the file ends, so an entry appended behind a
partial line, without a `load` in between, is fused to it (`Fused`); the
properties say that this is the only way to lose an acknowledged entry.

**McpPool.**  Callers that call a tool, register a server's tools or shut the
pool down.  The pool lock is held across an await only while a server starts, so
it is `PoolLocked`, a predicate on the calls; a connection's lock is `Busy`.
`GetReuse` and `GetCreate` are `invalidate` (on a retry) and `get_or_create` up
to the start of the server, `ServeOk` and `ServeErr` its end.  The failure of a
call and the setting of the dead flag are two steps, as in the code, so others
may get the broken connection in between.  `Dropped` is a call whose flow is
aborted.  `Background...` is the task of `cancel_in_background`, `Drain...` the
loop of `shutdown_all_mcp_connections`.

**PresetTool.**  `PresetToolAgent` and the calls of its tool.  The agent's lock
makes `Start`, `Stop`, `Rename` (`configs_changed`), `Answer` (`process` of a
value on tool_out) and `Register` (`start_tool_call`) atomic; a caller looks the
tool up (`BeginCall`), waits for the lock, and waits for its result, the timeout
or the abort of its flow (`Receive`, `Timeout`, `CallCancelled`).  `EndWait` is
the drop of `PendingGuard`, which takes out the sender under the flow's key,
whoever's it is.  `result` is the state of the one-shot channel: empty, an answer
with the number of the call it was for, or a dropped sender.

**ToolCycle.**  The composition of `PresetTool` with `LoopControlAgent`
(`LoopProcess`, `LoopStop`) and an LLM that sends messages with tool calls, some
of them twice.  `counts`, `last` and `ctx_key_order` are the agent's maps and
its eviction queue; `passed` is a history of what was let through.  The filter
for repeated calls is in `ToolCalls`; here a message is executed once.

**ExternalIO.**  A preset's agents are `SpecAgents`, in the order of its spec, in
which `Preset::start` has registered those that run at first.  `start_agent` and
`stop_agent` are taken apart as in `AgentLifecycle`: `ReadStatus`, `InsertTx`,
`InstallToken`, and `TakeTx`, `TakeToken`, `CancelToken`, `StopLock`; there is no
preset token here, since only single agents are started and stopped.  An agent may
so have several loops, numbered as they are made, each with its mailbox and its
token: those of overlapping starts, and one that has yet to notice that it was
stopped.  A loop polls its token and then `start()`, which registers the agent
without a look at its status (`PollStartToken`, `PollStart`), and the same way
for each input (`PollProcessToken`, `PollProcess`), so one that is past its token
poll still processes once after a stop.  `LockFree` is the agent's mutex.  A
process call holds it, and its value, while it waits for room in the message
loop's queue, and an ordinary agent may fail before or after its output, which
sends to the port "err"; a token that fires ends the wait (`ProcessCancelled`).
The message loop takes a message (`Receive`), clones the sender of each target
(`LookUp`) and waits for room in that mailbox (`RoutePush`) or, for a config of an
agent without one, for its mutex (`RouteDirect`).  `Rename` is
`set_agent_configs` with a name, in the same two ways, and `Repoint` what
`configs_changed` makes of `external_input_agents`.  Values are numbered as they
are written.  Two history variables mark what overlapping calls bring about:
`doubled`, the agents on which `start()` ran while they were started, and
`outdated`, those of which a loop processed an input beside a later loop.

**AgentConfigs.**  The configs of agents and all who write them.  A merge over
MCP is `SetRead` and `SetWrite`; `update_agent_spec` validates (`UpdateRead`)
and then merges under the agent's lock (`UpdateWrite`), past the mailbox;
`AddAgent`, `AddCheck` and `AddRollback` are the three parts of `add_agent`.
`Reconcile`, `WithoutParked` and `Rebuild` are what happens to a stored spec:
unknown keys are parked under a name with an underscore, defaults filled in,
configs generated from a count.  `Over` is the merge of a patch.  `RouteConfig` is a value that arrives at a
"config:" port, for any key a connection may name, declared or not, since nothing
in the code compares it with the definition; `strays` are the keys of the second
sort that an agent has got so.
`AgentConfigsAssumption` says that keys of one sort (declared, generated,
parked) are of no other, as the leading underscore and the numbers in their names
make sure.  `Put` sends to a running agent's mailbox and
sets directly otherwise.

**EventRing.**  The broadcast channel, which overwrites its oldest event (`Emit`,
`Lag`), the collector (`Capture`), the ring with its two buffers and one
numbering, and the pages that clients read (`Poll`); a page is the set of
the places its records have in the buffer.  A ring belongs to a server
(`StartServer`, `StopServer`).  `MCMcpServer` checks this module and
`AgentConfigs` in one run: they share no variable, so one of them stays in its
initial state while the other moves, and every behaviour of each is covered.

**Messages, AgentValues, ToolArgs, Conversions.**  Pure functions.  A JSON value
is a tagged pair; a text is a sequence of words, so that it can be joined; a
float is a number of tenths, NaN or infinite, except that the f32 that prints as
0.1 is not the f64 that does (`Widened`); an encoded image is the words of its
data URL, of which `Stripped` takes the prefix off where the code does; `MaxI64` stands for the largest
integer, so that `as i64` saturates at it.  `Messages` has both forms of a
message, the serde one (`Serialize`, `Deserialize`) and that of the ports;
`AgentValues` has `ToJson` and `SerializeValue`, `FromJson`, the casts, accessors
and equality; `ToolArgs` has the coercion by a schema, and the validation as the
library does it.  `Conversions` is a state machine over one value, which is
saved and opened, cast, passed to a tool, returned by it, sent in an event and
taken out again, in any order, so that the properties are checked for all values
that can come about and not only for the samples it starts with.

## 3. Runs

| Run | Bounds | States | Shows |
|---|---|---|---|
| `lifecycle_api` | 1 agent, 2 callers, 4 calls, 3 loops, mailbox of 1 | 4.6 M | `SlotReachesLoop`, `CancelledLoopKeepsFiredToken`: whatever starts, stops and renewals interleave, the token in the registry is the one the loop races against, and a cancelled loop never gets a live token back |
| `lifecycle_preset` | 2 agents, 2 callers, 3 calls, 3 loops | 145 k | `PresetStopSilencesLoops`: between the cancellation of the preset token and the next start every loop's token is fired, so that none passes its token poll again (one that has passed it still begins the `process()` it polls next); `StopReturns`, `CancelledLoopEnds`: `Preset::stop` returns even if the agents hang, and a cancelled loop ends unless a restarted loop of its agent keeps the agent's lock for ever |
| `preset_names` | 2 presets, 2 names, 2 callers, 6 calls | 38 k | `DanglingNameIsPending`: a dangling name always has a call that will resolve it; `NamesAreNotStolen`; `RemovedNameFreed`: a removed preset disappears from the index for good |
| `graph_edit` | 2 presets, 3 agents, 2 callers, 5 calls, all operations | 53 k | `AgentKnownToPreset`: an instance is in the spec of a preset that exists, or about to be, but for those a `remove_preset` has missed; `SpecConnectionRouted`: a shown connection between existing agents is routed; `BatchAllOrNothing` |
| `context_tokens` | 2 agents in a cycle, 3 flows, 4 messages, prune threshold 1 | 280 k | `OneTokenPerFlow`, `AbortReachesFlow`, `PrunedBeyondThreshold` |
| `external_io` | 4 agents, 2 of which listen to one channel and one of these to a config port as well; queue and mailboxes of 1, 2 writes, 2 callers, 2 starts, stops or renames, 6 loops | 668 k | `RegisteredOnce`: registered while started, under one name, once unless two starts overlapped; `InWrittenOrder`: values come through each channel in the order of their writing, unless an old loop of an agent has processed beside a newer one; `EveryWriteRouted`: every value is announced in the end, unless loop and agent wait for each other over full queues for ever |
| `tool_calls` | 2 tools, 2 flows, messages of up to 3 calls, 2 messages, 1 registry change | 153 k | `OneResultPerCall`, `BarriersHold`, `ExecutedOnce`, `FinishedParallelCallReported`, `NoStartAfterAbort`, `AbortEndsCalls` |
| `tool_cycle` | 1 preset tool with 2 names, 2 chats in flows of their own, 2 calls, 2 edits, limit 1, 1 tracked flow, 3 turns, 1 repeat | 689 k | `WaitersMatched`: the pending senders are exactly those of calls that wait unanswered; `AnswerReachesOwnCall`; `IterationsBounded`; `CallsEnd`: a forwarded message is answered unless its call has no timeout, its workflow never answers and nobody aborts it |
| `session_store` | 2 messages, 2 compactions, 3 faults | 20 k | `AckedEntriesKept`, `ContextIsCurrent`, and `ImplementsLog`: the file store implements `SessionLog` |
| `mcp_pool` | 2 servers, 2 callers, 3 calls, 3 connections | 104 k | `NoServerForgotten`, `HealthyConnectionKept`, `ShutdownReturns`, `DroppedServiceCancelled` |
| `mcp_server` | 2 agents, 2 clients, 5 edits, mailbox of 2; event channel of 2, ring of 2, pages of 1, 6 events, 2 servers | 1.5 M | `ValueIsLastWritten`: an update is lost in the three ways it names and no other; `OnlyValidAgents`: no merge, rename of keys or rollback leaves an agent with configs its definition does not have, only a connection to a "config:" port does; `PagingExact` |
| `conversions` | samples of every variant, nested twice, old and new messages, 13 schemas, largest integer 4 | 3 k | `ReloadStable`, `MessageSurvives`, `CoercionStable` |

Why the bounds are enough for what they are meant to show.  The lifecycle needs
three loops for a renewal to meet a stop and a restart, and two callers for two
calls to overlap; a third caller would only repeat the two roles.  A mailbox of
one is full after one message, which is when `stop_agent` cannot deliver its
Stop.  Two presets and two names are enough for a name to be taken over, two
callers for a rename to be overtaken; six calls allow add, add, rename, rename,
remove, remove.  Three agents allow a batch of two beside an existing agent and
an id that is reused after a restart.  A threshold of one makes the registry
prune at its second flow, and the third flow finds both dead and live entries.
Three calls give a batch of two and a barrier, in each order, since each tool
may be of either mode or absent; a tracking limit of one makes the second flow
evict the first.  Three faults allow a failed append, a failed repair and a
crash in one behaviour.  Two writes and the error of
an agent fill a queue and mailboxes of one, so that the gridlock of section 6 is
reached; two starts overlap on one agent, or a stop and a start leave an old loop
beside a new one, and one config message meets either.  A tracking limit of one makes two
chats evict each other, a limit of one iteration with three turns passes it, and
two names let a rename meet a call that has looked up the old one.  Five edits
are what a merge needs to bring back a generated config: add, set, read, change
the count, write.  Ring, event channel and pages of one or two records overflow
within six events.  In `conversions` the largest integer only has to be larger
than the numbers in the samples.  Two callers that fail on one connection are what a late
invalidation needs; a third call and a second server let a shutdown find one
connection busy and go on to the next; three connections give each caller one
replacement.  The proofs of section 4 do not depend on these bounds.

All runs but `conversions` disable the deadlock check: the models end where their bounds are
reached, and an orchestrator without calls has nothing to do.  That nobody waits
forever is stated as liveness instead.  Symmetry is used only in runs without
liveness properties and over sets whose members the models treat alike.

**Fairness.**  `AgentLifecycle!FairSpec`: weak fairness of each call, each loop
and each send, because the executor polls a task that was woken.  The agent's
own code is left out of it: `StartOk`, `StartErr` and `ProcessDone` may never
happen, which is why stopping needs tokens.  `AsAgent::stop` is assumed to
return; nothing in the code guards against one that does not.
`PresetNames!FairSpec`: weak fairness of each call.  `ToolCalls!FairSpec`: weak
fairness of the agent's task, none of the tools.  `McpPool!FairSpec`: weak
fairness of each call and each background task; a start of a server is assumed
to succeed or fail and `cancel()` to return, while a call to a server may hang.
The first of these is a real assumption: the pool lock is held during the
start, so a server that never finishes its handshake stops every call and the
shutdown as well.  `ExternalIO!Spec`: weak fairness of the message loop, of
each agent's loop and of each call that has begun, which are tasks of the
executor; a process call of these agents comes to an end unless it waits for
room; nobody has to write, start, stop, rename or fail.  `ToolCycle!FairCycleSpec`: weak fairness of `LoopControlAgent` and of
each call, timers included; none of the LLM, of the workflow behind the tool, or
of those who stop, rename and abort.

**The limit of StopReturns.**  It is about `Preset::stop`, which holds the
preset's lock and so excludes `Preset::start`.  Two direct calls of
`start_agent` and `stop_agent` on one agent can miss each other: a
`stop_agent` between the insertion of the sender and that of the token
(`modular_agent.rs` 1214-1225) finds nothing to cancel, and then waits for the
agent's mutex for as long as `start()` takes.

## 4. Theorems

All are proved by TLAPS for every value of the constants that satisfies the
assumption of the module (`LifecycleAssumption`, `NamesAssumption`,
`GraphAssumption`, `ContextAssumption`, `PoolAssumption`,
`PresetToolAssumption`, `ToolCycleAssumption`, `ToolCallsAssumption`,
`EventRingAssumption`, `AgentConfigsAssumption`, `SessionAssumption`,
`ExternalAssumption`: sets and bounds have their
types, the "none" values are none of the others, a mailbox and a ring have room
for one item, a spec lists an agent once).

* `AgentLifecycleProofs`: `TypeCorrect` (with the mailboxes' capacity),
  `SlotReachesLoopAlways`, `CancelledLoopStaysCancelled`, `PresetStopSilences`.
  None of the safety properties is inductive.  `TokenInv` is: `SlotInv` says of a
  slot that its generation was handed out and its loop, if alive, has the slot's
  token; `RetiredInv` that a token that stop_agent has cancelled, or is about to
  cancel, is still the token of its loop and that no slot belongs to that loop
  any more; `SpawnInv` that between the two halves of `start_agent` the generation
  the call reserved has no loop yet and belongs to no other call.  The renewal
  is the step that needs all three: its generation check holds only of the loop
  the slot was made for.  `PresetStopSilences` has the hypothesis that
  `start_agent` is reached through `Preset::start` only: a direct `start_agent`
  on an agent of a stopped preset gives its loop a token without a parent, which
  is what it is for.  `stop_agent` may be called at any time.  Its invariants
  are `LockInv` (one `Preset::start` or `stop` at a time; a start keeps the token
  it installed) and `ParentInv` (every live loop, and every renewal under way, has
  the preset's present token or a cancelled one as parent).
* `RegistryProofs`, of `PresetNames`: `TypeCorrect`, `DanglingNamePending`,
  `NoDanglingNameAtRest`, `OneNameAlways`, `NamesNeverStolen`.  The invariant is
  `IndexInv`, types and `RefersToUsed` (tables and calls refer only to ids that
  were handed out), strengthened by the property itself:
  `DanglingNameIsPending` says who will repair the index, and is inductive where
  `NoDanglingName` is not.
* `PresetGraphProofs`: `TypeCorrect`, `AgentsAreKnown`,
  `ShownConnectionsRouted`, `BatchesAllOrNothing`, from three invariants, each on
  top of the one before.  `GraphInv`: types, `IdsInUse` (whatever refers to an id
  refers to one that was handed out, so that a new agent is new) and
  `AgentKnownToPreset`.  `RouteInv`: what a preset's spec or a call for the
  preset refers to belongs to that preset (`SpecOwns`, `CallOwns`), a preset that
  is not yet in the map is one call's business (`PendingAlone`), and
  (`ListedAndRouted`) the spec of an intact preset lists a connection between
  agents that stay only once, and the table has it.  The last part is the
  argument: entries are taken out of the spec one at a time and out of the table
  at once, so a second entry of the same connection would be left without a
  route.  `BatchInv`: a preset's lock has one holder (`LocksHeld`), nobody
  else refers to the agents of a batch before it returns (`Private`), and what the
  spec and the table have of the batch is what its list says (`Tracked`).  As a
  connection may be in the list twice, the entries of the spec are matched with
  places of the list one to one (`Matched`), which `RollbackConn` undoes from the
  front although it removes the first equal entry of the spec
  (`MatchedRemove`).
* `RegistryProofs`, of `ContextTokens`: `TokenTypeCorrect`, `OneTokenAlways`,
  `AbortReachesWholeFlow`, `PrunedBeyondThresholdAlways`.  `ContextInv` is types
  and `OneTokenPerFlow`; the argument is that pruning keeps what is alive, so a
  dispatch makes a second token only when no context carries the first.
* `McpPoolProofs`: `TypeCorrect`, `PooledAlwaysPresent`,
  `ServersNeverForgotten`, `RetriesAlwaysElsewhere`,
  `HealthyConnectionAlwaysKept`.  `PoolInv` adds to the types: `OwnerInv`, every
  service that is not cancelled has exactly one owner, a place in the pool, a
  background task or a shutdown; `ServeInv`, who starts a server is alone in
  doing so and the place of its connection is empty, so that nothing is
  overwritten; and `CallInv`, a call has the fields its place needs, and the
  connection a retry has failed on is marked dead.
* `PresetToolProofs`: `TypeCorrect`, `WaitersAlwaysMatched`,
  `AnswerAlwaysReachesOwnCall`, `ToolsAreCurrent` of `PresetTool`, and
  `CycleWaitersMatched`, `CycleAnswersOwnCall`, `IterationsStayBounded` of
  `ToolCycle`.  The invariant of the first is types and `WaitersMatched`, with
  `CallsNumbered` and `WorkAsked` (a value the workflow still owes belongs to a
  call that was made, and calls have different numbers), `LockingFresh` (a call
  that waits for the lock has no result yet) and `ToolKnown`.  It is proved for
  callers that share flows too, where a second call displaces the first one's
  sender; the run has one flow per caller.  A step of the cycle is a step of
  `PresetTool` or leaves its variables alone, so the invariant carries over.
  `IterationsStayBounded` rests on `LoopInv`: the eviction queue holds the
  counted flows, each once (`Tracked`), and the count of a flow is at least the
  number of its messages that passed, the last of which is the one a repetition
  is compared with (`Counted`).
* `ToolCallsProofs`: `TypeCorrect`, `OneResult`, `Barriers`,
  `NotExecutedTwice`, `FinishedCallsReported`, `NothingStartsAfterAbort`, from
  one invariant.  `NotExecutedTwice` assumes nothing about ids: calls of one message
  that share an id all run, each once, since the filter looks at all of them before
  any is recorded (`tool.rs` 1342-1357); what is excluded is that a second message
  of the flow runs one of them again while the flow is tracked.  `Position` says how the calls divide at every program point:
  those with a result, the batch, the sequential one, those not looked at;
  `InFlight` which futures exist; `Outcomes` that a polled call is in flight or
  its outcome is its result; `Dedup` that the ids let through are recorded, that nothing but calls of
  this message was started for them, and that no tool was started for the calls
  still to come.  What
  `Pick` selects is proved by induction over the length of the message.
* `McpServerProofs`: `PagingIsExact` of `EventRing`, `ValidAgents` and
  `LastWriteStays` of `AgentConfigs`.  `RingInv`: both buffers are in the order of
  their seqs, none of which is beyond the counter, and no client's cursor is
  either; so a page cut off at its limit ends at its greatest seq, and the next
  one begins behind it.  `StateInv`: an agent has exactly the configs of its
  definition and number, and beside them at most `strays`, the keys that
  connections to "config:" ports have brought it; whatever waits in its mailbox, is left to a stopped loop
  or was read by a client is well formed, and agents that do not run have empty
  mailboxes.  `ValueInv`: for each config that is in no race, the last message
  that sets it, or else the agent, has the value that was asked for last
  (`Settles`).
* `SessionAndChannelProofs`, of `SessionStore`: `SessionTypeCorrect`,
  `AckedEntriesAlwaysKept`, `SessionImplementsLog`, `ContextAlwaysCurrent`, for any
  entries, compactions and number of faults.  `SessionInv` says how the file is
  laid out at every program point.  `Layout`: no half of a line is there twice,
  a second half stands behind its own first half, and a compaction stands behind
  the message it keeps.  `AckedLayout`: the second halves of acknowledged entries
  are there, in the order of the acknowledgements.  `CallLayout`: how much of its
  line the call in progress has written.  A first half without its second is what
  a failed call leaves; a line that does not parse is one that such a half stands
  before, so the entry on it is `Fused`, and `load` cuts nothing that ends in a
  newline.  The refinement is proved step by step: `Stored` gains one entry where
  the second half of a line is written, and no other step changes it.  For
  `ContextAlwaysCurrent` the loaded entries are in an order in which a compaction
  comes after what it keeps (`KeptBefore`), so that wherever `build_context`
  begins, it is not behind the last compaction: the context ends with all messages
  after that one, and its only summary is that one's.
* `SessionAndChannelProofs`, of `ExternalIO`: `IOTypeCorrect`,
  `AlwaysRegisteredOnce`, `WritesArriveInOrder`, `WritesNeverLost`, for any preset,
  connections, names, queues, callers and number of operations, with any mix of
  overlapping starts, stops and renames.  `IOInv` is the types, `RegisteredOnce` and
  `Busy`: an output agent that sends has a name.  `RegisteredOnce` follows itself
  from step to step because `start`, `stop` and `configs_changed` look at the same
  name that the property does, under the agent's lock, and because `retain` and
  `push` leave the other agents of a channel alone (`OthersKept`); `start` on an
  agent that is started adds a second entry and marks it `doubled`, `retain` takes
  out both.  `Busy` is what makes the value of an output agent go to a channel that
  exists; it needs the agent's lock, which keeps configs out while a process call of
  any of its loops lasts.  `WritesArriveInOrder` is `InWrittenOrder` for the
  channels that no output agent can name (`Direct`): its invariant `OrderInv` says
  that the values that wait for such a channel are in order, newer than its latest
  value and not newer than the last one written.  `WritesNeverLost` is the safety
  part of `EveryWriteRouted`: a written value is announced, in the queue or in the
  hands of the message loop, so that only the loop's progress is left to TLC.

`NoDanglingName`, `OneNamePerPreset`, `PooledServicePresent`, `RetriesElsewhere`,
`NoStaleTool`, `DirectInOrder` and `NoWriteLost` are stated by theorems alone, and so are most type invariants.
The inductive invariants were checked by TLC on the small instances before they
were proved.

**What the proofs found.**  `SpecConnectionRouted` and `BatchAllOrNothing` used
to be stated for all connections, and the run passed within its bounds.  The
proof attempt failed at the load of a preset.  A comment says "All IDs in the spec
(agents and connections) are regenerated to ensure uniqueness" (`preset.rs` 32);
`update_ids` (`id.rs` 30-41) keeps the end of a connection that belongs to no
agent of the file, which `remove_agent` can leave in the spec, and `new_id`
begins with 1 in every process.  Such an end may name an agent of another preset,
or one that a batch is about to create, and the connection is then removed with
that agent.  A save while `remove_agent` and an `add_connection` overlap can also
record one connection twice.  `strays` holds exactly these connections, the
properties now except them, and the theorems say that there is no other case.

Only model-checked: the liveness properties (`StopReturns`, `CancelledLoopEnds`,
`RemovedNameFreed`, `AbortEndsCalls`, `ShutdownReturns`,
`DroppedServiceCancelled`, `CallsEnd`, `EveryWriteRouted`), because the prover has
no ENABLED; the conversions (`ReloadStable`, `MessageSurvives`,
`CoercionStable`), which are recursive operators over nested data; and
`InWrittenOrder` for channels that output agents write to.  The last is a property
of the preset of its run and not of all presets: two paths of different length
to one channel let a later value arrive first, and so does a write to a channel
that agents write to as well.  Within the run's preset it excepts the behaviours
in which a loop has processed an input beside a later loop of the same agent
(`outdated`).  `SpecConnectionRouted` says nothing of connections whose agents are
gone, `AbortReachesFlow` nothing of contexts without a token, and no property of
the end of a loop that two overlapping starts have orphaned; the hazards of
`PROJECT.json` say so at their lines.  Recursive functions over lengths are within
reach, by the well-foundedness of the natural numbers, as for `Pick` and
`Concatenated`.

## 5. Plan

All parts with state are modelled, but for what section 7 leaves out, and every
safety property of the runs is proved, but for the four named at the end of
section 4.  What would be next:

1. Composition: `AgentLifecycle` with `ContextTokens`, so that an abort meets a
   stop.
2. Conversions as recursive functions over the depth of a value, so that
   `ReloadStable` can be proved by induction over it.

## 6. Behaviours of the code to know about

The models contain these; the properties are stated so that they hold with them.

* *An agent started after the stop.*  `Preset::stop` says that every agent has
  stopped when it drops its token (`preset.rs`).  A loop that is between the
  polls of its token and of `start()` (`modular_agent.rs` 1237) starts the agent
  afterwards.  Its token is fired, so it passes no further token poll, which is
  what `PresetStopSilencesLoops` says.
* *An input after the stop.*  The same holds of `process()` (`modular_agent.rs`
  1261): a loop between the two polls processes one input after `stop_agent` or
  `Preset::stop` has returned, even beside a loop that was started meanwhile.
* *A double start.*  `start_agent` reads the status and releases the lock
  (`modular_agent.rs` 1204-1210); two calls that both find Init spawn two loops, and
  each runs `start()`.  An input agent is then registered twice for its channel and
  gets every value twice, until it is stopped or renamed (`doubled` of
  `ExternalIO`); the slot knows the second loop only.
* *A preset that is removed and leaves agents.*  `remove_preset` is said to remove
  "all associated agents and connections" (`modular_agent.rs` 454).  It removes those
  of the spec it has locked: an agent that `add_agent` or a batch has put into the
  agents map and not yet into the spec (`modular_agent.rs` 753) stays for the rest of
  the process, as does one whose stop fails.  No call about the preset finds it.
  These are the `missed` of `PresetGraph`.
* *A dangling connection.*  `add_connection` looks its agents up before it waits for
  the preset (`modular_agent.rs` 798); one that is removed meanwhile leaves the
  connection in spec and routing table.
* *A route into another preset.*  The ids of a spec are said to be regenerated
  (`preset.rs` 32); the end of a connection whose agent was not saved keeps its
  id, and ids start afresh in a new process (`id.rs` 34), where it may be an
  agent of another preset.  These are the `strays` of `PresetGraph`.
* *A flow that outlives its abort.*  A cancelled token is said to live as long as
  any context of the flow (`modular_agent.rs` 1133-1153); a queued context that
  has none yet does not keep it alive, and is processed with a fresh token.
* *A fused line.*  A crash is said to lose at most the entry in flight
  (`session.rs` 26); an `append` behind a partial line, without a `load` in
  between, is fused to it (`session.rs` 323).
* *Gridlock.*  The message loop waits for room in a mailbox whose agent waits for
  room in the message loop's queue; nothing ends this but a stop of the agent
  (`Gridlocked` of `ExternalIO`).
* *Lost config updates.*  Two `set_agent_configs` over MCP that overlap lose an
  update, an `update_agent_spec` is undone by configs still in the mailbox, and a
  config set directly is undone by what a stopped loop has left.
  `ValueIsLastWritten` says that there are no other ways.
* *A guard that takes another call's sender.*  A comment in `tool.rs` (1176-1183)
  says that `PendingGuard` cannot remove a newer call's sender; callers that
  share a flow and run side by side, as through `CallToolAgent`, can displace
  each other, and the guard of the first removes the sender of the second.
  Neither is left waiting for good: its receiver ends with an error.
* *A late answer.*  After a timeout the workflow's value may reach the retry that
  the flow makes meanwhile (`AnswerReachesOwnCall` says when).
* *Undeclared configs.*  A connection to a port "config:key" is added if its handles
  are not empty (`modular_agent.rs` 791), and its values set any key
  (`modular_agent.rs` 1454-1483, `agent.rs` 310), whether the agent's definition
  declares it or not.  `OnlyValidAgents` says that nothing else does.
* *Images in saved messages.*  `Serialize` for `Message` writes an image as a data URL
  with its prefix (`llm.rs` 400), and `Deserialize` hands the whole text to
  `new_from_base64` (`llm.rs` 473-478), which cannot decode it; ports and old objects take the
  prefix off first (`value.rs` 187-190, `llm.rs` 861).  A saved message with an image
  cannot be read again, which `MessageSurvives` states.
* *Two ways to print a tensor.*  `to_json` widens the elements to f64 (`value.rs` 243),
  `Serialize` writes f32 (`value.rs` 811-812): 0.1 is 0.10000000149011612 in the one and
  0.1 in the other, and an element that is not finite is 0 in the one and null in
  the other.  `ReloadStable` excepts these and says that all else is the same.
* *One id twice in a message.*  Calls of one message that share an id all run
  (`tool.rs` 1342-1357).
* After two overlapping renames of one preset, the name it carries can differ
  from the one the index has for it, which is used for display only.
* A sequential tool call whose answer is ready when its flow is aborted is
  reported as aborted, because the token is polled first, while parallel calls
  keep such answers.
* `set_agent_configs` on an agent that does not run returns the error of
  `configs_changed` before it emits the events of the configs it has set.
* A message whose text looks like an encoded image cannot be read back through a
  port, and a tool call loses its id there.

## 7. Not modelled

Macros, static registration, the runtime's re-exports and the test utilities
have no behaviour of their own when the program runs.  Of the MCP server, HTTP,
the bearer check and the texts of answers are left out, and so are the tools
that only call one function of `ModularAgent`, which its component models.
Patches of presets (`update_preset_spec`) change extension fields that no
modelled operation reads.  `subscribe_to_event` forwards events to a queue of its
own; the origin of an edit is a label.  The builders of `AgentDefinition` fill in
a record, and global configs are a map that nobody but the API writes.  Errors
are told apart by where they occur and not by their texts, and a tensor is
the list of its elements, without a shape.  Time is left out: a timeout is a step
that may happen.  Memory orderings are not modelled; the shared flags are
accessed with acquire and release or under mutexes.
