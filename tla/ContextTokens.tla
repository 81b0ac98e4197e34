--------------------------- MODULE ContextTokens ---------------------------
(***************************************************************************)
(* Cancellation of one flow.  Every context clone of a flow carries the    *)
(* flow's cancellation token, once an agent loop has attached it; the      *)
(* orchestrator keeps only a Weak reference per flow (context_tokens), so  *)
(* that a token lives exactly as long as some clone carries it.            *)
(* abort_context cancels the token it finds.                               *)
(*                                                                         *)
(* A clone is in the central channel (message::agent_out hands it to the   *)
(* targets one by one), in an agent's mailbox, or in the process() an      *)
(* agent is running.                                                       *)
(***************************************************************************)
EXTENDS Naturals, Sequences, FiniteSets, Functions

CONSTANTS
    Agents,
    Flows,       \* context ids (bound: contexts ever created)
    Entry,       \* the agents an external input goes to, in order
    Targets,     \* agent -> the agents its output goes to, in order
    Threshold,   \* CONTEXT_TOKEN_PRUNE_THRESHOLD
    NoFlow,
    MaxSends     \* bound: messages ever sent

ASSUME ContextAssumption ==
    /\ IsFiniteSet(Flows)
    /\ NoFlow \notin Flows
    /\ Entry \in Seq(Agents)
    /\ Targets \in [Agents -> Seq(Agents)]
    /\ Threshold \in Nat
    /\ MaxSends \in Nat

VARIABLES
    begun,           \* flows whose context was created
    wire,            \* the central channel: a context and the targets it has yet to reach
    mailbox,         \* agent -> the contexts of its queued inputs
    running,         \* agent -> the context of the process() it runs
    context_tokens,  \* flow -> the token the registry refers to, 0 for no entry
    nextToken,       \* the token created next
    fired,           \* tokens that were cancelled
    aborted,         \* flows abort_context returned true for
    sends            \* number of messages sent

tokenVars == <<begun, wire, mailbox, running, context_tokens, nextToken, fired, aborted, sends>>

(* AgentContext: its id and its token, 0 before one is attached. *)
Context == [flow : Flows, token : Nat]
NoContext == [flow |-> NoFlow, token |-> 0]

(* The contexts that exist, and the tokens they keep alive. *)
OnWire == {wire[i].ctx : i \in DOMAIN wire}
Queued == UNION {Range(mailbox[a]) : a \in Agents}
InProcess == {running[a] : a \in Agents}
Held == OnWire \cup Queued \cup InProcess
Live(t) == t # 0 /\ \E ctx \in Held : ctx.token = t

TokenInit ==
    /\ begun = {}
    /\ wire = <<>>
    /\ mailbox = [a \in Agents |-> <<>>]
    /\ running = [a \in Agents |-> NoContext]
    /\ context_tokens = [f \in Flows |-> 0]
    /\ nextToken = 1
    /\ fired = {}
    /\ aborted = {}
    /\ sends = 0

Send(ctx, to) ==
    /\ sends < MaxSends
    /\ sends' = sends + 1
    /\ wire' = Append(wire, [ctx |-> ctx, to |-> to])

(* write_external_input: a new context, without a token. *)
WriteExternalInput(f) ==
    /\ f \notin begun
    /\ begun' = begun \cup {f}
    /\ Send([flow |-> f, token |-> 0], Entry)
    /\ UNCHANGED <<mailbox, running, context_tokens, nextToken, fired, aborted>>

(* The message loop hands a clone to its next target, or finds the target  *)
(* without a mailbox ...                                                   *)
Deliver ==
    /\ wire # <<>>
    /\ Head(wire).to # <<>>
    /\ wire' = [wire EXCEPT ![1].to = Tail(@)]
    /\ \/ mailbox' = [mailbox EXCEPT ![Head(Head(wire).to)] = Append(@, Head(wire).ctx)]
       \/ UNCHANGED mailbox
    /\ UNCHANGED <<begun, running, context_tokens, nextToken, fired, aborted, sends>>

(* ... and drops its own when all targets had theirs.                      *)
Delivered ==
    /\ wire # <<>>
    /\ Head(wire).to = <<>>
    /\ wire' = Tail(wire)
    /\ UNCHANGED <<begun, mailbox, running, context_tokens, nextToken, fired, aborted, sends>>

Entries == {f \in Flows : context_tokens[f] # 0}

(* Variant: the registry is cleared, live entries too. *)
PrunedAll == [f \in Flows |-> 0]

(* Variant: pruning starts one entry late. *)
PrunedLate ==
    IF Cardinality(Entries) <= Threshold THEN context_tokens
    ELSE [f \in Flows |-> IF Live(context_tokens[f]) THEN context_tokens[f] ELSE 0]

(* The registry as context_token finds it before it inserts: entries of    *)
(* finished flows leave once it has reached the threshold.                 *)
Pruned ==
    IF Cardinality(Entries) < Threshold THEN context_tokens
    ELSE [f \in Flows |-> IF Live(context_tokens[f]) THEN context_tokens[f] ELSE 0]

(* The loop takes an input and attaches the flow's token to a context that *)
(* has none: the registered one if it is alive, a new one otherwise.       *)
Dispatch(a) ==
    /\ running[a] = NoContext
    /\ mailbox[a] # <<>>
    /\ mailbox' = [mailbox EXCEPT ![a] = Tail(@)]
    /\ LET ctx == Head(mailbox[a])
           f == ctx.flow
       IN \/ /\ ctx.token # 0
             /\ running' = [running EXCEPT ![a] = ctx]
             /\ UNCHANGED <<context_tokens, nextToken>>
          \/ /\ ctx.token = 0
             /\ Live(context_tokens[f])
             /\ running' = [running EXCEPT ![a] = [flow |-> f, token |-> context_tokens[f]]]
             /\ UNCHANGED <<context_tokens, nextToken>>
          \/ /\ ctx.token = 0
             /\ ~Live(context_tokens[f])
             /\ context_tokens' = [Pruned EXCEPT ![f] = nextToken]
             /\ nextToken' = nextToken + 1
             /\ running' = [running EXCEPT ![a] = [flow |-> f, token |-> nextToken]]
    /\ UNCHANGED <<begun, wire, fired, aborted, sends>>

(* process() sends an output, with a clone of the context. *)
Emit(a) ==
    /\ running[a] # NoContext
    /\ Send(running[a], Targets[a])
    /\ UNCHANGED <<begun, mailbox, running, context_tokens, nextToken, fired, aborted>>

(* process() returns, or its future is dropped. *)
Finish(a) ==
    /\ running[a] # NoContext
    /\ running' = [running EXCEPT ![a] = NoContext]
    /\ UNCHANGED <<begun, wire, mailbox, context_tokens, nextToken, fired, aborted, sends>>

(* abort_context: the token of a live flow is cancelled and the call       *)
(* returns true; it returns false, and does nothing, for any other.        *)
AbortContext(f) ==
    /\ Live(context_tokens[f])
    /\ fired' = fired \cup {context_tokens[f]}
    /\ aborted' = aborted \cup {f}
    /\ UNCHANGED <<begun, wire, mailbox, running, context_tokens, nextToken, sends>>

TokenNext ==
    \/ \E f \in Flows : WriteExternalInput(f) \/ AbortContext(f)
    \/ Deliver \/ Delivered
    \/ \E a \in Agents : Dispatch(a) \/ Emit(a) \/ Finish(a)

TokenSpec == TokenInit /\ [][TokenNext]_tokenVars

-----------------------------------------------------------------------------
(* Types of all variables; only tokens that were created are registered    *)
(* and cancelled.                                                          *)
TokenTypeOK ==
    /\ begun \subseteq Flows
    /\ wire \in Seq([ctx : Context, to : Seq(Agents)])
    /\ mailbox \in [Agents -> Seq(Context)]
    /\ running \in [Agents -> Context \cup {NoContext}]
    /\ nextToken \in Nat \ {0}
    /\ context_tokens \in [Flows -> 0 .. (nextToken - 1)]
    /\ fired \subseteq 1 .. (nextToken - 1)
    /\ aborted \subseteq Flows
    /\ sends \in Nat

(* All clones of a flow that carry a token carry the one abort_context     *)
(* would cancel: pruning never evicts the entry of a live flow, and no     *)
(* two agents of a fan-out give one flow two tokens at the same time.      *)
OneTokenPerFlow ==
    \A ctx \in Held : ctx.token # 0 => context_tokens[ctx.flow] = ctx.token

(* When abort_context returns true, every process() that is running for    *)
(* the flow, and every queued context of it that has a token, sees the     *)
(* cancellation.                                                           *)
AbortReachesFlow ==
    [][\A f \in aborted' \ aborted : \A ctx \in Held :
        (ctx.flow = f /\ ctx.token # 0) => ctx.token \in fired']_tokenVars

(* Pruning bounds the registry: a token that takes it beyond the threshold *)
(* leaves no entry of a finished flow in it.                               *)
PrunedBeyondThreshold ==
    [][(Cardinality(Entries') > Cardinality(Entries) /\ Cardinality(Entries') > Threshold)
        => \A f \in Entries' : Live(context_tokens[f])']_tokenVars
=============================================================================
