------------------------------ MODULE McpPool ------------------------------
(***************************************************************************)
(* The pool of connections to MCP servers: tool calls that take a          *)
(* connection from it, fail, invalidate it and try once more; the          *)
(* registration of a server's tools; background cancellation; shutdown.    *)
(*                                                                         *)
(* The pool has an async mutex, which get_or_create holds while a server   *)
(* starts, and every connection one, which a call holds for its duration.  *)
(* The `dead` flags are outside of both.  A call through the pool may be   *)
(* dropped at any await, since call_tools drops the calls of an aborted    *)
(* flow; a call to a server may never return.                              *)
(***************************************************************************)
EXTENDS Naturals, FiniteSets

CONSTANTS
    Servers,    \* server names
    Callers,    \* tasks that use the pool
    NoServer,
    MaxConns,   \* bound: connections ever made
    MaxCalls    \* bound: calls ever made

ASSUME PoolAssumption ==
    /\ NoServer \notin Servers
    /\ MaxConns \in Nat
    /\ MaxCalls \in Nat

VARIABLES
    connections,  \* server -> its pooled connection, 0 for none
    made,         \* number of connections made
    service,      \* connection -> its service: "none" before it is made, "present",
                  \* "taken" out to be cancelled, or "cancelled"
    dead,         \* connections whose dead flag is set
    background,   \* connection -> its background cancellation: "none", "lock" or "cancel"
    call,         \* caller -> where its call is
    calls         \* number of calls made

poolVars == <<connections, made>>
connVars == <<service, dead, background>>
vars == <<poolVars, connVars, call, calls>>

Conns == 1 .. MaxConns

(* tool_call and register_tools_from_server: get, serve, lock, in_call,    *)
(* failed.  shutdown_all_mcp_connections: get, next, drain, cancel.        *)
CallPc == {"idle", "get", "serve", "lock", "in_call", "failed", "next", "drain", "cancel"}
Ops == {"tool_call", "register", "shutdown"}
Call == [pc : CallPc, op : Ops, server : Servers \cup {NoServer}, conn : 0 .. MaxConns,
         first : 0 .. MaxConns, todo : SUBSET Conns]
IdleCall == [pc |-> "idle", op |-> "tool_call", server |-> NoServer, conn |-> 0,
             first |-> 0, todo |-> {}]

Init ==
    /\ connections = [s \in Servers |-> 0]
    /\ made = 0
    /\ service = [k \in Conns |-> "none"]
    /\ dead = {}
    /\ background = [k \in Conns |-> "none"]
    /\ call = [c \in Callers |-> IdleCall]
    /\ calls = 0

Goto(c, pc) == call' = [call EXCEPT ![c].pc = pc]
Return(c) == call' = [call EXCEPT ![c] = IdleCall]

(* The pool lock is held across an await only while a server starts. *)
PoolLocked == \E c \in Callers : call[c].pc = "serve"

(* The connection's lock is held. *)
Busy(k) ==
    \/ background[k] = "cancel"
    \/ \E c \in Callers : call[c].conn = k /\ call[c].pc \in {"in_call", "cancel"}

-----------------------------------------------------------------------------
Begin(c, op, s) ==
    /\ call[c].pc = "idle"
    /\ calls < MaxCalls
    /\ calls' = calls + 1
    /\ op = "shutdown" <=> s = NoServer
    /\ call' = [call EXCEPT ![c] = [IdleCall EXCEPT !.pc = "get", !.op = op, !.server = s]]
    /\ UNCHANGED <<poolVars, connVars>>

(* The first attempt has failed: the retry invalidates before it gets a    *)
(* connection.                                                             *)
Retries(c) == call[c].first # 0

(* Variant: whatever connection the server has is dropped. *)
InvalidateAny(c) == {connections[call[c].server]} \cap {k \in Conns : Retries(c)}

(* The connections that invalidate drops. *)
Invalidate(c) == {connections[call[c].server]} \cap {k \in dead : Retries(c)}

(* The pooled connection get_or_create finds to be of no use: marked dead, *)
(* or not busy and without its service.                                    *)
Stale(c) == {connections[call[c].server]} \cap
                {k \in Conns : k \in dead \/ (~Busy(k) /\ service[k] # "present")}

(* get_or_create returns the pooled connection ... *)
GetReuse(c) ==
    /\ call[c].pc = "get" /\ call[c].op # "shutdown"
    /\ ~PoolLocked
    /\ connections[call[c].server] # 0
    /\ Invalidate(c) \cup Stale(c) = {}
    /\ call' = [call EXCEPT ![c].pc = "lock", ![c].conn = connections[call[c].server]]
    /\ UNCHANGED <<poolVars, connVars, calls>>

(* cancel_in_background, for the connections in D. *)
CancelInBackground(D) ==
    /\ dead' = dead \cup D
    /\ background' = [k \in Conns |-> IF k \in D THEN "lock" ELSE background[k]]

(* Variant: a stale connection is dropped and left alone. *)
GetForgets(c) ==
    /\ call[c].pc = "get" /\ call[c].op # "shutdown"
    /\ ~PoolLocked
    /\ Invalidate(c) \cup Stale(c) = {} => connections[call[c].server] = 0
    /\ connections' = [connections EXCEPT ![call[c].server] = 0]
    /\ Goto(c, "serve")
    /\ UNCHANGED <<made, connVars, calls>>

(* ... or drops it, if there is one, and starts the server. *)
GetCreate(c) ==
    /\ call[c].pc = "get" /\ call[c].op # "shutdown"
    /\ ~PoolLocked
    /\ Invalidate(c) \cup Stale(c) = {} => connections[call[c].server] = 0
    /\ CancelInBackground(Invalidate(c) \cup Stale(c))
    /\ connections' = [connections EXCEPT ![call[c].server] = 0]
    /\ Goto(c, "serve")
    /\ UNCHANGED <<made, service, calls>>

(* The server has started, and its connection is pooled ... *)
ServeOk(c) ==
    /\ call[c].pc = "serve"
    /\ made < MaxConns
    /\ made' = made + 1
    /\ service' = [service EXCEPT ![made + 1] = "present"]
    /\ connections' = [connections EXCEPT ![call[c].server] = made + 1]
    /\ call' = [call EXCEPT ![c].pc = "lock", ![c].conn = made + 1]
    /\ UNCHANGED <<dead, background, calls>>

(* ... or it has not. *)
ServeErr(c) ==
    /\ call[c].pc = "serve"
    /\ Return(c)
    /\ UNCHANGED <<poolVars, connVars, calls>>

(* call_once, or list_tools: with the connection's lock the service is     *)
(* called, if it is there.                                                 *)
LockConn(c) ==
    /\ call[c].pc = "lock"
    /\ ~Busy(call[c].conn)
    /\ Goto(c, IF service[call[c].conn] = "present" THEN "in_call" ELSE "failed")
    /\ UNCHANGED <<poolVars, connVars, calls>>

CallOk(c) ==
    /\ call[c].pc = "in_call"
    /\ Return(c)
    /\ UNCHANGED <<poolVars, connVars, calls>>

(* The transport or the protocol fails; the lock is released. *)
CallErr(c) ==
    /\ call[c].pc = "in_call"
    /\ Goto(c, "failed")
    /\ UNCHANGED <<poolVars, connVars, calls>>

(* The call is made once more. *)
Retry(c) ==
    call' = [call EXCEPT ![c] = [IdleCall EXCEPT !.pc = "get", !.server = call[c].server,
                                                 !.first = call[c].conn]]

(* A failed tool call marks its connection dead, and is made once more.    *)
(* A failed listing only returns.                                          *)
Failed(c) ==
    /\ call[c].pc = "failed"
    /\ dead' = dead \cup (IF call[c].op = "tool_call" THEN {call[c].conn} ELSE {})
    /\ IF call[c].op = "tool_call" /\ ~Retries(c)
       THEN Retry(c)
       ELSE Return(c)
    /\ UNCHANGED <<poolVars, service, background, calls>>

(* The flow of the call is aborted: its future is dropped where it waits,  *)
(* and with it the locks it holds or the server it starts.                 *)
Dropped(c) ==
    /\ call[c].pc \in {"get", "serve", "lock", "in_call"}
    /\ call[c].op = "tool_call"
    /\ Return(c)
    /\ UNCHANGED <<poolVars, connVars, calls>>

-----------------------------------------------------------------------------
(* The task spawned by cancel_in_background. *)
Take(k) == service' = IF service[k] = "present" THEN [service EXCEPT ![k] = "taken"] ELSE service

BackgroundLock(k) ==
    /\ background[k] = "lock"
    /\ ~Busy(k)
    /\ Take(k)
    /\ background' = [background EXCEPT ![k] = IF service[k] = "present" THEN "cancel" ELSE "none"]
    /\ UNCHANGED <<poolVars, dead, call, calls>>

(* Variant: the service is never cancelled. *)
BackgroundStuck(k) == FALSE /\ UNCHANGED vars

BackgroundCancelled(k) ==
    /\ background[k] = "cancel"
    /\ service' = [service EXCEPT ![k] = "cancelled"]
    /\ background' = [background EXCEPT ![k] = "none"]
    /\ UNCHANGED <<poolVars, dead, call, calls>>

-----------------------------------------------------------------------------
(* shutdown_all_mcp_connections: the pool is emptied, then one connection  *)
(* after the other is marked, locked and cancelled.                        *)
TakeAll(c) ==
    /\ call[c].pc = "get" /\ call[c].op = "shutdown"
    /\ ~PoolLocked
    /\ call' = [call EXCEPT ![c].pc = "next", ![c].todo = {connections[s] : s \in Servers} \ {0}]
    /\ connections' = [s \in Servers |-> 0]
    /\ UNCHANGED <<made, connVars, calls>>

DrainNext(c, k) ==
    /\ call[c].pc = "next"
    /\ k \in call[c].todo
    /\ dead' = dead \cup {k}
    /\ call' = [call EXCEPT ![c].pc = "drain", ![c].conn = k, ![c].todo = @ \ {k}]
    /\ UNCHANGED <<poolVars, service, background, calls>>

DrainLock(c) ==
    /\ call[c].pc = "drain"
    /\ ~Busy(call[c].conn)
    /\ Take(call[c].conn)
    /\ Goto(c, IF service[call[c].conn] = "present" THEN "cancel" ELSE "next")
    /\ UNCHANGED <<poolVars, dead, background, calls>>

(* Variant: shutdown waits for the lock, for as long as it takes. *)
DrainWaits(c) == FALSE /\ UNCHANGED vars

(* The lock was not to be had in five seconds. *)
DrainTimeout(c) ==
    /\ call[c].pc = "drain"
    /\ Busy(call[c].conn)
    /\ CancelInBackground({call[c].conn})
    /\ Goto(c, "next")
    /\ UNCHANGED <<poolVars, service, calls>>

DrainCancelled(c) ==
    /\ call[c].pc = "cancel"
    /\ service' = [service EXCEPT ![call[c].conn] = "cancelled"]
    /\ Goto(c, "next")
    /\ UNCHANGED <<poolVars, dead, background, calls>>

DrainDone(c) ==
    /\ call[c].pc = "next"
    /\ call[c].todo = {}
    /\ Return(c)
    /\ UNCHANGED <<poolVars, connVars, calls>>

-----------------------------------------------------------------------------
CallStep(c) ==
    \/ GetReuse(c) \/ GetCreate(c) \/ ServeOk(c) \/ ServeErr(c) \/ LockConn(c) \/ Failed(c)
    \/ TakeAll(c) \/ DrainLock(c) \/ DrainTimeout(c) \/ DrainCancelled(c) \/ DrainDone(c)
    \/ \E k \in Conns : DrainNext(c, k)

BackgroundStep(k) == BackgroundLock(k) \/ BackgroundCancelled(k)

(* What the server and the flow do with a call. *)
CallEnds(c) == CallOk(c) \/ CallErr(c) \/ Dropped(c)

Next ==
    \/ \E c \in Callers :
          \/ CallStep(c) \/ CallEnds(c)
          \/ \E op \in Ops, s \in Servers \cup {NoServer} : Begin(c, op, s)
    \/ \E k \in Conns : BackgroundStep(k)

Spec == Init /\ [][Next]_vars

(* Woken tasks are polled, a server that is started either starts or       *)
(* fails, and cancel() returns; a call to a server may hang.               *)
Fairness ==
    /\ \A c \in Callers : WF_vars(CallStep(c))
    /\ \A k \in Conns : WF_vars(BackgroundStep(k))

FairSpec == Spec /\ Fairness

-----------------------------------------------------------------------------
(* Types of all variables. *)
TypeOK ==
    /\ connections \in [Servers -> 0 .. MaxConns]
    /\ made \in 0 .. MaxConns
    /\ service \in [Conns -> {"none", "present", "taken", "cancelled"}]
    /\ dead \subseteq Conns
    /\ background \in [Conns -> {"none", "lock", "cancel"}]
    /\ call \in [Callers -> Call]
    /\ calls \in Nat

Pooled(k) == \E s \in Servers : connections[s] = k

(* Shutdown c has taken connection k and is not done with it. *)
Draining(c, k) ==
    /\ call[c].op = "shutdown"
    /\ k \in call[c].todo \/ (call[c].conn = k /\ call[c].pc \in {"drain", "cancel"})

(* "a busy connection has an in-flight call, which implies its service is  *)
(* still present": what is in the pool is not being cancelled by anyone,   *)
(* so a caller that gets a connection from it gets one with its service.   *)
PooledServicePresent ==
    \A k \in Conns : Pooled(k) =>
        /\ service[k] = "present"
        /\ background[k] = "none"
        /\ \A c \in Callers : ~Draining(c, k)

(* No server is left running that nobody knows of: each service is in the  *)
(* pool, or a task has taken it on itself to cancel it.                    *)
NoServerForgotten ==
    \A k \in Conns : service[k] \in {"present", "taken"} =>
        Pooled(k) \/ background[k] # "none" \/ \E c \in Callers : Draining(c, k)

(* The inductive strengthening of the two, and of what follows.  A call    *)
(* has the fields its operation and place call for, and a retry's first    *)
(* connection is marked dead.                                              *)
CallInv ==
    \A c \in Callers :
        /\ call[c].op = "shutdown" <=> call[c].pc \in {"next", "drain", "cancel"}
                                        \/ (call[c].pc = "get" /\ call[c].server = NoServer)
        /\ call[c].pc \in {"serve", "lock", "in_call", "failed"} => call[c].server \in Servers
        /\ call[c].pc \in {"lock", "in_call", "failed", "drain", "cancel"} => call[c].conn # 0
        /\ call[c].pc \in {"drain", "cancel"} => call[c].conn \notin call[c].todo
        /\ call[c].pc \notin {"next", "drain", "cancel"} => call[c].todo = {}
        /\ call[c].op = "shutdown" => call[c].first = 0
        /\ call[c].conn <= made
        /\ Retries(c) => call[c].first \in dead /\ call[c].first # call[c].conn

(* Who starts a server has the pool for itself, and nothing is pooled in   *)
(* the place of its connection.                                            *)
ServeInv ==
    \A c \in Callers : call[c].pc = "serve" =>
        /\ connections[call[c].server] = 0
        /\ \A d \in Callers : call[d].pc = "serve" => d = c

(* A service that is not cancelled belongs to exactly one of: a place in   *)
(* the pool, a background task, a shutdown.                                *)
OneOwner(k) ==
    /\ service[k] = "none" <=> k > made
    /\ k \in dead => k <= made
    /\ service[k] \in {"present", "taken"} <=>
          Pooled(k) \/ background[k] # "none" \/ \E c \in Callers : Draining(c, k)
    /\ Pooled(k) => background[k] = "none" /\ service[k] = "present"
    /\ \A c \in Callers : Draining(c, k) => ~Pooled(k) /\ background[k] = "none"
    /\ \A c, d \in Callers : Draining(c, k) /\ Draining(d, k) => c = d
    /\ \A s, t \in Servers : connections[s] = k /\ connections[t] = k => s = t
    /\ background[k] = "lock" => service[k] = "present"
    /\ \A c \in Callers : (Draining(c, k) /\ (call[c].pc = "cancel" => k \in call[c].todo))
          => service[k] = "present"

OwnerInv == \A k \in Conns : OneOwner(k)

PoolInv == TypeOK /\ CallInv /\ ServeInv /\ OwnerInv

(* "late invalidations from concurrently failed calls [are] no-ops once a  *)
(* healthy replacement connection is in the pool": a connection that is    *)
(* not marked dead leaves the pool by a shutdown only.                     *)
HealthyConnectionKept ==
    [][\A s \in Servers :
        (connections[s] # 0 /\ connections'[s] # connections[s]) =>
            \/ connections[s] \in dead
            \/ \E c \in Callers : call[c].op = "shutdown" /\ call[c].pc = "get"
                                  /\ call'[c].pc = "next"]_vars

(* The second attempt of a call is made on another connection than the     *)
(* first, even if other callers replace the connection meanwhile.          *)
RetriesElsewhere ==
    \A c \in Callers : Retries(c) => call[c].conn # call[c].first

(* shutdown_all_mcp_connections returns, even if a call hangs.             *)
ShutdownReturns ==
    \A c \in Callers :
        (call[c].op = "shutdown" /\ call[c].pc # "idle") ~> call[c].pc = "idle"

(* A service that was dropped from the pool is cancelled, unless a call    *)
(* keeps its connection forever.                                           *)
DroppedServiceCancelled ==
    \A k \in Conns :
        \/ (service[k] = "present" /\ ~Pooled(k)) ~> service[k] = "cancelled"
        \/ <>[](\E c \in Callers : call[c].conn = k /\ call[c].pc = "in_call")
=============================================================================
