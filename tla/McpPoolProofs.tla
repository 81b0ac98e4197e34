--------------------------- MODULE McpPoolProofs ---------------------------
(***************************************************************************)
(* Who owns a connection to an MCP server, for any number of servers,      *)
(* callers and connections.                                                *)
(***************************************************************************)
EXTENDS McpPool, TLAPS

USE PoolAssumption

(* What a step of caller c does to the calls: c is at pc with connection   *)
(* k, has first tried f and has yet to drain D; the others stay where they *)
(* are.                                                                    *)
Moves(c, pc, op, s, k, f, D) ==
    /\ call' \in [Callers -> Call]
    /\ call'[c].pc = pc /\ call'[c].op = op /\ call'[c].server = s
    /\ call'[c].conn = k /\ call'[c].first = f /\ call'[c].todo = D
    /\ \A d \in Callers \ {c} : call'[d] = call[d]

(* The fields of a call have their types. *)
LEMMA CallFields ==
  ASSUME TypeOK, NEW c \in Callers
  PROVE  /\ call[c].pc \in CallPc /\ call[c].op \in Ops
         /\ call[c].server \in Servers \cup {NoServer}
         /\ call[c].conn \in 0 .. MaxConns /\ call[c].first \in 0 .. MaxConns
         /\ call[c].todo \in SUBSET Conns
BY DEF TypeOK, Call

(* Going on changes the place only. *)
LEMMA GotoMoves ==
  ASSUME TypeOK, NEW c \in Callers, NEW pc \in CallPc, Goto(c, pc)
  PROVE  Moves(c, pc, call[c].op, call[c].server, call[c].conn, call[c].first, call[c].todo)
BY DEF TypeOK, Goto, Moves, Call

(* The call of a caller that is in none. *)
LEMMA IdleCallType ==
  /\ IdleCall \in Call
  /\ IdleCall.pc = "idle" /\ IdleCall.op = "tool_call" /\ IdleCall.server = NoServer
  /\ IdleCall.conn = 0 /\ IdleCall.first = 0 /\ IdleCall.todo = {}
BY DEF IdleCall, Call, CallPc, Ops, Conns

(* A call that returns refers to nothing. *)
LEMMA ReturnMoves ==
  ASSUME TypeOK, NEW c \in Callers, Return(c)
  PROVE  Moves(c, "idle", "tool_call", NoServer, 0, 0, {})
BY IdleCallType DEF TypeOK, Return, Moves

-----------------------------------------------------------------------------
(* A step that leaves the pool and the connections alone, and with which a *)
(* caller neither enters nor leaves a drain or the start of a server,      *)
(* keeps who owns what.                                                    *)
LEMMA OwnersKept ==
  ASSUME PoolInv, NEW c \in Callers, UNCHANGED <<poolVars, service, background>>,
         NEW pc, NEW op, NEW s, NEW k, NEW f,
         Moves(c, pc, op, s, k, f, {}), call[c].todo = {},
         pc \notin {"serve", "next", "drain", "cancel"},
         call[c].pc \notin {"drain", "cancel"},
         \A h \in dead' : h \in Conns /\ h <= made
  PROVE  ServeInv' /\ OwnerInv'
<1>1. \A h \in Conns : \A d \in Callers : Draining(d, h)' = Draining(d, h)
  BY DEF Moves, Draining
<1>2. \A h \in Conns : Pooled(h)' = Pooled(h)
  BY DEF poolVars, Pooled
<1>3. \A d \in Callers : \A h \in Conns : Draining(d, h) => d # c
  BY DEF Draining
<1>4. ServeInv'
  BY DEF PoolInv, ServeInv, Moves, poolVars
<1>5. OwnerInv'
  BY <1>1, <1>2, <1>3 DEF PoolInv, OwnerInv, OneOwner, poolVars, Moves
<1> QED
  BY <1>4, <1>5

(* CallInv, of a call that a step has brought here. *)
Shape(pc, op, s, k, f, D) ==
    /\ op = "shutdown" <=> pc \in {"next", "drain", "cancel"} \/ (pc = "get" /\ s = NoServer)
    /\ pc \in {"serve", "lock", "in_call", "failed"} => s \in Servers
    /\ pc \in {"lock", "in_call", "failed", "drain", "cancel"} => k # 0
    /\ pc \in {"drain", "cancel"} => k \notin D
    /\ pc \notin {"next", "drain", "cancel"} => D = {}
    /\ op = "shutdown" => f = 0
    /\ k <= made'
    /\ f # 0 => f \in dead' /\ f # k

(* The other calls keep their shape, as connections are only added and     *)
(* marked.                                                                 *)
LEMMA CallKept ==
  ASSUME TypeOK, CallInv, NEW c \in Callers,
         NEW pc, NEW op, NEW s, NEW k, NEW f, NEW D,
         Moves(c, pc, op, s, k, f, D), Shape(pc, op, s, k, f, D),
         made' \in Nat, made <= made', dead \subseteq dead'
  PROVE  CallInv'
<1>1. \A d \in Callers : call[d].conn \in Nat /\ made \in Nat
  BY CallFields DEF TypeOK
<1> QED
  BY <1>1 DEF CallInv, Moves, Shape, Retries

-----------------------------------------------------------------------------
(* A call begins. *)
LEMMA BeginInv ==
  ASSUME PoolInv, NEW c \in Callers, NEW op \in Ops, NEW s \in Servers \cup {NoServer},
         Begin(c, op, s)
  PROVE  PoolInv'
<1>0. TypeOK /\ CallInv
  BY DEF PoolInv
<1>1. Moves(c, "get", op, s, 0, 0, {})
  <2>1. [IdleCall EXCEPT !.pc = "get", !.op = op, !.server = s] \in Call
    BY IdleCallType DEF Call, CallPc
  <2>2. QED
    BY <1>0, <2>1 DEF Begin, Moves, TypeOK, IdleCall
<1>2. TypeOK'
  BY <1>0, <1>1 DEF TypeOK, Begin, Moves, poolVars, connVars
<1>3. CallInv'
  <2>1. Shape("get", op, s, 0, 0, {})
    BY <1>0 DEF Begin, Shape, Ops, TypeOK, poolVars
  <2>2. QED
    BY <1>0, <1>1, <2>1, CallKept DEF Begin, TypeOK, poolVars, connVars
<1>4. ServeInv' /\ OwnerInv'
  <2>1. call[c].todo = {} /\ call[c].pc = "idle"
    BY <1>0 DEF CallInv, Begin
  <2>2. \A h \in dead' : h \in Conns /\ h <= made
    BY <1>0 DEF PoolInv, OwnerInv, OneOwner, TypeOK, Begin, connVars
  <2>3. QED
    BY <1>1, <2>1, <2>2, OwnersKept DEF Begin, connVars
<1> QED
  BY <1>2, <1>3, <1>4 DEF PoolInv

(* A call of a tool or of list_tools moves without the pool or the         *)
(* connections changing.                                                   *)
LEMMA CallMoveInv ==
  ASSUME PoolInv, NEW c \in Callers,
         GetReuse(c) \/ ServeErr(c) \/ LockConn(c) \/ CallOk(c) \/ CallErr(c) \/ Dropped(c)
  PROVE  PoolInv'
<1>0. TypeOK /\ CallInv
  BY DEF PoolInv
<1>u. UNCHANGED <<poolVars, connVars, calls>>
  BY DEF GetReuse, ServeErr, LockConn, CallOk, CallErr, Dropped
<1>s. call[c].todo = {} /\ call[c].op # "shutdown" /\ call[c].pc \notin {"next", "drain", "cancel"}
  <2>1. call[c].op # "shutdown"
    BY <1>0 DEF CallInv, GetReuse, ServeErr, LockConn, CallOk, CallErr, Dropped
  <2>2. QED
    BY <1>0, <2>1 DEF CallInv
<1>1. \E pc \in CallPc, op \in Ops, s \in Servers \cup {NoServer},
          k \in 0 .. MaxConns, f \in 0 .. MaxConns :
         /\ Moves(c, pc, op, s, k, f, {})
         /\ Shape(pc, op, s, k, f, {})
         /\ pc \notin {"serve", "next", "drain", "cancel"}
  <2>1. CASE ServeErr(c) \/ CallOk(c) \/ Dropped(c)
    <3>1. Moves(c, "idle", "tool_call", NoServer, 0, 0, {})
      BY <1>0, <2>1, ReturnMoves DEF ServeErr, CallOk, Dropped
    <3>2. Shape("idle", "tool_call", NoServer, 0, 0, {})
      BY <1>0, <1>u DEF Shape, TypeOK, poolVars
    <3>3. QED
      BY <3>1, <3>2 DEF CallPc, Ops
  <2>2. CASE LockConn(c) \/ CallErr(c)
    <3>1. PICK pc \in {"in_call", "failed"} : Goto(c, pc)
      BY <2>2 DEF LockConn, CallErr
    <3>2. pc \in CallPc /\ call[c].op \in Ops /\ call[c].server \in Servers \cup {NoServer}
      BY <1>0, CallFields DEF CallPc
    <3>3. Moves(c, pc, call[c].op, call[c].server, call[c].conn, call[c].first, {})
      BY <1>0, <1>s, <3>1, <3>2, GotoMoves
    <3>4. Shape(pc, call[c].op, call[c].server, call[c].conn, call[c].first, {})
      BY <1>0, <1>u, <1>s, <2>2 DEF CallInv, Shape, LockConn, CallErr, Retries, poolVars, connVars
    <3>5. call[c].conn \in 0 .. MaxConns /\ call[c].first \in 0 .. MaxConns
      BY <1>0, CallFields
    <3>6. QED
      BY <3>1, <3>2, <3>3, <3>4, <3>5
  <2>3. CASE GetReuse(c)
    <3> DEFINE k == connections[call[c].server]
    <3>1. /\ call[c].pc = "get" /\ call[c].server \in Servers
          /\ k \in Conns /\ k \notin dead /\ k <= made
      <4>1. call[c].server \in Servers
        BY <1>0, <1>s, <2>3, CallFields DEF GetReuse, CallInv
      <4>2. k \in Conns /\ Pooled(k)
        BY <1>0, <2>3, <4>1 DEF GetReuse, TypeOK, Pooled, Conns
      <4>3. service[k] = "present" /\ k <= made
        BY <1>0, <4>2 DEF PoolInv, OwnerInv, OneOwner, TypeOK, Conns
      <4>4. k \notin dead
        BY <2>3, <4>2 DEF GetReuse, Stale
      <4>5. QED
        BY <2>3, <4>1, <4>2, <4>3, <4>4 DEF GetReuse
    <3>2. call' = [call EXCEPT ![c].pc = "lock", ![c].conn = k]
      BY <2>3 DEF GetReuse
    <3>3. Moves(c, "lock", call[c].op, call[c].server, k, call[c].first, {})
      BY <1>0, <1>s, <3>1, <3>2 DEF Moves, TypeOK, Call, CallPc, Conns
    <3>4. Shape("lock", call[c].op, call[c].server, k, call[c].first, {})
      BY <1>0, <1>u, <1>s, <3>1 DEF Shape, CallInv, Retries, poolVars, connVars, Conns
    <3>5. /\ call[c].op \in Ops /\ call[c].first \in 0 .. MaxConns
          /\ k \in 0 .. MaxConns /\ "lock" \in CallPc
      BY <1>0, <3>1, CallFields DEF CallPc, Conns
    <3>6. QED
      BY <3>1, <3>3, <3>4, <3>5
  <2>4. QED
    BY <2>1, <2>2, <2>3
<1>2. PICK pc \in CallPc, op \in Ops, s \in Servers \cup {NoServer},
          k \in 0 .. MaxConns, f \in 0 .. MaxConns :
         /\ Moves(c, pc, op, s, k, f, {})
         /\ Shape(pc, op, s, k, f, {})
         /\ pc \notin {"serve", "next", "drain", "cancel"}
  BY <1>1
<1>3. TypeOK'
  BY <1>0, <1>u, <1>2 DEF TypeOK, Moves, poolVars, connVars
<1>4. CallInv'
  BY <1>0, <1>u, <1>2, CallKept DEF TypeOK, poolVars, connVars
<1>5. ServeInv' /\ OwnerInv'
  <2>1. \A h \in dead' : h \in Conns /\ h <= made
    BY <1>0, <1>u DEF PoolInv, OwnerInv, OneOwner, TypeOK, connVars
  <2>2. QED
    BY <1>u, <1>s, <1>2, <2>1, OwnersKept DEF connVars
<1> QED
  BY <1>3, <1>4, <1>5 DEF PoolInv

(* A failed call marks its connection, which was made before. *)
LEMMA FailedInv ==
  ASSUME PoolInv, NEW c \in Callers, Failed(c)
  PROVE  PoolInv'
<1>0. TypeOK /\ CallInv
  BY DEF PoolInv
<1>1. /\ call[c].pc = "failed" /\ call[c].op # "shutdown" /\ call[c].todo = {}
      /\ call[c].server \in Servers
      /\ call[c].conn \in Conns /\ call[c].conn <= made
  BY <1>0, CallFields DEF Failed, CallInv, Conns
<1>2. /\ dead \subseteq dead' /\ dead' \subseteq dead \cup {call[c].conn}
      /\ call[c].op = "tool_call" => call[c].conn \in dead'
      /\ UNCHANGED <<poolVars, service, background, calls>>
  BY DEF Failed
<1>3. \E pc \in CallPc, s \in Servers \cup {NoServer}, f \in 0 .. MaxConns :
         /\ Moves(c, pc, "tool_call", s, 0, f, {})
         /\ Shape(pc, "tool_call", s, 0, f, {})
         /\ pc \notin {"serve", "next", "drain", "cancel"}
  <2>1. CASE call[c].op = "tool_call" /\ ~Retries(c)
    <3>1. [IdleCall EXCEPT !.pc = "get", !.server = call[c].server, !.first = call[c].conn] \in Call
      <4>1. "get" \in CallPc /\ call[c].conn \in 0 .. MaxConns
            /\ call[c].server \in Servers \cup {NoServer}
        BY <1>1 DEF CallPc, Conns
      <4>2. QED
        BY <4>1, IdleCallType DEF Call
    <3>2. Moves(c, "get", "tool_call", call[c].server, 0, call[c].conn, {})
      BY <1>0, <2>1, <3>1 DEF Failed, Retry, Moves, TypeOK, IdleCall
    <3>3. Shape("get", "tool_call", call[c].server, 0, call[c].conn, {})
      BY <1>0, <1>1, <1>2, <2>1 DEF Shape, TypeOK, poolVars, Conns
    <3>4. call[c].conn \in 0 .. MaxConns /\ "get" \in CallPc
      BY <1>1 DEF CallPc, Conns
    <3>5. QED
      BY <1>1, <3>2, <3>3, <3>4
  <2>2. CASE ~(call[c].op = "tool_call" /\ ~Retries(c))
    <3>1. Moves(c, "idle", "tool_call", NoServer, 0, 0, {})
      BY <1>0, <2>2, ReturnMoves DEF Failed
    <3>2. Shape("idle", "tool_call", NoServer, 0, 0, {})
      BY <1>0, <1>2 DEF Shape, TypeOK, poolVars
    <3>3. QED
      BY <3>1, <3>2 DEF CallPc
  <2>3. QED
    BY <2>1, <2>2
<1>4. PICK pc \in CallPc, s \in Servers \cup {NoServer}, f \in 0 .. MaxConns :
         /\ Moves(c, pc, "tool_call", s, 0, f, {})
         /\ Shape(pc, "tool_call", s, 0, f, {})
         /\ pc \notin {"serve", "next", "drain", "cancel"}
  BY <1>3
<1>5. TypeOK'
  BY <1>0, <1>1, <1>2, <1>4 DEF TypeOK, Moves, poolVars
<1>6. CallInv'
  BY <1>0, <1>2, <1>4, CallKept DEF TypeOK, poolVars
<1>7. ServeInv' /\ OwnerInv'
  <2>1. \A h \in dead' : h \in Conns /\ h <= made
    BY <1>0, <1>1, <1>2 DEF PoolInv, OwnerInv, OneOwner, TypeOK
  <2>2. QED
    BY <1>1, <1>2, <1>4, <2>1, OwnersKept
<1> QED
  BY <1>5, <1>6, <1>7 DEF PoolInv

(* A connection that is dropped from the pool was marked dead, and goes to *)
(* a background task.                                                      *)
LEMMA GetCreateInv ==
  ASSUME PoolInv, NEW c \in Callers, GetCreate(c)
  PROVE  /\ PoolInv'
         /\ connections[call[c].server] \in dead \cup {0}
<1> DEFINE srv == call[c].server
           old == connections[srv]
<1>0. TypeOK /\ CallInv /\ ServeInv /\ OwnerInv
  BY DEF PoolInv
<1>1. /\ call[c].pc = "get" /\ call[c].op # "shutdown" /\ call[c].todo = {}
      /\ srv \in Servers /\ ~PoolLocked /\ old \in 0 .. MaxConns
  <2>1. call[c].pc = "get" /\ call[c].op # "shutdown" /\ ~PoolLocked
    BY DEF GetCreate
  <2>2. srv \in Servers /\ call[c].todo = {}
    BY <1>0, <2>1, CallFields DEF CallInv
  <2>3. QED
    BY <1>0, <2>1, <2>2 DEF TypeOK
<1>2. /\ old # 0 => old \in Conns /\ Pooled(old) /\ service[old] = "present" /\ old <= made
      /\ old # 0 => background[old] = "none" /\ \A d \in Callers : ~Draining(d, old)
  <2>1. old # 0 => old \in Conns /\ Pooled(old)
    BY <1>1 DEF Pooled, Conns
  <2>2. QED
    BY <1>0, <2>1 DEF OwnerInv, OneOwner, Conns, TypeOK
<1>3. Invalidate(c) \cup Stale(c) = {old} \cap dead
  <2>1. \A k \in Stale(c) : k = old /\ k \in dead
    BY <1>2 DEF Stale, Conns
  <2>2. \A k \in Invalidate(c) : k = old /\ k \in dead
    BY DEF Invalidate
  <2>3. old \in dead => old \in Stale(c)
    BY <1>0 DEF Stale, TypeOK
  <2>4. QED
    BY <2>1, <2>2, <2>3
<1>4. old \in dead \cup {0}
  BY <1>3 DEF GetCreate
<1>5. /\ UNCHANGED <<made, service, calls, dead>>
      /\ connections' = [connections EXCEPT ![srv] = 0]
      /\ background' = [k \in Conns |-> IF k = old THEN "lock" ELSE background[k]]
  <2>1. \A k \in Conns : k \in Invalidate(c) \cup Stale(c) <=> k = old
    BY <1>3, <1>4, <1>0 DEF Conns, TypeOK
  <2>2. background' = [k \in Conns |-> IF k \in Invalidate(c) \cup Stale(c) THEN "lock"
                                         ELSE background[k]]
    BY DEF GetCreate, CancelInBackground
  <2>3. dead' = dead
    BY <1>3 DEF GetCreate, CancelInBackground
  <2>4. QED
    BY <2>1, <2>2, <2>3 DEF GetCreate
<1>6. Moves(c, "serve", call[c].op, srv, call[c].conn, call[c].first, {})
  BY <1>0, <1>1, GotoMoves DEF GetCreate, CallPc
<1>7. TypeOK'
  BY <1>0, <1>1, <1>5, <1>6 DEF TypeOK, Moves
<1>8. CallInv'
  <2>1. Shape("serve", call[c].op, srv, call[c].conn, call[c].first, {})
    BY <1>0, <1>1, <1>5 DEF Shape, CallInv, Retries
  <2>2. QED
    BY <1>0, <1>5, <1>6, <2>1, CallKept DEF TypeOK
<1>9. ServeInv'
  BY <1>0, <1>1, <1>5, <1>6 DEF ServeInv, Moves, PoolLocked, TypeOK
<1>10. OwnerInv'
  <2>1. \A h \in Conns : \A d \in Callers : Draining(d, h)' = Draining(d, h)
    BY <1>1, <1>6 DEF Moves, Draining
  <2>2. \A h \in Conns : Draining(c, h) => FALSE
    BY <1>1 DEF Draining
  <2>3. \A h \in Conns : h # old => (Pooled(h)' = Pooled(h) /\ background'[h] = background[h])
    BY <1>0, <1>1, <1>5 DEF Pooled, TypeOK, Conns
  <2>4. \A h \in Conns : h = old => ~Pooled(h)' /\ background'[h] = "lock"
    <3>1. old # 0 => \A t \in Servers : connections[t] = old => t = srv
      BY <1>0, <1>1, <1>2 DEF OwnerInv, OneOwner
    <3>2. \A t \in Servers : connections'[t] = (IF t = srv THEN 0 ELSE connections[t])
      BY <1>0, <1>5 DEF TypeOK
    <3>3. \A h \in Conns : h = old => ~Pooled(h)'
      BY <3>1, <3>2 DEF Pooled, Conns
    <3>4. QED
      BY <1>5, <3>3
  <2>5. \A h \in Conns : \A s, t \in Servers :
            (connections'[s] = h /\ connections'[t] = h) => s = t
    BY <1>0, <1>1, <1>5 DEF OwnerInv, OneOwner, TypeOK, Conns
  <2>6. \A d \in Callers : d # c => call'[d] = call[d]
    BY <1>6 DEF Moves
  <2>7. SUFFICES ASSUME NEW h \in Conns PROVE OneOwner(h)'
    BY DEF OwnerInv
  <2>8. CASE h # old
    BY <1>0, <1>5, <2>1, <2>2, <2>3, <2>5, <2>6, <2>8 DEF OwnerInv, OneOwner
  <2>9. CASE h = old
    <3>1. h # 0
      BY DEF Conns
    <3>2. QED
      BY <1>0, <1>2, <1>5, <2>1, <2>4, <2>5, <2>9, <3>1 DEF OwnerInv, OneOwner
  <2>10. QED
    BY <2>8, <2>9
<1> QED
  BY <1>4, <1>7, <1>8, <1>9, <1>10 DEF PoolInv

(* The place in the pool that a new connection gets was empty. *)
LEMMA ServeOkInv ==
  ASSUME PoolInv, NEW c \in Callers, ServeOk(c)
  PROVE  PoolInv' /\ connections[call[c].server] = 0
<1> DEFINE srv == call[c].server
<1>0. TypeOK /\ CallInv /\ ServeInv /\ OwnerInv
  BY DEF PoolInv
<1>1. PICK k \in Conns : k = made + 1
  BY <1>0 DEF ServeOk, TypeOK, Conns
<1>2. /\ call[c].pc = "serve" /\ call[c].op # "shutdown" /\ call[c].todo = {}
      /\ srv \in Servers /\ connections[srv] = 0
      /\ \A d \in Callers \ {c} : call[d].pc # "serve"
  BY <1>0 DEF ServeOk, CallInv, ServeInv
<1>3. /\ made' = k /\ UNCHANGED <<dead, background, calls>>
      /\ service' = [service EXCEPT ![k] = "present"]
      /\ connections' = [connections EXCEPT ![srv] = k]
      /\ call' = [call EXCEPT ![c].pc = "lock", ![c].conn = k]
  BY <1>1 DEF ServeOk
<1>4. Moves(c, "lock", call[c].op, srv, k, call[c].first, {})
  <2>1. call \in [Callers -> Call] /\ "lock" \in CallPc /\ k \in 0 .. MaxConns
    BY <1>0 DEF TypeOK, CallPc, Conns
  <2>2. call' \in [Callers -> Call]
    BY <1>3, <2>1 DEF Call
  <2>3. QED
    BY <1>2, <1>3, <2>1, <2>2 DEF Moves, Call
<1>5. TypeOK'
  BY <1>0, <1>2, <1>3, <1>4 DEF TypeOK, Moves, Conns
<1>6. CallInv'
  <2>1. \A h \in dead : h < k
    BY <1>0, <1>1 DEF OwnerInv, OneOwner, TypeOK, Conns
  <2>2. Shape("lock", call[c].op, srv, k, call[c].first, {})
    BY <1>0, <1>2, <1>3, <2>1 DEF Shape, CallInv, Retries, Conns
  <2>3. made' \in Nat /\ made <= made'
    BY <1>0, <1>1, <1>3 DEF TypeOK
  <2>4. QED
    BY <1>0, <1>3, <1>4, <2>2, <2>3, CallKept
<1>7. ServeInv'
  BY <1>2, <1>4 DEF ServeInv, Moves
<1>8. OwnerInv'
  <2>1. \A h \in Conns : \A d \in Callers : Draining(d, h)' = Draining(d, h)
    BY <1>2, <1>4 DEF Moves, Draining
  <2>2. \A h \in Conns : ~Draining(c, h)
    BY <1>2 DEF Draining
  <2>3. \A h \in Conns : h # k => /\ Pooled(h)' = Pooled(h) /\ service'[h] = service[h]
                                  /\ h > made <=> h > made'
    <3>1. \A t \in Servers : connections'[t] = (IF t = srv THEN k ELSE connections[t])
      BY <1>0, <1>3 DEF TypeOK
    <3>2. \A h \in Conns : h # k => Pooled(h)' = Pooled(h)
      BY <1>2, <3>1 DEF Pooled, Conns
    <3>3. QED
      BY <1>0, <1>1, <1>3, <3>2 DEF TypeOK, Conns
  <2>4. service[k] = "none" /\ ~Pooled(k) /\ background[k] = "none" /\ k \notin dead
    BY <1>0, <1>1 DEF OwnerInv, OneOwner, TypeOK, Conns
  <2>5. \A d \in Callers : ~Draining(d, k)
    BY <1>0, <2>4 DEF OwnerInv, OneOwner
  <2>6. Pooled(k)' /\ service'[k] = "present" /\ ~(k > made')
    BY <1>0, <1>2, <1>3 DEF Pooled, TypeOK, Conns
  <2>7. \A h \in Conns : \A s, t \in Servers :
            (connections'[s] = h /\ connections'[t] = h) => s = t
    <3>1. \A t \in Servers : connections'[t] = (IF t = srv THEN k ELSE connections[t])
      BY <1>0, <1>3 DEF TypeOK
    <3>2. QED
      BY <1>0, <2>4, <3>1 DEF OwnerInv, OneOwner, Pooled
  <2>8. \A d \in Callers : d # c => call'[d] = call[d]
    BY <1>4 DEF Moves
  <2>9. SUFFICES ASSUME NEW h \in Conns PROVE OneOwner(h)'
    BY DEF OwnerInv
  <2>10. CASE h # k
    <3>1. h \in dead' => h <= made'
      BY <1>0, <1>1, <1>3 DEF OwnerInv, OneOwner, TypeOK, Conns
    <3>2. background' = background /\ OneOwner(h)
      BY <1>0, <1>3 DEF OwnerInv
    <3>3. \A d \in Callers :
              (Draining(d, h)' /\ (call'[d].pc = "cancel" => h \in call'[d].todo))
              => service'[h] = "present"
      BY <2>1, <2>2, <2>3, <2>8, <2>10, <3>2 DEF OneOwner
    <3>4. service'[h] = "none" <=> h > made'
      BY <2>3, <2>10, <3>2 DEF OneOwner
    <3>5. QED
      BY <2>1, <2>3, <2>7, <2>10, <3>1, <3>2, <3>3, <3>4 DEF OneOwner
  <2>11. CASE h = k
    BY <1>3, <2>1, <2>4, <2>5, <2>6, <2>7, <2>11 DEF OneOwner
  <2>12. QED
    BY <2>10, <2>11
<1> QED
  BY <1>2, <1>5, <1>6, <1>7, <1>8 DEF PoolInv

(* A background task takes and cancels the service it owns. *)
LEMMA BackgroundInv ==
  ASSUME PoolInv, NEW k \in Conns, BackgroundStep(k)
  PROVE  PoolInv'
<1>0. TypeOK /\ CallInv /\ ServeInv /\ OwnerInv
  BY DEF PoolInv
<1>1. UNCHANGED <<poolVars, dead, call, calls>>
  BY DEF BackgroundStep, BackgroundLock, BackgroundCancelled
<1>2. background[k] # "none"
  BY DEF BackgroundStep, BackgroundLock, BackgroundCancelled
<1>3. PICK v \in {"taken", "cancelled"} :
         /\ service' = [service EXCEPT ![k] = v]
         /\ background' = [background EXCEPT ![k] = IF v = "taken" THEN "cancel" ELSE "none"]
  <2>1. CASE BackgroundLock(k)
    <3>1. service[k] = "present"
      BY <1>0, <2>1 DEF BackgroundLock, OwnerInv, OneOwner
    <3>2. QED
      BY <2>1, <3>1 DEF BackgroundLock, Take
  <2>2. CASE BackgroundCancelled(k)
    BY <2>2 DEF BackgroundCancelled
  <2>3. QED
    BY <2>1, <2>2 DEF BackgroundStep
<1>4. TypeOK' /\ CallInv' /\ ServeInv'
  <2>1. TypeOK'
    BY <1>0, <1>1, <1>3 DEF TypeOK, poolVars
  <2>2. CallInv' /\ ServeInv'
    BY <1>0, <1>1 DEF CallInv, ServeInv, Retries, poolVars
  <2>3. QED
    BY <2>1, <2>2
<1>5. OwnerInv'
  <2>1. \A h \in Conns : /\ Pooled(h)' = Pooled(h)
                         /\ \A d \in Callers : Draining(d, h)' = Draining(d, h)
    BY <1>1 DEF Pooled, Draining, poolVars
  <2>2. SUFFICES ASSUME NEW h \in Conns PROVE OneOwner(h)'
    BY DEF OwnerInv
  <2>3. CASE h # k
    <3>1. service'[h] = service[h] /\ background'[h] = background[h]
      BY <1>0, <1>3, <2>3 DEF TypeOK
    <3>2. QED
      BY <1>0, <1>1, <2>1, <3>1 DEF OwnerInv, OneOwner, poolVars
  <2>4. CASE h = k
    <3>1. service'[h] = v /\ background'[h] = (IF v = "taken" THEN "cancel" ELSE "none")
      BY <1>0, <1>3, <2>4 DEF TypeOK
    <3>2. service[h] \in {"present", "taken"} /\ ~Pooled(h) /\ \A d \in Callers : ~Draining(d, h)
      BY <1>0, <1>2, <2>4 DEF OwnerInv, OneOwner
    <3>3. ~(h > made)
      BY <1>0, <3>2 DEF OwnerInv, OneOwner
    <3>4. QED
      BY <1>0, <1>1, <2>1, <3>1, <3>2, <3>3 DEF OwnerInv, OneOwner, poolVars
  <2>5. QED
    BY <2>3, <2>4
<1> QED
  BY <1>4, <1>5 DEF PoolInv

(* Shutdown takes what is pooled, nothing of which anyone else has. *)
LEMMA TakeAllInv ==
  ASSUME PoolInv, NEW c \in Callers, TakeAll(c)
  PROVE  PoolInv'
<1> DEFINE D == {connections[s] : s \in Servers} \ {0}
<1>0. TypeOK /\ CallInv /\ ServeInv /\ OwnerInv
  BY DEF PoolInv
<1>1. /\ call[c].pc = "get" /\ call[c].op = "shutdown" /\ call[c].todo = {}
      /\ call[c].server = NoServer /\ call[c].conn <= made /\ ~PoolLocked
      /\ call[c].first = 0
  BY <1>0 DEF TakeAll, CallInv
<1>2. /\ connections' = [s \in Servers |-> 0]
      /\ UNCHANGED <<made, connVars, calls>>
      /\ call' = [call EXCEPT ![c].pc = "next", ![c].todo = D]
  BY DEF TakeAll
<1>3. D \in SUBSET Conns /\ \A h \in Conns : h \in D <=> Pooled(h)
  BY <1>0 DEF TypeOK, Conns, Pooled
<1>4. Moves(c, "next", "shutdown", NoServer, call[c].conn, call[c].first, D)
  <2> HIDE DEF D
  <2>1. call \in [Callers -> Call] /\ "next" \in CallPc
    BY <1>0 DEF TypeOK, CallPc
  <2>2. call' \in [Callers -> Call]
    BY <1>2, <1>3, <2>1 DEF Call
  <2>3. QED
    BY <1>1, <1>2, <2>1, <2>2 DEF Moves, Call
<1> HIDE DEF D
<1>5. TypeOK'
  BY <1>0, <1>2, <1>4 DEF TypeOK, Moves, connVars
<1>6. CallInv'
  <2>1. Shape("next", "shutdown", NoServer, call[c].conn, call[c].first, D)
    BY <1>1, <1>2 DEF Shape, Retries, connVars
  <2>2. QED
    BY <1>0, <1>2, <1>4, <2>1, CallKept DEF TypeOK, connVars
<1>7. ServeInv'
  BY <1>1, <1>4 DEF ServeInv, Moves, PoolLocked
<1>8. OwnerInv'
  <2>1. SUFFICES ASSUME NEW h \in Conns PROVE OneOwner(h)'
    BY DEF OwnerInv
  <2>2. OneOwner(h)
    BY <1>0 DEF OwnerInv
  <2>3. ~Pooled(h)' /\ \A s \in Servers : connections'[s] # h
    BY <1>2 DEF Pooled, Conns
  <2>4. \A d \in Callers : d # c => (Draining(d, h)' = Draining(d, h) /\ call'[d] = call[d])
    BY <1>4 DEF Moves, Draining
  <2>5. (Draining(c, h)' <=> Pooled(h)) /\ ~Draining(c, h) /\ call'[c].pc = "next"
    BY <1>1, <1>3, <1>4 DEF Moves, Draining
  <2>6. QED
    BY <1>2, <2>2, <2>3, <2>4, <2>5 DEF OneOwner, connVars
<1> QED
  BY <1>5, <1>6, <1>7, <1>8 DEF PoolInv

(* A shutdown that has taken connections goes through them: it marks one,  *)
(* takes its service, leaves it to a background task or cancels it.        *)
LEMMA DrainInv ==
  ASSUME PoolInv, NEW c \in Callers,
         NEW k \in Conns, NEW pc \in {"next", "drain", "cancel"}, NEW D \in SUBSET Conns,
         Moves(c, pc, "shutdown", call[c].server, k, call[c].first, D),
         call[c].op = "shutdown", call[c].pc \in {"next", "drain", "cancel"},
         Draining(c, k), D = call[c].todo \ {k},
         UNCHANGED <<poolVars, calls>>,
         dead \subseteq dead', dead' \subseteq dead \cup {k},
         \A h \in Conns \ {k} : service'[h] = service[h] /\ background'[h] = background[h],
         service' \in [Conns -> {"none", "present", "taken", "cancelled"}],
         background' \in [Conns -> {"none", "lock", "cancel"}],
         \/ pc = "drain" /\ service'[k] = "present" /\ background'[k] = "none"
         \/ pc = "cancel" /\ service'[k] = "taken" /\ background'[k] = "none"
         \/ pc = "next" /\ service'[k] = "present" /\ background'[k] = "lock"
         \/ pc = "next" /\ service'[k] = "cancelled" /\ background'[k] = "none",
         call[c].pc \in {"drain", "cancel"} => call[c].conn = k
  PROVE  PoolInv'
<1>0. TypeOK /\ CallInv /\ ServeInv /\ OwnerInv
  BY DEF PoolInv
<1>1. /\ ~Pooled(k) /\ background[k] = "none" /\ service[k] \in {"present", "taken"}
      /\ \A d \in Callers \ {c} : ~Draining(d, k)
      /\ k <= made
  BY <1>0 DEF OwnerInv, OneOwner, TypeOK, Conns
<1>2. TypeOK'
  BY <1>0 DEF TypeOK, Moves, poolVars
<1>3. CallInv'
  <2>1. Shape(pc, "shutdown", call[c].server, k, call[c].first, D)
    BY <1>0, <1>1 DEF Shape, CallInv, Retries, poolVars, Conns
  <2>2. QED
    BY <1>0, <2>1, CallKept DEF TypeOK, poolVars
<1>4. ServeInv'
  BY <1>0 DEF ServeInv, Moves, poolVars
<1>5. OwnerInv'
  <2>1. SUFFICES ASSUME NEW h \in Conns PROVE OneOwner(h)'
    BY DEF OwnerInv
  <2>2. OneOwner(h) /\ Pooled(h)' = Pooled(h)
    BY <1>0 DEF OwnerInv, Pooled, poolVars
  <2>3. \A d \in Callers : d # c => (Draining(d, h)' = Draining(d, h) /\ call'[d] = call[d])
    BY DEF Moves, Draining
  <2>4. CASE h # k
    <3>1. (Draining(c, h)' <=> Draining(c, h)) /\ (Draining(c, h) <=> h \in call[c].todo)
          /\ (h \in call'[c].todo <=> h \in call[c].todo)
      BY <2>4 DEF Moves, Draining
    <3>2. service'[h] = service[h] /\ background'[h] = background[h]
          /\ (h \in dead' <=> h \in dead)
      BY <2>4
    <3>3. \A d \in Callers :
              (Draining(d, h)' /\ (call'[d].pc = "cancel" => h \in call'[d].todo))
              => service'[h] = "present"
      BY <2>2, <2>3, <3>1, <3>2 DEF OneOwner
    <3>4. QED
      BY <2>2, <2>3, <3>1, <3>2, <3>3 DEF OneOwner, poolVars
  <2>5. CASE h = k
    <3>1. \A d \in Callers : d # c => ~Draining(d, h)'
      BY <1>1, <2>3, <2>5
    <3>2. (Draining(c, h)' <=> pc # "next") /\ h \notin call'[c].todo /\ call'[c].pc = pc
      BY <2>5 DEF Moves, Draining
    <3>3. ~Pooled(h)' /\ \A s \in Servers : connections'[s] # h
      BY <1>1, <2>2, <2>5 DEF Pooled
    <3>4. h <= made' /\ ~(h > made')
      BY <1>0, <1>1, <2>5 DEF poolVars, TypeOK, Conns
    <3>5. QED
      BY <2>5, <3>1, <3>2, <3>3, <3>4 DEF OneOwner
  <2>6. QED
    BY <2>4, <2>5
<1> QED
  BY <1>2, <1>3, <1>4, <1>5 DEF PoolInv

(* The steps of a shutdown are of that kind. *)
LEMMA ShutdownInv ==
  ASSUME PoolInv, NEW c \in Callers,
         \/ DrainLock(c) \/ DrainTimeout(c) \/ DrainCancelled(c)
         \/ \E k \in Conns : DrainNext(c, k)
  PROVE  PoolInv'
<1>0. TypeOK /\ CallInv /\ OwnerInv
  BY DEF PoolInv
<1>c. call[c].pc \in {"next", "drain", "cancel"} /\ call[c].op = "shutdown"
  BY <1>0 DEF CallInv, DrainLock, DrainTimeout, DrainCancelled, DrainNext
<1>p. {"next", "drain", "cancel"} \subseteq CallPc
  BY DEF CallPc
<1>1. CASE DrainLock(c) \/ DrainTimeout(c) \/ DrainCancelled(c)
  <2>1. PICK k \in Conns : k = call[c].conn
    BY <1>0, <1>1, CallFields DEF CallInv, DrainLock, DrainTimeout, DrainCancelled, Conns
  <2>2. Draining(c, k) /\ call[c].todo = call[c].todo \ {k} /\ call[c].pc \in {"drain", "cancel"}
    BY <1>0, <1>1, <1>c, <2>1 DEF CallInv, Draining, DrainLock, DrainTimeout, DrainCancelled
  <2>3. call[c].pc = "drain" => service[k] = "present"
    BY <1>0, <2>2 DEF OwnerInv, OneOwner
  <2>4. background[k] = "none"
    BY <1>0, <2>2 DEF OwnerInv, OneOwner
  <2>5. call[c].todo \in SUBSET Conns
    BY <1>0, CallFields
  <2>6. CASE DrainLock(c)
    <3>1. Goto(c, "cancel") /\ service' = [service EXCEPT ![k] = "taken"]
          /\ UNCHANGED <<poolVars, dead, background, calls>>
      BY <2>1, <2>3, <2>6 DEF DrainLock, Take
    <3>2. Moves(c, "cancel", "shutdown", call[c].server, k, call[c].first, call[c].todo)
      BY <1>0, <1>c, <1>p, <2>1, <3>1, GotoMoves
    <3>3. /\ service' \in [Conns -> {"none", "present", "taken", "cancelled"}]
          /\ background' \in [Conns -> {"none", "lock", "cancel"}]
          /\ service'[k] = "taken" /\ background'[k] = "none"
          /\ \A h \in Conns \ {k} : service'[h] = service[h] /\ background'[h] = background[h]
      BY <1>0, <2>4, <3>1 DEF TypeOK
    <3>4. QED
      BY <1>c, <2>1, <2>2, <2>5, <3>1, <3>2, <3>3, DrainInv
  <2>7. CASE DrainTimeout(c)
    <3>1. Goto(c, "next") /\ dead' = dead \cup {k} /\ UNCHANGED <<poolVars, service, calls>>
          /\ background' = [h \in Conns |-> IF h \in {k} THEN "lock" ELSE background[h]]
      BY <2>1, <2>7 DEF DrainTimeout, CancelInBackground
    <3>2. Moves(c, "next", "shutdown", call[c].server, k, call[c].first, call[c].todo)
      BY <1>0, <1>c, <1>p, <2>1, <3>1, GotoMoves
    <3>3. /\ service' \in [Conns -> {"none", "present", "taken", "cancelled"}]
          /\ background' \in [Conns -> {"none", "lock", "cancel"}]
          /\ service'[k] = "present" /\ background'[k] = "lock"
          /\ \A h \in Conns \ {k} : service'[h] = service[h] /\ background'[h] = background[h]
      BY <1>0, <2>3, <2>7, <3>1 DEF TypeOK, DrainTimeout
    <3>4. QED
      BY <1>c, <2>1, <2>2, <2>5, <3>1, <3>2, <3>3, DrainInv
  <2>8. CASE DrainCancelled(c)
    <3>1. Goto(c, "next") /\ service' = [service EXCEPT ![k] = "cancelled"]
          /\ UNCHANGED <<poolVars, dead, background, calls>>
      BY <2>1, <2>8 DEF DrainCancelled
    <3>2. Moves(c, "next", "shutdown", call[c].server, k, call[c].first, call[c].todo)
      BY <1>0, <1>c, <1>p, <2>1, <3>1, GotoMoves
    <3>3. /\ service' \in [Conns -> {"none", "present", "taken", "cancelled"}]
          /\ background' \in [Conns -> {"none", "lock", "cancel"}]
          /\ service'[k] = "cancelled" /\ background'[k] = "none"
          /\ \A h \in Conns \ {k} : service'[h] = service[h] /\ background'[h] = background[h]
      BY <1>0, <2>4, <3>1 DEF TypeOK
    <3>4. QED
      BY <1>c, <2>1, <2>2, <2>5, <3>1, <3>2, <3>3, DrainInv
  <2>9. QED
    BY <1>1, <2>6, <2>7, <2>8
<1>2. ASSUME NEW k \in Conns, DrainNext(c, k)
      PROVE  PoolInv'
  <2>1. /\ call[c].pc = "next" /\ k \in call[c].todo /\ dead' = dead \cup {k}
        /\ call' = [call EXCEPT ![c].pc = "drain", ![c].conn = k, ![c].todo = @ \ {k}]
        /\ UNCHANGED <<poolVars, service, background, calls>>
    BY <1>2 DEF DrainNext
  <2>2. PICK D \in SUBSET Conns : D = call[c].todo \ {k}
    BY <1>0, CallFields
  <2>3. Moves(c, "drain", "shutdown", call[c].server, k, call[c].first, D)
    <3>1. call[c] \in Call /\ "drain" \in CallPc /\ k \in 0 .. MaxConns
      BY <1>0, <1>p DEF TypeOK, Conns
    <3>2. call' \in [Callers -> Call]
      BY <1>0, <2>1, <2>2, <3>1 DEF TypeOK, Call
    <3>3. QED
      BY <1>0, <1>c, <2>1, <2>2, <3>1, <3>2 DEF TypeOK, Call, Moves
  <2>4. Draining(c, k)
    BY <1>c, <2>1 DEF Draining
  <2>5. service[k] = "present" /\ background[k] = "none"
    BY <1>0, <2>1, <2>4 DEF OwnerInv, OneOwner
  <2>6. /\ service' \in [Conns -> {"none", "present", "taken", "cancelled"}]
        /\ background' \in [Conns -> {"none", "lock", "cancel"}]
    BY <1>0, <2>1 DEF TypeOK
  <2>7. QED
    BY <1>c, <2>1, <2>2, <2>3, <2>4, <2>5, <2>6, DrainInv
<1> QED
  BY <1>1, <1>2

(* A shutdown that has gone through all of its connections returns. *)
LEMMA DrainDoneInv ==
  ASSUME PoolInv, NEW c \in Callers, DrainDone(c)
  PROVE  PoolInv'
<1>0. TypeOK /\ CallInv
  BY DEF PoolInv
<1>1. Moves(c, "idle", "tool_call", NoServer, 0, 0, {})
  BY <1>0, ReturnMoves DEF DrainDone
<1>2. TypeOK'
  BY <1>0, <1>1 DEF TypeOK, DrainDone, Moves, poolVars, connVars
<1>3. CallInv'
  <2>1. Shape("idle", "tool_call", NoServer, 0, 0, {})
    BY <1>0 DEF Shape, DrainDone, TypeOK, poolVars
  <2>2. QED
    BY <1>0, <1>1, <2>1, CallKept DEF DrainDone, TypeOK, poolVars, connVars
<1>4. ServeInv' /\ OwnerInv'
  <2>1. \A h \in dead' : h \in Conns /\ h <= made
    BY <1>0 DEF PoolInv, OwnerInv, OneOwner, TypeOK, DrainDone, connVars
  <2>2. QED
    BY <1>1, <2>1, OwnersKept DEF DrainDone, connVars
<1> QED
  BY <1>2, <1>3, <1>4 DEF PoolInv

-----------------------------------------------------------------------------
(* Every step keeps the invariant. *)
LEMMA PoolInvNext == PoolInv /\ [Next]_vars => PoolInv'
<1> SUFFICES ASSUME PoolInv, [Next]_vars PROVE PoolInv'
  OBVIOUS
<1>1. ASSUME NEW c \in Callers, CallStep(c) PROVE PoolInv'
  BY <1>1, CallMoveInv, FailedInv, GetCreateInv, ServeOkInv, TakeAllInv, ShutdownInv, DrainDoneInv
  DEF CallStep
<1>2. ASSUME NEW c \in Callers, CallEnds(c) PROVE PoolInv'
  BY <1>2, CallMoveInv DEF CallEnds
<1>3. ASSUME NEW c \in Callers, NEW op \in Ops, NEW s \in Servers \cup {NoServer}, Begin(c, op, s)
      PROVE  PoolInv'
  BY <1>3, BeginInv
<1>4. ASSUME NEW k \in Conns, BackgroundStep(k) PROVE PoolInv'
  BY <1>4, BackgroundInv
<1>5. CASE UNCHANGED vars
  BY <1>5 DEF vars, poolVars, connVars, PoolInv, TypeOK, CallInv, Retries, ServeInv, OwnerInv,
     OneOwner, Pooled, Draining
<1> QED
  BY <1>1, <1>2, <1>3, <1>4, <1>5 DEF Next

(* It holds in every behaviour. *)
LEMMA PoolInvariant == Spec => []PoolInv
<1>1. Init => PoolInv
  <2> SUFFICES ASSUME Init PROVE PoolInv
    OBVIOUS
  <2>1. TypeOK
    BY IdleCallType DEF Init, TypeOK, Conns
  <2>2. CallInv /\ ServeInv
    BY IdleCallType DEF Init, CallInv, ServeInv, Retries
  <2>3. OwnerInv
    <3>1. \A k \in Conns : ~Pooled(k) /\ \A c \in Callers : ~Draining(c, k)
      BY IdleCallType DEF Init, Pooled, Draining, Conns
    <3>2. \A s \in Servers : connections[s] = 0
      BY DEF Init
    <3>3. QED
      BY <3>1, <3>2 DEF Init, OwnerInv, OneOwner, Conns
  <2>4. QED
    BY <2>1, <2>2, <2>3 DEF PoolInv
<1> QED
  BY <1>1, PoolInvNext, PTL DEF Spec

(* The pool's variables keep their types. *)
THEOREM TypeCorrect == Spec => []TypeOK
BY PoolInvariant, PTL DEF PoolInv

(* What is in the pool has its service, and nobody is about to cancel it:  *)
(* get_or_create never hands out a connection that was given up.           *)
THEOREM PooledAlwaysPresent == Spec => []PooledServicePresent
<1>1. PoolInv => PooledServicePresent
  BY DEF PoolInv, OwnerInv, OneOwner, PooledServicePresent
<1> QED
  BY <1>1, PoolInvariant, PTL

(* No server process is forgotten, whatever calls fail, are dropped or     *)
(* race a shutdown.                                                        *)
THEOREM ServersNeverForgotten == Spec => []NoServerForgotten
<1>1. PoolInv => NoServerForgotten
  BY DEF PoolInv, OwnerInv, OneOwner, NoServerForgotten
<1> QED
  BY <1>1, PoolInvariant, PTL

(* A call that is made once more is made on another connection.            *)
THEOREM RetriesAlwaysElsewhere == Spec => []RetriesElsewhere
<1>1. PoolInv => RetriesElsewhere
  BY DEF PoolInv, CallInv, RetriesElsewhere
<1> QED
  BY <1>1, PoolInvariant, PTL

(* A connection that is not marked dead stays in the pool until a          *)
(* shutdown; no late invalidation removes it.                              *)
THEOREM HealthyConnectionAlwaysKept == Spec => HealthyConnectionKept
<1> DEFINE Kept ==
      \A s \in Servers :
        (connections[s] # 0 /\ connections'[s] # connections[s]) =>
            \/ connections[s] \in dead
            \/ \E c \in Callers : call[c].op = "shutdown" /\ call[c].pc = "get"
                                  /\ call'[c].pc = "next"
<1>1. PoolInv /\ [Next]_vars => [Kept]_vars
  <2> SUFFICES ASSUME PoolInv, Next PROVE Kept
    OBVIOUS
  <2>0. TypeOK
    BY DEF PoolInv
  <2>1. ASSUME NEW c \in Callers, GetCreate(c) PROVE Kept
    <3>1. connections[call[c].server] \in dead \cup {0}
      BY <2>1, GetCreateInv
    <3>2. QED
      BY <2>0, <2>1, <3>1 DEF GetCreate, TypeOK
  <2>2. ASSUME NEW c \in Callers, ServeOk(c) PROVE Kept
    <3>1. connections[call[c].server] = 0
      BY <2>2, ServeOkInv
    <3>2. QED
      BY <2>0, <2>2, <3>1 DEF ServeOk, TypeOK
  <2>3. ASSUME NEW c \in Callers, TakeAll(c) PROVE Kept
    BY <2>0, <2>3 DEF TakeAll, TypeOK, Call
  <2>4. CASE connections' = connections
    BY <2>4
  <2>5. QED
    BY <2>1, <2>2, <2>3, <2>4
    DEF Next, CallStep, CallEnds, BackgroundStep, Begin, GetReuse, ServeErr, LockConn, CallOk,
        CallErr, Failed, Dropped, BackgroundLock, BackgroundCancelled, DrainNext, DrainLock,
        DrainTimeout, DrainCancelled, DrainDone, poolVars
<1> QED
  BY <1>1, PoolInvariant, PTL DEF Spec, HealthyConnectionKept
=============================================================================
