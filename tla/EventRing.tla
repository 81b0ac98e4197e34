----------------------------- MODULE EventRing -----------------------------
(***************************************************************************)
(* The events of a ModularAgent and the ring in which the MCP server keeps *)
(* the recent ones for clients that poll: a broadcast channel that drops   *)
(* what its reader is too slow for, the collector that reads it, and the   *)
(* pages of get_agent_errors and get_external_outputs.                     *)
(***************************************************************************)
EXTENDS Naturals, Sequences, SequencesExt

CONSTANTS
    Pollers,    \* clients of the server, each polling with one filter
    PollKind,   \* poller -> "errors" or "outputs": the tool it calls
    Filter,     \* poller -> the preset or channel it asks for, NoFilter for any
    NoFilter,
    NoPreset,   \* the preset id of an error whose agent could not be asked
    EventCap,   \* EVENT_CHANNEL_CAPACITY
    RingCap,    \* RING_CAPACITY
    PollLimit,  \* limit, DEFAULT_POLL_LIMIT when not given
    Events,     \* events that the runtime emits
    MaxEvents,  \* bound: events a server sees
    MaxServers  \* bound: servers ever started

ASSUME EventRingAssumption ==
    /\ EventCap \in Nat \ {0} /\ RingCap \in Nat \ {0} /\ PollLimit \in Nat
    /\ MaxEvents \in Nat /\ MaxServers \in Nat

VARIABLES
    pending,    \* events the collector has not received, oldest first
    lagged,     \* events overwritten since its last receive
    emitted,    \* events emitted since the server started
    server,     \* "up" or "down"
    servers,    \* number of servers started
    ring,       \* EventRing: seq, dropped, errors, outputs
    cursor,     \* poller -> its since_seq
    read        \* history: poller -> the seqs it was given

ringVars == <<pending, lagged, emitted, server, servers, ring, cursor, read>>

NewRing == [seq |-> 0, dropped |-> 0, errors |-> <<>>, outputs |-> <<>>]

RingInit ==
    /\ pending = <<>> /\ lagged = 0 /\ emitted = 0
    /\ server = "down" /\ servers = 0
    /\ ring = NewRing
    /\ cursor = [p \in Pollers |-> 0]
    /\ read = [p \in Pollers |-> {}]

(* notify_observers, called by all the emit_ functions.  Nobody waits: the *)
(* oldest event is overwritten.  Without a receiver the event is gone.     *)
Emit(event) ==
    /\ server = "up" /\ emitted < MaxEvents
    /\ LET all == Append(pending, event)
           over == IF Len(all) > EventCap THEN 1 ELSE 0 IN
       /\ pending' = SubSeq(all, 1 + over, Len(all))
       /\ lagged' = lagged + over
       /\ emitted' = emitted + 1
    /\ UNCHANGED <<server, servers, ring, cursor, read>>

(* Events; those of other kinds only take room. *)
AgentError(agent, preset) == [kind |-> "error", of |-> agent, tag |-> preset]
ExternalOutput(channel, value) == [kind |-> "output", of |-> value, tag |-> channel]
OtherEvent == [kind |-> "other", of |-> 0, tag |-> NoFilter]

-----------------------------------------------------------------------------
(* A ring and a subscription belong to one server. *)
Fresh ==
    /\ ring' = NewRing
    /\ pending' = <<>> /\ lagged' = 0 /\ emitted' = 0
    /\ cursor' = [p \in Pollers |-> 0] /\ read' = [p \in Pollers |-> {}]

(* start_mcp_server: a new ring, a collector that subscribes, sessions     *)
(* that start from the beginning; and McpServerHandle::stop.               *)
StartServer ==
    /\ server = "down" /\ servers < MaxServers
    /\ server' = "up" /\ servers' = servers + 1
    /\ Fresh

StopServer ==
    /\ server = "up"
    /\ server' = "down"
    /\ Fresh
    /\ UNCHANGED servers

(* push_error and push_output: the seq is allocated under the buffer's     *)
(* lock, and the oldest record makes room.                                 *)
Push(buffer, tag, of) ==
    LET kept == IF Len(buffer) >= RingCap THEN Tail(buffer) ELSE buffer IN
    Append(kept, [seq |-> ring.seq + 1, tag |-> tag, of |-> of])

(* run_event_collector, on RecvError::Lagged. *)
Lag ==
    /\ server = "up" /\ lagged > 0
    /\ ring' = [ring EXCEPT !.dropped = @ + lagged]
    /\ lagged' = 0
    /\ UNCHANGED <<pending, emitted, server, servers, cursor, read>>

(* run_event_collector, on an event.  The preset of an error is asked of   *)
(* the agent, which may be gone or not answer in time.                     *)
Capture ==
    /\ server = "up" /\ lagged = 0 /\ pending # <<>>
    /\ LET e == Head(pending) IN
       \/ /\ e.kind = "error"
          /\ \E preset \in {e.tag, NoPreset} :
                ring' = [ring EXCEPT !.seq = @ + 1, !.errors = Push(@, preset, e.of)]
       \/ /\ e.kind = "output"
          /\ ring' = [ring EXCEPT !.seq = @ + 1, !.outputs = Push(@, e.tag, e.of)]
       \/ e.kind = "other" /\ UNCHANGED ring
    /\ pending' = Tail(pending)
    /\ UNCHANGED <<lagged, emitted, server, servers, cursor, read>>

Buffer(p) == IF PollKind[p] = "errors" THEN ring.errors ELSE ring.outputs
Matches(p, r) == Filter[p] \in {NoFilter, r.tag}

(* collect_errors and collect_outputs: the places in the buffer of the     *)
(* first PollLimit records that are new to the client and match.           *)
Page(p) ==
    LET new == {i \in DOMAIN Buffer(p) : Buffer(p)[i].seq > cursor[p] /\ Matches(p, Buffer(p)[i])} IN
    {i \in new : Cardinality({j \in new : j < i}) < PollLimit}

(* Variant: latest_seq is the seq of the newest record of any kind. *)
LatestSeqOfRing(p, page) == ring.seq

(* latest_seq of a page: the seq of its last record. *)
LatestSeq(p, page) == IF page = {} THEN cursor[p] ELSE Buffer(p)[Max(page)].seq

(* get_agent_errors, get_external_outputs. *)
Poll(p) ==
    /\ server = "up"
    /\ cursor' = [cursor EXCEPT ![p] = LatestSeq(p, Page(p))]
    /\ read' = [read EXCEPT ![p] = @ \cup {Buffer(p)[i].seq : i \in Page(p)}]
    /\ UNCHANGED <<pending, lagged, emitted, server, servers, ring>>

RingNext ==
    \/ StartServer
    \/ \E e \in Events : Emit(e)
    \/ StopServer
    \/ Lag
    \/ Capture
    \/ \E p \in Pollers : Poll(p)

RingSpec == RingInit /\ [][RingNext]_ringVars

-----------------------------------------------------------------------------
(* Paging by latest_seq neither skips a record nor gives one twice: of the *)
(* records still kept that match a client's filter, it was given exactly   *)
(* those up to its cursor.                                                 *)
PagingExact ==
    \A p \in Pollers : \A i \in DOMAIN Buffer(p) :
        Matches(p, Buffer(p)[i]) =>
            (Buffer(p)[i].seq \in read[p] <=> Buffer(p)[i].seq <= cursor[p])
=============================================================================
