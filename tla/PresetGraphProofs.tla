-------------------------- MODULE PresetGraphProofs --------------------------
(***************************************************************************)
(* What the structure operations keep, for any number of presets, agents   *)
(* and concurrent callers, across restarts: instances are within reach of  *)
(* their preset, shown connections are routed, batches are all or nothing. *)
(***************************************************************************)
EXTENDS PresetGraph, TLAPS

USE GraphAssumption

(* The types of all variables but the history of escapes, which is a set   *)
(* of agents whatever the steps do.                                        *)
GraphTypes ==
    /\ usedPresets \subseteq PresetIds /\ presets \subseteq usedPresets
    /\ presetLock \subseteq usedPresets
    /\ usedAgents \subseteq AgentIds /\ agents \subseteq usedAgents
    /\ specAgents \in [PresetIds -> SUBSET AgentIds]
    /\ specConns \in [PresetIds -> Seq(Conn)]
    /\ presetOf \in [AgentIds -> PresetIds \cup {NoPreset}]
    /\ connections \subseteq Conn /\ strays \subseteq Conn
    /\ file \in [agents : SUBSET AgentIds, conns : Seq(Conn)]
    /\ call \in [Callers -> Call]
    /\ calls \in Nat

(* A record of a call has these components. *)
LEMMA CallFields ==
  ASSUME GraphTypes, NEW c \in Callers
  PROVE  /\ call[c].op \in AllOps /\ call[c].pc \in CallPc
         /\ Preset(c) \in PresetIds \cup {NoPreset}
         /\ Agent(c) \in AgentIds \cup {NoAgent}
         /\ call[c].conn \in Conn \cup {NoConn}
         /\ call[c].ids \in SUBSET AgentIds
         /\ call[c].conns \in Seq(Conn)
         /\ call[c].done \in Nat
BY DEF GraphTypes, Call, Preset, Agent

(* What a step of caller c does to the calls: the others stay where they   *)
(* are.                                                                    *)
Moves(c, pc, p, a) ==
    /\ call' \in [Callers -> Call]
    /\ call'[c].pc = pc /\ call'[c].preset = p /\ call'[c].agent = a
    /\ \A d \in Callers \ {c} : call'[d] = call[d]

(* Going on keeps the call's preset and agent. *)
LEMMA GotoMoves ==
  ASSUME GraphTypes, NEW c \in Callers, NEW pc \in CallPc, Goto(c, pc)
  PROVE  Moves(c, pc, Preset(c), Agent(c)) /\ call'[c].ids = call[c].ids
BY DEF GraphTypes, Goto, Call, Moves, Preset, Agent

(* The call of a caller that is in none. *)
LEMMA IdleCallType ==
  /\ IdleCall \in Call /\ IdleCall.pc = "idle" /\ IdleCall.preset = NoPreset
  /\ IdleCall.agent = NoAgent /\ IdleCall.ids = {}
BY DEF IdleCall, Call, CallPc, AllOps

(* A returned call refers to nothing. *)
LEMMA ReturnMoves ==
  ASSUME GraphTypes, NEW c \in Callers, Return(c)
  PROVE  Moves(c, "idle", NoPreset, NoAgent) /\ call'[c].ids = {}
BY IdleCallType DEF GraphTypes, Return, Moves

-----------------------------------------------------------------------------
(* Types of the other variables. *)
MapTypes ==
    /\ usedPresets \subseteq PresetIds /\ presets \subseteq usedPresets
    /\ presetLock \subseteq usedPresets
    /\ usedAgents \subseteq AgentIds /\ agents \subseteq usedAgents
    /\ specAgents \in [PresetIds -> SUBSET AgentIds]
    /\ presetOf \in [AgentIds -> PresetIds \cup {NoPreset}]
    /\ connections \subseteq Conn /\ strays \subseteq Conn
    /\ calls \in Nat

SeqTypes ==
    /\ specConns \in [PresetIds -> Seq(Conn)]
    /\ file \in [agents : SUBSET AgentIds, conns : Seq(Conn)]

(* The types, taken apart. *)
LEMMA TypeParts == GraphTypes <=> MapTypes /\ SeqTypes /\ call \in [Callers -> Call]
BY DEF GraphTypes, MapTypes, SeqTypes

(* Renaming the ids of connections leaves connections. *)
LEMMA RenamedConnsType ==
  ASSUME NEW as \in SUBSET AgentIds, NEW f \in [as -> AgentIds], NEW conns \in Seq(Conn)
  PROVE  /\ RenamedConns(f, conns) \in Seq(Conn)
         /\ Range(RenamedConns(f, conns)) \subseteq Conn
<1>1. DOMAIN conns = 1 .. Len(conns) /\ Len(conns) \in Nat
      /\ \A i \in 1 .. Len(conns) : conns[i] \in Conn
  OBVIOUS
<1>2. \A i \in 1 .. Len(conns) :
        <<Renamed(f, conns[i][1]), Renamed(f, conns[i][2])>> \in Conn
  BY <1>1 DEF Renamed, Conn
<1>3. RenamedConns(f, conns) \in [1 .. Len(conns) -> Conn]
  BY <1>1, <1>2 DEF RenamedConns
<1>4. RenamedConns(f, conns) \in Seq(Conn)
  BY <1>1, <1>3
<1>5. Range(RenamedConns(f, conns)) \subseteq Conn
  BY <1>3 DEF Range
<1> QED BY <1>4, <1>5

(* Taking one connection out leaves connections. *)
LEMMA RemoveAtType ==
  ASSUME NEW s \in Seq(Conn), NEW i \in 1 .. Len(s)
  PROVE  RemoveAt(s, i) \in Seq(Conn)
<1>1. SubSeq(s, 1, i - 1) \in Seq(Conn) /\ SubSeq(s, i + 1, Len(s)) \in Seq(Conn)
  OBVIOUS
<1> QED BY <1>1 DEF RemoveAt

-----------------------------------------------------------------------------
(* Every agent instance is in the spec of the preset it was created in, or *)
(* its add_agent waits for the preset's lock.                              *)
InstanceInSpec ==
    \A a \in agents :
        \/ a \in specAgents[presetOf[a]]
        \/ \E c \in Callers : At(c, "add_agent_spec") /\ Agent(c) = a /\ Preset(c) = presetOf[a]

(* The inductive invariant of the ids. *)
GraphInv == GraphTypes /\ IdsInUse /\ InstanceInSpec

(* What a call that has come to pc must refer to. *)
GoodCall(c, pc, p, a) ==
    /\ Moves(c, pc, p, a)
    /\ pc = "idle" \/ p \in usedPresets'
    /\ a \in usedAgents' \cup {NoAgent}
    /\ call'[c].ids \subseteq usedAgents'
    /\ pc = "add_agent_spec" => a \in usedAgents'
    /\ pc = "remove_spec" => a \notin agents'
    /\ pc \in {"add_conn_lookup", "add_conn"} => call'[c].conn \in Conn

(* The other calls' references stay good: instances appear only under new  *)
(* ids.                                                                    *)
LEMMA IdsStep ==
  ASSUME GraphInv, NEW c \in Callers, NEW pc, NEW p, NEW a, GoodCall(c, pc, p, a),
         usedPresets \subseteq usedPresets', usedAgents \subseteq usedAgents',
         usedAgents' \subseteq AgentIds,
         agents' \cap (usedAgents \cup {NoAgent}) \subseteq agents,
         \A b \in agents' : presetOf'[b] \in usedPresets',
         \A q \in PresetIds : specAgents'[q] \subseteq usedAgents'
  PROVE  IdsInUse'
<1>1. ASSUME NEW d \in Callers
      PROVE  /\ At(d, "idle")' \/ Preset(d)' \in usedPresets'
             /\ Agent(d)' \in usedAgents' \cup {NoAgent}
             /\ call'[d].ids \subseteq usedAgents'
             /\ At(d, "add_agent_spec")' => Agent(d)' \in usedAgents'
             /\ At(d, "remove_spec")' => Agent(d)' \notin agents'
             /\ At(d, "add_conn_lookup")' \/ At(d, "add_conn")' => call'[d].conn \in Conn
  <2>1. CASE d = c
    BY <2>1 DEF GoodCall, Moves, Preset, Agent, At
  <2>2. CASE d # c
    BY <1>1, <2>2 DEF GraphInv, IdsInUse, GoodCall, Moves, Preset, Agent, At
  <2> QED BY <2>1, <2>2
<1> QED BY <1>1 DEF IdsInUse

(* A step that adds no instance, takes nothing out of a spec that has an   *)
(* instance, and is not the one that add_agent waits for.                  *)
LEMMA QuietStep ==
  ASSUME GraphInv, NEW c \in Callers, NEW pc, NEW p, NEW a, GoodCall(c, pc, p, a),
         ~At(c, "add_agent_spec"),
         agents' \subseteq agents, presetOf' = presetOf, UNCHANGED ids,
         \A q \in PresetIds : specAgents'[q] \subseteq usedAgents,
         \A b \in agents' : b \in specAgents[presetOf[b]] => b \in specAgents'[presetOf[b]]
  PROVE  IdsInUse' /\ InstanceInSpec'
<1>1. IdsInUse'
  BY IdsStep DEF GraphInv, GraphTypes, IdsInUse, ids
<1>2. InstanceInSpec'
  <2> SUFFICES ASSUME NEW b \in agents', b \notin specAgents'[presetOf'[b]]
               PROVE  \E d \in Callers : /\ At(d, "add_agent_spec")' /\ Agent(d)' = b
                                         /\ Preset(d)' = presetOf'[b]
    BY DEF InstanceInSpec
  <2>1. PICK d \in Callers : At(d, "add_agent_spec") /\ Agent(d) = b
                            /\ Preset(d) = presetOf[b]
    BY DEF GraphInv, InstanceInSpec
  <2>2. d # c
    BY <2>1
  <2> QED BY <2>1, <2>2 DEF GoodCall, Moves, At, Agent, Preset
<1> QED BY <1>1, <1>2

(* Instances are added under new ids, together with their entry in the     *)
(* spec.                                                                   *)
LEMMA BuildStep ==
  ASSUME GraphInv, NEW c \in Callers, NEW pc, NEW p \in usedPresets', NEW a,
         NEW built \in SUBSET (usedAgents' \ usedAgents),
         GoodCall(c, pc, p, a), ~At(c, "add_agent_spec"),
         usedPresets \subseteq usedPresets', usedAgents \subseteq usedAgents',
         usedAgents' \subseteq AgentIds, agents' = agents \cup built,
         presetOf' = [b \in AgentIds |-> IF b \in built THEN p ELSE presetOf[b]],
         built \subseteq specAgents'[p],
         \A q \in PresetIds : specAgents'[q] \subseteq usedAgents',
         \A b \in agents : specAgents[presetOf[b]] \subseteq specAgents'[presetOf[b]]
  PROVE  IdsInUse' /\ InstanceInSpec'
<1>1. agents \subseteq usedAgents /\ usedAgents \subseteq AgentIds
  BY DEF GraphInv, GraphTypes
<1>2. /\ \A b \in agents : presetOf'[b] = presetOf[b]
      /\ \A b \in built : presetOf'[b] = p
  BY <1>1
<1>3. IdsInUse'
  <2>1. \A b \in agents' : presetOf'[b] \in usedPresets'
    BY <1>2 DEF GraphInv, IdsInUse
  <2> QED BY <2>1, IdsStep
<1>4. InstanceInSpec'
  <2> SUFFICES ASSUME NEW b \in agents', b \notin specAgents'[presetOf'[b]]
               PROVE  \E d \in Callers : /\ At(d, "add_agent_spec")' /\ Agent(d)' = b
                                         /\ Preset(d)' = presetOf'[b]
    BY DEF InstanceInSpec
  <2>1. b \in agents
    BY <1>2
  <2>2. PICK d \in Callers : At(d, "add_agent_spec") /\ Agent(d) = b
                            /\ Preset(d) = presetOf[b]
    BY <1>2, <2>1 DEF GraphInv, InstanceInSpec
  <2>3. d # c
    BY <2>2
  <2> QED BY <1>2, <2>1, <2>2, <2>3 DEF GoodCall, Moves, At, Agent, Preset
<1> QED BY <1>3, <1>4

-----------------------------------------------------------------------------
(* A preset is added with its agents, from an empty spec or from the file. *)
LEMMA AddPresetStep ==
  ASSUME GraphInv, NEW c \in Callers, NEW p \in PresetIds, NEW s \in {EmptySpec, file},
         NEW f \in NewIds(s.agents), NEW built \in SUBSET Range(f),
         AddPreset(c, p, s, f, built)
  PROVE  GraphInv'
<1>1. GraphTypes /\ MapTypes /\ SeqTypes /\ call \in [Callers -> Call]
  BY TypeParts DEF GraphInv
<1>2. s.agents \in SUBSET AgentIds /\ s.conns \in Seq(Conn)
  <2>1. CASE s = EmptySpec
    BY <2>1 DEF EmptySpec
  <2>2. CASE s = file
    BY <1>1, <2>2 DEF SeqTypes
  <2> QED BY <2>1, <2>2
<1>3. f \in [s.agents -> AgentIds] /\ Range(f) \subseteq AgentIds \ usedAgents
  BY <1>2 DEF NewIds, Injection, Range
<1>4. /\ RenamedConns(f, s.conns) \in Seq(Conn)
      /\ Range(RenamedConns(f, s.conns)) \subseteq Conn
  BY <1>2, <1>3, RenamedConnsType
<1>5. Moves(c, "add_preset_insert", p, NoAgent) /\ call'[c].ids = {}
  <2> DEFINE new == [IdleCall EXCEPT !.pc = "add_preset_insert", !.preset = p]
  <2>1. /\ new \in Call /\ new.pc = "add_preset_insert" /\ new.preset = p
        /\ new.agent = NoAgent /\ new.ids = {}
    BY IdleCallType DEF Call, CallPc
  <2>2. call' = [call EXCEPT ![c] = new]
    BY DEF AddPreset
  <2> QED BY <1>1, <2>1, <2>2 DEF Moves
<1>6. MapTypes'
  <2>1. Strays(f, s.conns) \subseteq Conn
    BY DEF Strays, Touching
  <2>2. strays' \subseteq Conn
    BY <1>1, <2>1 DEF AddPreset, MapTypes
  <2> QED BY <1>1, <1>3, <1>4, <2>2 DEF AddPreset, Begin, MapTypes
<1>7. SeqTypes'
  BY <1>1, <1>4 DEF AddPreset, SeqTypes
<1>8. GraphTypes'
  BY <1>5, <1>6, <1>7 DEF Moves, GraphTypes, MapTypes, SeqTypes
<1>9. IdsInUse' /\ InstanceInSpec'
  <2>1. /\ p \in usedPresets' /\ built \in SUBSET (usedAgents' \ usedAgents)
        /\ usedPresets \subseteq usedPresets' /\ usedAgents \subseteq usedAgents'
        /\ usedAgents' \subseteq AgentIds /\ ~At(c, "add_agent_spec")
    BY <1>3, <1>6 DEF AddPreset, Begin, At, MapTypes
  <2>2. /\ built \subseteq specAgents'[p]
        /\ \A q \in PresetIds : specAgents'[q] \subseteq usedAgents'
    BY <1>1 DEF AddPreset, MapTypes, GraphInv, IdsInUse
  <2>3. \A b \in agents : specAgents[presetOf[b]] \subseteq specAgents'[presetOf[b]]
    BY <1>1 DEF AddPreset, MapTypes, GraphInv, IdsInUse
  <2>4. GoodCall(c, "add_preset_insert", p, NoAgent)
    BY <1>5, <2>1 DEF GoodCall
  <2> QED BY <2>1, <2>2, <2>3, <2>4, BuildStep DEF AddPreset
<1> QED BY <1>8, <1>9 DEF GraphInv

(* A batch adds its agents. *)
LEMMA BatchAgentsStep ==
  ASSUME GraphInv, NEW c \in Callers, NEW f \in NewIds(call[c].ids),
         NEW built \in SUBSET Range(f), BatchAgents(c, f, built)
  PROVE  GraphInv'
<1>1. GraphTypes /\ MapTypes /\ SeqTypes /\ call \in [Callers -> Call]
  BY TypeParts DEF GraphInv
<1>2. /\ call[c].ids \in SUBSET AgentIds /\ call[c].conns \in Seq(Conn)
      /\ Preset(c) \in usedPresets /\ Preset(c) \in PresetIds
      /\ Agent(c) \in usedAgents \cup {NoAgent}
  BY <1>1, CallFields DEF GraphInv, IdsInUse, BatchAgents, At, MapTypes
<1>3. f \in [call[c].ids -> AgentIds] /\ Range(f) \subseteq AgentIds \ usedAgents
  BY <1>2 DEF NewIds, Injection, Range
<1>4. RenamedConns(f, call[c].conns) \in Seq(Conn)
  BY <1>2, <1>3, RenamedConnsType
<1>5. PICK pc \in {"batch_conns", "batch_rollback"}, conns \in Seq(Conn) :
        call' = [call EXCEPT ![c].pc = pc, ![c].ids = built, ![c].conns = conns]
  <2>1. CASE built = Range(f)
    <3>1. call' = [call EXCEPT ![c].pc = "batch_conns", ![c].ids = built,
                               ![c].conns = RenamedConns(f, call[c].conns)]
      BY <2>1 DEF BatchAgents
    <3> QED BY <1>4, <3>1
  <2>2. CASE built # Range(f)
    <3>1. call' = [call EXCEPT ![c].pc = "batch_rollback", ![c].ids = built,
                               ![c].conns = <<>>]
      BY <2>2 DEF BatchAgents
    <3>2. <<>> \in Seq(Conn)
      OBVIOUS
    <3> QED BY <3>1, <3>2
  <2> QED BY <2>1, <2>2
<1>6. Moves(c, pc, Preset(c), Agent(c)) /\ call'[c].ids = built
  <2> DEFINE new == [call[c] EXCEPT !.pc = pc, !.ids = built, !.conns = conns]
  <2>1. call[c] \in Call /\ built \in SUBSET AgentIds /\ pc \in CallPc
    BY <1>1, <1>3 DEF CallPc
  <2>2. /\ new \in Call /\ new.pc = pc /\ new.preset = Preset(c) /\ new.agent = Agent(c)
        /\ new.ids = built
    BY <2>1 DEF Call, Preset, Agent
  <2>3. call' = [call EXCEPT ![c] = new]
    BY <1>1, <1>5, <2>1 DEF Call
  <2> QED BY <1>1, <2>2, <2>3 DEF Moves
<1>7. MapTypes'
  BY <1>1, <1>2, <1>3 DEF BatchAgents, MapTypes
<1>8. GraphTypes'
  BY <1>1, <1>6, <1>7 DEF Moves, BatchAgents, GraphTypes, MapTypes, SeqTypes
<1>9. IdsInUse' /\ InstanceInSpec'
  <2>1. /\ Preset(c) \in usedPresets' /\ built \in SUBSET (usedAgents' \ usedAgents)
        /\ usedPresets \subseteq usedPresets' /\ usedAgents \subseteq usedAgents'
        /\ usedAgents' \subseteq AgentIds /\ ~At(c, "add_agent_spec")
    BY <1>2, <1>3, <1>7 DEF BatchAgents, At, MapTypes
  <2>2. /\ built \subseteq specAgents'[Preset(c)]
        /\ \A q \in PresetIds : specAgents'[q] \subseteq usedAgents'
        /\ \A b \in agents : specAgents[presetOf[b]] \subseteq specAgents'[presetOf[b]]
    BY <1>1, <1>2, <1>3 DEF BatchAgents, MapTypes, GraphInv, IdsInUse
  <2>3. GoodCall(c, pc, Preset(c), Agent(c))
    BY <1>2, <1>6, <2>1 DEF GoodCall
  <2> QED BY <2>1, <2>2, <2>3, BuildStep DEF BatchAgents
<1> QED BY <1>8, <1>9 DEF GraphInv

-----------------------------------------------------------------------------
(* A call begins, on a preset that exists. *)
LEMMA BeginStep ==
  ASSUME GraphInv, NEW c \in Callers, NEW new \in Call, call' = [call EXCEPT ![c] = new],
         new.preset \in usedPresets, new.agent \in usedAgents \cup {NoAgent},
         new.ids \subseteq usedAgents,
         new.pc \notin {"add_agent_spec", "remove_spec"},
         new.pc \in {"add_conn_lookup", "add_conn"} => new.conn \in Conn,
         Begin(c), UNCHANGED <<ids, presets, presetLock, spec, runtime, file>>
  PROVE  GraphInv'
<1>1. Moves(c, new.pc, new.preset, new.agent)
  BY DEF Moves, GraphInv, GraphTypes
<1>2. GoodCall(c, new.pc, new.preset, new.agent)
  BY <1>1 DEF GoodCall, ids, GraphInv, GraphTypes
<1>3. GraphTypes'
  BY <1>1 DEF GraphInv, GraphTypes, Begin, Moves, ids, spec, runtime
<1>4. IdsInUse' /\ InstanceInSpec'
  BY <1>2, QuietStep DEF Begin, At, runtime, spec, GraphInv, IdsInUse
<1> QED BY <1>3, <1>4 DEF GraphInv

(* Every call that begins leaves the invariant as it is. *)
LEMMA BeginCallStep ==
  ASSUME GraphInv, NEW c \in Callers, BeginCall(c)
  PROVE  GraphInv'
<1> USE DEF GraphInv
<1>0. PICK p \in PresetIds :
        \/ SaveSnapshot(c, p)
        \/ BeginIn(c, "remove_preset", p, "remove_lock", NoAgent, NoConn)
        \/ BeginIn(c, "add_agent", p, "add_agent_build", NoAgent, NoConn)
        \/ \E a \in Shown(p) : BeginIn(c, "remove_agent", p, "stop", a, NoConn)
        \/ \E cn \in Shown(p) \X Shown(p) : AddConnCheck(c, p, cn)
        \/ \E cn \in Range(specConns[p]) :
             BeginIn(c, "remove_connection", p, "remove_conn", NoAgent, cn)
        \/ \E as \in SUBSET Shown(p), conns \in BoundedSeq(Shown(p) \X Shown(p), MaxConns) :
             BeginBatch(c, p, as, conns)
  BY DEF BeginCall
<1>1. /\ presets \subseteq usedPresets /\ usedAgents \subseteq AgentIds
      /\ specAgents[p] \subseteq usedAgents
      /\ specAgents[p] \in SUBSET AgentIds /\ specConns[p] \in Seq(Conn)
      /\ Shown(p) \subseteq specAgents[p]
  BY DEF GraphTypes, Shown, IdsInUse
<1>2. CASE SaveSnapshot(c, p)
  <2> DEFINE new == [IdleCall EXCEPT !.op = "save_preset", !.pc = "save_write",
                       !.preset = p, !.ids = specAgents[p], !.conns = specConns[p]]
  <2>1. /\ new \in Call /\ new.pc = "save_write" /\ new.preset = p /\ new.agent = NoAgent
        /\ new.ids = specAgents[p]
    BY <1>1, IdleCallType DEF Call, CallPc, AllOps
  <2> HIDE DEF new
  <2>2. call' = [call EXCEPT ![c] = new] /\ Begin(c) /\ p \in presets
        /\ UNCHANGED <<ids, presets, presetLock, spec, runtime, file>>
    BY <1>2 DEF SaveSnapshot, new
  <2> QED BY <1>1, <2>1, <2>2, BeginStep
<1>3. ASSUME NEW op \in AllOps, NEW pc \in CallPc \ {"add_agent_spec", "remove_spec",
                                          "add_conn_lookup", "add_conn"},
             NEW a \in usedAgents \cup {NoAgent}, NEW cn \in Conn \cup {NoConn},
             BeginIn(c, op, p, pc, a, cn)
      PROVE  GraphInv'
  <2> DEFINE new == [IdleCall EXCEPT !.op = op, !.pc = pc, !.preset = p,
                                     !.agent = a, !.conn = cn]
  <2>1. new \in Call /\ new.pc = pc /\ new.preset = p /\ new.agent = a /\ new.ids = {}
    BY <1>1, <1>3, IdleCallType DEF Call
  <2> HIDE DEF new
  <2>2. call' = [call EXCEPT ![c] = new] /\ Begin(c) /\ p \in presets
        /\ UNCHANGED <<ids, presets, presetLock, spec, runtime, file>>
    BY <1>3 DEF BeginIn, new
  <2> QED BY <1>1, <1>3, <2>1, <2>2, BeginStep
<1>4. CASE \/ BeginIn(c, "remove_preset", p, "remove_lock", NoAgent, NoConn)
           \/ BeginIn(c, "add_agent", p, "add_agent_build", NoAgent, NoConn)
  BY <1>3, <1>4 DEF AllOps, CallPc
<1>5. ASSUME NEW a \in Shown(p), BeginIn(c, "remove_agent", p, "stop", a, NoConn)
      PROVE  GraphInv'
  <2>1. a \in usedAgents
    BY <1>1, <1>5 DEF IdsInUse
  <2> QED BY <1>3, <1>5, <2>1 DEF AllOps, CallPc
<1>6. ASSUME NEW cn \in Shown(p) \X Shown(p), AddConnCheck(c, p, cn)
      PROVE  GraphInv'
  <2> DEFINE new == [IdleCall EXCEPT !.op = "add_connection",
                            !.pc = "add_conn_lookup", !.preset = p, !.conn = cn]
  <2>0. cn \in Conn
    BY <1>1 DEF Conn
  <2>1. /\ new \in Call /\ new.pc = "add_conn_lookup" /\ new.preset = p
        /\ new.agent = NoAgent /\ new.conn = cn /\ new.ids = {}
    BY <1>1, <2>0, IdleCallType DEF Call, CallPc, AllOps
  <2> HIDE DEF new
  <2>2. call' = [call EXCEPT ![c] = new] /\ Begin(c) /\ p \in usedPresets
        /\ UNCHANGED <<ids, presets, presetLock, spec, runtime, file>>
    BY <1>6 DEF AddConnCheck, new
  <2> QED BY <2>0, <2>1, <2>2, BeginStep
<1>7. ASSUME NEW cn \in Range(specConns[p]),
             BeginIn(c, "remove_connection", p, "remove_conn", NoAgent, cn)
      PROVE  GraphInv'
  <2>1. cn \in Conn
    BY <1>1 DEF Range
  <2> QED BY <1>3, <1>7, <2>1 DEF AllOps, CallPc
<1>8. ASSUME NEW as \in SUBSET Shown(p),
             NEW conns \in BoundedSeq(Shown(p) \X Shown(p), MaxConns),
             BeginBatch(c, p, as, conns)
      PROVE  GraphInv'
  <2> DEFINE new == [IdleCall EXCEPT !.op = "add_batch", !.preset = p,
                            !.pc = "batch_agents", !.ids = as, !.conns = conns]
  <2>0. as \in SUBSET AgentIds /\ conns \in Seq(Conn)
    <3>1. PICK m \in 0 .. MaxConns : conns \in [1 .. m -> Shown(p) \X Shown(p)]
      BY DEF BoundedSeq, SeqOf
    <3>2. Shown(p) \X Shown(p) \subseteq Conn
      BY <1>1 DEF Conn
    <3>3. m \in Nat /\ conns \in [1 .. m -> Conn]
      BY <3>1, <3>2
    <3>4. conns \in Seq(Conn)
      BY <3>3
    <3> QED BY <1>1, <3>4
  <2>1. /\ new \in Call /\ new.pc = "batch_agents" /\ new.preset = p /\ new.agent = NoAgent
        /\ new.ids = as
    BY <1>1, <2>0, IdleCallType DEF Call, CallPc, AllOps
  <2> HIDE DEF new
  <2>2. call' = [call EXCEPT ![c] = new] /\ Begin(c) /\ p \in presets
        /\ UNCHANGED <<ids, presets, presetLock, spec, runtime, file>>
    BY <1>8 DEF BeginBatch, new
  <2> QED BY <1>1, <2>1, <2>2, BeginStep
<1> QED BY <1>0, <1>2, <1>4, <1>5, <1>6, <1>7, <1>8

-----------------------------------------------------------------------------
(* Steps that leave the agents map and the agents of the specs alone. *)
LEMMA ConnStep ==
  ASSUME GraphInv, NEW c \in Callers, NEW pc, NEW p, NEW a, GoodCall(c, pc, p, a),
         ~At(c, "add_agent_spec"),
         UNCHANGED <<ids, specAgents, agents, presetOf, calls>>,
         presets' \subseteq usedPresets, presetLock' \subseteq usedPresets,
         connections' \subseteq Conn,
         specConns' \in [PresetIds -> Seq(Conn)],
         file' \in [agents : SUBSET AgentIds, conns : Seq(Conn)]
  PROVE  GraphInv'
<1>1. GraphTypes'
  BY DEF GraphInv, GraphTypes, GoodCall, Moves, ids
<1>2. IdsInUse' /\ InstanceInSpec'
  BY QuietStep DEF GraphInv, IdsInUse
<1> QED BY <1>1, <1>2 DEF GraphInv

(* Every step of a call that has begun keeps the invariant. *)
LEMMA CallStepInv ==
  ASSUME GraphInv, NEW c \in Callers, CallStep(c)
  PROVE  GraphInv'
<1>0. /\ GraphTypes /\ MapTypes /\ SeqTypes /\ call[c] \in Call
      /\ call[c].conns \in Seq(Conn) /\ call[c].done \in Nat
      /\ call[c].ids \in SUBSET AgentIds /\ call[c].ids \subseteq usedAgents
      /\ Agent(c) \in usedAgents \cup {NoAgent}
      /\ At(c, "idle") \/ Preset(c) \in usedPresets
  BY TypeParts, CallFields DEF GraphInv, GraphTypes, IdsInUse
<1>ret. ASSUME Return(c) PROVE GoodCall(c, "idle", NoPreset, NoAgent)
  BY <1>0, <1>ret, ReturnMoves DEF GoodCall
<1>go. ASSUME NEW pc \in CallPc \ {"add_agent_spec", "remove_spec", "add_conn_lookup",
                                   "add_conn"},
              Goto(c, pc), ~At(c, "idle"), UNCHANGED ids
       PROVE  GoodCall(c, pc, Preset(c), Agent(c))
  <2>1. Moves(c, pc, Preset(c), Agent(c)) /\ call'[c].ids = call[c].ids
    BY <1>0, <1>go, GotoMoves
  <2> QED BY <1>0, <1>go, <2>1 DEF GoodCall, ids
<1>1. CASE AddPresetInsert(c)
  BY <1>0, <1>1, <1>ret, ConnStep
     DEF AddPresetInsert, At, MapTypes, SeqTypes, spec, runtime
<1>2. CASE SaveWrite(c)
  BY <1>0, <1>2, <1>ret, ConnStep DEF SaveWrite, At, MapTypes, SeqTypes, spec, runtime
<1>3. CASE AddAgentBuild(c)
  <2>1. PICK a \in AgentIds \ usedAgents :
          /\ usedAgents' = usedAgents \cup {a}
          /\ \/ /\ agents' = agents \cup {a}
                /\ presetOf' = [presetOf EXCEPT ![a] = Preset(c)]
                /\ call' = [call EXCEPT ![c].pc = "add_agent_spec", ![c].agent = a]
             \/ Return(c) /\ UNCHANGED <<agents, presetOf>>
    BY <1>3 DEF AddAgentBuild
  <2>2. CASE Return(c) /\ UNCHANGED <<agents, presetOf>>
    <3>1. GraphTypes'
      BY <1>0, <1>3, <1>ret, <2>1, <2>2
         DEF AddAgentBuild, GraphTypes, MapTypes, SeqTypes, GoodCall, Moves, spec
    <3>2. IdsInUse'
      BY <1>0, <1>3, <1>ret, <2>1, <2>2, IdsStep
         DEF AddAgentBuild, MapTypes, GraphInv, IdsInUse, spec
    <3>3. InstanceInSpec'
      BY <1>0, <1>3, <1>ret, <2>1, <2>2
         DEF AddAgentBuild, GraphInv, InstanceInSpec, GoodCall, Moves, spec, At, Agent,
             Preset
    <3> QED BY <3>1, <3>2, <3>3 DEF GraphInv
  <2>3. CASE /\ agents' = agents \cup {a}
             /\ presetOf' = [presetOf EXCEPT ![a] = Preset(c)]
             /\ call' = [call EXCEPT ![c].pc = "add_agent_spec", ![c].agent = a]
    <3>0. Preset(c) \in usedPresets /\ Preset(c) \in PresetIds
      BY <1>0, <1>3 DEF AddAgentBuild, At, MapTypes
    <3>1. Moves(c, "add_agent_spec", Preset(c), a) /\ call'[c].ids = call[c].ids
      <4> DEFINE new == [call[c] EXCEPT !.pc = "add_agent_spec", !.agent = a]
      <4>1. /\ new \in Call /\ new.pc = "add_agent_spec" /\ new.preset = Preset(c)
            /\ new.agent = a /\ new.ids = call[c].ids
        BY <1>0 DEF Call, CallPc, Preset
      <4>2. call' = [call EXCEPT ![c] = new]
        BY <1>0, <2>3 DEF GraphTypes, Call
      <4> QED BY <1>0, <4>1, <4>2 DEF Moves, GraphTypes
    <3>2. GoodCall(c, "add_agent_spec", Preset(c), a)
      BY <1>0, <1>3, <2>1, <3>0, <3>1 DEF GoodCall, AddAgentBuild
    <3>3. GraphTypes'
      BY <1>0, <1>3, <2>1, <2>3, <3>0, <3>1
         DEF AddAgentBuild, GraphTypes, MapTypes, SeqTypes, Moves, spec
    <3>4. \A b \in agents : presetOf'[b] = presetOf[b]
      BY <1>0, <2>3 DEF MapTypes
    <3>5. presetOf'[a] = Preset(c)
      BY <1>0, <2>3 DEF MapTypes
    <3>6. IdsInUse'
      <4>1. \A b \in agents' : presetOf'[b] \in usedPresets'
        BY <1>3, <2>3, <3>0, <3>4, <3>5 DEF AddAgentBuild, GraphInv, IdsInUse
      <4>2. \A q \in PresetIds : specAgents'[q] \subseteq usedAgents'
        BY <1>3, <2>1 DEF AddAgentBuild, GraphInv, IdsInUse, spec
      <4>3. agents' \cap (usedAgents \cup {NoAgent}) \subseteq agents
        BY <2>1, <2>3
      <4>4. /\ usedPresets \subseteq usedPresets' /\ usedAgents \subseteq usedAgents'
            /\ usedAgents' \subseteq AgentIds
        BY <1>0, <1>3, <2>1 DEF AddAgentBuild, MapTypes
      <4> QED BY <3>2, <4>1, <4>2, <4>3, <4>4, IdsStep
    <3>7. InstanceInSpec'
      <4> SUFFICES ASSUME NEW b \in agents', b \notin specAgents'[presetOf'[b]]
                   PROVE  \E d \in Callers : /\ At(d, "add_agent_spec")' /\ Agent(d)' = b
                                             /\ Preset(d)' = presetOf'[b]
        BY DEF InstanceInSpec
      <4>1. CASE b = a
        BY <3>1, <3>5, <4>1 DEF Moves, At, Agent, Preset
      <4>2. CASE b # a
        <5>1. b \in agents /\ specAgents' = specAgents
          BY <1>3, <2>3, <4>2 DEF AddAgentBuild, spec
        <5>2. PICK d \in Callers : At(d, "add_agent_spec") /\ Agent(d) = b
                                  /\ Preset(d) = presetOf[b]
          BY <3>4, <5>1 DEF GraphInv, InstanceInSpec
        <5>3. d # c
          BY <1>3, <5>2 DEF AddAgentBuild, At
        <5> QED BY <3>1, <3>4, <5>1, <5>2, <5>3 DEF Moves, At, Agent, Preset
      <4> QED BY <4>1, <4>2
    <3> QED BY <3>3, <3>6, <3>7 DEF GraphInv
  <2> QED BY <2>1, <2>2, <2>3
<1>4. CASE AddAgentSpec(c)
  <2>0. /\ Preset(c) \in usedPresets /\ Preset(c) \in PresetIds
        /\ Agent(c) \in usedAgents /\ Agent(c) \in AgentIds
    BY <1>0, <1>4 DEF AddAgentSpec, At, MapTypes, GraphInv, IdsInUse
  <2>1. /\ Moves(c, "idle", NoPreset, NoAgent)
        /\ GoodCall(c, "idle", NoPreset, NoAgent)
    BY <1>0, <1>4, <1>ret, ReturnMoves DEF AddAgentSpec
  <2>2. GraphTypes'
    BY <1>0, <1>4, <2>0, <2>1
       DEF AddAgentSpec, GraphTypes, MapTypes, SeqTypes, Moves, ids, runtime
  <2>3. \A q \in PresetIds : specAgents'[q] =
          IF q = Preset(c) THEN specAgents[q] \cup {Agent(c)} ELSE specAgents[q]
    BY <1>0, <1>4 DEF AddAgentSpec, MapTypes
  <2>4. IdsInUse'
    BY <1>0, <1>4, <2>0, <2>1, <2>3, IdsStep
       DEF AddAgentSpec, MapTypes, GraphInv, IdsInUse, ids, runtime
  <2>5. InstanceInSpec'
    <3> SUFFICES ASSUME NEW b \in agents', b \notin specAgents'[presetOf'[b]]
                 PROVE  \E d \in Callers : /\ At(d, "add_agent_spec")' /\ Agent(d)' = b
                                           /\ Preset(d)' = presetOf'[b]
      BY DEF InstanceInSpec
    <3>1. b \in agents /\ presetOf' = presetOf /\ presetOf[b] \in PresetIds
      BY <1>0, <1>4 DEF AddAgentSpec, runtime, GraphInv, IdsInUse, MapTypes
    <3>2. PICK d \in Callers : At(d, "add_agent_spec") /\ Agent(d) = b
                              /\ Preset(d) = presetOf[b]
      BY <2>3, <3>1 DEF GraphInv, InstanceInSpec
    <3>3. d # c
      BY <2>3, <3>1, <3>2
    <3> QED BY <2>1, <3>1, <3>2, <3>3 DEF Moves, At, Agent, Preset
  <2> QED BY <2>2, <2>4, <2>5 DEF GraphInv
<1>5. CASE AddConnLookup(c)
  <2>1. CASE Return(c)
    BY <1>0, <1>5, <2>1, <1>ret, ConnStep
       DEF AddConnLookup, At, MapTypes, SeqTypes, spec, runtime
  <2>2. CASE Goto(c, "add_conn")
    <3>1. /\ Moves(c, "add_conn", Preset(c), Agent(c)) /\ call'[c].conn = call[c].conn
          /\ call[c].conn \in Conn /\ call'[c].ids = call[c].ids
      BY <1>0, <1>5, <2>2, GotoMoves
         DEF AddConnLookup, CallPc, Goto, Call, GraphTypes, GraphInv, IdsInUse
    <3>2. GoodCall(c, "add_conn", Preset(c), Agent(c))
      BY <1>0, <1>5, <3>1 DEF GoodCall, AddConnLookup, At, ids
    <3> QED BY <1>0, <1>5, <3>2, ConnStep
               DEF AddConnLookup, At, MapTypes, SeqTypes, spec, runtime
  <2> QED BY <1>5, <2>1, <2>2 DEF AddConnLookup
<1>6. CASE AddConn(c)
  <2>1. call[c].conn \in Conn
    BY <1>6 DEF AddConn, GraphInv, IdsInUse
  <2>2. connections' \subseteq Conn /\ specConns' \in [PresetIds -> Seq(Conn)]
    <3>1. CASE UNCHANGED <<connections, specConns>>
      BY <1>0, <3>1 DEF MapTypes, SeqTypes
    <3>2. CASE /\ connections' = connections \cup {call[c].conn}
               /\ specConns' = [specConns EXCEPT ![Preset(c)] = Append(@, call[c].conn)]
      <4>1. \A s \in Seq(Conn) : Append(s, call[c].conn) \in Seq(Conn)
        BY <2>1
      <4> QED BY <1>0, <2>1, <3>2, <4>1 DEF MapTypes, SeqTypes
    <3> QED BY <1>6, <3>1, <3>2 DEF AddConn
  <2> QED BY <1>0, <1>6, <2>2, <1>ret, ConnStep DEF AddConn, At, MapTypes, SeqTypes
<1>7. CASE RemoveConn(c)
  <2>1. connections' \subseteq Conn /\ specConns' \in [PresetIds -> Seq(Conn)]
    <3>1. CASE UNCHANGED <<connections, specConns>>
      BY <1>0, <3>1 DEF MapTypes, SeqTypes
    <3>2. ASSUME NEW i \in FirstOf(specConns[Preset(c)], call[c].conn),
                 specConns' = [specConns EXCEPT ![Preset(c)] = RemoveAt(@, i)],
                 connections' = connections \ {call[c].conn}
          PROVE  connections' \subseteq Conn /\ specConns' \in [PresetIds -> Seq(Conn)]
      <4>1. Preset(c) \in PresetIds
        BY <1>0, <1>7 DEF RemoveConn, At, MapTypes
      <4>2. specConns[Preset(c)] \in Seq(Conn) /\ i \in DOMAIN specConns[Preset(c)]
        BY <1>0, <3>2, <4>1 DEF FirstOf, SeqTypes
      <4>3. RemoveAt(specConns[Preset(c)], i) \in Seq(Conn)
        BY <4>2, RemoveAtType
      <4> QED BY <1>0, <3>2, <4>3 DEF MapTypes, SeqTypes
    <3> QED BY <1>7, <3>1, <3>2 DEF RemoveConn
  <2> QED BY <1>0, <1>7, <2>1, <1>ret, ConnStep DEF RemoveConn, At, MapTypes, SeqTypes
<1>8. CASE BatchConns(c)
  <2>0. call[c].conns[call[c].done + 1] \in Conn
    BY <1>0, <1>8 DEF BatchConns
  <2>1. CASE /\ call' = [call EXCEPT ![c].pc = "batch_rollback",
                                     ![c].conns = SubSeq(@, 1, call[c].done)]
             /\ UNCHANGED <<connections, specConns>>
    <3>1. Moves(c, "batch_rollback", Preset(c), Agent(c)) /\ call'[c].ids = call[c].ids
      <4> DEFINE new == [call[c] EXCEPT !.pc = "batch_rollback",
                                        !.conns = SubSeq(call[c].conns, 1, call[c].done)]
      <4>1. SubSeq(call[c].conns, 1, call[c].done) \in Seq(Conn)
        BY <1>0, <1>8 DEF BatchConns
      <4>2. /\ new \in Call /\ new.pc = "batch_rollback" /\ new.preset = Preset(c)
            /\ new.agent = Agent(c) /\ new.ids = call[c].ids
        BY <1>0, <4>1 DEF Call, CallPc, Preset, Agent
      <4>3. call' = [call EXCEPT ![c] = new]
        BY <1>0, <2>1 DEF GraphTypes, Call
      <4> QED BY <1>0, <4>2, <4>3 DEF Moves, GraphTypes
    <3>2. GoodCall(c, "batch_rollback", Preset(c), Agent(c))
      BY <1>0, <1>8, <3>1 DEF GoodCall, BatchConns, At, ids
    <3> QED BY <1>0, <1>8, <2>1, <3>2, ConnStep DEF BatchConns, At, MapTypes, SeqTypes
  <2>2. CASE LET cn == call[c].conns[call[c].done + 1] IN
             /\ connections' = connections \cup {cn}
             /\ specConns' = [specConns EXCEPT ![Preset(c)] = Append(@, cn)]
             /\ call' = [call EXCEPT ![c].done = @ + 1]
    <3>1. Moves(c, "batch_conns", Preset(c), Agent(c)) /\ call'[c].ids = call[c].ids
      <4> DEFINE new == [call[c] EXCEPT !.done = call[c].done + 1]
      <4>0. call[c] \in Call /\ call[c].pc = "batch_conns" /\ call[c].done + 1 \in Nat
        BY <1>0, <1>8 DEF BatchConns, At
      <4>1. /\ new \in Call /\ new.pc = "batch_conns" /\ new.preset = Preset(c)
            /\ new.agent = Agent(c) /\ new.ids = call[c].ids
        BY <4>0 DEF Call, Preset, Agent
      <4>2. call' = [call EXCEPT ![c].done = @ + 1]
        BY <2>2
      <4>3. call' = [call EXCEPT ![c] = new]
        BY <1>0, <4>2 DEF GraphTypes, Call
      <4> QED BY <1>0, <4>1, <4>3 DEF Moves, GraphTypes
    <3>2. GoodCall(c, "batch_conns", Preset(c), Agent(c))
      BY <1>0, <1>8, <3>1 DEF GoodCall, BatchConns, At, ids
    <3>3. \A s \in Seq(Conn) : Append(s, call[c].conns[call[c].done + 1]) \in Seq(Conn)
      BY <2>0
    <3>4. connections' \subseteq Conn /\ specConns' \in [PresetIds -> Seq(Conn)]
      BY <1>0, <2>0, <2>2, <3>3 DEF MapTypes, SeqTypes
    <3> QED BY <1>0, <1>8, <3>2, <3>4, ConnStep DEF BatchConns, At, MapTypes, SeqTypes
  <2> QED BY <1>8, <2>1, <2>2 DEF BatchConns
<1>9. CASE BatchDone(c)
  BY <1>0, <1>9, <1>ret, ConnStep DEF BatchDone, At, MapTypes, SeqTypes, spec, runtime
<1>10. CASE RollbackConn(c)
  <2>1. Moves(c, "batch_rollback", Preset(c), Agent(c)) /\ call'[c].ids = call[c].ids
    <3> DEFINE new == [call[c] EXCEPT !.conns = Tail(call[c].conns)]
    <3>1. Tail(call[c].conns) \in Seq(Conn)
      BY <1>0, <1>10 DEF RollbackConn
    <3>2. /\ new \in Call /\ new.pc = "batch_rollback" /\ new.preset = Preset(c)
          /\ new.agent = Agent(c) /\ new.ids = call[c].ids
      BY <1>0, <1>10, <3>1 DEF Call, RollbackConn, At, Preset, Agent
    <3>3. call' = [call EXCEPT ![c] = new]
      BY <1>0, <1>10 DEF GraphTypes, Call, RollbackConn
    <3> QED BY <1>0, <3>2, <3>3 DEF Moves, GraphTypes
  <2>2. GoodCall(c, "batch_rollback", Preset(c), Agent(c))
    BY <1>0, <1>10, <2>1 DEF GoodCall, RollbackConn, At, ids
  <2>3. connections' \subseteq Conn /\ specConns' \in [PresetIds -> Seq(Conn)]
    <3>1. PICK i \in FirstOf(specConns[Preset(c)], Head(call[c].conns)) :
            specConns' = [specConns EXCEPT ![Preset(c)] = RemoveAt(@, i)]
      BY <1>10 DEF RollbackConn
    <3>2. Preset(c) \in PresetIds
      BY <1>0, <1>10 DEF RollbackConn, At, MapTypes
    <3>3. RemoveAt(specConns[Preset(c)], i) \in Seq(Conn)
      BY <1>0, <3>1, <3>2, RemoveAtType DEF FirstOf, SeqTypes
    <3> QED BY <1>0, <1>10, <3>1, <3>3 DEF RollbackConn, MapTypes, SeqTypes
  <2> QED BY <1>0, <1>10, <2>2, <2>3, ConnStep DEF RollbackConn, At, MapTypes, SeqTypes
<1>11. CASE RollbackAgents(c)
  <2>1. \A b \in agents' : b \in specAgents[presetOf[b]] => b \in specAgents'[presetOf[b]]
    BY <1>0, <1>11 DEF RollbackAgents, MapTypes, GraphInv, IdsInUse
  <2>2. \A q \in PresetIds : specAgents'[q] \subseteq usedAgents
    BY <1>0, <1>11 DEF RollbackAgents, MapTypes, GraphInv, IdsInUse
  <2>3. GoodCall(c, "idle", NoPreset, NoAgent)
    BY <1>11, <1>ret DEF RollbackAgents
  <2>4. IdsInUse' /\ InstanceInSpec'
    BY <1>11, <2>1, <2>2, <2>3, QuietStep DEF RollbackAgents, At
  <2>5. GraphTypes'
    BY <1>0, <1>11, <2>3
       DEF RollbackAgents, GraphTypes, MapTypes, SeqTypes, GoodCall, Moves, ids
  <2> QED BY <2>4, <2>5 DEF GraphInv
<1>12. CASE RemoveLock(c)
  <2>1. Moves(c, "remove_next", Preset(c), Agent(c)) /\ call'[c].ids \subseteq usedAgents
    <3> DEFINE new == [call[c] EXCEPT !.pc = "remove_next", !.ids = specAgents[Preset(c)]]
    <3>1. specAgents[Preset(c)] \in SUBSET AgentIds /\ specAgents[Preset(c)] \subseteq usedAgents
      BY <1>0, <1>12 DEF RemoveLock, At, MapTypes, GraphInv, IdsInUse
    <3>2. /\ new \in Call /\ new.pc = "remove_next" /\ new.preset = Preset(c)
          /\ new.agent = Agent(c) /\ new.ids = specAgents[Preset(c)]
      BY <1>0, <3>1 DEF Call, CallPc, Preset, Agent
    <3>3. call' = [call EXCEPT ![c] = new]
      BY <1>0, <1>12 DEF GraphTypes, Call, RemoveLock
    <3> QED BY <1>0, <3>1, <3>2, <3>3 DEF Moves, GraphTypes
  <2>2. GoodCall(c, "remove_next", Preset(c), Agent(c))
    BY <1>0, <1>12, <2>1 DEF GoodCall, RemoveLock, At, ids
  <2> QED BY <1>0, <1>12, <2>2, ConnStep
             DEF RemoveLock, At, MapTypes, SeqTypes, spec, runtime
<1>13. ASSUME NEW a \in AgentIds, RemoveNext(c, a) PROVE GraphInv'
  <2>1. Moves(c, "stop", Preset(c), a) /\ call'[c].ids = call[c].ids \ {a}
    <3> DEFINE new == [call[c] EXCEPT !.pc = "stop", !.agent = a, !.ids = call[c].ids \ {a}]
    <3>1. /\ new \in Call /\ new.pc = "stop" /\ new.preset = Preset(c) /\ new.agent = a
          /\ new.ids = call[c].ids \ {a}
      BY <1>0 DEF Call, CallPc, Preset
    <3>2. call' = [call EXCEPT ![c] = new]
      BY <1>0, <1>13 DEF GraphTypes, Call, RemoveNext
    <3> QED BY <1>0, <3>1, <3>2 DEF Moves, GraphTypes
  <2>2. GoodCall(c, "stop", Preset(c), a)
    BY <1>0, <1>13, <2>1 DEF GoodCall, RemoveNext, At, ids
  <2> QED BY <1>0, <1>13, <2>2, ConnStep
             DEF RemoveNext, At, MapTypes, SeqTypes, spec, runtime
<1>after. ASSUME AfterInternal(c), ~At(c, "idle"), Agent(c) \notin agents', UNCHANGED ids
          PROVE  \E pc : GoodCall(c, pc, Preset(c), Agent(c))
  <2>1. PICK pc \in {"remove_next", "remove_spec"} : Goto(c, pc)
    BY <1>after DEF AfterInternal
  <2>2. Moves(c, pc, Preset(c), Agent(c)) /\ call'[c].ids = call[c].ids
    BY <1>0, <2>1, GotoMoves DEF CallPc
  <2> QED BY <1>0, <1>after, <2>2 DEF GoodCall, ids
<1>14. CASE StopAgent(c)
  <2>1. CASE Goto(c, "drop_conns")
    BY <1>0, <1>14, <2>1, <1>go, ConnStep
       DEF StopAgent, At, MapTypes, SeqTypes, spec, runtime, CallPc
  <2>2. CASE Agent(c) \notin agents /\ AfterInternal(c)
    <3>1. PICK pc : GoodCall(c, pc, Preset(c), Agent(c))
      BY <1>14, <2>2, <1>after DEF StopAgent, At, runtime
    <3> QED BY <1>0, <1>14, <3>1, ConnStep
               DEF StopAgent, At, MapTypes, SeqTypes, spec, runtime
  <2> QED BY <1>14, <2>1, <2>2 DEF StopAgent
<1>15. CASE StopAgentFails(c)
  <2>1. CASE Goto(c, "remove_next")
    BY <1>0, <1>15, <2>1, <1>go, ConnStep
       DEF StopAgentFails, At, MapTypes, SeqTypes, spec, runtime, CallPc
  <2>2. CASE Return(c)
    BY <1>0, <1>15, <2>2, <1>ret, ConnStep
       DEF StopAgentFails, At, MapTypes, SeqTypes, spec, runtime
  <2> QED BY <1>15, <2>1, <2>2 DEF StopAgentFails
<1>16. CASE DropConns(c)
  BY <1>0, <1>16, <1>go, ConnStep DEF DropConns, At, MapTypes, SeqTypes, spec, CallPc
<1>17. CASE DropAgent(c)
  <2>1. PICK pc : GoodCall(c, pc, Preset(c), Agent(c))
    BY <1>17, <1>after DEF DropAgent, At
  <2>2. IdsInUse' /\ InstanceInSpec'
    BY <1>17, <2>1, QuietStep DEF DropAgent, At, spec, GraphInv, IdsInUse
  <2>3. GraphTypes'
    BY <1>0, <1>17, <2>1
       DEF DropAgent, GraphTypes, MapTypes, SeqTypes, GoodCall, Moves, ids, spec
  <2> QED BY <2>2, <2>3 DEF GraphInv
<1>18. CASE RemoveSpec(c)
  <2>1. Agent(c) \notin agents
    BY <1>18 DEF RemoveSpec, GraphInv, IdsInUse
  <2>2. \A b \in agents' : b \in specAgents[presetOf[b]] => b \in specAgents'[presetOf[b]]
    BY <1>0, <1>18, <2>1 DEF RemoveSpec, MapTypes, GraphInv, IdsInUse, runtime
  <2>3. \A q \in PresetIds : specAgents'[q] \subseteq usedAgents
    BY <1>0, <1>18 DEF RemoveSpec, MapTypes, GraphInv, IdsInUse
  <2>4. GoodCall(c, "idle", NoPreset, NoAgent)
    BY <1>18, <1>ret DEF RemoveSpec
  <2>5. IdsInUse' /\ InstanceInSpec'
    BY <1>18, <2>2, <2>3, <2>4, QuietStep DEF RemoveSpec, At, runtime
  <2>6. GraphTypes'
    BY <1>0, <1>18, <2>4
       DEF RemoveSpec, GraphTypes, MapTypes, SeqTypes, GoodCall, Moves, ids, runtime
  <2> QED BY <2>5, <2>6 DEF GraphInv
<1>19. CASE RemoveUnlock(c)
  BY <1>0, <1>19, <1>go, ConnStep DEF RemoveUnlock, At, MapTypes, SeqTypes, spec, CallPc
<1>20. CASE RemoveMap(c)
  BY <1>0, <1>20, <1>ret, ConnStep DEF RemoveMap, At, MapTypes, SeqTypes, spec, runtime
<1> QED BY <1>1, <1>2, <1>3, <1>4, <1>5, <1>6, <1>7, <1>8, <1>9, <1>10, <1>11, <1>12,
           <1>13, <1>14, <1>15, <1>16, <1>17, <1>18, <1>19, <1>20 DEF CallStep

-----------------------------------------------------------------------------
(* A new process starts with nothing, as the first one did. *)
LEMMA EmptyGraph ==
  ASSUME GraphTypes, Restart
  PROVE  GraphInv'
BY IdleCallType DEF Restart, GraphInv, GraphTypes, IdsInUse, InstanceInSpec, At, Preset, Agent

(* The invariant is inductive. *)
LEMMA GraphInvariant == Spec => []GraphInv
<1>1. Init => GraphInv
  BY IdleCallType DEF Init, GraphInv, GraphTypes, IdsInUse, InstanceInSpec, At, Preset, Agent,
     EmptySpec
<1>2. GraphInv /\ [Next]_vars => GraphInv'
  <2> SUFFICES ASSUME GraphInv, [Next]_vars PROVE GraphInv'
    OBVIOUS
  <2>1. CASE Restart
    BY <2>1, EmptyGraph DEF GraphInv
  <2>2. ASSUME NEW c \in Callers, Build(c) PROVE GraphInv'
    BY <2>2, AddPresetStep, BatchAgentsStep DEF Build
  <2>3. ASSUME NEW c \in Callers, BeginCall(c) PROVE GraphInv'
    BY <2>3, BeginCallStep
  <2>4. ASSUME NEW c \in Callers, CallStep(c) PROVE GraphInv'
    BY <2>4, CallStepInv
  <2>5. CASE UNCHANGED vars
    BY <2>5 DEF vars, ids, spec, runtime, GraphInv, GraphTypes, IdsInUse, InstanceInSpec,
       At, Preset, Agent
  <2> QED BY <2>1, <2>2, <2>3, <2>4, <2>5 DEF Next
<1> QED BY <1>1, <1>2, PTL DEF Spec

-----------------------------------------------------------------------------
(* The ends of a connection. *)
Ends(cn) == {cn[1], cn[2]}

(* A connection between ids of this process; those of them that have an    *)
(* instance belong to preset p.                                            *)
OwnedBy(p, cn) ==
    \A a \in Ends(cn) : a \in usedAgents /\ (a \in agents => presetOf[a] = p)

(* A connection that has to be routed if its preset is intact: both agents *)
(* exist and neither is about to go.                                       *)
Steady(cn) ==
    /\ cn \notin strays
    /\ Ends(cn) \subseteq agents
    /\ \A c \in Callers : At(c, "drop_agent") => Agent(c) \notin Ends(cn)

(* A preset that is in the map, or about to enter it, and whose            *)
(* connections no remove_preset has dropped yet.                           *)
Intact(p) ==
    /\ p \in presets \/ \E c \in Callers : At(c, "add_preset_insert") /\ Preset(c) = p
    /\ \A c \in Callers : At(c, "remove_map") => Preset(c) # p

(* A preset that is not yet in the map is the business of one call only:   *)
(* another may at most be about to look it up.                             *)
PendingAlone ==
    \A c \in Callers : At(c, "add_preset_insert") =>
        /\ Preset(c) \notin presets
        /\ \A d \in Callers \ {c} :
             Preset(d) = Preset(c) => At(d, "idle") \/ At(d, "add_conn_lookup")

(* Agents and connections belong to the preset whose spec ...              *)
SpecOwns ==
    /\ \A p \in PresetIds : \A a \in specAgents[p] \cap agents : presetOf[a] = p
    /\ \A p \in PresetIds : \A cn \in Range(specConns[p]) : cn \in strays \/ OwnedBy(p, cn)

(* ... or whose call refers to them.                                       *)
CallOwns(c) ==
    /\ At(c, "add_agent_spec") /\ Agent(c) \in agents => presetOf[Agent(c)] = Preset(c)
    /\ At(c, "add_conn_lookup") \/ At(c, "add_conn") => OwnedBy(Preset(c), call[c].conn)
    /\ At(c, "batch_agents") \/ At(c, "batch_conns") =>
         \A cn \in Range(call[c].conns) : OwnedBy(Preset(c), cn)

(* The spec of an intact preset lists a steady connection once, and the    *)
(* table has it: so whoever removes the table entry with an entry of a     *)
(* spec leaves no other spec entry behind.                                 *)
ListedAndRouted(p) ==
    Intact(p) => \A cn \in Range(specConns[p]) : Steady(cn) =>
        /\ cn \in connections
        /\ \A i, j \in DOMAIN specConns[p] :
             specConns[p][i] = cn /\ specConns[p][j] = cn => i = j

RouteInv ==
    /\ PendingAlone /\ SpecOwns
    /\ \A c \in Callers : CallOwns(c)
    /\ \A p \in PresetIds : ListedAndRouted(p)

-----------------------------------------------------------------------------
(* What every step but a restart does to the ids: they are handed out once,*)
(* and the instances of those in use only go.                              *)
KeepsIds ==
    /\ usedAgents \subseteq usedAgents' /\ strays \subseteq strays'
    /\ agents' \cap usedAgents \subseteq agents
    /\ \A a \in usedAgents : presetOf'[a] = presetOf[a]

(* A connection keeps its owner. *)
LEMMA OwnedStays ==
  ASSUME KeepsIds, NEW p, NEW cn, OwnedBy(p, cn)
  PROVE  OwnedBy(p, cn)'
BY DEF KeepsIds, OwnedBy, Ends

(* A connection of ids in use does not become steady again. *)
LEMMA SteadyBefore ==
  ASSUME KeepsIds, NEW c \in Callers, NEW pc, NEW p, NEW a, Moves(c, pc, p, a),
         At(c, "drop_agent") => Agent(c) \notin agents',
         NEW cn, Ends(cn) \subseteq usedAgents, Steady(cn)'
  PROVE  Steady(cn)
<1>1. cn \notin strays /\ Ends(cn) \subseteq agents
  BY DEF KeepsIds, Steady, Ends
<1>2. ASSUME NEW d \in Callers, At(d, "drop_agent") PROVE Agent(d) \notin Ends(cn)
  <2>1. CASE d = c
    BY <1>2, <2>1 DEF Steady, Ends
  <2>2. CASE d # c
    BY <1>2, <2>2 DEF Steady, Moves, At, Agent, Ends
  <2> QED BY <2>1, <2>2
<1> QED BY <1>1, <1>2 DEF Steady

(* What a step of a call does to the map of presets, and on which preset   *)
(* the call goes on.                                                       *)
PresetMoves(c, pc, p) ==
    /\ presets' \subseteq presets \cup {q \in usedPresets :
                                          At(c, "add_preset_insert") /\ q = Preset(c)}
    /\ At(c, "remove_map") => Preset(c) \notin presets'
    /\ \/ pc = "add_preset_insert" /\ p \notin usedPresets
       \/ pc \in {"idle", "add_conn_lookup"}
       \/ pc # "add_preset_insert" /\ p \in presets
       \/ /\ pc # "add_preset_insert" /\ p = Preset(c)
          /\ ~At(c, "idle") /\ ~At(c, "add_conn_lookup")

(* A preset does not become intact again. *)
LEMMA IntactBefore ==
  ASSUME GraphInv, PendingAlone, NEW c \in Callers, NEW pc, NEW p, NEW a,
         Moves(c, pc, p, a), PresetMoves(c, pc, p), NEW q \in usedPresets, Intact(q)'
  PROVE  Intact(q)
<1>1. ASSUME NEW d \in Callers, At(d, "add_preset_insert")', Preset(d)' = q
      PROVE  d # c /\ At(d, "add_preset_insert") /\ Preset(d) = q
  <2>1. d # c
    BY <1>1 DEF Moves, PresetMoves, At, Preset
  <2> QED BY <1>1, <2>1 DEF Moves, At, Preset
<1>2. q \in presets \/ \E d \in Callers : At(d, "add_preset_insert") /\ Preset(d) = q
  BY <1>1 DEF Intact, PresetMoves
<1>3. ASSUME NEW d \in Callers, At(d, "remove_map"), Preset(d) = q PROVE FALSE
  <2>1. CASE d # c
    BY <1>3, <2>1 DEF Intact, Moves, At, Preset
  <2>2. CASE d = c
    <3>1. PICK e \in Callers : At(e, "add_preset_insert")' /\ Preset(e)' = q
      BY <1>3, <2>2 DEF Intact, PresetMoves
    <3>2. e # c /\ At(e, "add_preset_insert") /\ Preset(e) = q
      BY <3>1, <1>1
    <3>3. At(c, "idle") \/ At(c, "add_conn_lookup")
      BY <1>3, <2>2, <3>2 DEF PendingAlone
    <3> QED BY <1>3, <2>2, <3>3 DEF At
  <2> QED BY <2>1, <2>2
<1> QED BY <1>2, <1>3 DEF Intact

(* A preset that is being added stays alone with its call. *)
LEMMA PendingStep ==
  ASSUME GraphInv, PendingAlone, NEW c \in Callers, NEW pc, NEW p, NEW a,
         Moves(c, pc, p, a), PresetMoves(c, pc, p)
  PROVE  PendingAlone'
<1> SUFFICES ASSUME NEW e \in Callers, At(e, "add_preset_insert")'
             PROVE  /\ Preset(e)' \notin presets'
                    /\ \A d \in Callers \ {e} : Preset(d)' = Preset(e)' =>
                         At(d, "idle")' \/ At(d, "add_conn_lookup")'
  BY DEF PendingAlone
<1>0. /\ presets \subseteq usedPresets
      /\ \A d \in Callers : At(d, "idle") \/ Preset(d) \in usedPresets
  BY DEF GraphInv, GraphTypes, IdsInUse
<1>1. CASE e = c
  <2>1. pc = "add_preset_insert" /\ Preset(e)' = p /\ p \notin usedPresets
    BY <1>1 DEF Moves, PresetMoves, At, Preset
  <2>2. p \notin presets'
    BY <1>0, <2>1 DEF PresetMoves
  <2>3. ASSUME NEW d \in Callers \ {e}, Preset(d)' = p PROVE At(d, "idle")'
    BY <1>0, <1>1, <2>1, <2>3 DEF Moves, At, Preset
  <2> QED BY <2>1, <2>2, <2>3
<1>2. CASE e # c
  <2>1. At(e, "add_preset_insert") /\ Preset(e)' = Preset(e)
    BY <1>2 DEF Moves, At, Preset
  <2>2. Preset(e) \notin presets /\ Preset(e) \in usedPresets
    BY <1>0, <2>1 DEF PendingAlone, At
  <2>3. Preset(c) = Preset(e) => At(c, "idle") \/ At(c, "add_conn_lookup")
    BY <1>2, <2>1 DEF PendingAlone
  <2>4. Preset(e) \notin presets'
    BY <2>2, <2>3 DEF PresetMoves, At
  <2>5. ASSUME NEW d \in Callers \ {e}, Preset(d)' = Preset(e)
        PROVE  At(d, "idle")' \/ At(d, "add_conn_lookup")'
    <3>1. CASE d # c
      <4>1. Preset(d) = Preset(e) => At(d, "idle") \/ At(d, "add_conn_lookup")
        BY <2>1 DEF PendingAlone
      <4> QED BY <2>5, <3>1, <4>1 DEF Moves, At, Preset
    <3>2. CASE d = c
      <4>1. p = Preset(e) /\ call'[c].pc = pc
        BY <2>5, <3>2 DEF Moves, Preset
      <4>2. pc \in {"idle", "add_conn_lookup"}
        BY <2>2, <2>3, <4>1 DEF PresetMoves
      <4> QED BY <3>2, <4>1, <4>2 DEF At
    <3> QED BY <3>1, <3>2
  <2> QED BY <2>1, <2>4, <2>5
<1> QED BY <1>1, <1>2

(* The other calls keep what they refer to. *)
LEMMA CallOwnsStays ==
  ASSUME GraphInv, KeepsIds, NEW c \in Callers, NEW pc, NEW p, NEW a, Moves(c, pc, p, a),
         NEW d \in Callers \ {c}, CallOwns(d)
  PROVE  CallOwns(d)'
<1>1. call'[d] = call[d]
  BY DEF Moves
<1>2. At(d, "add_agent_spec") => Agent(d) \in usedAgents
  BY DEF GraphInv, IdsInUse
<1>3. \A q, cn : OwnedBy(q, cn) => OwnedBy(q, cn)'
  BY OwnedStays
<1>4. (At(d, "add_agent_spec") /\ Agent(d) \in agents => presetOf[Agent(d)] = Preset(d))'
  BY <1>1, <1>2 DEF CallOwns, KeepsIds, At, Agent, Preset
<1>5. (At(d, "add_conn_lookup") \/ At(d, "add_conn") => OwnedBy(Preset(d), call[d].conn))'
  <2> SUFFICES ASSUME At(d, "add_conn_lookup") \/ At(d, "add_conn")
               PROVE  OwnedBy(Preset(d), call[d].conn)'
    BY <1>1 DEF At
  <2>1. PICK q, cn : q = Preset(d) /\ cn = call[d].conn
    OBVIOUS
  <2>2. OwnedBy(q, cn)'
    BY <1>3, <2>1 DEF CallOwns
  <2>3. Preset(d)' = q /\ call'[d].conn = cn
    BY <1>1, <2>1 DEF Preset
  <2> QED BY <2>2, <2>3 DEF OwnedBy
<1>6. (At(d, "batch_agents") \/ At(d, "batch_conns") =>
         \A cn \in Range(call[d].conns) : OwnedBy(Preset(d), cn))'
  <2> SUFFICES ASSUME At(d, "batch_agents") \/ At(d, "batch_conns"),
                      NEW cn \in Range(call[d].conns)
               PROVE  OwnedBy(Preset(d), cn)'
    BY <1>1 DEF At
  <2>1. PICK q : q = Preset(d)
    OBVIOUS
  <2>2. OwnedBy(q, cn)'
    BY <1>3, <2>1 DEF CallOwns
  <2>3. Preset(d)' = q
    BY <1>1, <2>1 DEF Preset
  <2> QED BY <2>2, <2>3 DEF OwnedBy
<1> QED BY <1>4, <1>5, <1>6 DEF CallOwns

(* Specs that do not grow own what they have. *)
LEMMA SpecOwnsStays ==
  ASSUME GraphInv, KeepsIds, SpecOwns,
         \A q \in PresetIds : specAgents'[q] \subseteq specAgents[q],
         \A q \in PresetIds : Range(specConns'[q]) \subseteq Range(specConns[q])
  PROVE  SpecOwns'
<1>1. \A q \in PresetIds : \A b \in specAgents'[q] \cap agents' : presetOf'[b] = q
  BY DEF GraphInv, IdsInUse, KeepsIds, SpecOwns
<1>2. \A q \in PresetIds : \A cn \in Range(specConns'[q]) :
        cn \in strays' \/ OwnedBy(q, cn)'
  BY OwnedStays DEF SpecOwns, KeepsIds
<1> QED BY <1>1, <1>2 DEF SpecOwns

(* An entry of a spec that is steady after a step was so before. *)
LEMMA EntrySteady ==
  ASSUME KeepsIds, SpecOwns, NEW c \in Callers, NEW pc, NEW p, NEW a, Moves(c, pc, p, a),
         At(c, "drop_agent") => Agent(c) \notin agents',
         NEW q \in PresetIds, NEW cn \in Range(specConns[q]), Steady(cn)'
  PROVE  Steady(cn)
<1>1. cn \notin strays
  BY DEF Steady, KeepsIds
<1>2. Ends(cn) \subseteq usedAgents
  BY <1>1 DEF SpecOwns, OwnedBy
<1> QED BY <1>2, SteadyBefore

(* A step that leaves a spec's connections alone keeps them routed if it   *)
(* takes only those out of the table that are not steady then.             *)
LEMMA SameConns ==
  ASSUME NEW q \in PresetIds, ListedAndRouted(q), Intact(q)' => Intact(q),
         \A cn \in Range(specConns[q]) : Steady(cn)' => Steady(cn),
         specConns'[q] = specConns[q],
         \A cn \in Range(specConns[q]) :
             Intact(q)' /\ Steady(cn)' /\ cn \in connections => cn \in connections'
  PROVE  ListedAndRouted(q)'
BY DEF ListedAndRouted

(* A connection is added that was not in the table: if it was steady, the  *)
(* spec did not have it.                                                   *)
LEMMA AddedConn ==
  ASSUME NEW q \in PresetIds, ListedAndRouted(q), Intact(q)' => Intact(q),
         NEW new \in Conn, Steady(new)' => Steady(new),
         \A cn \in Range(specConns[q]) : Steady(cn)' => Steady(cn),
         specConns[q] \in Seq(Conn),
         specConns'[q] = Append(specConns[q], new),
         new \notin connections, connections' = connections \cup {new}
  PROVE  ListedAndRouted(q)'
<1> SUFFICES ASSUME Intact(q), NEW cn \in Range(specConns'[q]), Steady(cn)'
             PROVE  /\ cn \in connections'
                    /\ \A i, j \in DOMAIN specConns'[q] :
                         specConns'[q][i] = cn /\ specConns'[q][j] = cn => i = j
  BY DEF ListedAndRouted
<1>0. PICK s \in Seq(Conn) : s = specConns[q] /\ specConns'[q] = Append(s, new)
  OBVIOUS
<1>1. PICK n \in Nat : n = Len(s) /\ DOMAIN s = 1 .. n /\ DOMAIN specConns'[q] = 1 .. (n + 1)
  BY <1>0
<1>2. /\ \A i \in 1 .. n : specConns'[q][i] = s[i] /\ s[i] \in Range(s)
      /\ specConns'[q][n + 1] = new
  BY <1>0, <1>1 DEF Range
<1>3. cn = new \/ cn \in Range(s)
  BY <1>1, <1>2 DEF Range
<1>4. CASE cn = new
  <2>1. new \notin Range(s)
    BY <1>0, <1>4 DEF ListedAndRouted
  <2> QED BY <1>1, <1>2, <1>4, <2>1
<1>5. CASE cn # new
  <2>1. cn \in Range(s) /\ Steady(cn)
    BY <1>0, <1>3, <1>5
  <2>2. /\ cn \in connections
        /\ \A i, j \in 1 .. n : s[i] = cn /\ s[j] = cn => i = j
    BY <1>0, <1>1, <2>1 DEF ListedAndRouted
  <2> QED BY <1>1, <1>2, <1>5, <2>2
<1> QED BY <1>4, <1>5

(* What is left when one entry is taken out. *)
LEMMA RemoveAtParts ==
  ASSUME NEW s \in Seq(Conn), NEW i \in DOMAIN s
  PROVE  /\ Len(RemoveAt(s, i)) = Len(s) - 1
         /\ \A k \in 1 .. (Len(s) - 1) :
              RemoveAt(s, i)[k] = IF k < i THEN s[k] ELSE s[k + 1]
<1> DEFINE t == SubSeq(s, 1, i - 1)
           u == SubSeq(s, i + 1, Len(s))
<1>1. i \in 1 .. Len(s) /\ Len(s) \in Nat
  OBVIOUS
<1>2. t \in Seq(Conn) /\ Len(t) = i - 1 /\ \A k \in 1 .. (i - 1) : t[k] = s[k]
  BY <1>1
<1>3. /\ u \in Seq(Conn) /\ Len(u) = Len(s) - i
      /\ \A k \in 1 .. (Len(s) - i) : u[k] = s[i + k]
  BY <1>1
<1> HIDE DEF t, u
<1>4. /\ Len(t \o u) = Len(t) + Len(u)
      /\ \A k \in 1 .. (Len(t) + Len(u)) :
           (t \o u)[k] = IF k <= Len(t) THEN t[k] ELSE u[k - Len(t)]
  BY <1>2, <1>3
<1>5. Len(t \o u) = Len(s) - 1
  BY <1>1, <1>2, <1>3, <1>4
<1>6. ASSUME NEW k \in 1 .. (Len(s) - 1)
      PROVE  (t \o u)[k] = IF k < i THEN s[k] ELSE s[k + 1]
  <2>0. k \in 1 .. (Len(t) + Len(u))
    BY <1>1, <1>2, <1>3
  <2>1. (t \o u)[k] = IF k <= i - 1 THEN t[k] ELSE u[k - (i - 1)]
    BY <1>2, <1>4, <2>0
  <2>2. CASE k < i
    BY <1>1, <1>2, <2>1, <2>2
  <2>3. CASE ~(k < i)
    <3>1. k - (i - 1) \in 1 .. (Len(s) - i) /\ i + (k - (i - 1)) = k + 1
      BY <1>1, <2>3
    <3> QED BY <1>1, <1>3, <2>1, <2>3, <3>1
  <2> QED BY <2>2, <2>3
<1> QED BY <1>5, <1>6 DEF RemoveAt, t, u

(* An entry leaves the spec and the table: as a steady one is listed once, *)
(* the spec does not show it any more.                                     *)
LEMMA RemovedConn ==
  ASSUME NEW q \in PresetIds, ListedAndRouted(q), Intact(q)' => Intact(q),
         \A cn \in Range(specConns[q]) : Steady(cn)' => Steady(cn),
         specConns[q] \in Seq(Conn), NEW i \in DOMAIN specConns[q],
         specConns'[q] = RemoveAt(specConns[q], i),
         connections' = connections \ {specConns[q][i]}
  PROVE  ListedAndRouted(q)'
<1> SUFFICES ASSUME Intact(q), NEW cn \in Range(specConns'[q]), Steady(cn)'
             PROVE  /\ cn \in connections'
                    /\ \A k, l \in DOMAIN specConns'[q] :
                         specConns'[q][k] = cn /\ specConns'[q][l] = cn => k = l
  BY DEF ListedAndRouted
<1>1. PICK s \in Seq(Conn), t \in Seq(Conn) : s = specConns[q] /\ t = specConns'[q]
  BY RemoveAtType
<1>2. PICK n \in Nat : n = Len(s) /\ DOMAIN s = 1 .. n /\ i \in 1 .. n
  BY <1>1
<1>3. /\ DOMAIN t = 1 .. (n - 1)
      /\ \A k \in 1 .. (n - 1) : t[k] = IF k < i THEN s[k] ELSE s[k + 1]
  <2>1. Len(t) = n - 1 /\ DOMAIN t = 1 .. Len(t)
    BY <1>1, <1>2, RemoveAtParts
  <2>2. t = RemoveAt(s, i) /\ i \in DOMAIN s
    BY <1>1
  <2>3. \A k \in 1 .. (n - 1) : RemoveAt(s, i)[k] = IF k < i THEN s[k] ELSE s[k + 1]
    BY <1>2, <2>2, RemoveAtParts
  <2> QED BY <2>1, <2>2, <2>3
<1>4. PICK m \in 1 .. (n - 1) : t[m] = cn
  BY <1>1, <1>3 DEF Range
<1>5. PICK m1 \in 1 .. n : m1 # i /\ s[m1] = cn
  <2>1. CASE m < i
    BY <1>2, <1>3, <1>4, <2>1
  <2>2. CASE ~(m < i)
    BY <1>2, <1>3, <1>4, <2>2
  <2> QED BY <2>1, <2>2
<1>6. cn \in Range(s) /\ Steady(cn)
  BY <1>1, <1>2, <1>5 DEF Range
<1>7. /\ cn \in connections
      /\ \A k, l \in 1 .. n : s[k] = cn /\ s[l] = cn => k = l
  BY <1>1, <1>2, <1>6 DEF ListedAndRouted
<1>8. cn \in connections'
  BY <1>1, <1>2, <1>5, <1>7
<1>9. ASSUME NEW k \in 1 .. (n - 1), NEW l \in 1 .. (n - 1), t[k] = cn, t[l] = cn
      PROVE  k = l
  <2>1. PICK k1 \in 1 .. n : k1 = (IF k < i THEN k ELSE k + 1) /\ s[k1] = cn
    BY <1>2, <1>3, <1>9
  <2>2. PICK l1 \in 1 .. n : l1 = (IF l < i THEN l ELSE l + 1) /\ s[l1] = cn
    BY <1>2, <1>3, <1>9
  <2>3. k1 = l1
    BY <1>7, <2>1, <2>2
  <2> QED BY <1>2, <2>1, <2>2, <2>3
<1> QED BY <1>1, <1>3, <1>8, <1>9

-----------------------------------------------------------------------------
(* What a step may do to the connections of preset q: nothing that matters *)
(* to it, add one, or remove one.                                          *)
ConnsMove(q) ==
    \/ /\ specConns'[q] = specConns[q]
       /\ \A cn \in Range(specConns[q]) :
            Intact(q)' /\ Steady(cn)' /\ cn \in connections => cn \in connections'
    \/ \E new \in Conn :
         /\ OwnedBy(q, new) /\ new \notin connections
         /\ specConns'[q] = Append(specConns[q], new)
         /\ connections' = connections \cup {new}
    \/ \E i \in DOMAIN specConns[q] :
         /\ specConns'[q] = RemoveAt(specConns[q], i)
         /\ connections' = connections \ {specConns[q][i]}

(* No two presets have a steady connection in common. *)
LEMMA OneOwner ==
  ASSUME SpecOwns, NEW q \in PresetIds, NEW r \in PresetIds,
         NEW cn \in Range(specConns[q]) \cap Range(specConns[r]), Steady(cn)
  PROVE  q = r
BY DEF SpecOwns, OwnedBy, Steady, Ends

(* A step of a call that adds no preset keeps the invariant. *)
LEMMA RouteStep ==
  ASSUME GraphInv, GraphInv', RouteInv, NEW c \in Callers, NEW pc, NEW p, NEW a,
         Moves(c, pc, p, a), PresetMoves(c, pc, p), KeepsIds,
         At(c, "drop_agent") => Agent(c) \notin agents',
         usedPresets' = usedPresets, SpecOwns', CallOwns(c)',
         \A q \in PresetIds : ConnsMove(q)
  PROVE  RouteInv'
<1>1. PendingAlone'
  BY PendingStep DEF RouteInv
<1>2. \A d \in Callers : CallOwns(d)'
  BY CallOwnsStays DEF RouteInv
<1>3. ASSUME NEW q \in PresetIds PROVE ListedAndRouted(q)'
  <2>0. /\ ListedAndRouted(q) /\ SpecOwns /\ PendingAlone /\ specConns[q] \in Seq(Conn)
    BY DEF RouteInv, GraphInv, GraphTypes
  <2>1. Intact(q)' => Intact(q)
    <3>1. Intact(q)' => q \in usedPresets'
      BY DEF Intact, GraphInv, GraphTypes, IdsInUse, At
    <3> QED BY <2>0, <3>1, IntactBefore
  <2>2. \A cn \in Range(specConns[q]) : Steady(cn)' => Steady(cn)
    BY <2>0, EntrySteady
  <2>3. CASE /\ specConns'[q] = specConns[q]
             /\ \A cn \in Range(specConns[q]) :
                  Intact(q)' /\ Steady(cn)' /\ cn \in connections => cn \in connections'
    BY <2>0, <2>1, <2>2, <2>3, SameConns
  <2>4. ASSUME NEW new \in Conn, OwnedBy(q, new), new \notin connections,
               specConns'[q] = Append(specConns[q], new),
               connections' = connections \cup {new}
        PROVE  ListedAndRouted(q)'
    <3>1. Ends(new) \subseteq usedAgents
      BY <2>4 DEF OwnedBy
    <3>2. Steady(new)' => Steady(new)
      BY <3>1, SteadyBefore
    <3> QED BY <2>0, <2>1, <2>2, <2>4, <3>2, AddedConn
  <2>5. ASSUME NEW i \in DOMAIN specConns[q], specConns'[q] = RemoveAt(specConns[q], i),
               connections' = connections \ {specConns[q][i]}
        PROVE  ListedAndRouted(q)'
    BY <2>0, <2>1, <2>2, <2>5, RemovedConn
  <2> QED BY <2>3, <2>4, <2>5 DEF ConnsMove
<1> QED BY <1>1, <1>2, <1>3 DEF RouteInv

(* A step that leaves specs and table alone, or at most takes agents out   *)
(* of the specs or the map, and after which the call refers to nothing     *)
(* new.                                                                    *)
LEMMA QuietRoute ==
  ASSUME GraphInv, GraphInv', RouteInv, NEW c \in Callers, NEW pc, NEW p, NEW a,
         Moves(c, pc, p, a), PresetMoves(c, pc, p),
         At(c, "drop_agent") => Agent(c) \notin agents',
         UNCHANGED <<ids, presetOf, specConns, connections>>,
         agents' \subseteq agents,
         \A q \in PresetIds : specAgents'[q] \subseteq specAgents[q],
         pc \notin {"add_agent_spec", "add_conn_lookup", "add_conn", "batch_agents",
                    "batch_conns"}
  PROVE  RouteInv'
<1>1. KeepsIds /\ usedPresets' = usedPresets
  BY DEF KeepsIds, ids
<1>2. SpecOwns'
  BY <1>1, SpecOwnsStays DEF RouteInv
<1>3. CallOwns(c)'
  BY DEF CallOwns, Moves, At
<1>4. \A q \in PresetIds : ConnsMove(q)
  BY DEF ConnsMove
<1> QED BY <1>1, <1>2, <1>3, <1>4, RouteStep

(* Every call that begins refers to agents of its preset. *)
LEMMA BeginRoute ==
  ASSUME GraphInv, GraphInv', RouteInv, NEW c \in Callers, BeginCall(c)
  PROVE  RouteInv'
<1>0. PICK p \in PresetIds :
        \/ SaveSnapshot(c, p)
        \/ BeginIn(c, "remove_preset", p, "remove_lock", NoAgent, NoConn)
        \/ BeginIn(c, "add_agent", p, "add_agent_build", NoAgent, NoConn)
        \/ \E a \in Shown(p) : BeginIn(c, "remove_agent", p, "stop", a, NoConn)
        \/ \E cn \in Shown(p) \X Shown(p) : AddConnCheck(c, p, cn)
        \/ \E cn \in Range(specConns[p]) :
             BeginIn(c, "remove_connection", p, "remove_conn", NoAgent, cn)
        \/ \E as \in SUBSET Shown(p), conns \in BoundedSeq(Shown(p) \X Shown(p), MaxConns) :
             BeginBatch(c, p, as, conns)
  BY DEF BeginCall
<1>1. /\ call \in [Callers -> Call] /\ call' \in [Callers -> Call]
      /\ Shown(p) \subseteq usedAgents
      /\ \A b \in Shown(p) \cap agents : presetOf[b] = p
  BY DEF GraphInv, GraphTypes, IdsInUse, Shown, RouteInv, SpecOwns
<1>2. ASSUME NEW new, call' = [call EXCEPT ![c] = new], At(c, "idle"),
             UNCHANGED <<ids, presets, presetLock, spec, runtime, file>>,
             new.preset = p, p \in presets \/ new.pc = "add_conn_lookup",
             new.pc \notin {"add_preset_insert", "add_agent_spec", "add_conn"},
             new.pc = "add_conn_lookup" => OwnedBy(p, new.conn),
             new.pc \in {"batch_agents", "batch_conns"} =>
                \A cn \in Range(new.conns) : OwnedBy(p, cn)
      PROVE  RouteInv'
  <2>1. Moves(c, new.pc, p, new.agent) /\ call'[c] = new
    BY <1>1, <1>2 DEF Moves
  <2>2. PresetMoves(c, new.pc, p)
    BY <1>2 DEF PresetMoves, At
  <2>3. KeepsIds /\ usedPresets' = usedPresets
    BY <1>2 DEF KeepsIds, ids, runtime
  <2>4. SpecOwns'
    BY <1>2, <2>3, SpecOwnsStays DEF RouteInv, spec
  <2>5. CallOwns(c)'
    BY <1>2, <2>1 DEF CallOwns, At, Preset, OwnedBy, ids, runtime
  <2>6. \A q \in PresetIds : ConnsMove(q)
    BY <1>2 DEF ConnsMove, spec, runtime
  <2> QED BY <1>2, <2>1, <2>2, <2>3, <2>4, <2>5, <2>6, RouteStep DEF At
<1>3. CASE SaveSnapshot(c, p)
  <2> DEFINE new == [IdleCall EXCEPT !.op = "save_preset", !.pc = "save_write",
                       !.preset = p, !.ids = specAgents[p], !.conns = specConns[p]]
  <2>1. new.pc = "save_write" /\ new.preset = p
    BY DEF IdleCall
  <2>2. /\ call' = [call EXCEPT ![c] = new] /\ At(c, "idle") /\ p \in presets
        /\ UNCHANGED <<ids, presets, presetLock, spec, runtime, file>>
    BY <1>3 DEF SaveSnapshot, Begin, At
  <2> HIDE DEF new
  <2> QED BY <1>2, <2>1, <2>2
<1>4. ASSUME NEW op, NEW pc \in {"remove_lock", "add_agent_build", "stop", "remove_conn"},
             NEW a, NEW cn, BeginIn(c, op, p, pc, a, cn)
      PROVE  RouteInv'
  <2> DEFINE new == [IdleCall EXCEPT !.op = op, !.pc = pc, !.preset = p,
                                     !.agent = a, !.conn = cn]
  <2>1. new.pc = pc /\ new.preset = p
    BY DEF IdleCall
  <2>2. /\ call' = [call EXCEPT ![c] = new] /\ At(c, "idle") /\ p \in presets
        /\ UNCHANGED <<ids, presets, presetLock, spec, runtime, file>>
    BY <1>4 DEF BeginIn, Begin, At
  <2> HIDE DEF new
  <2> QED BY <1>2, <2>1, <2>2
<1>5. ASSUME NEW cn \in Shown(p) \X Shown(p), AddConnCheck(c, p, cn)
      PROVE  RouteInv'
  <2> DEFINE new == [IdleCall EXCEPT !.op = "add_connection",
                            !.pc = "add_conn_lookup", !.preset = p, !.conn = cn]
  <2>1. new.pc = "add_conn_lookup" /\ new.preset = p /\ new.conn = cn
    BY DEF IdleCall
  <2>2. /\ call' = [call EXCEPT ![c] = new] /\ At(c, "idle")
        /\ UNCHANGED <<ids, presets, presetLock, spec, runtime, file>>
    BY <1>5 DEF AddConnCheck, Begin, At
  <2>3. OwnedBy(p, cn)
    BY <1>1 DEF OwnedBy, Ends
  <2> HIDE DEF new
  <2> QED BY <1>2, <2>1, <2>2, <2>3
<1>6. ASSUME NEW as \in SUBSET Shown(p),
             NEW conns \in BoundedSeq(Shown(p) \X Shown(p), MaxConns),
             BeginBatch(c, p, as, conns)
      PROVE  RouteInv'
  <2> DEFINE new == [IdleCall EXCEPT !.op = "add_batch", !.preset = p,
                            !.pc = "batch_agents", !.ids = as, !.conns = conns]
  <2>1. new.pc = "batch_agents" /\ new.preset = p /\ new.conns = conns
    BY DEF IdleCall
  <2>2. /\ call' = [call EXCEPT ![c] = new] /\ At(c, "idle") /\ p \in presets
        /\ UNCHANGED <<ids, presets, presetLock, spec, runtime, file>>
    BY <1>6 DEF BeginBatch, Begin, At
  <2>3. \A cn \in Range(conns) : OwnedBy(p, cn)
    <3>1. PICK m \in 0 .. MaxConns : conns \in [1 .. m -> Shown(p) \X Shown(p)]
      BY DEF BoundedSeq, SeqOf
    <3>2. \A cn \in Range(conns) : cn \in Shown(p) \X Shown(p)
      BY <3>1 DEF Range
    <3> QED BY <1>1, <3>2 DEF OwnedBy, Ends
  <2> HIDE DEF new
  <2> QED BY <1>2, <2>1, <2>2, <2>3
<1> QED BY <1>0, <1>3, <1>4, <1>5, <1>6

(* A connection of an intact preset that is not in the spec of preset r    *)
(* outlives the removal of r's entries from the table.                     *)
LEMMA OthersKept ==
  ASSUME GraphInv, RouteInv, NEW c \in Callers, NEW pc, NEW p, NEW a, Moves(c, pc, p, a),
         KeepsIds, At(c, "drop_agent") => Agent(c) \notin agents',
         NEW r \in PresetIds, connections \ Range(specConns[r]) \subseteq connections',
         NEW q \in PresetIds \ {r}, specConns'[q] = specConns[q]
  PROVE  ConnsMove(q)
<1>1. ASSUME NEW cn \in Range(specConns[q]), Steady(cn)', cn \in connections
      PROVE  cn \in connections'
  <2>1. Steady(cn)
    BY <1>1, EntrySteady DEF RouteInv
  <2>2. cn \notin Range(specConns[r])
    BY <2>1, OneOwner DEF RouteInv
  <2> QED BY <1>1, <2>2
<1> QED BY <1>1 DEF ConnsMove

(* Adding a connection, by add_connection or by a batch. *)
LEMMA AddRoute ==
  ASSUME GraphInv, GraphInv', RouteInv, NEW c \in Callers, NEW pc, NEW p, NEW a,
         Moves(c, pc, p, a), PresetMoves(c, pc, p), ~At(c, "drop_agent"),
         UNCHANGED <<ids, specAgents, agents, presetOf>>, CallOwns(c)',
         NEW r \in PresetIds, NEW new \in Conn, OwnedBy(r, new), new \notin connections,
         connections' = connections \cup {new},
         specConns' = [specConns EXCEPT ![r] = Append(@, new)]
  PROVE  RouteInv'
<1>1. KeepsIds /\ usedPresets' = usedPresets
  BY DEF KeepsIds, ids
<1>2. /\ specConns'[r] = Append(specConns[r], new)
      /\ \A q \in PresetIds \ {r} : specConns'[q] = specConns[q]
      /\ specConns[r] \in Seq(Conn)
  BY DEF GraphInv, GraphTypes
<1>3. \A q \in PresetIds : ConnsMove(q)
  BY <1>2 DEF ConnsMove
<1>4. Range(specConns'[r]) = Range(specConns[r]) \cup {new}
  <2>1. PICK s \in Seq(Conn) : s = specConns[r]
    BY <1>2
  <2>2. PICK n \in Nat : n = Len(s) /\ DOMAIN s = 1 .. n
    BY <2>1
  <2>3. /\ DOMAIN Append(s, new) = 1 .. (n + 1)
        /\ \A i \in 1 .. n : Append(s, new)[i] = s[i]
        /\ Append(s, new)[n + 1] = new
    BY <2>2
  <2>4. Range(Append(s, new)) = Range(s) \cup {new}
    BY <2>2, <2>3 DEF Range
  <2> QED BY <1>2, <2>1, <2>4
<1>5. SpecOwns'
  <2>1. \A q \in PresetIds : \A b \in specAgents'[q] \cap agents' : presetOf'[b] = q
    BY DEF RouteInv, SpecOwns
  <2>2. ASSUME NEW q \in PresetIds, NEW cn \in Range(specConns'[q])
        PROVE  cn \in strays' \/ OwnedBy(q, cn)'
    <3>1. cn \in strays \/ OwnedBy(q, cn)
      BY <1>2, <1>4, <2>2 DEF RouteInv, SpecOwns
    <3> QED BY <1>1, <3>1, OwnedStays DEF KeepsIds
  <2> QED BY <2>1, <2>2 DEF SpecOwns
<1> QED BY <1>1, <1>3, <1>5, RouteStep

(* Removing one, by remove_connection or by a rollback. *)
LEMMA RemoveRoute ==
  ASSUME GraphInv, GraphInv', RouteInv, NEW c \in Callers, NEW pc, NEW p, NEW a,
         Moves(c, pc, p, a), PresetMoves(c, pc, p), ~At(c, "drop_agent"),
         UNCHANGED <<ids, specAgents, agents, presetOf>>, CallOwns(c)',
         NEW r \in PresetIds, NEW cn, NEW i \in FirstOf(specConns[r], cn),
         connections' = connections \ {cn},
         specConns' = [specConns EXCEPT ![r] = RemoveAt(@, i)]
  PROVE  RouteInv'
<1>1. KeepsIds /\ usedPresets' = usedPresets
  BY DEF KeepsIds, ids
<1>2. /\ specConns'[r] = RemoveAt(specConns[r], i)
      /\ \A q \in PresetIds \ {r} : specConns'[q] = specConns[q]
      /\ specConns[r] \in Seq(Conn) /\ i \in DOMAIN specConns[r] /\ specConns[r][i] = cn
  BY DEF GraphInv, GraphTypes, FirstOf
<1>3. cn \in Range(specConns[r])
  BY <1>2 DEF Range
<1>4. ConnsMove(r)
  BY <1>2 DEF ConnsMove
<1>5. \A q \in PresetIds \ {r} : ConnsMove(q)
  BY <1>1, <1>2, <1>3, OthersKept
<1>6. Range(specConns'[r]) \subseteq Range(specConns[r])
  <2>1. PICK s \in Seq(Conn), t \in Seq(Conn) : s = specConns[r] /\ t = RemoveAt(s, i)
    BY <1>2, RemoveAtType
  <2>2. PICK n \in Nat : n = Len(s) /\ DOMAIN s = 1 .. n /\ i \in 1 .. n
    BY <1>2, <2>1
  <2>3. Len(t) = n - 1 /\ DOMAIN t = 1 .. Len(t)
    BY <1>2, <2>1, <2>2, RemoveAtParts
  <2>4. \A k \in 1 .. (n - 1) : t[k] = IF k < i THEN s[k] ELSE s[k + 1]
    BY <1>2, <2>1, <2>2, RemoveAtParts
  <2>5. ASSUME NEW k \in 1 .. (n - 1) PROVE t[k] \in Range(s)
    <3>1. PICK l \in 1 .. n : t[k] = s[l]
      <4>1. k \in 1 .. n /\ k + 1 \in 1 .. n
        OBVIOUS
      <4> QED BY <2>4, <4>1
    <3> QED BY <2>2, <3>1 DEF Range
  <2>6. Range(t) \subseteq Range(s)
    BY <2>3, <2>5 DEF Range
  <2> QED BY <1>2, <2>1, <2>6
<1>7. SpecOwns'
  BY <1>1, <1>2, <1>6, SpecOwnsStays DEF RouteInv
<1> QED BY <1>1, <1>4, <1>5, <1>7, RouteStep

(* Instances and ids are added for preset r. *)
LEMMA NewAgentsKeepIds ==
  ASSUME NEW new \in SUBSET (AgentIds \ usedAgents), NEW built \in SUBSET new, NEW r,
         usedAgents' = usedAgents \cup new, strays \subseteq strays',
         agents' = agents \cup built, usedAgents \subseteq AgentIds,
         presetOf' = [b \in AgentIds |-> IF b \in built THEN r ELSE presetOf[b]]
  PROVE  KeepsIds /\ \A b \in built : presetOf'[b] = r
BY DEF KeepsIds

(* The steps of the calls that add or remove no single agent or connection. *)
LEMMA CallRoute ==
  ASSUME GraphInv, GraphInv', RouteInv, NEW c \in Callers, CallStep(c),
         ~BatchConns(c), ~RollbackConn(c), ~AddAgentBuild(c), ~AddConnLookup(c), ~AddConn(c),
         ~RemoveConn(c), ~AddAgentSpec(c)
  PROVE  RouteInv'
<1>0. /\ GraphTypes /\ call \in [Callers -> Call] /\ call' \in [Callers -> Call]
      /\ presets \subseteq usedPresets
      /\ At(c, "idle") \/ Preset(c) \in usedPresets
  BY DEF GraphInv, GraphTypes, IdsInUse
<1>ret. ASSUME Return(c) PROVE Moves(c, "idle", NoPreset, NoAgent)
  BY <1>0, <1>ret, ReturnMoves
<1>go. ASSUME NEW pc \in {"remove_next", "remove_spec", "drop_conns", "drop_agent",
                          "remove_map"},
              Goto(c, pc)
       PROVE  Moves(c, pc, Preset(c), Agent(c))
  BY <1>0, <1>go, GotoMoves DEF CallPc
<1>1. CASE AddPresetInsert(c)
  <2>1. PresetMoves(c, "idle", NoPreset)
    BY <1>0, <1>1 DEF AddPresetInsert, PresetMoves, At
  <2> QED BY <1>1, <1>ret, <2>1, QuietRoute DEF AddPresetInsert, At, spec, runtime
<1>2. CASE SaveWrite(c) \/ BatchDone(c)
  <2>1. PresetMoves(c, "idle", NoPreset)
    BY <1>2 DEF SaveWrite, BatchDone, PresetMoves, At
  <2> QED BY <1>2, <1>ret, <2>1, QuietRoute DEF SaveWrite, BatchDone, At, spec, runtime
<1>3. CASE RollbackAgents(c)
  <2>1. PresetMoves(c, "idle", NoPreset)
    BY <1>3 DEF RollbackAgents, PresetMoves, At
  <2>2. \A q \in PresetIds : specAgents'[q] \subseteq specAgents[q]
    BY <1>0, <1>3 DEF RollbackAgents, GraphTypes
  <2> QED BY <1>3, <1>ret, <2>1, <2>2, QuietRoute DEF RollbackAgents, At
<1>4. CASE RemoveLock(c)
  <2>1. Moves(c, "remove_next", Preset(c), Agent(c))
    BY <1>0, <1>4 DEF RemoveLock, Moves, Preset, Agent, Call
  <2>2. PresetMoves(c, "remove_next", Preset(c))
    BY <1>4 DEF RemoveLock, PresetMoves, At
  <2> QED BY <1>4, <2>1, <2>2, QuietRoute DEF RemoveLock, At, spec, runtime
<1>5. ASSUME NEW b \in AgentIds, RemoveNext(c, b) PROVE RouteInv'
  <2>1. Moves(c, "stop", Preset(c), b)
    BY <1>0, <1>5 DEF RemoveNext, Moves, Preset, Agent, Call
  <2>2. PresetMoves(c, "stop", Preset(c))
    BY <1>5 DEF RemoveNext, PresetMoves, At
  <2> QED BY <1>5, <2>1, <2>2, QuietRoute DEF RemoveNext, At, spec, runtime
<1>6. CASE StopAgent(c)
  <2>1. PICK pc \in {"drop_conns", "remove_next", "remove_spec"} : Goto(c, pc)
    BY <1>6 DEF StopAgent, AfterInternal
  <2>2. PresetMoves(c, pc, Preset(c))
    BY <1>6 DEF StopAgent, PresetMoves, At
  <2> QED BY <1>6, <1>go, <2>1, <2>2, QuietRoute DEF StopAgent, At, spec, runtime
<1>7. CASE StopAgentFails(c)
  <2>1. PresetMoves(c, "idle", NoPreset) /\ PresetMoves(c, "remove_next", Preset(c))
    BY <1>7 DEF StopAgentFails, PresetMoves, At
  <2>2. CASE Goto(c, "remove_next")
    BY <1>7, <1>go, <2>1, <2>2, QuietRoute DEF StopAgentFails, At, spec, runtime
  <2>3. CASE Return(c)
    BY <1>7, <1>ret, <2>1, <2>3, QuietRoute DEF StopAgentFails, At, spec, runtime
  <2> QED BY <1>7, <2>2, <2>3 DEF StopAgentFails
<1>8. CASE DropConns(c)
  <2>1. Moves(c, "drop_agent", Preset(c), Agent(c))
    BY <1>8, <1>go DEF DropConns
  <2>2. PresetMoves(c, "drop_agent", Preset(c))
    BY <1>8 DEF DropConns, PresetMoves, At
  <2>3. KeepsIds /\ usedPresets' = usedPresets
    BY <1>8 DEF DropConns, KeepsIds, ids
  <2>4. SpecOwns'
    BY <1>8, <2>3, SpecOwnsStays DEF DropConns, RouteInv, spec
  <2>5. CallOwns(c)'
    BY <2>1 DEF Moves, CallOwns, At
  <2>6. ASSUME NEW q \in PresetIds PROVE ConnsMove(q)
    <3>1. ASSUME NEW cn, Steady(cn)' PROVE cn \notin Touching({Agent(c)})
      <4>1. Agent(c)' \notin Ends(cn) /\ Agent(c)' = Agent(c)
        BY <2>1, <3>1 DEF Steady, Moves, At, Agent, Ends
      <4> QED BY <4>1 DEF Touching, Ends
    <3> QED BY <1>8, <3>1 DEF DropConns, ConnsMove, spec
  <2> QED BY <1>8, <2>1, <2>2, <2>3, <2>4, <2>5, <2>6, RouteStep DEF DropConns, At
<1>9. CASE DropAgent(c)
  <2>1. PICK pc \in {"remove_next", "remove_spec"} : Goto(c, pc)
    BY <1>9 DEF DropAgent, AfterInternal
  <2>2. PresetMoves(c, pc, Preset(c))
    BY <1>9 DEF DropAgent, PresetMoves, At
  <2> QED BY <1>9, <1>go, <2>1, <2>2, QuietRoute DEF DropAgent, spec
<1>10. CASE RemoveSpec(c)
  <2>1. PresetMoves(c, "idle", NoPreset)
    BY <1>10 DEF RemoveSpec, PresetMoves, At
  <2>2. \A q \in PresetIds : specAgents'[q] \subseteq specAgents[q]
    BY <1>0, <1>10 DEF RemoveSpec, GraphTypes
  <2> QED BY <1>10, <1>ret, <2>1, <2>2, QuietRoute DEF RemoveSpec, At, runtime
<1>11. CASE RemoveUnlock(c)
  <2>1. Moves(c, "remove_map", Preset(c), Agent(c))
    BY <1>11, <1>go DEF RemoveUnlock
  <2>2. PresetMoves(c, "remove_map", Preset(c))
    BY <1>11 DEF RemoveUnlock, PresetMoves, At
  <2>3. KeepsIds /\ usedPresets' = usedPresets
    BY <1>11 DEF RemoveUnlock, KeepsIds, ids
  <2>4. SpecOwns'
    BY <1>11, <2>3, SpecOwnsStays DEF RemoveUnlock, RouteInv, spec
  <2>5. CallOwns(c)'
    BY <2>1 DEF Moves, CallOwns, At
  <2>6. PICK r \in PresetIds : r = Preset(c)
    BY <1>0, <1>11 DEF RemoveUnlock, At, GraphTypes
  <2>7. ConnsMove(r)
    <3>1. ~Intact(r)'
      BY <2>1, <2>6 DEF Intact, Moves, At, Preset
    <3> QED BY <1>11, <3>1 DEF RemoveUnlock, ConnsMove, spec
  <2>8. \A q \in PresetIds \ {r} : ConnsMove(q)
    <3>1. /\ connections' = connections \ Range(specConns[r]) /\ specConns' = specConns
          /\ ~At(c, "drop_agent")
      BY <1>11, <2>6 DEF RemoveUnlock, At, spec
    <3> QED BY <2>1, <2>3, <3>1, OthersKept
  <2> QED BY <1>11, <2>1, <2>2, <2>3, <2>4, <2>5, <2>7, <2>8, RouteStep DEF RemoveUnlock, At
<1>12. CASE RemoveMap(c)
  <2>1. PresetMoves(c, "idle", NoPreset)
    BY <1>12 DEF RemoveMap, PresetMoves, At
  <2> QED BY <1>12, <1>ret, <2>1, QuietRoute DEF RemoveMap, At, spec, runtime
<1> QED BY <1>1, <1>2, <1>3, <1>4, <1>5, <1>6, <1>7, <1>8, <1>9, <1>10, <1>11, <1>12
           DEF CallStep

(* The steps that add an agent. *)
LEMMA AgentRoute ==
  ASSUME GraphInv, GraphInv', RouteInv, NEW c \in Callers,
         AddAgentBuild(c) \/ AddAgentSpec(c)
  PROVE  RouteInv'
<1>0. /\ GraphTypes /\ call \in [Callers -> Call] /\ call' \in [Callers -> Call]
      /\ usedAgents \subseteq AgentIds /\ presetOf \in [AgentIds -> PresetIds \cup {NoPreset}]
  BY DEF GraphInv, GraphTypes
<1>1. CASE AddAgentBuild(c)
  <2>1. PICK b \in AgentIds \ usedAgents :
          /\ usedAgents' = usedAgents \cup {b}
          /\ \/ /\ agents' = agents \cup {b}
                /\ presetOf' = [presetOf EXCEPT ![b] = Preset(c)]
                /\ call' = [call EXCEPT ![c].pc = "add_agent_spec", ![c].agent = b]
             \/ Return(c) /\ UNCHANGED <<agents, presetOf>>
    BY <1>1 DEF AddAgentBuild
  <2>2. /\ At(c, "add_agent_build") /\ UNCHANGED <<usedPresets, strays, presets, spec,
                                                   connections>>
    BY <1>1 DEF AddAgentBuild
  <2>3. KeepsIds
    BY <1>0, <2>1, <2>2 DEF KeepsIds
  <2>4. SpecOwns'
    BY <2>2, <2>3, SpecOwnsStays DEF RouteInv, spec
  <2>5. \A q \in PresetIds : ConnsMove(q)
    BY <2>2 DEF ConnsMove, spec
  <2>6. CASE Return(c)
    <3>1. Moves(c, "idle", NoPreset, NoAgent)
      BY <1>0, <2>6, ReturnMoves
    <3>2. PresetMoves(c, "idle", NoPreset)
      BY <2>2 DEF PresetMoves, At
    <3>3. CallOwns(c)'
      BY <3>1 DEF Moves, CallOwns, At
    <3> QED BY <2>2, <2>3, <2>4, <2>5, <3>1, <3>2, <3>3, RouteStep DEF At
  <2>7. CASE /\ agents' = agents \cup {b}
             /\ presetOf' = [presetOf EXCEPT ![b] = Preset(c)]
             /\ call' = [call EXCEPT ![c].pc = "add_agent_spec", ![c].agent = b]
    <3>1. Moves(c, "add_agent_spec", Preset(c), b)
      BY <1>0, <2>7 DEF Moves, Preset, Call
    <3>2. PresetMoves(c, "add_agent_spec", Preset(c))
      BY <2>2 DEF PresetMoves, At
    <3>3. CallOwns(c)'
      BY <1>0, <2>7, <3>1 DEF Moves, CallOwns, At, Agent, Preset
    <3> QED BY <2>2, <2>3, <2>4, <2>5, <3>1, <3>2, <3>3, RouteStep DEF At
  <2> QED BY <2>1, <2>6, <2>7
<1>2. CASE AddAgentSpec(c)
  <2>1. /\ At(c, "add_agent_spec") /\ UNCHANGED <<ids, presets, specConns, runtime>>
        /\ specAgents' = [specAgents EXCEPT ![Preset(c)] = @ \cup {Agent(c)}]
    BY <1>2 DEF AddAgentSpec
  <2>2. Moves(c, "idle", NoPreset, NoAgent)
    BY <1>0, <1>2, ReturnMoves DEF AddAgentSpec
  <2>3. PresetMoves(c, "idle", NoPreset)
    BY <2>1 DEF PresetMoves, At
  <2>4. CallOwns(c)'
    BY <2>2 DEF Moves, CallOwns, At
  <2>5. KeepsIds /\ usedPresets' = usedPresets
    BY <2>1 DEF KeepsIds, ids, runtime
  <2>6. SpecOwns'
    <3>1. \A q \in PresetIds : specAgents'[q] \subseteq
            IF q = Preset(c) THEN specAgents[q] \cup {Agent(c)} ELSE specAgents[q]
      BY <1>0, <2>1 DEF GraphTypes
    <3>2. Agent(c) \in agents => presetOf[Agent(c)] = Preset(c)
      BY <2>1 DEF RouteInv, CallOwns
    <3>3. \A q \in PresetIds : \A b \in specAgents'[q] \cap agents' : presetOf'[b] = q
      BY <2>1, <3>1, <3>2 DEF RouteInv, SpecOwns, runtime
    <3>4. \A q \in PresetIds : \A cn \in Range(specConns'[q]) :
            cn \in strays' \/ OwnedBy(q, cn)'
      BY <2>1, <2>5, OwnedStays DEF RouteInv, SpecOwns, KeepsIds
    <3> QED BY <3>3, <3>4 DEF SpecOwns
  <2>7. \A q \in PresetIds : ConnsMove(q)
    BY <2>1 DEF ConnsMove, runtime
  <2> QED BY <2>1, <2>2, <2>3, <2>4, <2>5, <2>6, <2>7, RouteStep DEF At
<1> QED BY <1>1, <1>2

(* The steps that add or remove a connection. *)
LEMMA ConnRoute ==
  ASSUME GraphInv, GraphInv', RouteInv, NEW c \in Callers,
         AddConnLookup(c) \/ AddConn(c) \/ RemoveConn(c) \/ BatchConns(c) \/ RollbackConn(c)
  PROVE  RouteInv'
<1>0. /\ GraphTypes /\ call \in [Callers -> Call] /\ call' \in [Callers -> Call]
      /\ call[c].conns \in Seq(Conn) /\ call[c].done \in Nat
      /\ CallOwns(c)
  BY CallFields DEF GraphInv, GraphTypes, RouteInv
<1>1. At(c, "idle") \/ Preset(c) \in PresetIds
  BY DEF GraphInv, GraphTypes, IdsInUse
<1>ret. ASSUME Return(c), UNCHANGED presets, ~At(c, "remove_map")
        PROVE  /\ Moves(c, "idle", NoPreset, NoAgent) /\ PresetMoves(c, "idle", NoPreset)
               /\ CallOwns(c)'
  <2>1. Moves(c, "idle", NoPreset, NoAgent)
    BY <1>0, <1>ret, ReturnMoves
  <2> QED BY <1>ret, <2>1 DEF Moves, CallOwns, At, PresetMoves
<1>2. CASE AddConnLookup(c)
  <2>1. /\ At(c, "add_conn_lookup")
        /\ UNCHANGED <<ids, presets, presetLock, spec, runtime, file, calls>>
    BY <1>2 DEF AddConnLookup
  <2>2. CASE Return(c)
    BY <1>ret, <2>1, <2>2, QuietRoute DEF At, spec, runtime
  <2>3. CASE Goto(c, "add_conn") /\ Preset(c) \in presets
    <3>1. /\ Moves(c, "add_conn", Preset(c), Agent(c)) /\ call'[c].conn = call[c].conn
      BY <1>0, <2>3, GotoMoves DEF Goto, CallPc, Call
    <3>2. PresetMoves(c, "add_conn", Preset(c))
      BY <2>1, <2>3 DEF PresetMoves, At
    <3>3. KeepsIds /\ usedPresets' = usedPresets
      BY <2>1 DEF KeepsIds, ids, runtime
    <3>4. CallOwns(c)'
      BY <1>0, <2>1, <3>1 DEF CallOwns, Moves, At, Preset, OwnedBy, ids, runtime
    <3>5. SpecOwns'
      BY <2>1, <3>3, SpecOwnsStays DEF RouteInv, spec
    <3>6. \A q \in PresetIds : ConnsMove(q)
      BY <2>1 DEF ConnsMove, spec, runtime
    <3> QED BY <2>1, <3>1, <3>2, <3>3, <3>4, <3>5, <3>6, RouteStep DEF At
  <2> QED BY <1>2, <2>2, <2>3 DEF AddConnLookup
<1>3. CASE AddConn(c)
  <2>1. /\ At(c, "add_conn") /\ Return(c)
        /\ UNCHANGED <<ids, presets, specAgents, agents, presetOf>>
    BY <1>3 DEF AddConn
  <2>2. CASE UNCHANGED <<connections, specConns>>
    BY <1>ret, <2>1, <2>2, QuietRoute DEF At
  <2>3. CASE /\ call[c].conn \notin connections
             /\ connections' = connections \cup {call[c].conn}
             /\ specConns' = [specConns EXCEPT ![Preset(c)] = Append(@, call[c].conn)]
    <3>1. /\ call[c].conn \in Conn /\ Preset(c) \in PresetIds
          /\ OwnedBy(Preset(c), call[c].conn)
      BY <1>0, <1>1, <2>1 DEF CallOwns, GraphInv, IdsInUse, At
    <3>2. PICK r \in PresetIds, new \in Conn : r = Preset(c) /\ new = call[c].conn
      BY <3>1
    <3> QED BY <1>ret, <2>1, <2>3, <3>1, <3>2, AddRoute DEF At
  <2> QED BY <1>3, <2>2, <2>3 DEF AddConn
<1>4. CASE RemoveConn(c)
  <2>1. /\ At(c, "remove_conn") /\ Return(c)
        /\ UNCHANGED <<ids, presets, specAgents, agents, presetOf>>
    BY <1>4 DEF RemoveConn
  <2>2. CASE UNCHANGED <<connections, specConns>>
    BY <1>ret, <2>1, <2>2, QuietRoute DEF At
  <2>3. ASSUME NEW i \in FirstOf(specConns[Preset(c)], call[c].conn),
               specConns' = [specConns EXCEPT ![Preset(c)] = RemoveAt(@, i)],
               connections' = connections \ {call[c].conn}
        PROVE  RouteInv'
    <3>1. PICK r, cn : r \in PresetIds /\ r = Preset(c) /\ cn = call[c].conn
      BY <1>1, <2>1 DEF At
    <3>2. ~At(c, "drop_agent") /\ ~At(c, "remove_map")
      BY <2>1 DEF At
    <3> QED BY <1>ret, <2>1, <2>3, <3>1, <3>2, RemoveRoute
  <2> QED BY <1>4, <2>2, <2>3 DEF RemoveConn
<1>5. CASE BatchConns(c)
  <2>0. /\ At(c, "batch_conns") /\ call[c].done < Len(call[c].conns)
        /\ UNCHANGED <<ids, presets, presetLock, specAgents, agents, presetOf, file, calls>>
    BY <1>5 DEF BatchConns
  <2>1. PICK new \in Conn, r \in PresetIds :
          /\ new = call[c].conns[call[c].done + 1] /\ r = Preset(c) /\ OwnedBy(r, new)
    <3>1. call[c].done + 1 \in DOMAIN call[c].conns
      BY <1>0, <2>0
    <3>2. call[c].conns[call[c].done + 1] \in Range(call[c].conns)
      BY <3>1 DEF Range
    <3>3. call[c].conns[call[c].done + 1] \in Conn
      BY <1>0, <3>1
    <3>4. Preset(c) \in PresetIds
      BY <1>1, <2>0 DEF At
    <3>5. OwnedBy(Preset(c), call[c].conns[call[c].done + 1])
      BY <1>0, <2>0, <3>2 DEF CallOwns
    <3> QED BY <3>3, <3>4, <3>5
  <2>2. CASE /\ call' = [call EXCEPT ![c].pc = "batch_rollback",
                                     ![c].conns = SubSeq(@, 1, call[c].done)]
             /\ UNCHANGED <<connections, specConns>>
    <3>1. Moves(c, "batch_rollback", Preset(c), Agent(c))
      BY <1>0, <2>2 DEF Moves, Preset, Agent, Call
    <3>2. PresetMoves(c, "batch_rollback", Preset(c))
      BY <2>0 DEF PresetMoves, At
    <3> QED BY <2>0, <2>2, <3>1, <3>2, QuietRoute DEF At
  <2>3. CASE /\ new \notin connections
             /\ connections' = connections \cup {new}
             /\ specConns' = [specConns EXCEPT ![r] = Append(@, new)]
             /\ call' = [call EXCEPT ![c].done = @ + 1]
    <3>1. Moves(c, "batch_conns", Preset(c), Agent(c)) /\ call'[c].conns = call[c].conns
      BY <1>0, <2>0, <2>3 DEF Moves, Preset, Agent, Call, At
    <3>2. PresetMoves(c, "batch_conns", Preset(c))
      BY <2>0 DEF PresetMoves, At
    <3>3. CallOwns(c)'
      BY <1>0, <2>0, <3>1 DEF CallOwns, Moves, At, Preset, OwnedBy, ids
    <3> QED BY <2>0, <2>1, <2>3, <3>1, <3>2, <3>3, AddRoute DEF At
  <2> QED BY <1>5, <2>1, <2>2, <2>3 DEF BatchConns
<1>6. CASE RollbackConn(c)
  <2>1. /\ At(c, "batch_rollback") /\ call' = [call EXCEPT ![c].conns = Tail(@)]
        /\ UNCHANGED <<ids, presets, specAgents, agents, presetOf>>
        /\ connections' = connections \ {Head(call[c].conns)}
    BY <1>6 DEF RollbackConn
  <2>2. PICK i \in FirstOf(specConns[Preset(c)], Head(call[c].conns)) :
          specConns' = [specConns EXCEPT ![Preset(c)] = RemoveAt(@, i)]
    BY <1>6 DEF RollbackConn
  <2>3. Moves(c, "batch_rollback", Preset(c), Agent(c))
    BY <1>0, <2>1 DEF Moves, Preset, Agent, Call, At
  <2>4. PresetMoves(c, "batch_rollback", Preset(c))
    BY <2>1 DEF PresetMoves, At
  <2>5. CallOwns(c)' /\ ~At(c, "drop_agent")
    BY <2>1, <2>3 DEF CallOwns, Moves, At
  <2>6. PICK r, cn : r \in PresetIds /\ r = Preset(c) /\ cn = Head(call[c].conns)
    BY <1>1, <2>1 DEF At
  <2> QED BY <2>1, <2>2, <2>3, <2>4, <2>5, <2>6, RemoveRoute
<1> QED BY <1>2, <1>3, <1>4, <1>5, <1>6

(* A connection whose ends are new ids or kept from an entry of conns. *)
FromEntry(as, f, conns, cn) ==
    \E i \in DOMAIN conns :
        /\ conns[i] \in Conn /\ conns[i] \in Range(conns)
        /\ \A a \in Ends(cn) : a \in Range(f) \/ (a \notin as /\ a \in Ends(conns[i]))

(* Every renamed entry is one. *)
LEMMA RenamedEnds ==
  ASSUME NEW as \in SUBSET AgentIds, NEW f \in [as -> AgentIds], NEW conns \in Seq(Conn),
         NEW cn \in Range(RenamedConns(f, conns))
  PROVE  FromEntry(as, f, conns, cn)
<1>1. PICK i \in DOMAIN conns : cn = <<Renamed(f, conns[i][1]), Renamed(f, conns[i][2])>>
  BY DEF Range, RenamedConns
<1>2. conns[i] \in Conn /\ conns[i] \in Range(conns)
  BY DEF Range
<1>3. \A a \in as : f[a] \in Range(f)
  BY DEF Range
<1>4. Ends(cn) = {Renamed(f, conns[i][1]), Renamed(f, conns[i][2])}
  BY <1>1 DEF Ends
<1>5. \A a \in Ends(cn) : a \in Range(f) \/ (a \notin as /\ a \in Ends(conns[i]))
  BY <1>3, <1>4 DEF Renamed, Ends
<1> QED BY <1>2, <1>5 DEF FromEntry

(* A batch's agents and the connections it is about to add are its         *)
(* preset's.                                                               *)
LEMMA BatchAgentsRoute ==
  ASSUME GraphInv, GraphInv', RouteInv, NEW c \in Callers, NEW f \in NewIds(call[c].ids),
         NEW built \in SUBSET Range(f), BatchAgents(c, f, built)
  PROVE  RouteInv'
<1>0. /\ GraphTypes /\ call \in [Callers -> Call] /\ call' \in [Callers -> Call]
      /\ call[c].conns \in Seq(Conn) /\ call[c].ids \in SUBSET AgentIds
      /\ usedAgents \subseteq AgentIds /\ CallOwns(c)
  BY CallFields DEF GraphInv, GraphTypes, RouteInv
<1>1. /\ At(c, "batch_agents") /\ UNCHANGED <<usedPresets, strays, presets, specConns,
                                              connections>>
      /\ usedAgents' = usedAgents \cup Range(f) /\ agents' = agents \cup built
      /\ presetOf' = [b \in AgentIds |-> IF b \in built THEN Preset(c) ELSE presetOf[b]]
      /\ specAgents' = [specAgents EXCEPT ![Preset(c)] = @ \cup built]
  BY DEF BatchAgents
<1>2. PICK r \in PresetIds : r = Preset(c)
  BY <1>1 DEF GraphInv, GraphTypes, IdsInUse, At
<1>3. f \in [call[c].ids -> AgentIds] /\ Range(f) \in SUBSET (AgentIds \ usedAgents)
  BY <1>0 DEF NewIds, Injection, Range
<1>4. KeepsIds /\ \A b \in built : presetOf'[b] = r
  BY <1>0, <1>1, <1>2, <1>3, NewAgentsKeepIds
<1>5. agents \subseteq usedAgents
  BY DEF GraphInv, GraphTypes
<1>6. SpecOwns'
  <2>1. \A q \in PresetIds : specAgents'[q] \subseteq
          IF q = r THEN specAgents[q] \cup built ELSE specAgents[q]
    BY <1>0, <1>1, <1>2 DEF GraphTypes
  <2>2. \A q \in PresetIds : specAgents[q] \subseteq usedAgents
    BY DEF GraphInv, IdsInUse
  <2>3. ASSUME NEW q \in PresetIds, NEW b \in specAgents'[q] \cap agents'
        PROVE  presetOf'[b] = q
    <3>1. CASE b \in built
      BY <1>3, <1>4, <2>1, <2>2, <2>3, <3>1
    <3>2. CASE b \notin built
      BY <1>1, <1>4, <1>5, <2>1, <2>3, <3>2 DEF RouteInv, SpecOwns, KeepsIds
    <3> QED BY <3>1, <3>2
  <2>4. \A q \in PresetIds : \A cn \in Range(specConns'[q]) :
          cn \in strays' \/ OwnedBy(q, cn)'
    BY <1>1, <1>4, OwnedStays DEF RouteInv, SpecOwns, KeepsIds
  <2> QED BY <2>3, <2>4 DEF SpecOwns
<1>7. \A q \in PresetIds : ConnsMove(q)
  BY <1>1 DEF ConnsMove
<1>8. CASE built = Range(f)
  <2>1. call' = [call EXCEPT ![c].pc = "batch_conns", ![c].ids = built,
                             ![c].conns = RenamedConns(f, call[c].conns)]
    BY <1>8 DEF BatchAgents
  <2>2. /\ Moves(c, "batch_conns", Preset(c), Agent(c))
        /\ call'[c].conns = RenamedConns(f, call[c].conns)
    BY <1>0, <2>1 DEF Moves, Preset, Agent, Call
  <2>3. PresetMoves(c, "batch_conns", Preset(c))
    BY <1>1 DEF PresetMoves, At
  <2>4. ASSUME NEW cn \in Range(RenamedConns(f, call[c].conns)) PROVE OwnedBy(r, cn)'
    <3>1. PICK i \in DOMAIN call[c].conns :
            /\ call[c].conns[i] \in Range(call[c].conns)
            /\ \A b \in Ends(cn) : b \in Range(f) \/ b \in Ends(call[c].conns[i])
      <4>1. FromEntry(call[c].ids, f, call[c].conns, cn)
        BY <1>0, <1>3, <2>4, RenamedEnds
      <4> QED BY <4>1 DEF FromEntry
    <3>2. OwnedBy(r, call[c].conns[i])
      BY <1>0, <1>1, <1>2, <3>1 DEF CallOwns
    <3>3. ASSUME NEW b \in Ends(cn)
          PROVE  b \in usedAgents' /\ (b \in agents' => presetOf'[b] = r)
      <4>1. CASE b \in Range(f)
        BY <1>1, <1>4, <1>8, <4>1
      <4>2. CASE b \in Ends(call[c].conns[i])
        BY <1>4, <3>2, <4>2 DEF OwnedBy, KeepsIds
      <4> QED BY <3>1, <3>3, <4>1, <4>2
    <3> QED BY <3>3 DEF OwnedBy
  <2>5. CallOwns(c)'
    <3>1. Preset(c)' = r /\ At(c, "batch_conns")'
      BY <1>2, <2>2 DEF Moves, Preset, At
    <3>2. \A cn \in Range(call'[c].conns) : OwnedBy(Preset(c), cn)'
      BY <2>2, <2>4, <3>1 DEF OwnedBy
    <3> QED BY <3>1, <3>2 DEF CallOwns, At
  <2> QED BY <1>1, <1>4, <1>6, <1>7, <2>2, <2>3, <2>5, RouteStep DEF At
<1>9. CASE built # Range(f)
  <2>1. call' = [call EXCEPT ![c].pc = "batch_rollback", ![c].ids = built,
                             ![c].conns = << >>]
    BY <1>9 DEF BatchAgents
  <2>2. Moves(c, "batch_rollback", Preset(c), Agent(c))
    BY <1>0, <2>1 DEF Moves, Preset, Agent, Call
  <2>3. PresetMoves(c, "batch_rollback", Preset(c))
    BY <1>1 DEF PresetMoves, At
  <2>4. CallOwns(c)'
    BY <2>2 DEF CallOwns, Moves, At
  <2> QED BY <1>1, <1>4, <1>6, <1>7, <2>2, <2>3, <2>4, RouteStep DEF At
<1> QED BY <1>8, <1>9

(* What is no stray of a load is between its own new agents. *)
LEMMA LoadedEnds ==
  ASSUME NEW as \in SUBSET AgentIds, NEW f \in [as -> AgentIds], NEW conns \in Seq(Conn),
         NEW cn \in Range(RenamedConns(f, conns)), cn \notin Strays(f, conns)
  PROVE  Ends(cn) \subseteq Range(f)
<1>0. cn \in Conn
  BY RenamedConnsType
<1>1. PICK i \in DOMAIN conns :
        /\ conns[i] \in Conn
        /\ \A b \in Ends(cn) : b \in Range(f) \/ (b \notin as /\ b \in Ends(conns[i]))
  <2>1. FromEntry(as, f, conns, cn)
    BY RenamedEnds
  <2> QED BY <2>1 DEF FromEntry
<1>2. ASSUME NEW b \in Ends(cn), b \notin Range(f) PROVE FALSE
  <2>1. b \in AgentIds \ DOMAIN f /\ b \in {conns[i][1], conns[i][2]}
    BY <1>1, <1>2 DEF Ends, Conn
  <2>2. cn \in Touching({a \in AgentIds \ DOMAIN f :
                 \E k \in DOMAIN conns : a \in {conns[k][1], conns[k][2]}})
    BY <1>0, <1>1, <1>2, <2>1 DEF Touching, Ends
  <2> QED BY <2>2 DEF Strays
<1> QED BY <1>2

(* A preset is added: what is no stray of its load is between its own new  *)
(* agents, listed once, and in the table.                                  *)
LEMMA AddPresetRoute ==
  ASSUME GraphInv, GraphInv', RouteInv, NEW c \in Callers, NEW p \in PresetIds,
         NEW s \in {EmptySpec, file}, NEW f \in NewIds(s.agents),
         NEW built \in SUBSET Range(f), AddPreset(c, p, s, f, built)
  PROVE  RouteInv'
<1>0. /\ GraphTypes /\ call \in [Callers -> Call] /\ call' \in [Callers -> Call]
      /\ usedAgents \subseteq AgentIds /\ agents \subseteq usedAgents
      /\ usedPresets \subseteq PresetIds
  BY DEF GraphInv, GraphTypes
<1>1. /\ At(c, "idle") /\ p \notin usedPresets /\ UNCHANGED presets
      /\ usedPresets' = usedPresets \cup {p}
      /\ usedAgents' = usedAgents \cup Range(f) /\ agents' = agents \cup built
      /\ presetOf' = [b \in AgentIds |-> IF b \in built THEN p ELSE presetOf[b]]
      /\ specAgents' = [specAgents EXCEPT ![p] = Range(f)]
      /\ specConns' = [specConns EXCEPT ![p] = RenamedConns(f, s.conns)]
      /\ connections' = connections \cup Range(RenamedConns(f, s.conns))
      /\ strays' = strays \cup Strays(f, s.conns)
  BY DEF AddPreset, Begin, At
<1>2. s.agents \in SUBSET AgentIds /\ s.conns \in Seq(Conn)
  <2>1. CASE s = EmptySpec
    BY <2>1 DEF EmptySpec
  <2>2. CASE s = file
    BY <1>0, <2>2 DEF GraphTypes
  <2> QED BY <2>1, <2>2
<1>3. f \in [s.agents -> AgentIds] /\ Range(f) \in SUBSET (AgentIds \ usedAgents)
  BY <1>2 DEF NewIds, Injection, Range
<1>4. KeepsIds /\ \A b \in built : presetOf'[b] = p
  BY <1>0, <1>1, <1>3, NewAgentsKeepIds
<1>5. Moves(c, "add_preset_insert", p, NoAgent)
  <2> DEFINE new == [IdleCall EXCEPT !.pc = "add_preset_insert", !.preset = p]
  <2>1. new.pc = "add_preset_insert" /\ new.preset = p /\ new.agent = NoAgent
    BY DEF IdleCall
  <2>2. call' = [call EXCEPT ![c] = new]
    BY DEF AddPreset
  <2> HIDE DEF new
  <2> QED BY <1>0, <2>1, <2>2 DEF Moves
<1>6. PresetMoves(c, "add_preset_insert", p)
  BY <1>1 DEF PresetMoves, At
<1>7. /\ specConns'[p] = RenamedConns(f, s.conns) /\ specAgents'[p] = Range(f)
      /\ \A q \in PresetIds \ {p} : specConns'[q] = specConns[q]
                                    /\ specAgents'[q] = specAgents[q]
  BY <1>0, <1>1 DEF GraphTypes
<1>8. ASSUME NEW cn \in Range(RenamedConns(f, s.conns)), cn \notin Strays(f, s.conns)
      PROVE  Ends(cn) \subseteq Range(f)
  BY <1>2, <1>3, <1>8, LoadedEnds
<1>9. SpecOwns'
  <2>1. ASSUME NEW q \in PresetIds, NEW b \in specAgents'[q] \cap agents'
        PROVE  presetOf'[b] = q
    <3>1. CASE q = p
      BY <1>0, <1>1, <1>3, <1>4, <1>7, <2>1, <3>1
    <3>2. CASE q # p
      <4>1. b \in specAgents[q] /\ b \in usedAgents
        BY <1>7, <2>1, <3>2 DEF GraphInv, IdsInUse
      <4>2. b \in agents
        BY <1>1, <1>3, <2>1, <4>1
      <4> QED BY <1>4, <4>1, <4>2 DEF RouteInv, SpecOwns, KeepsIds
    <3> QED BY <3>1, <3>2
  <2>2. ASSUME NEW q \in PresetIds, NEW cn \in Range(specConns'[q])
        PROVE  cn \in strays' \/ OwnedBy(q, cn)'
    <3>1. CASE q # p
      BY <1>4, <1>7, <2>2, <3>1, OwnedStays DEF RouteInv, SpecOwns, KeepsIds
    <3>2. CASE q = p
      <4>1. cn \in strays' \/ Ends(cn) \subseteq Range(f)
        BY <1>1, <1>7, <1>8, <2>2, <3>2
      <4>2. ASSUME Ends(cn) \subseteq Range(f), NEW b \in Ends(cn)
            PROVE  b \in usedAgents' /\ (b \in agents' => presetOf'[b] = q)
        BY <1>0, <1>1, <1>3, <1>4, <3>2, <4>2
      <4> QED BY <4>1, <4>2 DEF OwnedBy
    <3> QED BY <3>1, <3>2
  <2> QED BY <2>1, <2>2 DEF SpecOwns
<1>10. PendingAlone'
  BY <1>5, <1>6, PendingStep DEF RouteInv
<1>11. ASSUME NEW d \in Callers PROVE CallOwns(d)'
  <2>1. CASE d = c
    BY <1>5, <2>1 DEF Moves, CallOwns, At
  <2>2. CASE d # c
    BY <1>4, <1>5, <2>2, CallOwnsStays DEF RouteInv
  <2> QED BY <2>1, <2>2
<1>12. ASSUME NEW q \in PresetIds \ {p} PROVE ListedAndRouted(q)'
  <2>0. ListedAndRouted(q) /\ SpecOwns /\ PendingAlone
    BY DEF RouteInv
  <2>1. Intact(q)' => Intact(q)
    <3>1. Intact(q)' => q \in usedPresets'
      BY DEF Intact, GraphInv, GraphTypes, IdsInUse, At
    <3> QED BY <1>1, <1>5, <1>6, <2>0, <3>1, IntactBefore
  <2>2. \A cn \in Range(specConns[q]) : Steady(cn)' => Steady(cn)
    <3>1. ~At(c, "drop_agent")
      BY <1>1 DEF At
    <3> QED BY <1>4, <1>5, <2>0, <3>1, EntrySteady
  <2> QED BY <1>1, <1>7, <2>0, <2>1, <2>2, SameConns
<1>13. ListedAndRouted(p)'
  <2> SUFFICES ASSUME NEW cn \in Range(specConns'[p]), cn \notin strays'
               PROVE  /\ cn \in connections'
                      /\ \A i, j \in DOMAIN specConns'[p] :
                           specConns'[p][i] = cn /\ specConns'[p][j] = cn => i = j
    BY DEF ListedAndRouted, Steady
  <2>1. cn \in connections' /\ cn \notin Strays(f, s.conns)
    BY <1>1, <1>7
  <2>2. cn \in Conn
    BY <1>2, <1>3, <1>7, RenamedConnsType
  <2>3. \A i, j \in DOMAIN RenamedConns(f, s.conns) :
          RenamedConns(f, s.conns)[i] = cn /\ RenamedConns(f, s.conns)[j] = cn => i = j
    BY <2>1, <2>2 DEF Strays
  <2> QED BY <1>7, <2>1, <2>3
<1> QED BY <1>9, <1>10, <1>11, <1>12, <1>13 DEF RouteInv

-----------------------------------------------------------------------------
(* The invariant is inductive, given the one about the agents. *)
LEMMA RouteInvariant == Spec => []RouteInv
<1>1. Init => RouteInv
  BY DEF Init, IdleCall, RouteInv, PendingAlone, SpecOwns, CallOwns, ListedAndRouted, Range,
     At, Preset, Agent
<1>2. GraphInv /\ GraphInv' /\ RouteInv /\ [Next]_vars => RouteInv'
  <2> SUFFICES ASSUME GraphInv, GraphInv', RouteInv, [Next]_vars PROVE RouteInv'
    OBVIOUS
  <2>1. CASE Restart
    BY <2>1 DEF Restart, IdleCall, RouteInv, PendingAlone, SpecOwns, CallOwns,
       ListedAndRouted, Range, At, Preset, Agent
  <2>2. ASSUME NEW c \in Callers, Build(c) PROVE RouteInv'
    BY <2>2, AddPresetRoute, BatchAgentsRoute DEF Build
  <2>3. ASSUME NEW c \in Callers, BeginCall(c) PROVE RouteInv'
    BY <2>3, BeginRoute
  <2>4. ASSUME NEW c \in Callers, CallStep(c) PROVE RouteInv'
    BY <2>4, CallRoute, AgentRoute, ConnRoute
  <2>5. CASE UNCHANGED vars
    BY <2>5 DEF vars, ids, spec, runtime, RouteInv, PendingAlone, SpecOwns, CallOwns,
       ListedAndRouted, OwnedBy, Steady, Intact, At, Preset, Agent
  <2> QED BY <2>1, <2>2, <2>3, <2>4, <2>5 DEF Next
<1> QED BY <1>1, <1>2, GraphInvariant, PTL DEF Spec

(* A connection that a preset shows is in the routing table, as long as    *)
(* both its agents exist, no load left it in doubt and no removal of them  *)
(* or of the preset is under way, for any number of presets, agents and    *)
(* callers: neither remove_connection, nor the rollback of a batch, nor    *)
(* the removal of another agent or preset disconnects it.                  *)
THEOREM ShownConnectionsRouted == Spec => []SpecConnectionRouted
<1>1. RouteInv /\ GraphInv => SpecConnectionRouted
  <2> SUFFICES ASSUME RouteInv, GraphInv, NEW p \in presets, NEW cn \in Range(specConns[p]),
                      cn[1] \in agents, cn[2] \in agents, cn \notin strays,
                      ~BeingRemoved(p, cn)
               PROVE  cn \in connections
    BY DEF SpecConnectionRouted
  <2>1. p \in PresetIds /\ cn \in Conn
    <3>1. p \in PresetIds /\ specConns[p] \in Seq(Conn)
      BY DEF GraphInv, GraphTypes
    <3> QED BY <3>1 DEF Range
  <2>2. Intact(p)
    BY DEF Intact, BeingRemoved
  <2>3. Steady(cn)
    BY <2>1 DEF Steady, Ends, BeingRemoved, Touching
  <2> QED BY <2>1, <2>2, <2>3 DEF RouteInv, ListedAndRouted
<1> QED BY <1>1, GraphInvariant, RouteInvariant, PTL

-----------------------------------------------------------------------------
(* A call that holds the lock of its preset. *)
Holds(c) ==
    \/ call[c].pc \in {"batch_conns", "batch_rollback", "remove_next"}
    \/ call[c].op = "remove_preset" /\ call[c].pc \in {"stop", "drop_conns", "drop_agent"}

(* The lock of a preset has one holder. *)
LocksHeld ==
    \A c \in Callers : Holds(c) =>
        /\ Preset(c) \in presetLock
        /\ \A d \in Callers \ {c} : Holds(d) => Preset(d) # Preset(c)

(* Connections in the table are between ids of this process. *)
TableOwns == \A cn \in connections : cn \in strays \/ Ends(cn) \subseteq usedAgents

InBatch(c) == At(c, "batch_conns") \/ At(c, "batch_rollback")

(* A call that refers to none of the agents in as. *)
Apart(d, as) ==
    /\ Agent(d) \notin as /\ call[d].ids \cap as = {}
    /\ At(d, "add_conn_lookup") \/ At(d, "add_conn") => Ends(call[d].conn) \cap as = {}
    /\ At(d, "batch_agents") \/ At(d, "batch_conns") =>
         \A cn \in Range(call[d].conns) : Ends(cn) \cap as = {}

(* The agents of a batch are its own until it returns: neither another     *)
(* call nor another preset's spec refers to them.                          *)
Private(c) ==
    /\ \A d \in Callers \ {c} : Apart(d, call[c].ids)
    /\ \A q \in PresetIds \ {Preset(c)} : specAgents[q] \cap call[c].ids = {}

(* The number of connections a batch has added, or has still to take back. *)
Count(c) == IF At(c, "batch_conns") THEN call[c].done ELSE Len(call[c].conns)

(* Connections that are only there because of the batch. *)
Own(c) == Touching(call[c].ids) \ strays

(* Each entry of s among X has a place of its own among the first n of l.  *)
Matched(s, l, n, X) ==
    \E g \in [DOMAIN s -> Nat] : \A i \in DOMAIN s : s[i] \in X =>
        /\ g[i] \in 1 .. n /\ l[g[i]] = s[i]
        /\ \A j \in DOMAIN s : s[j] \in X /\ g[j] = g[i] => j = i

(* What is there of a batch is what its list says.  The table may lose an  *)
(* entry while the batch runs (one end is removed), so a connection that   *)
(* the batch lists twice may be in the spec twice.                         *)
Tracked(c) ==
    /\ At(c, "batch_conns") =>
         /\ call[c].ids \subseteq specAgents[Preset(c)] \cap agents
         /\ \A k \in 1 .. call[c].done : call[c].conns[k] \in Range(specConns[Preset(c)])
    /\ Matched(specConns[Preset(c)], call[c].conns, Count(c), Own(c))
    /\ \A cn \in connections \cap Own(c) : \E k \in 1 .. Count(c) : call[c].conns[k] = cn

BatchInv ==
    /\ LocksHeld /\ TableOwns
    /\ \A c \in Callers :
         /\ At(c, "batch_agents") => call[c].done = 0
         /\ InBatch(c) => Private(c) /\ Tracked(c)

-----------------------------------------------------------------------------
(* Locks are taken when they are free, and released by their holders. *)
LEMMA LocksStep ==
  ASSUME LocksHeld, NEW e \in Callers, NEW pc, NEW p, NEW a, Moves(e, pc, p, a),
         Holds(e)' => /\ p = Preset(e)
                      /\ \/ Holds(e) /\ p \in presetLock'
                         \/ p \notin presetLock /\ p \in presetLock',
         \A q \in presetLock \ presetLock' : Holds(e) /\ q = Preset(e)
  PROVE  LocksHeld'
<1>1. \A d \in Callers \ {e} : (Holds(d)' <=> Holds(d)) /\ Preset(d)' = Preset(d)
  BY DEF Moves, Holds, Preset
<1>2. Preset(e)' = p
  BY DEF Moves, Preset
<1> SUFFICES ASSUME NEW c \in Callers, Holds(c)'
             PROVE  /\ Preset(c)' \in presetLock'
                    /\ \A d \in Callers \ {c} : Holds(d)' => Preset(d)' # Preset(c)'
  BY DEF LocksHeld
<1>3. CASE c = e
  BY <1>1, <1>2, <1>3 DEF LocksHeld
<1>4. CASE c # e
  BY <1>1, <1>2, <1>4 DEF LocksHeld
<1> QED BY <1>3, <1>4

(* What a step of caller e may do to the specs: change the one whose lock  *)
(* it holds, or which no one holds.                                        *)
SpecChange(e) ==
    \/ UNCHANGED spec
    \/ \E r \in PresetIds :
         /\ r \notin presetLock \/ (Holds(e) /\ r = Preset(e))
         /\ \A q \in PresetIds \ {r} :
              specAgents'[q] = specAgents[q] /\ specConns'[q] = specConns[q]
         /\ specAgents'[r] \subseteq
              specAgents[r] \cup {Agent(e)} \cup (usedAgents' \ usedAgents)

(* The connections it may add to the table. *)
TableChange(e) ==
    \A cn \in connections' \ connections :
        \/ cn \in strays'
        \/ /\ Ends(cn) \subseteq usedAgents'
           /\ \/ Ends(cn) \cap usedAgents = {}
              \/ At(e, "add_conn") /\ cn = call[e].conn
              \/ At(e, "batch_conns") /\ cn \in Range(call[e].conns)

(* Another call's batch does not notice. *)
LEMMA OtherBatch ==
  ASSUME GraphInv, BatchInv, KeepsIds, NEW e \in Callers, NEW pc, NEW p, NEW a,
         Moves(e, pc, p, a), SpecChange(e), TableChange(e),
         agents \ agents' \subseteq {Agent(e)} \cup call[e].ids,
         NEW c \in Callers \ {e}, InBatch(c)', InBatch(c) => Apart(e, call[c].ids)'
  PROVE  Private(c)' /\ Tracked(c)'
<1>1. call'[c] = call[c] /\ InBatch(c) /\ Holds(c)
  BY DEF Moves, InBatch, At, Holds
<1>2. /\ Private(c) /\ Tracked(c) /\ Apart(e, call[c].ids)
      /\ call[c].ids \subseteq usedAgents /\ Preset(c) \in PresetIds
      /\ Preset(c) \in presetLock
  BY <1>1 DEF BatchInv, Private, GraphInv, GraphTypes, IdsInUse, LocksHeld, InBatch, At
<1>3. /\ specAgents'[Preset(c)] = specAgents[Preset(c)]
      /\ specConns'[Preset(c)] = specConns[Preset(c)]
  <2>1. Holds(e) => Preset(e) # Preset(c)
    BY <1>1 DEF BatchInv, LocksHeld
  <2> QED BY <1>2, <2>1 DEF SpecChange, spec
<1>4. PICK as, P : as = call[c].ids /\ P = Preset(c)
  OBVIOUS
<1>5. Private(c)'
  <2>1. ASSUME NEW d \in Callers \ {c} PROVE Apart(d, as)'
    <3>1. CASE d = e
      BY <1>1, <1>4, <3>1 DEF Apart
    <3>2. CASE d # e
      <4>1. call'[d] = call[d] /\ Apart(d, as)
        BY <1>2, <1>4, <3>2 DEF Moves, Private
      <4> QED BY <4>1 DEF Apart, At, Agent
    <3> QED BY <3>1, <3>2
  <2>2. ASSUME NEW q \in PresetIds \ {P} PROVE specAgents'[q] \cap as = {}
    <3>1. specAgents[q] \cap as = {} /\ Agent(e) \notin as /\ as \subseteq usedAgents
      BY <1>2, <1>4 DEF Private, Apart
    <3>2. specAgents'[q] \subseteq
            specAgents[q] \cup {Agent(e)} \cup (usedAgents' \ usedAgents)
      BY DEF SpecChange, spec
    <3> QED BY <3>1, <3>2
  <2>3. call'[c].ids = as /\ Preset(c)' = P
    BY <1>1, <1>4 DEF Preset
  <2> QED BY <2>1, <2>2, <2>3 DEF Private, Apart
<1>6. Tracked(c)'
  <2>1. (At(c, "batch_conns") =>
          /\ call[c].ids \subseteq specAgents[Preset(c)] \cap agents
          /\ \A k \in 1 .. call[c].done : call[c].conns[k] \in Range(specConns[Preset(c)]))'
    BY <1>1, <1>2, <1>3 DEF Tracked, Apart, At, Preset
  <2>2. Own(c)' \subseteq Own(c) /\ Count(c)' = Count(c)
    BY <1>1 DEF Own, KeepsIds, Count, At, Touching
  <2>3. Matched(specConns[Preset(c)], call[c].conns, Count(c), Own(c))'
    <3>1. Matched(specConns[Preset(c)], call[c].conns, Count(c), Own(c)')
      BY <1>2, <2>2 DEF Tracked, Matched
    <3>2. Preset(c)' = Preset(c)
      BY <1>1 DEF Preset
    <3> QED BY <1>1, <1>3, <2>2, <3>1, <3>2 DEF Matched
  <2>4. ASSUME NEW cn \in connections' \cap Own(c)'
        PROVE  \E k \in 1 .. Count(c) : call[c].conns[k] = cn
    <3>1. CASE cn \in connections
      BY <1>2, <2>2, <3>1 DEF Tracked
    <3>2. CASE cn \notin connections
      <4>1. cn \notin strays' /\ Ends(cn) \cap call[c].ids # {}
        BY <1>1, <2>4 DEF Own, Touching, Ends
      <4> QED BY <1>2, <3>2, <4>1 DEF TableChange, Apart
    <3> QED BY <3>1, <3>2
  <2> QED BY <1>1, <2>1, <2>2, <2>3, <2>4 DEF Tracked
<1> QED BY <1>5, <1>6

(* A step keeps the invariant if its caller's own batch does. *)
LEMMA BatchStep ==
  ASSUME GraphInv, BatchInv, KeepsIds, NEW e \in Callers, NEW pc, NEW p, NEW a,
         Moves(e, pc, p, a), SpecChange(e), TableChange(e), LocksHeld',
         agents \ agents' \subseteq {Agent(e)} \cup call[e].ids,
         \A c \in Callers \ {e} : InBatch(c) => Apart(e, call[c].ids)',
         pc = "batch_agents" => call'[e].done = 0,
         InBatch(e)' => Private(e)' /\ Tracked(e)'
  PROVE  BatchInv'
<1>1. TableOwns'
  BY DEF BatchInv, TableOwns, TableChange, KeepsIds
<1>2. ASSUME NEW c \in Callers PROVE (At(c, "batch_agents") => call[c].done = 0)'
  <2>1. CASE c = e
    BY <2>1 DEF Moves, At
  <2>2. CASE c # e
    BY <2>2 DEF Moves, At, BatchInv
  <2> QED BY <2>1, <2>2
<1>3. ASSUME NEW c \in Callers, InBatch(c)' PROVE Private(c)' /\ Tracked(c)'
  <2>1. CASE c = e
    BY <1>3, <2>1
  <2>2. CASE c # e
    BY <1>3, <2>2, OtherBatch
  <2> QED BY <2>1, <2>2
<1> QED BY <1>1, <1>2, <1>3 DEF BatchInv

(* A call that refers to less than before stays apart. *)
LEMMA ApartStays ==
  ASSUME NEW e, NEW as, NoAgent \notin as, Apart(e, as),
         Agent(e)' \in {Agent(e), NoAgent} \cup call[e].ids,
         call'[e].ids \subseteq call[e].ids,
         ~At(e, "add_conn_lookup")' /\ ~At(e, "batch_agents")',
         At(e, "add_conn")' => At(e, "add_conn_lookup") /\ call'[e].conn = call[e].conn,
         At(e, "batch_conns")' => At(e, "batch_conns") /\ call'[e].conns = call[e].conns
  PROVE  Apart(e, as)'
BY DEF Apart, Ends

(* So does one that refers to agents shown by a preset that is not locked. *)
LEMMA ShownApart ==
  ASSUME GraphInv, BatchInv, NEW c \in Callers, InBatch(c), NEW p \in PresetIds
  PROVE  /\ Shown(p) \cap call[c].ids = {}
         /\ p \notin presetLock => specAgents[p] \cap call[c].ids = {}
<1>1. Preset(c) \in presetLock /\ Private(c)
  BY DEF BatchInv, LocksHeld, InBatch, Holds, At
<1> QED BY <1>1 DEF Shown, Private

(* A step that adds nothing and after which the call has no batch at hand. *)
LEMMA QuietBatch ==
  ASSUME GraphInv, BatchInv, NEW e \in Callers, NEW pc, NEW p, NEW a, Moves(e, pc, p, a),
         LocksHeld', UNCHANGED <<ids, presetOf>>, connections' \subseteq connections,
         SpecChange(e), agents' \subseteq agents,
         agents \ agents' \subseteq {Agent(e)} \cup call[e].ids,
         a \in {Agent(e), NoAgent} \cup call[e].ids, call'[e].ids \subseteq call[e].ids,
         pc \notin {"add_conn_lookup", "batch_agents", "batch_conns", "batch_rollback"},
         pc = "add_conn" => At(e, "add_conn_lookup") /\ call'[e].conn = call[e].conn
  PROVE  BatchInv'
<1>1. KeepsIds /\ TableChange(e)
  BY DEF KeepsIds, TableChange, ids
<1>2. ~InBatch(e)' /\ call'[e].pc = pc /\ Agent(e)' = a
  BY DEF Moves, InBatch, At, Agent
<1>3. ASSUME NEW c \in Callers \ {e}, InBatch(c) PROVE Apart(e, call[c].ids)'
  <2>1. PICK as : as = call[c].ids
    OBVIOUS
  <2>2. NoAgent \notin as /\ Apart(e, as)
    BY <1>3, <2>1 DEF BatchInv, Private, GraphInv, GraphTypes, Call
  <2>3. Apart(e, as)'
    BY <1>2, <2>2, ApartStays DEF At
  <2>4. call'[c].ids = as
    BY <1>3, <2>1 DEF Moves
  <2> QED BY <2>3, <2>4 DEF Apart
<1> QED BY <1>1, <1>2, <1>3, BatchStep

(* A call begins, on agents its preset shows. *)
LEMMA BeginBatchInv ==
  ASSUME GraphInv, GraphInv', BatchInv, NEW c \in Callers, BeginCall(c)
  PROVE  BatchInv'
<1>0. PICK p \in PresetIds :
        \/ SaveSnapshot(c, p)
        \/ BeginIn(c, "remove_preset", p, "remove_lock", NoAgent, NoConn)
        \/ BeginIn(c, "add_agent", p, "add_agent_build", NoAgent, NoConn)
        \/ \E a \in Shown(p) : BeginIn(c, "remove_agent", p, "stop", a, NoConn)
        \/ \E cn \in Shown(p) \X Shown(p) : AddConnCheck(c, p, cn)
        \/ \E cn \in Range(specConns[p]) :
             BeginIn(c, "remove_connection", p, "remove_conn", NoAgent, cn)
        \/ \E as \in SUBSET Shown(p), conns \in BoundedSeq(Shown(p) \X Shown(p), MaxConns) :
             BeginBatch(c, p, as, conns)
  BY DEF BeginCall
<1>1. /\ call \in [Callers -> Call] /\ call' \in [Callers -> Call] /\ LocksHeld
  BY DEF GraphInv, GraphTypes, BatchInv
<1>2. ASSUME NEW new, call' = [call EXCEPT ![c] = new],
             UNCHANGED <<ids, presets, presetLock, spec, runtime, file>>,
             new.pc \notin {"add_conn", "batch_conns", "batch_rollback", "remove_next",
                            "drop_conns", "drop_agent"},
             new.pc = "stop" => new.op = "remove_agent",
             new.pc = "batch_agents" => new.done = 0,
             NEW shown, \A d \in Callers : InBatch(d) => shown \cap call[d].ids = {},
             new.agent \in shown \cup {NoAgent}, new.ids \subseteq shown,
             new.pc = "add_conn_lookup" => new.conn \in shown \X shown,
             new.pc = "batch_agents" => Range(new.conns) \subseteq shown \X shown
      PROVE  BatchInv'
  <2>1. Moves(c, new.pc, new.preset, new.agent) /\ call'[c] = new
    BY <1>1, <1>2 DEF Moves
  <2>2. ~Holds(c)' /\ ~InBatch(c)'
    BY <1>2, <2>1 DEF Holds, InBatch, At
  <2>3. LocksHeld'
    BY <1>1, <1>2, <2>1, <2>2, LocksStep
  <2>4. KeepsIds /\ SpecChange(c) /\ TableChange(c)
    BY <1>2 DEF KeepsIds, SpecChange, TableChange, ids, runtime
  <2>5. ASSUME NEW d \in Callers \ {c}, InBatch(d) PROVE Apart(c, call[d].ids)'
    <3>1. PICK as : as = call[d].ids
      OBVIOUS
    <3>2. shown \cap as = {} /\ NoAgent \notin as
      BY <1>1, <1>2, <2>5, <3>1 DEF Call
    <3>3. Agent(c)' \notin as /\ call'[c].ids \cap as = {}
      BY <1>2, <2>1, <3>2 DEF Agent
    <3>4. \A cn \in shown \X shown : Ends(cn) \cap as = {}
      BY <3>2 DEF Ends
    <3>5. Apart(c, as)'
      BY <1>2, <2>1, <3>3, <3>4 DEF Apart, At
    <3>6. call'[d].ids = as
      BY <2>1, <2>5, <3>1 DEF Moves
    <3> QED BY <3>5, <3>6 DEF Apart
  <2> QED BY <1>2, <2>1, <2>2, <2>3, <2>4, <2>5, BatchStep DEF runtime
<1>3. CASE SaveSnapshot(c, p)
  <2> DEFINE new == [IdleCall EXCEPT !.op = "save_preset", !.pc = "save_write",
                       !.preset = p, !.ids = specAgents[p], !.conns = specConns[p]]
  <2>1. new.pc = "save_write" /\ new.agent = NoAgent /\ new.ids = specAgents[p]
    BY DEF IdleCall
  <2>2. /\ call' = [call EXCEPT ![c] = new] /\ p \notin presetLock
        /\ UNCHANGED <<ids, presets, presetLock, spec, runtime, file>>
    BY <1>3 DEF SaveSnapshot
  <2> HIDE DEF new
  <2>3. PICK shown : /\ shown = specAgents[p]
                     /\ \A d \in Callers : InBatch(d) => shown \cap call[d].ids = {}
    BY <2>2, ShownApart
  <2> QED BY <1>2, <2>1, <2>2, <2>3
<1>4. ASSUME NEW op, NEW pc \in {"remove_lock", "add_agent_build", "stop", "remove_conn"},
             pc = "stop" => op = "remove_agent",
             NEW a \in Shown(p) \cup {NoAgent}, NEW cn, BeginIn(c, op, p, pc, a, cn)
      PROVE  BatchInv'
  <2> DEFINE new == [IdleCall EXCEPT !.op = op, !.pc = pc, !.preset = p,
                                     !.agent = a, !.conn = cn]
  <2>1. new.pc = pc /\ new.op = op /\ new.agent = a /\ new.ids = {}
    BY DEF IdleCall
  <2>2. /\ call' = [call EXCEPT ![c] = new]
        /\ UNCHANGED <<ids, presets, presetLock, spec, runtime, file>>
    BY <1>4 DEF BeginIn
  <2> HIDE DEF new
  <2>3. PICK shown : /\ shown = Shown(p)
                     /\ \A d \in Callers : InBatch(d) => shown \cap call[d].ids = {}
    BY ShownApart
  <2>4. /\ new.pc \notin {"add_conn", "batch_conns", "batch_rollback", "remove_next",
                          "drop_conns", "drop_agent", "batch_agents", "add_conn_lookup"}
        /\ new.pc = "stop" => new.op = "remove_agent"
        /\ new.agent \in shown \cup {NoAgent} /\ new.ids \subseteq shown
    BY <1>4, <2>1, <2>3
  <2> QED BY <1>2, <2>2, <2>3, <2>4
<1>5. ASSUME NEW cn \in Shown(p) \X Shown(p), AddConnCheck(c, p, cn)
      PROVE  BatchInv'
  <2> DEFINE new == [IdleCall EXCEPT !.op = "add_connection",
                            !.pc = "add_conn_lookup", !.preset = p, !.conn = cn]
  <2>1. new.pc = "add_conn_lookup" /\ new.agent = NoAgent /\ new.ids = {} /\ new.conn = cn
    BY DEF IdleCall
  <2>2. /\ call' = [call EXCEPT ![c] = new]
        /\ UNCHANGED <<ids, presets, presetLock, spec, runtime, file>>
    BY <1>5 DEF AddConnCheck
  <2> HIDE DEF new
  <2>3. PICK shown : /\ shown = Shown(p)
                     /\ \A d \in Callers : InBatch(d) => shown \cap call[d].ids = {}
    BY ShownApart
  <2>4. /\ new.agent \in shown \cup {NoAgent} /\ new.ids \subseteq shown
        /\ new.conn \in shown \X shown
    BY <1>5, <2>1, <2>3
  <2> QED BY <1>2, <2>1, <2>2, <2>3, <2>4
<1>6. ASSUME NEW as \in SUBSET Shown(p),
             NEW conns \in BoundedSeq(Shown(p) \X Shown(p), MaxConns),
             BeginBatch(c, p, as, conns)
      PROVE  BatchInv'
  <2> DEFINE new == [IdleCall EXCEPT !.op = "add_batch", !.preset = p,
                            !.pc = "batch_agents", !.ids = as, !.conns = conns]
  <2>1. /\ new.pc = "batch_agents" /\ new.agent = NoAgent /\ new.ids = as
        /\ new.conns = conns /\ new.done = 0
    BY DEF IdleCall
  <2>2. /\ call' = [call EXCEPT ![c] = new]
        /\ UNCHANGED <<ids, presets, presetLock, spec, runtime, file>>
    BY <1>6 DEF BeginBatch
  <2>3. Range(conns) \subseteq Shown(p) \X Shown(p)
    <3>1. PICK m \in 0 .. MaxConns : conns \in [1 .. m -> Shown(p) \X Shown(p)]
      BY DEF BoundedSeq, SeqOf
    <3> QED BY <3>1 DEF Range
  <2> HIDE DEF new
  <2>4. PICK shown : /\ shown = Shown(p)
                     /\ \A d \in Callers : InBatch(d) => shown \cap call[d].ids = {}
    BY ShownApart
  <2>5. /\ new.agent \in shown \cup {NoAgent} /\ new.ids \subseteq shown
        /\ Range(new.conns) \subseteq shown \X shown
    BY <1>6, <2>1, <2>3, <2>4
  <2> QED BY <1>2, <2>1, <2>2, <2>4, <2>5
<1> QED BY <1>0, <1>3, <1>4, <1>5, <1>6

(* Going on keeps the rest of the call. *)
LEMMA GotoKeeps ==
  ASSUME GraphTypes, NEW c \in Callers, NEW pc \in CallPc, Goto(c, pc)
  PROVE  /\ Moves(c, pc, Preset(c), Agent(c)) /\ call'[c].op = call[c].op
         /\ call'[c].ids = call[c].ids /\ call'[c].conn = call[c].conn
<1>1. Moves(c, pc, Preset(c), Agent(c)) /\ call'[c].ids = call[c].ids
  BY GotoMoves
<1>2. call'[c].op = call[c].op /\ call'[c].conn = call[c].conn
  BY DEF Goto, GraphTypes, Call
<1> QED BY <1>1, <1>2

(* The steps of calls that have no batch at hand. *)
LEMMA CallBatch ==
  ASSUME GraphInv, GraphInv', BatchInv, NEW c \in Callers, CallStep(c),
         ~AddAgentBuild(c), ~AddConn(c), ~BatchConns(c), ~RollbackConn(c), ~RemoveLock(c)
  PROVE  BatchInv'
<1>0. /\ GraphTypes /\ call \in [Callers -> Call] /\ call' \in [Callers -> Call] /\ LocksHeld
      /\ At(c, "idle") \/ Preset(c) \in PresetIds
      /\ specAgents \in [PresetIds -> SUBSET AgentIds]
      /\ specConns \in [PresetIds -> Seq(Conn)]
  BY DEF GraphInv, GraphTypes, IdsInUse, BatchInv
<1>ret. ASSUME Return(c)
        PROVE  /\ Moves(c, "idle", NoPreset, NoAgent) /\ call'[c].ids = {} /\ ~Holds(c)'
  <2>1. Moves(c, "idle", NoPreset, NoAgent) /\ call'[c].ids = {}
    BY <1>0, <1>ret, ReturnMoves
  <2>2. call'[c].pc = "idle"
    BY <2>1 DEF Moves
  <2> QED BY <2>1, <2>2 DEF Holds
<1>free. ASSUME Return(c), \A q \in presetLock \ presetLock' : Holds(c) /\ q = Preset(c)
         PROVE  LocksHeld'
  BY <1>0, <1>ret, <1>free, LocksStep
<1>go. ASSUME NEW pc \in {"remove_next", "remove_spec", "drop_conns", "drop_agent",
                          "remove_map", "add_conn"},
              Goto(c, pc)
       PROVE  /\ Moves(c, pc, Preset(c), Agent(c)) /\ call'[c].op = call[c].op
              /\ call'[c].ids = call[c].ids /\ call'[c].conn = call[c].conn
  BY <1>0, <1>go, GotoKeeps DEF CallPc
<1>held. ASSUME NEW pc, NEW a, Moves(c, pc, Preset(c), a), UNCHANGED presetLock,
                Holds(c)' => Holds(c)
         PROVE  LocksHeld'
  BY <1>0, <1>held, LocksStep DEF LocksHeld
<1>1. CASE AddPresetInsert(c) \/ SaveWrite(c) \/ RemoveMap(c) \/ BatchDone(c)
  <2>1. Return(c) /\ UNCHANGED <<ids, spec, runtime>>
    BY <1>1 DEF AddPresetInsert, SaveWrite, RemoveMap, BatchDone
  <2>2. LocksHeld'
    BY <1>1, <1>free, <2>1
       DEF AddPresetInsert, SaveWrite, RemoveMap, BatchDone, Holds, At
  <2> QED BY <1>ret, <2>1, <2>2, QuietBatch DEF SpecChange, spec, runtime
<1>2. CASE AddAgentSpec(c) \/ RemoveSpec(c)
  <2>1. /\ Return(c) /\ UNCHANGED <<ids, presetLock, specConns, runtime>>
        /\ Preset(c) \notin presetLock /\ Preset(c) \in PresetIds
    BY <1>0, <1>2 DEF AddAgentSpec, RemoveSpec, At
  <2>2. /\ \A q \in PresetIds \ {Preset(c)} : specAgents'[q] = specAgents[q]
        /\ specAgents'[Preset(c)] \subseteq specAgents[Preset(c)] \cup {Agent(c)}
    BY <1>0, <1>2, <2>1 DEF AddAgentSpec, RemoveSpec
  <2>3. SpecChange(c)
    BY <2>1, <2>2 DEF SpecChange
  <2> QED BY <1>ret, <1>free, <2>1, <2>3, QuietBatch DEF runtime
<1>3. CASE AddConnLookup(c)
  <2>1. At(c, "add_conn_lookup") /\ UNCHANGED <<ids, presetLock, spec, runtime>>
    BY <1>3 DEF AddConnLookup
  <2>2. CASE Return(c)
    BY <1>ret, <1>free, <2>1, <2>2, QuietBatch DEF SpecChange, spec, runtime
  <2>3. CASE Goto(c, "add_conn")
    <3>1. ~Holds(c)'
      BY <1>go, <2>3 DEF Moves, Holds
    <3>2. LocksHeld'
      BY <1>held, <1>go, <2>1, <2>3, <3>1
    <3> QED BY <1>go, <2>1, <2>3, <3>2, QuietBatch DEF SpecChange, spec, runtime
  <2> QED BY <1>3, <2>2, <2>3 DEF AddConnLookup
<1>4. CASE RemoveConn(c)
  <2>1. /\ Return(c) /\ UNCHANGED <<ids, presetLock, specAgents, agents, presetOf>>
        /\ Preset(c) \notin presetLock /\ Preset(c) \in PresetIds
        /\ connections' \subseteq connections
    BY <1>0, <1>4 DEF RemoveConn, At
  <2>2. \A q \in PresetIds \ {Preset(c)} : specConns'[q] = specConns[q]
    BY <1>0, <1>4, <2>1 DEF RemoveConn
  <2>3. SpecChange(c)
    BY <2>1, <2>2 DEF SpecChange
  <2> QED BY <1>ret, <1>free, <2>1, <2>3, QuietBatch
<1>5. CASE RollbackAgents(c)
  <2>1. /\ Return(c) /\ UNCHANGED <<ids, presetOf, connections, specConns>>
        /\ Holds(c) /\ Preset(c) \in PresetIds
        /\ presetLock' = presetLock \ {Preset(c)} /\ agents' = agents \ call[c].ids
    BY <1>0, <1>5 DEF RollbackAgents, At, Holds
  <2>2. /\ \A q \in PresetIds \ {Preset(c)} : specAgents'[q] = specAgents[q]
        /\ specAgents'[Preset(c)] \subseteq specAgents[Preset(c)]
    BY <1>0, <1>5, <2>1 DEF RollbackAgents
  <2>3. SpecChange(c)
    BY <2>1, <2>2 DEF SpecChange
  <2> QED BY <1>ret, <1>free, <2>1, <2>3, QuietBatch
<1>6. ASSUME NEW b \in AgentIds, RemoveNext(c, b) PROVE BatchInv'
  <2>1. At(c, "remove_next") /\ b \in call[c].ids /\ UNCHANGED <<ids, presetLock, spec, runtime>>
    BY <1>6 DEF RemoveNext
  <2>2. Moves(c, "stop", Preset(c), b) /\ call'[c].ids \subseteq call[c].ids
    BY <1>0, <1>6 DEF RemoveNext, Moves, Preset, Agent, Call
  <2>3. LocksHeld'
    BY <1>held, <2>1, <2>2 DEF Holds, At
  <2> QED BY <2>1, <2>2, <2>3, QuietBatch DEF SpecChange, spec, runtime
<1>7. CASE StopAgent(c) \/ StopAgentFails(c) \/ DropAgent(c)
  <2>1. /\ At(c, "stop") \/ At(c, "drop_agent") 
        /\ UNCHANGED <<ids, presetLock, spec, presetOf, connections>>
        /\ agents' \subseteq agents /\ agents \ agents' \subseteq {Agent(c)}
    BY <1>7 DEF StopAgent, StopAgentFails, DropAgent, runtime
  <2>2. CASE Return(c)
    BY <1>ret, <1>free, <2>1, <2>2, QuietBatch DEF SpecChange
  <2>3. ASSUME NEW pc \in {"remove_next", "remove_spec", "drop_conns"}, Goto(c, pc),
               pc = "remove_next" => call[c].op = "remove_preset"
        PROVE  BatchInv'
    <3>1. Holds(c)' => Holds(c)
      BY <1>go, <2>1, <2>3 DEF Moves, Holds, At
    <3>2. LocksHeld'
      BY <1>held, <1>go, <2>1, <2>3, <3>1
    <3> QED BY <1>go, <2>1, <2>3, <3>2, QuietBatch DEF SpecChange
  <2>4. \/ Return(c)
        \/ \E pc \in {"remove_next", "remove_spec", "drop_conns"} :
             Goto(c, pc) /\ (pc = "remove_next" => call[c].op = "remove_preset")
    BY <1>7 DEF StopAgent, StopAgentFails, DropAgent, AfterInternal
  <2> QED BY <2>2, <2>3, <2>4
<1>8. CASE DropConns(c)
  <2>1. /\ At(c, "drop_conns") /\ Goto(c, "drop_agent")
        /\ UNCHANGED <<ids, presetLock, spec, agents, presetOf>>
        /\ connections' \subseteq connections
    BY <1>8 DEF DropConns
  <2>2. Holds(c)' => Holds(c)
    BY <1>go, <2>1 DEF Moves, Holds, At
  <2>3. LocksHeld'
    BY <1>held, <1>go, <2>1, <2>2
  <2> QED BY <1>go, <2>1, <2>3, QuietBatch DEF SpecChange
<1>9. CASE RemoveUnlock(c)
  <2>1. /\ Holds(c) /\ Goto(c, "remove_map") /\ UNCHANGED <<ids, spec, agents, presetOf>>
        /\ connections' \subseteq connections /\ presetLock' = presetLock \ {Preset(c)}
    BY <1>9 DEF RemoveUnlock, Holds, At
  <2>2. ~Holds(c)'
    BY <1>go, <2>1 DEF Moves, Holds
  <2>3. LocksHeld'
    BY <1>0, <1>go, <2>1, <2>2, LocksStep
  <2> QED BY <1>go, <2>1, <2>3, QuietBatch DEF SpecChange
<1> QED BY <1>1, <1>2, <1>3, <1>4, <1>5, <1>6, <1>7, <1>8, <1>9 DEF CallStep

(* The steps that refer to more than before. *)
LEMMA GrowBatch ==
  ASSUME GraphInv, GraphInv', RouteInv, BatchInv, NEW c \in Callers,
         RemoveLock(c) \/ AddAgentBuild(c) \/ AddConn(c)
  PROVE  BatchInv'
<1>0. /\ GraphTypes /\ call \in [Callers -> Call] /\ call' \in [Callers -> Call] /\ LocksHeld
      /\ At(c, "idle") \/ Preset(c) \in PresetIds
      /\ specConns \in [PresetIds -> Seq(Conn)]
  BY DEF GraphInv, GraphTypes, IdsInUse, BatchInv
<1>1. CASE RemoveLock(c)
  <2>1. /\ At(c, "remove_lock") /\ Preset(c) \notin presetLock
        /\ presetLock' = presetLock \cup {Preset(c)}
        /\ UNCHANGED <<ids, spec, runtime>>
        /\ call' = [call EXCEPT ![c].pc = "remove_next", ![c].ids = specAgents[Preset(c)]]
    BY <1>1 DEF RemoveLock
  <2>2. /\ Moves(c, "remove_next", Preset(c), Agent(c))
        /\ call'[c].ids = specAgents[Preset(c)]
    BY <1>0, <2>1 DEF Moves, Preset, Agent, Call
  <2>3. LocksHeld'
    BY <1>0, <2>1, <2>2, LocksStep
  <2>4. KeepsIds /\ SpecChange(c) /\ TableChange(c)
    BY <2>1 DEF KeepsIds, SpecChange, TableChange, ids, runtime
  <2>5. ASSUME NEW d \in Callers \ {c}, InBatch(d) PROVE Apart(c, call[d].ids)'
    <3>1. PICK as : as = call[d].ids
      OBVIOUS
    <3>2. specAgents[Preset(c)] \cap as = {} /\ Apart(c, as)
      BY <1>0, <2>1, <2>5, <3>1, ShownApart DEF At, BatchInv, Private
    <3>3. Apart(c, as)'
      BY <2>2, <3>2 DEF Apart, Moves, At, Agent
    <3>4. call'[d].ids = as
      BY <2>2, <2>5, <3>1 DEF Moves
    <3> QED BY <3>3, <3>4 DEF Apart
  <2>6. ~InBatch(c)'
    BY <2>2 DEF Moves, InBatch, At
  <2> QED BY <2>1, <2>2, <2>3, <2>4, <2>5, <2>6, BatchStep DEF runtime
<1>2. CASE AddAgentBuild(c)
  <2>1. PICK b \in AgentIds \ usedAgents :
          /\ usedAgents' = usedAgents \cup {b}
          /\ \/ /\ agents' = agents \cup {b}
                /\ presetOf' = [presetOf EXCEPT ![b] = Preset(c)]
                /\ call' = [call EXCEPT ![c].pc = "add_agent_spec", ![c].agent = b]
             \/ Return(c) /\ UNCHANGED <<agents, presetOf>>
    BY <1>2 DEF AddAgentBuild
  <2>2. /\ At(c, "add_agent_build")
        /\ UNCHANGED <<strays, presetLock, spec, connections>>
        /\ presetOf \in [AgentIds -> PresetIds \cup {NoPreset}] /\ usedAgents \subseteq AgentIds
    BY <1>0, <1>2 DEF AddAgentBuild, GraphTypes
  <2>3. KeepsIds /\ SpecChange(c) /\ TableChange(c) /\ agents \subseteq agents'
    BY <2>1, <2>2 DEF KeepsIds, SpecChange, TableChange
  <2>4. PICK pc, a, p :
          /\ pc \in {"idle", "add_agent_spec"} /\ a \in {b, NoAgent}
          /\ Moves(c, pc, p, a) /\ call'[c].ids \subseteq call[c].ids
    <3>1. CASE Return(c)
      BY <1>0, <3>1, ReturnMoves
    <3>2. CASE call' = [call EXCEPT ![c].pc = "add_agent_spec", ![c].agent = b]
      <4>1. Moves(c, "add_agent_spec", Preset(c), b) /\ call'[c].ids = call[c].ids
        BY <1>0, <3>2 DEF Moves, Preset, Call
      <4> QED BY <4>1
    <3> QED BY <2>1, <3>1, <3>2
  <2>5. ~Holds(c)' /\ ~InBatch(c)' /\ call'[c].pc = pc /\ Agent(c)' = a
    BY <2>4 DEF Moves, Holds, InBatch, At, Agent
  <2>6. LocksHeld'
    BY <1>0, <2>2, <2>4, <2>5, LocksStep
  <2>7. ASSUME NEW d \in Callers \ {c}, InBatch(d) PROVE Apart(c, call[d].ids)'
    <3>1. PICK as : as = call[d].ids
      OBVIOUS
    <3>2. Apart(c, as) /\ as \subseteq usedAgents /\ NoAgent \notin as
      BY <1>0, <2>2, <2>7, <3>1 DEF BatchInv, Private, GraphInv, IdsInUse
    <3>3. Apart(c, as)'
      BY <2>1, <2>4, <2>5, <3>2 DEF Apart, At
    <3>4. call'[d].ids = as
      BY <2>4, <2>7, <3>1 DEF Moves
    <3> QED BY <3>3, <3>4 DEF Apart
  <2> QED BY <2>3, <2>4, <2>5, <2>6, <2>7, BatchStep
<1>3. CASE AddConn(c)
  <2>1. /\ At(c, "add_conn") /\ Preset(c) \notin presetLock /\ Return(c)
        /\ UNCHANGED <<ids, presetLock, specAgents, agents, presetOf>>
        /\ connections' \subseteq connections \cup {call[c].conn}
        /\ Preset(c) \in PresetIds
    BY <1>0, <1>3 DEF AddConn, At
  <2>2. Moves(c, "idle", NoPreset, NoAgent) /\ call'[c].ids = {}
    BY <1>0, <2>1, ReturnMoves
  <2>3. KeepsIds
    BY <2>1 DEF KeepsIds, ids
  <2>4. SpecChange(c)
    <3>1. \A q \in PresetIds \ {Preset(c)} : specConns'[q] = specConns[q]
      BY <1>0, <1>3, <2>1 DEF AddConn
    <3> QED BY <2>1, <3>1 DEF SpecChange
  <2>5. TableChange(c)
    <3>1. Ends(call[c].conn) \subseteq usedAgents
      BY <2>1 DEF RouteInv, CallOwns, OwnedBy
    <3> QED BY <2>1, <2>3, <3>1 DEF TableChange, KeepsIds
  <2>6. ~Holds(c)' /\ ~InBatch(c)' /\ call'[c].pc = "idle" /\ Agent(c)' = NoAgent
    BY <2>2 DEF Moves, Holds, InBatch, At, Agent
  <2>7. LocksHeld'
    BY <1>0, <2>1, <2>2, <2>6, LocksStep
  <2>8. ASSUME NEW d \in Callers \ {c}, InBatch(d) PROVE Apart(c, call[d].ids)'
    <3>1. NoAgent \notin call'[d].ids
      BY <1>0 DEF Call
    <3> QED BY <2>2, <2>6, <3>1 DEF Apart, At
  <2> QED BY <2>1, <2>2, <2>3, <2>4, <2>5, <2>6, <2>7, <2>8, BatchStep
<1> QED BY <1>1, <1>2, <1>3

-----------------------------------------------------------------------------
(* The next entry of the list is added. *)
LEMMA MatchedAppend ==
  ASSUME NEW s \in Seq(Conn), NEW l, NEW n \in Nat, NEW X, NEW new \in Conn,
         Matched(s, l, n, X), l[n + 1] = new
  PROVE  Matched(Append(s, new), l, n + 1, X)
<1>1. PICK g \in [DOMAIN s -> Nat] : \A i \in DOMAIN s : s[i] \in X =>
        /\ g[i] \in 1 .. n /\ l[g[i]] = s[i]
        /\ \A j \in DOMAIN s : s[j] \in X /\ g[j] = g[i] => j = i
  BY DEF Matched
<1>2. PICK m \in Nat : m = Len(s) /\ DOMAIN s = 1 .. m
  OBVIOUS
<1>3. PICK t : t = Append(s, new)
  OBVIOUS
<1>4. DOMAIN t = 1 .. (m + 1) /\ t[m + 1] = new /\ \A i \in 1 .. m : t[i] = s[i]
  BY <1>2, <1>3
<1> DEFINE h == [i \in 1 .. (m + 1) |-> IF i = m + 1 THEN n + 1 ELSE g[i]]
<1>5. h \in [DOMAIN t -> Nat]
  BY <1>2, <1>4
<1>6. h[m + 1] = n + 1 /\ \A i \in 1 .. m : h[i] = g[i]
  OBVIOUS
<1> HIDE DEF h
<1>7. ASSUME NEW i \in 1 .. (m + 1), t[i] \in X
      PROVE  /\ h[i] \in 1 .. (n + 1) /\ l[h[i]] = t[i]
             /\ \A j \in 1 .. (m + 1) : t[j] \in X /\ h[j] = h[i] => j = i
  <2>1. \A j \in 1 .. (m + 1) : j \in 1 .. m \/ j = m + 1
    OBVIOUS
  <2>2. \A j \in 1 .. m : t[j] \in X => h[j] \in 1 .. n /\ h[j] # n + 1 /\ l[h[j]] = t[j]
    BY <1>1, <1>2, <1>4, <1>6
  <2>3. CASE i = m + 1
    BY <1>4, <1>6, <2>1, <2>2, <2>3
  <2>4. CASE i \in 1 .. m
    <3>1. h[i] \in 1 .. n /\ l[h[i]] = t[i]
      BY <1>7, <2>2, <2>4
    <3>2. \A j \in 1 .. m : t[j] \in X /\ h[j] = h[i] => j = i
      BY <1>1, <1>2, <1>4, <1>6, <1>7, <2>4
    <3> QED BY <1>6, <2>1, <3>1, <3>2
  <2> QED BY <2>1, <2>3, <2>4
<1>8. \A i \in DOMAIN t : t[i] \in X =>
        /\ h[i] \in 1 .. (n + 1) /\ l[h[i]] = t[i]
        /\ \A j \in DOMAIN t : t[j] \in X /\ h[j] = h[i] => j = i
  BY <1>4, <1>7
<1>9. Matched(t, l, n + 1, X)
  BY ONLY <1>5, <1>8 DEF Matched
<1> QED BY <1>3, <1>9

(* The head of the list is taken back, at the first place that has it: if  *)
(* another place was matched with the head, it gets the match of that one. *)
LEMMA MatchedRemove ==
  ASSUME NEW s \in Seq(Conn), NEW l \in Seq(Conn), l # << >>, NEW X,
         NEW i0 \in DOMAIN s, s[i0] = Head(l), Matched(s, l, Len(l), X)
  PROVE  Matched(RemoveAt(s, i0), Tail(l), Len(Tail(l)), X)
<1>1. PICK m \in Nat, n \in Nat : /\ m = Len(s) /\ DOMAIN s = 1 .. m /\ i0 \in 1 .. m
                                  /\ n = Len(l) /\ n >= 1 /\ l[1] = Head(l)
                                  /\ Len(Tail(l)) = n - 1
  OBVIOUS
<1>2. PICK g \in [1 .. m -> Nat] : \A i \in 1 .. m : s[i] \in X =>
        /\ g[i] \in 1 .. n /\ l[g[i]] = s[i]
        /\ \A j \in 1 .. m : s[j] \in X /\ g[j] = g[i] => j = i
  <2>1. PICK g \in [DOMAIN s -> Nat] : \A i \in DOMAIN s : s[i] \in X =>
          /\ g[i] \in 1 .. Len(l) /\ l[g[i]] = s[i]
          /\ \A j \in DOMAIN s : s[j] \in X /\ g[j] = g[i] => j = i
    BY DEF Matched
  <2>2. g \in [1 .. m -> Nat] /\ \A i \in 1 .. m : s[i] \in X =>
          /\ g[i] \in 1 .. n /\ l[g[i]] = s[i]
          /\ \A j \in 1 .. m : s[j] \in X /\ g[j] = g[i] => j = i
    BY <1>1, <2>1
  <2> QED BY <2>2
<1>3. \A k \in 1 .. (n - 1) : Tail(l)[k] = l[k + 1]
  BY <1>1
<1>4. PICK t : t = RemoveAt(s, i0)
  OBVIOUS
<1>5. DOMAIN t = 1 .. (m - 1)
  <2>1. t \in Seq(Conn) /\ Len(t) = m - 1
    BY <1>1, <1>4, RemoveAtType, RemoveAtParts
  <2> QED BY <2>1
<1> DEFINE o == [k \in 1 .. (m - 1) |-> IF k < i0 THEN k ELSE k + 1]
<1>6. \A k \in 1 .. (m - 1) : /\ o[k] \in 1 .. m /\ o[k] # i0 /\ t[k] = s[o[k]]
                              /\ \A j \in 1 .. (m - 1) : o[j] = o[k] => j = k
  <2>1. \A k \in 1 .. (m - 1) : t[k] = IF k < i0 THEN s[k] ELSE s[k + 1]
    BY <1>1, <1>4, RemoveAtParts
  <2> QED BY <1>1, <2>1
<1> HIDE DEF o
<1> DEFINE q == [k \in 1 .. (m - 1) |-> IF g[o[k]] = 1 THEN g[i0] ELSE g[o[k]]]
<1>7. ASSUME NEW k \in 1 .. (m - 1), t[k] \in X
      PROVE  q[k] \in 2 .. n /\ l[q[k]] = t[k]
  <2>1. g[o[k]] \in 1 .. n /\ l[g[o[k]]] = t[k]
    BY <1>2, <1>6, <1>7
  <2>2. CASE g[o[k]] = 1
    <3>1. s[i0] = t[k]
      BY <1>1, <2>1, <2>2
    <3>2. g[i0] \in 1 .. n /\ l[g[i0]] = t[k] /\ g[i0] # 1
      BY <1>1, <1>2, <1>6, <1>7, <2>2, <3>1
    <3> QED BY <1>1, <2>2, <3>2
  <2>3. CASE g[o[k]] # 1
    BY <1>1, <2>1, <2>3
  <2> QED BY <2>2, <2>3
<1>8. ASSUME NEW k \in 1 .. (m - 1), NEW j \in 1 .. (m - 1), t[k] \in X, t[j] \in X,
             q[k] = q[j]
      PROVE  k = j
  <2>0. /\ s[o[k]] \in X /\ s[o[j]] \in X /\ o[k] \in 1 .. m /\ o[j] \in 1 .. m
        /\ o[k] # i0 /\ o[j] # i0 /\ (o[k] = o[j] => k = j)
    BY <1>6, <1>8
  <2>1. g[o[k]] = 1 \/ g[o[j]] = 1 => s[i0] \in X
    BY <1>1, <1>2, <2>0
  <2>2. g[o[k]] = g[o[j]] => k = j
    BY <1>2, <2>0
  <2>3. s[i0] \in X => g[o[k]] # g[i0] /\ g[o[j]] # g[i0]
    BY <1>1, <1>2, <2>0
  <2> QED BY <1>8, <2>1, <2>2, <2>3
<1> DEFINE h == [k \in 1 .. (m - 1) |-> IF q[k] \in 2 .. n THEN q[k] - 1 ELSE 0]
<1>9. h \in [1 .. (m - 1) -> Nat]
  <2>1. \A k \in 1 .. (m - 1) : (IF q[k] \in 2 .. n THEN q[k] - 1 ELSE 0) \in Nat
    <3> HIDE DEF q
    <3> QED BY <1>1
  <2> QED BY <2>1
<1>10. ASSUME NEW k \in 1 .. (m - 1), t[k] \in X
       PROVE  /\ h[k] \in 1 .. (n - 1) /\ h[k] + 1 = q[k] /\ Tail(l)[h[k]] = t[k]
  <2>1. q[k] \in 2 .. n /\ l[q[k]] = t[k]
    BY <1>7, <1>10
  <2> HIDE DEF q
  <2>2. h[k] = q[k] - 1
    BY <2>1
  <2> HIDE DEF h
  <2>3. h[k] \in 1 .. (n - 1) /\ h[k] + 1 = q[k]
    BY <1>1, <2>1, <2>2
  <2> QED BY <1>3, <2>1, <2>3
<1>11. ASSUME NEW k \in 1 .. (m - 1), t[k] \in X
       PROVE  \A j \in 1 .. (m - 1) : t[j] \in X /\ h[j] = h[k] => j = k
  <2> HIDE DEF h
  <2>1. \A j \in 1 .. (m - 1) : t[j] \in X /\ h[j] = h[k] => q[j] = q[k]
    <3> HIDE DEF q
    <3> QED BY <1>10, <1>11
  <2> QED BY <1>8, <1>11, <2>1
<1> HIDE DEF h, q
<1>12. h \in [DOMAIN t -> Nat] /\ \A k \in DOMAIN t : t[k] \in X =>
         /\ h[k] \in 1 .. (n - 1) /\ Tail(l)[h[k]] = t[k]
         /\ \A j \in DOMAIN t : t[j] \in X /\ h[j] = h[k] => j = k
  BY <1>5, <1>9, <1>10, <1>11
<1>13. Matched(t, Tail(l), n - 1, X)
  BY ONLY <1>12 DEF Matched
<1> QED BY <1>1, <1>4, <1>13

(* A preset is added: only its own spec, new agents and strays. *)
LEMMA AddPresetBatch ==
  ASSUME GraphInv, GraphInv', BatchInv, NEW c \in Callers, NEW p \in PresetIds,
         NEW s \in {EmptySpec, file}, NEW f \in NewIds(s.agents),
         NEW built \in SUBSET Range(f), AddPreset(c, p, s, f, built)
  PROVE  BatchInv'
<1>0. /\ GraphTypes /\ call \in [Callers -> Call] /\ call' \in [Callers -> Call] /\ LocksHeld
      /\ usedAgents \subseteq AgentIds /\ agents \subseteq usedAgents
      /\ presetLock \subseteq usedPresets
  BY DEF GraphInv, GraphTypes, BatchInv
<1>1. /\ At(c, "idle") /\ p \notin usedPresets /\ UNCHANGED presetLock
      /\ usedAgents' = usedAgents \cup Range(f) /\ agents' = agents \cup built
      /\ presetOf' = [b \in AgentIds |-> IF b \in built THEN p ELSE presetOf[b]]
      /\ specAgents' = [specAgents EXCEPT ![p] = Range(f)]
      /\ specConns' = [specConns EXCEPT ![p] = RenamedConns(f, s.conns)]
      /\ connections' = connections \cup Range(RenamedConns(f, s.conns))
      /\ strays' = strays \cup Strays(f, s.conns)
  BY DEF AddPreset, Begin, At
<1>2. s.agents \in SUBSET AgentIds /\ s.conns \in Seq(Conn)
  <2>1. CASE s = EmptySpec
    BY <2>1 DEF EmptySpec
  <2>2. CASE s = file
    BY <1>0, <2>2 DEF GraphTypes
  <2> QED BY <2>1, <2>2
<1>3. f \in [s.agents -> AgentIds] /\ Range(f) \in SUBSET (AgentIds \ usedAgents)
  BY <1>2 DEF NewIds, Injection, Range
<1>4. KeepsIds
  BY <1>0, <1>1, <1>3, NewAgentsKeepIds
<1>5. /\ Moves(c, "add_preset_insert", p, NoAgent) /\ call'[c].ids = {}
  <2> DEFINE new == [IdleCall EXCEPT !.pc = "add_preset_insert", !.preset = p]
  <2>1. new.pc = "add_preset_insert" /\ new.preset = p /\ new.agent = NoAgent /\ new.ids = {}
    BY DEF IdleCall
  <2>2. call' = [call EXCEPT ![c] = new]
    BY DEF AddPreset
  <2> HIDE DEF new
  <2> QED BY <1>0, <2>1, <2>2 DEF Moves
<1>6. SpecChange(c)
  <2>1. /\ specAgents'[p] = Range(f)
        /\ \A q \in PresetIds \ {p} : specConns'[q] = specConns[q]
                                      /\ specAgents'[q] = specAgents[q]
    BY <1>0, <1>1 DEF GraphTypes
  <2>2. Range(f) \subseteq usedAgents' \ usedAgents
    BY <1>1, <1>3
  <2> QED BY <1>0, <1>1, <2>1, <2>2 DEF SpecChange
<1>7. TableChange(c)
  <2>1. ASSUME NEW cn \in connections' \ connections, cn \notin strays'
        PROVE  Ends(cn) \subseteq usedAgents' /\ Ends(cn) \cap usedAgents = {}
    <3>1. Ends(cn) \subseteq Range(f)
      BY <1>1, <1>2, <1>3, <2>1, LoadedEnds
    <3> QED BY <1>1, <1>3, <3>1
  <2> QED BY <2>1 DEF TableChange
<1>8. /\ ~Holds(c)' /\ ~InBatch(c)' /\ Agent(c)' = NoAgent
      /\ call'[c].pc = "add_preset_insert"
  BY <1>5 DEF Moves, Holds, InBatch, At, Agent
<1>9. LocksHeld'
  BY <1>0, <1>1, <1>5, <1>8, LocksStep
<1>10. ASSUME NEW d \in Callers \ {c}, InBatch(d) PROVE Apart(c, call[d].ids)'
  <2>1. NoAgent \notin call'[d].ids
    BY <1>0 DEF Call
  <2> QED BY <1>5, <1>8, <2>1 DEF Apart, At
<1>11. agents \ agents' = {}
  BY <1>1
<1> QED BY <1>4, <1>5, <1>6, <1>7, <1>8, <1>9, <1>10, <1>11, BatchStep

(* A list without entries of X is matched. *)
LEMMA MatchedNone ==
  ASSUME NEW s \in Seq(Conn), NEW l, NEW n, NEW X, Range(s) \cap X = {}
  PROVE  Matched(s, l, n, X)
<1>1. [i \in DOMAIN s |-> 0] \in [DOMAIN s -> Nat]
  OBVIOUS
<1>2. \A i \in DOMAIN s : s[i] \notin X
  BY DEF Range
<1> QED BY <1>1, <1>2 DEF Matched

(* A batch adds its agents: nothing refers to them yet. *)
LEMMA BatchAgentsBatch ==
  ASSUME GraphInv, GraphInv', RouteInv, BatchInv, NEW c \in Callers,
         NEW f \in NewIds(call[c].ids), NEW built \in SUBSET Range(f),
         BatchAgents(c, f, built)
  PROVE  BatchInv'
<1>0. /\ GraphTypes /\ call \in [Callers -> Call] /\ call' \in [Callers -> Call] /\ LocksHeld
      /\ call[c].conns \in Seq(Conn) /\ call[c].ids \in SUBSET AgentIds
      /\ usedAgents \subseteq AgentIds /\ NoAgent \notin AgentIds
  BY CallFields, GraphAssumption DEF GraphInv, GraphTypes, BatchInv
<1>1. /\ At(c, "batch_agents") /\ Preset(c) \notin presetLock
      /\ UNCHANGED <<strays, specConns, connections>>
      /\ presetLock' = presetLock \cup {Preset(c)}
      /\ usedAgents' = usedAgents \cup Range(f) /\ agents' = agents \cup built
      /\ presetOf' = [b \in AgentIds |-> IF b \in built THEN Preset(c) ELSE presetOf[b]]
      /\ specAgents' = [specAgents EXCEPT ![Preset(c)] = @ \cup built]
  BY DEF BatchAgents
<1>2. PICK r \in PresetIds : r = Preset(c)
  BY <1>1 DEF GraphInv, GraphTypes, IdsInUse, At
<1>3. f \in [call[c].ids -> AgentIds] /\ Range(f) \in SUBSET (AgentIds \ usedAgents)
  BY <1>0 DEF NewIds, Injection, Range
<1>4. KeepsIds
  BY <1>0, <1>1, <1>3, NewAgentsKeepIds
<1>5. /\ specAgents'[r] = specAgents[r] \cup built
      /\ \A q \in PresetIds \ {r} : specAgents'[q] = specAgents[q]
      /\ \A q \in PresetIds : specAgents[q] \subseteq usedAgents
  BY <1>0, <1>1, <1>2 DEF GraphTypes, GraphInv, IdsInUse
<1>6. SpecChange(c) /\ TableChange(c)
  <2>1. built \subseteq usedAgents' \ usedAgents
    BY <1>1, <1>3
  <2> QED BY <1>1, <1>2, <1>5, <2>1 DEF SpecChange, TableChange
<1>7. built \in SUBSET AgentIds /\ built \cap usedAgents = {} /\ NoAgent \notin built
  BY <1>0, <1>3
<1>8. PICK pc, conns :
        /\ pc \in {"batch_conns", "batch_rollback"} /\ conns \in Seq(Conn)
        /\ call' = [call EXCEPT ![c].pc = pc, ![c].ids = built, ![c].conns = conns]
        /\ pc = "batch_conns" => conns = RenamedConns(f, call[c].conns)
        /\ pc = "batch_rollback" => conns = << >>
  <2>1. CASE built = Range(f)
    <3>1. call' = [call EXCEPT ![c].pc = "batch_conns", ![c].ids = built,
                               ![c].conns = RenamedConns(f, call[c].conns)]
      BY <2>1 DEF BatchAgents
    <3>2. RenamedConns(f, call[c].conns) \in Seq(Conn)
      BY <1>0, <1>3, RenamedConnsType
    <3> WITNESS "batch_conns", RenamedConns(f, call[c].conns)
    <3> QED BY <3>1, <3>2
  <2>2. CASE built # Range(f)
    <3>1. call' = [call EXCEPT ![c].pc = "batch_rollback", ![c].ids = built,
                               ![c].conns = << >>]
      BY <2>2 DEF BatchAgents
    <3>2. << >> \in Seq(Conn)
      OBVIOUS
    <3> QED BY <3>1, <3>2
  <2> QED BY <2>1, <2>2
<1>9. /\ Moves(c, pc, Preset(c), Agent(c)) /\ call'[c].ids = built /\ call'[c].conns = conns
      /\ call'[c].done = call[c].done
  <2> DEFINE new == [call[c] EXCEPT !.pc = pc, !.ids = built, !.conns = conns]
  <2>1. call[c] \in Call
    BY <1>0
  <2>2. /\ new.pc = pc /\ new.preset = Preset(c) /\ new.agent = Agent(c)
        /\ new.ids = built /\ new.conns = conns /\ new.done = call[c].done
    BY <2>1 DEF Call, Preset, Agent
  <2>3. call' = [call EXCEPT ![c] = new]
    BY <1>0, <1>8, <2>1 DEF Call
  <2> HIDE DEF new
  <2> QED BY <1>0, <2>2, <2>3 DEF Moves
<1>10. LocksHeld'
  BY <1>0, <1>1, <1>9, LocksStep
<1>11. /\ call'[c].pc = pc /\ Agent(c)' = Agent(c) /\ Preset(c)' = r
       /\ \A d \in Callers \ {c} : call'[d] = call[d]
  BY <1>2, <1>9 DEF Moves, Agent, Preset
<1>12. ASSUME NEW d \in Callers \ {c}, InBatch(d) PROVE Apart(c, call[d].ids)'
  <2>1. PICK as : as = call[d].ids
    OBVIOUS
  <2>2. as \subseteq usedAgents /\ Apart(c, as)
    BY <1>12, <2>1 DEF BatchInv, Private, GraphInv, IdsInUse
  <2>3. Agent(c)' \notin as /\ call'[c].ids \cap as = {}
    BY <1>7, <1>9, <1>11, <2>2 DEF Apart
  <2>4. ASSUME pc = "batch_conns", NEW cn \in Range(conns) PROVE Ends(cn) \cap as = {}
    <3>1. FromEntry(call[c].ids, f, call[c].conns, cn)
      BY <1>0, <1>3, <1>8, <2>4, RenamedEnds
    <3>2. \A b \in Ends(cn) : b \in Range(f) \/ b \notin as
      BY <1>1, <2>2, <3>1 DEF FromEntry, Apart
    <3> QED BY <1>3, <2>2, <3>2
  <2>5. Apart(c, as)'
    BY <1>8, <1>9, <1>11, <2>3, <2>4 DEF Apart, At
  <2> QED BY <1>11, <2>1, <2>5 DEF Apart
<1>13. Private(c)'
  <2>1. ASSUME NEW d \in Callers \ {c} PROVE Apart(d, built)'
    <3>1. Agent(d) \in usedAgents \cup {NoAgent} /\ call[d].ids \subseteq usedAgents
      BY DEF GraphInv, IdsInUse
    <3>2. /\ At(d, "add_conn_lookup") \/ At(d, "add_conn") => Ends(call[d].conn) \subseteq usedAgents
          /\ At(d, "batch_agents") \/ At(d, "batch_conns") =>
               \A cn \in Range(call[d].conns) : Ends(cn) \subseteq usedAgents
      BY DEF RouteInv, CallOwns, OwnedBy
    <3>3. Apart(d, built)
      BY <1>7, <3>1, <3>2 DEF Apart
    <3> QED BY <1>11, <3>3 DEF Apart, At, Agent
  <2>2. \A q \in PresetIds \ {r} : specAgents'[q] \cap built = {}
    BY <1>5, <1>7
  <2> QED BY <1>9, <1>11, <2>1, <2>2 DEF Private, Apart
<1>14. Tracked(c)'
  <2>1. \A cn \in Conn : Ends(cn) \subseteq usedAgents => cn \notin Own(c)'
    BY <1>7, <1>9 DEF Own, Touching, Ends
  <2>2. \A cn \in strays : cn \notin Own(c)'
    BY <1>1 DEF Own
  <2>3. specConns'[r] \in Seq(Conn) /\ Range(specConns'[r]) \cap Own(c)' = {}
    <3>1. specConns[r] \in Seq(Conn)
      BY <1>0 DEF GraphTypes
    <3>2. \A cn \in Range(specConns[r]) : cn \in Conn
      BY <3>1 DEF Range
    <3>3. \A cn \in Range(specConns[r]) : cn \in strays \/ Ends(cn) \subseteq usedAgents
      BY DEF RouteInv, SpecOwns, OwnedBy
    <3> QED BY <1>1, <2>1, <2>2, <3>1, <3>2, <3>3
  <2>4. connections' \cap Own(c)' = {}
    <3>1. \A cn \in connections : cn \in Conn /\ (cn \in strays \/ Ends(cn) \subseteq usedAgents)
      BY <1>0 DEF GraphTypes, BatchInv, TableOwns
    <3> QED BY <1>1, <2>1, <2>2, <3>1
  <2>5. Matched(specConns'[r], conns, Count(c)', Own(c)')
    BY <2>3, MatchedNone
  <2>6. pc = "batch_conns" => built \subseteq specAgents'[r] \cap agents'
    BY <1>1, <1>5
  <2>7. call'[c].done = 0
    BY <1>1, <1>9 DEF BatchInv
  <2>8. /\ At(c, "batch_conns")' => pc = "batch_conns"
    BY <1>11 DEF At
  <2>9. \A k \in 1 .. call'[c].done : call'[c].conns[k] \in Range(specConns'[r])
    BY <2>7
  <2> QED BY <1>9, <1>11, <2>4, <2>5, <2>6, <2>8, <2>9 DEF Tracked
<1>15. agents \ agents' = {} /\ pc # "batch_agents"
  BY <1>1, <1>8
<1> QED BY <1>4, <1>6, <1>9, <1>10, <1>12, <1>13, <1>14, <1>15, BatchStep

(* A batch works on its connections under the lock: it keeps the invariant *)
(* if its list still says what is there.                                   *)
LEMMA InsideBatch ==
  ASSUME GraphInv, BatchInv, NEW c \in Callers, InBatch(c),
         NEW pc \in {"batch_conns", "batch_rollback"}, Moves(c, pc, Preset(c), Agent(c)),
         call'[c].ids = call[c].ids,
         pc = "batch_conns" => At(c, "batch_conns") /\ call'[c].conns = call[c].conns,
         UNCHANGED <<ids, presetLock, specAgents, agents, presetOf>>,
         \A q \in PresetIds \ {Preset(c)} : specConns'[q] = specConns[q],
         TableChange(c), Tracked(c)'
  PROVE  BatchInv'
<1>1. /\ Preset(c) \in PresetIds /\ Holds(c) /\ LocksHeld /\ Private(c)
      /\ call \in [Callers -> Call]
  BY DEF GraphInv, GraphTypes, IdsInUse, BatchInv, InBatch, Holds, At
<1>2. KeepsIds /\ SpecChange(c)
  BY <1>1 DEF KeepsIds, SpecChange, ids
<1>3. LocksHeld'
  BY <1>1, LocksStep DEF LocksHeld
<1>4. /\ call'[c].pc = pc /\ Agent(c)' = Agent(c) /\ Preset(c)' = Preset(c)
      /\ \A d \in Callers \ {c} : call'[d] = call[d]
  BY DEF Moves, Agent, Preset
<1>5. ASSUME NEW d \in Callers \ {c}, InBatch(d) PROVE Apart(c, call[d].ids)'
  <2>1. PICK as : as = call[d].ids
    OBVIOUS
  <2>2. NoAgent \notin as /\ Apart(c, as)
    BY <1>1, <1>5, <2>1, GraphAssumption DEF BatchInv, Private, Call
  <2>3. Apart(c, as)'
    BY <1>4, <2>2, ApartStays DEF At
  <2> QED BY <1>4, <2>1, <2>3 DEF Apart
<1>6. Private(c)'
  <2>1. PICK as, P : as = call[c].ids /\ P = Preset(c)
    OBVIOUS
  <2>2. ASSUME NEW d \in Callers \ {c} PROVE Apart(d, as)'
    <3>1. Apart(d, as) /\ call'[d] = call[d]
      BY <1>1, <1>4, <2>1 DEF Private
    <3> QED BY <3>1 DEF Apart, At, Agent
  <2>3. \A q \in PresetIds \ {P} : specAgents'[q] \cap as = {}
    BY <1>1, <2>1 DEF Private
  <2>4. call'[c].ids = as /\ Preset(c)' = P
    BY <1>4, <2>1
  <2> QED BY <2>2, <2>3, <2>4 DEF Private, Apart
<1> QED BY <1>2, <1>3, <1>5, <1>6, BatchStep

(* The next connection is added, or the batch fails on it. *)
LEMMA BatchConnsBatch ==
  ASSUME GraphInv, RouteInv, BatchInv, NEW c \in Callers, BatchConns(c)
  PROVE  BatchInv'
<1>0. /\ At(c, "batch_conns") /\ InBatch(c) /\ call \in [Callers -> Call] /\ Tracked(c)
      /\ specConns \in [PresetIds -> Seq(Conn)] /\ Preset(c) \in PresetIds
      /\ UNCHANGED <<ids, presetLock, specAgents, agents, presetOf>>
  BY DEF BatchConns, GraphInv, GraphTypes, IdsInUse, InBatch, At, BatchInv
<1>1. PICK l \in Seq(Conn), n \in Nat, r \in PresetIds, s \in Seq(Conn) :
        /\ l = call[c].conns /\ n = call[c].done /\ r = Preset(c) /\ s = specConns[r]
        /\ n < Len(l)
  BY <1>0, CallFields DEF BatchConns, Call
<1>2. PICK new \in Conn : new = l[n + 1]
  BY <1>1
<1>3. Ends(new) \subseteq usedAgents /\ new \in Range(l)
  <2>1. n + 1 \in DOMAIN l
    BY <1>1
  <2>2. l[n + 1] \in Range(l)
    BY <2>1 DEF Range
  <2> QED BY <1>0, <1>1, <1>2, <2>2 DEF RouteInv, CallOwns, OwnedBy
<1>4. PICK X : X = Own(c)
  OBVIOUS
<1>5. /\ \A k \in 1 .. n : l[k] \in Range(s)
      /\ call[c].ids \subseteq specAgents[r] \cap agents
      /\ Matched(s, l, n, X) /\ \A cn \in connections \cap X : \E k \in 1 .. n : l[k] = cn
  BY <1>0, <1>1, <1>4 DEF Tracked, Count
<1>6. CASE /\ call' = [call EXCEPT ![c].pc = "batch_rollback",
                                   ![c].conns = SubSeq(@, 1, call[c].done)]
           /\ UNCHANGED <<connections, specConns>>
  <2>1. /\ Moves(c, "batch_rollback", Preset(c), Agent(c)) /\ call'[c].ids = call[c].ids
        /\ call'[c].conns = SubSeq(l, 1, n)
    BY <1>0, <1>1, <1>6 DEF Moves, Preset, Agent, Call
  <2>2. PICK t : t = SubSeq(l, 1, n) /\ Len(t) = n /\ \A k \in 1 .. n : t[k] = l[k]
    <3>1. Len(SubSeq(l, 1, n)) = n /\ \A k \in 1 .. n : SubSeq(l, 1, n)[k] = l[k]
      BY <1>1
    <3> QED BY <3>1
  <2>3. Own(c)' = X /\ Count(c)' = n /\ Preset(c)' = r /\ ~At(c, "batch_conns")'
    BY <1>0, <1>1, <1>4, <2>1, <2>2 DEF Own, Count, Moves, At, Preset, ids
  <2>4. Matched(s, t, n, X)
    BY <1>5, <2>2 DEF Matched
  <2>5. \A cn \in connections' \cap X : \E k \in 1 .. n : t[k] = cn
    BY <1>5, <1>6, <2>2
  <2>6. Tracked(c)'
    <3>1. specConns'[r] = s /\ call'[c].conns = t
      BY <1>1, <1>6, <2>1, <2>2
    <3> QED BY <2>3, <2>4, <2>5, <3>1 DEF Tracked
  <2>7. TableChange(c)
    BY <1>6 DEF TableChange
  <2> QED BY <1>0, <1>6, <2>1, <2>6, <2>7, InsideBatch
<1>7. CASE /\ new \notin connections /\ connections' = connections \cup {new}
           /\ specConns' = [specConns EXCEPT ![r] = Append(@, new)]
           /\ call' = [call EXCEPT ![c].done = @ + 1]
  <2>1. /\ Moves(c, "batch_conns", Preset(c), Agent(c)) /\ call'[c].ids = call[c].ids
        /\ call'[c].conns = l /\ call'[c].done = n + 1
    <3> DEFINE next == [call[c] EXCEPT !.done = n + 1]
    <3>1. call' = [call EXCEPT ![c] = next]
      BY <1>0, <1>1, <1>7
    <3>2. /\ next.pc = "batch_conns" /\ next.preset = Preset(c) /\ next.agent = Agent(c)
          /\ next.ids = call[c].ids /\ next.conns = l /\ next.done = n + 1
      BY <1>0, <1>1 DEF Call, Preset, Agent, At
    <3>3. next \in Call
      <4>1. call[c] \in Call /\ n + 1 \in Nat
        BY <1>0
      <4> QED BY <4>1 DEF Call
    <3> HIDE DEF next
    <3> QED BY <1>0, <3>1, <3>2, <3>3 DEF Moves
  <2>2. PICK t : t = Append(s, new)
    OBVIOUS
  <2>3. specConns'[r] = t /\ \A q \in PresetIds \ {r} : specConns'[q] = specConns[q]
    BY <1>0, <1>1, <1>7, <2>2
  <2>4. Own(c)' = X /\ Count(c)' = n + 1 /\ Preset(c)' = r
    BY <1>0, <1>1, <1>4, <2>1 DEF Own, Count, Moves, At, Preset, ids
  <2>5. Matched(t, l, n + 1, X)
    BY <1>2, <1>5, <2>2, MatchedAppend
  <2>6. \A cn \in connections' \cap X : \E k \in 1 .. (n + 1) : l[k] = cn
    BY <1>2, <1>5, <1>7
  <2>7. \A k \in 1 .. (n + 1) : l[k] \in Range(t)
    <3>1. Range(s) \subseteq Range(t) /\ new \in Range(t)
      <4>1. Len(t) = Len(s) + 1 /\ t[Len(s) + 1] = new /\ \A i \in 1 .. Len(s) : t[i] = s[i]
        BY <2>2
      <4>2. DOMAIN t = 1 .. (Len(s) + 1) /\ DOMAIN s = 1 .. Len(s) /\ Len(s) \in Nat
        BY <2>2
      <4> QED BY <4>1, <4>2 DEF Range
    <3> QED BY <1>2, <1>5, <3>1
  <2>8. Tracked(c)'
    BY <1>0, <1>5, <2>1, <2>3, <2>4, <2>5, <2>6, <2>7 DEF Tracked
  <2>9. TableChange(c)
    BY <1>0, <1>1, <1>3, <1>7 DEF TableChange, ids
  <2> QED BY <1>0, <1>1, <2>1, <2>3, <2>8, <2>9, InsideBatch
<1> QED BY <1>1, <1>2, <1>6, <1>7 DEF BatchConns

(* A connection of a failed batch is taken back. *)
LEMMA RollbackConnBatch ==
  ASSUME GraphInv, BatchInv, NEW c \in Callers, RollbackConn(c)
  PROVE  BatchInv'
<1>0. /\ At(c, "batch_rollback") /\ InBatch(c) /\ call \in [Callers -> Call] /\ Tracked(c)
      /\ specConns \in [PresetIds -> Seq(Conn)] /\ Preset(c) \in PresetIds
      /\ UNCHANGED <<ids, presetLock, specAgents, agents, presetOf>>
  BY DEF RollbackConn, GraphInv, GraphTypes, IdsInUse, InBatch, At, BatchInv
<1>1. PICK l \in Seq(Conn), r \in PresetIds, s \in Seq(Conn) :
        /\ l = call[c].conns /\ r = Preset(c) /\ s = specConns[r] /\ l # << >>
  BY <1>0, CallFields DEF RollbackConn, Call
<1>2. /\ call' = [call EXCEPT ![c].conns = Tail(@)]
      /\ connections' = connections \ {Head(l)}
  BY <1>1 DEF RollbackConn
<1>3. PICK i \in DOMAIN s :
        s[i] = Head(l) /\ specConns' = [specConns EXCEPT ![r] = RemoveAt(@, i)]
  BY <1>1 DEF RollbackConn, FirstOf
<1>4. PICK X, u, t : X = Own(c) /\ u = Tail(l) /\ t = RemoveAt(s, i)
  OBVIOUS
<1>5. /\ Matched(s, l, Len(l), X)
      /\ \A cn \in connections \cap X : \E k \in 1 .. Len(l) : l[k] = cn
  BY <1>0, <1>1, <1>4 DEF Tracked, Count, At
<1>6. PICK n \in Nat : n = Len(u) /\ Len(l) = n + 1 /\ u \in Seq(Conn) /\ l[1] = Head(l)
                       /\ \A k \in 1 .. n : u[k] = l[k + 1]
  <2>1. /\ Tail(l) \in Seq(Conn) /\ Len(l) = Len(Tail(l)) + 1 /\ l[1] = Head(l)
        /\ Len(Tail(l)) \in Nat /\ \A k \in 1 .. Len(Tail(l)) : Tail(l)[k] = l[k + 1]
    BY <1>1
  <2> QED BY <1>4, <2>1
<1>7. Matched(t, u, n, X)
  BY <1>1, <1>3, <1>4, <1>5, <1>6, MatchedRemove
<1>8. \A cn \in connections' \cap X : \E k \in 1 .. n : u[k] = cn
  <2>1. ASSUME NEW cn \in connections' \cap X PROVE \E k \in 1 .. n : u[k] = cn
    <3>1. PICK k \in 1 .. Len(l) : l[k] = cn
      BY <1>2, <1>5, <2>1
    <3>2. k # 1 /\ k - 1 \in 1 .. n /\ (k - 1) + 1 = k
      BY <1>2, <1>6, <2>1, <3>1
    <3> QED BY <1>6, <3>1, <3>2
  <2> QED BY <2>1
<1>9. /\ Moves(c, "batch_rollback", Preset(c), Agent(c)) /\ call'[c].ids = call[c].ids
      /\ call'[c].conns = u
  <2> DEFINE next == [call[c] EXCEPT !.conns = u]
  <2>1. call' = [call EXCEPT ![c] = next]
    BY <1>0, <1>1, <1>2, <1>4
  <2>2. /\ next.pc = "batch_rollback" /\ next.preset = Preset(c) /\ next.agent = Agent(c)
        /\ next.ids = call[c].ids /\ next.conns = u
    BY <1>0, <1>1, <1>6 DEF Call, Preset, Agent, At
  <2>3. next \in Call
    <3>1. call[c] \in Call /\ u \in Seq(Conn)
      BY <1>0, <1>6
    <3> QED BY <3>1 DEF Call
  <2> HIDE DEF next
  <2> QED BY <1>0, <2>1, <2>2, <2>3 DEF Moves
<1>10. specConns'[r] = t /\ \A q \in PresetIds \ {r} : specConns'[q] = specConns[q]
  BY <1>0, <1>1, <1>3, <1>4
<1>11. Own(c)' = X /\ Count(c)' = n /\ Preset(c)' = r /\ ~At(c, "batch_conns")'
  BY <1>0, <1>1, <1>4, <1>6, <1>9 DEF Own, Count, Moves, At, Preset, ids
<1>12. Tracked(c)'
  BY <1>7, <1>8, <1>9, <1>10, <1>11 DEF Tracked
<1>13. TableChange(c)
  BY <1>2 DEF TableChange
<1> QED BY <1>0, <1>1, <1>9, <1>10, <1>12, <1>13, InsideBatch

-----------------------------------------------------------------------------
(* The invariant is inductive, given the two before. *)
LEMMA BatchInvariant == Spec => []BatchInv
<1>1. (\A c \in Callers : call[c] = IdleCall) /\ connections = {} => BatchInv
  BY DEF IdleCall, BatchInv, LocksHeld, Holds, TableOwns, InBatch, At
<1>2. Init => BatchInv
  BY <1>1 DEF Init
<1>3. GraphInv /\ GraphInv' /\ RouteInv /\ BatchInv /\ [Next]_vars => BatchInv'
  <2> SUFFICES ASSUME GraphInv, GraphInv', RouteInv, BatchInv, [Next]_vars PROVE BatchInv'
    OBVIOUS
  <2>1. CASE Restart
    <3>1. (\A c \in Callers : call'[c] = IdleCall) /\ connections' = {}
      BY <2>1 DEF Restart
    <3> QED BY <3>1 DEF IdleCall, BatchInv, LocksHeld, Holds, TableOwns, InBatch, At
  <2>2. ASSUME NEW c \in Callers, Build(c) \/ BeginCall(c) \/ CallStep(c) PROVE BatchInv'
    <3>1. CASE Build(c)
      <4>1. ASSUME NEW p \in PresetIds, NEW s \in {EmptySpec, file},
                   NEW f \in NewIds(s.agents), NEW built \in SUBSET Range(f),
                   AddPreset(c, p, s, f, built)
            PROVE  BatchInv'
        BY <4>1, AddPresetBatch
      <4>2. ASSUME NEW f \in NewIds(call[c].ids), NEW built \in SUBSET Range(f),
                   BatchAgents(c, f, built)
            PROVE  BatchInv'
        BY <4>2, BatchAgentsBatch
      <4> QED BY <3>1, <4>1, <4>2 DEF Build
    <3>2. CASE BeginCall(c)
      BY <3>2, BeginBatchInv
    <3>3. CASE RemoveLock(c) \/ AddAgentBuild(c) \/ AddConn(c)
      BY <3>3, GrowBatch
    <3>4. CASE BatchConns(c)
      BY <3>4, BatchConnsBatch
    <3>5. CASE RollbackConn(c)
      BY <3>5, RollbackConnBatch
    <3> QED BY <2>2, <3>1, <3>2, <3>3, <3>4, <3>5, CallBatch
  <2>3. CASE UNCHANGED vars
    BY <2>3 DEF vars, ids, spec, runtime, BatchInv, LocksHeld, Holds, TableOwns, InBatch,
                At, Private, Tracked, Apart, Agent, Preset, Count, Own, Matched, Ends, Touching
  <2> QED BY <2>1, <2>2, <2>3 DEF Next
<1> QED BY <1>2, <1>3, GraphInvariant, RouteInvariant, PTL DEF Spec

(* A step is of one call. *)
LEMMA OneCallSteps ==
  ASSUME GraphTypes, NEW d \in Callers, Build(d) \/ BeginCall(d) \/ CallStep(d),
         NEW c \in Callers \ {d}
  PROVE  call'[c] = call[c]
<1>1. call \in [Callers -> Call]
  BY DEF GraphTypes
<1>3. Return(d) => call'[c] = call[c]
  BY <1>1 DEF Return
<1>4. \A pc : Goto(d, pc) => call'[c] = call[c]
  BY <1>1 DEF Goto
<1>5. CASE Build(d)
  BY <1>1, <1>5 DEF Build, AddPreset, BatchAgents
<1>6. CASE BeginCall(d)
  <2>1. \A op, p, pc, a, cn : BeginIn(d, op, p, pc, a, cn) => call'[c] = call[c]
    BY <1>1 DEF BeginIn
  <2>2. \A p : SaveSnapshot(d, p) => call'[c] = call[c]
    BY <1>1 DEF SaveSnapshot
  <2>3. \A p, cn : AddConnCheck(d, p, cn) => call'[c] = call[c]
    BY <1>1 DEF AddConnCheck
  <2>4. \A p, as, conns : BeginBatch(d, p, as, conns) => call'[c] = call[c]
    BY <1>1 DEF BeginBatch
  <2> QED BY <1>6, <2>1, <2>2, <2>3, <2>4 DEF BeginCall
<1>7. CASE CallStep(d)
  <2>1. CASE \/ AddPresetInsert(d) \/ SaveWrite(d) \/ AddAgentSpec(d) \/ AddConnLookup(d)
             \/ AddConn(d) \/ RemoveConn(d) \/ BatchDone(d) \/ RollbackAgents(d)
             \/ RemoveSpec(d) \/ RemoveUnlock(d) \/ RemoveMap(d)
    BY <1>3, <1>4, <2>1 DEF AddPresetInsert, SaveWrite, AddAgentSpec, AddConnLookup, AddConn,
         RemoveConn, BatchDone, RollbackAgents, RemoveSpec, RemoveUnlock, RemoveMap
  <2>2. CASE StopAgent(d) \/ StopAgentFails(d) \/ DropConns(d) \/ DropAgent(d)
    BY <1>3, <1>4, <2>2 DEF StopAgent, StopAgentFails, DropConns, DropAgent, AfterInternal
  <2>3. CASE AddAgentBuild(d)
    BY <1>1, <1>3, <2>3 DEF AddAgentBuild
  <2>4. CASE BatchConns(d)
    BY <1>1, <2>4 DEF BatchConns
  <2>5. CASE RollbackConn(d) \/ RemoveLock(d) \/ \E a \in AgentIds : RemoveNext(d, a)
    BY <1>1, <2>5 DEF RollbackConn, RemoveLock, RemoveNext
  <2> QED BY <1>7, <2>1, <2>2, <2>3, <2>4, <2>5 DEF CallStep
<1> QED BY <1>5, <1>6, <1>7

(* A batch returns when all is added, or when all is taken back; only the  *)
(* end of the process ends it elsewhere.                                   *)
LEMMA BatchReturns ==
  ASSUME GraphInv, Next, NEW c \in Callers, InBatch(c), At(c, "idle")', usedPresets' # {}
  PROVE  BatchDone(c) \/ RollbackAgents(c)
<1>1. call \in [Callers -> Call] /\ GraphTypes
  BY DEF GraphInv, GraphTypes
<1>2. PICK d \in Callers : Build(d) \/ BeginCall(d) \/ CallStep(d)
  BY DEF Next, Restart
<1>3. call[c].pc \in {"batch_conns", "batch_rollback"} /\ call'[c].pc = "idle"
  BY DEF InBatch, At
<1>4. d = c
  BY <1>1, <1>2, <1>3, OneCallSteps
<1>5. ~Build(c)
  BY <1>3 DEF Build, AddPreset, BatchAgents, Begin, At
<1>6. ~BeginCall(c)
  BY <1>3 DEF BeginCall, SaveSnapshot, BeginIn, AddConnCheck, BeginBatch, Begin
<1>7. ~BatchConns(c)
  BY <1>1, <1>3 DEF BatchConns, Call, At
<1>8. ~RollbackConn(c)
  BY <1>1, <1>3 DEF RollbackConn, Call, At
<1> QED
  BY <1>2, <1>3, <1>4, <1>5, <1>6, <1>7, <1>8 DEF CallStep, AddPresetInsert, SaveWrite,
     AddAgentBuild, AddAgentSpec, AddConnLookup, AddConn, RemoveConn, RemoveLock, RemoveNext,
     StopAgent, StopAgentFails, DropConns, DropAgent, RemoveSpec, RemoveUnlock, RemoveMap, At

(* For any presets, agents, callers and operations: a call of              *)
(* add_agents_and_connections that returns has added all its agents and    *)
(* connections, or has left nothing of them in the preset's spec, in the   *)
(* agents map and in the routing table, whatever other calls did meanwhile.*)
THEOREM BatchesAllOrNothing == Spec => BatchAllOrNothing
<1>1. ASSUME GraphInv, BatchInv, [Next]_vars, ~UNCHANGED vars,
             NEW c \in Callers, At(c, "idle")', usedPresets' # {}
      PROVE  /\ At(c, "batch_conns") =>
                  /\ call[c].ids \subseteq specAgents'[Preset(c)] \cap agents'
                  /\ Range(call[c].conns) \subseteq Range(specConns'[Preset(c)])
             /\ At(c, "batch_rollback") =>
                  /\ call[c].ids \cap (specAgents'[Preset(c)] \cup agents') = {}
                  /\ (Range(specConns'[Preset(c)]) \cup connections')
                       \cap Touching(call[c].ids) \subseteq strays
  <2>0. /\ call[c].conns \in Seq(Conn) /\ InBatch(c) => Preset(c) \in PresetIds
        /\ specConns \in [PresetIds -> Seq(Conn)]
        /\ specAgents \in [PresetIds -> SUBSET AgentIds]
    BY <1>1, CallFields DEF GraphInv, GraphTypes, IdsInUse, InBatch, At
  <2>1. ASSUME At(c, "batch_conns")
        PROVE  /\ call[c].ids \subseteq specAgents'[Preset(c)] \cap agents'
               /\ Range(call[c].conns) \subseteq Range(specConns'[Preset(c)])
    <3>1. InBatch(c) /\ Tracked(c) /\ ~RollbackAgents(c)
      BY <1>1, <2>1 DEF InBatch, BatchInv, RollbackAgents, At
    <3>2. BatchDone(c)
      BY <1>1, <3>1, BatchReturns
    <3>3. call[c].done = Len(call[c].conns) /\ UNCHANGED <<specAgents, specConns, agents>>
      BY <3>2 DEF BatchDone, spec, runtime
    <3>4. Range(call[c].conns) \subseteq Range(specConns[Preset(c)])
      BY <2>0, <2>1, <3>1, <3>3 DEF Tracked, Range
    <3> QED BY <2>1, <3>1, <3>3, <3>4 DEF Tracked
  <2>2. ASSUME At(c, "batch_rollback")
        PROVE  /\ call[c].ids \cap (specAgents'[Preset(c)] \cup agents') = {}
               /\ (Range(specConns'[Preset(c)]) \cup connections')
                    \cap Touching(call[c].ids) \subseteq strays
    <3>1. InBatch(c) /\ Tracked(c) /\ ~BatchDone(c)
      BY <1>1, <2>2 DEF InBatch, BatchInv, BatchDone, At
    <3>2. RollbackAgents(c)
      BY <1>1, <3>1, BatchReturns
    <3>3. /\ call[c].conns = << >> /\ UNCHANGED <<connections, specConns>>
          /\ agents' = agents \ call[c].ids
          /\ specAgents'[Preset(c)] = specAgents[Preset(c)] \ call[c].ids
      BY <2>0, <3>1, <3>2 DEF RollbackAgents
    <3>4. Count(c) = 0
      BY <2>2, <3>3 DEF Count, At
    <3>5. connections \cap Own(c) = {}
      BY <3>1, <3>4 DEF Tracked
    <3>6. Range(specConns[Preset(c)]) \cap Own(c) = {}
      BY <3>1, <3>4 DEF Tracked, Matched, Range
    <3> QED BY <3>3, <3>5, <3>6 DEF Own
  <2> QED BY <2>1, <2>2
<1>2. ASSUME GraphInv, BatchInv, [Next]_vars
      PROVE  [\A c \in Callers :
                (call[c].op = "add_batch" /\ At(c, "idle")' /\ usedPresets' # {}) =>
                LET shown == specAgents'[Preset(c)]
                    conns == Range(specConns'[Preset(c)])
                IN /\ At(c, "batch_conns") => /\ call[c].ids \subseteq shown \cap agents'
                                             /\ Range(call[c].conns) \subseteq conns
                   /\ At(c, "batch_rollback") =>
                        /\ call[c].ids \cap (shown \cup agents') = {}
                        /\ (conns \cup connections') \cap Touching(call[c].ids)
                             \subseteq strays]_vars
  BY <1>1, <1>2
<1> QED BY <1>2, GraphInvariant, BatchInvariant, PTL DEF Spec, BatchAllOrNothing
-----------------------------------------------------------------------------
(* Removals.  A remove_preset that is going through its agents, its lock   *)
(* held.                                                                   *)
Removing(c) ==
    \/ At(c, "remove_next")
    \/ call[c].op = "remove_preset" /\ call[c].pc \in {"stop", "drop_conns", "drop_agent"}

(* Instance a is the agent of an add_agent that waits for the lock.        *)
Waiting(a) ==
    \E c \in Callers :
        At(c, "add_agent_spec") /\ Agent(c) = a /\ Preset(c) = presetOf[a]

InMap(p) == p \in presets \/ \E c \in Callers : At(c, "add_preset_insert") /\ Preset(c) = p

(* An instance that has not escaped is within reach: its preset is in the  *)
(* map, a removal under way has it before itself or at hand, and one that  *)
(* has been through its agents has not seen it, because it waits.          *)
InReach(a) ==
    \/ Waiting(a)
    \/ /\ a \in specAgents[presetOf[a]] /\ InMap(presetOf[a])
       /\ \A c \in Callers : Preset(c) = presetOf[a] =>
            /\ Removing(c) => \/ a \in call[c].ids
                              \/ ~At(c, "remove_next") /\ Agent(c) = a
            /\ ~At(c, "remove_map")

ReachInv ==
    /\ \A a \in agents \ missed : InReach(a)
    /\ \A c \in Callers :
         At(c, "remove_lock") \/ At(c, "remove_next") => call[c].op = "remove_preset"

(* A call that goes on keeps its operation. *)
LEMMA OperationKept ==
  ASSUME GraphInv, NEW c \in Callers, Build(c) \/ BeginCall(c) \/ CallStep(c),
         \A d \in Callers : At(d, "remove_lock") \/ At(d, "remove_next")
                              => call[d].op = "remove_preset",
         At(c, "remove_lock")' \/ At(c, "remove_next")'
  PROVE  call'[c].op = "remove_preset"
<1>1. call \in [Callers -> Call]
  BY DEF GraphInv, GraphTypes
<1>2. CASE Build(c)
  <2>1. ASSUME NEW p \in PresetIds, NEW s, NEW f, NEW built, AddPreset(c, p, s, f, built)
        PROVE  FALSE
    BY <1>1, <2>1 DEF AddPreset, At, IdleCall
  <2>2. ASSUME NEW f, NEW built, BatchAgents(c, f, built)
        PROVE  FALSE
    BY <1>1, <2>2 DEF BatchAgents, At, Call
  <2> QED BY <1>2, <2>1, <2>2 DEF Build
<1>3. CASE BeginCall(c)
  <2>1. ASSUME NEW op, NEW p, NEW pc, NEW a, NEW cn, BeginIn(c, op, p, pc, a, cn)
        PROVE  call'[c].op = op /\ call'[c].pc = pc
    BY <1>1, <2>1 DEF BeginIn, IdleCall
  <2>2. \A p : ~SaveSnapshot(c, p)
    BY <1>1 DEF SaveSnapshot, At, IdleCall
  <2>3. \A p, cn : ~AddConnCheck(c, p, cn)
    BY <1>1 DEF AddConnCheck, At, IdleCall
  <2>4. \A p, as, conns : ~BeginBatch(c, p, as, conns)
    BY <1>1 DEF BeginBatch, At, IdleCall
  <2> QED BY <1>3, <2>1, <2>2, <2>3, <2>4 DEF BeginCall, At
<1>4. CASE CallStep(c)
  <2>1. ~Return(c)
    BY <1>1 DEF Return, IdleCall, At
  <2>2. \A pc : Goto(c, pc) => call'[c].op = call[c].op /\ call'[c].pc = pc
    BY <1>1 DEF Goto, Call
  <2>3. CASE RemoveLock(c) \/ \E a \in AgentIds : RemoveNext(c, a)
    <3>1. RemoveLock(c) => call'[c].op = call[c].op /\ At(c, "remove_lock")
      BY <1>1 DEF RemoveLock, Call
    <3>2. \A a : RemoveNext(c, a) => call'[c].op = call[c].op /\ At(c, "remove_next")
      BY <1>1 DEF RemoveNext, Call
    <3> QED BY <2>3, <3>1, <3>2
  <2>4. CASE StopAgent(c) \/ StopAgentFails(c) \/ DropConns(c) \/ DropAgent(c)
    BY <2>1, <2>2, <2>4 DEF StopAgent, StopAgentFails, DropConns, DropAgent, AfterInternal, At
  <2>5. CASE AddAgentBuild(c) \/ BatchConns(c) \/ RollbackConn(c)
    BY <1>1, <2>1, <2>5 DEF AddAgentBuild, BatchConns, RollbackConn, At, Call
  <2>6. CASE AddConnLookup(c) \/ RemoveUnlock(c)
    BY <2>1, <2>2, <2>6 DEF AddConnLookup, RemoveUnlock, At
  <2> QED BY <1>4, <2>1, <2>3, <2>4, <2>5, <2>6 DEF CallStep, AddPresetInsert, SaveWrite,
             AddAgentSpec, AddConn, RemoveConn, BatchDone, RollbackAgents, RemoveSpec, RemoveMap
<1> QED BY <1>2, <1>3, <1>4

(* What a step of caller c may do to an instance b in reach: its own call  *)
(* does not pass over b, and the preset does not leave the map with b.     *)
LEMMA StaysInReach ==
  ASSUME GraphInv, GraphInv', NEW c \in Callers,
         \A d \in Callers \ {c} : call'[d] = call[d],
         NEW b \in agents, b \in agents', presetOf'[b] = presetOf[b],
         b \in specAgents[presetOf[b]], InMap(presetOf[b]),
         \A d \in Callers : Preset(d) = presetOf[b] =>
            /\ Removing(d) => \/ b \in call[d].ids
                              \/ ~At(d, "remove_next") /\ Agent(d) = b
            /\ ~At(d, "remove_map"),
         presets \cup {q \in PresetIds : At(c, "add_preset_insert") /\ q = Preset(c)}
            \subseteq presets',
         Preset(c)' = presetOf[b] =>
            /\ Removing(c)' => \/ b \in call'[c].ids
                               \/ ~At(c, "remove_next")' /\ Agent(c)' = b
            /\ ~At(c, "remove_map")'
  PROVE  InReach(b)'
<1>1. b \in specAgents'[presetOf'[b]] \/ Waiting(b)'
  BY DEF GraphInv, InstanceInSpec, Waiting
<1>2. InMap(presetOf[b])'
  <2>1. presetOf[b] \in PresetIds
    BY DEF GraphInv, GraphTypes, IdsInUse
  <2>2. CASE presetOf[b] \in presets
    BY <2>2 DEF InMap
  <2>3. ASSUME NEW d \in Callers, At(d, "add_preset_insert"), Preset(d) = presetOf[b]
        PROVE  InMap(presetOf[b])'
    <3>1. CASE d = c
      BY <2>1, <2>3, <3>1 DEF InMap
    <3>2. CASE d # c
      BY <2>3, <3>2 DEF InMap, At, Preset
    <3> QED BY <3>1, <3>2
  <2> QED BY <2>2, <2>3 DEF InMap
<1>3. ASSUME NEW d \in Callers, Preset(d)' = presetOf'[b]
      PROVE  /\ Removing(d)' => \/ b \in call'[d].ids
                                \/ ~At(d, "remove_next")' /\ Agent(d)' = b
             /\ ~At(d, "remove_map")'
  <2>1. CASE d = c
    BY <1>3, <2>1
  <2>2. CASE d # c
    BY <1>3, <2>2 DEF Removing, At, Preset, Agent
  <2> QED BY <2>1, <2>2
<1> QED BY <1>1, <1>2, <1>3 DEF InReach, InMap, Waiting

(* An instance b that was in reach is so after a step of caller c, unless  *)
(* the step makes it escape.                                               *)
LEMMA OldInReach ==
  ASSUME GraphInv, GraphInv', BatchInv, ReachInv, NEW c \in Callers,
         Build(c) \/ BeginCall(c) \/ CallStep(c), KeepsIds,
         NEW b \in agents, b \in agents', b \notin missed, b \notin Escaping(c)
  PROVE  InReach(b)'
<1>0. /\ call \in [Callers -> Call] /\ call' \in [Callers -> Call]
      /\ presetOf'[b] = presetOf[b] /\ presetOf[b] \in usedPresets /\ b \in AgentIds
      /\ b # NoAgent
      /\ At(c, "idle") \/ Preset(c) \in usedPresets
  BY DEF GraphInv, GraphTypes, IdsInUse, KeepsIds
<1>1. \A d \in Callers \ {c} : call'[d] = call[d]
  BY OneCallSteps DEF GraphInv
<1>2. InReach(b)
  BY DEF ReachInv
<1>3. CASE At(c, "add_agent_spec") /\ Agent(c) = b /\ Preset(c) = presetOf[b]
  <2>1. AddAgentSpec(c)
    <3>1. call[c].pc = "add_agent_spec"
      BY <1>3 DEF At
    <3>2. ~Build(c) /\ ~BeginCall(c)
      BY <3>1 DEF Build, AddPreset, BatchAgents, BeginCall, SaveSnapshot, BeginIn, AddConnCheck,
         BeginBatch, Begin, At
    <3> QED BY <3>1, <3>2 DEF CallStep, AddPresetInsert, SaveWrite, AddAgentBuild, AddConnLookup,
         AddConn, RemoveConn, BatchConns, BatchDone, RollbackConn, RollbackAgents, RemoveLock,
         RemoveNext, StopAgent, StopAgentFails, DropConns, DropAgent, RemoveSpec, RemoveUnlock,
         RemoveMap, At
  <2>2. ~Overtaken(presetOf[b])
    BY <1>0, <1>3 DEF Escaping
  <2>3. Moves(c, "idle", NoPreset, NoAgent) /\ UNCHANGED <<presets, presetLock>>
    BY <2>1, ReturnMoves DEF AddAgentSpec, GraphInv
  <2>4. b \in specAgents'[presetOf[b]]
    BY <1>0, <1>3, <2>1 DEF AddAgentSpec, GraphInv, GraphTypes
  <2>5. presetOf[b] \in presets /\ presetOf[b] \notin presetLock
    BY <1>3, <2>1, <2>2 DEF Overtaken, AddAgentSpec
  <2>6. ASSUME NEW d \in Callers, Preset(d)' = presetOf[b]
        PROVE  ~Removing(d)' /\ ~At(d, "remove_map")'
    <3>1. CASE d = c
      BY <2>3, <3>1 DEF Moves, Removing, At
    <3>2. CASE d # c
      BY <1>1, <2>2, <2>5, <2>6, <3>2
         DEF Removing, At, Overtaken, Preset, BatchInv, LocksHeld, Holds
    <3> QED BY <3>1, <3>2
  <2> QED BY <1>0, <2>3, <2>4, <2>5, <2>6 DEF InReach, InMap
<1>4. CASE Waiting(b) /\ ~(At(c, "add_agent_spec") /\ Agent(c) = b /\ Preset(c) = presetOf[b])
  BY <1>0, <1>1, <1>4 DEF Waiting, InReach, At, Agent, Preset
<1>5. CASE ~Waiting(b)
  <2>1. /\ b \in specAgents[presetOf[b]] /\ InMap(presetOf[b])
        /\ \A d \in Callers : Preset(d) = presetOf[b] =>
             /\ Removing(d) => \/ b \in call[d].ids
                               \/ ~At(d, "remove_next") /\ Agent(d) = b
             /\ ~At(d, "remove_map")
    BY <1>2, <1>5 DEF InReach
  <2>2. ASSUME presets \cup {q \in PresetIds : At(c, "add_preset_insert") /\ q = Preset(c)}
                 \subseteq presets',
               Preset(c)' = presetOf[b] =>
                 /\ Removing(c)' => \/ b \in call'[c].ids
                                    \/ ~At(c, "remove_next")' /\ Agent(c)' = b
                 /\ ~At(c, "remove_map")'
        PROVE  InReach(b)'
    BY <1>0, <1>1, <2>1, <2>2, StaysInReach
  <2>ret. ASSUME Return(c) PROVE ~Removing(c)' /\ ~At(c, "remove_map")'
    BY <1>0, <2>ret DEF Return, IdleCall, Removing, At
  <2>go. ASSUME NEW pc, Goto(c, pc)
         PROVE  /\ call'[c].pc = pc /\ call'[c].op = call[c].op /\ call'[c].ids = call[c].ids
                /\ Preset(c)' = Preset(c) /\ Agent(c)' = Agent(c)
    BY <1>0, <2>go DEF Goto, Call, Preset, Agent
  <2>3. CASE Build(c)
    <3>1. ASSUME NEW p \in PresetIds, NEW s, NEW f, NEW built, AddPreset(c, p, s, f, built)
          PROVE  InReach(b)'
      BY <1>0, <2>2, <3>1 DEF AddPreset, Begin, At, IdleCall, Removing
    <3>2. ASSUME NEW f, NEW built, BatchAgents(c, f, built)
          PROVE  InReach(b)'
      <4>1. call'[c].pc \in {"batch_conns", "batch_rollback"}
        BY <1>0, <3>2 DEF BatchAgents, Call
      <4> QED BY <2>2, <3>2, <4>1 DEF BatchAgents, At, Removing
    <3> QED BY <2>3, <3>1, <3>2 DEF Build
  <2>4. CASE BeginCall(c)
    <3>1. ASSUME NEW op, NEW p, NEW pc, NEW a, NEW cn, BeginIn(c, op, p, pc, a, cn),
                 pc \notin {"remove_next", "remove_map"},
                 pc = "stop" => op # "remove_preset",
                 pc \notin {"drop_conns", "drop_agent"}
          PROVE  InReach(b)'
      BY <1>0, <2>2, <3>1 DEF BeginIn, Begin, At, IdleCall, Removing
    <3>2. ASSUME NEW p, SaveSnapshot(c, p) PROVE InReach(b)'
      BY <1>0, <2>2, <3>2 DEF SaveSnapshot, Begin, At, IdleCall, Removing
    <3>3. ASSUME NEW p, NEW cn, AddConnCheck(c, p, cn) PROVE InReach(b)'
      BY <1>0, <2>2, <3>3 DEF AddConnCheck, Begin, At, IdleCall, Removing
    <3>4. ASSUME NEW p, NEW as, NEW conns, BeginBatch(c, p, as, conns) PROVE InReach(b)'
      BY <1>0, <2>2, <3>4 DEF BeginBatch, Begin, At, IdleCall, Removing
    <3> QED BY <2>4, <3>1, <3>2, <3>3, <3>4 DEF BeginCall
  <2>5. CASE AddPresetInsert(c)
    BY <2>2, <2>5, <2>ret DEF AddPresetInsert
  <2>6. CASE \/ SaveWrite(c) \/ AddAgentSpec(c) \/ AddConn(c) \/ RemoveConn(c) \/ BatchDone(c)
             \/ RollbackAgents(c) \/ RemoveSpec(c)
    BY <2>2, <2>6, <2>ret DEF SaveWrite, AddAgentSpec, AddConn, RemoveConn, BatchDone,
       RollbackAgents, RemoveSpec, At
  <2>7. CASE AddConnLookup(c)
    <3>1. CASE Goto(c, "add_conn")
      BY <2>2, <2>7, <3>1, <2>go DEF AddConnLookup, At, Removing
    <3>2. CASE Return(c)
      BY <2>2, <2>7, <3>2, <2>ret DEF AddConnLookup, At
    <3> QED BY <2>7, <3>1, <3>2 DEF AddConnLookup
  <2>8. CASE AddAgentBuild(c)
    <3>1. \/ Return(c) \/ call'[c].pc = "add_agent_spec"
      BY <1>0, <2>8 DEF AddAgentBuild, Call
    <3> QED BY <2>2, <2>8, <3>1, <2>ret DEF AddAgentBuild, At, Removing
  <2>9. CASE BatchConns(c)
    <3>1. call'[c].pc \in {"batch_conns", "batch_rollback"}
      BY <1>0, <2>9 DEF BatchConns, Call, At
    <3> QED BY <2>2, <2>9, <3>1 DEF BatchConns, At, Removing
  <2>10. CASE RollbackConn(c)
    <3>1. call'[c].pc = "batch_rollback"
      BY <1>0, <2>10 DEF RollbackConn, Call, At
    <3> QED BY <2>2, <2>10, <3>1 DEF RollbackConn, At, Removing
  <2>11. CASE RemoveLock(c)
    <3>1. call'[c].pc = "remove_next" /\ call'[c].ids = specAgents[Preset(c)]
          /\ Preset(c)' = Preset(c)
      BY <1>0, <2>11 DEF RemoveLock, Call, Preset
    <3> QED BY <2>1, <2>2, <2>11, <3>1 DEF RemoveLock, At
  <2>12. ASSUME NEW a \in AgentIds, RemoveNext(c, a) PROVE InReach(b)'
    <3>1. call'[c].pc = "stop" /\ call'[c].ids = call[c].ids \ {a} /\ Agent(c)' = a
          /\ Preset(c)' = Preset(c)
      BY <1>0, <2>12 DEF RemoveNext, Call, Preset, Agent
    <3>2. Removing(c)
      BY <2>12 DEF RemoveNext, Removing
    <3> QED BY <2>1, <2>2, <2>12, <3>1, <3>2 DEF RemoveNext, At
  <2>13. CASE StopAgent(c)
    <3>1. CASE Agent(c) \in agents /\ Goto(c, "drop_conns")
      BY <2>1, <2>2, <2>13, <3>1, <2>go DEF StopAgent, At, Removing
    <3>2. CASE Agent(c) \notin agents /\ AfterInternal(c)
      BY <2>1, <2>2, <2>13, <3>2, <2>go DEF StopAgent, AfterInternal, At, Removing
    <3> QED BY <2>13, <3>1, <3>2 DEF StopAgent
  <2>14. CASE StopAgentFails(c)
    <3>1. CASE Return(c)
      BY <2>2, <2>14, <3>1, <2>ret DEF StopAgentFails, At
    <3>2. CASE call[c].op = "remove_preset" /\ Goto(c, "remove_next")
      <4>1. call'[c].pc = "remove_next"
        BY <3>2, <2>go
      <4>2. b # Agent(c)
        BY <1>0, <2>14, <4>1 DEF StopAgentFails, Escaping, At
      <4> QED BY <2>1, <2>2, <2>14, <3>2, <4>2, <2>go DEF StopAgentFails, At, Removing
    <3> QED BY <2>14, <3>1, <3>2 DEF StopAgentFails
  <2>15. CASE DropConns(c)
    BY <2>1, <2>2, <2>15, <2>go DEF DropConns, At, Removing
  <2>16. CASE DropAgent(c)
    <3>1. b # Agent(c)
      BY <2>16 DEF DropAgent
    <3> QED BY <2>1, <2>2, <2>16, <3>1, <2>go DEF DropAgent, AfterInternal, At, Removing
  <2>17. CASE RemoveUnlock(c)
    BY <2>1, <2>2, <2>17, <2>go DEF RemoveUnlock, At, Removing
  <2>18. CASE RemoveMap(c)
    <3>1. Preset(c) # presetOf[b]
      BY <2>1, <2>18 DEF RemoveMap
    <3>2. Return(c) /\ presets' = presets \ {Preset(c)} /\ At(c, "remove_map")
      BY <2>18 DEF RemoveMap
    <3>3. InMap(presetOf[b])'
      BY <1>0, <1>1, <2>1, <3>1, <3>2 DEF InMap, At, Preset
    <3>4. b \in specAgents'[presetOf[b]]
      BY <2>1, <2>18 DEF RemoveMap, spec
    <3>5. ASSUME NEW d \in Callers, Preset(d)' = presetOf[b]
          PROVE  /\ Removing(d)' => \/ b \in call'[d].ids
                                    \/ ~At(d, "remove_next")' /\ Agent(d)' = b
                 /\ ~At(d, "remove_map")'
      <4>1. CASE d = c
        BY <3>2, <4>1, <2>ret
      <4>2. CASE d # c
        BY <1>1, <2>1, <3>5, <4>2 DEF Removing, At, Preset, Agent
      <4> QED BY <4>1, <4>2
    <3> QED BY <1>0, <3>3, <3>4, <3>5 DEF InReach, InMap
  <2> QED BY <2>3, <2>4, <2>5, <2>6, <2>7, <2>8, <2>9, <2>10, <2>11, <2>12, <2>13, <2>14, <2>15,
             <2>16, <2>17, <2>18 DEF CallStep
<1> QED BY <1>3, <1>4, <1>5

(* Instances come under new ids, and keep their preset. *)
LEMMA StepKeepsIds ==
  ASSUME GraphInv, NEW c \in Callers, Build(c) \/ BeginCall(c) \/ CallStep(c)
  PROVE  KeepsIds
<1>0. /\ usedAgents \subseteq AgentIds /\ agents \subseteq usedAgents
      /\ presetOf \in [AgentIds -> PresetIds \cup {NoPreset}]
      /\ call[c].ids \in SUBSET AgentIds /\ file.agents \in SUBSET AgentIds
  BY CallFields DEF GraphInv, GraphTypes
<1>1. CASE Build(c)
  <2>1. ASSUME NEW p \in PresetIds, NEW s \in {EmptySpec, file}, NEW f \in NewIds(s.agents),
               NEW built \in SUBSET Range(f), AddPreset(c, p, s, f, built)
        PROVE  KeepsIds
    <3>1. s.agents \in SUBSET AgentIds
      BY <1>0 DEF EmptySpec
    <3>2. Range(f) \in SUBSET (AgentIds \ usedAgents)
      BY <3>1 DEF NewIds, Injection, Range
    <3> QED BY <1>0, <2>1, <3>2, NewAgentsKeepIds DEF AddPreset
  <2>2. ASSUME NEW f \in NewIds(call[c].ids), NEW built \in SUBSET Range(f),
               BatchAgents(c, f, built)
        PROVE  KeepsIds
    <3>1. Range(f) \in SUBSET (AgentIds \ usedAgents)
      BY <1>0 DEF NewIds, Injection, Range
    <3> QED BY <1>0, <2>2, <3>1, NewAgentsKeepIds DEF BatchAgents
  <2> QED BY <1>1, <2>1, <2>2 DEF Build
<1>2. CASE BeginCall(c)
  BY <1>0, <1>2 DEF BeginCall, SaveSnapshot, BeginIn, AddConnCheck, BeginBatch, ids, runtime,
     KeepsIds
<1>3. CASE CallStep(c)
  <2>1. CASE AddAgentBuild(c)
    BY <1>0, <2>1 DEF AddAgentBuild, KeepsIds
  <2>2. CASE RollbackAgents(c) \/ DropAgent(c) \/ RollbackConn(c)
    BY <1>0, <2>2 DEF RollbackAgents, DropAgent, RollbackConn, KeepsIds, ids
  <2>3. CASE AddPresetInsert(c) \/ SaveWrite(c) \/ AddAgentSpec(c) \/ AddConnLookup(c)
             \/ AddConn(c) \/ RemoveConn(c) \/ BatchConns(c) \/ BatchDone(c)
    BY <1>0, <2>3 DEF AddPresetInsert, SaveWrite, AddAgentSpec, AddConnLookup, AddConn,
       RemoveConn, BatchConns, BatchDone, KeepsIds, ids, runtime
  <2>4. CASE RemoveLock(c) \/ (\E a \in AgentIds : RemoveNext(c, a)) \/ StopAgent(c)
             \/ StopAgentFails(c) \/ DropConns(c) \/ RemoveSpec(c) \/ RemoveUnlock(c)
             \/ RemoveMap(c)
    BY <1>0, <2>4 DEF RemoveLock, RemoveNext, StopAgent, StopAgentFails, DropConns, RemoveSpec,
       RemoveUnlock, RemoveMap, KeepsIds, ids, runtime
  <2> QED BY <1>3, <2>1, <2>2, <2>3, <2>4 DEF CallStep
<1> QED BY <1>1, <1>2, <1>3

(* A new instance is in reach, unless its batch was overtaken. *)
LEMMA NewInReach ==
  ASSUME GraphInv, GraphInv', BatchInv, NEW c \in Callers,
         Build(c) \/ BeginCall(c) \/ CallStep(c),
         NEW b \in agents' \ agents, b \notin Escaping(c)
  PROVE  InReach(b)'
<1>0. /\ call \in [Callers -> Call] /\ b \in AgentIds
      /\ presetOf \in [AgentIds -> PresetIds \cup {NoPreset}]
      /\ specAgents \in [PresetIds -> SUBSET AgentIds]
      /\ At(c, "idle") \/ Preset(c) \in usedPresets
      /\ usedPresets \subseteq PresetIds
  BY DEF GraphInv, GraphTypes, IdsInUse
<1>1. \A d \in Callers \ {c} : call'[d] = call[d]
  BY OneCallSteps DEF GraphInv
<1>2. ASSUME NEW p \in PresetIds, NEW s, NEW f, NEW built, AddPreset(c, p, s, f, built),
             built \subseteq Range(f)
      PROVE  InReach(b)'
  <2>1. presetOf'[b] = p /\ b \in specAgents'[p]
    BY <1>0, <1>2 DEF AddPreset
  <2>2. At(c, "add_preset_insert")' /\ Preset(c)' = p
    BY <1>0, <1>2 DEF AddPreset, At, Preset, IdleCall
  <2>3. ASSUME NEW d \in Callers, Preset(d)' = p PROVE ~Removing(d)' /\ ~At(d, "remove_map")'
    <3>1. CASE d = c
      BY <2>2, <3>1 DEF At, Removing
    <3>2. CASE d # c
      <4>1. Preset(d) \notin usedPresets
        BY <1>1, <1>2, <2>3, <3>2 DEF AddPreset, Preset
      <4>2. call[d].pc = "idle"
        BY <4>1 DEF GraphInv, IdsInUse, At
      <4> QED BY <1>1, <3>2, <4>2 DEF At, Removing
    <3> QED BY <3>1, <3>2
  <2> QED BY <2>1, <2>2, <2>3 DEF InReach, InMap
<1>3. ASSUME NEW f, NEW built, BatchAgents(c, f, built) PROVE InReach(b)'
  <2>1. ~Overtaken(Preset(c)) /\ Preset(c) \notin presetLock /\ Preset(c) \in usedPresets
    BY <1>0, <1>3 DEF BatchAgents, Escaping, At
  <2>2. presetOf'[b] = Preset(c) /\ b \in specAgents'[Preset(c)] /\ presets' = presets
    BY <1>0, <1>3, <2>1 DEF BatchAgents
  <2>3. call'[c].pc \in {"batch_conns", "batch_rollback"}
    BY <1>0, <1>3 DEF BatchAgents, Call
  <2>4. ASSUME NEW d \in Callers, Preset(d)' = Preset(c)
        PROVE  ~Removing(d)' /\ ~At(d, "remove_map")'
    <3>1. CASE d = c
      BY <2>3, <3>1 DEF At, Removing
    <3>2. CASE d # c
      BY <1>1, <2>1, <2>4, <3>2
         DEF Removing, At, Overtaken, Preset, BatchInv, LocksHeld, Holds
    <3> QED BY <3>1, <3>2
  <2>5. Preset(c) \in presets'
    BY <2>1, <2>2 DEF Overtaken
  <2> QED BY <2>2, <2>4, <2>5 DEF InReach, InMap
<1>4. CASE AddAgentBuild(c)
  <2>1. PICK a \in AgentIds \ usedAgents :
          /\ agents' = agents \cup {a}
          /\ presetOf' = [presetOf EXCEPT ![a] = Preset(c)]
          /\ call' = [call EXCEPT ![c].pc = "add_agent_spec", ![c].agent = a]
    BY <1>4 DEF AddAgentBuild
  <2>2. At(c, "add_agent_spec")' /\ Agent(c)' = b /\ Preset(c)' = Preset(c)
    BY <1>0, <2>1 DEF At, Agent, Preset, Call
  <2>3. presetOf'[b] = Preset(c)
    BY <1>0, <2>1
  <2> QED BY <2>2, <2>3 DEF InReach, Waiting
<1>5. CASE BeginCall(c)
  BY <1>5 DEF BeginCall, SaveSnapshot, BeginIn, AddConnCheck, BeginBatch, runtime
<1>6. CASE CallStep(c) /\ ~AddAgentBuild(c)
  BY <1>6 DEF CallStep, AddPresetInsert, SaveWrite, AddAgentSpec, AddConnLookup, AddConn,
     RemoveConn, BatchConns, BatchDone, RollbackConn, RollbackAgents, RemoveLock, RemoveNext,
     StopAgent, StopAgentFails, DropConns, DropAgent, RemoveSpec, RemoveUnlock, RemoveMap, runtime
<1> QED BY <1>2, <1>3, <1>4, <1>5, <1>6 DEF Build

(* Reach is an invariant. *)
LEMMA ReachInvariant == Spec => []ReachInv
<1>1. Init => ReachInv
  BY DEF Init, ReachInv, IdleCall, At
<1>2. GraphInv /\ GraphInv' /\ BatchInv /\ ReachInv /\ [Next]_vars => ReachInv'
  <2> SUFFICES ASSUME GraphInv, GraphInv', BatchInv, ReachInv, [Next]_vars PROVE ReachInv'
    OBVIOUS
  <2>1. CASE Restart
    BY <2>1 DEF Restart, ReachInv, IdleCall, At
  <2>2. ASSUME NEW c \in Callers, Build(c) \/ BeginCall(c) \/ CallStep(c),
               missed' = missed \cup Escaping(c)
        PROVE  ReachInv'
    <3>1. KeepsIds
      BY <2>2, StepKeepsIds
    <3>2. ASSUME NEW b \in agents' \ missed' PROVE InReach(b)'
      <4>1. b \notin missed /\ b \notin Escaping(c)
        BY <2>2, <3>2
      <4> QED BY <2>2, <3>1, <3>2, <4>1, OldInReach, NewInReach
    <3>3. ASSUME NEW d \in Callers, At(d, "remove_lock")' \/ At(d, "remove_next")'
          PROVE  call'[d].op = "remove_preset"
      <4>1. CASE d = c
        BY <2>2, <3>3, <4>1, OperationKept DEF ReachInv
      <4>2. CASE d # c
        <5>1. call'[d] = call[d]
          BY <2>2, <4>2, OneCallSteps DEF GraphInv
        <5> QED BY <3>3, <5>1 DEF ReachInv, At
      <4> QED BY <4>1, <4>2
    <3> QED BY <3>2, <3>3 DEF ReachInv
  <2>3. CASE UNCHANGED vars
    BY <2>3 DEF vars, ids, spec, runtime, ReachInv, InReach, InMap, Waiting, Removing, At,
       Agent, Preset
  <2> QED BY <2>1, <2>2, <2>3 DEF Next
<1> QED BY <1>1, <1>2, GraphInvariant, BatchInvariant, PTL DEF Spec

(* Every agent instance is in the spec of a preset of the presets map, or  *)
(* of one about to enter it, or its add_agent waits for the preset's lock, *)
(* unless a remove_preset has missed it, for any presets, agents and       *)
(* callers: whatever adds, batches, removals and reloads overlap and       *)
(* whichever stops fail, there is no other way to lose an instance.        *)
THEOREM AgentsAreKnown == Spec => []AgentKnownToPreset
<1>1. ReachInv => AgentKnownToPreset
  BY DEF ReachInv, InReach, Waiting, InMap, AgentKnownToPreset
<1> QED BY <1>1, ReachInvariant, PTL

(* Types of all variables. *)
THEOREM TypeCorrect == Spec => []TypeOK
<1>1. Init => missed \subseteq AgentIds
  BY DEF Init
<1>2. missed \subseteq AgentIds /\ [Next]_vars => (missed \subseteq AgentIds)'
  BY DEF Next, Restart, Escaping, vars
<1>3. Spec => [](missed \subseteq AgentIds)
  BY <1>1, <1>2, PTL DEF Spec
<1>4. GraphInv /\ missed \subseteq AgentIds => TypeOK
  BY DEF GraphInv, GraphTypes, TypeOK
<1> QED BY <1>3, <1>4, GraphInvariant, PTL

=============================================================================
