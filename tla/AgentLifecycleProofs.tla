----------------------- MODULE AgentLifecycleProofs -----------------------
(***************************************************************************)
(* Proofs about AgentLifecycle, for every preset, set of callers and bound. *)
(***************************************************************************)
EXTENDS AgentLifecycle, TLAPS

(* The idle values have the types of what they stand in for. *)
LEMMA NullTypes ==
    /\ AnyAgent \in Agents
    /\ NoToken \in Token
    /\ NoSlot \in Slot
    /\ IdleCall \in Call
    /\ IdleSend \in Send
<1>1. AnyAgent \in Agents
  BY LifecycleAssumption DEF AnyAgent
<1>2. NoToken \in Token
  BY DEF NoToken, Token
<1>3. NoSlot \in Slot
  BY <1>2 DEF NoSlot, Slot
<1>4. IdleCall \in Call
  BY <1>1, <1>2 DEF IdleCall, Call, CallPc, AllOps
<1>5. IdleSend \in Send
  BY <1>1 DEF IdleSend, Send, SendPc, Message
<1> QED
  BY <1>1, <1>2, <1>3, <1>4, <1>5

(* A call that moves on keeps its type ... *)
LEMMA GotoType ==
    ASSUME call \in [Callers -> Call], NEW c \in Callers, NEW pc \in CallPc, Goto(c, pc)
    PROVE  call' \in [Callers -> Call]
  BY DEF Goto, Call

(* ... or returns. *)
LEMMA ReturnType ==
    ASSUME call \in [Callers -> Call], NEW c \in Callers, AgentOpReturns(c)
    PROVE  call' \in [Callers -> Call]
<1>1. "next" \in CallPc
  BY DEF CallPc
<1>2. [IdleCall EXCEPT !.pc = "next", !.op = call[c].op, !.todo = call[c].todo] \in Call
  BY <1>1, NullTypes DEF Call
<1> QED
  BY <1>2, NullTypes DEF AgentOpReturns

(* A loop that moves on keeps its type. *)
LEMMA LoopGotoType ==
    ASSUME loop \in [Gen -> Loop], NEW g \in Gen, NEW pc \in LoopPc, LoopGoto(g, pc)
    PROVE  loop' \in [Gen -> Loop]
  BY DEF LoopGoto, Loop

MailboxType ==
    /\ mailbox \in [Gen -> Seq(Message)]
    /\ \A h \in Gen : Len(mailbox[h]) <= Cap

(* A loop that ends keeps its type, with an empty mailbox. *)
LEMMA LoopEndType ==
    ASSUME NEW g \in Gen, LoopEnd(g)
    PROVE  /\ loop \in [Gen -> Loop] => loop' \in [Gen -> Loop]
           /\ MailboxType => MailboxType'
<1>1. loop \in [Gen -> Loop] => loop' \in [Gen -> Loop]
  BY NullTypes DEF LoopEnd, Loop, LoopPc
<1>2. MailboxType => MailboxType'
  BY LifecycleAssumption DEF LoopEnd, MailboxType
<1> QED
  BY <1>1, <1>2

(* A mailbox below its capacity can take a message. *)
LEMMA MailAppend ==
    ASSUME MailboxType, NEW g, NEW m \in Message, Len(mailbox[g]) < Cap,
           mailbox' = [mailbox EXCEPT ![g] = Append(@, m)]
    PROVE  MailboxType'
<1>1. CASE g \in Gen
  BY <1>1, LifecycleAssumption DEF MailboxType
<1>2. CASE g \notin Gen
  BY <1>2 DEF MailboxType
<1> QED
  BY <1>1, <1>2

(* Taking a message leaves a mailbox. *)
LEMMA MailTail ==
    ASSUME MailboxType, NEW g \in Gen, mailbox[g] # <<>>,
           mailbox' = [mailbox EXCEPT ![g] = Tail(@)]
    PROVE  MailboxType'
  BY LifecycleAssumption DEF MailboxType

(* Every step keeps the types. *)
LEMMA TypeStep == TypeOK /\ [Next]_vars => TypeOK'
<1> SUFFICES ASSUME TypeOK, [Next]_vars PROVE TypeOK'
  OBVIOUS
<1>preset. /\ preset_tokens \in Nat /\ presetSeq \in Nat /\ running \in BOOLEAN
           /\ presetLock \subseteq Callers /\ firedPreset \subseteq Nat
  BY DEF TypeOK
<1>txs. agent_txs \in [Agents -> Gen \cup {0}]
  BY DEF TypeOK
<1>slots. agent_tokens \in [Agents -> Slot] /\ NoSlot \in Slot
  BY NullTypes DEF TypeOK
<1>fired. firedAgent \subseteq Token
  BY DEF TypeOK
<1>gen. nextGen \in Nat \ {0}
  BY DEF TypeOK
<1>loop. loop \in [Gen -> Loop]
  BY DEF TypeOK
<1>mail. MailboxType
  BY DEF TypeOK, MailboxType
<1>call. call \in [Callers -> Call]
  BY DEF TypeOK
<1>sender. sender \in [Senders -> Send]
  BY DEF TypeOK
<1>const. SpecAgents \in Seq(Agents) /\ MaxGen \in Nat
  BY LifecycleAssumption
<1>pcs. /\ {"idle", "next"} \cup StartPc \cup StopPc \subseteq CallPc
        /\ {"read_status", "insert_tx", "preset_token", "install_token"} \subseteq CallPc
        /\ {"take_tx", "take_token", "cancel", "stop_lock", "stopping", "next"} \subseteq CallPc
        /\ {"want_start", "poll_start", "starting", "recv", "want_process", "poll_process"} \subseteq LoopPc
        /\ {"processing", "config", "renew", "renew_slot"} \subseteq LoopPc
        /\ {"start_agent", "stop_agent", "start_preset", "stop_preset"} \subseteq AllOps
  BY DEF CallPc, StartPc, StopPc, LoopPc, AllOps
<1>1. ASSUME NEW c \in Callers, NEW op \in AllOps, NEW a \in Agents,
             CallAgentOp(c, op, a)
      PROVE  TypeOK'
  <2>1. call' \in [Callers -> Call]
    BY <1>1, <1>call, <1>pcs DEF CallAgentOp, Call
  <2> QED
    BY <1>1, <2>1 DEF CallAgentOp, TypeOK, MailboxType, presetVars, tokenVars, agentVars, loopVars, callVars, sendVars
<1>2. ASSUME NEW c \in Callers, StartPreset(c)
      PROVE  TypeOK'
  <2>1. CASE running
    BY <1>2, <2>1 DEF StartPreset, TypeOK, presetVars, tokenVars, agentVars, loopVars,
       callVars, sendVars
  <2>2. CASE ~running
    <3>1. /\ presetSeq' \in Nat /\ preset_tokens' \in Nat
          /\ presetLock' \subseteq Callers
          /\ firedPreset' \subseteq Nat
      BY <1>2, <2>2, <1>preset DEF StartPreset
    <3>2. running' \in BOOLEAN
      BY <1>2, <2>2, Zenon DEF StartPreset
    <3>3. call' \in [Callers -> Call]
      <4>1. call' = [call EXCEPT ![c].pc = "next", ![c].op = "start_preset",
                                 ![c].todo = SpecAgents]
        BY <1>2, <2>2, Zenon DEF StartPreset
      <4> QED
        BY <4>1, <1>call, <1>pcs, <1>const DEF Call
    <3> QED
      BY <1>2, <2>2, <3>1, <3>2, <3>3
      DEF StartPreset, TypeOK, tokenVars, agentVars, loopVars, callVars, sendVars
  <2> QED
    BY <2>1, <2>2
<1>3. ASSUME NEW c \in Callers, StopPreset(c)
      PROVE  TypeOK'
  <2>1. call' \in [Callers -> Call]
    BY <1>3, <1>call, <1>pcs, <1>const DEF StopPreset, Call
  <2> QED
    BY <1>3, <2>1 DEF StopPreset, TypeOK, MailboxType, presetVars, tokenVars, agentVars, loopVars, callVars, sendVars
<1>4. ASSUME NEW c \in Callers, NextAgent(c)
      PROVE  TypeOK'
  <2>0. /\ Head(call[c].todo) \in Agents
        /\ Tail(call[c].todo) \in Seq(Agents)
    <3>1. call[c].todo \in Seq(Agents) /\ call[c].todo # <<>>
      BY <1>4, <1>call DEF NextAgent, Call
    <3> QED
      BY <3>1
  <2>1. call' \in [Callers -> Call]
    BY <1>4, <2>0, <1>call, <1>pcs DEF NextAgent, Call
  <2> QED
    BY <1>4, <2>1 DEF NextAgent, TypeOK, MailboxType, presetVars, tokenVars, agentVars, loopVars, callVars, sendVars
<1>5. ASSUME NEW c \in Callers, FinishPreset(c)
      PROVE  TypeOK'
  <2>1. call' \in [Callers -> Call]
    BY <1>5, <1>call, NullTypes DEF FinishPreset
  <2>2. preset_tokens' \in Nat
    BY <1>5, <1>preset DEF FinishPreset
  <2>3. running' \in BOOLEAN
    BY <1>5, <1>preset, Zenon DEF FinishPreset
  <2> QED
    BY <1>5, <2>1, <2>2, <2>3 DEF FinishPreset, TypeOK, MailboxType, presetVars, tokenVars, agentVars, loopVars, callVars, sendVars
<1>6. ASSUME NEW c \in Callers, ReadStatus(c)
      PROVE  TypeOK'
  <2>1. call' \in [Callers -> Call]
    BY <1>6, <1>call, <1>pcs, GotoType, ReturnType DEF ReadStatus
  <2> QED
    BY <1>6, <2>1 DEF ReadStatus, TypeOK, MailboxType, presetVars, tokenVars, agentVars, loopVars, callVars, sendVars
<1>7. ASSUME NEW c \in Callers, InsertTx(c)
      PROVE  TypeOK'
  <2>1. call' \in [Callers -> Call]
    BY <1>7, <1>call, <1>pcs, <1>gen DEF InsertTx, Call
  <2>2. nextGen \in Gen
    BY <1>7, <1>gen, <1>const DEF InsertTx, Gen
  <2>3. agent_txs' \in [Agents -> Gen \cup {0}]
    BY <1>7, <2>2, <1>txs DEF InsertTx
  <2>4. nextGen' \in Nat \ {0}
    BY <1>7, <1>gen DEF InsertTx
  <2> QED
    BY <1>7, <2>1, <2>3, <2>4 DEF InsertTx, TypeOK, MailboxType, presetVars, tokenVars, agentVars, loopVars, callVars, sendVars
<1>8. ASSUME NEW c \in Callers, PresetToken(c)
      PROVE  TypeOK'
  <2>1. preset_tokens' \in Nat /\ presetSeq' \in Nat
    BY <1>8, <1>preset DEF PresetToken
  <2>2. call' \in [Callers -> Call]
    BY <1>8, <2>1, <1>call, <1>pcs DEF PresetToken, Call
  <2> QED
    BY <1>8, <2>1, <2>2 DEF PresetToken, TypeOK, MailboxType, presetVars, tokenVars, agentVars, loopVars, callVars, sendVars
<1>9. ASSUME NEW c \in Callers, InstallToken(c)
      PROVE  TypeOK'
  <2>1. call' \in [Callers -> Call]
    BY <1>9, <1>call, <1>pcs, ReturnType DEF InstallToken
  <2>2. [parent |-> call[c].parent, gen |-> call[c].gen, ver |-> 0] \in Token /\ call[c].agent \in Agents /\ call[c].gen \in Nat
    BY <1>9, <1>call DEF InstallToken, Token, Call
  <2>3. loop' \in [Gen -> Loop]
    BY <1>9, <2>2, <1>loop, <1>pcs DEF InstallToken, Loop
  <2>4. agent_tokens' \in [Agents -> Slot]
    BY <1>9, <2>2, <1>slots DEF InstallToken, Slot
  <2> QED
    BY <1>9, <2>1, <2>2, <2>3, <2>4 DEF InstallToken, TypeOK, MailboxType, presetVars, tokenVars, agentVars, loopVars, callVars, sendVars
<1>10. ASSUME NEW c \in Callers, TakeTx(c)
      PROVE  TypeOK'
  <2>1. call' \in [Callers -> Call]
    BY <1>10, <1>call, <1>pcs, GotoType DEF TakeTx
  <2>2. "Stop" \in Message
    BY <1>10 DEF TakeTx, Message
  <2>3. MailboxType'
    <3>1. CASE UNCHANGED mailbox
      BY <3>1, <1>mail DEF MailboxType
    <3>2. CASE ~UNCHANGED mailbox
      BY <1>10, <3>2, <2>2, <1>mail, MailAppend DEF TakeTx
    <3> QED
      BY <3>1, <3>2
  <2>4. agent_txs' \in [Agents -> Gen \cup {0}]
    BY <1>10, <1>txs DEF TakeTx
  <2> QED
    BY <1>10, <2>1, <2>2, <2>3, <2>4 DEF TakeTx, TypeOK, MailboxType, presetVars, tokenVars, agentVars, loopVars, callVars, sendVars
<1>11. ASSUME NEW c \in Callers, TakeToken(c)
      PROVE  TypeOK'
  <2>1. agent_tokens[call[c].agent].token \in Token
    BY <1>11, <1>call, <1>slots DEF TakeToken, Call, Slot
  <2>2. call' \in [Callers -> Call]
    BY <1>11, <2>1, <1>call, <1>pcs DEF TakeToken, Call
  <2> QED
    BY <1>11, <1>slots, <2>1, <2>2 DEF TakeToken, TypeOK, MailboxType, presetVars, tokenVars, agentVars, loopVars, callVars, sendVars
<1>12. ASSUME NEW c \in Callers, CancelToken(c)
      PROVE  TypeOK'
  <2>1. call' \in [Callers -> Call]
    BY <1>12, <1>call, <1>pcs, GotoType DEF CancelToken
  <2>2. firedAgent' \subseteq Token
    BY <1>12, <1>call, <1>fired DEF CancelToken, Call
  <2> QED
    BY <1>12, <2>1, <2>2 DEF CancelToken, TypeOK, MailboxType, presetVars, tokenVars, agentVars, loopVars, callVars, sendVars
<1>13. ASSUME NEW c \in Callers, StopLock(c)
      PROVE  TypeOK'
  <2>1. call' \in [Callers -> Call]
    BY <1>13, <1>call, <1>pcs, GotoType, ReturnType DEF StopLock
  <2> QED
    BY <1>13, <2>1 DEF StopLock, Status, TypeOK, MailboxType, presetVars, tokenVars, agentVars, loopVars, callVars, sendVars
<1>14. ASSUME NEW c \in Callers, StopDone(c)
      PROVE  TypeOK'
  <2>1. call' \in [Callers -> Call]
    BY <1>14, <1>call, ReturnType DEF StopDone
  <2> QED
    BY <1>14, <2>1 DEF StopDone, Status, TypeOK, MailboxType, presetVars, tokenVars, agentVars, loopVars, callVars, sendVars
<1>15. ASSUME NEW g \in Gen, PollStartToken(g)
      PROVE  TypeOK'
  <2>1. loop' \in [Gen -> Loop]
    BY <1>15, <1>loop, <1>pcs, LoopEndType, LoopGotoType DEF PollStartToken
  <2>2. MailboxType'
    <3>1. CASE UNCHANGED mailbox
      BY <3>1, <1>mail DEF MailboxType
    <3>2. CASE ~UNCHANGED mailbox
      BY <1>15, <3>2, <1>mail, LoopEndType DEF PollStartToken
    <3> QED
      BY <3>1, <3>2
  <2> QED
    BY <1>15, <2>1, <2>2 DEF PollStartToken, TypeOK, MailboxType, presetVars, tokenVars, agentVars, loopVars, callVars, sendVars
<1>16. ASSUME NEW g \in Gen, PollStart(g)
      PROVE  TypeOK'
  <2>1. loop' \in [Gen -> Loop]
    BY <1>16, <1>loop, <1>pcs, LoopGotoType DEF PollStart
  <2> QED
    BY <1>16, <2>1 DEF PollStart, Status, TypeOK, MailboxType, presetVars, tokenVars, agentVars, loopVars, callVars, sendVars
<1>17. ASSUME NEW g \in Gen, StartCancelled(g)
      PROVE  TypeOK'
  <2>1. loop' \in [Gen -> Loop]
    BY <1>17, <1>loop, LoopEndType DEF StartCancelled
  <2>2. MailboxType'
    BY <1>17, <1>mail, LoopEndType DEF StartCancelled
  <2> QED
    BY <1>17, <2>1, <2>2 DEF StartCancelled, Unlock, TypeOK, MailboxType, presetVars, tokenVars, agentVars, loopVars, callVars, sendVars
<1>18. ASSUME NEW g \in Gen, Recv(g)
      PROVE  TypeOK'
  <2>1. loop' \in [Gen -> Loop]
    BY <1>18, <1>loop, <1>pcs, LoopEndType, LoopGotoType DEF Recv
  <2>2. MailboxType'
    BY <1>18, <1>mail, LoopEndType, MailTail DEF Recv
  <2> QED
    BY <1>18, <2>1, <2>2 DEF Recv, TypeOK, MailboxType, presetVars, tokenVars, agentVars, loopVars, callVars, sendVars
<1>19. ASSUME NEW g \in Gen, RecvNone(g)
      PROVE  TypeOK'
  <2>1. loop' \in [Gen -> Loop]
    BY <1>19, <1>loop, LoopEndType DEF RecvNone
  <2>2. MailboxType'
    BY <1>19, <1>mail, LoopEndType DEF RecvNone
  <2> QED
    BY <1>19, <2>1, <2>2 DEF RecvNone, TypeOK, MailboxType, presetVars, tokenVars, agentVars, loopVars, callVars, sendVars
<1>20. ASSUME NEW g \in Gen, PollProcessToken(g)
      PROVE  TypeOK'
  <2>1. loop' \in [Gen -> Loop]
    BY <1>20, <1>loop, <1>pcs, LoopGotoType DEF PollProcessToken
  <2> QED
    BY <1>20, <2>1 DEF PollProcessToken, TypeOK, MailboxType, presetVars, tokenVars, agentVars, loopVars, callVars, sendVars
<1>21. ASSUME NEW g \in Gen, PollProcess(g)
      PROVE  TypeOK'
  <2>1. loop' \in [Gen -> Loop]
    BY <1>21, <1>loop, <1>pcs, LoopGotoType DEF PollProcess
  <2> QED
    BY <1>21, <2>1 DEF PollProcess, TypeOK, MailboxType, presetVars, tokenVars, agentVars, loopVars, callVars, sendVars
<1>22. ASSUME NEW g \in Gen, ProcessCancelled(g)
      PROVE  TypeOK'
  <2>1. loop' \in [Gen -> Loop]
    BY <1>22, <1>loop, <1>pcs, LoopGotoType DEF ProcessCancelled
  <2> QED
    BY <1>22, <2>1 DEF ProcessCancelled, Unlock, TypeOK, MailboxType, presetVars, tokenVars, agentVars, loopVars, callVars, sendVars
<1>23. ASSUME NEW g \in Gen, RenewLookup(g)
      PROVE  TypeOK'
  <2>1. loop' \in [Gen -> Loop]
    BY <1>23, <1>loop, <1>pcs, <1>preset, LoopGotoType DEF RenewLookup, Loop
  <2> QED
    BY <1>23, <2>1 DEF RenewLookup, TypeOK, MailboxType, presetVars, tokenVars, agentVars, loopVars, callVars, sendVars
<1>24. ASSUME NEW g \in Gen, RenewSlot(g)
      PROVE  TypeOK'
  <2>1. [parent |-> loop[g].parent, gen |-> g, ver |-> loop[g].token.ver + 1] \in Token
    BY <1>24, <1>loop DEF RenewSlot, Token, Loop, Gen
  <2>2. loop' \in [Gen -> Loop]
    BY <1>24, <2>1, <1>loop, <1>pcs DEF RenewSlot, Loop
  <2>3. agent_tokens' \in [Agents -> Slot]
    BY <1>24, <2>1, <1>slots DEF RenewSlot, Slot
  <2> QED
    BY <1>24, <2>1, <2>2, <2>3 DEF RenewSlot, TypeOK, MailboxType, presetVars, tokenVars, agentVars, loopVars, callVars, sendVars
<1>25. ASSUME NEW g \in Gen, ApplyConfig(g)
      PROVE  TypeOK'
  <2>1. loop' \in [Gen -> Loop]
    BY <1>25, <1>loop, <1>pcs, LoopGotoType DEF ApplyConfig
  <2> QED
    BY <1>25, <2>1 DEF ApplyConfig, TypeOK, MailboxType, presetVars, tokenVars, agentVars, loopVars, callVars, sendVars
<1>26. ASSUME NEW g \in Gen, StartOk(g)
      PROVE  TypeOK'
  <2>1. loop' \in [Gen -> Loop]
    BY <1>26, <1>loop, <1>pcs, LoopGotoType DEF StartOk
  <2> QED
    BY <1>26, <2>1 DEF StartOk, Unlock, TypeOK, MailboxType, presetVars, tokenVars, agentVars, loopVars, callVars, sendVars
<1>27. ASSUME NEW g \in Gen, StartErr(g)
      PROVE  TypeOK'
  <2>1. loop' \in [Gen -> Loop]
    BY <1>27, <1>loop, LoopEndType DEF StartErr
  <2>2. MailboxType'
    BY <1>27, <1>mail, LoopEndType DEF StartErr
  <2> QED
    BY <1>27, <2>1, <2>2 DEF StartErr, Unlock, TypeOK, MailboxType, presetVars, tokenVars, agentVars, loopVars, callVars, sendVars
<1>28. ASSUME NEW g \in Gen, ProcessDone(g)
      PROVE  TypeOK'
  <2>1. loop' \in [Gen -> Loop]
    BY <1>28, <1>loop, <1>pcs, LoopGotoType DEF ProcessDone
  <2> QED
    BY <1>28, <2>1 DEF ProcessDone, Unlock, TypeOK, MailboxType, presetVars, tokenVars, agentVars, loopVars, callVars, sendVars
<1>29. ASSUME NEW s \in Senders, NEW a \in Agents, NEW m \in Message,
             SendLookup(s, a, m)
      PROVE  TypeOK'
  <2>1. sender' \in [Senders -> Send]
    BY <1>29, <1>sender, <1>txs DEF SendLookup, Send, SendPc, Gen
  <2> QED
    BY <1>29, <2>1 DEF SendLookup, TypeOK, MailboxType, presetVars, tokenVars, agentVars, loopVars, callVars, sendVars
<1>30. ASSUME NEW s \in Senders, SendDirect(s)
      PROVE  TypeOK'
  <2>1. sender' \in [Senders -> Send]
    BY <1>30, <1>sender, NullTypes DEF SendDirect
  <2> QED
    BY <1>30, <2>1 DEF SendDirect, TypeOK, MailboxType, presetVars, tokenVars, agentVars, loopVars, callVars, sendVars
<1>31. ASSUME NEW s \in Senders, SendPush(s)
      PROVE  TypeOK'
  <2>1. sender' \in [Senders -> Send]
    BY <1>31, <1>sender, NullTypes DEF SendPush
  <2>2. sender[s].msg \in Message
    BY <1>31, <1>sender DEF SendPush, Send
  <2>3. MailboxType'
    <3>1. CASE UNCHANGED mailbox
      BY <3>1, <1>mail DEF MailboxType
    <3>2. CASE ~UNCHANGED mailbox
      BY <1>31, <3>2, <2>2, <1>mail, MailAppend DEF SendPush
    <3> QED
      BY <3>1, <3>2
  <2> QED
    BY <1>31, <2>1, <2>2, <2>3 DEF SendPush, TypeOK, MailboxType, presetVars, tokenVars, agentVars, loopVars, callVars, sendVars
<1>32. CASE UNCHANGED vars
  BY <1>32 DEF vars, TypeOK, presetVars, tokenVars, agentVars, loopVars, callVars, sendVars
<1> QED
  BY <1>1, <1>2, <1>3, <1>4, <1>5, <1>6, <1>7, <1>8, <1>9, <1>10, <1>11, <1>12,
     <1>13, <1>14, <1>15, <1>16, <1>17, <1>18, <1>19, <1>20, <1>21, <1>22, <1>23, <1>24,
     <1>25, <1>26, <1>27, <1>28, <1>29, <1>30, <1>31, <1>32
  DEF Next, CallStep, LoopStep, AgentCode, SendStep

(* Every variable of AgentLifecycle has its type in every reachable state, *)
(* and a mailbox never holds more messages than MESSAGE_LIMIT.             *)
THEOREM TypeCorrect == Spec => []TypeOK
<1>1. Init => TypeOK
  <2> SUFFICES ASSUME Init PROVE TypeOK
    OBVIOUS
  <2>1. loop \in [Gen -> Loop]
    BY NullTypes DEF Init, Loop, LoopPc
  <2>2. mailbox \in [Gen -> Seq(Message)] /\ \A g \in Gen : Len(mailbox[g]) <= Cap
    BY LifecycleAssumption DEF Init
  <2>3. call \in [Callers -> Call] /\ sender \in [Senders -> Send]
    BY NullTypes DEF Init
  <2>4. agent_tokens \in [Agents -> Slot] /\ status \in [Agents -> Status]
    BY NullTypes DEF Init, Status
  <2>5. running \in BOOLEAN /\ locked \in [Agents -> BOOLEAN]
    BY DEF Init
  <2>6. firedPreset \subseteq Nat /\ firedAgent \subseteq Token
    BY DEF Init
  <2>7. agent_txs \in [Agents -> Gen \cup {0}] /\ presetLock \subseteq Callers
    BY DEF Init
  <2>8. /\ preset_tokens \in Nat /\ presetSeq \in Nat /\ nextGen \in Nat \ {0}
        /\ calls \in Nat /\ sends \in Nat
    BY DEF Init
  <2> QED
    BY <2>1, <2>2, <2>3, <2>4, <2>5, <2>6, <2>7, <2>8 DEF TypeOK
<1> QED
  BY <1>1, TypeStep, PTL DEF Spec

-----------------------------------------------------------------------------
(* Token ownership.  Most steps move one loop or one call and leave the    *)
(* slots, the fired tokens and every other loop and call alone; they keep  *)
(* TokenInv for the same reasons, stated once.                             *)

(* A loop moves on with the token it has, or ends. *)
LEMMA LoopFrame ==
    ASSUME TypeOK, TokenInv, loop' \in [Gen -> Loop],
           NEW g \in Gen,
           UNCHANGED <<agent_tokens, firedAgent, nextGen, call>>,
           \A h \in Gen : h # g => loop'[h] = loop[h],
           Live(g),
           loop'[g].pc # "none",
           loop'[g].agent = loop[g].agent,
           loop'[g].pc # "done" => loop'[g].token = loop[g].token
    PROVE  TokenInv'
<1>1. \A h \in Gen : /\ loop[h].pc # "none" => loop'[h].pc # "none"
                     /\ loop'[h].agent = loop[h].agent
                     /\ loop[h].pc = "none" => loop'[h].pc = "none"
                     /\ Live(h)' => Live(h) /\ loop'[h].token = loop[h].token
  BY DEF Live
<1>2. SlotInv'
  BY <1>1 DEF TokenInv, SlotInv
<1>3. ASSUME NEW t, Retired(t) PROVE Retired(t)'
  BY <1>1, <1>3 DEF Retired
<1>4. RetiredInv'
  BY <1>3 DEF TokenInv, RetiredInv
<1>5. SpawnInv'
  BY <1>1 DEF TokenInv, SpawnInv, Spawning
<1> QED
  BY <1>2, <1>4, <1>5 DEF TokenInv

(* Where a call is after Goto and AgentOpReturns. *)
LEMMA CallMoves ==
    ASSUME call \in [Callers -> Call], NEW c \in Callers
    PROVE  /\ \A pc : Goto(c, pc) =>
                /\ call'[c].pc = pc
                /\ \A d \in Callers : d # c => call'[d] = call[d]
           /\ AgentOpReturns(c) =>
                /\ call'[c].pc \in {"idle", "next"}
                /\ \A d \in Callers : d # c => call'[d] = call[d]
<1>1. \A pc : Goto(c, pc) => /\ call'[c].pc = pc
                             /\ \A d \in Callers : d # c => call'[d] = call[d]
  BY DEF Goto, Call
<1>2. AgentOpReturns(c) => /\ call'[c].pc \in {"idle", "next"}
                           /\ \A d \in Callers : d # c => call'[d] = call[d]
  BY DEF AgentOpReturns, IdleCall
<1> QED
  BY <1>1, <1>2

(* A call moves on without touching tokens. *)
LEMMA CallFrame ==
    ASSUME TypeOK, TokenInv,
           NEW c \in Callers,
           UNCHANGED <<agent_tokens, firedAgent, nextGen, loop>>,
           \A d \in Callers : d # c => call'[d] = call[d],
           call'[c].pc # "cancel",
           Spawning(c)' => Spawning(c) /\ call'[c].gen = call[c].gen
    PROVE  TokenInv'
<1>1. SlotInv'
  BY DEF TokenInv, SlotInv, Live
<1>2. \A t : Retired(t) => Retired(t)'
  BY DEF Retired, Live
<1>3. RetiredInv'
  BY <1>2 DEF TokenInv, RetiredInv
<1>4. SpawnInv'
  BY DEF TokenInv, SpawnInv, Spawning
<1> QED
  BY <1>1, <1>3, <1>4 DEF TokenInv

(* Every step keeps TokenInv. *)
LEMMA TokenStep == TypeOK /\ TokenInv /\ [Next]_vars => TokenInv'
<1> SUFFICES ASSUME TypeOK, TokenInv, [Next]_vars PROVE TokenInv'
  OBVIOUS
<1>t. TypeOK'
  BY TypeStep
<1>call. call \in [Callers -> Call]
  BY DEF TypeOK
<1>loop. loop \in [Gen -> Loop] /\ loop' \in [Gen -> Loop]
  BY <1>t DEF TypeOK
<1>1. ASSUME NEW c \in Callers, NEW op \in AllOps, NEW a \in Agents,
             CallAgentOp(c, op, a)
      PROVE  TokenInv'
  <2>1. /\ \A d \in Callers : d # c => call'[d] = call[d]
        /\ call'[c].pc \notin {"cancel", "preset_token", "install_token"}
    BY <1>1, <1>call DEF CallAgentOp, Call, IdleCall
  <2> QED
    BY <1>1, <2>1, CallFrame DEF CallAgentOp, Spawning, tokenVars, loopVars
<1>2. ASSUME NEW c \in Callers, StartPreset(c)
      PROVE  TokenInv'
  <2>1. /\ \A d \in Callers : d # c => call'[d] = call[d]
        /\ call'[c].pc \notin {"cancel", "preset_token", "install_token"}
    BY <1>2, <1>call DEF StartPreset, Call, IdleCall
  <2> QED
    BY <1>2, <2>1, CallFrame DEF StartPreset, Spawning, tokenVars, loopVars
<1>3. ASSUME NEW c \in Callers, StopPreset(c)
      PROVE  TokenInv'
  <2>1. /\ \A d \in Callers : d # c => call'[d] = call[d]
        /\ call'[c].pc \notin {"cancel", "preset_token", "install_token"}
    BY <1>3, <1>call DEF StopPreset, Call, IdleCall
  <2> QED
    BY <1>3, <2>1, CallFrame DEF StopPreset, Spawning, tokenVars, loopVars
<1>4. ASSUME NEW c \in Callers, NextAgent(c)
      PROVE  TokenInv'
  <2>1. /\ \A d \in Callers : d # c => call'[d] = call[d]
        /\ call'[c].pc \notin {"cancel", "preset_token", "install_token"}
    BY <1>4, <1>call DEF NextAgent, Call, IdleCall
  <2> QED
    BY <1>4, <2>1, CallFrame DEF NextAgent, Spawning, tokenVars, loopVars
<1>5. ASSUME NEW c \in Callers, FinishPreset(c)
      PROVE  TokenInv'
  <2>1. /\ \A d \in Callers : d # c => call'[d] = call[d]
        /\ call'[c].pc \notin {"cancel", "preset_token", "install_token"}
    BY <1>5, <1>call DEF FinishPreset, Call, IdleCall
  <2> QED
    BY <1>5, <2>1, CallFrame DEF FinishPreset, Spawning, tokenVars, loopVars
<1>6. ASSUME NEW c \in Callers, ReadStatus(c)
      PROVE  TokenInv'
  <2>1. /\ \A d \in Callers : d # c => call'[d] = call[d]
        /\ call'[c].pc \notin {"cancel", "preset_token", "install_token"}
    BY <1>6, <1>call, CallMoves DEF ReadStatus
  <2> QED
    BY <1>6, <2>1, CallFrame DEF ReadStatus, Spawning, tokenVars, loopVars
<1>7. ASSUME NEW c \in Callers, TakeTx(c)
      PROVE  TokenInv'
  <2>1. /\ \A d \in Callers : d # c => call'[d] = call[d]
        /\ call'[c].pc \notin {"cancel", "preset_token", "install_token"}
    BY <1>7, <1>call DEF TakeTx, Goto, Call, IdleCall
  <2> QED
    BY <1>7, <2>1, CallFrame DEF TakeTx, Spawning, tokenVars, loopVars
<1>8. ASSUME NEW c \in Callers, StopLock(c)
      PROVE  TokenInv'
  <2>1. /\ \A d \in Callers : d # c => call'[d] = call[d]
        /\ call'[c].pc \notin {"cancel", "preset_token", "install_token"}
    BY <1>8, <1>call, CallMoves DEF StopLock
  <2> QED
    BY <1>8, <2>1, CallFrame DEF StopLock, Spawning, tokenVars, loopVars
<1>9. ASSUME NEW c \in Callers, StopDone(c)
      PROVE  TokenInv'
  <2>1. /\ \A d \in Callers : d # c => call'[d] = call[d]
        /\ call'[c].pc \notin {"cancel", "preset_token", "install_token"}
    BY <1>9, <1>call DEF StopDone, AgentOpReturns, InPreset, Call, IdleCall
  <2> QED
    BY <1>9, <2>1, CallFrame DEF StopDone, Spawning, tokenVars, loopVars
<1>10. ASSUME NEW g \in Gen, PollStartToken(g)
      PROVE  TokenInv'
  <2>1. /\ \A h \in Gen : h # g => loop'[h] = loop[h]
        /\ Live(g)
        /\ loop'[g].pc # "none"
        /\ loop'[g].agent = loop[g].agent
        /\ loop'[g].pc # "done" => loop'[g].token = loop[g].token
    BY <1>10, <1>loop DEF PollStartToken, LoopEnd, LoopGoto, Loop, Live
  <2> QED
    BY <1>10, <1>loop, <2>1, LoopFrame DEF PollStartToken, tokenVars, callVars
<1>11. ASSUME NEW g \in Gen, PollStart(g)
      PROVE  TokenInv'
  <2>1. /\ \A h \in Gen : h # g => loop'[h] = loop[h]
        /\ Live(g)
        /\ loop'[g].pc # "none"
        /\ loop'[g].agent = loop[g].agent
        /\ loop'[g].pc # "done" => loop'[g].token = loop[g].token
    BY <1>11, <1>loop DEF PollStart, LoopGoto, Loop, Live
  <2> QED
    BY <1>11, <1>loop, <2>1, LoopFrame DEF PollStart, tokenVars, callVars
<1>12. ASSUME NEW g \in Gen, StartCancelled(g)
      PROVE  TokenInv'
  <2>1. /\ \A h \in Gen : h # g => loop'[h] = loop[h]
        /\ Live(g)
        /\ loop'[g].pc # "none"
        /\ loop'[g].agent = loop[g].agent
        /\ loop'[g].pc # "done" => loop'[g].token = loop[g].token
    BY <1>12, <1>loop DEF StartCancelled, LoopEnd, Unlock, Loop, Live
  <2> QED
    BY <1>12, <1>loop, <2>1, LoopFrame DEF StartCancelled, tokenVars, callVars
<1>13. ASSUME NEW g \in Gen, Recv(g)
      PROVE  TokenInv'
  <2>1. /\ \A h \in Gen : h # g => loop'[h] = loop[h]
        /\ Live(g)
        /\ loop'[g].pc # "none"
        /\ loop'[g].agent = loop[g].agent
        /\ loop'[g].pc # "done" => loop'[g].token = loop[g].token
    BY <1>13, <1>loop DEF Recv, LoopEnd, LoopGoto, Loop, Live
  <2> QED
    BY <1>13, <1>loop, <2>1, LoopFrame DEF Recv, tokenVars, callVars
<1>14. ASSUME NEW g \in Gen, RecvNone(g)
      PROVE  TokenInv'
  <2>1. /\ \A h \in Gen : h # g => loop'[h] = loop[h]
        /\ Live(g)
        /\ loop'[g].pc # "none"
        /\ loop'[g].agent = loop[g].agent
        /\ loop'[g].pc # "done" => loop'[g].token = loop[g].token
    BY <1>14, <1>loop DEF RecvNone, LoopEnd, Loop, Live
  <2> QED
    BY <1>14, <1>loop, <2>1, LoopFrame DEF RecvNone, tokenVars, callVars
<1>15. ASSUME NEW g \in Gen, PollProcessToken(g)
      PROVE  TokenInv'
  <2>1. /\ \A h \in Gen : h # g => loop'[h] = loop[h]
        /\ Live(g)
        /\ loop'[g].pc # "none"
        /\ loop'[g].agent = loop[g].agent
        /\ loop'[g].pc # "done" => loop'[g].token = loop[g].token
    BY <1>15, <1>loop DEF PollProcessToken, LoopGoto, Loop, Live
  <2> QED
    BY <1>15, <1>loop, <2>1, LoopFrame DEF PollProcessToken, tokenVars, callVars
<1>16. ASSUME NEW g \in Gen, PollProcess(g)
      PROVE  TokenInv'
  <2>1. /\ \A h \in Gen : h # g => loop'[h] = loop[h]
        /\ Live(g)
        /\ loop'[g].pc # "none"
        /\ loop'[g].agent = loop[g].agent
        /\ loop'[g].pc # "done" => loop'[g].token = loop[g].token
    BY <1>16, <1>loop DEF PollProcess, LoopGoto, Loop, Live
  <2> QED
    BY <1>16, <1>loop, <2>1, LoopFrame DEF PollProcess, tokenVars, callVars
<1>17. ASSUME NEW g \in Gen, ProcessCancelled(g)
      PROVE  TokenInv'
  <2>1. /\ \A h \in Gen : h # g => loop'[h] = loop[h]
        /\ Live(g)
        /\ loop'[g].pc # "none"
        /\ loop'[g].agent = loop[g].agent
        /\ loop'[g].pc # "done" => loop'[g].token = loop[g].token
    BY <1>17, <1>loop DEF ProcessCancelled, LoopGoto, Unlock, Loop, Live
  <2> QED
    BY <1>17, <1>loop, <2>1, LoopFrame DEF ProcessCancelled, tokenVars, callVars
<1>18. ASSUME NEW g \in Gen, RenewLookup(g)
      PROVE  TokenInv'
  <2>1. /\ \A h \in Gen : h # g => loop'[h] = loop[h]
        /\ Live(g)
        /\ loop'[g].pc # "none"
        /\ loop'[g].agent = loop[g].agent
        /\ loop'[g].pc # "done" => loop'[g].token = loop[g].token
    BY <1>18, <1>loop DEF RenewLookup, LoopGoto, Loop, Live
  <2> QED
    BY <1>18, <1>loop, <2>1, LoopFrame DEF RenewLookup, tokenVars, callVars
<1>19. ASSUME NEW g \in Gen, ApplyConfig(g)
      PROVE  TokenInv'
  <2>1. /\ \A h \in Gen : h # g => loop'[h] = loop[h]
        /\ Live(g)
        /\ loop'[g].pc # "none"
        /\ loop'[g].agent = loop[g].agent
        /\ loop'[g].pc # "done" => loop'[g].token = loop[g].token
    BY <1>19, <1>loop DEF ApplyConfig, LoopGoto, Loop, Live
  <2> QED
    BY <1>19, <1>loop, <2>1, LoopFrame DEF ApplyConfig, tokenVars, callVars
<1>20. ASSUME NEW g \in Gen, StartOk(g)
      PROVE  TokenInv'
  <2>1. /\ \A h \in Gen : h # g => loop'[h] = loop[h]
        /\ Live(g)
        /\ loop'[g].pc # "none"
        /\ loop'[g].agent = loop[g].agent
        /\ loop'[g].pc # "done" => loop'[g].token = loop[g].token
    BY <1>20, <1>loop DEF StartOk, LoopGoto, Unlock, Loop, Live
  <2> QED
    BY <1>20, <1>loop, <2>1, LoopFrame DEF StartOk, tokenVars, callVars
<1>21. ASSUME NEW g \in Gen, StartErr(g)
      PROVE  TokenInv'
  <2>1. /\ \A h \in Gen : h # g => loop'[h] = loop[h]
        /\ Live(g)
        /\ loop'[g].pc # "none"
        /\ loop'[g].agent = loop[g].agent
        /\ loop'[g].pc # "done" => loop'[g].token = loop[g].token
    BY <1>21, <1>loop DEF StartErr, LoopEnd, Unlock, Loop, Live
  <2> QED
    BY <1>21, <1>loop, <2>1, LoopFrame DEF StartErr, tokenVars, callVars
<1>22. ASSUME NEW g \in Gen, ProcessDone(g)
      PROVE  TokenInv'
  <2>1. /\ \A h \in Gen : h # g => loop'[h] = loop[h]
        /\ Live(g)
        /\ loop'[g].pc # "none"
        /\ loop'[g].agent = loop[g].agent
        /\ loop'[g].pc # "done" => loop'[g].token = loop[g].token
    BY <1>22, <1>loop DEF ProcessDone, LoopGoto, Unlock, Loop, Live
  <2> QED
    BY <1>22, <1>loop, <2>1, LoopFrame DEF ProcessDone, tokenVars, callVars
<1>23. ASSUME NEW s \in Senders, NEW a \in Agents, NEW m \in Message,
             SendLookup(s, a, m)
      PROVE  TokenInv'
  <2>1. UNCHANGED <<agent_tokens, firedAgent, nextGen, loop, call>>
    BY <1>23 DEF SendLookup, tokenVars, loopVars, callVars
  <2> QED
    BY <2>1 DEF TokenInv, SlotInv, RetiredInv, Retired, SpawnInv, Spawning, Live
<1>24. ASSUME NEW s \in Senders, SendDirect(s)
      PROVE  TokenInv'
  <2>1. UNCHANGED <<agent_tokens, firedAgent, nextGen, loop, call>>
    BY <1>24 DEF SendDirect, tokenVars, loopVars, callVars
  <2> QED
    BY <2>1 DEF TokenInv, SlotInv, RetiredInv, Retired, SpawnInv, Spawning, Live
<1>25. ASSUME NEW s \in Senders, SendPush(s)
      PROVE  TokenInv'
  <2>1. UNCHANGED <<agent_tokens, firedAgent, nextGen, loop, call>>
    BY <1>25 DEF SendPush, tokenVars, loopVars, callVars
  <2> QED
    BY <2>1 DEF TokenInv, SlotInv, RetiredInv, Retired, SpawnInv, Spawning, Live
<1>26. ASSUME NEW c \in Callers, InsertTx(c)
      PROVE  TokenInv'
  <2>1. nextGen \in Gen
    BY <1>26, LifecycleAssumption DEF InsertTx, TypeOK, Gen
  <2>2. /\ UNCHANGED <<agent_tokens, firedAgent, loop>>
        /\ nextGen' = nextGen + 1
        /\ \A d \in Callers : d # c => call'[d] = call[d]
        /\ call'[c].pc = "preset_token"
        /\ call'[c].gen = nextGen
    BY <1>26, <1>call DEF InsertTx, tokenVars, Call
  <2>3. SlotInv'
    BY <2>2 DEF TokenInv, SlotInv, Live
  <2>4. \A t : Retired(t) => Retired(t)'
    BY <2>2 DEF Retired, Live
  <2>5. RetiredInv'
    BY <2>2, <2>4 DEF TokenInv, RetiredInv
  <2>6. SpawnInv'
    <3>1. nextGen \in Nat /\ \A g \in Gen : g \in Nat
      BY DEF TypeOK, Gen
    <3>2. loop[nextGen].pc = "none"
      BY <2>1, <3>1 DEF TokenInv, SpawnInv
    <3>3. \A d \in Callers : Spawning(d)' /\ d # c =>
                /\ Spawning(d) /\ call'[d].gen = call[d].gen
                /\ call[d].gen \in Gen /\ call[d].gen < nextGen
                /\ loop[call[d].gen].pc = "none"
      BY <2>2 DEF TokenInv, SpawnInv, Spawning
    <3>4. \A d \in Callers : Spawning(d)' =>
                /\ call'[d].gen \in Gen
                /\ call'[d].gen < nextGen'
                /\ loop'[call'[d].gen].pc = "none"
      <4> SUFFICES ASSUME NEW d \in Callers, Spawning(d)'
                   PROVE  /\ call'[d].gen \in Gen
                          /\ call'[d].gen < nextGen'
                          /\ loop'[call'[d].gen].pc = "none"
        OBVIOUS
      <4>1. CASE d = c
        BY <4>1, <2>1, <2>2, <3>1, <3>2
      <4>2. CASE d # c
        <5>1. /\ call'[d].gen = call[d].gen /\ call[d].gen \in Gen
              /\ call[d].gen < nextGen /\ loop[call[d].gen].pc = "none"
          BY <4>2, <3>3
        <5> QED
          BY <5>1, <2>2, <3>1
      <4> QED
        BY <4>1, <4>2
    <3>5. \A d, e \in Callers :
                (d # e /\ Spawning(d)' /\ Spawning(e)') => call'[d].gen # call'[e].gen
      BY <2>2, <3>1, <3>3 DEF TokenInv, SpawnInv
    <3>6. \A g \in Gen : g >= nextGen' => loop'[g].pc = "none"
      BY <2>2, <3>1 DEF TokenInv, SpawnInv
    <3> QED
      BY <3>4, <3>5, <3>6 DEF SpawnInv
  <2> QED
    BY <2>3, <2>5, <2>6 DEF TokenInv
<1>27. ASSUME NEW c \in Callers, PresetToken(c)
      PROVE  TokenInv'
  <2>1. /\ \A d \in Callers : d # c => call'[d] = call[d]
        /\ call'[c].pc = "install_token"
        /\ call'[c].gen = call[c].gen
        /\ Spawning(c)
    BY <1>27, <1>call DEF PresetToken, Call, Spawning
  <2> QED
    BY <1>27, <2>1, CallFrame DEF PresetToken, tokenVars, loopVars
<1>28. ASSUME NEW c \in Callers, InstallToken(c)
      PROVE  TokenInv'
  <2> DEFINE g == call[c].gen
             a == call[c].agent
             t == [parent |-> call[c].parent, gen |-> g, ver |-> 0]
  <2>1. /\ UNCHANGED <<firedAgent, nextGen>>
        /\ \A d \in Callers : d # c => call'[d] = call[d]
        /\ call'[c].pc \notin {"cancel", "preset_token", "install_token"}
    BY <1>28, <1>call DEF InstallToken, AgentOpReturns, IdleCall, Call
  <2>2. /\ g \in Gen /\ g < nextGen /\ loop[g].pc = "none" /\ a \in Agents
        /\ \A d \in Callers : d # c /\ Spawning(d) => call[d].gen # g
    BY <1>28, <1>call DEF InstallToken, TokenInv, SpawnInv, Spawning, Call
  <2>3. /\ loop'[g].pc = "want_start" /\ loop'[g].agent = a /\ loop'[g].token = t
        /\ \A h \in Gen : h # g => loop'[h] = loop[h]
    BY <1>28, <1>loop, <2>2 DEF InstallToken
  <2>4. /\ agent_tokens'[a].gen = g /\ agent_tokens'[a].token = t
        /\ \A b \in Agents : b # a => agent_tokens'[b] = agent_tokens[b]
    BY <1>28, <2>2 DEF InstallToken, TypeOK
  <2>5. t.gen = g
    OBVIOUS
  <2> HIDE DEF g, a, t
  <2>6. \A b \in Agents : agent_tokens[b].gen # g
    BY <2>2 DEF TokenInv, SlotInv, NoSlot, Gen
  <2>7. SlotInv'
    <3> SUFFICES ASSUME NEW b \in Agents, agent_tokens'[b] # NoSlot
                 PROVE  /\ agent_tokens'[b].gen \in Gen
                        /\ agent_tokens'[b].token.gen = agent_tokens'[b].gen
                        /\ loop'[agent_tokens'[b].gen].pc # "none"
                        /\ loop'[agent_tokens'[b].gen].agent = b
                        /\ Live(agent_tokens[b].gen)' =>
                             loop'[agent_tokens'[b].gen].token = agent_tokens'[b].token
      BY DEF SlotInv
    <3>1. CASE b = a
      BY <3>1, <2>2, <2>3, <2>4, <2>5
    <3>2. CASE b # a
      BY <3>2, <2>3, <2>4, <2>6 DEF TokenInv, SlotInv, Live
    <3> QED
      BY <3>1, <3>2
  <2>8. ASSUME NEW u, Retired(u) PROVE Retired(u)'
    BY <2>2, <2>3, <2>4, <2>8 DEF Retired, Live
  <2>9. RetiredInv'
    BY <2>1, <2>8 DEF TokenInv, RetiredInv
  <2>10. SpawnInv'
    <3>1. \A d \in Callers : Spawning(d)' =>
                Spawning(d) /\ d # c /\ call'[d] = call[d] /\ call[d].gen # g
      BY <2>1, <2>2 DEF Spawning
    <3>2. \A d \in Callers : Spawning(d)' =>
                /\ call'[d].gen \in Gen
                /\ call'[d].gen < nextGen'
                /\ loop'[call'[d].gen].pc = "none"
      BY <2>1, <2>3, <3>1 DEF TokenInv, SpawnInv
    <3>3. \A d, e \in Callers :
                (d # e /\ Spawning(d)' /\ Spawning(e)') => call'[d].gen # call'[e].gen
      BY <3>1 DEF TokenInv, SpawnInv
    <3>4. \A h \in Gen : h >= nextGen' => loop'[h].pc = "none"
      <4>1. g \in Nat /\ nextGen \in Nat
        BY <2>2 DEF Gen, TypeOK
      <4>2. \A h \in Gen : h >= nextGen => h # g
        BY <2>2, <4>1 DEF Gen
      <4> QED
        BY <2>1, <2>3, <4>2 DEF TokenInv, SpawnInv
    <3> QED
      BY <3>2, <3>3, <3>4 DEF SpawnInv
  <2> QED
    BY <2>7, <2>9, <2>10 DEF TokenInv
<1>29. ASSUME NEW c \in Callers, TakeToken(c)
      PROVE  TokenInv'
  <2> DEFINE a == call[c].agent
             t == agent_tokens[a].token
  <2>1. /\ UNCHANGED <<firedAgent, nextGen, loop>>
        /\ \A d \in Callers : d # c => call'[d] = call[d]
        /\ call'[c].pc = "cancel" /\ call'[c].token = t
    BY <1>29, <1>call DEF TakeToken, Call, loopVars
  <2>2. /\ a \in Agents
        /\ agent_tokens'[a] = NoSlot
        /\ \A b \in Agents : b # a => agent_tokens'[b] = agent_tokens[b]
    BY <1>29, <1>call DEF TakeToken, TypeOK, Call
  <2> HIDE DEF a
  <2>3. SlotInv'
    BY <2>1, <2>2 DEF TokenInv, SlotInv, Live
  <2>4. ASSUME NEW u, Retired(u) PROVE Retired(u)'
    BY <2>1, <2>2, <2>4 DEF Retired, Live, NoSlot, Gen
  <2>5. ASSUME NEW u, u = t, u # NoToken PROVE Retired(u)'
    <3>1. agent_tokens[a] # NoSlot
      BY <2>5 DEF NoSlot, NoToken
    <3>2. /\ agent_tokens[a].gen \in Gen
          /\ u.gen = agent_tokens[a].gen
          /\ loop[u.gen].pc # "none"
          /\ loop[u.gen].agent = a
          /\ Live(u.gen) => loop[u.gen].token = u
      BY <2>2, <2>5, <3>1 DEF TokenInv, SlotInv
    <3>3. \A b \in Agents : b # a => agent_tokens[b].gen # u.gen
      BY <3>2 DEF TokenInv, SlotInv, NoSlot, Gen
    <3> QED
      BY <2>1, <2>2, <3>2, <3>3 DEF Retired, Live, NoSlot, Gen
  <2>6. RetiredInv'
    BY <2>1, <2>4, <2>5 DEF TokenInv, RetiredInv
  <2>7. SpawnInv'
    BY <2>1 DEF TokenInv, SpawnInv, Spawning
  <2> QED
    BY <2>3, <2>6, <2>7 DEF TokenInv
<1>30. ASSUME NEW c \in Callers, CancelToken(c)
      PROVE  TokenInv'
  <2>1. /\ UNCHANGED <<agent_tokens, nextGen, loop>>
        /\ \A d \in Callers : d # c => call'[d] = call[d]
        /\ call[c].pc = "cancel"
        /\ call'[c].pc = "stop_lock"
        /\ firedAgent' = firedAgent \cup ({call[c].token} \ {NoToken})
    BY <1>30, <1>call DEF CancelToken, Goto, Call, loopVars
  <2>2. SlotInv'
    BY <2>1 DEF TokenInv, SlotInv, Live
  <2>3. \A u : Retired(u) => Retired(u)'
    BY <2>1 DEF Retired, Live
  <2>4. RetiredInv'
    BY <2>1, <2>3 DEF TokenInv, RetiredInv
  <2>5. SpawnInv'
    BY <2>1 DEF TokenInv, SpawnInv, Spawning
  <2> QED
    BY <2>2, <2>4, <2>5 DEF TokenInv
<1>31. ASSUME NEW g \in Gen, RenewSlot(g)
      PROVE  TokenInv'
  <2> DEFINE a == loop[g].agent
             fresh == [parent |-> loop[g].parent, gen |-> g,
                       ver |-> loop[g].token.ver + 1]
  <2>1. CASE agent_tokens[a].gen # g
    <3>1. /\ \A h \in Gen : h # g => loop'[h] = loop[h]
          /\ Live(g)
          /\ loop'[g].pc # "none"
          /\ loop'[g].agent = loop[g].agent
          /\ loop'[g].token = loop[g].token
          /\ UNCHANGED agent_tokens
      BY <1>31, <2>1, <1>loop DEF RenewSlot, Loop, Live
    <3> QED
      BY <1>31, <1>loop, <3>1, LoopFrame DEF RenewSlot, callVars
  <2>2. CASE agent_tokens[a].gen = g
    <3>1. /\ UNCHANGED <<firedAgent, nextGen, call>>
          /\ loop[g].pc = "renew_slot"
          /\ a \in Agents
      BY <1>31, <1>loop DEF RenewSlot, callVars, Loop
    <3>2. /\ loop'[g].pc = "recv" /\ loop'[g].agent = a /\ loop'[g].token = fresh
          /\ \A h \in Gen : h # g => loop'[h] = loop[h]
      BY <1>31, <2>2, <1>loop DEF RenewSlot, Loop
    <3>3. /\ agent_tokens'[a].gen = g /\ agent_tokens'[a].token = fresh
          /\ \A b \in Agents : b # a => agent_tokens'[b] = agent_tokens[b]
      <4>1. agent_tokens \in [Agents -> Slot]
        BY DEF TypeOK
      <4>2. agent_tokens' = [agent_tokens EXCEPT ![a].token = fresh]
        BY <1>31, <2>2 DEF RenewSlot
      <4> QED
        BY <2>2, <3>1, <4>1, <4>2 DEF Slot
    <3>4. fresh.gen = g
      OBVIOUS
    <3> HIDE DEF a, fresh
    <3>5. \A b \in Agents : b # a => agent_tokens[b].gen # g
      BY <2>2, <3>1 DEF TokenInv, SlotInv, NoSlot, Gen, a
    <3>6. SlotInv'
      <4> SUFFICES ASSUME NEW b \in Agents, agent_tokens'[b] # NoSlot
                   PROVE  /\ agent_tokens'[b].gen \in Gen
                          /\ agent_tokens'[b].token.gen = agent_tokens'[b].gen
                          /\ loop'[agent_tokens'[b].gen].pc # "none"
                          /\ loop'[agent_tokens'[b].gen].agent = b
                          /\ Live(agent_tokens[b].gen)' =>
                               loop'[agent_tokens'[b].gen].token = agent_tokens'[b].token
        BY DEF SlotInv
      <4>1. CASE b = a
        BY <4>1, <3>2, <3>3, <3>4
      <4>2. CASE b # a
        BY <4>2, <3>2, <3>3, <3>5 DEF TokenInv, SlotInv, Live
      <4> QED
        BY <4>1, <4>2
    <3>7. ASSUME NEW u, Retired(u) PROVE Retired(u)'
      <4>1. u.gen # g
        BY <2>2, <3>1, <3>7 DEF Retired
      <4> QED
        BY <4>1, <3>2, <3>3, <3>7 DEF Retired, Live
    <3>8. RetiredInv'
      BY <3>1, <3>7 DEF TokenInv, RetiredInv
    <3>9. SpawnInv'
      BY <3>1, <3>2 DEF TokenInv, SpawnInv, Spawning
    <3> QED
      BY <3>6, <3>8, <3>9 DEF TokenInv
  <2> QED
    BY <2>1, <2>2
<1>32. CASE UNCHANGED vars
  BY <1>32 DEF vars, tokenVars, loopVars, callVars, TokenInv, SlotInv, RetiredInv,
             Retired, SpawnInv, Spawning, Live
<1> QED
  BY <1>1, <1>2, <1>3, <1>4, <1>5, <1>6, <1>7, <1>8, <1>9, <1>10, <1>11, <1>12,
     <1>13, <1>14, <1>15, <1>16, <1>17, <1>18, <1>19, <1>20, <1>21, <1>22, <1>23, <1>24,
     <1>25, <1>26, <1>27, <1>28, <1>29, <1>30, <1>31, <1>32
  DEF Next, CallStep, LoopStep, AgentCode, SendStep

(* Hence all reachable states have the types and the token invariant. *)
LEMMA TokenInvariant == Spec => [](TypeOK /\ TokenInv)
<1>1. Init => TokenInv
  BY LifecycleAssumption
  DEF Init, TokenInv, SlotInv, RetiredInv, SpawnInv, Spawning, IdleCall
<1> QED
  BY <1>1, TypeCorrect, TokenStep, PTL DEF Spec

(* Whatever starts, stops, renewals and restarts interleave, the token     *)
(* stop_agent takes from an agent's slot is the one its loop listens to.   *)
THEOREM SlotReachesLoopAlways == Spec => []SlotReachesLoop
<1>1. TokenInv => SlotReachesLoop
  BY DEF TokenInv, SlotInv, SlotReachesLoop
<1> QED
  BY <1>1, TokenInvariant, PTL

(* A loop whose token stop_agent has cancelled never gets another one, so  *)
(* it skips the inputs queued ahead of Stop instead of processing them.    *)
THEOREM CancelledLoopStaysCancelled == Spec => []CancelledLoopKeepsFiredToken
<1>1. TokenInv => CancelledLoopKeepsFiredToken
  BY DEF TokenInv, RetiredInv, Retired, CancelledLoopKeepsFiredToken
<1> QED
  BY <1>1, TokenInvariant, PTL
-----------------------------------------------------------------------------
(* Preset::stop against renewals.  The preset's token moves on only under  *)
(* the preset's lock, so the parents of live tokens are the current one    *)
(* and cancelled ones.  Valid while start_agent is called by Preset::start *)
(* alone: on its own it gives a stopped preset a token again.              *)

InStart(c) == call[c].pc # "idle" /\ call[c].op = "start_preset"
InStop(c) == call[c].pc # "idle" /\ call[c].op = "stop_preset"

(* One Preset::start or Preset::stop at a time; start keeps the token it   *)
(* installed, stop has cancelled the one it found, and a preset at rest    *)
(* has a token only while it is running.                                   *)
LockInv ==
    /\ \A c \in Callers : InStart(c) \/ InStop(c) => presetLock = {c}
    /\ \A c \in Callers : call[c].pc = "next" => InStart(c) \/ InStop(c)
    /\ \A c \in Callers : call[c].pc \in StartPc => call[c].op = "start_preset"
    /\ \A c \in Callers : InStart(c) => running /\ preset_tokens # 0
    /\ \A c \in Callers : call[c].pc = "install_token" => call[c].parent = preset_tokens
    /\ \A c \in Callers : InStop(c) => preset_tokens \in firedPreset \cup {0}
    /\ presetLock = {} /\ ~running => preset_tokens = 0

Parents == (firedPreset \cup {preset_tokens}) \ {0}

ParentInv ==
    \A g \in Gen :
        /\ Live(g) => loop[g].token.parent \in Parents
        /\ loop[g].pc = "renew_slot" => loop[g].parent \in Parents

(* A call that moves on within its operation, or returns, keeps LockInv. *)
LEMMA LockFrame ==
    ASSUME LockInv, NEW c \in Callers,
           UNCHANGED presetVars,
           \A d \in Callers : d # c => call'[d] = call[d],
           InStart(c)' => InStart(c),
           InStop(c)' => InStop(c),
           call'[c].pc = "next" => InStart(c)' \/ InStop(c)',
           call'[c].pc \in StartPc => call'[c].op = "start_preset",
           call'[c].pc = "install_token" => call'[c].parent = preset_tokens
    PROVE  LockInv'
<1>1. \A d \in Callers : /\ InStart(d)' => InStart(d)
                         /\ InStop(d)' => InStop(d)
  BY DEF InStart, InStop
<1>2. /\ \A d \in Callers : call'[d].pc = "next" => InStart(d)' \/ InStop(d)'
      /\ \A d \in Callers : call'[d].pc \in StartPc => call'[d].op = "start_preset"
      /\ \A d \in Callers : call'[d].pc = "install_token" => call'[d].parent = preset_tokens
  BY DEF LockInv, InStart, InStop
<1> QED
  BY <1>1, <1>2 DEF LockInv, presetVars

(* What Goto and AgentOpReturns leave of a call. *)
LEMMA CallStays ==
    ASSUME call \in [Callers -> Call], NEW c \in Callers
    PROVE  /\ \A pc : Goto(c, pc) =>
                call'[c].op = call[c].op /\ call'[c].parent = call[c].parent
           /\ AgentOpReturns(c) =>
                \/ call'[c].pc = "idle"
                \/ call'[c].pc = "next" /\ call'[c].op = call[c].op /\ InPreset(c)
<1>1. \A pc : Goto(c, pc) => call'[c].op = call[c].op /\ call'[c].parent = call[c].parent
  BY DEF Goto, Call
<1>2. AgentOpReturns(c) => \/ call'[c].pc = "idle"
                           \/ call'[c].pc = "next" /\ call'[c].op = call[c].op /\ InPreset(c)
  BY DEF AgentOpReturns, IdleCall
<1> QED
  BY <1>1, <1>2

(* A step of a call keeps LockInv. *)
LEMMA LockCallStep ==
    ASSUME TypeOK, LockInv, NEW c \in Callers, CallStep(c)
    PROVE  LockInv'
<1>call. call \in [Callers -> Call]
  BY DEF TypeOK
<1>pcs. /\ StartPc = {"read_status", "insert_tx", "preset_token", "install_token"}
        /\ "next" \notin StartPc /\ "idle" \notin StartPc
        /\ \A pc \in {"take_token", "cancel", "stop_lock", "stopping", "take_tx"} : pc \notin StartPc
  BY DEF StartPc
<1>ret. ASSUME AgentOpReturns(c), call[c].pc # "idle", UNCHANGED presetVars
        PROVE  LockInv'
  BY <1>ret, <1>call, <1>pcs, CallMoves, CallStays, LockFrame DEF InStart, InStop, InPreset
<1>goto. ASSUME NEW pc, Goto(c, pc), call[c].pc # "idle", UNCHANGED presetVars,
                pc # "install_token", pc # "next", pc \in StartPc => call[c].pc \in StartPc
         PROVE  LockInv'
  <2>1. /\ call'[c].pc = pc /\ call'[c].op = call[c].op
        /\ \A d \in Callers : d # c => call'[d] = call[d]
    BY <1>goto, <1>call, CallMoves, CallStays
  <2>2. pc \in StartPc => call[c].op = "start_preset"
    BY <1>goto DEF LockInv
  <2> QED
    BY <2>1, <2>2, <1>goto, LockFrame DEF InStart, InStop
<1>1. CASE NextAgent(c)
  <2>1. /\ call'[c].op = call[c].op
        /\ call'[c].pc = IF call[c].op = "stop_preset" THEN "take_tx"
                         ELSE IF Head(call[c].todo) \in Disabled THEN "next" ELSE "read_status"
        /\ \A d \in Callers : d # c => call'[d] = call[d]
        /\ UNCHANGED presetVars
    BY <1>1, <1>call DEF NextAgent, Call
  <2>2. call[c].pc = "next"
    BY <1>1 DEF NextAgent
  <2>3. InStart(c) \/ InStop(c)
    BY <2>2 DEF LockInv
  <2> QED
    BY <2>1, <2>2, <2>3, <1>pcs, LockFrame DEF InStart, InStop
<1>2. CASE FinishPreset(c)
  <2>1. /\ call'[c] = IdleCall
        /\ \A d \in Callers : d # c => call'[d] = call[d]
    BY <1>2, <1>call DEF FinishPreset
  <2>2. /\ call[c].pc = "next" /\ presetLock' = {}
        /\ call[c].op = "stop_preset" => preset_tokens' = 0
        /\ call[c].op # "stop_preset" => preset_tokens' = preset_tokens /\ running' = running
        /\ UNCHANGED firedPreset
    BY <1>2, Zenon DEF FinishPreset
  <2>3. presetLock = {c} /\ (InStart(c) \/ InStop(c))
    BY <2>2 DEF LockInv
  <2>4. \A d \in Callers : ~InStart(d)' /\ ~InStop(d)'
    <3>1. \A d \in Callers : d # c => ~InStart(d) /\ ~InStop(d)
      BY <2>3 DEF LockInv
    <3> QED
      BY <3>1, <2>1 DEF InStart, InStop, IdleCall
  <2>5. \A d \in Callers : call'[d].pc # "next" /\ call'[d].pc \notin StartPc
    <3>1. SUFFICES ASSUME NEW d \in Callers, d # c
                   PROVE  call[d].pc # "next" /\ call[d].pc \notin StartPc
      BY <2>1, <1>pcs DEF IdleCall
    <3>2. ~InStart(d) /\ ~InStop(d)
      BY <2>3, <3>1 DEF LockInv
    <3> QED
      BY <3>2, <1>pcs DEF LockInv, InStart, InStop
  <2>6. presetLock' = {} /\ ~running' => preset_tokens' = 0
    BY <2>2, <2>3 DEF InStart, InStop, LockInv
  <2> QED
    BY <2>4, <2>5, <2>6, <1>pcs DEF LockInv
<1>3. CASE ReadStatus(c)
  <2>1. call[c].pc = "read_status" /\ UNCHANGED presetVars
    BY <1>3 DEF ReadStatus
  <2>2. Goto(c, "insert_tx") \/ AgentOpReturns(c)
    BY <1>3 DEF ReadStatus
  <2> QED
    BY <2>1, <2>2, <1>pcs, <1>ret, <1>goto
<1>4. CASE InsertTx(c)
  <2>1. /\ call[c].pc = "insert_tx" /\ UNCHANGED presetVars
        /\ call'[c].pc = "preset_token" /\ call'[c].op = call[c].op
        /\ \A d \in Callers : d # c => call'[d] = call[d]
    BY <1>4, <1>call DEF InsertTx, Call
  <2>2. call[c].op = "start_preset"
    BY <2>1, <1>pcs DEF LockInv
  <2> QED
    BY <2>1, <2>2, LockFrame DEF InStart, InStop
<1>5. CASE PresetToken(c)
  <2>1. call[c].pc = "preset_token" /\ call[c].op = "start_preset" /\ InStart(c)
    BY <1>5, <1>pcs DEF PresetToken, LockInv, InStart
  <2>2. preset_tokens # 0
    BY <2>1 DEF LockInv
  <2>3. UNCHANGED presetVars
    BY <1>5, <2>2 DEF PresetToken, presetVars
  <2>4. /\ call'[c].pc = "install_token" /\ call'[c].op = call[c].op
        /\ call'[c].parent = preset_tokens
        /\ \A d \in Callers : d # c => call'[d] = call[d]
    BY <1>5, <2>3, <1>call DEF PresetToken, Call, presetVars
  <2> QED
    BY <2>1, <2>3, <2>4, LockFrame DEF InStart, InStop
<1>6. CASE InstallToken(c)
  <2>1. call[c].pc = "install_token" /\ UNCHANGED presetVars /\ AgentOpReturns(c)
    BY <1>6 DEF InstallToken
  <2> QED
    BY <2>1, <1>ret
<1>7. CASE TakeTx(c)
  <2>1. call[c].pc = "take_tx" /\ UNCHANGED presetVars /\ Goto(c, "take_token")
    BY <1>7 DEF TakeTx
  <2> QED
    BY <2>1, <1>goto, <1>pcs
<1>8. CASE TakeToken(c)
  <2>1. /\ call[c].pc = "take_token" /\ UNCHANGED presetVars
        /\ call'[c].pc = "cancel" /\ call'[c].op = call[c].op
        /\ \A d \in Callers : d # c => call'[d] = call[d]
    BY <1>8, <1>call DEF TakeToken, Call
  <2> QED
    BY <2>1, <1>pcs, LockFrame DEF InStart, InStop
<1>9. CASE CancelToken(c)
  <2>1. call[c].pc = "cancel" /\ UNCHANGED presetVars /\ Goto(c, "stop_lock")
    BY <1>9 DEF CancelToken
  <2> QED
    BY <2>1, <1>goto, <1>pcs
<1>10. CASE StopLock(c)
  <2>1. /\ call[c].pc = "stop_lock" /\ UNCHANGED presetVars
        /\ Goto(c, "stopping") \/ AgentOpReturns(c)
    BY <1>10 DEF StopLock
  <2> QED
    BY <2>1, <1>goto, <1>ret, <1>pcs
<1>11. CASE StopDone(c)
  <2>1. call[c].pc = "stopping" /\ UNCHANGED presetVars /\ AgentOpReturns(c)
    BY <1>11 DEF StopDone
  <2> QED
    BY <2>1, <1>ret
<1> QED
  BY <1>1, <1>2, <1>3, <1>4, <1>5, <1>6, <1>7, <1>8, <1>9, <1>10, <1>11 DEF CallStep

(* Every step keeps LockInv. *)
LEMMA LockStep ==
    ASSUME "start_agent" \notin Ops, TypeOK, LockInv, [Next]_vars
    PROVE  LockInv'
<1>call. call \in [Callers -> Call]
  BY DEF TypeOK
<1>pcs. "take_tx" \notin StartPc /\ "next" \notin StartPc
  BY DEF StartPc
<1>1. ASSUME NEW c \in Callers, NEW op \in AllOps, NEW a \in Agents, CallAgentOp(c, op, a)
      PROVE  LockInv'
  <2>1. op = "stop_agent"
    BY <1>1 DEF CallAgentOp
  <2>2. /\ call'[c].pc = "take_tx" /\ call'[c].op = "stop_agent"
        /\ \A d \in Callers : d # c => call'[d] = call[d]
        /\ UNCHANGED presetVars
    BY <1>1, <2>1, <1>call DEF CallAgentOp, Call
  <2> QED
    BY <2>2, <1>pcs, LockFrame DEF InStart, InStop
<1>free. ASSUME presetLock = {}
         PROVE  \A d \in Callers : /\ ~InStart(d) /\ ~InStop(d)
                                   /\ call[d].pc # "next" /\ call[d].pc \notin StartPc
  <2>1. \A d \in Callers : ~InStart(d) /\ ~InStop(d)
    BY <1>free DEF LockInv
  <2> QED
    BY <2>1 DEF LockInv, InStart, InStop, StartPc
<1>2. ASSUME NEW c \in Callers, StartPreset(c)
      PROVE  LockInv'
  <2>1. CASE running
    <3>1. UNCHANGED presetVars /\ UNCHANGED call
      BY <1>2, <2>1 DEF StartPreset
    <3> QED
      BY <3>1 DEF LockInv, presetVars, InStart, InStop
  <2>2. CASE ~running
    <3>1. /\ presetLock = {} /\ presetLock' = {c} /\ running'
          /\ preset_tokens' = presetSeq + 1
          /\ call' = [call EXCEPT ![c].pc = "next", ![c].op = "start_preset",
                                  ![c].todo = SpecAgents]
      BY <1>2, <2>2, Zenon DEF StartPreset
    <3>2. /\ call'[c].pc = "next" /\ call'[c].op = "start_preset"
          /\ \A d \in Callers : d # c => call'[d] = call[d]
      BY <3>1, <1>call DEF Call
    <3>3. preset_tokens' # 0
      BY <3>1 DEF TypeOK
    <3>4. \A d \in Callers : d # c => /\ ~InStart(d)' /\ ~InStop(d)'
                                      /\ call'[d].pc # "next" /\ call'[d].pc \notin StartPc
      BY <3>1, <3>2, <1>free DEF InStart, InStop
    <3>5. InStart(c)' /\ ~InStop(c)' /\ call'[c].pc # "install_token"
      BY <3>2 DEF InStart, InStop
    <3> QED
      BY <3>1, <3>2, <3>3, <3>4, <3>5 DEF LockInv, StartPc
  <2> QED
    BY <2>1, <2>2
<1>3. ASSUME NEW c \in Callers, StopPreset(c)
      PROVE  LockInv'
  <2>1. /\ presetLock = {} /\ presetLock' = {c}
        /\ preset_tokens' = preset_tokens
        /\ firedPreset' = firedPreset \cup ({preset_tokens} \ {0})
    BY <1>3 DEF StopPreset
  <2>2. /\ call'[c].pc = "next" /\ call'[c].op = "stop_preset"
        /\ \A d \in Callers : d # c => call'[d] = call[d]
    BY <1>3, <1>call DEF StopPreset, Call
  <2>3. \A d \in Callers : d # c => /\ ~InStart(d)' /\ ~InStop(d)'
                                    /\ call'[d].pc # "next" /\ call'[d].pc \notin StartPc
    BY <2>1, <2>2, <1>free DEF InStart, InStop
  <2>4. InStop(c)' /\ ~InStart(c)' /\ call'[c].pc # "install_token"
    BY <2>2 DEF InStart, InStop
  <2> QED
    BY <2>1, <2>2, <2>3, <2>4 DEF LockInv, StartPc
<1>4. ASSUME NEW c \in Callers, CallStep(c)
      PROVE  LockInv'
  BY <1>4, LockCallStep
<1>same. ASSUME UNCHANGED presetVars, UNCHANGED call
         PROVE  LockInv'
  BY <1>same DEF LockInv, presetVars, InStart, InStop
<1>5. ASSUME NEW g \in Gen, LoopStep(g) \/ AgentCode(g)
      PROVE  LockInv'
  <2>1. UNCHANGED presetVars /\ UNCHANGED call
    BY <1>5 DEF LoopStep, AgentCode, PollStartToken, PollStart, StartCancelled, Recv, RecvNone,
       PollProcessToken, PollProcess, ProcessCancelled, RenewLookup, RenewSlot, ApplyConfig,
       StartOk, StartErr, ProcessDone, callVars
  <2> QED
    BY <2>1, <1>same
<1>6. ASSUME NEW s \in Senders,
             (\E a \in Agents, m \in Message : SendLookup(s, a, m)) \/ SendStep(s)
      PROVE  LockInv'
  <2>1. UNCHANGED presetVars /\ UNCHANGED call
    BY <1>6 DEF SendLookup, SendStep, SendDirect, SendPush, callVars
  <2> QED
    BY <2>1, <1>same
<1>7. CASE UNCHANGED vars
  BY <1>7, <1>same DEF vars, callVars
<1> QED
  BY <1>1, <1>2, <1>3, <1>4, <1>5, <1>6, <1>7 DEF Next

(* The set of parents only grows, except that a stop drops a cancelled or  *)
(* missing token and a start replaces a missing one.                       *)
LEMMA ParentsKept ==
    ASSUME "start_agent" \notin Ops, TypeOK, LockInv, [Next]_vars
    PROVE  Parents \subseteq Parents'
<1>1. ASSUME NEW c \in Callers, StartPreset(c)
      PROVE  Parents \subseteq Parents'
  <2>1. CASE running
    <3>1. UNCHANGED presetVars
      BY <1>1, <2>1 DEF StartPreset
    <3> QED
      BY <3>1 DEF Parents, presetVars
  <2>2. CASE ~running
    <3>1. UNCHANGED firedPreset /\ preset_tokens = 0
      BY <1>1, <2>2, Zenon DEF StartPreset, LockInv
    <3> QED
      BY <3>1 DEF Parents
  <2> QED
    BY <2>1, <2>2
<1>2. ASSUME NEW c \in Callers, StopPreset(c)
      PROVE  Parents \subseteq Parents'
  BY <1>2 DEF StopPreset, Parents
<1>3. ASSUME NEW c \in Callers, FinishPreset(c)
      PROVE  Parents \subseteq Parents'
  <2>1. CASE call[c].op = "stop_preset"
    <3>1. InStop(c) /\ preset_tokens' = 0 /\ UNCHANGED firedPreset
      BY <1>3, <2>1 DEF FinishPreset, InStop
    <3> QED
      BY <3>1 DEF LockInv, Parents
  <2>2. CASE call[c].op # "stop_preset"
    BY <1>3, <2>2 DEF FinishPreset, Parents
  <2> QED
    BY <2>1, <2>2
<1>4. ASSUME NEW c \in Callers, PresetToken(c)
      PROVE  Parents \subseteq Parents'
  BY <1>4 DEF PresetToken, Parents
<1>5. ASSUME UNCHANGED presetVars PROVE Parents \subseteq Parents'
  BY <1>5 DEF presetVars, Parents
<1>6. ASSUME NEW c \in Callers, CallStep(c)
      PROVE  Parents \subseteq Parents'
  <2>1. CASE NextAgent(c) \/ ReadStatus(c) \/ InsertTx(c) \/ InstallToken(c)
    BY <2>1, <1>5 DEF NextAgent, ReadStatus, InsertTx, InstallToken
  <2>2. CASE TakeTx(c) \/ TakeToken(c) \/ CancelToken(c) \/ StopLock(c) \/ StopDone(c)
    BY <2>2, <1>5 DEF TakeTx, TakeToken, CancelToken, StopLock, StopDone
  <2> QED
    BY <1>6, <1>3, <1>4, <2>1, <2>2 DEF CallStep
<1>7. ASSUME NEW g \in Gen, LoopStep(g) \/ AgentCode(g)
      PROVE  Parents \subseteq Parents'
  BY <1>7, <1>5 DEF LoopStep, AgentCode, PollStartToken, PollStart, StartCancelled, Recv, RecvNone,
     PollProcessToken, PollProcess, ProcessCancelled, RenewLookup, RenewSlot, ApplyConfig,
     StartOk, StartErr, ProcessDone
<1>8. ASSUME NEW s \in Senders,
             (\E a \in Agents, m \in Message : SendLookup(s, a, m)) \/ SendStep(s)
      PROVE  Parents \subseteq Parents'
  BY <1>8, <1>5 DEF SendLookup, SendStep, SendDirect, SendPush
<1>9. ASSUME NEW c \in Callers, NEW op \in AllOps, NEW a \in Agents, CallAgentOp(c, op, a)
      PROVE  Parents \subseteq Parents'
  BY <1>9, <1>5 DEF CallAgentOp
<1>10. CASE UNCHANGED vars
  BY <1>10, <1>5 DEF vars
<1> QED
  BY <1>1, <1>2, <1>6, <1>7, <1>8, <1>9, <1>10 DEF Next

(* Every step keeps ParentInv: a loop gets its token from a start, with    *)
(* the preset's token as parent, or renews it, with the parent it looked   *)
(* up.                                                                     *)
LEMMA ParentStep ==
    ASSUME "start_agent" \notin Ops, TypeOK, LockInv, ParentInv, [Next]_vars
    PROVE  ParentInv'
<1>loop. loop \in [Gen -> Loop]
  BY DEF TypeOK
<1>grow. Parents \subseteq Parents'
  BY ParentsKept
<1>same. ASSUME UNCHANGED loop PROVE ParentInv'
  BY <1>same, <1>grow DEF ParentInv, Live
<1>frame. ASSUME NEW g \in Gen,
                 \A h \in Gen : h # g => loop'[h] = loop[h],
                 \/ loop'[g].pc = "done"
                 \/ /\ loop'[g].token.parent \in Parents
                    /\ loop'[g].pc = "renew_slot" => loop'[g].parent \in Parents
          PROVE  ParentInv'
  BY <1>frame, <1>grow DEF ParentInv, Live
<1>goto. ASSUME NEW g \in Gen, NEW pc, LoopGoto(g, pc), Live(g), pc # "renew_slot"
         PROVE  ParentInv'
  <2>1. /\ \A h \in Gen : h # g => loop'[h] = loop[h]
        /\ loop'[g].pc = pc /\ loop'[g].token = loop[g].token
    BY <1>goto, <1>loop DEF LoopGoto, Loop
  <2> QED
    BY <2>1, <1>goto, <1>frame DEF ParentInv
<1>end. ASSUME NEW g \in Gen, LoopEnd(g)
        PROVE  ParentInv'
  <2>1. (\A h \in Gen : h # g => loop'[h] = loop[h]) /\ loop'[g].pc = "done"
    BY <1>end, <1>loop DEF LoopEnd, Loop
  <2> QED
    BY <2>1, <1>frame
<1>1. ASSUME NEW c \in Callers, InstallToken(c)
      PROVE  ParentInv'
  <2>1. /\ call[c].pc = "install_token"
        /\ loop' = [loop EXCEPT ![call[c].gen] =
              [pc |-> "want_start", agent |-> call[c].agent,
               token |-> [parent |-> call[c].parent, gen |-> call[c].gen, ver |-> 0],
               parent |-> 0]]
    BY <1>1 DEF InstallToken
  <2>2. call[c].parent \in Parents
    <3>1. call[c].parent = preset_tokens /\ InStart(c)
      BY <2>1 DEF LockInv, StartPc, InStart
    <3>2. preset_tokens # 0
      BY <3>1 DEF LockInv
    <3> QED
      BY <3>1, <3>2 DEF Parents
  <2>3. CASE call[c].gen \in Gen
    <3>1. /\ \A h \in Gen : h # call[c].gen => loop'[h] = loop[h]
          /\ loop'[call[c].gen].token.parent = call[c].parent
          /\ loop'[call[c].gen].pc = "want_start"
      BY <2>1, <2>3, <1>loop
    <3> QED
      BY <3>1, <2>2, <2>3, <1>frame
  <2>4. CASE call[c].gen \notin Gen
    BY <2>1, <2>4, <1>loop, <1>same
  <2> QED
    BY <2>3, <2>4
<1>2. ASSUME NEW g \in Gen, RenewLookup(g)
      PROVE  ParentInv'
  <2>1. CASE preset_tokens = 0
    <3>1. LoopGoto(g, "recv") /\ Live(g)
      BY <1>2, <2>1 DEF RenewLookup, Live
    <3> QED
      BY <3>1, <1>goto
  <2>2. CASE preset_tokens # 0
    <3>1. /\ \A h \in Gen : h # g => loop'[h] = loop[h]
          /\ loop'[g].token = loop[g].token /\ loop'[g].parent = preset_tokens
          /\ Live(g)
      BY <1>2, <2>2, <1>loop DEF RenewLookup, Loop, Live
    <3>2. preset_tokens \in Parents
      BY <2>2 DEF Parents
    <3> QED
      BY <3>1, <3>2, <1>frame DEF ParentInv
  <2> QED
    BY <2>1, <2>2
<1>3. ASSUME NEW g \in Gen, RenewSlot(g)
      PROVE  ParentInv'
  <2>1. /\ loop[g].pc = "renew_slot" /\ Live(g)
        /\ \A h \in Gen : h # g => loop'[h] = loop[h]
        /\ loop'[g].pc = "recv"
        /\ loop'[g].token \in {loop[g].token, [parent |-> loop[g].parent, gen |-> g,
                                               ver |-> loop[g].token.ver + 1]}
    BY <1>3, <1>loop DEF RenewSlot, Loop, Live
  <2>2. loop'[g].token.parent \in Parents
    BY <2>1 DEF ParentInv
  <2> QED
    BY <2>1, <2>2, <1>frame
<1>4. ASSUME NEW g \in Gen, LoopStep(g) \/ AgentCode(g)
      PROVE  ParentInv'
  <2>1. CASE PollStartToken(g)
    BY <2>1, <1>goto, <1>end DEF PollStartToken, Live
  <2>2. CASE PollStart(g)
    <3>1. Live(g) /\ (LoopGoto(g, "want_start") \/ LoopGoto(g, "starting"))
      BY <2>2 DEF PollStart, Live
    <3> QED
      BY <3>1, <1>goto
  <2>3. CASE StartCancelled(g) \/ StartErr(g) \/ RecvNone(g)
    BY <2>3, <1>end DEF StartCancelled, StartErr, RecvNone
  <2>4. CASE Recv(g)
    <3>1. Live(g) /\ (LoopEnd(g) \/ LoopGoto(g, "want_process") \/ LoopGoto(g, "config"))
      BY <2>4 DEF Recv, Live
    <3> QED
      BY <3>1, <1>goto, <1>end
  <2>5. CASE PollProcessToken(g)
    <3>1. Live(g) /\ (LoopGoto(g, "renew") \/ LoopGoto(g, "poll_process"))
      BY <2>5 DEF PollProcessToken, Live
    <3> QED
      BY <3>1, <1>goto
  <2>6. CASE PollProcess(g)
    <3>1. Live(g) /\ (LoopGoto(g, "want_process") \/ LoopGoto(g, "processing"))
      BY <2>6 DEF PollProcess, Live
    <3> QED
      BY <3>1, <1>goto
  <2>7. CASE StartOk(g) \/ ProcessDone(g) \/ ApplyConfig(g)
    <3>1. Live(g) /\ LoopGoto(g, "recv")
      BY <2>7 DEF StartOk, ProcessDone, ApplyConfig, Live
    <3> QED
      BY <3>1, <1>goto
  <2>8. CASE ProcessCancelled(g)
    BY <2>8, <1>goto DEF ProcessCancelled, Live
  <2> QED
    BY <1>4, <1>2, <1>3, <2>1, <2>2, <2>3, <2>4, <2>5, <2>6, <2>7, <2>8 DEF LoopStep, AgentCode
<1>5. ASSUME NEW c \in Callers, CallStep(c)
      PROVE  ParentInv'
  <2>1. CASE NextAgent(c) \/ FinishPreset(c) \/ ReadStatus(c) \/ InsertTx(c) \/ PresetToken(c)
    BY <2>1, <1>same DEF NextAgent, FinishPreset, ReadStatus, InsertTx, PresetToken, loopVars
  <2>2. CASE TakeTx(c) \/ TakeToken(c) \/ CancelToken(c) \/ StopLock(c) \/ StopDone(c)
    BY <2>2, <1>same DEF TakeTx, TakeToken, CancelToken, StopLock, StopDone, loopVars
  <2> QED
    BY <1>5, <1>1, <2>1, <2>2 DEF CallStep
<1>6. ASSUME NEW c \in Callers,
             \/ \E op \in AllOps, a \in Agents : CallAgentOp(c, op, a)
             \/ StartPreset(c) \/ StopPreset(c)
      PROVE  ParentInv'
  BY <1>6, <1>same DEF CallAgentOp, StartPreset, StopPreset, loopVars
<1>7. ASSUME NEW s \in Senders,
             (\E a \in Agents, m \in Message : SendLookup(s, a, m)) \/ SendStep(s)
      PROVE  ParentInv'
  BY <1>7, <1>same DEF SendLookup, SendStep, SendDirect, SendPush, loopVars
<1>8. CASE UNCHANGED vars
  BY <1>8, <1>same DEF vars, loopVars
<1> QED
  BY <1>4, <1>5, <1>6, <1>7, <1>8 DEF Next

(* From the cancellation of a preset's token until the next Preset::start  *)
(* no loop of the preset can begin another process(), for every number of  *)
(* agents, callers and restarts, as long as start_agent is reached through *)
(* Preset::start; stop_agent may be called at any time.                    *)
THEOREM PresetStopSilences ==
    ASSUME "start_agent" \notin Ops
    PROVE  Spec => []PresetStopSilencesLoops
<1>1. Init => LockInv /\ ParentInv
  <2>1. Init => LockInv
    BY DEF Init, LockInv, InStart, InStop, IdleCall, StartPc
  <2>2. Init => ParentInv
    BY DEF Init, ParentInv, Live
  <2> QED
    BY <2>1, <2>2
<1>2. TypeOK /\ LockInv /\ ParentInv /\ [Next]_vars => LockInv' /\ ParentInv'
  BY LockStep, ParentStep
<1>3. LockInv /\ ParentInv => PresetStopSilencesLoops
  <2> SUFFICES ASSUME LockInv, ParentInv,
                      \/ \E c \in Callers : call[c].pc # "idle" /\ call[c].op = "stop_preset"
                      \/ presetLock = {} /\ ~running /\ preset_tokens = 0,
                      NEW g \in Gen, Live(g)
               PROVE  Fired(loop[g].token)
    BY DEF PresetStopSilencesLoops
  <2>1. preset_tokens \in firedPreset \cup {0}
    BY DEF LockInv, InStop
  <2>2. loop[g].token.parent \in Parents
    BY DEF ParentInv
  <2> QED
    BY <2>1, <2>2 DEF Parents, Fired
<1> QED
  BY <1>1, <1>2, <1>3, TypeCorrect, PTL DEF Spec
=============================================================================
