-------------------------- MODULE ToolCallsProofs --------------------------
(***************************************************************************)
(* Proofs about ToolCalls, for any tools, messages, flows and filters, any *)
(* max_concurrency and any number of tracked flows.                        *)
(***************************************************************************)
EXTENDS ToolCalls, TLAPS, FiniteSetTheorems, WellFoundedInduction

Reported == Len(resp_messages)

(* Where call_tools is in the list of calls: those with a result, those of *)
(* the batch, the sequential one, those it has not looked at.              *)
Position ==
    /\ pc = "idle" <=> flow = NoFlow
    /\ pc = "idle" => calls = <<>> /\ resp_messages = <<>>
    /\ pc \in {"schedule", "flush", "salvage"} =>
          \A k \in DOMAIN batch : batch[k] = Reported + k /\ modes[Reported + k] = "Parallel"
    /\ pc = "schedule" => Len(modes) = Reported + Len(batch)
    /\ pc \in {"flush", "salvage"} =>
          \/ Len(modes) = Reported + Len(batch) /\ Len(modes) = Len(calls) /\ batch # <<>>
          \/ Len(modes) = Reported + Len(batch) + 1 /\ modes[Len(modes)] = "Sequential"
    /\ pc \in {"sequential", "await"} =>
          Len(modes) = Reported + 1 /\ modes[Len(modes)] = "Sequential" /\ batch = <<>>
    /\ pc \in {"schedule", "flush", "salvage", "sequential", "await"} => Len(modes) <= Len(calls)
    /\ pc = "reply" => Reported = Len(calls)

(* Which futures exist: those of the batch that were polled, or that of    *)
(* the sequential call.                                                    *)
InFlight ==
    /\ pc \in {"flush", "salvage"} => flight \subseteq Reported + 1 .. Reported + begun
    /\ pc = "await" => flight = {Len(modes)}
    /\ pc \in {"idle", "schedule", "sequential", "reply"} => flight = {}
    /\ pc \in {"schedule", "sequential", "await"} => begun = 0
    /\ IsFiniteSet(flight) /\ Cardinality(flight) <= Width

(* How many of the calls have been started, or answered without a start.   *)
Frontier ==
    CASE pc \in {"flush", "salvage"} -> Reported + begun
      [] pc = "await" -> Len(modes)
      [] pc = "reply" -> Len(calls)
      [] OTHER -> Reported

(* A polled call of the batch is in flight or its outcome is its result;   *)
(* a result is "aborted" only at the end.                                  *)
Outcomes ==
    /\ pc \in {"flush", "salvage"} =>
          \A i \in Reported + 1 .. Reported + begun : i \in flight \/ (outcome[i] # "none" /\ slots[i] = outcome[i])
    /\ \A i \in DOMAIN calls : i > Frontier /\ pc # "reply" => outcome[i] = "none"
    /\ \A i \in DOMAIN calls : outcome[i] # "aborted" /\ slots[i] # "aborted"
    /\ pc # "reply" => \A i \in DOMAIN resp_messages : resp_messages[i] # "aborted"
    /\ FinishedParallelCallReported

(* What has been started for the id of a call of this message. *)
StartedFor(i) == runs[<<flow, calls[i].id>>]

(* The ids of the calls are recorded; what was started for them belongs to *)
(* this message, and nothing was started for the calls still to come.      *)
Dedup ==
    /\ ExecutedOnce
    /\ \A i \in DOMAIN calls : calls[i].id \in executed[flow] \cup {NoId}
    /\ \A i \in DOMAIN calls : calls[i].id # NoId =>
          \A r \in DOMAIN StartedFor(i) : StartedFor(i)[r][1] = messages
    /\ \A i \in DOMAIN calls : i > Frontier /\ calls[i].id # NoId =>
          \A r \in DOMAIN StartedFor(i) : StartedFor(i)[r] # <<messages, i>>

IInv == TypeOK /\ Position /\ InFlight /\ Outcomes /\ Dedup

-----------------------------------------------------------------------------
(* Induction over the natural numbers, from the fact that < on them is     *)
(* well founded: a set that holds 0 and the successors of its elements     *)
(* holds them all.                                                         *)
LEMMA NaturalInduction ==
    ASSUME NEW S, 0 \in S, \A n \in Nat : n \in S => n + 1 \in S
    PROVE  \A n \in Nat : n \in S
<1> DEFINE Less == {ss \in Nat \X Nat : ss[1] < ss[2]}
           T == Nat \ S
<1> SUFFICES ASSUME T # {} PROVE FALSE
  OBVIOUS
<1>1. OpToRel(<, Nat) = Less
  BY DEF OpToRel
<1>2. IsWellFoundedOn(OpToRel(<, Nat), Nat)
  BY NatLessThanWellFounded
<1>3. \E x \in T : \A y \in T : ~(<<y, x>> \in OpToRel(<, Nat))
  BY <1>2, WFMin
<1>4. PICK x \in T : \A y \in T : ~(<<y, x>> \in Less)
  BY <1>1, <1>3, Zenon
<1>5. x \in Nat /\ x # 0
  OBVIOUS
<1>6. x - 1 \in T
  BY <1>5
<1>7. <<x - 1, x>> \in Less
  BY <1>5
<1> QED
  BY <1>4, <1>6, <1>7

(* The function that Pick is defined with exists, so that its equation can *)
(* be used.                                                                *)
PickEq(cs, I, pick, m) ==
    pick = [n \in 0 .. m |-> IF n = 0 THEN << >>
                             ELSE IF n \in I THEN Append(pick[n - 1], cs[n]) ELSE pick[n - 1]]

(* There is one for every length.                                         *)
LEMMA PickExists ==
    ASSUME NEW cs, NEW I
    PROVE  \A m \in Nat : \E pick : PickEq(cs, I, pick, m)
<1> DEFINE S == {m \in Nat : \E pick : PickEq(cs, I, pick, m)}
<1>1. 0 \in S
  <2>1. PickEq(cs, I, [n \in 0 .. 0 |-> << >>], 0)
    BY DEF PickEq
  <2> QED
    BY <2>1
<1>2. ASSUME NEW m \in Nat, m \in S PROVE m + 1 \in S
  <2>1. PICK old : PickEq(cs, I, old, m)
    BY <1>2
  <2> DEFINE at(n, f) == IF n = 0 THEN << >> ELSE IF n \in I THEN Append(f[n - 1], cs[n]) ELSE f[n - 1]
             new == [n \in 0 .. m + 1 |-> IF n <= m THEN old[n] ELSE at(m + 1, old)]
  <2>2. \A n \in 0 .. m : old[n] = at(n, old)
    BY <2>1 DEF PickEq
  <2>3. ASSUME NEW n \in 0 .. m + 1 PROVE new[n] = at(n, new)
    <3>1. CASE n = 0
      BY <2>2, <3>1
    <3>2. CASE n \in 1 .. m
      <4>1. new[n] = old[n] /\ new[n - 1] = old[n - 1]
        BY <3>2
      <4> QED
        BY <2>2, <3>2, <4>1
    <3>3. CASE n = m + 1
      <4>1. new[n] = at(m + 1, old) /\ new[n - 1] = old[m]
        BY <3>3
      <4> QED
        BY <3>3, <4>1
    <3> QED
      BY <3>1, <3>2, <3>3
  <2>4. new = [n \in 0 .. m + 1 |-> at(n, new)]
    BY <2>3
  <2>5. PickEq(cs, I, new, m + 1)
    BY <2>4 DEF PickEq
  <2> QED
    BY <2>5
<1> HIDE DEF S
<1>3. \A m \in Nat : m \in S
  BY <1>1, <1>2, NaturalInduction
<1> QED
  BY <1>3 DEF S

(* What a prefix of cs contributes: its elements at positions in I, each   *)
(* once and in order.                                                      *)
Picked(cs, I, m, res) ==
    /\ res \in Seq(Call)
    /\ \E at \in [1 .. Len(res) -> 1 .. m] :
          /\ \A k \in 1 .. Len(res) : at[k] \in I /\ res[k] = cs[at[k]]
          /\ \A k, l \in 1 .. Len(res) : k < l => at[k] < at[l]

(* Pick selects the calls at the places of I, in their order.              *)
LEMMA PickProperty ==
    ASSUME NEW cs \in Seq(Call), NEW I
    PROVE  Picked(cs, I, Len(cs), Pick(cs, I))
<1>0. Len(cs) \in Nat
  OBVIOUS
<1>1. \E pick : PickEq(cs, I, pick, Len(cs))
  BY <1>0, PickExists, Zenon
<1> DEFINE f == CHOOSE pick :
               pick = [n \in 0 .. Len(cs) |->
                          IF n = 0 THEN <<>>
                          ELSE IF n \in I THEN Append(pick[n - 1], cs[n]) ELSE pick[n - 1]]
<1>2. PickEq(cs, I, f, Len(cs))
  BY <1>1, Zenon DEF PickEq
<1>3. Pick(cs, I) = f[Len(cs)]
  BY DEF Pick
<1> HIDE DEF f
<1> DEFINE S == {m \in Nat : m <= Len(cs) => Picked(cs, I, m, f[m])}
<1>4. 0 \in S
  <2>1. f[0] = << >>
    BY <1>2 DEF PickEq
  <2>2. Picked(cs, I, 0, << >>)
    <3> DEFINE none == [k \in 1 .. 0 |-> 0]
    <3>1. << >> \in Seq(Call) /\ 1 .. Len(<< >>) = {} /\ 1 .. 0 = {}
      OBVIOUS
    <3>2. none \in [1 .. Len(<< >>) -> 1 .. 0]
      BY <3>1
    <3> HIDE DEF none
    <3> QED
      BY <3>1, <3>2 DEF Picked
  <2> QED
    BY <2>1, <2>2
<1>5. ASSUME NEW m \in Nat, m \in S PROVE m + 1 \in S
  <2> SUFFICES ASSUME m + 1 <= Len(cs) PROVE Picked(cs, I, m + 1, f[m + 1])
    OBVIOUS
  <2>1. Picked(cs, I, m, f[m])
    BY <1>5
  <2>2. f[m + 1] = IF m + 1 \in I THEN Append(f[m], cs[m + 1]) ELSE f[m]
    <3>1. m + 1 \in 0 .. Len(cs) /\ m + 1 # 0 /\ (m + 1) - 1 = m
      OBVIOUS
    <3>2. \A n \in 0 .. Len(cs) :
            f[n] = IF n = 0 THEN << >>
                   ELSE IF n \in I THEN Append(f[n - 1], cs[n]) ELSE f[n - 1]
      BY <1>2, Zenon DEF PickEq
    <3> QED
      BY <3>1, <3>2, Zenon
  <2> DEFINE old == f[m]
  <2>3. PICK at \in [1 .. Len(old) -> 1 .. m] :
          /\ \A k \in 1 .. Len(old) : at[k] \in I /\ old[k] = cs[at[k]]
          /\ \A k, l \in 1 .. Len(old) : k < l => at[k] < at[l]
    BY <2>1 DEF Picked
  <2>4. old \in Seq(Call) /\ cs[m + 1] \in Call
    BY <2>1 DEF Picked
  <2> HIDE DEF old
  <2>5. CASE m + 1 \notin I
    <3>1. at \in [1 .. Len(old) -> 1 .. m + 1]
      BY <2>3
    <3> QED
      BY <2>2, <2>3, <2>4, <2>5, <3>1 DEF Picked, old
  <2>6. CASE m + 1 \in I
    <3> DEFINE res == Append(old, cs[m + 1])
               new == [k \in 1 .. Len(res) |-> IF k <= Len(old) THEN at[k] ELSE m + 1]
    <3>1. res \in Seq(Call) /\ Len(res) = Len(old) + 1 /\ Len(old) \in Nat
      BY <2>4
    <3>2. new \in [1 .. Len(res) -> 1 .. m + 1]
      BY <2>3, <3>1
    <3>3. ASSUME NEW k \in 1 .. Len(res) PROVE new[k] \in I /\ res[k] = cs[new[k]]
      <4>1. CASE k <= Len(old)
        BY <2>3, <2>4, <3>1, <4>1
      <4>2. CASE k = Len(old) + 1
        BY <2>4, <2>6, <3>1, <4>2
      <4> QED
        BY <3>1, <4>1, <4>2
    <3>4. ASSUME NEW k \in 1 .. Len(res), NEW l \in 1 .. Len(res), k < l PROVE new[k] < new[l]
      <4>1. k <= Len(old) /\ new[k] = at[k] /\ at[k] \in 1 .. m
        BY <2>3, <3>1, <3>4
      <4>2. CASE l <= Len(old)
        <5>1. k \in 1 .. Len(old) /\ l \in 1 .. Len(old) /\ new[l] = at[l]
          BY <3>1, <4>1, <4>2
        <5> QED
          BY <2>3, <3>4, <4>1, <5>1
      <4>3. CASE l = Len(old) + 1
        <5>1. new[l] = m + 1
          BY <3>1, <4>3
        <5> QED
          BY <4>1, <5>1
      <4> QED
        BY <3>1, <4>2, <4>3
    <3> HIDE DEF new, res
    <3>5. Picked(cs, I, m + 1, res)
      BY <3>1, <3>2, <3>3, <3>4 DEF Picked
    <3> QED
      BY <2>2, <2>6, <3>5 DEF res, old
  <2> QED
    BY <2>5, <2>6
<1> HIDE DEF S
<1>6. \A m \in Nat : m \in S
  BY <1>4, <1>5, NaturalInduction
<1> QED
  BY <1>3, <1>6 DEF S

-----------------------------------------------------------------------------
(* A function on 1 .. n is a sequence of length n. *)
LEMMA FunctionIsSequence ==
    ASSUME NEW S, NEW n \in Nat, NEW f \in [1 .. n -> S]
    PROVE  f \in Seq(S) /\ Len(f) = n
OBVIOUS

(* What the filters leave of a message: its calls, none of which was       *)
(* executed for the flow.                                                  *)
FreshCalls(f, cs) ==
    /\ cs \in Seq(Call)
    /\ \A i \in DOMAIN cs : cs[i].id \notin executed[f]

(* Fresh leaves such calls. *)
LEMMA FreshProperty ==
    ASSUME NEW f \in Flows, NEW tools \in Filters, NEW msg \in Messages
    PROVE  FreshCalls(f, Fresh(f, tools, msg.calls))
<1> DEFINE cs == Fresh(f, tools, msg.calls)
           all == msg.calls
           I == {i \in DOMAIN all : Allowed(tools, all[i]) /\ all[i].id \notin executed[f]}
<1>1. all \in Seq(Call)
  BY ToolCallsAssumption
<1>3. cs = Pick(all, I)
  BY DEF Fresh
<1>4. \A i \in I : i \in DOMAIN all /\ all[i].id \notin executed[f]
  OBVIOUS
<1> HIDE DEF all, I, cs
<1>5. Picked(all, I, Len(all), cs)
  BY <1>1, <1>3, PickProperty
<1>6. PICK at \in [1 .. Len(cs) -> 1 .. Len(all)] :
        /\ \A k \in 1 .. Len(cs) : at[k] \in I /\ cs[k] = all[at[k]]
        /\ \A k, l \in 1 .. Len(cs) : k < l => at[k] < at[l]
  BY <1>5 DEF Picked
<1>7. cs \in Seq(Call) /\ DOMAIN cs = 1 .. Len(cs) /\ Len(cs) \in Nat
  BY <1>5 DEF Picked
<1>8. \A i \in DOMAIN cs : cs[i].id \notin executed[f]
  BY <1>4, <1>6, <1>7
<1>9. FreshCalls(f, cs)
  BY <1>7, <1>8 DEF FreshCalls
<1> QED
  BY <1>9 DEF cs, all

(* The starts of an id: all for one message, and none twice. *)
Unrepeated(log) ==
    \A r, s \in DOMAIN log : log[r][1] = log[s][1] /\ (log[r] = log[s] => r = s)

OnceForId(f, id) == Unrepeated(runs[<<f, id>>]) /\ (runs[<<f, id>>] # <<>> => id \in executed[f])
OnceForIds == \A f \in Flows, id \in Ids : OnceForId(f, id)

(* ExecutedOnce says so of every id, and that the id is recorded then, ... *)
LEMMA ExecutedOnceMeans == ExecutedOnce <=> OnceForIds
<1>1. ASSUME NEW f \in Flows, NEW id \in Ids
      PROVE  OnceForId(f, id) <=> LET started == runs[<< f, id >>] IN
               /\ \A r, s \in DOMAIN started :
                    /\ started[r][1] = started[s][1]
                    /\ started[r] = started[s] => r = s
               /\ started # << >> => id \in executed[f]
  BY DEF OnceForId, Unrepeated
<1> QED
  BY <1>1, Zenon DEF ExecutedOnce, OnceForIds

(* ... after a step too.                                                   *)
LEMMA ExecutedOnceMeansNext == ExecutedOnce' <=> OnceForIds'
  BY ExecutedOnceMeans, PTL

(* Nothing repeats in an empty log. *)
LEMMA EmptyUnrepeated == Unrepeated(<<>>) /\ <<>> \in Seq(Nat \X Nat)
<1>1. DOMAIN <<>> = {}
  OBVIOUS
<1>2. <<>> \in Seq(Nat \X Nat)
  OBVIOUS
<1> QED
  BY <1>1, <1>2 DEF Unrepeated

(* Nor in one that is extended by a new start for the same message. *)
LEMMA AppendUnrepeated ==
    ASSUME NEW log \in Seq(Nat \X Nat), Unrepeated(log), NEW m \in Nat, NEW i \in Nat,
           \A r \in DOMAIN log : log[r][1] = m /\ log[r] # << m, i >>
    PROVE  /\ Append(log, << m, i >>) \in Seq(Nat \X Nat)
           /\ Unrepeated(Append(log, << m, i >>))
           /\ \A r \in DOMAIN Append(log, << m, i >>) :
                 /\ Append(log, << m, i >>)[r][1] = m
                 /\ \A j \in Nat : j # i /\ (\A q \in DOMAIN log : log[q] # << m, j >>)
                                => Append(log, << m, i >>)[r] # << m, j >>
<1> DEFINE new == Append(log, << m, i >>)
<1>1. << m, i >> \in Nat \X Nat /\ << m, i >>[1] = m
  OBVIOUS
<1>2. new \in Seq(Nat \X Nat) /\ Len(new) = Len(log) + 1 /\ Len(log) \in Nat
  BY <1>1
<1>3. DOMAIN new = 1 .. Len(log) + 1 /\ DOMAIN log = 1 .. Len(log)
  BY <1>2
<1>4. \A r \in 1 .. Len(log) : new[r] = log[r]
  OBVIOUS
<1>5. new[Len(log) + 1] = << m, i >>
  OBVIOUS
<1> HIDE DEF new
<1>6. \A r \in DOMAIN new : r \in DOMAIN log \/ r = Len(log) + 1
  BY <1>2, <1>3
<1>7. \A r \in DOMAIN log : new[r] = log[r]
  BY <1>3, <1>4
<1>8. \A r \in DOMAIN new : new[r][1] = m
  BY <1>1, <1>5, <1>6, <1>7
<1>9. \A r, s \in DOMAIN new : new[r] = new[s] => r = s
  BY <1>5, <1>6, <1>7 DEF Unrepeated
<1>10. ASSUME NEW r \in DOMAIN new, NEW j \in Nat, j # i, \A q \in DOMAIN log : log[q] # << m, j >>
       PROVE  new[r] # << m, j >>
  <2>1. << m, i >> # << m, j >>
    BY <1>10
  <2> QED
    BY <1>5, <1>6, <1>7, <1>10, <2>1
<1>11. Unrepeated(new)
  BY <1>8, <1>9 DEF Unrepeated
<1> QED
  BY <1>2, <1>8, <1>10, <1>11 DEF new

(* The flow that mark_executed pushes out is tracked, and so it is not the *)
(* one that comes in.                                                      *)
LEMMA EvictedProperty ==
    ASSUME TypeOK, NEW f \in Flows
    PROVE  /\ Evicted(f) \subseteq Flows /\ f \notin Evicted(f)
           /\ Evicted(f) # {} => ctx_key_order # << >>
<1>1. ctx_key_order \in Seq(Flows) /\ MaxTracked \in Nat \ {0}
  BY ToolCallsAssumption DEF TypeOK
<1>2. CASE f \notin Range(ctx_key_order) /\ Len(ctx_key_order) >= MaxTracked
  <2>1. Head(ctx_key_order) = ctx_key_order[1] /\ 1 \in DOMAIN ctx_key_order /\ ctx_key_order # << >>
    BY <1>1, <1>2
  <2>2. Head(ctx_key_order) \in Flows /\ Head(ctx_key_order) # f
    BY <1>1, <1>2, <2>1 DEF Range
  <2> QED
    BY <1>2, <2>1, <2>2 DEF Evicted
<1> QED
  BY <1>2 DEF Evicted

(* mark_executed records the ids of the calls that are about to run, for   *)
(* none of which a tool was started, and keeps the rest of the records     *)
(* right.                                                                  *)
LEMMA MarkExecutedProperty ==
    ASSUME TypeOK, ExecutedOnce, NEW f \in Flows, NEW cs \in Seq(Call),
           \A i \in DOMAIN cs : cs[i].id \notin executed[f], MarkExecuted(f, cs)
    PROVE  /\ executed' \in [Flows -> SUBSET Ids]
           /\ ctx_key_order' \in Seq(Flows)
           /\ runs' \in [Started -> Seq(Nat \X Nat)]
           /\ ExecutedOnce'
           /\ \A i \in DOMAIN cs : cs[i].id \in executed'[f] \cup {NoId}
           /\ \A i \in DOMAIN cs : cs[i].id # NoId => runs'[<<f, cs[i].id>>] = <<>>
<1>1. /\ executed \in [Flows -> SUBSET Ids] /\ ctx_key_order \in Seq(Flows)
      /\ runs \in [Started -> Seq(Nat \X Nat)]
  BY DEF TypeOK
<1>2. \A i \in DOMAIN cs : cs[i].id \in Ids \cup {NoId}
  <2>1. \A i \in DOMAIN cs : cs[i] \in Call
    OBVIOUS
  <2> QED
    BY <2>1 DEF Call
<1>3. Recorded(cs) \subseteq Ids
  BY <1>2 DEF Recorded
<1>4. \A g \in Flows, id \in Ids : <<g, id>> \in Started /\ <<g, id>>[1] = g
  BY DEF Started
<1>5. \A id \in Ids : id \notin executed[f] => runs[<<f, id>>] = <<>>
  BY ExecutedOnceMeans DEF OnceForIds, OnceForId
<1>6. CASE Recorded(cs) = {}
  <2>1. UNCHANGED <<executed, ctx_key_order, runs>>
    BY <1>6 DEF MarkExecuted, dedupVars
  <2>2. \A i \in DOMAIN cs : cs[i].id = NoId
    BY <1>6 DEF Recorded
  <2> QED
    BY <1>1, <2>1, <2>2 DEF ExecutedOnce
<1>7. CASE Recorded(cs) # {}
  <2>1. Evicted(f) \subseteq Flows /\ f \notin Evicted(f) /\ (Evicted(f) # {} => ctx_key_order # << >>)
    BY EvictedProperty
  <2>2. ctx_key_order' \in Seq(Flows)
    <3>1. ctx_key_order' = IF f \in Range(ctx_key_order) THEN ctx_key_order
                           ELSE Append(IF Evicted(f) = {} THEN ctx_key_order
                                       ELSE Tail(ctx_key_order), f)
      BY <1>7 DEF MarkExecuted
    <3> QED
      BY <1>1, <2>1, <3>1
  <2>3. executed' = [g \in Flows |->
              CASE g \in Evicted(f) -> {}
                [] g = f            -> executed[g] \cup Recorded(cs)
                [] OTHER            -> executed[g]]
    BY <1>7 DEF MarkExecuted
  <2>4. runs' = [k \in Started |-> IF k[1] \in Evicted(f) THEN <<>> ELSE runs[k]]
    BY <1>7 DEF MarkExecuted
  <2>5. executed' \in [Flows -> SUBSET Ids]
    BY <1>1, <1>3, <2>3
  <2>6. runs' \in [Started -> Seq(Nat \X Nat)]
    BY <1>1, <2>4, EmptyUnrepeated
  <2>7. ASSUME NEW g \in Flows, NEW id \in Ids
        PROVE  /\ runs'[<< g, id >>] = IF g \in Evicted(f) THEN << >> ELSE runs[<<g, id>>]
               /\ g \notin Evicted(f) => executed[g] \subseteq executed'[g]
    <3>1. runs'[<<g, id>>] = IF g \in Evicted(f) THEN <<>> ELSE runs[<<g, id>>]
      BY <1>4, <2>4
    <3>2. g \notin Evicted(f) => executed[g] \subseteq executed'[g]
      BY <2>3
    <3> QED
      BY <3>1, <3>2
  <2>8. ExecutedOnce'
    <3>1. ASSUME NEW g \in Flows, NEW id \in Ids
          PROVE  /\ Unrepeated(runs'[<< g, id >>])
                 /\ runs'[<< g, id >>] # << >> => id \in executed'[g]
      <4>1. Unrepeated(runs[<<g, id>>]) /\ (runs[<<g, id>>] # <<>> => id \in executed[g])
        BY ExecutedOnceMeans DEF OnceForIds, OnceForId
      <4> QED
        BY <2>7, <4>1, EmptyUnrepeated
    <3> QED
      BY <3>1, ExecutedOnceMeansNext DEF OnceForIds, OnceForId
  <2>9. executed'[f] = executed[f] \cup Recorded(cs)
    BY <2>1, <2>3
  <2>10. ASSUME NEW i \in DOMAIN cs
         PROVE  /\ cs[i].id \in executed'[f] \cup {NoId}
                /\ cs[i].id # NoId => runs'[<<f, cs[i].id>>] = <<>>
    <3>1. cs[i].id \in Recorded(cs) \cup {NoId}
      BY DEF Recorded
    <3>2. cs[i].id # NoId => runs'[<<f, cs[i].id>>] = <<>>
      BY <1>2, <1>5, <2>1, <2>7
    <3> QED
      BY <2>9, <3>1, <3>2
  <2> QED
    BY <2>2, <2>5, <2>6, <2>8, <2>10
<1> QED
  BY <1>6, <1>7

-----------------------------------------------------------------------------
(* The shapes of the lists, as the steps below use them. *)
Shapes ==
    /\ Len(calls) \in Nat /\ DOMAIN calls = 1 .. Len(calls)
    /\ modes \in Seq(Modes) /\ Len(modes) \in Nat /\ DOMAIN modes = 1 .. Len(modes)
    /\ Len(batch) \in Nat /\ DOMAIN batch = 1 .. Len(batch)
    /\ resp_messages \in Seq(Kinds) /\ Reported \in Nat /\ DOMAIN resp_messages = 1 .. Reported
    /\ begun \in 0 .. Len(batch)
    /\ flight \subseteq 1 .. Len(calls)
    /\ outcome \in [1 .. Len(calls) -> Kinds \cup {"none"}]
    /\ slots \in [1 .. Len(calls) -> Kinds \cup {"none"}]
    /\ \A i \in 1 .. Len(calls) : calls[i] \in Call

(* They follow from the types. *)
LEMMA ShapesOK == TypeOK => Shapes
  BY DEF TypeOK, Shapes, Reported

(* Initially the agent is idle and has recorded nothing. *)
LEMMA InitIInv == Init => IInv
<1> SUFFICES ASSUME Init PROVE IInv
  OBVIOUS
<1> USE ToolCallsAssumption
<1>1. /\ calls = <<>> /\ modes = <<>> /\ batch = <<>> /\ outcome = <<>> /\ slots = <<>>
      /\ resp_messages = <<>> /\ begun = 0 /\ flight = {} /\ pc = "idle" /\ flow = NoFlow
  BY DEF Init
<1>2. DOMAIN calls = {} /\ DOMAIN resp_messages = {} /\ Len(batch) = 0
  BY <1>1
<1>3. TypeOK
  <2>1. outcome \in [DOMAIN calls -> Kinds \cup {"none"}] /\ slots \in [DOMAIN calls -> Kinds \cup {"none"}]
    BY <1>1, <1>2
  <2>2. /\ executed \in [Flows -> SUBSET Ids] /\ runs \in [Started -> Seq(Nat \X Nat)]
        /\ registry \in [Names -> Modes \cup {"none"}] /\ cancelled \subseteq Flows
        /\ ctx_key_order \in Seq(Flows) /\ messages \in 0 .. MaxMessages /\ changes \in 0 .. MaxRegistry
    BY EmptyUnrepeated DEF Init
  <2>3. /\ calls \in Seq(Call) /\ modes \in Seq(Modes) /\ batch \in Seq(DOMAIN calls)
        /\ begun \in 0 .. Len(batch) /\ flight \subseteq DOMAIN calls /\ resp_messages \in Seq(Kinds)
    BY <1>1
  <2> QED
    BY <1>1, <2>1, <2>2, <2>3 DEF TypeOK
<1>4. Position
  BY <1>1 DEF Position
<1>5. InFlight
  <2>1. Cardinality({}) = 0 /\ IsFiniteSet({})
    BY FS_EmptySet
  <2>2. Width >= 0
    BY DEF Width
  <2> QED
    BY <1>1, <2>1, <2>2 DEF InFlight
<1>6. Outcomes
  BY <1>1, <1>2 DEF Outcomes, FinishedParallelCallReported
<1>7. Dedup
  <2>1. ASSUME NEW f \in Flows, NEW id \in Ids PROVE runs[<< f, id >>] = << >>
    <3>1. <<f, id>> \in Started
      BY DEF Started
    <3> QED
      BY <3>1 DEF Init
  <2>2. ExecutedOnce
    <3>1. ASSUME NEW f \in Flows, NEW id \in Ids
          PROVE  /\ Unrepeated(runs[<< f, id >>])
                 /\ runs[<< f, id >>] # << >> => id \in executed[f]
      BY <2>1, EmptyUnrepeated
    <3> QED
      BY <3>1, ExecutedOnceMeans DEF OnceForIds, OnceForId
  <2> QED
    BY <1>2, <2>2 DEF Dedup
<1> QED
  BY <1>3, <1>4, <1>5, <1>6, <1>7 DEF IInv

(* The surroundings leave what the invariant speaks of alone. *)
LEMMA SurroundingsStep ==
    ASSUME IInv, UNCHANGED <<pc, callVars, dedupVars, runs, messages>>,
           registry' \in [Names -> Modes \cup {"none"}], cancelled' \subseteq Flows,
           changes' \in 0 .. MaxRegistry
    PROVE  IInv'
<1> USE DEF callVars, dedupVars
<1>1. TypeOK'
  BY DEF IInv, TypeOK
<1>2. Position' /\ InFlight'
  BY DEF IInv, Position, InFlight, Reported
<1>3. Outcomes'
  BY DEF IInv, Outcomes, Frontier, Reported, FinishedParallelCallReported
<1>4. Dedup'
  BY DEF IInv, Dedup, StartedFor, Frontier, Reported, ExecutedOnce
<1> QED
  BY <1>1, <1>2, <1>3, <1>4 DEF IInv

(* After Stop and Reply the agent is idle. *)
LEMMA IdleStep ==
    ASSUME IInv, Idle, ExecutedOnce', UNCHANGED <<registryVars, cancelled, messages>>,
           executed' \in [Flows -> SUBSET Ids], ctx_key_order' \in Seq(Flows),
           runs' \in [Started -> Seq(Nat \X Nat)]
    PROVE  IInv'
<1>1. /\ calls' = <<>> /\ modes' = <<>> /\ batch' = <<>> /\ outcome' = <<>> /\ slots' = <<>>
      /\ resp_messages' = <<>> /\ begun' = 0 /\ flight' = {} /\ pc' = "idle" /\ flow' = NoFlow
  BY DEF Idle
<1>2. DOMAIN calls' = {} /\ DOMAIN resp_messages' = {} /\ Len(batch') = 0
  BY <1>1
<1>3. TypeOK'
  <2>1. /\ outcome' \in [DOMAIN calls' -> Kinds \cup {"none"}]
        /\ slots' \in [DOMAIN calls' -> Kinds \cup {"none"}]
    BY <1>1, <1>2
  <2>2. /\ registry' \in [Names -> Modes \cup {"none"}] /\ cancelled' \subseteq Flows
        /\ messages' \in 0 .. MaxMessages /\ changes' \in 0 .. MaxRegistry
    BY DEF IInv, TypeOK, registryVars
  <2>3. /\ calls' \in Seq(Call) /\ modes' \in Seq(Modes) /\ batch' \in Seq(DOMAIN calls')
        /\ begun' \in 0 .. Len(batch') /\ flight' \subseteq DOMAIN calls'
        /\ resp_messages' \in Seq(Kinds)
    BY <1>1
  <2> QED
    BY <1>1, <2>1, <2>2, <2>3 DEF TypeOK
<1>4. Position'
  BY <1>1 DEF Position
<1>5. InFlight'
  <2>1. Cardinality({}) = 0 /\ IsFiniteSet({})
    BY FS_EmptySet
  <2>2. Width >= 0
    BY ToolCallsAssumption DEF Width
  <2> QED
    BY <1>1, <2>1, <2>2 DEF InFlight
<1>6. Outcomes'
  BY <1>1, <1>2 DEF Outcomes, FinishedParallelCallReported
<1>7. Dedup'
  BY <1>2 DEF Dedup
<1> QED
  BY <1>3, <1>4, <1>5, <1>6, <1>7 DEF IInv

(* process() takes a message: the calls it keeps were not executed before  *)
(* for the flow, and are recorded now.                                     *)
LEMMA ProcessStep ==
    ASSUME IInv, NEW f \in Flows, NEW tools \in Filters, NEW msg \in Messages,
           Process(f, tools, msg)
    PROVE  IInv'
<1> DEFINE cs == Fresh(f, tools, msg.calls)
<1>1. TypeOK /\ ExecutedOnce
  BY DEF IInv, Dedup
<1>0. FreshCalls(f, cs)
  BY FreshProperty
<1>3. /\ MarkExecuted(f, cs)
      /\ calls' = cs
      /\ outcome' = [i \in DOMAIN cs |-> "none"]
      /\ slots' = [i \in DOMAIN cs |-> "none"]
      /\ modes' = <<>> /\ batch' = <<>> /\ begun' = 0 /\ flight' = {} /\ flow' = f
      /\ messages' = messages + 1 /\ messages < MaxMessages
      /\ UNCHANGED <<registry, changes, cancelled>>
  BY DEF Process, registryVars
<1>4. \/ resp_messages' = [i \in DOMAIN cs |-> "error"] /\ pc' = "reply"
      \/ resp_messages' = <<>> /\ pc' = "schedule"
  BY DEF Process
<1> HIDE DEF cs
<1>2. /\ cs \in Seq(Call)
      /\ \A i \in DOMAIN cs : cs[i].id \notin executed[f]
  BY <1>0 DEF FreshCalls
<1>5. /\ executed' \in [Flows -> SUBSET Ids]
      /\ ctx_key_order' \in Seq(Flows)
      /\ runs' \in [Started -> Seq(Nat \X Nat)]
      /\ ExecutedOnce'
      /\ \A i \in DOMAIN cs : cs[i].id \in executed'[f] \cup {NoId}
      /\ \A i \in DOMAIN cs : cs[i].id # NoId => runs'[<<f, cs[i].id>>] = <<>>
  BY <1>1, <1>2, <1>3, MarkExecutedProperty
<1>6. Len(cs) \in Nat /\ DOMAIN cs = 1 .. Len(cs)
  BY <1>2
<1>7. ASSUME pc' = "reply"
      PROVE  resp_messages' \in Seq(Kinds) /\ Len(resp_messages') = Len(cs)
             /\ \A i \in DOMAIN resp_messages' : resp_messages'[i] = "error"
  <2>1. resp_messages' = [i \in 1 .. Len(cs) |-> "error"]
    BY <1>4, <1>6, <1>7
  <2>2. resp_messages' \in [1 .. Len(cs) -> Kinds]
    BY <2>1 DEF Kinds
  <2>3. resp_messages' \in Seq(Kinds) /\ Len(resp_messages') = Len(cs)
    BY <1>6, <2>2, FunctionIsSequence
  <2> QED
    BY <2>1, <2>3
<1>8. ASSUME pc' = "schedule" PROVE resp_messages' = <<>>
  BY <1>4, <1>8
<1>9. pc' \in {"reply", "schedule"}
  BY <1>4
<1>10. resp_messages' \in Seq(Kinds)
  <2>1. <<>> \in Seq(Kinds)
    OBVIOUS
  <2> QED
    BY <1>7, <1>8, <1>9, <2>1
<1>11. TypeOK'
  <2>1. /\ messages' \in 0 .. MaxMessages /\ changes' \in 0 .. MaxRegistry
        /\ registry' \in [Names -> Modes \cup {"none"}] /\ cancelled' \subseteq Flows
    BY <1>1, <1>3, ToolCallsAssumption DEF TypeOK
  <2>2. outcome' \in [DOMAIN calls' -> Kinds \cup {"none"}] /\ slots' \in [DOMAIN calls' -> Kinds \cup {"none"}]
    BY <1>3
  <2>3. /\ batch' \in Seq(DOMAIN calls') /\ modes' \in Seq(Modes) /\ begun' \in 0 .. Len(batch')
        /\ flight' \subseteq DOMAIN calls' /\ flow' \in Flows \cup {NoFlow}
    BY <1>3
  <2> QED
    BY <1>2, <1>3, <1>5, <1>9, <1>10, <2>1, <2>2, <2>3 DEF TypeOK
<1>12. Position'
  <2>1. flow' # NoFlow /\ Len(modes') = 0 /\ Len(batch') = 0 /\ DOMAIN batch' = {}
    BY <1>3, ToolCallsAssumption
  <2>2. CASE pc' = "schedule"
    BY <1>3, <1>6, <1>8, <2>1, <2>2 DEF Position, Reported
  <2>3. CASE pc' = "reply"
    BY <1>3, <1>7, <2>1, <2>3 DEF Position, Reported
  <2> QED
    BY <1>9, <2>2, <2>3
<1>13. InFlight'
  <2>1. Cardinality({}) = 0 /\ IsFiniteSet({})
    BY FS_EmptySet
  <2>2. Width >= 0
    BY ToolCallsAssumption DEF Width
  <2> QED
    BY <1>3, <1>9, <2>1, <2>2 DEF InFlight
<1>14. Outcomes'
  <2>1. \A i \in DOMAIN calls' : outcome'[i] = "none" /\ slots'[i] = "none"
    BY <1>3
  <2>2. \A i \in DOMAIN resp_messages' : resp_messages'[i] # "aborted"
    BY <1>7, <1>8, <1>9
  <2>3. FinishedParallelCallReported'
    BY <2>2 DEF FinishedParallelCallReported
  <2> QED
    BY <1>9, <2>1, <2>2, <2>3 DEF Outcomes
<1>15. Dedup'
  <2>1. DOMAIN <<>> = {}
    OBVIOUS
  <2>2. ASSUME NEW i \in DOMAIN cs, cs[i].id # NoId PROVE DOMAIN StartedFor(i)' = {}
    BY <1>3, <1>5, <2>1, <2>2 DEF StartedFor
  <2> QED
    BY <1>3, <1>5, <2>2 DEF Dedup
<1> QED
  BY <1>11, <1>12, <1>13, <1>14, <1>15 DEF IInv

-----------------------------------------------------------------------------
(* The records stay right in a step that records and starts nothing. *)
LEMMA DedupFrame ==
    ASSUME Dedup, UNCHANGED <<calls, flow, executed, runs, messages>>,
           \A i \in DOMAIN calls : i > Frontier' => i > Frontier
    PROVE  Dedup'
  BY DEF Dedup, StartedFor, ExecutedOnce

(* The first poll of the next call: a tool is started for it at most once, *)
(* and its outcome is not a real one yet.                                  *)
LEMMA ExecuteProperty ==
    ASSUME IInv, NEW n \in 1 .. Len(calls), n > Frontier, flow \in Flows, ExecuteToolCall(n),
           outcome[n] = "none",
           UNCHANGED <<calls, flow, executed, messages>>,
           \A i \in DOMAIN calls : i > Frontier' => i > Frontier /\ i # n
    PROVE  /\ outcome' \in [1 .. Len(calls) -> Kinds \cup {"none"}]
           /\ \A i \in 1 .. Len(calls) : i # n => outcome'[i] = outcome[i]
           /\ outcome'[n] \in {"none", "cancelled", "error"}
           /\ runs' \in [Started -> Seq(Nat \X Nat)]
           /\ Dedup'
<1>1. TypeOK /\ Shapes /\ Dedup
  BY ShapesOK DEF IInv
<1>2. <<flow, calls[n].id>> \in Started
  <2>1. calls[n] \in Call
    BY <1>1 DEF Shapes
  <2> QED
    BY <2>1 DEF Started, Call
<1>3. CASE UNCHANGED runs
  <2>1. PICK res \in {"none", "cancelled", "error"} : outcome' = [outcome EXCEPT ![n] = res]
    <3>1. \/ outcome' = [outcome EXCEPT ![n] = "cancelled"]
          \/ outcome' = [outcome EXCEPT ![n] = "error"]
          \/ outcome' = [outcome EXCEPT ![n] = "none"]
      <4>1. outcome = [outcome EXCEPT ![n] = "none"]
        BY <1>1 DEF Shapes
      <4> QED
        BY <4>1 DEF ExecuteToolCall
    <3> QED
      BY <3>1
  <2>2. Dedup'
    BY <1>1, <1>3, DedupFrame
  <2> QED
    BY <1>1, <1>3, <2>1, <2>2 DEF Shapes, TypeOK, Kinds
<1>4. CASE UNCHANGED outcome
           /\ runs' = [runs EXCEPT ![<<flow, calls[n].id>>] = Append(@, <<messages, n>>)]
  <2> DEFINE id == calls[n].id
             log == runs[<<flow, id>>]
             new == Append(log, <<messages, n>>)
  <2>1. runs \in [Started -> Seq(Nat \X Nat)] /\ messages \in Nat /\ n \in Nat
    BY <1>1 DEF TypeOK
  <2>2. log \in Seq(Nat \X Nat) /\ <<messages, n>> \in Nat \X Nat
    BY <1>2, <2>1
  <2>3. new \in Seq(Nat \X Nat)
    BY <2>2
  <2>4. runs' \in [Started -> Seq(Nat \X Nat)]
    BY <1>2, <1>4, <2>1, <2>3
  <2>5. \A k \in Started : runs'[k] = IF k = <<flow, id>> THEN new ELSE runs[k]
    BY <1>2, <1>4, <2>1
  <2>6. \A f \in Flows, x \in Ids \cup {NoId} : <<f, x>> \in Started
    BY DEF Started
  <2>7. id \in Ids \cup {NoId} /\ n \in DOMAIN calls
    BY <1>1 DEF Shapes, Call
  <2>8. ASSUME id # NoId
        PROVE  /\ id \in executed[flow]
               /\ \A r \in DOMAIN log : log[r][1] = messages /\ log[r] # << messages, n >>
    BY <1>1, <2>7, <2>8 DEF Dedup, StartedFor
  <2> HIDE DEF log, new
  <2>9. ASSUME NEW f \in Flows, NEW x \in Ids
        PROVE  /\ Unrepeated(runs'[<< f, x >>])
               /\ runs'[<< f, x >>] # << >> => x \in executed'[f]
    <3>1. Unrepeated(runs[<<f, x>>]) /\ (runs[<<f, x>>] # <<>> => x \in executed[f])
      BY <1>1, ExecutedOnceMeans DEF Dedup, OnceForIds, OnceForId
    <3>2. CASE f = flow /\ x = id
      <4>1. id # NoId
        BY <3>2, ToolCallsAssumption
      <4>2. Unrepeated(log)
        BY <3>1, <3>2 DEF log
      <4>3. Unrepeated(new)
        BY <2>1, <2>2, <2>8, <4>1, <4>2, AppendUnrepeated DEF new
      <4> QED
        BY <2>5, <2>6, <2>8, <3>2, <4>1, <4>3
    <3>3. CASE ~(f = flow /\ x = id)
      <4>1. <<f, x>> # <<flow, id>>
        BY <3>3
      <4> QED
        BY <2>5, <2>6, <3>1, <4>1
    <3> QED
      BY <3>2, <3>3
  <2>10. ExecutedOnce'
    BY <2>9, ExecutedOnceMeansNext DEF OnceForIds, OnceForId
  <2>11. ASSUME NEW i \in DOMAIN calls, calls[i].id # NoId
         PROVE  LET now == runs'[<< flow, calls[i].id >>]
                IN \A r \in DOMAIN now : /\ now[r][1] = messages
                                         /\ i > Frontier' => now[r] # << messages, i >>
    <3> DEFINE was == runs[<<flow, calls[i].id>>]
               now == runs'[<<flow, calls[i].id>>]
    <3>1. calls[i].id \in Ids \cup {NoId} /\ i \in Nat
      BY <1>1 DEF Shapes, Call
    <3>2. \A r \in DOMAIN was : was[r][1] = messages /\ (i > Frontier => was[r] # <<messages, i>>)
      BY <1>1, <2>11 DEF Dedup, StartedFor
    <3>3. i > Frontier' => i > Frontier /\ i # n
      OBVIOUS
    <3>4. CASE calls[i].id # id
      <4>1. <<flow, calls[i].id>> # <<flow, id>> /\ <<flow, calls[i].id>> \in Started
        BY <2>6, <3>1, <3>4
      <4>2. now = was
        BY <2>5, <4>1
      <4> QED
        BY <3>2, <3>3, <4>2
    <3>5. CASE calls[i].id = id
      <4>1. now = new /\ was = log
        BY <2>5, <2>6, <3>1, <3>5 DEF log
      <4>2. Unrepeated(log)
        <5>1. id \in Ids
          BY <2>7, <2>11, <3>5
        <5> QED
          BY <1>1, <5>1, ExecutedOnceMeans DEF Dedup, OnceForIds, OnceForId, log
      <4>3. \A r \in DOMAIN new :
              /\ new[r][1] = messages
              /\ i # n /\ (\A q \in DOMAIN log : log[q] # <<messages, i>>) => new[r] # <<messages, i>>
        <5> HIDE DEF now, was, id
        <5>1. messages \in Nat /\ n \in Nat /\ i \in Nat
          BY <2>1, <3>1
        <5>2. id # NoId
          BY <2>11, <3>5
        <5>3. \A r \in DOMAIN log : log[r][1] = messages /\ log[r] # <<messages, n>>
          BY <2>8, <5>2
        <5>4. \A r \in DOMAIN new :
                /\ new[r][1] = messages
                /\ \A j \in Nat : j # n /\ (\A q \in DOMAIN log : log[q] # <<messages, j>>)
                                => new[r] # <<messages, j>>
          BY <2>2, <4>2, <5>1, <5>3, AppendUnrepeated DEF new
        <5> QED
          BY <5>1, <5>4
      <4> HIDE DEF now, was
      <4> QED
        BY <3>2, <3>3, <4>1, <4>3 DEF now
    <3> QED
      BY <3>4, <3>5
  <2>12. \A i \in DOMAIN calls : calls[i].id # NoId =>
            \A r \in DOMAIN StartedFor(i)' :
                /\ StartedFor(i)'[r][1] = messages'
                /\ i > Frontier' => StartedFor(i)'[r] # <<messages', i>>
    <3>1. \A i : StartedFor(i)' = runs'[<<flow', calls'[i].id>>]
      BY DEF StartedFor
    <3>2. flow' = flow /\ calls' = calls /\ messages' = messages
      OBVIOUS
    <3> QED
      BY <2>11, <3>1, <3>2, Zenon
  <2>13. Dedup'
    BY <1>1, <2>10, <2>12 DEF Dedup
  <2> QED
    BY <1>1, <1>4, <2>4, <2>13 DEF Shapes
<1> QED
  BY <1>3, <1>4 DEF ExecuteToolCall

(* A message that is being processed has a flow. *)
LEMMA FlowKnown ==
    ASSUME TypeOK, Position, pc # "idle"
    PROVE  flow \in Flows
<1>1. flow # NoFlow
  BY DEF Position
<1> QED
  BY <1>1 DEF TypeOK

(* The batch lies within the calls, right after those with a result. *)
LEMMA BatchWithin ==
    ASSUME Shapes, Position, pc \in {"flush", "salvage"}
    PROVE  /\ Reported + Len(batch) <= Len(calls) /\ Reported + begun <= Len(calls)
           /\ \A k \in 1 .. Len(batch) : batch[k] = Reported + k
<1>1. /\ Len(modes) = Reported + Len(batch) \/ Len(modes) = Reported + Len(batch) + 1
      /\ Len(modes) <= Len(calls)
  BY DEF Position
<1>2. \A k \in 1 .. Len(batch) : batch[k] = Reported + k
  BY DEF Position, Shapes
<1>3. Reported \in Nat /\ Len(batch) \in Nat /\ Len(modes) \in Nat /\ Len(calls) \in Nat /\ begun \in 0 .. Len(batch)
  BY DEF Shapes
<1> QED
  BY <1>1, <1>2, <1>3

(* A tool that is running has its answer. *)
LEMMA ToolFinishesStep ==
    ASSUME IInv, NEW n \in flight, ToolFinishes(n)
    PROVE  IInv'
<1>1. TypeOK /\ Shapes /\ Position /\ InFlight /\ Outcomes /\ Dedup
  BY ShapesOK DEF IInv
<1>2. /\ UNCHANGED <<registry, changes, cancelled, executed, ctx_key_order, pc, flow, calls, modes, batch,
                     begun, flight, slots, resp_messages, runs, messages>>
      /\ outcome[n] = "none"
  BY DEF ToolFinishes, registryVars, dedupVars
<1>3. PICK res \in {"real", "cancelled"} : outcome' = [outcome EXCEPT ![n] = res]
  BY DEF ToolFinishes
<1>4. n \in 1 .. Len(calls) /\ pc \in {"flush", "salvage", "await"} /\ ~(n > Frontier) /\ n \notin DOMAIN resp_messages
  <2>1. pc \in {"flush", "salvage", "await"}
    BY <1>1 DEF InFlight, TypeOK
  <2>2. CASE pc \in {"flush", "salvage"}
    BY <1>1, <2>2 DEF InFlight, Frontier, Shapes
  <2>3. CASE pc = "await"
    BY <1>1, <2>3 DEF InFlight, Frontier, Shapes, Position
  <2> QED
    BY <1>1, <2>1, <2>2, <2>3 DEF Shapes
<1>5. /\ outcome' \in [1 .. Len(calls) -> Kinds \cup {"none"}]
      /\ outcome'[n] = res
      /\ \A i \in 1 .. Len(calls) : i # n => outcome'[i] = outcome[i]
  BY <1>1, <1>3, <1>4 DEF Shapes, Kinds
<1>6. TypeOK'
  BY <1>1, <1>2, <1>5 DEF TypeOK, Shapes
<1>7. Position' /\ InFlight'
  BY <1>1, <1>2 DEF Position, InFlight, Reported
<1>8. Frontier' = Frontier
  BY <1>2 DEF Frontier, Reported
<1>9. Outcomes'
  <2>1. FinishedParallelCallReported'
    BY <1>1, <1>2, <1>4, <1>5 DEF Outcomes, FinishedParallelCallReported, Shapes
  <2>2. \A i \in DOMAIN calls : outcome'[i] # "aborted" /\ slots[i] # "aborted"
    BY <1>1, <1>5 DEF Outcomes, Shapes
  <2>3. \A i \in DOMAIN calls : i > Frontier /\ pc # "reply" => outcome'[i] = "none"
    BY <1>1, <1>4, <1>5 DEF Outcomes, Shapes
  <2>4. pc \in {"flush", "salvage"} =>
          \A i \in Reported + 1 .. Reported + begun : i \in flight \/ (outcome'[i] # "none" /\ slots[i] = outcome'[i])
    <3> SUFFICES ASSUME pc \in {"flush", "salvage"}, NEW i \in Reported + 1 .. Reported + begun, i \notin flight
                 PROVE  outcome'[i] # "none" /\ slots[i] = outcome'[i]
      OBVIOUS
    <3>1. outcome[i] # "none" /\ slots[i] = outcome[i]
      BY <1>1 DEF Outcomes
    <3>2. i \in 1 .. Len(calls)
      BY <1>1, BatchWithin DEF Shapes
    <3> QED
      BY <1>5, <3>1, <3>2
  <2> QED
    BY <1>1, <1>2, <1>8, <2>1, <2>2, <2>3, <2>4 DEF Outcomes, Reported
<1>10. Dedup'
  BY <1>1, <1>2, <1>8, DedupFrame
<1> QED
  BY <1>6, <1>7, <1>9, <1>10 DEF IInv

(* call_tools looks at the next call, or has seen them all. *)
LEMMA ScheduleStep ==
    ASSUME IInv, Schedule
    PROVE  IInv'
<1>1. TypeOK /\ Shapes /\ Position /\ InFlight /\ Outcomes /\ Dedup
  BY ShapesOK DEF IInv
<1>2. /\ UNCHANGED <<registry, changes, cancelled, executed, ctx_key_order, flow, calls,
                     begun, flight, outcome, slots, resp_messages, runs, messages>>
      /\ pc = "schedule"
  BY DEF Schedule, registryVars, dedupVars
<1>3. /\ Len(modes) = Reported + Len(batch) /\ Len(modes) <= Len(calls) /\ flight = {} /\ begun = 0
      /\ \A k \in 1 .. Len(batch) : batch[k] = Reported + k /\ modes[Reported + k] = "Parallel"
  BY <1>1, <1>2 DEF Position, InFlight, Shapes
<1>4. Reported' = Reported
  BY <1>2 DEF Reported
<1>5. Len(batch) = 0 <=> batch = <<>>
  BY <1>1 DEF TypeOK
<1>6. flow # NoFlow
  BY <1>1, <1>2 DEF Position
<1>7. ASSUME modes' \in Seq(Modes), batch' \in Seq(DOMAIN calls), Position',
             pc' \in {"schedule", "flush", "sequential", "reply"}
      PROVE  IInv'
  <2>1. begun' = 0 /\ flight' = {} /\ 0 \in 0 .. Len(batch')
    BY <1>2, <1>3, <1>7
  <2>2. TypeOK'
    BY <1>1, <1>2, <1>7, <2>1 DEF TypeOK
  <2>3. InFlight'
    BY <1>1, <1>2, <1>7, <2>1 DEF InFlight
  <2>4. Frontier = Reported /\ \A i \in DOMAIN calls : i > Frontier' => i > Frontier
    <3>1. Frontier = Reported
      BY <1>2 DEF Frontier
    <3>2. Frontier' = Reported \/ Frontier' = Len(calls)
      BY <1>2, <1>4, <1>7, <2>1, <1>1 DEF Frontier, Shapes
    <3> QED
      BY <1>1, <1>3, <3>1, <3>2 DEF Shapes
  <2>5. Outcomes'
    <3>1. FinishedParallelCallReported'
      BY <1>1, <1>2 DEF Outcomes, FinishedParallelCallReported
    <3>2. \A i \in Reported + 1 .. Reported + 0 : FALSE
      BY <1>1 DEF Shapes
    <3> QED
      BY <1>1, <1>2, <1>4, <2>1, <2>4, <3>1, <3>2 DEF Outcomes
  <2>6. Dedup'
    BY <1>1, <1>2, <2>4, DedupFrame
  <2> QED
    BY <1>7, <2>2, <2>3, <2>5, <2>6 DEF IInv
<1>8. CASE /\ Len(modes) < Len(calls)
           /\ modes' = Append(modes, "Parallel")
           /\ batch' = Append(batch, Len(modes) + 1)
           /\ pc' = pc
  <2>1. modes' \in Seq(Modes) /\ Len(modes') = Len(modes) + 1
        /\ modes'[Len(modes) + 1] = "Parallel" /\ \A k \in 1 .. Len(modes) : modes'[k] = modes[k]
    BY <1>1, <1>8 DEF Shapes, Modes
  <2>2. batch' \in Seq(DOMAIN calls) /\ Len(batch') = Len(batch) + 1 /\ DOMAIN batch' = 1 .. Len(batch) + 1
        /\ batch'[Len(batch) + 1] = Len(modes) + 1 /\ \A k \in 1 .. Len(batch) : batch'[k] = batch[k]
    <3>1. Len(modes) + 1 \in DOMAIN calls
      BY <1>1, <1>8 DEF Shapes
    <3> QED
      BY <1>1, <1>8, <3>1 DEF TypeOK, Shapes
  <2>3. \A k \in 1 .. Len(batch) + 1 : batch'[k] = Reported + k /\ modes'[Reported + k] = "Parallel"
    <3> SUFFICES ASSUME NEW k \in 1 .. Len(batch) + 1
                 PROVE  batch'[k] = Reported + k /\ modes'[Reported + k] = "Parallel"
      OBVIOUS
    <3>1. CASE k \in 1 .. Len(batch)
      <4>1. Reported + k \in 1 .. Len(modes)
        BY <1>1, <1>3, <3>1 DEF Shapes
      <4> QED
        BY <1>3, <2>1, <2>2, <3>1, <4>1
    <3>2. CASE k = Len(batch) + 1
      BY <1>1, <1>3, <2>1, <2>2, <3>2 DEF Shapes
    <3> QED
      BY <1>1, <3>1, <3>2 DEF Shapes
  <2>4. Position'
    BY <1>1, <1>2, <1>3, <1>4, <1>6, <1>8, <2>1, <2>2, <2>3 DEF Position, Shapes
  <2> QED
    BY <1>2, <1>7, <1>8, <2>1, <2>2, <2>4
<1>9. CASE /\ Len(modes) < Len(calls)
           /\ modes' = Append(modes, "Sequential")
           /\ batch' = batch
           /\ pc' = IF batch = <<>> THEN "sequential" ELSE "flush"
  <2>1. modes' \in Seq(Modes) /\ Len(modes') = Len(modes) + 1
        /\ modes'[Len(modes) + 1] = "Sequential" /\ \A k \in 1 .. Len(modes) : modes'[k] = modes[k]
    BY <1>1, <1>9 DEF Shapes, Modes
  <2>2. \A k \in 1 .. Len(batch) : batch[k] = Reported + k /\ modes'[Reported + k] = "Parallel"
    <3> SUFFICES ASSUME NEW k \in 1 .. Len(batch)
                 PROVE  batch[k] = Reported + k /\ modes'[Reported + k] = "Parallel"
      OBVIOUS
    <3>1. Reported + k \in 1 .. Len(modes)
      BY <1>1, <1>3 DEF Shapes
    <3> QED
      BY <1>3, <2>1, <3>1
  <2>3. Position'
    <3>1. CASE batch = <<>>
      BY <1>1, <1>2, <1>3, <1>4, <1>5, <1>6, <1>9, <2>1, <3>1 DEF Position, Shapes
    <3>2. CASE batch # <<>>
      <4>1. /\ pc' = "flush" /\ DOMAIN batch' = 1 .. Len(batch) /\ Len(batch') = Len(batch)
            /\ Len(modes') = Reported + Len(batch) + 1 /\ Len(modes') <= Len(calls)
            /\ modes'[Len(modes')] = "Sequential"
        BY <1>3, <1>9, <2>1, <3>2, ShapesOK, <1>1 DEF Shapes
      <4> QED
        BY <1>2, <1>4, <1>6, <1>9, <2>2, <4>1 DEF Position
    <3> QED
      BY <3>1, <3>2
  <2> QED
    BY <1>1, <1>7, <1>9, <2>1, <2>3 DEF TypeOK
<1>10. CASE /\ Len(modes) = Len(calls)
            /\ UNCHANGED <<modes, batch>>
            /\ pc' = IF batch = <<>> THEN "reply" ELSE "flush"
  <2>1. Position'
    <3>1. CASE batch = <<>>
      <4>1. pc' = "reply"
        BY <1>10, <3>1
      <4>2. Reported = Len(calls)
        <5>1. Len(batch) = 0 /\ Reported \in Nat
          BY <1>1, <1>5, <3>1 DEF Shapes
        <5> QED
          BY <1>3, <1>10, <5>1
      <4> QED
        BY <1>2, <1>4, <1>6, <4>1, <4>2 DEF Position
    <3>2. CASE batch # <<>>
      BY <1>1, <1>2, <1>3, <1>4, <1>6, <1>10, <3>2 DEF Position, Shapes
    <3> QED
      BY <3>1, <3>2
  <2> QED
    BY <1>1, <1>7, <1>10, <2>1 DEF TypeOK
<1> QED
  BY <1>8, <1>9, <1>10 DEF Schedule

(* The stream takes up the next call of the batch. *)
LEMMA BatchStartStep ==
    ASSUME IInv, BatchStart
    PROVE  IInv'
<1>1. TypeOK /\ Shapes /\ Position /\ InFlight /\ Outcomes /\ Dedup
  BY ShapesOK DEF IInv
<1> DEFINE n == Reported + begun + 1
<1>2. /\ UNCHANGED <<registry, changes, cancelled, executed, ctx_key_order, pc, flow, calls, modes, batch,
                     slots, resp_messages, messages>>
      /\ pc \in {"flush", "salvage"} /\ begun < Len(batch) /\ begun' = begun + 1
      /\ Cardinality(flight) < Width
  BY DEF BatchStart, registryVars, dedupVars
<1>3. /\ Reported + Len(batch) <= Len(calls) /\ batch[begun + 1] = n
      /\ n \in 1 .. Len(calls) /\ begun' \in 0 .. Len(batch)
  <2>1. /\ Reported + Len(batch) <= Len(calls)
        /\ \A k \in 1 .. Len(batch) : batch[k] = Reported + k
    BY <1>1, <1>2, BatchWithin
  <2>2. Reported \in Nat /\ Len(batch) \in Nat /\ Len(calls) \in Nat /\ begun \in 0 .. Len(batch)
    BY <1>1 DEF Shapes
  <2>3. begun + 1 \in 1 .. Len(batch)
    BY <1>2, <2>2
  <2>4. batch[begun + 1] = n
    BY <2>1, <2>2, <2>3
  <2> QED
    BY <1>2, <2>1, <2>2, <2>4
<1>4. flight' = flight \cup {n} /\ ExecuteToolCall(n)
  BY <1>3 DEF BatchStart
<1>5. Reported' = Reported /\ Frontier = Reported + begun /\ Frontier' = Reported + (begun + 1)
  <2>1. Reported' = Reported
    BY <1>2 DEF Reported
  <2> QED
    BY <1>2, <2>1 DEF Frontier
<1>6. flow \in Flows
  BY <1>1, <1>2, FlowKnown
<1>7. outcome[n] = "none" /\ n > Frontier
  <2>1. n > Frontier /\ n \in DOMAIN calls /\ pc # "reply"
    BY <1>1, <1>2, <1>3, <1>5 DEF Shapes
  <2> QED
    BY <1>1, <2>1 DEF Outcomes
<1>8. \A i \in DOMAIN calls : i > Frontier' => i > Frontier /\ i # n
  BY <1>1, <1>5 DEF Shapes
<1> HIDE DEF n
<1>9. /\ outcome' \in [1 .. Len(calls) -> Kinds \cup {"none"}]
      /\ \A i \in 1 .. Len(calls) : i # n => outcome'[i] = outcome[i]
      /\ outcome'[n] \in {"none", "cancelled", "error"}
      /\ runs' \in [Started -> Seq(Nat \X Nat)]
      /\ Dedup'
  BY <1>2, <1>3, <1>4, <1>6, <1>7, <1>8, ExecuteProperty
<1>10. TypeOK'
  BY <1>1, <1>2, <1>3, <1>4, <1>9 DEF TypeOK, Shapes
<1>11. Position'
  BY <1>1, <1>2, <1>5 DEF Position
<1>12. InFlight'
  <2>1. flight \subseteq Reported + 1 .. Reported + begun /\ IsFiniteSet(flight)
    BY <1>1, <1>2 DEF InFlight
  <2>2. flight' \subseteq Reported + 1 .. Reported + (begun + 1) /\ n \notin flight
    BY <1>1, <1>3, <1>4, <2>1 DEF n, Shapes
  <2>3. Cardinality(flight) \in Nat
    BY <2>1, FS_CardinalityType
  <2>4. IsFiniteSet(flight') /\ Cardinality(flight') = Cardinality(flight) + 1
    BY <1>4, <2>1, <2>2, FS_AddElement
  <2>5. Width \in Nat
    BY ToolCallsAssumption DEF Width
  <2>6. Cardinality(flight') <= Width
    BY <1>2, <2>3, <2>4, <2>5
  <2> QED
    BY <1>2, <1>5, <2>2, <2>4, <2>6 DEF InFlight
<1>13. Outcomes'
  <2>1. ASSUME NEW i \in Reported + 1 .. Reported + (begun + 1), i \notin flight'
        PROVE  outcome'[i] # "none" /\ slots'[i] = outcome'[i]
    <3>1. i # n /\ i \notin flight
      BY <1>4, <2>1
    <3>2. i \in Reported + 1 .. Reported + begun /\ i \in 1 .. Len(calls)
      BY <1>1, <1>2, <1>3, <3>1 DEF n, Shapes
    <3> QED
      BY <1>1, <1>2, <1>9, <3>1, <3>2 DEF Outcomes
  <2>2. \A i \in DOMAIN calls : i > Frontier' => outcome'[i] = "none"
    BY <1>1, <1>2, <1>8, <1>9 DEF Outcomes, Shapes
  <2>3. \A i \in DOMAIN calls : outcome'[i] # "aborted" /\ slots'[i] # "aborted"
    BY <1>1, <1>2, <1>9 DEF Outcomes, Shapes
  <2>4. \A i \in DOMAIN resp_messages' : resp_messages'[i] # "aborted"
    BY <1>1, <1>2 DEF Outcomes
  <2>5. FinishedParallelCallReported'
    BY <2>4 DEF FinishedParallelCallReported
  <2> QED
    BY <1>2, <1>5, <2>1, <2>2, <2>3, <2>4, <2>5 DEF Outcomes
<1> QED
  BY <1>9, <1>10, <1>11, <1>12, <1>13 DEF IInv

(* The stream yields a call that is ready. *)
LEMMA BatchYieldStep ==
    ASSUME IInv, NEW n \in flight, BatchYield(n)
    PROVE  IInv'
<1>1. TypeOK /\ Shapes /\ Position /\ InFlight /\ Outcomes /\ Dedup
  BY ShapesOK DEF IInv
<1>2. /\ UNCHANGED <<registry, changes, cancelled, executed, ctx_key_order, pc, flow, calls, modes, batch,
                     begun, outcome, resp_messages, runs, messages>>
      /\ pc \in {"flush", "salvage"} /\ outcome[n] # "none"
      /\ flight' = flight \ {n} /\ slots' = [slots EXCEPT ![n] = outcome[n]]
  BY DEF BatchYield, registryVars, dedupVars
<1>3. n \in 1 .. Len(calls)
  BY <1>1 DEF Shapes
<1>4. /\ slots' \in [1 .. Len(calls) -> Kinds \cup {"none"}]
      /\ slots'[n] = outcome[n]
      /\ \A i \in 1 .. Len(calls) : i # n => slots'[i] = slots[i]
  BY <1>1, <1>2, <1>3 DEF Shapes
<1>5. Reported' = Reported /\ Frontier' = Frontier
  BY <1>2 DEF Frontier, Reported
<1>6. TypeOK'
  BY <1>1, <1>2, <1>4 DEF TypeOK, Shapes
<1>7. Position'
  BY <1>1, <1>2, <1>5 DEF Position
<1>8. InFlight'
  <2>1. IsFiniteSet(flight) /\ Cardinality(flight) <= Width /\ flight \subseteq Reported + 1 .. Reported + begun
    BY <1>1, <1>2 DEF InFlight
  <2>2. Cardinality(flight) \in Nat /\ Width \in Nat
    BY <2>1, FS_CardinalityType, ToolCallsAssumption DEF Width
  <2>3. IsFiniteSet(flight') /\ Cardinality(flight') = Cardinality(flight) - 1
    BY <1>2, <2>1, FS_RemoveElement
  <2>4. Cardinality(flight') <= Width /\ flight' \subseteq Reported + 1 .. Reported + begun
    BY <1>2, <2>1, <2>2, <2>3
  <2> QED
    BY <1>2, <1>5, <2>3, <2>4 DEF InFlight
<1>9. Outcomes'
  <2>1. ASSUME NEW i \in Reported + 1 .. Reported + begun, i \notin flight'
        PROVE  outcome'[i] # "none" /\ slots'[i] = outcome'[i]
    <3>1. i \in 1 .. Len(calls)
      BY <1>1, <1>2, BatchWithin DEF Shapes
    <3>2. CASE i = n
      BY <1>2, <1>4, <3>2
    <3>3. CASE i # n
      BY <1>1, <1>2, <1>4, <2>1, <3>1, <3>3 DEF Outcomes
    <3> QED
      BY <3>2, <3>3
  <2>2. \A i \in DOMAIN calls : slots'[i] # "aborted"
    BY <1>1, <1>3, <1>4 DEF Outcomes, Shapes
  <2>3. FinishedParallelCallReported'
    BY <1>1, <1>2 DEF Outcomes, FinishedParallelCallReported
  <2> QED
    BY <1>1, <1>2, <1>5, <2>1, <2>2, <2>3 DEF Outcomes
<1>10. Dedup'
  BY <1>1, <1>2, <1>5, DedupFrame
<1> QED
  BY <1>6, <1>7, <1>8, <1>9, <1>10 DEF IInv

(* The token is found cancelled. *)
LEMMA BatchAbortedStep ==
    ASSUME IInv, BatchAborted
    PROVE  IInv'
<1>1. TypeOK /\ Shapes /\ Position /\ InFlight /\ Outcomes /\ Dedup
  BY ShapesOK DEF IInv
<1>2. /\ UNCHANGED <<registry, changes, cancelled, executed, ctx_key_order, flow, calls, modes, batch,
                     begun, flight, outcome, slots, resp_messages, runs, messages>>
      /\ pc = "flush" /\ pc' = "salvage"
  BY DEF BatchAborted, registryVars, dedupVars, callVars
<1>3. Reported' = Reported /\ Frontier' = Frontier
  BY <1>2 DEF Frontier, Reported
<1>4. TypeOK'
  BY <1>1, <1>2 DEF TypeOK
<1>5. Position' /\ InFlight'
  BY <1>1, <1>2, <1>3 DEF Position, InFlight
<1>6. Outcomes'
  BY <1>1, <1>2, <1>3 DEF Outcomes, FinishedParallelCallReported
<1>7. Dedup'
  BY <1>1, <1>2, <1>3, DedupFrame
<1> QED
  BY <1>4, <1>5, <1>6, <1>7 DEF IInv

-----------------------------------------------------------------------------
(* The results of a batch: one of a known kind for each of its calls.      *)
LEMMA BatchResultsProperty ==
    ASSUME Shapes, Position, pc \in {"flush", "salvage"}
    PROVE  /\ BatchResults \in Seq(Kinds) /\ Len(BatchResults) = Len(batch)
           /\ \A k \in 1 .. Len(batch) : BatchResults[k] = IF slots[Reported + k] = "none" THEN "aborted"
                                                           ELSE slots[Reported + k]
<1>1. /\ Reported + Len(batch) <= Len(calls) /\ Reported \in Nat /\ Len(batch) \in Nat
      /\ DOMAIN batch = 1 .. Len(batch)
      /\ \A k \in 1 .. Len(batch) : batch[k] = Reported + k
  BY BatchWithin DEF Shapes
<1>2. BatchResults = [k \in 1 .. Len(batch) |-> IF slots[Reported + k] = "none" THEN "aborted"
                                               ELSE slots[Reported + k]]
  BY <1>1 DEF BatchResults
<1>3. ASSUME NEW k \in 1 .. Len(batch)
      PROVE  (IF slots[Reported + k] = "none" THEN "aborted" ELSE slots[Reported + k]) \in Kinds
  <2>1. Reported + k \in 1 .. Len(calls)
    BY <1>1, ShapesOK DEF Shapes
  <2>2. slots[Reported + k] \in Kinds \cup {"none"}
    BY <2>1 DEF Shapes
  <2> QED
    BY <2>2 DEF Kinds
<1>4. BatchResults \in [1 .. Len(batch) -> Kinds]
  BY <1>2, <1>3
<1> QED
  BY <1>1, <1>2, <1>4, FunctionIsSequence

(* What two lists of results make together. *)
LEMMA Joined ==
    ASSUME NEW s \in Seq(Kinds), NEW t \in Seq(Kinds)
    PROVE  /\ s \o t \in Seq(Kinds) /\ Len(s \o t) = Len(s) + Len(t)
           /\ \A i \in 1 .. Len(s) : (s \o t)[i] = s[i]
           /\ \A i \in Len(s) + 1 .. Len(s) + Len(t) : (s \o t)[i] = t[i - Len(s)]
  OBVIOUS

(* The results after the batch's: the kind of the slot, or "aborted". *)
LEMMA BatchAppended ==
    ASSUME Shapes, Position, pc \in {"flush", "salvage"}, NEW res,
           res = resp_messages \o BatchResults
    PROVE  /\ res \in Seq(Kinds) /\ Len(res) = Reported + Len(batch)
           /\ \A i \in 1 .. Reported : res[i] = resp_messages[i]
           /\ \A i \in Reported + 1 .. Reported + Len(batch) :
                 res[i] = IF slots[i] = "none" THEN "aborted" ELSE slots[i]
<1> DEFINE s == resp_messages
           t == BatchResults
<1>1. /\ s \in Seq(Kinds) /\ Len(s) = Reported /\ Reported \in Nat /\ Len(batch) \in Nat
      /\ res = s \o t
  BY DEF Shapes, Reported
<1>2. /\ t \in Seq(Kinds) /\ Len(t) = Len(batch)
      /\ \A k \in 1 .. Len(batch) : t[k] = IF slots[Reported + k] = "none" THEN "aborted"
                                            ELSE slots[Reported + k]
  BY BatchResultsProperty
<1> HIDE DEF s, t
<1>3. /\ s \o t \in Seq(Kinds) /\ Len(s \o t) = Len(s) + Len(t)
      /\ \A i \in 1 .. Len(s) : (s \o t)[i] = s[i]
      /\ \A i \in Len(s) + 1 .. Len(s) + Len(t) : (s \o t)[i] = t[i - Len(s)]
  BY <1>1, <1>2, Joined
<1>4. \A i \in 1 .. Reported : res[i] = resp_messages[i]
  BY <1>1, <1>3 DEF s
<1>5. ASSUME NEW i \in Reported + 1 .. Reported + Len(batch)
      PROVE  res[i] = IF slots[i] = "none" THEN "aborted" ELSE slots[i]
  <2>1. i - Reported \in 1 .. Len(batch) /\ Reported + (i - Reported) = i
    BY <1>1
  <2>2. res[i] = t[i - Reported]
    BY <1>1, <1>2, <1>3
  <2> QED
    BY <1>2, <2>1, <2>2
<1> QED
  BY <1>1, <1>2, <1>3, <1>4, <1>5

(* AbortRest fills the results up to one per call. *)
LEMMA AbortRestProperty ==
    ASSUME Len(calls) \in Nat, NEW s \in Seq(Kinds), Len(s) <= Len(calls)
    PROVE  /\ AbortRest(s) \in Seq(Kinds) /\ Len(AbortRest(s)) = Len(calls)
           /\ \A i \in 1 .. Len(s) : AbortRest(s)[i] = s[i]
<1> DEFINE m == Len(calls) - Len(s)
           rest == [k \in 1 .. m |-> "aborted"]
<1>1. m \in Nat
  OBVIOUS
<1>2. rest \in [1 .. m -> Kinds]
  BY DEF Kinds
<1>3. rest \in Seq(Kinds) /\ Len(rest) = m
  BY <1>1, <1>2, FunctionIsSequence
<1>4. AbortRest(s) = s \o rest
  BY DEF AbortRest
<1> HIDE DEF rest
<1> QED
  BY <1>3, <1>4, Joined

(* The stream is empty: every call of the batch has its outcome as result. *)
LEMMA BatchDoneStep ==
    ASSUME IInv, BatchDone
    PROVE  IInv'
<1>1. TypeOK /\ Shapes /\ Position /\ InFlight /\ Outcomes /\ Dedup
  BY ShapesOK DEF IInv
<1>2. /\ UNCHANGED <<registry, changes, cancelled, executed, ctx_key_order, flow, calls, modes,
                     flight, outcome, slots, runs, messages>>
      /\ pc = "flush" /\ begun = Len(batch) /\ flight = {} /\ batch' = <<>> /\ begun' = 0
      /\ pc' = IF Last(modes) = "Sequential" THEN "sequential" ELSE "reply"
      /\ resp_messages' = resp_messages \o BatchResults
  BY DEF BatchDone, registryVars, dedupVars
<1>4. /\ Reported + Len(batch) <= Len(calls) /\ Reported \in Nat /\ Len(batch) \in Nat
      /\ resp_messages \in Seq(Kinds) /\ Len(calls) \in Nat /\ Len(modes) \in Nat
      /\ DOMAIN calls = 1 .. Len(calls)
  BY <1>1, <1>2, BatchWithin DEF Shapes
<1>5. /\ resp_messages' \in Seq(Kinds) /\ Reported' = Reported + Len(batch)
      /\ DOMAIN resp_messages' = 1 .. Reported + Len(batch)
      /\ \A i \in 1 .. Reported : resp_messages'[i] = resp_messages[i]
      /\ \A i \in Reported + 1 .. Reported + Len(batch) :
            resp_messages'[i] = IF slots[i] = "none" THEN "aborted" ELSE slots[i]
  <2>1. /\ resp_messages' \in Seq(Kinds) /\ Len(resp_messages') = Reported + Len(batch)
        /\ \A i \in 1 .. Reported : resp_messages'[i] = resp_messages[i]
        /\ \A i \in Reported + 1 .. Reported + Len(batch) :
              resp_messages'[i] = IF slots[i] = "none" THEN "aborted" ELSE slots[i]
    BY <1>1, <1>2, BatchAppended
  <2>2. Reported' = Len(resp_messages') /\ DOMAIN resp_messages' = 1 .. Len(resp_messages')
    BY <2>1 DEF Reported
  <2> QED
    BY <2>1, <2>2
<1>6. \A i \in DOMAIN resp_messages' : resp_messages'[i] # "aborted"
  <2> SUFFICES ASSUME NEW i \in 1 .. Reported + Len(batch) PROVE resp_messages'[i] # "aborted"
    BY <1>5
  <2>1. CASE i \in 1 .. Reported
    BY <1>1, <1>2, <1>5, <2>1 DEF Outcomes, Shapes
  <2>2. CASE i \in Reported + 1 .. Reported + Len(batch)
    <3>1. i \in DOMAIN calls
      BY <1>4, <2>2
    <3>2. slots[i] # "none" /\ slots[i] # "aborted"
      BY <1>1, <1>2, <2>2, <3>1 DEF Outcomes
    <3> QED
      BY <1>5, <2>2, <3>2
  <2> QED
    BY <1>4, <2>1, <2>2
<1>7. CASE /\ pc' = "sequential" /\ Len(modes) = Reported' + 1 /\ Len(modes) <= Len(calls)
           /\ modes[Len(modes)] = "Sequential"
  <2>1. Position'
    BY <1>1, <1>2, <1>7 DEF Position
  <2>2. Frontier' = Frontier
    BY <1>2, <1>5, <1>7 DEF Frontier
  <2>3. InFlight'
    BY <1>1, <1>2, <1>7 DEF InFlight
  <2>4. Outcomes'
    <3>1. FinishedParallelCallReported'
      BY <1>6 DEF FinishedParallelCallReported
    <3> QED
      BY <1>1, <1>2, <1>6, <1>7, <2>2, <3>1 DEF Outcomes
  <2>5. TypeOK'
    BY <1>1, <1>2, <1>5, <1>7 DEF TypeOK
  <2>6. Dedup'
    BY <1>1, <1>2, <2>2, DedupFrame
  <2> QED
    BY <2>1, <2>3, <2>4, <2>5, <2>6 DEF IInv
<1>8. CASE pc' = "reply" /\ Reported' = Len(calls)
  <2>1. Position'
    BY <1>1, <1>2, <1>8 DEF Position
  <2>2. \A i \in DOMAIN calls : i > Frontier' => i > Frontier
    BY <1>2, <1>4, <1>8 DEF Frontier
  <2>3. InFlight'
    BY <1>1, <1>2, <1>8 DEF InFlight
  <2>4. Outcomes'
    <3>1. FinishedParallelCallReported'
      BY <1>6 DEF FinishedParallelCallReported
    <3> QED
      BY <1>1, <1>2, <1>8, <3>1 DEF Outcomes
  <2>5. TypeOK'
    BY <1>1, <1>2, <1>5, <1>8 DEF TypeOK
  <2>6. Dedup'
    BY <1>1, <1>2, <2>2, DedupFrame
  <2> QED
    BY <2>1, <2>3, <2>4, <2>5, <2>6 DEF IInv
<1>9. CASE Len(modes) = Reported + Len(batch) + 1 /\ modes[Len(modes)] = "Sequential"
  BY <1>1, <1>2, <1>4, <1>5, <1>7, <1>9 DEF Position, Last
<1>10. CASE Len(modes) = Reported + Len(batch) /\ Len(modes) = Len(calls) /\ batch # <<>>
  <2>1. Len(batch) \in 1 .. Len(batch) /\ modes[Len(modes)] = "Parallel"
    <3>1. Len(batch) # 0
      BY <1>1, <1>10 DEF TypeOK
    <3>2. Len(batch) \in DOMAIN batch
      BY <1>1, <1>4, <3>1 DEF Shapes
    <3>3. modes[Reported + Len(batch)] = "Parallel"
      BY <1>1, <1>2, <3>2 DEF Position
    <3> QED
      BY <1>4, <1>10, <3>1, <3>3
  <2> QED
    BY <1>2, <1>5, <1>8, <1>10, <2>1 DEF Last
<1> QED
  BY <1>1, <1>2, <1>9, <1>10 DEF Position

(* What an abort leaves in a step to "reply": one result for every call,   *)
(* "aborted" for none whose answer is known to have come in parallel.      *)
LEMMA AbortedReply ==
    ASSUME IInv, pc \notin {"idle", "reply"}, pc' = "reply", flight' = {}, begun' \in 0 .. Len(batch'),
           batch' \in Seq(DOMAIN calls),
           UNCHANGED <<registry, changes, cancelled, executed, ctx_key_order, flow, calls, modes,
                       outcome, slots, runs, messages>>,
           resp_messages' \in Seq(Kinds), Len(resp_messages') = Len(calls),
           \A i \in 1 .. Len(calls) :
              resp_messages'[i] = "aborted" /\ outcome[i] = "real" => modes[i] = "Sequential"
    PROVE  IInv'
<1>1. TypeOK /\ Shapes /\ Position /\ InFlight /\ Outcomes /\ Dedup
  BY ShapesOK DEF IInv
<1>2. Reported' = Len(calls) /\ DOMAIN resp_messages' = 1 .. Len(calls)
  BY DEF Reported
<1>3. TypeOK'
  BY <1>1 DEF TypeOK
<1>4. Position'
  BY <1>1, <1>2 DEF Position
<1>5. InFlight'
  <2>1. Cardinality({}) = 0 /\ IsFiniteSet({})
    BY FS_EmptySet
  <2>2. Width >= 0
    BY ToolCallsAssumption DEF Width
  <2> QED
    BY <2>1, <2>2 DEF InFlight
<1>6. Outcomes'
  <2>1. FinishedParallelCallReported'
    BY <1>2 DEF FinishedParallelCallReported
  <2> QED
    BY <1>1, <2>1 DEF Outcomes
<1>7. \A i \in DOMAIN calls : i > Frontier' => i > Frontier
  BY <1>1 DEF Frontier, Shapes
<1>8. Dedup'
  BY <1>1, <1>7, DedupFrame
<1> QED
  BY <1>3, <1>4, <1>5, <1>6, <1>8 DEF IInv

(* The salvage ends: what has an outcome has been yielded. *)
LEMMA BatchSalvagedStep ==
    ASSUME IInv, BatchSalvaged
    PROVE  IInv'
<1>1. TypeOK /\ Shapes /\ Position /\ InFlight /\ Outcomes /\ Dedup
  BY ShapesOK DEF IInv
<1> DEFINE res == resp_messages \o BatchResults
<1>2. /\ UNCHANGED <<registry, changes, cancelled, executed, ctx_key_order, flow, calls, modes,
                     outcome, slots, runs, messages>>
      /\ pc = "salvage" /\ pc' = "reply" /\ flight' = {} /\ batch' = <<>> /\ begun' = 0
      /\ \A i \in flight : outcome[i] = "none"
      /\ resp_messages' = AbortRest(res)
  BY DEF BatchSalvaged, registryVars, dedupVars
<1>3. res = resp_messages \o BatchResults
  OBVIOUS
<1> HIDE DEF res
<1>4. /\ res \in Seq(Kinds) /\ Len(res) = Reported + Len(batch)
      /\ \A i \in 1 .. Reported : res[i] = resp_messages[i]
      /\ \A i \in Reported + 1 .. Reported + Len(batch) :
            res[i] = IF slots[i] = "none" THEN "aborted" ELSE slots[i]
  BY <1>1, <1>2, <1>3, BatchAppended
<1>5. /\ Reported + Len(batch) <= Len(calls) /\ Reported \in Nat /\ Len(batch) \in Nat /\ Len(calls) \in Nat
      /\ begun \in 0 .. Len(batch) /\ DOMAIN calls = 1 .. Len(calls) /\ DOMAIN resp_messages = 1 .. Reported
  BY <1>1, <1>2, BatchWithin DEF Shapes
<1>6. /\ resp_messages' \in Seq(Kinds) /\ Len(resp_messages') = Len(calls)
      /\ \A i \in 1 .. Len(res) : resp_messages'[i] = res[i]
  BY <1>2, <1>4, <1>5, AbortRestProperty
<1>7. ASSUME NEW i \in 1 .. Len(calls), resp_messages'[i] = "aborted", outcome[i] = "real"
      PROVE  FALSE
  <2>1. CASE i \in 1 .. Reported
    <3>1. resp_messages'[i] = resp_messages[i]
      BY <1>4, <1>5, <1>6, <2>1
    <3> QED
      BY <1>1, <1>2, <1>5, <1>7, <2>1, <3>1 DEF Outcomes
  <2>2. CASE i \in Reported + 1 .. Reported + begun
    <3>1. resp_messages'[i] = IF slots[i] = "none" THEN "aborted" ELSE slots[i]
      BY <1>4, <1>5, <1>6, <2>2
    <3>2. i \notin flight
      BY <1>2, <1>7
    <3> QED
      BY <1>1, <1>2, <1>7, <2>2, <3>1, <3>2 DEF Outcomes
  <2>3. CASE i > Reported + begun
    <3>1. i > Frontier /\ pc # "reply"
      BY <1>2, <2>3 DEF Frontier
    <3> QED
      BY <1>1, <1>5, <1>7, <3>1 DEF Outcomes
  <2> QED
    BY <1>5, <2>1, <2>2, <2>3
<1>8. batch' \in Seq(DOMAIN calls) /\ begun' \in 0 .. Len(batch')
  BY <1>2
<1> QED
  BY <1>2, <1>6, <1>7, <1>8, AbortedReply

(* The sequential call starts. *)
LEMMA SequentialStartStep ==
    ASSUME IInv, SequentialStart
    PROVE  IInv'
<1>1. TypeOK /\ Shapes /\ Position /\ InFlight /\ Outcomes /\ Dedup
  BY ShapesOK DEF IInv
<1> DEFINE n == Len(modes)
<1>2. /\ UNCHANGED <<registry, changes, cancelled, executed, ctx_key_order, flow, calls, modes, batch,
                     begun, slots, resp_messages, messages>>
      /\ pc = "sequential" /\ pc' = "await" /\ flight' = flight \cup {n} /\ ExecuteToolCall(n)
  BY DEF SequentialStart, registryVars, dedupVars
<1>3. /\ n = Reported + 1 /\ n <= Len(calls) /\ modes[n] = "Sequential" /\ batch = <<>>
      /\ flight = {} /\ Reported \in Nat /\ Len(calls) \in Nat /\ DOMAIN calls = 1 .. Len(calls)
  BY <1>1, <1>2 DEF Position, InFlight, Shapes
<1>4. n \in 1 .. Len(calls) /\ flight' = {n}
  BY <1>2, <1>3
<1>5. Reported' = Reported /\ Frontier = Reported /\ Frontier' = n
  BY <1>2 DEF Frontier, Reported
<1> HIDE DEF n
<1>6. flow \in Flows
  BY <1>1, <1>2, FlowKnown
<1>7. n > Frontier /\ outcome[n] = "none"
  <2>1. n > Frontier /\ pc # "reply"
    BY <1>2, <1>3, <1>5
  <2> QED
    BY <1>1, <1>3, <1>4, <2>1 DEF Outcomes
<1>8. \A i \in DOMAIN calls : i > Frontier' => i > Frontier /\ i # n
  BY <1>3, <1>5
<1>9. /\ outcome' \in [1 .. Len(calls) -> Kinds \cup {"none"}]
      /\ \A i \in 1 .. Len(calls) : i # n => outcome'[i] = outcome[i]
      /\ outcome'[n] \in {"none", "cancelled", "error"}
      /\ runs' \in [Started -> Seq(Nat \X Nat)]
      /\ Dedup'
  BY <1>2, <1>4, <1>6, <1>7, <1>8, ExecuteProperty
<1>10. TypeOK'
  BY <1>1, <1>2, <1>3, <1>4, <1>9 DEF TypeOK
<1>11. Position'
  BY <1>1, <1>2, <1>5 DEF Position
<1>12. InFlight'
  <2>1. IsFiniteSet({n}) /\ Cardinality({n}) = 1
    BY FS_Singleton
  <2>2. Width >= 1
    BY ToolCallsAssumption DEF Width
  <2> QED
    BY <1>1, <1>2, <1>4, <2>1, <2>2 DEF InFlight, n
<1>13. Outcomes'
  <2>1. \A i \in DOMAIN calls : i > Frontier' => outcome'[i] = "none"
    BY <1>1, <1>2, <1>3, <1>8, <1>9 DEF Outcomes
  <2>2. \A i \in DOMAIN calls : outcome'[i] # "aborted" /\ slots'[i] # "aborted"
    BY <1>1, <1>2, <1>3, <1>9 DEF Outcomes
  <2>3. \A i \in DOMAIN resp_messages' : resp_messages'[i] # "aborted"
    BY <1>1, <1>2 DEF Outcomes
  <2>4. FinishedParallelCallReported'
    BY <2>3 DEF FinishedParallelCallReported
  <2> QED
    BY <1>2, <2>1, <2>2, <2>3, <2>4 DEF Outcomes
<1> QED
  BY <1>9, <1>10, <1>11, <1>12, <1>13 DEF IInv

(* The sequential call has its result. *)
LEMMA SequentialDoneStep ==
    ASSUME IInv, SequentialDone
    PROVE  IInv'
<1>1. TypeOK /\ Shapes /\ Position /\ InFlight /\ Outcomes /\ Dedup
  BY ShapesOK DEF IInv
<1> DEFINE n == Len(modes)
<1>2. /\ UNCHANGED <<registry, changes, cancelled, executed, ctx_key_order, flow, calls, modes, batch,
                     begun, outcome, slots, runs, messages>>
      /\ pc = "await" /\ pc' = "schedule" /\ flight' = flight \ {n} /\ outcome[n] # "none"
      /\ resp_messages' = Append(resp_messages, outcome[n])
  BY DEF SequentialDone, registryVars, dedupVars
<1>3. /\ n = Reported + 1 /\ n <= Len(calls) /\ batch = <<>> /\ begun = 0
      /\ flight = {n} /\ Reported \in Nat /\ Len(calls) \in Nat /\ DOMAIN calls = 1 .. Len(calls)
      /\ resp_messages \in Seq(Kinds) /\ DOMAIN resp_messages = 1 .. Reported
  BY <1>1, <1>2 DEF Position, InFlight, Shapes
<1>4. n \in 1 .. Len(calls) /\ flight' = {}
  BY <1>2, <1>3
<1>5. outcome[n] \in Kinds /\ outcome[n] # "aborted"
  BY <1>1, <1>2, <1>3, <1>4 DEF Shapes, Outcomes
<1>6. /\ resp_messages' \in Seq(Kinds) /\ Reported' = n /\ DOMAIN resp_messages' = 1 .. n
      /\ resp_messages'[n] = outcome[n]
      /\ \A i \in 1 .. Reported : resp_messages'[i] = resp_messages[i]
  <2>1. Len(resp_messages) = Reported
    BY DEF Reported
  <2>2. /\ resp_messages' \in Seq(Kinds) /\ Len(resp_messages') = n
        /\ resp_messages'[n] = outcome[n]
        /\ \A i \in 1 .. Reported : resp_messages'[i] = resp_messages[i]
    BY <1>2, <1>3, <1>5, <2>1
  <2> QED
    BY <2>2 DEF Reported
<1>7. Frontier = n /\ Frontier' = n
  BY <1>2, <1>6 DEF Frontier
<1> HIDE DEF n
<1>8. TypeOK'
  BY <1>1, <1>2, <1>4, <1>6 DEF TypeOK
<1>9. Position'
  <2>1. DOMAIN batch' = {} /\ Len(batch') = 0 /\ flow' # NoFlow
    BY <1>1, <1>2, <1>3 DEF Position
  <2>2. Len(modes') = Reported' + Len(batch') /\ Len(modes') <= Len(calls')
    BY <1>2, <1>3, <1>6, <2>1 DEF n
  <2> QED
    BY <1>2, <2>1, <2>2 DEF Position
<1>10. InFlight'
  <2>1. Cardinality({}) = 0 /\ IsFiniteSet({})
    BY FS_EmptySet
  <2>2. Width >= 0
    BY ToolCallsAssumption DEF Width
  <2> QED
    BY <1>2, <1>3, <1>4, <2>1, <2>2 DEF InFlight
<1>11. Outcomes'
  <2>1. \A i \in DOMAIN resp_messages' : resp_messages'[i] # "aborted"
    <3>1. \A i \in 1 .. Reported : resp_messages[i] # "aborted"
      BY <1>1, <1>2, <1>3 DEF Outcomes
    <3> QED
      BY <1>3, <1>5, <1>6, <3>1
  <2>2. FinishedParallelCallReported'
    BY <2>1 DEF FinishedParallelCallReported
  <2> QED
    BY <1>1, <1>2, <1>7, <2>1, <2>2 DEF Outcomes
<1>12. Dedup'
  BY <1>1, <1>2, <1>7, DedupFrame
<1> QED
  BY <1>8, <1>9, <1>10, <1>11, <1>12 DEF IInv

(* The sequential call is dropped, and all behind it are aborted. *)
LEMMA SequentialAbortedStep ==
    ASSUME IInv, SequentialAborted
    PROVE  IInv'
<1>1. TypeOK /\ Shapes /\ Position /\ InFlight /\ Outcomes /\ Dedup
  BY ShapesOK DEF IInv
<1>2. /\ UNCHANGED <<registry, changes, cancelled, executed, ctx_key_order, flow, calls, modes, batch,
                     begun, outcome, slots, runs, messages>>
      /\ pc \in {"sequential", "await"} /\ pc' = "reply" /\ flight' = {}
      /\ resp_messages' = AbortRest(resp_messages)
  BY DEF SequentialAborted, registryVars, dedupVars
<1>3. /\ Len(modes) = Reported + 1 /\ Len(modes) <= Len(calls) /\ modes[Len(modes)] = "Sequential"
      /\ Reported \in Nat /\ Len(calls) \in Nat /\ DOMAIN calls = 1 .. Len(calls)
      /\ resp_messages \in Seq(Kinds) /\ DOMAIN resp_messages = 1 .. Reported
      /\ begun \in 0 .. Len(batch)
  BY <1>1, <1>2 DEF Position, Shapes
<1>4. Len(resp_messages) = Reported
  BY DEF Reported
<1>5. /\ resp_messages' \in Seq(Kinds) /\ Len(resp_messages') = Len(calls)
      /\ \A i \in 1 .. Reported : resp_messages'[i] = resp_messages[i]
  BY <1>2, <1>3, <1>4, AbortRestProperty
<1>6. ASSUME NEW i \in 1 .. Len(calls), resp_messages'[i] = "aborted", outcome[i] = "real"
      PROVE  modes[i] = "Sequential"
  <2>1. CASE i \in 1 .. Reported
    BY <1>1, <1>2, <1>3, <1>5, <1>6, <2>1 DEF Outcomes
  <2>2. CASE i = Reported + 1
    BY <1>3, <2>2
  <2>3. CASE i > Reported + 1
    <3>1. i > Frontier /\ pc # "reply"
      BY <1>2, <1>3, <2>3 DEF Frontier
    <3> QED
      BY <1>1, <1>3, <1>6, <3>1 DEF Outcomes
  <2> QED
    BY <1>3, <2>1, <2>2, <2>3
<1>7. batch' \in Seq(DOMAIN calls) /\ begun' \in 0 .. Len(batch')
  BY <1>1, <1>2, <1>3 DEF TypeOK
<1> QED
  BY <1>2, <1>5, <1>6, <1>7, AbortedReply

(* The results are sent. *)
LEMMA ReplyStep ==
    ASSUME IInv, Reply
    PROVE  IInv'
<1>1. Idle /\ UNCHANGED <<registry, changes, cancelled, executed, ctx_key_order, runs, messages>>
  BY DEF Reply, registryVars, dedupVars
<1>2. ExecutedOnce'
  <2>1. OnceForIds /\ executed' = executed /\ runs' = runs
    BY <1>1, ExecutedOnceMeans DEF IInv, Dedup
  <2>2. OnceForIds'
    BY <2>1 DEF OnceForIds, OnceForId
  <2> QED
    BY <2>2, ExecutedOnceMeansNext
<1>3. executed' \in [Flows -> SUBSET Ids] /\ ctx_key_order' \in Seq(Flows) /\ runs' \in [Started -> Seq(Nat \X Nat)]
  BY <1>1 DEF IInv, TypeOK
<1>4. UNCHANGED <<registryVars, cancelled, messages>>
  BY <1>1 DEF registryVars
<1> QED
  BY <1>1, <1>2, <1>3, <1>4, IdleStep

(* The agent is stopped wherever it is. *)
LEMMA StopStep ==
    ASSUME IInv, Stop
    PROVE  IInv'
<1>1. /\ Idle /\ executed' = [f \in Flows |-> {}] /\ ctx_key_order' = <<>>
      /\ runs' = [k \in Started |-> <<>>] /\ UNCHANGED <<registryVars, cancelled, messages>>
  BY DEF Stop
<1>2. /\ executed' \in [Flows -> SUBSET Ids] /\ ctx_key_order' \in Seq(Flows)
      /\ runs' \in [Started -> Seq(Nat \X Nat)]
  BY <1>1, EmptyUnrepeated
<1>3. ASSUME NEW f \in Flows, NEW id \in Ids
      PROVE  Unrepeated(runs'[<< f, id >>]) /\ runs'[<< f, id >>] = << >>
  <2>1. <<f, id>> \in Started
    BY DEF Started
  <2> QED
    BY <1>1, <2>1, EmptyUnrepeated
<1>4. ExecutedOnce'
  BY <1>3, ExecutedOnceMeansNext DEF OnceForIds, OnceForId
<1> QED
  BY <1>1, <1>2, <1>4, IdleStep

-----------------------------------------------------------------------------
(* IInv is inductive. *)
LEMMA NextIInv == IInv /\ [Next]_vars => IInv'
<1> SUFFICES ASSUME IInv, [Next]_vars PROVE IInv'
  OBVIOUS
<1>0. /\ registry \in [Names -> Modes \cup {"none"}] /\ cancelled \subseteq Flows
      /\ messages \in 0 .. MaxMessages /\ changes \in 0 .. MaxRegistry
  BY DEF IInv, TypeOK
<1>1. CASE UNCHANGED vars
  <2>1. UNCHANGED <<pc, callVars, dedupVars, runs>> /\ UNCHANGED <<registry, cancelled, messages, changes>>
    BY <1>1 DEF vars, callVars, dedupVars
  <2> QED
    BY <1>0, <2>1, SurroundingsStep
<1>2. ASSUME NEW name \in Names, UnregisterTool(name) \/ \E mode \in Modes : RegisterTool(name, mode)
      PROVE  IInv'
  <2>1. /\ UNCHANGED <<pc, callVars, dedupVars, runs>> /\ UNCHANGED <<cancelled, messages>>
        /\ changes' = changes + 1 /\ changes < MaxRegistry
    BY <1>2 DEF UnregisterTool, RegisterTool
  <2>2. PICK mode \in Modes \cup {"none"} : registry' = [registry EXCEPT ![name] = mode]
    BY <1>2 DEF UnregisterTool, RegisterTool
  <2>3. registry' \in [Names -> Modes \cup {"none"}]
    BY <1>0, <2>2
  <2>4. changes' \in 0 .. MaxRegistry
    BY <1>0, <2>1, ToolCallsAssumption
  <2> QED
    BY <1>0, <2>1, <2>3, <2>4, SurroundingsStep
<1>3. ASSUME NEW f \in Flows, AbortFlow(f) PROVE IInv'
  <2>1. /\ UNCHANGED <<pc, callVars, dedupVars, runs>> /\ UNCHANGED <<registry, changes, messages>>
        /\ cancelled' = cancelled \cup {f}
    BY <1>3 DEF AbortFlow, registryVars, callVars
  <2> QED
    BY <1>0, <2>1, SurroundingsStep
<1>4. ASSUME NEW f \in Flows, NEW tools \in Filters, NEW msg \in Messages, Process(f, tools, msg)
      PROVE  IInv'
  BY <1>4, ProcessStep
<1>5. ASSUME NEW i \in flight, ToolFinishes(i) PROVE IInv'
  BY <1>5, ToolFinishesStep
<1>6. ASSUME NEW i \in flight, BatchYield(i) PROVE IInv'
  BY <1>6, BatchYieldStep
<1>7. CASE Task
  BY <1>6, <1>7, ScheduleStep, BatchStartStep, BatchAbortedStep, BatchDoneStep, BatchSalvagedStep,
     SequentialStartStep, SequentialDoneStep, SequentialAbortedStep, ReplyStep DEF Task
<1>8. CASE Stop
  BY <1>8, StopStep
<1> QED
  BY <1>1, <1>2, <1>3, <1>4, <1>5, <1>7, <1>8 DEF Next

(* The invariant holds throughout. *)
LEMMA Invariance == Spec => []IInv
  BY InitIInv, NextIInv, PTL DEF Spec

(* Every variable of the tool-calling agent keeps its type. *)
THEOREM TypeCorrect == Spec => []TypeOK
<1>1. IInv => TypeOK
  BY DEF IInv
<1> QED
  BY <1>1, Invariance, PTL

(* call_tools answers every call it was given with exactly one result, in  *)
(* the order of the calls, however parallel and sequential calls mix and   *)
(* wherever the flow is aborted.                                           *)
THEOREM OneResult == Spec => []OneResultPerCall
<1>1. IInv => OneResultPerCall
  <2> SUFFICES ASSUME IInv PROVE OneResultPerCall
    OBVIOUS
  <2>1. Shapes /\ Position
    BY ShapesOK DEF IInv
  <2>2. ASSUME pc \in {"schedule", "flush", "salvage"}
        PROVE  /\ batch = [k \in DOMAIN batch |-> Len(resp_messages) + k]
               /\ Len(modes) - (Len(resp_messages) + Len(batch)) \in {0, 1}
    <3>1. batch = [k \in DOMAIN batch |-> batch[k]]
      <4>1. batch \in Seq(DOMAIN calls)
        BY DEF IInv, TypeOK
      <4>2. batch \in [1 .. Len(batch) -> DOMAIN calls]
        BY <4>1
      <4> QED
        BY <4>2
    <3>2. \A k \in DOMAIN batch : batch[k] = Len(resp_messages) + k
      BY <2>1, <2>2 DEF Position, Reported
    <3>3. Len(modes) = Reported + Len(batch) \/ Len(modes) = Reported + Len(batch) + 1
      BY <2>1, <2>2 DEF Position
    <3>4. Len(modes) - (Len(resp_messages) + Len(batch)) \in {0, 1}
      <4>1. Reported \in Nat /\ Len(batch) \in Nat /\ Len(modes) \in Nat
        BY <2>1 DEF Shapes
      <4>2. Len(modes) - (Reported + Len(batch)) \in {0, 1}
        BY <3>3, <4>1
      <4> QED
        BY <4>2 DEF Reported
    <3> QED
      BY <3>1, <3>2, <3>4
  <2>3. /\ pc \in {"sequential", "await"} => Len(modes) = Len(resp_messages) + 1
        /\ pc = "reply" => Len(resp_messages) = Len(calls)
    BY <2>1 DEF Position, Reported
  <2> QED
    BY <2>2, <2>3 DEF OneResultPerCall
<1> QED
  BY <1>1, Invariance, PTL

(* A sequential call runs alone and after all calls before it, and no more *)
(* than max_concurrency calls run together.                                *)
THEOREM Barriers == Spec => []BarriersHold
<1>1. IInv => BarriersHold
  <2> SUFFICES ASSUME IInv PROVE BarriersHold
    OBVIOUS
  <2>1. TypeOK /\ Shapes /\ Position /\ InFlight
    BY ShapesOK DEF IInv
  <2>2. ASSUME NEW i \in flight, modes[i] = "Sequential"
        PROVE  flight = {i} /\ Len(resp_messages) = i - 1
    <3>1. pc \in {"flush", "salvage", "await"}
      BY <2>1 DEF InFlight, TypeOK
    <3>2. CASE pc \in {"flush", "salvage"}
      <4>1. i \in Reported + 1 .. Reported + begun /\ Reported \in Nat /\ begun \in 0 .. Len(batch)
            /\ DOMAIN batch = 1 .. Len(batch)
        BY <2>1, <3>2 DEF InFlight, Shapes
      <4>2. i - Reported \in DOMAIN batch /\ Reported + (i - Reported) = i
        BY <2>1, <4>1 DEF Shapes
      <4>3. modes[Reported + (i - Reported)] = "Parallel"
        BY <2>1, <3>2, <4>2 DEF Position
      <4> QED
        BY <2>2, <4>2, <4>3
    <3>3. CASE pc = "await"
      BY <2>1, <3>3 DEF InFlight, Position, Reported, Shapes
    <3> QED
      BY <3>1, <3>2, <3>3
  <2>3. Cardinality(flight) <= Width
    BY <2>1 DEF InFlight
  <2> QED
    BY <2>2, <2>3 DEF BarriersHold
<1> QED
  BY <1>1, Invariance, PTL

(* While a flow is tracked, tools are started for a call id for one of the *)
(* flow's messages only, however often it is delivered, and once for each  *)
(* call of that message; nothing is assumed of the ids in a message.       *)
THEOREM NotExecutedTwice == Spec => []ExecutedOnce
<1>1. IInv => ExecutedOnce
  BY DEF IInv, Dedup
<1> QED
  BY <1>1, Invariance, PTL

(* The answer of a parallel call that has finished is never replaced by    *)
(* the aborted result.                                                     *)
THEOREM FinishedCallsReported == Spec => []FinishedParallelCallReported
<1>1. IInv => FinishedParallelCallReported
  BY DEF IInv, Outcomes
<1> QED
  BY <1>1, Invariance, PTL

(* No step starts a tool for a flow whose token was cancelled before it. *)
THEOREM NothingStartsAfterAbort == Spec => NoStartAfterAbort
<1> DEFINE Quiet == \A k \in Started : k[1] \in cancelled => Len(runs'[k]) <= Len(runs[k])
<1>1. ASSUME TypeOK, Position, [Next]_vars PROVE [Quiet]_vars
  <2>1. runs \in [Started -> Seq(Nat \X Nat)] /\ Len(<<>>) = 0 /\ \A k \in Started : Len(runs[k]) \in Nat
    BY <1>1 DEF TypeOK
  <2>2. ASSUME UNCHANGED runs PROVE Quiet
    BY <2>1, <2>2
  <2>3. ASSUME NEW n, ExecuteToolCall(n), pc # "idle" PROVE Quiet
    <3>1. CASE UNCHANGED runs
      BY <2>1, <3>1
    <3>2. CASE flow \notin cancelled /\ runs' = [runs EXCEPT ![<<flow, calls[n].id>>] = Append(@, <<messages, n>>)]
      <4> SUFFICES ASSUME NEW k \in Started, k[1] \in cancelled PROVE Len(runs'[k]) <= Len(runs[k])
        OBVIOUS
      <4>1. k # <<flow, calls[n].id>>
        BY <3>2
      <4>2. runs'[k] = runs[k]
        BY <2>1, <3>2, <4>1
      <4> QED
        BY <2>1, <4>2
    <3> QED
      BY <2>3, <3>1, <3>2 DEF ExecuteToolCall
  <2>4. CASE BatchStart \/ SequentialStart
    <3>1. pc # "idle" /\ \E n : ExecuteToolCall(n)
      BY <2>4 DEF BatchStart, SequentialStart
    <3> QED
      BY <2>3, <3>1
  <2>5. ASSUME NEW f \in Flows, NEW tools \in Filters, NEW msg \in Messages, Process(f, tools, msg)
        PROVE  Quiet
    <3>1. \/ UNCHANGED runs
          \/ runs' = [k \in Started |-> IF k[1] \in Evicted(f) THEN <<>> ELSE runs[k]]
      BY <2>5 DEF Process, MarkExecuted
    <3> QED
      BY <2>1, <3>1
  <2>6. CASE Stop
    <3>1. runs' = [k \in Started |-> <<>>]
      BY <2>6 DEF Stop
    <3> QED
      BY <2>1, <3>1
  <2>7. CASE UNCHANGED vars
    BY <2>2, <2>7 DEF vars
  <2>8. ASSUME NEW i \in flight, ToolFinishes(i) \/ BatchYield(i) PROVE Quiet
    <3>1. UNCHANGED runs
      BY <2>8 DEF ToolFinishes, BatchYield
    <3> QED
      BY <2>2, <3>1
  <2>9. ASSUME NEW n \in Names, UnregisterTool(n) \/ \E mode \in Modes : RegisterTool(n, mode) PROVE Quiet
    <3>1. UNCHANGED runs
      BY <2>9 DEF UnregisterTool, RegisterTool
    <3> QED
      BY <2>2, <3>1
  <2>10. ASSUME NEW f \in Flows, AbortFlow(f) PROVE Quiet
    <3>1. UNCHANGED runs
      BY <2>10 DEF AbortFlow
    <3> QED
      BY <2>2, <3>1
  <2>11. CASE Schedule \/ BatchAborted \/ BatchDone \/ BatchSalvaged \/ SequentialDone
              \/ SequentialAborted \/ Reply
    BY <2>2, <2>11 DEF Schedule, BatchAborted, BatchDone, BatchSalvaged, SequentialDone,
       SequentialAborted, Reply
  <2> QED
    BY <1>1, <2>4, <2>5, <2>6, <2>7, <2>8, <2>9, <2>10, <2>11 DEF Next, Task
<1>2. IInv => TypeOK /\ Position
  BY DEF IInv
<1> QED
  BY <1>1, <1>2, Invariance, PTL DEF Spec, NoStartAfterAbort
=============================================================================
