-------------------------- MODULE McpServerProofs --------------------------
(***************************************************************************)
(* Proofs about the two parts of the MCP server that have state, for any   *)
(* clients, agents, definitions, capacities and bounds: the ring of events *)
(* (EventRing) and the configs that tools write (AgentConfigs).            *)
(***************************************************************************)
EXTENDS AgentConfigs, EventRing, TLAPS, FiniteSetTheorems, SequenceTheorems, WellFoundedInduction

-----------------------------------------------------------------------------
(* The ring.  Both buffers hold records whose seqs increase and were       *)
(* allocated; no client was given a record beyond its cursor, and no       *)
(* cursor is beyond what was allocated.                                    *)

Tags == {e.tag : e \in Events} \cup {NoPreset}
Record == [seq : Nat, tag : Tags, of : {e.of : e \in Events}]

RingType ==
    /\ pending \in Seq(Events)
    /\ lagged \in Nat
    /\ ring \in [seq : Nat, dropped : Nat, errors : Seq(Record), outputs : Seq(Record)]
    /\ cursor \in [Pollers -> Nat]
    /\ read \in [Pollers -> SUBSET Nat]

Ordered(buffer, seq) ==
    /\ \A i \in 1 .. Len(buffer) : buffer[i].seq <= seq
    /\ \A i, j \in 1 .. Len(buffer) : i < j => buffer[i].seq < buffer[j].seq

Behind ==
    \A p \in Pollers : cursor[p] <= ring.seq /\ \A n \in read[p] : n <= cursor[p]

RingInv == RingType /\ Ordered(ring.errors, ring.seq) /\ Ordered(ring.outputs, ring.seq) /\ Behind
           /\ PagingExact

(* A record with a new seq keeps a buffer in order; what is in the buffer  *)
(* then was there before, or is new.                                       *)
LEMMA PushProperty ==
    ASSUME NEW b \in Seq(Record), NEW tag \in Tags, NEW of \in {e.of : e \in Events},
           ring.seq \in Nat, Ordered(b, ring.seq)
    PROVE  /\ Push(b, tag, of) \in Seq(Record)
           /\ Ordered(Push(b, tag, of), ring.seq + 1)
           /\ \A i \in 1 .. Len(Push(b, tag, of)) :
                 \/ Push(b, tag, of)[i].seq = ring.seq + 1
                 \/ \E j \in 1 .. Len(b) : Push(b, tag, of)[i] = b[j]
<1> DEFINE kept == IF Len(b) >= RingCap THEN Tail(b) ELSE b
           r == [seq |-> ring.seq + 1, tag |-> tag, of |-> of]
           new == Push(b, tag, of)
<1>1. new = Append(kept, r)
  BY DEF Push
<1>2. r \in Record
  BY DEF Record
<1>3. kept \in Seq(Record) /\ Ordered(kept, ring.seq)
      /\ \A i \in 1 .. Len(kept) : \E j \in 1 .. Len(b) : kept[i] = b[j]
  <2>1. CASE Len(b) >= RingCap
    <3>1. b # <<>>
      BY <2>1, EventRingAssumption
    <3>2. /\ Tail(b) \in Seq(Record) /\ Len(Tail(b)) = Len(b) - 1 /\ Len(b) \in Nat
          /\ \A i \in 1 .. Len(b) - 1 : Tail(b)[i] = b[i + 1]
      BY <3>1
    <3>3. kept = Tail(b)
      BY <2>1
    <3> HIDE DEF kept
    <3>4. \A i \in 1 .. Len(kept) : kept[i] = b[i + 1] /\ i + 1 \in 1 .. Len(b)
      BY <3>2, <3>3
    <3>5. Ordered(kept, ring.seq)
      <4>1. \A i \in 1 .. Len(kept) : kept[i].seq <= ring.seq
        BY <3>4 DEF Ordered
      <4>2. ASSUME NEW i \in 1 .. Len(kept), NEW j \in 1 .. Len(kept), i < j
            PROVE  kept[i].seq < kept[j].seq
        <5>1. i + 1 < j + 1
          BY <4>2, <3>2, <3>3
        <5> QED
          BY <5>1, <3>4 DEF Ordered
      <4> QED
        BY <4>1, <4>2 DEF Ordered
    <3> QED
      BY <3>2, <3>3, <3>4, <3>5
  <2>2. CASE ~(Len(b) >= RingCap)
    BY <2>2
  <2> QED
    BY <2>1, <2>2
<1> HIDE DEF kept, r, new
<1>4. /\ new \in Seq(Record) /\ Len(new) = Len(kept) + 1 /\ Len(kept) \in Nat
      /\ \A i \in 1 .. Len(kept) : new[i] = kept[i]
      /\ new[Len(kept) + 1] = r
  BY <1>1, <1>2, <1>3
<1>5. r.seq = ring.seq + 1
  BY DEF r
<1>6. \A i \in 1 .. Len(kept) : kept[i].seq \in Nat
  <2>1. \A i \in 1 .. Len(kept) : kept[i] \in Record
    BY <1>3
  <2> QED
    BY <2>1 DEF Record
<1>7. Ordered(new, ring.seq + 1)
  <2>1. \A i \in 1 .. Len(kept) : new[i].seq <= ring.seq /\ new[i].seq \in Nat
    BY <1>3, <1>4, <1>6 DEF Ordered
  <2>2. \A i \in 1 .. Len(new) : i \in 1 .. Len(kept) \/ i = Len(kept) + 1
    BY <1>4
  <2>3. \A i \in 1 .. Len(new) : new[i].seq <= ring.seq + 1
    BY <2>1, <2>2, <1>4, <1>5
  <2>4. ASSUME NEW i \in 1 .. Len(new), NEW j \in 1 .. Len(new), i < j
        PROVE  new[i].seq < new[j].seq
    <3>1. i \in 1 .. Len(kept)
      BY <2>4, <1>4
    <3>2. CASE j \in 1 .. Len(kept)
      BY <3>1, <3>2, <2>4, <1>3, <1>4 DEF Ordered
    <3>3. CASE j = Len(kept) + 1
      BY <3>1, <3>3, <2>1, <1>4, <1>5
    <3> QED
      BY <3>2, <3>3, <2>2
  <2> QED
    BY <2>3, <2>4 DEF Ordered
<1>8. \A i \in 1 .. Len(new) : new[i].seq = ring.seq + 1 \/ \E j \in 1 .. Len(b) : new[i] = b[j]
  <2>1. \A i \in 1 .. Len(kept) : \E j \in 1 .. Len(b) : new[i] = b[j]
    BY <1>3, <1>4
  <2>2. \A i \in 1 .. Len(new) : i \in 1 .. Len(kept) \/ i = Len(kept) + 1
    BY <1>4
  <2> QED
    BY <1>4, <1>5, <2>1, <2>2
<1> QED
  BY <1>4, <1>7, <1>8 DEF new

(* A bounded set of numbers has a greatest one. *)
LEMMA Greatest ==
    ASSUME NEW S \in SUBSET Nat, S # {}, NEW n \in Nat, \A i \in S : i <= n
    PROVE  \E m \in S : \A i \in S : i <= m
<1> DEFINE Less == {ss \in Nat \X Nat : ss[1] < ss[2]}
           T == {m \in Nat : \A i \in S : i <= m}
<1>1. OpToRel(<, Nat) = Less
  BY DEF OpToRel
<1>2. IsWellFoundedOn(OpToRel(<, Nat), Nat)
  BY NatLessThanWellFounded
<1>3. T \subseteq Nat /\ T # {}
  OBVIOUS
<1>4. \E m \in T : \A y \in T : ~(<<y, m>> \in OpToRel(<, Nat))
  BY <1>2, <1>3, WFMin
<1>5. PICK m \in T : \A y \in T : ~(<<y, m>> \in Less)
  BY <1>1, <1>4, Zenon
<1>6. m \in S
  <2> SUFFICES ASSUME m \notin S PROVE FALSE
    OBVIOUS
  <2>1. \A i \in S : i \in Nat /\ i < m
    OBVIOUS
  <2>2. PICK i \in S : TRUE
    OBVIOUS
  <2>3. m \in Nat /\ i \in Nat /\ i < m
    BY <2>1, <2>2
  <2>4. m - 1 \in Nat
    BY <2>3
  <2>5. m - 1 \in T
    BY <2>1, <2>3, <2>4
  <2>6. <<m - 1, m>> \in Less
    BY <2>3, <2>4
  <2> QED
    BY <2>5, <2>6, <1>5
<1> QED
  BY <1>5, <1>6

(* A page has every new, matching record before any record it has. *)
LEMMA PageProperty ==
    ASSUME RingType, NEW p \in Pollers
    PROVE  /\ Buffer(p) \in Seq(Record)
           /\ \A i \in Page(p) : /\ i \in 1 .. Len(Buffer(p))
                                 /\ Buffer(p)[i].seq > cursor[p]
                                 /\ Matches(p, Buffer(p)[i])
           /\ \A i \in Page(p) : \A j \in 1 .. Len(Buffer(p)) :
                 (/\ j < i
                  /\ Buffer(p)[j].seq > cursor[p]
                  /\ Matches(p, Buffer(p)[j])) => j \in Page(p)
           /\ Page(p) # {} => /\ Max(Page(p)) \in Page(p)
                              /\ \A i \in Page(p) : i <= Max(Page(p))
<1> DEFINE b == Buffer(p)
           new == {i \in DOMAIN b : b[i].seq > cursor[p] /\ Matches(p, b[i])}
           before(i) == {j \in new : j < i}
<1>1. b \in Seq(Record)
  BY DEF Buffer, RingType
<1>2. Page(p) = {i \in new : Cardinality(before(i)) < PollLimit}
  BY DEF Page
<1>3. DOMAIN b = 1 .. Len(b) /\ Len(b) \in Nat
  BY <1>1
<1>4. IsFiniteSet(new)
  <2>1. IsFiniteSet(1 .. Len(b))
    BY <1>3, FS_Interval
  <2>2. new \subseteq 1 .. Len(b)
    BY <1>3
  <2> QED
    BY <2>1, <2>2, FS_Subset
<1>5. \A i \in Page(p) : i \in 1 .. Len(b) /\ b[i].seq > cursor[p] /\ Matches(p, b[i])
  BY <1>2, <1>3
<1>6. ASSUME NEW i \in Page(p), NEW j \in new, j < i
      PROVE  j \in Page(p)
  <2>1. i \in Nat /\ j \in Nat /\ \A k \in new : k \in Nat
    BY <1>3, <1>5
  <2>2. before(j) \subseteq before(i)
    BY <2>1, <1>6
  <2>3. IsFiniteSet(before(i))
    <3>1. before(i) \subseteq new
      OBVIOUS
    <3> QED
      BY <3>1, <1>4, FS_Subset
  <2>4. /\ Cardinality(before(j)) <= Cardinality(before(i))
        /\ Cardinality(before(j)) \in Nat /\ Cardinality(before(i)) \in Nat
    <3> HIDE DEF before
    <3>1. IsFiniteSet(before(j)) /\ Cardinality(before(j)) <= Cardinality(before(i))
      BY <2>2, <2>3, FS_Subset
    <3> QED
      BY <3>1, <2>3, FS_CardinalityType
  <2>5. Cardinality(before(i)) < PollLimit
    BY <1>2, <1>6
  <2>6. Cardinality(before(j)) < PollLimit
    <3> HIDE DEF before
    <3> QED
      BY <2>4, <2>5, EventRingAssumption
  <2> QED
    BY <2>6, <1>2, <1>6
<1>7. ASSUME Page(p) # {}
      PROVE  Max(Page(p)) \in Page(p) /\ \A i \in Page(p) : i <= Max(Page(p))
  <2>1. Page(p) \subseteq 1 .. Len(b)
    BY <1>5
  <2>3. PICK m \in Page(p) : \A i \in Page(p) : i <= m
    <3>1. Page(p) \in SUBSET Nat /\ \A i \in Page(p) : i <= Len(b)
      BY <2>1, <1>3
    <3> QED
      BY <3>1, <1>3, <1>7, Greatest
  <2>4. Max(Page(p)) \in Page(p) /\ \A i \in Page(p) : Max(Page(p)) >= i
    BY <2>3, <2>1, <1>3, Zenon DEF Max
  <2> QED
    BY <2>1, <2>4, <1>3
<1> QED
  BY <1>1, <1>3, <1>5, <1>6, <1>7

(* A poll gives a client the next matching records, and no other. *)
LEMMA PollStep ==
    ASSUME RingInv, NEW q \in Pollers, Poll(q)
    PROVE  RingInv'
<1>type. RingType
  BY DEF RingInv
<1>facts. /\ cursor \in [Pollers -> Nat] /\ read \in [Pollers -> SUBSET Nat]
          /\ ring.seq \in Nat
  BY DEF RingInv, RingType
<1>step. /\ UNCHANGED <<pending, lagged, ring>>
         /\ cursor' = [cursor EXCEPT ![q] = LatestSeq(q, Page(q))]
         /\ read' = [read EXCEPT ![q] = @ \cup {Buffer(q)[i].seq : i \in Page(q)}]
  BY DEF Poll
<1> DEFINE b == Buffer(q)
           to == LatestSeq(q, Page(q))
<1>buf. \A p \in Pollers : Buffer(p)' = Buffer(p)
  BY <1>step DEF Buffer
<1>ord. Ordered(b, ring.seq)
  BY DEF RingInv, Buffer
<1>page. /\ b \in Seq(Record)
         /\ \A i \in Page(q) : i \in 1 .. Len(b) /\ b[i].seq > cursor[q] /\ Matches(q, b[i])
         /\ \A i \in Page(q) : \A j \in 1 .. Len(b) :
               j < i /\ b[j].seq > cursor[q] /\ Matches(q, b[j]) => j \in Page(q)
         /\ Page(q) # {} => Max(Page(q)) \in Page(q) /\ \A i \in Page(q) : i <= Max(Page(q))
  BY <1>type, PageProperty
<1>to. to = IF Page(q) = {} THEN cursor[q] ELSE b[Max(Page(q))].seq
  BY DEF LatestSeq
<1>seq. \A i \in 1 .. Len(b) : b[i].seq \in Nat /\ b[i].seq <= ring.seq
  <2>1. \A i \in 1 .. Len(b) : b[i] \in Record
    BY <1>page
  <2> QED
    BY <2>1, <1>ord DEF Record, Ordered
<1>mono. \A i, j \in 1 .. Len(b) : i < j => b[i].seq < b[j].seq
  BY <1>ord DEF Ordered
<1> HIDE DEF b, to
<1>len. Len(b) \in Nat
  BY <1>page
<1>1. /\ to \in Nat /\ cursor[q] <= to /\ to <= ring.seq
      /\ \A i \in Page(q) : b[i].seq <= to
  <2>1. CASE Page(q) = {}
    <3>1. cursor[q] <= ring.seq
      BY DEF RingInv, Behind
    <3> QED
      BY <2>1, <3>1, <1>to, <1>facts
  <2>2. CASE Page(q) # {}
    <3>1. /\ Max(Page(q)) \in Page(q) /\ \A i \in Page(q) : i <= Max(Page(q))
          /\ to = b[Max(Page(q))].seq
      BY <2>2, <1>page, <1>to
    <3>2. Max(Page(q)) \in 1 .. Len(b) /\ to > cursor[q] /\ to \in Nat /\ to <= ring.seq
      BY <3>1, <1>page, <1>seq
    <3>3. ASSUME NEW i \in Page(q) PROVE b[i].seq <= to
      <4>1. i \in 1 .. Len(b) /\ i <= Max(Page(q)) /\ b[i].seq \in Nat
        BY <3>1, <1>page, <1>seq
      <4>2. CASE i = Max(Page(q))
        BY <4>2, <3>1, <3>2
      <4>3. CASE i < Max(Page(q))
        BY <4>1, <4>3, <3>1, <3>2, <1>mono
      <4> QED
        BY <4>1, <4>2, <4>3, <3>2, <1>len
    <3> QED
      BY <3>2, <3>3, <1>facts
  <2> QED
    BY <2>1, <2>2
<1>2. RingType'
  <2>1. cursor' \in [Pollers -> Nat]
    BY <1>step, <1>1, <1>facts DEF to
  <2>2. {b[i].seq : i \in Page(q)} \subseteq Nat
    BY <1>page, <1>seq
  <2>3. read' \in [Pollers -> SUBSET Nat]
    BY <2>2, <1>step, <1>facts DEF b
  <2> QED
    BY <2>1, <2>3, <1>step, <1>type DEF RingType
<1>3. /\ cursor'[q] = to /\ read'[q] = read[q] \cup {b[i].seq : i \in Page(q)}
      /\ \A p \in Pollers : p # q => cursor'[p] = cursor[p] /\ read'[p] = read[p]
  BY <1>step, <1>facts DEF b, to
<1>4. Behind'
  <2>1. \A n \in read[q] : n \in Nat /\ n <= cursor[q]
    BY <1>facts DEF RingInv, Behind
  <2>2. \A n \in read'[q] : n <= to
    BY <2>1, <1>1, <1>3, <1>facts
  <2>3. \A p \in Pollers : p # q => cursor[p] <= ring.seq /\ \A n \in read[p] : n <= cursor[p]
    BY DEF RingInv, Behind
  <2> QED
    BY <2>2, <2>3, <1>1, <1>3, <1>step DEF Behind
<1>5. PagingExact'
  <2> SUFFICES ASSUME NEW p \in Pollers, NEW i \in DOMAIN Buffer(p)', Matches(p, Buffer(p)'[i])
               PROVE  Buffer(p)'[i].seq \in read'[p] <=> Buffer(p)'[i].seq <= cursor'[p]
    BY DEF PagingExact, Matches
  <2>0. /\ i \in DOMAIN Buffer(p) /\ Buffer(p)' = Buffer(p)
        /\ Buffer(p)[i].seq \in read[p] <=> Buffer(p)[i].seq <= cursor[p]
    BY <1>buf DEF RingInv, PagingExact
  <2>1. CASE p # q
    BY <2>0, <2>1, <1>3
  <2>2. CASE p = q
    <3>0. /\ i \in 1 .. Len(b) /\ Matches(q, b[i])
          /\ b[i].seq \in read[q] <=> b[i].seq <= cursor[q]
      BY <2>0, <2>2, <1>page DEF b
    <3>1. ASSUME b[i].seq \in read'[q] PROVE b[i].seq <= to
      BY <3>1, <1>3, <1>4 DEF Behind
    <3>2. ASSUME b[i].seq <= to PROVE b[i].seq \in read'[q]
      <4>1. CASE b[i].seq <= cursor[q]
        BY <4>1, <3>0, <1>3
      <4>2. CASE ~(b[i].seq <= cursor[q])
        <5>0. b[i].seq \in Nat /\ b[i].seq > cursor[q]
          BY <4>2, <3>0, <1>seq, <1>facts
        <5>1. Page(q) # {}
          BY <5>0, <3>2, <1>to, <1>facts
        <5>2. Max(Page(q)) \in Page(q) /\ to = b[Max(Page(q))].seq
          BY <5>1, <1>page, <1>to
        <5>3. Max(Page(q)) \in 1 .. Len(b)
          BY <5>2, <1>page
        <5>4. ~(Max(Page(q)) < i)
          <6> SUFFICES ASSUME Max(Page(q)) < i PROVE FALSE
            OBVIOUS
          <6>1. to < b[i].seq
            BY <5>2, <5>3, <3>0, <1>mono
          <6> QED
            BY <6>1, <3>2, <5>0, <1>1
        <5>5. i = Max(Page(q)) \/ i < Max(Page(q))
          BY <5>3, <5>4, <3>0, <1>len
        <5>6. i \in Page(q)
          BY <5>0, <5>2, <5>5, <3>0, <1>page
        <5> QED
          BY <5>6, <1>3
      <4> QED
        BY <4>1, <4>2
    <3> QED
      BY <3>1, <3>2, <2>0, <2>2, <1>3 DEF b
  <2> QED
    BY <2>1, <2>2
<1> QED
  BY <1>2, <1>4, <1>5, <1>step DEF RingInv, Ordered

(* A captured event changes one buffer, by one record with a new seq. *)
LEMMA CaptureStep ==
    ASSUME RingInv, Capture
    PROVE  RingInv'
<1>facts. /\ pending \in Seq(Events) /\ pending # <<>> /\ ring.seq \in Nat
          /\ ring \in [seq : Nat, dropped : Nat, errors : Seq(Record), outputs : Seq(Record)]
          /\ cursor \in [Pollers -> Nat] /\ read \in [Pollers -> SUBSET Nat]
          /\ Ordered(ring.errors, ring.seq) /\ Ordered(ring.outputs, ring.seq)
  BY DEF RingInv, RingType, Capture
<1> DEFINE e == Head(pending)
<1>e. e \in Events /\ Tail(pending) \in Seq(Events)
  BY <1>facts
<1>step. /\ UNCHANGED <<lagged, cursor, read>> /\ pending' = Tail(pending)
         /\ \/ UNCHANGED ring
            \/ \E tag \in {e.tag, NoPreset} :
                  ring' = [ring EXCEPT !.seq = @ + 1, !.errors = Push(@, tag, e.of)]
            \/ ring' = [ring EXCEPT !.seq = @ + 1, !.outputs = Push(@, e.tag, e.of)]
  BY DEF Capture
<1> HIDE DEF e
<1>of. e.of \in {d.of : d \in Events} /\ e.tag \in Tags /\ NoPreset \in Tags
  BY <1>e DEF Tags
<1>keep. ASSUME ring' \in [seq : Nat, dropped : Nat, errors : Seq(Record), outputs : Seq(Record)],
                ring'.seq = ring.seq \/ ring'.seq = ring.seq + 1,
                Ordered(ring'.errors, ring'.seq), Ordered(ring'.outputs, ring'.seq),
                \A i \in 1 .. Len(ring'.errors) :
                    ring'.errors[i].seq = ring.seq + 1
                    \/ \E j \in 1 .. Len(ring.errors) : ring'.errors[i] = ring.errors[j],
                \A i \in 1 .. Len(ring'.outputs) :
                    ring'.outputs[i].seq = ring.seq + 1
                    \/ \E j \in 1 .. Len(ring.outputs) : ring'.outputs[i] = ring.outputs[j]
         PROVE  RingInv'
  <2>1. RingType'
    BY <1>keep, <1>step, <1>e, <1>facts DEF RingInv, RingType
  <2>2. \A p \in Pollers : /\ cursor[p] \in Nat /\ cursor[p] <= ring.seq
                           /\ \A n \in read[p] : n \in Nat /\ n <= cursor[p]
    BY <1>facts DEF RingInv, Behind
  <2>3. Behind'
    BY <2>2, <1>keep, <1>step, <1>facts DEF Behind
  <2>4. PagingExact'
    <3> SUFFICES ASSUME NEW p \in Pollers, NEW i \in DOMAIN Buffer(p)', Matches(p, Buffer(p)'[i])
                 PROVE  Buffer(p)'[i].seq \in read[p] <=> Buffer(p)'[i].seq <= cursor[p]
      BY <1>step DEF PagingExact, Matches
    <3>1. Buffer(p)' \in Seq(Record) /\ Buffer(p) \in Seq(Record)
      BY <1>keep, <1>facts DEF Buffer
    <3>2. i \in 1 .. Len(Buffer(p)')
      BY <3>1
    <3>3. \/ Buffer(p)'[i].seq = ring.seq + 1
          \/ \E j \in 1 .. Len(Buffer(p)) : Buffer(p)'[i] = Buffer(p)[j]
      BY <3>2, <1>keep DEF Buffer
    <3>4. CASE Buffer(p)'[i].seq = ring.seq + 1
      BY <3>4, <2>2, <1>facts
    <3>5. ASSUME NEW j \in 1 .. Len(Buffer(p)), Buffer(p)'[i] = Buffer(p)[j]
          PROVE  Buffer(p)'[i].seq \in read[p] <=> Buffer(p)'[i].seq <= cursor[p]
      <4>1. j \in DOMAIN Buffer(p)
        BY <3>1
      <4> QED
        BY <4>1, <3>5 DEF RingInv, PagingExact
    <3> QED
      BY <3>3, <3>4, <3>5
  <2> QED
    BY <2>1, <2>3, <2>4, <1>keep DEF RingInv
<1>2. CASE UNCHANGED ring
  BY <1>2, <1>keep, <1>facts
<1>grow. \A b : Ordered(b, ring.seq) /\ b \in Seq(Record) => Ordered(b, ring.seq + 1)
  <2> SUFFICES ASSUME NEW b, Ordered(b, ring.seq), b \in Seq(Record)
               PROVE  Ordered(b, ring.seq + 1)
    OBVIOUS
  <2>1. \A i \in 1 .. Len(b) : b[i].seq \in Nat
    <3>1. \A i \in 1 .. Len(b) : b[i] \in Record
      OBVIOUS
    <3> QED
      BY <3>1 DEF Record
  <2> QED
    BY <2>1, <1>facts DEF Ordered
<1>bufs. ring.errors \in Seq(Record) /\ ring.outputs \in Seq(Record)
  BY <1>facts
<1>3. ASSUME NEW tag \in Tags, ring' = [ring EXCEPT !.seq = @ + 1, !.errors = Push(@, tag, e.of)]
      PROVE  RingInv'
  <2> DEFINE new == Push(ring.errors, tag, e.of)
  <2>1. /\ new \in Seq(Record) /\ Ordered(new, ring.seq + 1)
        /\ \A i \in 1 .. Len(new) : \/ new[i].seq = ring.seq + 1
                                    \/ \E j \in 1 .. Len(ring.errors) : new[i] = ring.errors[j]
    BY <1>facts, <1>bufs, <1>of, PushProperty
  <2>2. ring' = [ring EXCEPT !.seq = ring.seq + 1, !.errors = new]
    BY <1>3
  <2> HIDE DEF new
  <2>3. /\ ring'.seq = ring.seq + 1 /\ ring'.errors = new /\ ring'.outputs = ring.outputs
        /\ ring' \in [seq : Nat, dropped : Nat, errors : Seq(Record), outputs : Seq(Record)]
    <3>1. ring.seq + 1 \in Nat
      BY <1>facts
    <3> DEFINE n == ring.seq + 1
    <3> HIDE DEF n
    <3>2. ring' = [ring EXCEPT !.seq = n, !.errors = new]
      BY <2>2 DEF n
    <3>3. n \in Nat
      BY <3>1 DEF n
    <3> QED
      BY <2>1, <3>2, <3>3, <1>facts, Zenon DEF n
  <2> QED
    BY <2>1, <2>3, <1>keep, <1>grow, <1>bufs, <1>facts
<1>4. ASSUME NEW tag \in Tags, ring' = [ring EXCEPT !.seq = @ + 1, !.outputs = Push(@, tag, e.of)]
      PROVE  RingInv'
  <2> DEFINE new == Push(ring.outputs, tag, e.of)
  <2>1. /\ new \in Seq(Record) /\ Ordered(new, ring.seq + 1)
        /\ \A i \in 1 .. Len(new) : \/ new[i].seq = ring.seq + 1
                                    \/ \E j \in 1 .. Len(ring.outputs) : new[i] = ring.outputs[j]
    BY <1>facts, <1>bufs, <1>of, PushProperty
  <2>2. ring' = [ring EXCEPT !.seq = ring.seq + 1, !.outputs = new]
    BY <1>4
  <2> HIDE DEF new
  <2>3. /\ ring'.seq = ring.seq + 1 /\ ring'.outputs = new /\ ring'.errors = ring.errors
        /\ ring' \in [seq : Nat, dropped : Nat, errors : Seq(Record), outputs : Seq(Record)]
    <3>1. ring.seq + 1 \in Nat
      BY <1>facts
    <3> DEFINE n == ring.seq + 1
    <3> HIDE DEF n
    <3>2. ring' = [ring EXCEPT !.seq = n, !.outputs = new]
      BY <2>2 DEF n
    <3>3. n \in Nat
      BY <3>1 DEF n
    <3> QED
      BY <2>1, <3>2, <3>3, <1>facts, Zenon DEF n
  <2> QED
    BY <2>1, <2>3, <1>keep, <1>grow, <1>bufs, <1>facts
<1> QED
  BY <1>step, <1>of, <1>2, <1>3, <1>4

(* What a new server starts with. *)
LEMMA FreshRing ==
    ASSUME ring' = NewRing, pending' = <<>>, lagged' = 0,
           cursor' = [p \in Pollers |-> 0], read' = [p \in Pollers |-> {}]
    PROVE  RingInv'
<1>1. /\ ring'.seq = 0 /\ ring'.errors = <<>> /\ ring'.outputs = <<>>
      /\ ring' \in [seq : Nat, dropped : Nat, errors : Seq(Record), outputs : Seq(Record)]
  BY DEF NewRing
<1>2. RingType' /\ Behind'
  BY <1>1 DEF RingType, Behind
<1>3. Ordered(<<>>, 0)
  BY DEF Ordered
<1>4. PagingExact'
  <2>1. \A p \in Pollers : Buffer(p)' = <<>>
    BY <1>1 DEF Buffer
  <2> QED
    BY <2>1 DEF PagingExact
<1> QED
  BY <1>1, <1>2, <1>3, <1>4 DEF RingInv

(* Paging by latest_seq is exact, for any number of clients and filters,   *)
(* any capacity of channel and ring and any limit: of the records that are *)
(* kept and match, a client was given those up to its cursor.              *)
THEOREM PagingIsExact == RingSpec => []PagingExact
<1>1. RingInit => RingInv
  <2> SUFFICES ASSUME RingInit PROVE RingInv
    OBVIOUS
  <2>1. /\ ring.seq = 0 /\ ring.errors = <<>> /\ ring.outputs = <<>>
        /\ ring \in [seq : Nat, dropped : Nat, errors : Seq(Record), outputs : Seq(Record)]
    BY DEF RingInit, NewRing
  <2>2. RingType /\ Behind
    BY <2>1 DEF RingInit, RingType, Behind
  <2>3. Ordered(<<>>, 0)
    BY DEF Ordered
  <2>4. PagingExact
    <3>1. \A p \in Pollers : Buffer(p) = <<>>
      BY <2>1 DEF Buffer
    <3> QED
      BY <3>1 DEF PagingExact
  <2> QED
    BY <2>1, <2>2, <2>3, <2>4 DEF RingInv
<1>2. RingInv /\ [RingNext]_ringVars => RingInv'
  <2> SUFFICES ASSUME RingInv, [RingNext]_ringVars PROVE RingInv'
    OBVIOUS
  <2>same. ASSUME UNCHANGED <<cursor, read>>, RingType',
                  ring'.seq = ring.seq, ring'.errors = ring.errors, ring'.outputs = ring.outputs
           PROVE  RingInv'
    <3>1. \A p \in Pollers : Buffer(p)' = Buffer(p)
      BY <2>same DEF Buffer
    <3>2. PagingExact'
      BY <3>1, <2>same DEF RingInv, PagingExact, Matches
    <3> QED
      BY <3>2, <2>same DEF RingInv, Behind
  <2>1. CASE StartServer \/ StopServer
    BY <2>1, FreshRing DEF StartServer, StopServer, Fresh
  <2>2. ASSUME NEW event \in Events, Emit(event) PROVE RingInv'
    <3> DEFINE all == Append(pending, event)
               over == IF Len(all) > EventCap THEN 1 ELSE 0
    <3>1. all \in Seq(Events) /\ over \in Nat
      BY DEF RingInv, RingType
    <3>2. /\ pending' = SubSeq(all, 1 + over, Len(all)) /\ lagged' = lagged + over
          /\ UNCHANGED <<ring, cursor, read>>
      BY <2>2 DEF Emit
    <3> HIDE DEF all, over
    <3>3. SubSeq(all, 1 + over, Len(all)) \in Seq(Events)
      BY <3>1
    <3>4. RingType'
      BY <3>1, <3>2, <3>3 DEF RingInv, RingType
    <3> QED
      BY <3>2, <3>4, <2>same
  <2>3. CASE Lag
    <3>1. /\ ring' = [ring EXCEPT !.dropped = @ + lagged] /\ lagged' = 0
          /\ UNCHANGED <<pending, cursor, read>>
      BY <2>3 DEF Lag
    <3>2. RingType'
      <4> DEFINE n == ring.dropped + lagged
      <4>1. /\ ring \in [seq : Nat, dropped : Nat, errors : Seq(Record), outputs : Seq(Record)]
            /\ n \in Nat
        BY DEF RingInv, RingType
      <4>2. ring' = [ring EXCEPT !.dropped = n]
        BY <3>1
      <4> HIDE DEF n
      <4>3. ring' \in [seq : Nat, dropped : Nat, errors : Seq(Record), outputs : Seq(Record)]
        BY <4>1, <4>2, Zenon
      <4> QED
        BY <3>1, <4>3 DEF RingInv, RingType
    <3>3. ring'.seq = ring.seq /\ ring'.errors = ring.errors /\ ring'.outputs = ring.outputs
      BY <3>1 DEF RingInv, RingType
    <3> QED
      BY <3>1, <3>2, <3>3, <2>same
  <2>4. CASE Capture
    BY <2>4, CaptureStep
  <2>5. ASSUME NEW p \in Pollers, Poll(p) PROVE RingInv'
    BY <2>5, PollStep
  <2>6. CASE UNCHANGED ringVars
    <3>1. RingType'
      BY <2>6 DEF ringVars, RingInv, RingType
    <3> QED
      BY <2>6, <3>1, <2>same DEF ringVars
  <2> QED
    BY <2>1, <2>2, <2>3, <2>4, <2>5, <2>6 DEF RingNext
<1>3. RingInv => PagingExact
  BY DEF RingInv
<1> QED
  BY <1>1, <1>2, <1>3, PTL DEF RingSpec

-----------------------------------------------------------------------------
(* Configs.  What is kept or on its way is well formed: it has every       *)
(* declared key, otherwise only numbered and routed ones, and a number     *)
(* that keys are generated for.  An agent's configs are exact: rebuilt     *)
(* after each write.                                                       *)

Val == {Default, "routed"} \cup DOMAIN Generated \cup
       UNION {{cfg[k] : k \in DOMAIN cfg} : cfg \in Patches \cup OldSpecs \cup {Declared}}
Named == DOMAIN Declared \cup NumberedKeys
Keys == Named \cup Routed
WellFormed ==
    {f \in UNION {[K -> Val] : K \in SUBSET Keys} :
        DOMAIN Declared \subseteq DOMAIN f /\ f["n"] \in DOMAIN Generated}
Exact(f) == f \in WellFormed /\ DOMAIN f \cap NumberedKeys = Generated[f["n"]]

Single == {f \in UNION {[{k} -> Val] : k \in Routed} : "n" \in DOMAIN f => f["n"] \in DOMAIN Generated}
Note == [kind : {"Configs"}, configs : WellFormed] \cup [kind : {"Config"}, configs : Single]
Asked == Patches \cup {NoConfigs} \cup {OnlyKeys(p, DOMAIN p \ DOMAIN Declared) : p \in Patches}
Call == [pc : {"idle", "set", "update", "check", "rollback"}, agent : Agents,
         patch : Asked, configs : WellFormed \cup {NoConfigs}]

CfgType ==
    /\ created \subseteq Agents /\ alive \subseteq created /\ running \subseteq alive
    /\ rejected \subseteq created
    /\ configs \in [Agents -> WellFormed \cup {NoConfigs}]
    /\ queue \in [Agents -> Seq(Note)]
    /\ leftover \in [Agents -> Seq(Seq(Note) \ {<<>>})]
    /\ client \in [Clients -> Call]
    /\ written \in [Agents -> [DOMAIN Declared -> Val]]
    /\ raced \in [Agents -> SUBSET DOMAIN Declared]
    /\ strays \in [Agents -> SUBSET (Routed \ Named)]

(* A call that is to write knows an agent that was made, and what it was   *)
(* asked for is part of what it merged.                                    *)
CallOk(call, made) ==
    /\ call.pc # "idle" => call.agent \in made
    /\ call.pc \in {"set", "update"} => DOMAIN call.patch \subseteq Keys
    /\ call.pc = "set" =>
          /\ call.configs \in WellFormed
          /\ \A k \in DOMAIN call.patch : k \in DOMAIN call.configs /\ call.configs[k] = call.patch[k]

AgentOk(a) ==
    /\ a \in created => Exact(configs[a])
    /\ a \notin created => written[a] = Declared
    /\ a \notin running => queue[a] = <<>>
    /\ a \notin alive => leftover[a] = <<>>

StateInv ==
    /\ CfgType
    /\ rejected \cap alive = {}
    /\ \A c \in Clients : CallOk(client[c], created)
    /\ \A a \in Agents : AgentOk(a)

(* The last of the messages s that sets k, or else what the agent has,     *)
(* gives k the value that was asked for last.                              *)
Settles(s, k, has, last) ==
    /\ (\A i \in 1 .. Len(s) : k \notin DOMAIN s[i].configs) => has = last
    /\ \A i \in 1 .. Len(s) :
          (k \in DOMAIN s[i].configs /\ \A j \in 1 .. Len(s) : j > i => k \notin DOMAIN s[j].configs)
          => s[i].configs[k] = last

(* Unless keys are raced, one loop at most has messages to take, and these *)
(* settle every key.                                                       *)
Waiting(a) == IF leftover[a] = <<>> THEN queue[a] ELSE leftover[a][1]
ValueOk(a) ==
    /\ (leftover[a] # <<>> /\ (queue[a] # <<>> \/ Len(leftover[a]) > 1)) => DOMAIN Declared \subseteq raced[a]
    /\ \A k \in DOMAIN Declared \ raced[a] : Settles(Waiting(a), k, configs[a][k], written[a][k])

ValueInv == \A a \in alive : ValueOk(a)

(* What the assumptions give for keys and values. *)
LEMMA KeyFacts ==
    /\ "n" \in DOMAIN Declared /\ DOMAIN Declared \subseteq Keys
    /\ \A n \in DOMAIN Generated : n \in Val
    /\ \A n \in DOMAIN Generated : Generated[n] \subseteq NumberedKeys
    /\ DOMAIN Declared \cap NumberedKeys = {}
    /\ ParkedKeys \cap Named = {}
    /\ Default \in Val /\ "routed" \in Val
    /\ \A k \in DOMAIN Declared : Declared[k] \in Val
    /\ \A cfg \in Patches \cup OldSpecs : \A k \in DOMAIN cfg : cfg[k] \in Val
  BY AgentConfigsAssumption DEF Keys, Named, NumberedKeys, Val

(* How to see that configs are well formed, and what it means. *)
LEMMA WellFormedIntro ==
    ASSUME NEW K \in SUBSET Keys, NEW f \in [K -> Val], DOMAIN Declared \subseteq K,
           f["n"] \in DOMAIN Generated
    PROVE  f \in WellFormed
  BY DEF WellFormed

(* ... and what is in the set has all of that.                            *)
LEMMA WellFormedElim ==
    ASSUME NEW f \in WellFormed
    PROVE  /\ DOMAIN f \subseteq Keys /\ DOMAIN Declared \subseteq DOMAIN f
           /\ f \in [DOMAIN f -> Val]
           /\ f["n"] \in DOMAIN Generated
  BY DEF WellFormed

(* A client asks for values that are known, and for numbers that exist. *)
LEMMA AskedProperty ==
    ASSUME NEW p \in Asked
    PROVE  /\ \A k \in DOMAIN p : p[k] \in Val
           /\ "n" \in DOMAIN p => p["n"] \in DOMAIN Generated
<1>1. CASE p \in Patches
  BY <1>1, KeyFacts, AgentConfigsAssumption
<1>2. CASE p = NoConfigs
  BY <1>2 DEF NoConfigs
<1>3. ASSUME NEW q \in Patches, p = OnlyKeys(q, DOMAIN q \ DOMAIN Declared)
      PROVE  /\ \A k \in DOMAIN p : p[k] \in Val
             /\ "n" \notin DOMAIN p
  BY <1>3, KeyFacts DEF OnlyKeys
<1> QED
  BY <1>1, <1>2, <1>3 DEF Asked

(* Setting known values in well-formed configs. *)
LEMMA OverProperty ==
    ASSUME NEW f \in WellFormed, NEW p, DOMAIN p \subseteq Keys,
           \A k \in DOMAIN p : p[k] \in Val,
           "n" \in DOMAIN p => p["n"] \in DOMAIN Generated
    PROVE  /\ Over(p, f) \in WellFormed
           /\ DOMAIN Over(p, f) = DOMAIN p \cup DOMAIN f
           /\ \A k \in DOMAIN p : Over(p, f)[k] = p[k]
           /\ \A k \in DOMAIN f \ DOMAIN p : Over(p, f)[k] = f[k]
<1> DEFINE K == DOMAIN p \cup DOMAIN f
           g == Over(p, f)
<1>1. /\ DOMAIN f \subseteq Keys /\ DOMAIN Declared \subseteq DOMAIN f
      /\ \A k \in DOMAIN f : f[k] \in Val
      /\ f["n"] \in DOMAIN Generated
  BY WellFormedElim
<1>2. /\ DOMAIN g = K
      /\ \A k \in DOMAIN p : g[k] = p[k]
      /\ \A k \in DOMAIN f \ DOMAIN p : g[k] = f[k]
  BY DEF Over
<1>3. g \in [K -> Val]
  BY <1>1 DEF Over
<1>4. K \subseteq Keys /\ DOMAIN Declared \subseteq K
  BY <1>1
<1>5. g["n"] \in DOMAIN Generated
  BY <1>1, <1>2, KeyFacts
<1> HIDE DEF K, g
<1>6. g \in WellFormed
  BY <1>3, <1>4, <1>5, WellFormedIntro
<1> QED
  BY <1>2, <1>6 DEF g, K

(* Rebuilding makes configs exact, and keeps what is declared. *)
LEMMA RebuildProperty ==
    ASSUME NEW f \in WellFormed
    PROVE  /\ Exact(Rebuild(f))
           /\ DOMAIN Rebuild(f) \subseteq DOMAIN f \cup NumberedKeys
           /\ \A k \in DOMAIN Declared : Rebuild(f)[k] = f[k]
<1> DEFINE K == (DOMAIN f \ NumberedKeys) \cup Generated[f["n"]]
           g == Rebuild(f)
<1>1. /\ DOMAIN f \subseteq Keys /\ DOMAIN Declared \subseteq DOMAIN f
      /\ \A k \in DOMAIN f : f[k] \in Val
      /\ f["n"] \in DOMAIN Generated
  BY WellFormedElim
<1>2. g = [k \in K |-> IF k \in DOMAIN f THEN f[k] ELSE Default]
  BY DEF Rebuild
<1>3. /\ DOMAIN Declared \subseteq K /\ K \cap NumberedKeys = Generated[f["n"]]
      /\ K \subseteq DOMAIN f \cup NumberedKeys
  BY <1>1, KeyFacts
<1>4. K \subseteq Keys
  BY <1>1, <1>3 DEF Keys, Named
<1> HIDE DEF K, g
<1>5. g \in [K -> Val] /\ DOMAIN g = K
  BY <1>1, <1>2, KeyFacts
<1>6. \A k \in DOMAIN Declared : g[k] = f[k]
  BY <1>1, <1>2, <1>3
<1>7. g["n"] = f["n"]
  BY <1>6, KeyFacts
<1>8. g \in WellFormed
  BY <1>1, <1>3, <1>4, <1>5, <1>7, WellFormedIntro
<1> QED
  BY <1>3, <1>5, <1>6, <1>7, <1>8 DEF Exact, g

(* An agent takes a message: what the message sets is set, the rest stays. *)
LEMMA AppliedProperty ==
    ASSUME NEW a, Exact(configs[a]), NEW m \in Note
    PROVE  /\ Exact(Applied(a, m))
           /\ DOMAIN Applied(a, m) \subseteq DOMAIN m.configs \cup DOMAIN configs[a] \cup NumberedKeys
           /\ \A k \in DOMAIN Declared :
                 Applied(a, m)[k] = IF k \in DOMAIN m.configs THEN m.configs[k] ELSE configs[a][k]
<1>0. configs[a] \in WellFormed
  BY DEF Exact
<1>1. CASE m \in [kind : {"Configs"}, configs : WellFormed]
  <2>1. m.kind = "Configs" /\ m.configs \in WellFormed
    BY <1>1
  <2>2. Applied(a, m) = Rebuild(m.configs)
    BY <2>1 DEF Applied
  <2>3. DOMAIN Declared \subseteq DOMAIN m.configs
    BY <2>1, WellFormedElim
  <2> QED
    BY <2>1, <2>2, <2>3, RebuildProperty
<1>2. CASE m \in [kind : {"Config"}, configs : Single]
  <2>1. m.kind = "Config" /\ m.configs \in Single
    BY <1>2
  <2>2. PICK k \in Routed : m.configs \in [{k} -> Val]
    BY <2>1 DEF Single
  <2>n. "n" \in DOMAIN m.configs => m.configs["n"] \in DOMAIN Generated
    BY <2>1 DEF Single
  <2> DEFINE p == m.configs
             g == Over(p, configs[a])
  <2>3. Applied(a, m) = Rebuild(g)
    BY <2>1 DEF Applied
  <2>4. /\ DOMAIN p = {k} /\ p[k] \in Val /\ DOMAIN p \subseteq Keys
        /\ "n" \in DOMAIN p => p["n"] \in DOMAIN Generated
    BY <2>2, <2>n DEF Keys
  <2> HIDE DEF p
  <2>5. /\ g \in WellFormed
        /\ DOMAIN g = DOMAIN p \cup DOMAIN configs[a]
        /\ \A j \in DOMAIN p : g[j] = p[j]
        /\ \A j \in DOMAIN configs[a] \ DOMAIN p : g[j] = configs[a][j]
    BY <2>4, <1>0, OverProperty
  <2>6. DOMAIN Declared \subseteq DOMAIN configs[a]
    BY <1>0, WellFormedElim
  <2> HIDE DEF g
  <2>7. /\ Exact(Rebuild(g)) /\ DOMAIN Rebuild(g) \subseteq DOMAIN g \cup NumberedKeys
        /\ \A j \in DOMAIN Declared : Rebuild(g)[j] = g[j]
    BY <2>5, RebuildProperty
  <2> QED
    BY <2>3, <2>5, <2>6, <2>7 DEF p
<1> QED
  BY <1>1, <1>2 DEF Note

(* A new agent is exact; it has what the spec gave, defaults otherwise. *)
LEMMA ConstructProperty ==
    ASSUME NEW cfg, DOMAIN cfg \subseteq DOMAIN Declared \cup DOMAIN Parked \cup ParkedKeys,
           \A k \in DOMAIN cfg : cfg[k] \in Val,
           "n" \in DOMAIN cfg => cfg["n"] \in DOMAIN Generated
    PROVE  /\ Exact(Construct(cfg))
           /\ DOMAIN Construct(cfg) \subseteq Named
           /\ \A k \in DOMAIN Declared :
                 Construct(cfg)[k] = IF k \in DOMAIN cfg THEN cfg[k] ELSE Declared[k]
<1> DEFINE known == DOMAIN Declared \cup ParkedKeys
           stale == {k \in DOMAIN cfg : k \notin known}
           S == {Parked[k] : k \in stale}
           park == [p \in S |-> cfg[CHOOSE k \in stale : Parked[k] = p]]
           R == Reconcile(cfg)
           B == Rebuild(R)
           C == Construct(cfg)
<1>1. S \subseteq ParkedKeys
  BY DEF ParkedKeys
<1>2. R = Over(park, Over(OnlyKeys(cfg, known), Declared))
  BY DEF Reconcile
<1>3. DOMAIN park = S
  OBVIOUS
<1>4. /\ DOMAIN R = S \cup (DOMAIN cfg \cap known) \cup DOMAIN Declared
      /\ \A k \in DOMAIN Declared \ S : R[k] = IF k \in DOMAIN cfg THEN cfg[k] ELSE Declared[k]
  <2> HIDE DEF park, S, R
  <2> QED
    BY <1>2, <1>3 DEF Over, OnlyKeys
<1> HIDE DEF park, S, R
<1>5. DOMAIN Declared \subseteq DOMAIN R /\ DOMAIN R \subseteq DOMAIN Declared \cup ParkedKeys
  BY <1>1, <1>4
<1>6. DOMAIN Declared \cap ParkedKeys = {} /\ NumberedKeys \cap ParkedKeys = {}
  BY KeyFacts DEF Named
<1>7. \A k \in DOMAIN Declared : /\ R[k] = IF k \in DOMAIN cfg THEN cfg[k] ELSE Declared[k]
                                 /\ R[k] \in Val
  BY <1>1, <1>4, <1>6, KeyFacts
<1>8. R["n"] \in DOMAIN Generated
  BY <1>7, KeyFacts, AgentConfigsAssumption
<1>9. B = [k \in (DOMAIN R \ NumberedKeys) \cup Generated[R["n"]] |->
              IF k \in DOMAIN R THEN R[k] ELSE Default]
  BY DEF Rebuild
<1>10. C = OnlyKeys(B, DOMAIN B \ ParkedKeys)
  BY DEF Construct, WithoutParked, R
<1> HIDE DEF B, C
<1> DEFINE K == DOMAIN Declared \cup Generated[R["n"]]
<1>11. Generated[R["n"]] \subseteq NumberedKeys /\ Generated[R["n"]] \cap DOMAIN R = {}
       /\ Generated[R["n"]] \cap ParkedKeys = {}
  BY <1>5, <1>6, <1>8, KeyFacts
<1>12. DOMAIN B = DOMAIN R \cup Generated[R["n"]]
  BY <1>5, <1>6, <1>9, <1>11, KeyFacts
<1>13. DOMAIN B \ ParkedKeys = K
  BY <1>5, <1>6, <1>11, <1>12
<1>14. C = [k \in K |-> B[k]]
  BY <1>10, <1>13 DEF OnlyKeys
<1>15. \A k \in DOMAIN Declared : B[k] = R[k]
  BY <1>5, <1>9, <1>12
<1>16. \A k \in Generated[R["n"]] : B[k] = Default
  BY <1>9, <1>11, <1>12
<1>17. \A k \in K : B[k] \in Val
  BY <1>7, <1>15, <1>16, KeyFacts
<1>18. K \subseteq Keys /\ K \subseteq Named /\ K \cap NumberedKeys = Generated[R["n"]]
  BY <1>11, KeyFacts DEF Keys, Named
<1>19. \A k \in DOMAIN Declared : C[k] = R[k]
  BY <1>14, <1>15
<1>20. C["n"] = R["n"]
  BY <1>19, KeyFacts
<1>21. C \in WellFormed
  <2>1. C \in [K -> Val] /\ DOMAIN Declared \subseteq K
    BY <1>14, <1>17
  <2> HIDE DEF K
  <2> QED
    BY <2>1, <1>8, <1>18, <1>20, WellFormedIntro
<1> QED
  BY <1>7, <1>14, <1>18, <1>19, <1>20, <1>21 DEF Exact, C

(* Taking an element out of a sequence. *)
LEMMA RemoveAtProperty ==
    ASSUME NEW S, NEW s \in Seq(S), NEW i \in 1 .. Len(s)
    PROVE  RemoveAt(s, i) \in Seq(S) /\ Len(RemoveAt(s, i)) = Len(s) - 1
<1> DEFINE u == SubSeq(s, 1, i - 1)
           v == SubSeq(s, i + 1, Len(s))
<1>1. Len(s) \in Nat /\ i \in Nat /\ i >= 1 /\ i <= Len(s) /\ \A j \in 1 .. Len(s) : s[j] \in S
  OBVIOUS
<1>2. u \in Seq(S) /\ Len(u) = i - 1
  <2>1. i - 1 \in Int /\ 1 \in Int /\ \A j \in 1 .. i - 1 : s[j] \in S
    BY <1>1
  <2>2. u \in Seq(S) /\ Len(u) = IF 1 <= i - 1 THEN i - 1 - 1 + 1 ELSE 0
    BY <2>1, SubSeqProperties
  <2> QED
    BY <2>2, <1>1
<1>3. v \in Seq(S) /\ Len(v) = Len(s) - i
  <2>1. i + 1 \in Int /\ Len(s) \in Int /\ \A j \in i + 1 .. Len(s) : s[j] \in S
    BY <1>1
  <2>2. v \in Seq(S) /\ Len(v) = IF i + 1 <= Len(s) THEN Len(s) - (i + 1) + 1 ELSE 0
    BY <2>1, SubSeqProperties
  <2> QED
    BY <2>2, <1>1
<1>4. RemoveAt(s, i) = u \o v
  BY DEF RemoveAt
<1> HIDE DEF u, v
<1>5. u \o v \in Seq(S) /\ Len(u \o v) = Len(u) + Len(v)
  BY <1>2, <1>3, ConcatProperties
<1> QED
  BY <1>1, <1>2, <1>3, <1>4, <1>5

(* What a write leaves behind: an agent's configs or a mailbox change. *)
LEMMA PutProperty ==
    ASSUME StateInv, NEW a \in alive, NEW m \in Note, Put(a, m)
    PROVE  /\ configs' \in [Agents -> WellFormed \cup {NoConfigs}]
           /\ queue' \in [Agents -> Seq(Note)]
           /\ leftover' \in [Agents -> Seq(Seq(Note) \ {<< >>})]
           /\ Exact(configs'[a])
           /\ a \notin running => queue'[a] = << >>
           /\ \A b \in Agents : b # a => /\ configs'[b] = configs[b] /\ queue'[b] = queue[b]
                                         /\ leftover'[b] = leftover[b]
<1>1. /\ configs \in [Agents -> WellFormed \cup {NoConfigs}]
      /\ queue \in [Agents -> Seq(Note)]
      /\ leftover \in [Agents -> Seq(Seq(Note) \ {<< >>})]
      /\ a \in Agents /\ Exact(configs[a]) /\ (a \notin running => queue[a] = << >>)
  BY DEF StateInv, CfgType, AgentOk
<1>2. CASE /\ a \in running
           /\ queue' = [queue EXCEPT ![a] = Append(@, m)]
           /\ UNCHANGED <<configs, leftover>>
  <2>1. Append(queue[a], m) \in Seq(Note)
    BY <1>1
  <2> QED
    BY <1>1, <1>2, <2>1
<1>3. CASE /\ a \notin running
           /\ configs' = [configs EXCEPT ![a] = Applied(a, m)]
           /\ UNCHANGED <<queue, leftover>>
  <2>1. Exact(Applied(a, m)) /\ Applied(a, m) \in WellFormed
    BY <1>1, AppliedProperty DEF Exact
  <2> QED
    BY <1>1, <1>3, <2>1
<1>4. CASE /\ leftover[a] # << >>
           /\ leftover' = [leftover EXCEPT ![a][Len(leftover[a])] = Append(@, m)]
           /\ UNCHANGED <<configs, queue>>
  <2> DEFINE s == leftover[a]
             T == Seq(Note) \ {<< >>}
             x == Append(s[Len(s)], m)
             t == [s EXCEPT ![Len(s)] = x]
  <2>1. s \in Seq(T) /\ s # << >>
    BY <1>1, <1>4
  <2>2. leftover' = [leftover EXCEPT ![a] = t]
    BY <1>4
  <2>3. Len(s) \in 1 .. Len(s)
    BY <2>1
  <2>4. s[Len(s)] \in Seq(Note)
    <3>1. s[Len(s)] \in T
      BY <2>1, <2>3, ElementOfSeq
    <3> QED
      BY <3>1
  <2>5. x \in T
    <3>1. x \in Seq(Note) /\ Len(x) = Len(s[Len(s)]) + 1 /\ Len(s[Len(s)]) \in Nat
      BY <2>4, AppendProperties, LenProperties
    <3>2. x # << >>
      BY <3>1
    <3> QED
      BY <3>1, <3>2
  <2> HIDE DEF s, x
  <2>6. t \in Seq(T)
    <3> HIDE DEF T
    <3> QED
      BY <2>1, <2>3, <2>5, ExceptSeq
  <2> HIDE DEF t
  <2> QED
    BY <1>1, <1>4, <2>2, <2>6
<1> QED
  BY <1>2, <1>3, <1>4 DEF Put

(* The history of a write. *)
LEMMA WroteProperty ==
    ASSUME StateInv, NEW a \in Agents, NEW patch, NEW rest,
           \A k \in DOMAIN patch : patch[k] \in Val, Wrote(a, patch, rest)
    PROVE  /\ written' \in [Agents -> [DOMAIN Declared -> Val]]
           /\ raced' \in [Agents -> SUBSET DOMAIN Declared]
           /\ \A b \in Agents : b # a => written'[b] = written[b] /\ raced'[b] = raced[b]
           /\ \A k \in DOMAIN Declared :
                 written'[a][k] = IF k \in DOMAIN patch THEN patch[k] ELSE written[a][k]
           /\ leftover[a] # << >> => DOMAIN Declared \subseteq raced'[a]
           /\ \A k \in DOMAIN Declared \ raced'[a] :
                 k \in DOMAIN patch \/ (k \notin raced[a] /\ (k \in DOMAIN rest => rest[k] = written[a][k]))
<1> DEFINE undone == {k \in DOMAIN rest \ DOMAIN patch : k \in DOMAIN written[a] /\ rest[k] # written[a][k]}
           w == Over(OnlyKeys(patch, DOMAIN Declared), written[a])
           r == ((raced[a] \ DOMAIN patch) \cup undone) \cup (IF leftover[a] # << >> THEN DOMAIN Declared ELSE {})
<1>1. /\ written \in [Agents -> [DOMAIN Declared -> Val]]
      /\ raced \in [Agents -> SUBSET DOMAIN Declared]
      /\ written[a] \in [DOMAIN Declared -> Val] /\ raced[a] \subseteq DOMAIN Declared
  BY DEF StateInv, CfgType
<1>2. written' = [written EXCEPT ![a] = w] /\ raced' = [raced EXCEPT ![a] = r]
  BY DEF Wrote
<1>3. /\ DOMAIN w = DOMAIN Declared
      /\ \A k \in DOMAIN Declared : w[k] = IF k \in DOMAIN patch THEN patch[k] ELSE written[a][k]
  BY <1>1 DEF Over, OnlyKeys
<1>4. w \in [DOMAIN Declared -> Val]
  BY <1>1 DEF Over, OnlyKeys
<1>5. r \subseteq DOMAIN Declared
  BY <1>1
<1>6. \A k \in DOMAIN Declared \ r :
         k \in DOMAIN patch \/ (k \notin raced[a] /\ (k \in DOMAIN rest => rest[k] = written[a][k]))
  BY <1>1
<1>7. leftover[a] # << >> => DOMAIN Declared \subseteq r
  OBVIOUS
<1> HIDE DEF w, r
<1>8. /\ written' \in [Agents -> [DOMAIN Declared -> Val]] /\ written'[a] = w
      /\ raced' \in [Agents -> SUBSET DOMAIN Declared] /\ raced'[a] = r
      /\ \A b \in Agents : b # a => written'[b] = written[b] /\ raced'[b] = raced[b]
  BY <1>1, <1>2, <1>4, <1>5
<1> QED
  BY <1>3, <1>6, <1>7, <1>8

(* A client's call moves on. *)
LEMMA CallFrame ==
    ASSUME StateInv, NEW c \in Clients, NEW call \in Call, client' = [client EXCEPT ![c] = call],
           created \subseteq created', CallOk(call, created')
    PROVE  client' \in [Clients -> Call] /\ \A d \in Clients : CallOk(client'[d], created')
<1>1. client \in [Clients -> Call] /\ \A d \in Clients : CallOk(client[d], created)
  BY DEF StateInv, CfgType
<1>2. client' \in [Clients -> Call] /\ client'[c] = call /\ \A d \in Clients : d # c => client'[d] = client[d]
  BY <1>1
<1>3. \A d \in Clients : d # c => CallOk(client'[d], created')
  BY <1>1, <1>2 DEF CallOk
<1> QED
  BY <1>2, <1>3

(* A client without a call. *)
LEMMA IdleCall ==
    /\ IdleClient \in Call
    /\ \A made : CallOk(IdleClient, made)
<1>1. (CHOOSE a \in Agents : TRUE) \in Agents
  BY AgentConfigsAssumption
<1> QED
  BY <1>1 DEF IdleClient, Call, Asked, CallOk

(* A step changes one agent. *)
LEMMA AgentFrame ==
    ASSUME StateInv, NEW a \in Agents, AgentOk(a)',
           \A b \in Agents : b # a =>
              /\ configs'[b] = configs[b] /\ queue'[b] = queue[b] /\ leftover'[b] = leftover[b]
              /\ written'[b] = written[b]
              /\ (b \in created' <=> b \in created) /\ (b \in alive' <=> b \in alive)
              /\ (b \in running' <=> b \in running)
    PROVE  \A b \in Agents : AgentOk(b)'
  BY DEF StateInv, AgentOk

(* Messages that are written. *)
LEMMA NoteProperty ==
    /\ \A cfg \in WellFormed : AllConfigs(cfg) \in Note
    /\ \A k \in Routed : \A v \in RoutedValues(k) :
          /\ OneConfig(k, v) \in Note
          /\ DOMAIN OneConfig(k, v).configs = {k}
          /\ OneConfig(k, v).configs[k] \in Val
<1>1. ASSUME NEW k \in Routed, NEW v \in RoutedValues(k)
      PROVE  [key \in {k} |-> v] \in Single /\ v \in Val
  <2>1. v \in Val /\ (k = "n" => v \in DOMAIN Generated)
    BY KeyFacts DEF RoutedValues
  <2> DEFINE f == [key \in {k} |-> v]
  <2>2. f \in [{k} -> Val] /\ DOMAIN f = {k} /\ f[k] = v
    BY <2>1
  <2> HIDE DEF f
  <2>3. "n" \in DOMAIN f => f["n"] \in DOMAIN Generated
    BY <2>1, <2>2
  <2>4. f \in Single
    BY <2>2, <2>3 DEF Single
  <2> QED
    BY <2>1, <2>4 DEF f
<1> QED
  BY <1>1 DEF AllConfigs, OneConfig, Note

(* stop_agent moves the mailbox; an agent removed has no messages. *)
LEMMA StoppedProperty ==
    ASSUME StateInv, NEW a \in Agents, Stopped(a) \/ Removed(a)
    PROVE  /\ queue' \in [Agents -> Seq(Note)] /\ queue'[a] = << >>
           /\ leftover' \in [Agents -> Seq(Seq(Note) \ {<< >>})]
           /\ running' = running \ {a}
           /\ Removed(a) => leftover'[a] = << >>
           /\ \A b \in Agents : b # a => queue'[b] = queue[b] /\ leftover'[b] = leftover[b]
<1>1. /\ queue \in [Agents -> Seq(Note)]
      /\ leftover \in [Agents -> Seq(Seq(Note) \ {<< >>})]
  BY DEF StateInv, CfgType
<1> DEFINE T == Seq(Note) \ {<< >>}
           s == IF queue[a] = << >> THEN leftover[a] ELSE Append(leftover[a], queue[a])
<1>2. s \in Seq(T) /\ << >> \in Seq(T)
  <2>1. queue[a] # << >> => queue[a] \in T
    BY <1>1
  <2>2. leftover[a] \in Seq(T)
    BY <1>1
  <2> HIDE DEF T
  <2> QED
    BY <2>1, <2>2
<1>3. << >> \in Seq(Note)
  OBVIOUS
<1>4. CASE Stopped(a)
  <2>1. /\ running' = running \ {a} /\ queue' = [queue EXCEPT ![a] = << >>]
        /\ leftover' = [leftover EXCEPT ![a] = s]
    BY <1>4 DEF Stopped
  <2>2. Removed(a) => leftover'[a] = << >>
    BY <1>1 DEF Removed
  <2> HIDE DEF s
  <2> QED
    BY <1>1, <1>2, <1>3, <2>1, <2>2
<1>5. CASE Removed(a)
  <2>1. /\ running' = running \ {a} /\ queue' = [queue EXCEPT ![a] = << >>]
        /\ leftover' = [leftover EXCEPT ![a] = << >>]
    BY <1>5 DEF Removed
  <2> QED
    BY <1>1, <1>2, <1>3, <2>1
<1> QED
  BY <1>4, <1>5

(* A client merges what it asked for into the configs it read. *)
LEMMA MergeProperty ==
    ASSUME StateInv, NEW a \in alive, NEW p \in Asked, ValidKeys(a, p)
    PROVE  /\ DOMAIN p \subseteq Keys
           /\ Over(p, configs[a]) \in WellFormed
           /\ \A made : a \in made => /\ CallOk(Calls("set", a, p, Over(p, configs[a])), made)
                                      /\ CallOk(Calls("update", a, p, NoConfigs), made)
           /\ Calls("set", a, p, Over(p, configs[a])) \in Call
           /\ Calls("update", a, p, NoConfigs) \in Call
<1>1. a \in Agents /\ a \in created /\ Exact(configs[a]) /\ configs[a] \in WellFormed
  BY DEF StateInv, CfgType, AgentOk, Exact
<1>2. DOMAIN p \subseteq DOMAIN configs[a] /\ DOMAIN configs[a] \subseteq Keys
  BY <1>1, WellFormedElim DEF ValidKeys
<1>3. DOMAIN p \subseteq Keys
  BY <1>2
<1> DEFINE g == Over(p, configs[a])
<1>4. /\ g \in WellFormed
      /\ DOMAIN g = DOMAIN p \cup DOMAIN configs[a]
      /\ \A k \in DOMAIN p : g[k] = p[k]
  <2>1. /\ \A k \in DOMAIN p : p[k] \in Val
        /\ "n" \in DOMAIN p => p["n"] \in DOMAIN Generated
    BY AskedProperty
  <2> QED
    BY <1>1, <1>3, <2>1, OverProperty
<1> HIDE DEF g
<1>5. \A made : a \in made => /\ CallOk(Calls("set", a, p, g), made)
                              /\ CallOk(Calls("update", a, p, NoConfigs), made)
  BY <1>3, <1>4 DEF CallOk, Calls
<1>6. Calls("set", a, p, g) \in Call /\ Calls("update", a, p, NoConfigs) \in Call
  BY <1>1, <1>4 DEF Call, Calls
<1> QED
  BY <1>3, <1>4, <1>5, <1>6 DEF g

(* update_agent_spec sets what was asked for, and leaves the rest. *)
LEMMA UpdatedProperty ==
    ASSUME NEW f, Exact(f), NEW p \in Asked, DOMAIN p \subseteq Keys
    PROVE  /\ Exact(Updated(f, p))
           /\ DOMAIN Updated(f, p) \subseteq DOMAIN p \cup DOMAIN f \cup NumberedKeys
           /\ \A k \in DOMAIN Declared : Updated(f, p)[k] = IF k \in DOMAIN p THEN p[k] ELSE f[k]
<1> DEFINE g == Over(p, f)
<1>1. f \in WellFormed /\ DOMAIN Declared \subseteq DOMAIN f
  BY WellFormedElim DEF Exact
<1>2. /\ g \in WellFormed /\ DOMAIN g = DOMAIN p \cup DOMAIN f
      /\ \A k \in DOMAIN p : g[k] = p[k]
      /\ \A k \in DOMAIN f \ DOMAIN p : g[k] = f[k]
  <2>1. /\ \A k \in DOMAIN p : p[k] \in Val
        /\ "n" \in DOMAIN p => p["n"] \in DOMAIN Generated
    BY AskedProperty
  <2> QED
    BY <1>1, <2>1, OverProperty
<1>3. Updated(f, p) = Rebuild(g)
  BY DEF Updated
<1> HIDE DEF g
<1>4. /\ Exact(Rebuild(g)) /\ DOMAIN Rebuild(g) \subseteq DOMAIN g \cup NumberedKeys
      /\ \A k \in DOMAIN Declared : Rebuild(g)[k] = g[k]
  BY <1>2, RebuildProperty
<1> QED
  BY <1>1, <1>2, <1>3, <1>4

(* The history of an agent that was made of cfg. *)
LEMMA WrittenProperty ==
    ASSUME NEW cfg, NEW f \in [DOMAIN Declared -> Val], \A k \in DOMAIN cfg : cfg[k] \in Val
    PROVE  /\ Over(OnlyKeys(cfg, DOMAIN Declared), f) \in [DOMAIN Declared -> Val]
           /\ \A k \in DOMAIN Declared :
                 Over(OnlyKeys(cfg, DOMAIN Declared), f)[k] = IF k \in DOMAIN cfg THEN cfg[k] ELSE f[k]
  BY DEF Over, OnlyKeys

(* The specs that add_agent and a preset file make agents from. *)
LEMMA SpecProperty ==
    /\ \A p \in Patches :
          LET spec == Over(OnlyKeys(p, DOMAIN Declared), Declared) IN
          /\ DOMAIN spec = DOMAIN Declared
          /\ \A k \in DOMAIN Declared : spec[k] = IF k \in DOMAIN p THEN p[k] ELSE Declared[k]
          /\ \A k \in DOMAIN spec : spec[k] \in Val
          /\ spec["n"] \in DOMAIN Generated
    /\ \A cfg \in OldSpecs :
          /\ DOMAIN cfg \subseteq DOMAIN Declared \cup DOMAIN Parked \cup ParkedKeys
          /\ \A k \in DOMAIN cfg : cfg[k] \in Val
          /\ "n" \in DOMAIN cfg => cfg["n"] \in DOMAIN Generated
<1>1. ASSUME NEW p \in Patches
      PROVE  LET spec == Over(OnlyKeys(p, DOMAIN Declared), Declared) IN
             /\ DOMAIN spec = DOMAIN Declared
             /\ \A k \in DOMAIN Declared : spec[k] = IF k \in DOMAIN p THEN p[k] ELSE Declared[k]
             /\ \A k \in DOMAIN spec : spec[k] \in Val
             /\ spec["n"] \in DOMAIN Generated
  <2> DEFINE spec == Over(OnlyKeys(p, DOMAIN Declared), Declared)
  <2>1. /\ DOMAIN spec = DOMAIN Declared
        /\ \A k \in DOMAIN Declared : spec[k] = IF k \in DOMAIN p THEN p[k] ELSE Declared[k]
    BY DEF Over, OnlyKeys
  <2>2. (\A k \in DOMAIN p : p[k] \in Val) /\ ("n" \in DOMAIN p => p["n"] \in DOMAIN Generated)
    BY KeyFacts, AgentConfigsAssumption
  <2> HIDE DEF spec
  <2>3. (\A k \in DOMAIN spec : spec[k] \in Val) /\ spec["n"] \in DOMAIN Generated
    BY <2>1, <2>2, KeyFacts, AgentConfigsAssumption
  <2> QED
    BY <2>1, <2>3 DEF spec
<1>2. \A cfg \in OldSpecs :
          /\ DOMAIN cfg \subseteq DOMAIN Declared \cup DOMAIN Parked \cup ParkedKeys
          /\ \A k \in DOMAIN cfg : cfg[k] \in Val
          /\ "n" \in DOMAIN cfg => cfg["n"] \in DOMAIN Generated
  BY KeyFacts, AgentConfigsAssumption
<1> QED
  BY <1>1, <1>2

(* What every state has, in the form the steps use it. *)
LEMMA StateFacts ==
    ASSUME StateInv
    PROVE  /\ created \subseteq Agents /\ alive \subseteq created /\ running \subseteq alive
           /\ rejected \subseteq created /\ rejected \cap alive = {}
           /\ configs \in [Agents -> WellFormed \cup {NoConfigs}]
           /\ queue \in [Agents -> Seq(Note)]
           /\ leftover \in [Agents -> Seq(Seq(Note) \ {<< >>})]
           /\ client \in [Clients -> Call]
           /\ written \in [Agents -> [DOMAIN Declared -> Val]]
           /\ raced \in [Agents -> SUBSET DOMAIN Declared]
           /\ strays \in [Agents -> SUBSET (Routed \ Named)]
           /\ \A c \in Clients : CallOk(client[c], created)
           /\ \A c \in Clients : client[c].agent \in Agents /\ client[c].patch \in Asked
           /\ \A a \in Agents : AgentOk(a)
           /\ \A a \in created : Exact(configs[a])
           /\ \A a \in Agents \ created : queue[a] = << >> /\ leftover[a] = << >>
<1>1. \A call \in Call : call.agent \in Agents /\ call.patch \in Asked
  BY DEF Call
<1> QED
  BY <1>1 DEF StateInv, CfgType, AgentOk

(* The tools of clients keep agents and calls as they should be. *)
LEMMA ClientStateStep ==
    ASSUME StateInv, NEW c \in Clients,
           \/ SetWrite(c) \/ UpdateWrite(c) \/ AddCheck(c) \/ AddRollback(c)
           \/ \E a \in Agents, p \in Patches : SetRead(c, a, p) \/ UpdateRead(c, a, p) \/ AddAgent(c, a, p)
    PROVE  StateInv'
<1> USE StateFacts
<1>idle. ASSUME client' = [client EXCEPT ![c] = IdleClient], created \subseteq created'
         PROVE  client' \in [Clients -> Call] /\ \A d \in Clients : CallOk(client'[d], created')
  BY <1>idle, IdleCall, CallFrame
<1>asked. Patches \subseteq Asked /\ NoConfigs \in Asked
  BY DEF Asked
<1>same. ASSUME UNCHANGED <<agentVars, rejected, written, raced, strays>>,
                client' \in [Clients -> Call], \A d \in Clients : CallOk(client'[d], created')
         PROVE  StateInv'
  BY <1>same DEF StateInv, CfgType, AgentOk, agentVars
<1>1. CASE SetWrite(c)
  <2>a. PICK a \in Agents : a = client[c].agent
    OBVIOUS
  <2>1. CASE a \notin alive
    BY <1>1, <2>1, <2>a, <1>idle, <1>same DEF SetWrite, agentVars
  <2>2. CASE a \in alive
    <3>1. /\ Put(a, AllConfigs(client[c].configs))
          /\ Wrote(a, client[c].patch, client[c].configs)
          /\ client' = [client EXCEPT ![c] = IdleClient]
          /\ UNCHANGED <<created, alive, running, rejected, strays>>
          /\ client[c].pc = "set"
      BY <1>1, <2>2, <2>a DEF SetWrite
    <3>2. AllConfigs(client[c].configs) \in Note
      BY <3>1, NoteProperty DEF CallOk
    <3>3. \A k \in DOMAIN client[c].patch : client[c].patch[k] \in Val
      BY AskedProperty
    <3>4. /\ configs' \in [Agents -> WellFormed \cup {NoConfigs}]
          /\ queue' \in [Agents -> Seq(Note)]
          /\ leftover' \in [Agents -> Seq(Seq(Note) \ {<< >>})]
          /\ Exact(configs'[a])
          /\ a \notin running => queue'[a] = << >>
          /\ \A b \in Agents : b # a => /\ configs'[b] = configs[b] /\ queue'[b] = queue[b]
                                         /\ leftover'[b] = leftover[b]
      BY <2>2, <3>1, <3>2, PutProperty
    <3>5. /\ written' \in [Agents -> [DOMAIN Declared -> Val]]
          /\ raced' \in [Agents -> SUBSET DOMAIN Declared]
          /\ \A b \in Agents : b # a => written'[b] = written[b]
      BY <2>2, <3>1, <3>3, WroteProperty
    <3>6. client' \in [Clients -> Call] /\ \A d \in Clients : CallOk(client'[d], created')
      BY <3>1, <1>idle
    <3>7. AgentOk(a)'
      BY <2>2, <3>1, <3>4 DEF AgentOk
    <3>8. \A b \in Agents : AgentOk(b)'
      BY <2>2, <3>1, <3>4, <3>5, <3>7, AgentFrame
    <3> QED
      BY <3>1, <3>4, <3>5, <3>6, <3>8 DEF StateInv, CfgType
  <2> QED
    BY <2>1, <2>2
<1>2. CASE UpdateWrite(c)
  <2>a. PICK a \in Agents : a = client[c].agent
    OBVIOUS
  <2> DEFINE p == client[c].patch
             u == Updated(configs[a], p)
             w == Over(OnlyKeys(p, DOMAIN Declared), written[a])
             r == (raced[a] \ DOMAIN p) \cup (IF Settled(a) THEN {} ELSE DOMAIN Declared)
  <2>1. CASE a \notin alive
    BY <1>2, <2>1, <2>a, <1>idle, <1>same DEF UpdateWrite, agentVars
  <2>2. CASE a \in alive
    <3>1. /\ configs' = [configs EXCEPT ![a] = u]
          /\ written' = [written EXCEPT ![a] = w]
          /\ raced' = [raced EXCEPT ![a] = r]
          /\ client' = [client EXCEPT ![c] = IdleClient]
          /\ UNCHANGED <<created, alive, running, queue, leftover, rejected, strays>>
          /\ client[c].pc = "update"
      BY <1>2, <2>2, <2>a DEF UpdateWrite
    <3>2. a \in Agents /\ a \in created /\ p \in Asked /\ DOMAIN p \subseteq Keys
      BY <2>2, <2>a, <3>1 DEF CallOk
    <3>3. Exact(u) /\ u \in WellFormed
      BY <3>2, UpdatedProperty DEF Exact
    <3>4. w \in [DOMAIN Declared -> Val]
      <4>1. written[a] \in [DOMAIN Declared -> Val] /\ \A k \in DOMAIN p : p[k] \in Val
        BY <3>2, AskedProperty
      <4> HIDE DEF p
      <4> QED
        BY <4>1, WrittenProperty
    <3>5. r \in SUBSET DOMAIN Declared
      BY <3>2
    <3>6. client' \in [Clients -> Call] /\ \A d \in Clients : CallOk(client'[d], created')
      BY <3>1, <1>idle
    <3> HIDE DEF p, u, w, r
    <3>7. /\ configs' \in [Agents -> WellFormed \cup {NoConfigs}] /\ configs'[a] = u
          /\ written' \in [Agents -> [DOMAIN Declared -> Val]]
          /\ raced' \in [Agents -> SUBSET DOMAIN Declared]
          /\ \A b \in Agents : b # a => configs'[b] = configs[b] /\ written'[b] = written[b]
      BY <3>1, <3>2, <3>3, <3>4, <3>5
    <3>8. AgentOk(a)'
      BY <3>1, <3>2, <3>3, <3>7 DEF AgentOk
    <3>9. \A b \in Agents : AgentOk(b)'
      BY <3>1, <3>2, <3>7, <3>8, AgentFrame
    <3> QED
      BY <3>1, <3>6, <3>7, <3>9 DEF StateInv, CfgType
  <2> QED
    BY <2>1, <2>2
<1>3. CASE AddCheck(c)
  <2> DEFINE a == client[c].agent
             p == client[c].patch
             valid == a \in alive /\ ValidKeys(a, p)
             call == IF valid THEN Calls("set", a, p, Over(p, configs[a]))
                     ELSE Calls("rollback", a, NoConfigs, NoConfigs)
  <2>1. /\ client' = [client EXCEPT ![c] = call] /\ client[c].pc = "check"
        /\ UNCHANGED <<agentVars, rejected, written, raced, strays>>
    BY <1>3 DEF AddCheck
  <2>2. a \in Agents /\ p \in Asked /\ a \in created
    BY <2>1 DEF CallOk
  <2>3. call \in Call /\ CallOk(call, created)
    <3>1. CASE valid
      <4> HIDE DEF a, p
      <4> QED
        BY <3>1, <2>2, MergeProperty
    <3>2. CASE ~valid
      <4>1. call = Calls("rollback", a, NoConfigs, NoConfigs)
        BY <3>2
      <4> HIDE DEF call
      <4> QED
        BY <4>1, <2>2, <1>asked DEF Call, Calls, CallOk
    <3> QED
      BY <3>1, <3>2
  <2>4. created' = created
    BY <2>1 DEF agentVars
  <2> HIDE DEF call
  <2>5. client' \in [Clients -> Call] /\ \A d \in Clients : CallOk(client'[d], created')
    BY <2>1, <2>3, <2>4, CallFrame
  <2> QED
    BY <2>1, <2>5, <1>same
<1>4. CASE AddRollback(c)
  <2>a. PICK a \in Agents : a = client[c].agent
    OBVIOUS
  <2>1. /\ \/ Removed(a) /\ rejected' = rejected \cup {a}
           \/ a \in running /\ Stopped(a) /\ UNCHANGED <<alive, rejected>>
        /\ client' = [client EXCEPT ![c] = IdleClient]
        /\ UNCHANGED <<created, configs, written, raced, strays>>
        /\ client[c].pc = "rollback"
    BY <1>4, <2>a DEF AddRollback
  <2>2. a \in Agents /\ a \in created
    BY <2>1, <2>a DEF CallOk
  <2>3. client' \in [Clients -> Call] /\ \A d \in Clients : CallOk(client'[d], created')
    BY <2>1, <1>idle
  <2>4. /\ queue' \in [Agents -> Seq(Note)] /\ queue'[a] = << >>
        /\ leftover' \in [Agents -> Seq(Seq(Note) \ {<< >>})]
        /\ running' = running \ {a}
        /\ Removed(a) => leftover'[a] = << >>
        /\ \A b \in Agents : b # a => queue'[b] = queue[b] /\ leftover'[b] = leftover[b]
    BY <2>1, <2>2, StoppedProperty
  <2>5. /\ alive' \subseteq alive /\ alive \ {a} \subseteq alive' /\ running' \subseteq alive'
        /\ rejected' \subseteq created' /\ rejected' \cap alive' = {}
        /\ a \notin alive' => leftover'[a] = << >>
    BY <2>1, <2>2, <2>4 DEF Removed
  <2>6. AgentOk(a)'
    BY <2>1, <2>2, <2>4, <2>5 DEF AgentOk
  <2>7. \A b \in Agents : AgentOk(b)'
    BY <2>1, <2>2, <2>4, <2>5, <2>6, AgentFrame
  <2> QED
    BY <2>1, <2>3, <2>4, <2>5, <2>7 DEF StateInv, CfgType
<1>5. ASSUME NEW a \in Agents, NEW p \in Patches, SetRead(c, a, p) \/ UpdateRead(c, a, p)
      PROVE  StateInv'
  <2>1. /\ a \in alive /\ ValidKeys(a, p)
        /\ \/ client' = [client EXCEPT ![c] = Calls("set", a, p, Over(p, configs[a]))]
           \/ client' = [client EXCEPT ![c] = Calls("update", a, p, NoConfigs)]
        /\ UNCHANGED <<agentVars, rejected, written, raced, strays>>
    BY <1>5 DEF SetRead, UpdateRead
  <2>2. created' = created
    BY <2>1 DEF agentVars
  <2>3. /\ Calls("set", a, p, Over(p, configs[a])) \in Call
        /\ Calls("update", a, p, NoConfigs) \in Call
        /\ CallOk(Calls("set", a, p, Over(p, configs[a])), created')
        /\ CallOk(Calls("update", a, p, NoConfigs), created')
    BY <2>1, <2>2, <1>asked, MergeProperty
  <2>4. client' \in [Clients -> Call] /\ \A d \in Clients : CallOk(client'[d], created')
    BY <2>1, <2>2, <2>3, CallFrame
  <2> QED
    BY <2>1, <2>4, <1>same
<1>6. ASSUME NEW a \in Agents, NEW p \in Patches, AddAgent(c, a, p)
      PROVE  StateInv'
  <2> DEFINE deferred == OnlyKeys(p, DOMAIN p \ DOMAIN Declared)
             spec == Over(OnlyKeys(p, DOMAIN Declared), Declared)
             call == IF deferred = NoConfigs THEN IdleClient ELSE Calls("check", a, deferred, NoConfigs)
  <2>1. /\ a \notin created /\ created' = created \cup {a} /\ alive' = alive \cup {a}
        /\ configs' = [configs EXCEPT ![a] = Construct(spec)]
        /\ written' = [written EXCEPT ![a] = Over(OnlyKeys(p, DOMAIN Declared), @)]
        /\ client' = [client EXCEPT ![c] = call]
        /\ UNCHANGED <<running, queue, leftover, rejected, raced, strays>>
    BY <1>6 DEF AddAgent
  <2>2. call \in Call /\ CallOk(call, created')
    <3>1. deferred \in Asked
      BY DEF Asked
    <3>2. CASE deferred = NoConfigs
      BY <3>2, IdleCall
    <3>3. CASE deferred # NoConfigs
      <4>1. call = Calls("check", a, deferred, NoConfigs) /\ a \in created'
        BY <3>3, <2>1
      <4> HIDE DEF call, deferred
      <4> QED
        BY <4>1, <3>1 DEF Call, Calls, CallOk
    <3> QED
      BY <3>2, <3>3
  <2> HIDE DEF call
  <2>3. client' \in [Clients -> Call] /\ \A d \in Clients : CallOk(client'[d], created')
    BY <2>1, <2>2, CallFrame
  <2>4. /\ DOMAIN spec = DOMAIN Declared
        /\ \A k \in DOMAIN Declared : spec[k] = IF k \in DOMAIN p THEN p[k] ELSE Declared[k]
        /\ \A k \in DOMAIN spec : spec[k] \in Val
        /\ spec["n"] \in DOMAIN Generated
        /\ \A k \in DOMAIN p : p[k] \in Val
    BY SpecProperty, KeyFacts
  <2>s. /\ DOMAIN spec \subseteq DOMAIN Declared \cup DOMAIN Parked \cup ParkedKeys
        /\ "n" \in DOMAIN spec => spec["n"] \in DOMAIN Generated
        /\ \A k \in DOMAIN Declared :
              (IF k \in DOMAIN spec THEN spec[k] ELSE Declared[k])
                 = (IF k \in DOMAIN p THEN p[k] ELSE Declared[k])
    BY <2>4
  <2> DEFINE C == Construct(spec)
  <2>c. /\ Exact(C)
        /\ \A k \in DOMAIN Declared : C[k] = IF k \in DOMAIN p THEN p[k] ELSE Declared[k]
    <3> HIDE DEF spec
    <3> QED
      BY <2>4, <2>s, ConstructProperty
  <2> DEFINE w == Over(OnlyKeys(p, DOMAIN Declared), written[a])
  <2>w. w \in [DOMAIN Declared -> Val]
    BY <2>4, WrittenProperty
  <2>e. configs' = [configs EXCEPT ![a] = C] /\ written' = [written EXCEPT ![a] = w]
    BY <2>1
  <2>x. C \in WellFormed
    BY <2>c DEF Exact
  <2> HIDE DEF spec, C, w
  <2>5. /\ configs' \in [Agents -> WellFormed \cup {NoConfigs}] /\ configs'[a] = C
        /\ written' \in [Agents -> [DOMAIN Declared -> Val]]
        /\ \A b \in Agents : b # a => configs'[b] = configs[b] /\ written'[b] = written[b]
    BY <2>e, <2>w, <2>x
  <2>6. AgentOk(a)'
    BY <2>1, <2>5, <2>c DEF AgentOk
  <2>7. \A b \in Agents : AgentOk(b)'
    BY <2>1, <2>5, <2>6, AgentFrame
  <2>8. /\ created' \subseteq Agents /\ alive' \subseteq created' /\ running' \subseteq alive'
        /\ rejected' \subseteq created' /\ rejected' \cap alive' = {}
    BY <2>1
  <2> QED
    BY <2>1, <2>3, <2>5, <2>7, <2>8 DEF StateInv, CfgType
<1> QED
  BY <1>1, <1>2, <1>3, <1>4, <1>5, <1>6

(* The loops of an agent take messages; it is started, stopped, removed,   *)
(* sent a config or made from a file.                                      *)
LEMMA AgentStateStep ==
    ASSUME StateInv, NEW a \in Agents,
           \/ Receive(a) \/ RemoveAgent(a) \/ Start(a) \/ Stop(a)
           \/ \E i \in DOMAIN leftover[a] : ReceiveLeftover(a, i)
           \/ \E k \in Routed : \E v \in RoutedValues(k) : RouteConfig(a, k, v)
           \/ \E cfg \in OldSpecs : OpenOld(a, cfg)
    PROVE  StateInv'
<1> USE StateFacts
<1>calls. ASSUME UNCHANGED client, created \subseteq created'
          PROVE  client' \in [Clients -> Call] /\ \A d \in Clients : CallOk(client'[d], created')
  BY <1>calls DEF CallOk
<1> DEFINE T == Seq(Note) \ {<< >>}
<1>1. CASE Receive(a)
  <2> DEFINE m == Head(queue[a])
             g == Applied(a, m)
  <2>1. /\ a \in running /\ queue[a] # << >>
        /\ configs' = [configs EXCEPT ![a] = g] /\ queue' = [queue EXCEPT ![a] = Tail(queue[a])]
        /\ UNCHANGED <<created, alive, running, leftover, client, rejected, written, raced, strays>>
    BY <1>1 DEF Receive
  <2>2. m \in Note /\ Tail(queue[a]) \in Seq(Note)
    BY <2>1
  <2>3. Exact(g) /\ g \in WellFormed
    BY <2>1, <2>2, AppliedProperty DEF Exact
  <2> HIDE DEF g
  <2>4. /\ configs' \in [Agents -> WellFormed \cup {NoConfigs}] /\ configs'[a] = g
        /\ queue' \in [Agents -> Seq(Note)]
        /\ \A b \in Agents : b # a => configs'[b] = configs[b] /\ queue'[b] = queue[b]
    BY <2>1, <2>2, <2>3
  <2>5. AgentOk(a)'
    BY <2>1, <2>3, <2>4 DEF AgentOk
  <2>6. \A b \in Agents : AgentOk(b)'
    BY <2>1, <2>4, <2>5, AgentFrame
  <2> QED
    BY <2>1, <2>4, <2>6, <1>calls DEF StateInv, CfgType
<1>2. CASE RemoveAgent(a) \/ Stop(a)
  <2>1. /\ \/ a \in alive /\ Removed(a)
           \/ a \in running /\ Stopped(a) /\ UNCHANGED alive
        /\ UNCHANGED <<created, configs, client, rejected, written, raced, strays>>
    BY <1>2 DEF RemoveAgent, Stop
  <2>2. /\ queue' \in [Agents -> Seq(Note)] /\ queue'[a] = << >>
        /\ leftover' \in [Agents -> Seq(Seq(Note) \ {<< >>})]
        /\ running' = running \ {a}
        /\ Removed(a) => leftover'[a] = << >>
        /\ \A b \in Agents : b # a => queue'[b] = queue[b] /\ leftover'[b] = leftover[b]
    BY <2>1, StoppedProperty
  <2>3. /\ alive' \subseteq alive /\ alive \ {a} \subseteq alive' /\ running' \subseteq alive'
        /\ a \notin alive' => leftover'[a] = << >>
        /\ a \in created
    BY <2>1, <2>2 DEF Removed
  <2>4. AgentOk(a)'
    BY <2>1, <2>2, <2>3 DEF AgentOk
  <2>5. \A b \in Agents : AgentOk(b)'
    BY <2>1, <2>2, <2>3, <2>4, AgentFrame
  <2>6. rejected' \cap alive' = {} /\ alive' \subseteq created' /\ rejected' \subseteq created'
    BY <2>1, <2>3
  <2> QED
    BY <2>1, <2>2, <2>3, <2>5, <2>6, <1>calls DEF StateInv, CfgType
<1>3. CASE Start(a)
  <2>1. /\ a \in alive \ running /\ running' = running \cup {a}
        /\ UNCHANGED <<created, alive, configs, queue, leftover, client, rejected, written, raced, strays>>
    BY <1>3 DEF Start
  <2>2. AgentOk(a)'
    BY <2>1 DEF AgentOk
  <2>3. \A b \in Agents : AgentOk(b)'
    BY <2>1, <2>2, AgentFrame
  <2> QED
    BY <2>1, <2>3, <1>calls DEF StateInv, CfgType
<1>4. ASSUME NEW i \in DOMAIN leftover[a], ReceiveLeftover(a, i) PROVE StateInv'
  <2> DEFINE s == leftover[a]
             m == Head(s[i])
             g == Applied(a, m)
             t == IF Len(s[i]) = 1 THEN RemoveAt(s, i) ELSE [s EXCEPT ![i] = Tail(s[i])]
  <2>1. /\ configs' = [configs EXCEPT ![a] = g] /\ leftover' = [leftover EXCEPT ![a] = t]
        /\ UNCHANGED <<created, alive, running, queue, client, rejected, written, raced, strays>>
    BY <1>4 DEF ReceiveLeftover
  <2>2. s \in Seq(T) /\ i \in 1 .. Len(s) /\ s # << >>
    <3>1. s \in Seq(T)
      OBVIOUS
    <3> QED
      BY <3>1
  <2>3. s[i] \in Seq(Note) /\ s[i] # << >>
    <3>1. s[i] \in T
      BY <2>2, ElementOfSeq
    <3> QED
      BY <3>1
  <2>4. a \in alive /\ a \in created /\ Exact(configs[a])
    BY <2>2 DEF AgentOk
  <2>5. m \in Note
    BY <2>3
  <2>6. Exact(g) /\ g \in WellFormed
    BY <2>4, <2>5, AppliedProperty DEF Exact
  <2>7. t \in Seq(T)
    <3>1. CASE Len(s[i]) = 1
      <4> HIDE DEF T, s
      <4> QED
        BY <3>1, <2>2, RemoveAtProperty
    <3>2. CASE Len(s[i]) # 1
      <4>1. Tail(s[i]) \in Seq(Note) /\ Len(Tail(s[i])) = Len(s[i]) - 1 /\ Len(s[i]) \in Nat
        BY <2>3
      <4>2. Tail(s[i]) \in T
        <5>1. Len(s[i]) # 0
          BY <2>3
        <5> DEFINE n == Len(s[i])
                   l == Len(Tail(s[i]))
        <5>2. l = n - 1 /\ n \in Nat /\ n # 0 /\ n # 1
          BY <4>1, <3>2, <5>1
        <5> HIDE DEF n, l
        <5>3. l # 0
          BY <5>2
        <5>4. Tail(s[i]) # << >>
          BY <5>3, <4>1, EmptySeq DEF l
        <5> QED
          BY <4>1, <5>4
      <4> HIDE DEF T, s
      <4> QED
        BY <3>2, <4>2, <2>2, ExceptSeq
    <3> QED
      BY <3>1, <3>2
  <2> HIDE DEF g, t
  <2>8. /\ configs' \in [Agents -> WellFormed \cup {NoConfigs}] /\ configs'[a] = g
        /\ leftover' \in [Agents -> Seq(Seq(Note) \ {<< >>})]
        /\ \A b \in Agents : b # a => configs'[b] = configs[b] /\ leftover'[b] = leftover[b]
    BY <2>1, <2>6, <2>7
  <2>9. AgentOk(a)'
    BY <2>1, <2>4, <2>6, <2>8 DEF AgentOk
  <2>10. \A b \in Agents : AgentOk(b)'
    BY <2>1, <2>8, <2>9, AgentFrame
  <2> QED
    BY <2>1, <2>8, <2>10, <1>calls DEF StateInv, CfgType
<1>5. ASSUME NEW k \in Routed, NEW v \in RoutedValues(k), RouteConfig(a, k, v) PROVE StateInv'
  <2> DEFINE m == OneConfig(k, v)
  <2>0. strays' \in [Agents -> SUBSET (Routed \ Named)]
    <3>1. strays' = [strays EXCEPT ![a] = @ \cup ({k} \ Named)]
      BY <1>5 DEF RouteConfig, Named
    <3> QED
      BY <3>1
  <2>1. /\ a \in alive /\ Put(a, m) /\ Wrote(a, m.configs, NoConfigs)
        /\ UNCHANGED <<created, alive, running, client, rejected>>
    BY <1>5 DEF RouteConfig
  <2>2. m \in Note /\ \A j \in DOMAIN m.configs : m.configs[j] \in Val
    BY NoteProperty, KeyFacts
  <2> HIDE DEF m
  <2>3. /\ configs' \in [Agents -> WellFormed \cup {NoConfigs}]
        /\ queue' \in [Agents -> Seq(Note)]
        /\ leftover' \in [Agents -> Seq(Seq(Note) \ {<< >>})]
        /\ Exact(configs'[a])
        /\ a \notin running => queue'[a] = << >>
        /\ \A b \in Agents : b # a => /\ configs'[b] = configs[b] /\ queue'[b] = queue[b]
                                       /\ leftover'[b] = leftover[b]
    BY <2>1, <2>2, PutProperty
  <2>4. /\ written' \in [Agents -> [DOMAIN Declared -> Val]]
        /\ raced' \in [Agents -> SUBSET DOMAIN Declared]
        /\ \A b \in Agents : b # a => written'[b] = written[b]
    BY <2>1, <2>2, WroteProperty
  <2>5. AgentOk(a)'
    BY <2>1, <2>3 DEF AgentOk
  <2>6. \A b \in Agents : AgentOk(b)'
    BY <2>1, <2>3, <2>4, <2>5, AgentFrame
  <2> QED
    BY <2>0, <2>1, <2>3, <2>4, <2>6, <1>calls DEF StateInv, CfgType
<1>6. ASSUME NEW cfg \in OldSpecs, OpenOld(a, cfg) PROVE StateInv'
  <2> DEFINE C == Construct(cfg)
             w == Over(OnlyKeys(cfg, DOMAIN Declared), written[a])
  <2>1. /\ a \notin created /\ created' = created \cup {a} /\ alive' = alive \cup {a}
        /\ configs' = [configs EXCEPT ![a] = C] /\ written' = [written EXCEPT ![a] = w]
        /\ UNCHANGED <<running, queue, leftover, client, rejected, raced, strays>>
    BY <1>6 DEF OpenOld
  <2>2. Exact(C) /\ C \in WellFormed
    BY SpecProperty, ConstructProperty DEF Exact
  <2>3. w \in [DOMAIN Declared -> Val]
    BY SpecProperty, WrittenProperty
  <2> HIDE DEF C, w
  <2>4. /\ configs' \in [Agents -> WellFormed \cup {NoConfigs}] /\ configs'[a] = C
        /\ written' \in [Agents -> [DOMAIN Declared -> Val]]
        /\ \A b \in Agents : b # a => configs'[b] = configs[b] /\ written'[b] = written[b]
    BY <2>1, <2>2, <2>3
  <2>5. AgentOk(a)'
    BY <2>1, <2>2, <2>4 DEF AgentOk
  <2>6. \A b \in Agents : AgentOk(b)'
    BY <2>1, <2>4, <2>5, AgentFrame
  <2>7. /\ created' \subseteq Agents /\ alive' \subseteq created' /\ running' \subseteq alive'
        /\ rejected' \subseteq created' /\ rejected' \cap alive' = {}
    BY <2>1
  <2> QED
    BY <2>1, <2>4, <2>6, <2>7, <1>calls DEF StateInv, CfgType
<1> QED
  BY <1>1, <1>2, <1>3, <1>4, <1>5, <1>6

(* No agent exists in the beginning. *)
LEMMA StateInit == CfgInit => StateInv
<1> SUFFICES ASSUME CfgInit PROVE StateInv
  OBVIOUS
<1>1. client \in [Clients -> Call] /\ \A c \in Clients : CallOk(client[c], created)
  BY IdleCall DEF CfgInit
<1>2. written \in [Agents -> [DOMAIN Declared -> Val]]
  BY KeyFacts, AgentConfigsAssumption DEF CfgInit
<1>3. /\ queue \in [Agents -> Seq(Note)] /\ leftover \in [Agents -> Seq(Seq(Note) \ {<< >>})]
      /\ configs \in [Agents -> WellFormed \cup {NoConfigs}]
      /\ raced \in [Agents -> SUBSET DOMAIN Declared]
  BY DEF CfgInit
<1>4. \A a \in Agents : AgentOk(a)
  BY DEF CfgInit, AgentOk
<1> QED
  BY <1>1, <1>2, <1>3, <1>4 DEF CfgInit, StateInv, CfgType

(* Every step of a client or an agent keeps the states well formed.       *)
LEMMA StateStep == StateInv /\ [CfgNext]_cfgVars => StateInv'
<1> SUFFICES ASSUME StateInv, [CfgNext]_cfgVars PROVE StateInv'
  OBVIOUS
<1>1. CASE UNCHANGED cfgVars
  BY <1>1 DEF cfgVars, agentVars, StateInv, CfgType, AgentOk
<1>2. CASE CfgNext
  BY <1>2, ClientStateStep, AgentStateStep DEF CfgNext
<1> QED
  BY <1>1, <1>2

-----------------------------------------------------------------------------
(* The keys that an agent, the messages on their way to it and the calls   *)
(* of clients about it may have: those that its definition and its numbers *)
(* stand for, and those that ports brought it.                             *)
Own(a) == Named \cup strays[a]
Within(K) == {m \in Note : DOMAIN m.configs \subseteq K}
StrayAgent(a, K) ==
    /\ DOMAIN configs[a] \subseteq K
    /\ queue[a] \in Seq(Within(K))
    /\ leftover[a] \in Seq(Seq(Within(K)))
StrayCall(call, K) ==
    /\ DOMAIN call.configs \subseteq K
    /\ call.pc \in {"set", "update"} => DOMAIN call.patch \subseteq K
StrayInv ==
    /\ \A a \in Agents : StrayAgent(a, Own(a))
    /\ \A c \in Clients : StrayCall(client[c], Own(client[c].agent))

(* More keys allow more. *)
LEMMA WithinGrows ==
    ASSUME NEW K, NEW L, K \subseteq L
    PROVE  /\ \A q \in Seq(Within(K)) : q \in Seq(Within(L))
           /\ \A l \in Seq(Seq(Within(K))) : l \in Seq(Seq(Within(L)))
<1>1. Within(K) \subseteq Within(L)
  BY DEF Within
<1>2. ASSUME NEW S, NEW T, S \subseteq T PROVE \A q \in Seq(S) : q \in Seq(T)
  BY <1>2
<1> HIDE DEF Within
<1>3. \A q \in Seq(Within(K)) : q \in Seq(Within(L))
  BY <1>1, <1>2
<1>4. Seq(Within(K)) \subseteq Seq(Within(L))
  BY <1>3
<1> QED
  BY <1>2, <1>3, <1>4

(* A write of keys that are allowed. *)
LEMMA PutStrays ==
    ASSUME StateInv, NEW a \in alive, NEW m \in Note, Put(a, m), NEW K, Named \subseteq K,
           StrayAgent(a, K), DOMAIN m.configs \subseteq K
    PROVE  StrayAgent(a, K)'
<1>1. /\ a \in Agents /\ Exact(configs[a]) /\ configs \in [Agents -> WellFormed \cup {NoConfigs}]
      /\ queue \in [Agents -> Seq(Note)]
      /\ leftover \in [Agents -> Seq(Seq(Note) \ {<< >>})]
  BY StateFacts
<1> DEFINE N == Within(K)
<1>2. /\ DOMAIN configs[a] \subseteq K /\ queue[a] \in Seq(N) /\ leftover[a] \in Seq(Seq(N))
  BY DEF StrayAgent
<1>3. m \in N
  BY DEF Within
<1> HIDE DEF N
<1> SUFFICES DOMAIN configs'[a] \subseteq K /\ queue'[a] \in Seq(N) /\ leftover'[a] \in Seq(Seq(N))
  BY DEF StrayAgent, N
<1>4. CASE queue' = [queue EXCEPT ![a] = Append(@, m)] /\ UNCHANGED <<configs, leftover>>
  <2>1. Append(queue[a], m) \in Seq(N)
    BY <1>2, <1>3
  <2> QED
    BY <1>1, <1>2, <1>4, <2>1
<1>5. CASE configs' = [configs EXCEPT ![a] = Applied(a, m)] /\ UNCHANGED <<queue, leftover>>
  <2>1. DOMAIN Applied(a, m) \subseteq K
    BY <1>1, <1>2, AppliedProperty DEF Named
  <2> QED
    BY <1>1, <1>2, <1>5, <2>1
<1>6. CASE /\ leftover[a] # << >>
           /\ leftover' = [leftover EXCEPT ![a][Len(leftover[a])] = Append(@, m)]
           /\ UNCHANGED <<configs, queue>>
  <2> DEFINE s == leftover[a]
             x == Append(s[Len(s)], m)
             t == [s EXCEPT ![Len(s)] = x]
  <2>1. s \in Seq(Seq(N)) /\ Len(s) \in 1 .. Len(s)
    BY <1>2, <1>6
  <2>2. s[Len(s)] \in Seq(N)
    BY <2>1, ElementOfSeq
  <2>3. x \in Seq(N)
    BY <1>3, <2>2
  <2>4. leftover'[a] = t
    BY <1>1, <1>6
  <2> HIDE DEF s, x
  <2>5. t \in Seq(Seq(N))
    BY <2>1, <2>3, ExceptSeq
  <2> QED
    BY <1>2, <1>6, <2>4, <2>5
<1> QED
  BY <1>4, <1>5, <1>6 DEF Put

(* A step moves one client's call on, ... *)
LEMMA StrayClients ==
    ASSUME StateInv, StrayInv, NEW c \in Clients, NEW call \in Call,
           client' = [client EXCEPT ![c] = call], StrayCall(call, Own(call.agent))
    PROVE  \A d \in Clients : client'[d].agent \in Agents /\ StrayCall(client'[d], Own(client'[d].agent))
<1>1. client \in [Clients -> Call] /\ \A d \in Clients : client[d].agent \in Agents
  BY StateFacts
<1>2. client'[c] = call /\ \A d \in Clients : d # c => client'[d] = client[d]
  BY <1>1
<1>3. call.agent \in Agents
  BY DEF Call
<1> QED
  BY <1>1, <1>2, <1>3 DEF StrayInv

(* ... and changes one agent, which may get more keys. *)
LEMMA StrayOne ==
    ASSUME StateInv, StrayInv, NEW a \in Agents, StrayAgent(a, Own(a))',
           \A b \in Agents : b # a =>
              /\ configs'[b] = configs[b] /\ queue'[b] = queue[b] /\ leftover'[b] = leftover[b]
              /\ strays'[b] = strays[b],
           strays[a] \subseteq strays'[a],
           \A c \in Clients : client'[c].agent \in Agents /\ StrayCall(client'[c], Own(client'[c].agent))
    PROVE  StrayInv'
<1>1. ASSUME NEW b \in Agents PROVE StrayAgent(b, Own(b))'
  <2>1. CASE b = a
    BY <2>1
  <2>2. CASE b # a
    BY <2>2 DEF StrayInv, StrayAgent, Own
  <2> QED
    BY <2>1, <2>2
<1>2. ASSUME NEW c \in Clients PROVE StrayCall(client[c], Own(client[c].agent))'
  <2>1. client'[c].agent \in Agents /\ StrayCall(client'[c], Named \cup strays[client'[c].agent])
    BY DEF Own
  <2>2. strays[client'[c].agent] \subseteq strays'[client'[c].agent]
    BY <2>1
  <2>3. StrayCall(client'[c], Named \cup strays'[client'[c].agent])
    BY <2>1, <2>2 DEF StrayCall
  <2> QED
    BY <2>3 DEF StrayCall, Own
<1> QED
  BY <1>1, <1>2 DEF StrayInv

(* The calls of clients that read, write and add. *)
LEMMA StrayCalls ==
    /\ \A K : StrayCall(IdleClient, K)
    /\ \A K, a, p : /\ StrayCall(Calls("check", a, p, NoConfigs), K)
                    /\ StrayCall(Calls("rollback", a, p, NoConfigs), K)
    /\ \A K, a, p : DOMAIN p \subseteq K => StrayCall(Calls("update", a, p, NoConfigs), K)
    /\ \A K, a, p, f : (DOMAIN p \subseteq K /\ DOMAIN f \subseteq K)
                            => StrayCall(Calls("set", a, p, Over(p, f)), K)
<1>1. DOMAIN NoConfigs = {}
  BY DEF NoConfigs
<1>2. \A p, f : DOMAIN Over(p, f) = DOMAIN p \cup DOMAIN f
  BY DEF Over
<1> QED
  BY <1>1, <1>2 DEF StrayCall, IdleClient, Calls

(* The mailbox of an agent that is stopped or removed. *)
LEMMA StrayStopped ==
    ASSUME StateInv, NEW a \in Agents, NEW K, StrayAgent(a, K), Stopped(a) \/ Removed(a), UNCHANGED configs
    PROVE  StrayAgent(a, K)'
<1> DEFINE N == Within(K)
<1>1. /\ queue \in [Agents -> Seq(Note)]
      /\ leftover \in [Agents -> Seq(Seq(Note) \ {<< >>})]
  BY StateFacts
<1>2. /\ DOMAIN configs[a] \subseteq K /\ queue[a] \in Seq(N) /\ leftover[a] \in Seq(Seq(N))
  BY DEF StrayAgent
<1>3. << >> \in Seq(N) /\ << >> \in Seq(Seq(N)) /\ Append(leftover[a], queue[a]) \in Seq(Seq(N))
  BY <1>2
<1>4. /\ queue'[a] = << >>
      /\ leftover'[a] \in {<< >>, leftover[a], Append(leftover[a], queue[a])}
  BY <1>1 DEF Stopped, Removed
<1> HIDE DEF N
<1>5. queue'[a] \in Seq(N) /\ leftover'[a] \in Seq(Seq(N))
  BY <1>2, <1>3, <1>4
<1> QED
  BY <1>2, <1>5 DEF StrayAgent, N

(* A message that an agent takes brings it keys that are its own. *)
LEMMA StrayReceived ==
    ASSUME StateInv, StrayInv, NEW a \in Agents,
           Receive(a) \/ \E i \in DOMAIN leftover[a] : ReceiveLeftover(a, i)
    PROVE  StrayAgent(a, Own(a))'
<1> DEFINE K == Own(a)
           N == Within(K)
<1>1. /\ queue \in [Agents -> Seq(Note)]
      /\ configs \in [Agents -> WellFormed \cup {NoConfigs}]
      /\ leftover \in [Agents -> Seq(Seq(Note) \ {<< >>})]
      /\ AgentOk(a) /\ running \subseteq created
  BY StateFacts
<1>2. /\ DOMAIN configs[a] \subseteq K /\ queue[a] \in Seq(N) /\ leftover[a] \in Seq(Seq(N))
  BY DEF StrayInv, StrayAgent
<1>own. UNCHANGED strays
  BY DEF Receive, ReceiveLeftover
<1>3. ASSUME NEW m \in N, Exact(configs[a]) PROVE DOMAIN Applied(a, m) \subseteq K
  <2>1. m \in Note /\ DOMAIN m.configs \subseteq K
    BY <1>3 DEF Within
  <2>2. NumberedKeys \subseteq K
    BY DEF Own, Named
  <2> QED
    BY <1>2, <1>3, <2>1, <2>2, AppliedProperty
<1> HIDE DEF K, N
<1>4. SUFFICES DOMAIN configs'[a] \subseteq K /\ queue'[a] \in Seq(N) /\ leftover'[a] \in Seq(Seq(N))
  BY <1>own DEF StrayAgent, Own, K, N
<1>5. CASE Receive(a)
  <2>1. /\ a \in running /\ queue[a] # << >>
        /\ configs' = [configs EXCEPT ![a] = Applied(a, Head(queue[a]))]
        /\ queue' = [queue EXCEPT ![a] = Tail(queue[a])] /\ UNCHANGED leftover
    BY <1>5 DEF Receive
  <2>2. Head(queue[a]) \in N /\ Tail(queue[a]) \in Seq(N)
    BY <1>2, <2>1
  <2>3. Exact(configs[a])
    BY <2>1, <1>1 DEF AgentOk
  <2> QED
    BY <1>1, <1>2, <1>3, <2>1, <2>2, <2>3
<1>6. ASSUME NEW i \in DOMAIN leftover[a], ReceiveLeftover(a, i)
      PROVE  DOMAIN configs'[a] \subseteq K /\ queue'[a] \in Seq(N) /\ leftover'[a] \in Seq(Seq(N))
  <2> DEFINE l == leftover[a]
             s == l[i]
             t == IF Len(s) = 1 THEN RemoveAt(l, i) ELSE [l EXCEPT ![i] = Tail(s)]
  <2>1. /\ configs' = [configs EXCEPT ![a] = Applied(a, Head(s))]
        /\ leftover' = [leftover EXCEPT ![a] = t] /\ UNCHANGED queue
    BY <1>6 DEF ReceiveLeftover
  <2>2. /\ l \in Seq(Seq(Note) \ {<< >>}) /\ l \in Seq(Seq(N)) /\ i \in 1 .. Len(l)
    BY <1>1, <1>2
  <2>3. s \in Seq(N) /\ s \in Seq(Note) \ {<< >>}
    BY <2>2, ElementOfSeq
  <2>4. s # << >> /\ Head(s) \in N /\ Tail(s) \in Seq(N)
    BY <2>3
  <2>5. Exact(configs[a])
    <3>1. l # << >>
      BY <2>2
    <3>2. a \in created
      BY <3>1, StateFacts
    <3> QED
      BY <3>2, <1>1 DEF AgentOk
  <2>6. t \in Seq(Seq(N))
    <3> HIDE DEF l, s
    <3>1. RemoveAt(l, i) \in Seq(Seq(N))
      BY <2>2, RemoveAtProperty
    <3>2. [l EXCEPT ![i] = Tail(s)] \in Seq(Seq(N))
      BY <2>2, <2>4, ExceptSeq
    <3> QED
      BY <3>1, <3>2
  <2>7. configs'[a] = Applied(a, Head(s)) /\ leftover'[a] = t /\ queue'[a] = queue[a]
    BY <1>1, <2>1
  <2> HIDE DEF s, t, l
  <2> QED
    BY <1>2, <1>3, <2>4, <2>5, <2>6, <2>7
<1> QED
  BY <1>5, <1>6

(* Keys of messages that an agent is given at once. *)
LEMMA StrayPut ==
    ASSUME StateInv, StrayInv, NEW a \in alive, NEW m \in Note, Put(a, m),
           strays[a] \subseteq strays'[a], DOMAIN m.configs \subseteq Named \cup strays'[a]
    PROVE  StrayAgent(a, Own(a))'
<1>1. PICK K : K = Named \cup strays'[a]
  OBVIOUS
<1>2. Named \subseteq K /\ Own(a) \subseteq K /\ DOMAIN m.configs \subseteq K
  BY <1>1 DEF Own
<1>3. a \in Agents
  BY StateFacts
<1>4. StrayAgent(a, Own(a))
  BY <1>3 DEF StrayInv
<1>5. StrayAgent(a, K)
  <2>1. PICK L : L = Own(a)
    OBVIOUS
  <2>2. StrayAgent(a, L) /\ L \subseteq K
    BY <1>2, <1>4, <2>1
  <2> QED
    BY <2>2, WithinGrows DEF StrayAgent
<1>6. StrayAgent(a, K)'
  BY <1>2, <1>5, PutStrays
<1>7. K = Own(a)'
  BY <1>1 DEF Own
<1> QED
  BY <1>6, <1>7

(* No step gives an agent keys that are not its own. *)
LEMMA StrayStep == StateInv /\ StrayInv /\ [CfgNext]_cfgVars => StrayInv'
<1> SUFFICES ASSUME StateInv, StrayInv, [CfgNext]_cfgVars PROVE StrayInv'
  OBVIOUS
<1> USE StateFacts
<1>ok. \A a \in Agents : StrayAgent(a, Own(a))
  BY DEF StrayInv
<1>calls. \A d \in Clients : client[d].agent \in Agents /\ StrayCall(client[d], Own(client[d].agent))
  BY DEF StrayInv
<1>idle. IdleClient \in Call /\ \A K : StrayCall(IdleClient, K)
  BY IdleCall, StrayCalls
<1>keys. \A a \in Agents : DOMAIN configs[a] \subseteq Own(a)
  BY <1>ok DEF StrayAgent
<1>agents. ASSUME UNCHANGED <<configs, queue, leftover, strays>>,
                  \A d \in Clients : client'[d].agent \in Agents /\ StrayCall(client'[d], Own(client'[d].agent))
           PROVE  StrayInv'
  BY <1>agents, <1>ok DEF StrayInv, StrayAgent, StrayCall, Own
<1>new. ASSUME NEW a \in Agents, NEW C, DOMAIN C \subseteq Named,
               configs' = [configs EXCEPT ![a] = C], UNCHANGED <<queue, leftover, strays>>
        PROVE  /\ StrayAgent(a, Own(a))'
               /\ \A b \in Agents : b # a =>
                     /\ configs'[b] = configs[b] /\ queue'[b] = queue[b] /\ leftover'[b] = leftover[b]
                     /\ strays'[b] = strays[b]
               /\ strays[a] \subseteq strays'[a]
  <2>1. configs'[a] = C
    BY <1>new
  <2>2. StrayAgent(a, Own(a))'
    BY <1>new, <1>ok, <2>1 DEF StrayAgent, Own
  <2> QED
    BY <1>new, <2>2
<1>stopped. ASSUME NEW a \in Agents, Stopped(a) \/ Removed(a), UNCHANGED <<configs, strays>>,
                   \A d \in Clients : client'[d].agent \in Agents /\ StrayCall(client'[d], Own(client'[d].agent))
            PROVE  StrayInv'
  <2>1. PICK K : K = Own(a)
    OBVIOUS
  <2>2. StrayAgent(a, K)'
    BY <1>stopped, <1>ok, <2>1, StrayStopped
  <2>3. StrayAgent(a, Own(a))'
    BY <1>stopped, <2>1, <2>2 DEF Own
  <2>4. \A b \in Agents : b # a => /\ configs'[b] = configs[b] /\ queue'[b] = queue[b]
                                   /\ leftover'[b] = leftover[b] /\ strays'[b] = strays[b]
    BY <1>stopped DEF Stopped, Removed
  <2> QED
    BY <1>stopped, <2>3, <2>4, StrayOne
<1>1. ASSUME NEW c \in Clients, SetWrite(c) PROVE StrayInv'
  <2> DEFINE a == client[c].agent
             m == AllConfigs(client[c].configs)
  <2>1. /\ client' = [client EXCEPT ![c] = IdleClient] /\ UNCHANGED strays
        /\ client[c].pc = "set"
        /\ \/ UNCHANGED <<configs, queue, leftover>>
           \/ a \in alive /\ Put(a, m)
    BY <1>1 DEF SetWrite
  <2>2. \A d \in Clients : client'[d].agent \in Agents /\ StrayCall(client'[d], Own(client'[d].agent))
    BY <2>1, <1>idle, StrayClients
  <2>3. CASE a \in alive /\ Put(a, m)
    <3>1. PICK b \in alive : b = a
      BY <2>3
    <3>2. client[c].configs \in WellFormed
      BY <2>1 DEF CallOk
    <3>3. PICK n \in Note : n = m
      BY <3>2, NoteProperty
    <3>4. DOMAIN n.configs \subseteq Named \cup strays'[b]
      BY <1>calls, <2>1, <3>1, <3>3 DEF StrayCall, AllConfigs, Own
    <3>5. StrayAgent(b, Own(b))'
      BY <2>1, <2>3, <3>1, <3>3, <3>4, StrayPut
    <3>6. \A d \in Agents : d # b => /\ configs'[d] = configs[d] /\ queue'[d] = queue[d]
                                     /\ leftover'[d] = leftover[d]
      BY <2>3, <3>1, <3>3, PutProperty
    <3> QED
      BY <2>1, <2>2, <3>5, <3>6, StrayOne
  <2>4. CASE UNCHANGED <<configs, queue, leftover>>
    BY <2>1, <2>2, <2>4, <1>agents
  <2> QED
    BY <2>1, <2>3, <2>4
<1>2. ASSUME NEW c \in Clients, UpdateWrite(c) PROVE StrayInv'
  <2> DEFINE a == client[c].agent
             p == client[c].patch
  <2>1. /\ client' = [client EXCEPT ![c] = IdleClient] /\ UNCHANGED <<queue, leftover, strays>>
        /\ client[c].pc = "update"
        /\ \/ UNCHANGED configs
           \/ a \in alive /\ configs' = [configs EXCEPT ![a] = Updated(@, p)]
    BY <1>2 DEF UpdateWrite
  <2>2. \A d \in Clients : client'[d].agent \in Agents /\ StrayCall(client'[d], Own(client'[d].agent))
    BY <2>1, <1>idle, StrayClients
  <2>3. CASE a \in alive /\ configs' = [configs EXCEPT ![a] = Updated(@, p)]
    <3>1. a \in Agents /\ a \in created /\ Exact(configs[a]) /\ p \in Asked /\ DOMAIN p \subseteq Keys
      BY <2>1, <2>3 DEF CallOk
    <3>2. DOMAIN Updated(configs[a], p) \subseteq DOMAIN p \cup DOMAIN configs[a] \cup NumberedKeys
      <4>1. PICK f : f = configs[a]
        OBVIOUS
      <4>2. PICK q \in Asked : q = p
        BY <3>1
      <4>3. Exact(f) /\ DOMAIN q \subseteq Keys
        BY <3>1, <4>1, <4>2
      <4>4. DOMAIN Updated(f, q) \subseteq DOMAIN q \cup DOMAIN f \cup NumberedKeys
        BY <4>3, UpdatedProperty
      <4> HIDE DEF a, p
      <4> QED
        BY <4>1, <4>2, <4>4
    <3>3. DOMAIN p \subseteq Own(a)
      BY <1>calls, <2>1 DEF StrayCall
    <3>4. DOMAIN Updated(configs[a], p) \subseteq Own(a)
      BY <3>1, <3>2, <3>3, <1>keys DEF Own, Named
    <3>5. PICK b \in Agents : b = a
      BY <3>1
    <3>6. PICK C : C = Updated(configs[a], p)
      OBVIOUS
    <3>7. configs' = [configs EXCEPT ![b] = C] /\ DOMAIN C \subseteq Own(b)
      BY <2>3, <3>4, <3>5, <3>6
    <3> HIDE DEF a, p
    <3>8. configs'[b] = C
      BY <3>7
    <3>9. StrayAgent(b, Own(b))'
      BY <2>1, <1>ok, <3>7, <3>8 DEF StrayAgent, Own
    <3> QED
      BY <2>1, <2>2, <3>7, <3>9, StrayOne
  <2>4. CASE UNCHANGED configs
    BY <2>1, <2>2, <2>4, <1>agents
  <2> QED
    BY <2>1, <2>3, <2>4
<1>3. ASSUME NEW c \in Clients, AddCheck(c) PROVE StrayInv'
  <2> DEFINE a == client[c].agent
             p == client[c].patch
             g == Over(p, configs[a])
  <2>1. UNCHANGED <<configs, queue, leftover, strays>>
    BY <1>3 DEF AddCheck, agentVars
  <2>2. a \in Agents /\ p \in Asked
    BY <1>3
  <2>3. CASE a \in alive /\ ValidKeys(a, p)
    <3>1. client' = [client EXCEPT ![c] = Calls("set", a, p, g)]
      BY <1>3, <2>3 DEF AddCheck
    <3>2. DOMAIN p \subseteq Own(a) /\ DOMAIN configs[a] \subseteq Own(a)
      BY <2>2, <2>3, <1>keys DEF ValidKeys
    <3>3. StrayCall(Calls("set", a, p, g), Own(a)) /\ Calls("set", a, p, g) \in Call
      <4>1. PICK b \in alive : b = a
        BY <2>3
      <4>2. PICK q \in Asked : q = p
        BY <2>2
      <4>3. Calls("set", a, p, g) \in Call
        BY <2>3, <4>1, <4>2, MergeProperty
      <4> QED
        BY <3>2, <4>3, StrayCalls
    <3>4. Calls("set", a, p, g).agent = a
      BY DEF Calls
    <3>5. PICK call \in Call : call = Calls("set", a, p, g)
      BY <3>3
    <3>6. client' = [client EXCEPT ![c] = call] /\ StrayCall(call, Own(call.agent))
      BY <3>1, <3>3, <3>4, <3>5
    <3> HIDE DEF a, p, g
    <3> QED
      BY <2>1, <3>6, <1>agents, StrayClients
  <2>4. CASE ~(a \in alive /\ ValidKeys(a, p))
    <3>1. PICK b \in Agents : b = a
      BY <2>2
    <3> DEFINE call == Calls("rollback", b, NoConfigs, NoConfigs)
    <3>2. client' = [client EXCEPT ![c] = call]
      BY <1>3, <2>4, <3>1 DEF AddCheck
    <3>3. call \in Call /\ StrayCall(call, Own(call.agent))
      BY StrayCalls, AskedProperty DEF Call, Calls, Asked
    <3> HIDE DEF call
    <3> QED
      BY <2>1, <3>2, <3>3, <1>agents, StrayClients
  <2> QED
    BY <2>3, <2>4
<1>4. ASSUME NEW c \in Clients, AddRollback(c) PROVE StrayInv'
  <2>1. /\ client' = [client EXCEPT ![c] = IdleClient] /\ UNCHANGED <<configs, strays>>
        /\ Removed(client[c].agent) \/ Stopped(client[c].agent)
    BY <1>4 DEF AddRollback
  <2>2. \A d \in Clients : client'[d].agent \in Agents /\ StrayCall(client'[d], Own(client'[d].agent))
    BY <2>1, <1>idle, StrayClients
  <2>3. PICK a \in Agents : a = client[c].agent
    OBVIOUS
  <2> QED
    BY <2>1, <2>2, <2>3, <1>stopped
<1>5. ASSUME NEW c \in Clients, NEW a \in Agents, NEW p \in Patches, SetRead(c, a, p) \/ UpdateRead(c, a, p)
      PROVE  StrayInv'
  <2>1. /\ UNCHANGED <<configs, queue, leftover, strays>> /\ a \in alive /\ ValidKeys(a, p)
        /\ \/ client' = [client EXCEPT ![c] = Calls("set", a, p, Over(p, configs[a]))]
           \/ client' = [client EXCEPT ![c] = Calls("update", a, p, NoConfigs)]
    BY <1>5 DEF SetRead, UpdateRead, agentVars
  <2>2. p \in Asked
    BY DEF Asked
  <2>3. DOMAIN p \subseteq Own(a) /\ DOMAIN configs[a] \subseteq Own(a)
    BY <2>1, <1>keys DEF ValidKeys
  <2>4. PICK call \in Call :
            client' = [client EXCEPT ![c] = call] /\ call.agent = a /\ StrayCall(call, Own(a))
    <3>1. /\ Calls("set", a, p, Over(p, configs[a])) \in Call
          /\ Calls("update", a, p, NoConfigs) \in Call
      BY <2>1, <2>2, MergeProperty
    <3>2. /\ StrayCall(Calls("set", a, p, Over(p, configs[a])), Own(a))
          /\ StrayCall(Calls("update", a, p, NoConfigs), Own(a))
      BY <2>3, StrayCalls
    <3>3. /\ Calls("set", a, p, Over(p, configs[a])).agent = a
          /\ Calls("update", a, p, NoConfigs).agent = a
      BY DEF Calls
    <3> QED
      BY <2>1, <3>1, <3>2, <3>3
  <2> QED
    BY <2>1, <2>4, <1>agents, StrayClients
<1>6. ASSUME NEW c \in Clients, NEW a \in Agents, NEW p \in Patches, AddAgent(c, a, p) PROVE StrayInv'
  <2> DEFINE deferred == OnlyKeys(p, DOMAIN p \ DOMAIN Declared)
             spec == Over(OnlyKeys(p, DOMAIN Declared), Declared)
             call == IF deferred = NoConfigs THEN IdleClient ELSE Calls("check", a, deferred, NoConfigs)
  <2>1. /\ configs' = [configs EXCEPT ![a] = Construct(spec)] /\ UNCHANGED <<queue, leftover, strays>>
        /\ client' = [client EXCEPT ![c] = call]
    BY <1>6 DEF AddAgent
  <2>2. DOMAIN Construct(spec) \subseteq Named
    <3>1. /\ DOMAIN spec = DOMAIN Declared /\ \A k \in DOMAIN spec : spec[k] \in Val
          /\ spec["n"] \in DOMAIN Generated
      BY SpecProperty
    <3> HIDE DEF spec
    <3> QED
      BY <3>1, KeyFacts, ConstructProperty
  <2>3. call \in Call /\ StrayCall(call, Own(call.agent))
    <3>1. deferred \in Asked
      BY DEF Asked
    <3>2. Calls("check", a, deferred, NoConfigs) \in Call
      BY <3>1 DEF Call, Calls
    <3>3. \A K : StrayCall(Calls("check", a, deferred, NoConfigs), K)
      BY StrayCalls
    <3> HIDE DEF deferred
    <3> QED
      BY <3>2, <3>3, <1>idle
  <2> HIDE DEF call, spec, deferred
  <2>4. \A d \in Clients : client'[d].agent \in Agents /\ StrayCall(client'[d], Own(client'[d].agent))
    BY <2>1, <2>3, StrayClients
  <2>5. /\ StrayAgent(a, Own(a))'
        /\ \A b \in Agents : b # a =>
              /\ configs'[b] = configs[b] /\ queue'[b] = queue[b] /\ leftover'[b] = leftover[b]
              /\ strays'[b] = strays[b]
        /\ strays[a] \subseteq strays'[a]
    BY <2>1, <2>2, <1>new
  <2> QED
    BY <2>4, <2>5, StrayOne
<1>7. ASSUME NEW a \in Agents, Receive(a) \/ \E i \in DOMAIN leftover[a] : ReceiveLeftover(a, i)
      PROVE  StrayInv'
  <2>1. UNCHANGED <<client, strays>>
    BY <1>7 DEF Receive, ReceiveLeftover
  <2>2. StrayAgent(a, Own(a))'
    BY <1>7, StrayReceived
  <2>3. \A b \in Agents : b # a => /\ configs'[b] = configs[b] /\ queue'[b] = queue[b]
                                   /\ leftover'[b] = leftover[b]
    BY <1>7 DEF Receive, ReceiveLeftover
  <2> QED
    BY <2>1, <2>2, <2>3, <1>calls, StrayOne
<1>8. ASSUME NEW a \in Agents, RemoveAgent(a) \/ Stop(a) PROVE StrayInv'
  <2>1. (Removed(a) \/ Stopped(a)) /\ UNCHANGED <<client, configs, strays>>
    BY <1>8 DEF RemoveAgent, Stop
  <2> QED
    BY <2>1, <1>calls, <1>stopped
<1>9. ASSUME NEW a \in Agents, Start(a) PROVE StrayInv'
  BY <1>9, <1>calls, <1>agents DEF Start
<1>10. ASSUME NEW a \in Agents, NEW k \in Routed, NEW v \in RoutedValues(k), RouteConfig(a, k, v)
       PROVE  StrayInv'
  <2>1. /\ a \in alive /\ Put(a, OneConfig(k, v)) /\ UNCHANGED client
        /\ strays' = [strays EXCEPT ![a] = @ \cup ({k} \ Named)]
    BY <1>10 DEF RouteConfig, Named
  <2>2. OneConfig(k, v) \in Note /\ DOMAIN OneConfig(k, v).configs = {k}
    BY NoteProperty
  <2>3. strays'[a] = strays[a] \cup ({k} \ Named) /\ \A b \in Agents : b # a => strays'[b] = strays[b]
    BY <2>1
  <2>4. StrayAgent(a, Own(a))'
    BY <2>1, <2>2, <2>3, StrayPut
  <2>5. \A b \in Agents : b # a => /\ configs'[b] = configs[b] /\ queue'[b] = queue[b]
                                   /\ leftover'[b] = leftover[b]
    BY <2>1, <2>2, PutProperty
  <2>6. \A d \in Clients : client'[d].agent \in Agents /\ StrayCall(client'[d], Own(client'[d].agent))
    BY <2>1, <1>calls
  <2> QED
    BY <2>3, <2>4, <2>5, <2>6, StrayOne
<1>11. ASSUME NEW a \in Agents, NEW cfg \in OldSpecs, OpenOld(a, cfg) PROVE StrayInv'
  <2>1. configs' = [configs EXCEPT ![a] = Construct(cfg)] /\ UNCHANGED <<queue, leftover, strays, client>>
    BY <1>11 DEF OpenOld
  <2>2. DOMAIN Construct(cfg) \subseteq Named
    BY SpecProperty, ConstructProperty
  <2>3. \A d \in Clients : client'[d].agent \in Agents /\ StrayCall(client'[d], Own(client'[d].agent))
    BY <2>1, <1>calls
  <2>4. /\ StrayAgent(a, Own(a))'
        /\ \A b \in Agents : b # a =>
              /\ configs'[b] = configs[b] /\ queue'[b] = queue[b] /\ leftover'[b] = leftover[b]
              /\ strays'[b] = strays[b]
        /\ strays[a] \subseteq strays'[a]
    BY <2>1, <2>2, <1>new
  <2> QED
    BY <2>3, <2>4, StrayOne
<1>12. CASE UNCHANGED cfgVars
  BY <1>12, <1>calls, <1>agents DEF cfgVars, agentVars
<1> QED
  BY <1>1, <1>2, <1>3, <1>4, <1>5, <1>6, <1>7, <1>8, <1>9, <1>10, <1>11, <1>12 DEF CfgNext

(* An agent has no config but those of its definition, those that its      *)
(* number stands for and those that "config:" ports brought it: none that  *)
(* a merge of an older read brings back, none parked, for any definition   *)
(* and clients; and an add_agent that answers with an error, without       *)
(* saying that the agent remains, has left none.                           *)
THEOREM ValidAgents == CfgSpec => []OnlyValidAgents
<1>1. CfgInit => StrayInv
  <2> SUFFICES ASSUME CfgInit PROVE StrayInv
    OBVIOUS
  <2>1. DOMAIN NoConfigs = {}
    BY DEF NoConfigs
  <2>2. \A K : StrayCall(IdleClient, K)
    BY StrayCalls
  <2>3. \A a \in Agents : configs[a] = NoConfigs /\ queue[a] = << >> /\ leftover[a] = << >>
    BY DEF CfgInit
  <2>4. \A c \in Clients : client[c] = IdleClient
    BY DEF CfgInit
  <2> QED
    <3>1. \A S : << >> \in Seq(S)
      OBVIOUS
    <3>2. \A a \in Agents : StrayAgent(a, Own(a))
      BY <2>1, <2>3, <3>1 DEF StrayAgent
    <3> QED
      BY <2>2, <2>4, <3>2 DEF StrayInv
<1>2. StateInv /\ StrayInv => OnlyValidAgents
  <2> SUFFICES ASSUME StateInv, StrayInv PROVE OnlyValidAgents
    OBVIOUS
  <2>1. ASSUME NEW a \in alive
        PROVE  DOMAIN configs[a] \ strays[a] = DOMAIN Declared \cup Generated[configs[a]["n"]]
    <3>1. a \in Agents /\ Exact(configs[a]) /\ strays[a] \cap Named = {}
      BY StateFacts
    <3>2. DOMAIN configs[a] \subseteq Named \cup strays[a]
      BY <3>1 DEF StrayInv, StrayAgent, Own
    <3>3. /\ DOMAIN Declared \subseteq DOMAIN configs[a]
          /\ DOMAIN configs[a] \cap NumberedKeys = Generated[configs[a]["n"]]
      BY <3>1, WellFormedElim DEF Exact
    <3> QED
      BY <3>1, <3>2, <3>3 DEF Named
  <2> QED
    BY <2>1, StateFacts DEF OnlyValidAgents
<1> QED
  BY <1>1, <1>2, StateInit, StateStep, StrayStep, PTL DEF CfgSpec

-----------------------------------------------------------------------------
(* What settling a key means for a mailbox that grows, and one that loses  *)
(* its first message.                                                      *)
LEMMA SettlesAppend ==
    ASSUME NEW s \in Seq(Note), NEW m \in Note, NEW k, NEW has, NEW last,
           \/ k \in DOMAIN m.configs /\ m.configs[k] = last
           \/ k \notin DOMAIN m.configs /\ Settles(s, k, has, last)
    PROVE  Settles(Append(s, m), k, has, last)
<1> DEFINE t == Append(s, m)
<1>1. /\ Len(t) = Len(s) + 1 /\ Len(s) \in Nat
      /\ \A i \in 1 .. Len(s) : t[i] = s[i]
      /\ t[Len(s) + 1] = m
  OBVIOUS
<1> HIDE DEF t
<1>2. Len(s) + 1 \in 1 .. Len(t) /\ \A i \in 1 .. Len(t) : i \in 1 .. Len(s) \/ i = Len(s) + 1
  BY <1>1
<1>3. CASE k \in DOMAIN m.configs /\ m.configs[k] = last
  <2>1. ~ \A i \in 1 .. Len(t) : k \notin DOMAIN t[i].configs
    BY <1>1, <1>2, <1>3
  <2>2. ASSUME NEW i \in 1 .. Len(t), k \in DOMAIN t[i].configs,
               \A j \in 1 .. Len(t) : j > i => k \notin DOMAIN t[j].configs
        PROVE  t[i].configs[k] = last
    <3>1. ~(Len(s) + 1 > i)
      BY <1>1, <1>2, <1>3, <2>2
    <3>2. i = Len(s) + 1
      BY <1>1, <1>2, <3>1
    <3> QED
      BY <1>1, <1>3, <3>2
  <2> QED
    BY <2>1, <2>2 DEF Settles, t
<1>4. CASE k \notin DOMAIN m.configs /\ Settles(s, k, has, last)
  <2>1. ASSUME \A i \in 1 .. Len(t) : k \notin DOMAIN t[i].configs PROVE has = last
    <3>1. ASSUME NEW i \in 1 .. Len(s) PROVE k \notin DOMAIN s[i].configs
      <4>1. i \in 1 .. Len(t) /\ t[i] = s[i]
        BY <1>1
      <4> QED
        BY <4>1, <2>1
    <3> QED
      BY <3>1, <1>4 DEF Settles
  <2>2. ASSUME NEW i \in 1 .. Len(t), k \in DOMAIN t[i].configs,
               \A j \in 1 .. Len(t) : j > i => k \notin DOMAIN t[j].configs
        PROVE  t[i].configs[k] = last
    <3>1. i # Len(s) + 1
      BY <1>1, <1>4, <2>2
    <3>2. i \in 1 .. Len(s) /\ t[i] = s[i]
      BY <1>1, <1>2, <3>1
    <3>3. ASSUME NEW j \in 1 .. Len(s), j > i PROVE k \notin DOMAIN s[j].configs
      <4>1. j \in 1 .. Len(t) /\ t[j] = s[j]
        BY <1>1
      <4> QED
        BY <4>1, <2>2, <3>3
    <3> QED
      BY <3>2, <3>3, <1>4, <2>2 DEF Settles
  <2> QED
    BY <2>1, <2>2 DEF Settles, t
<1> QED
  BY <1>3, <1>4

(* Receiving the first message leaves the rest to settle the key.         *)
LEMMA SettlesTail ==
    ASSUME NEW s \in Seq(Note), s # << >>, NEW k, NEW has, NEW last, Settles(s, k, has, last)
    PROVE  Settles(Tail(s), k, IF k \in DOMAIN Head(s).configs THEN Head(s).configs[k] ELSE has, last)
<1> DEFINE t == Tail(s)
           h == IF k \in DOMAIN Head(s).configs THEN Head(s).configs[k] ELSE has
<1>1. /\ Len(t) = Len(s) - 1 /\ Len(s) \in Nat /\ Len(s) > 0
      /\ \A i \in 1 .. Len(t) : t[i] = s[i + 1]
      /\ Head(s) = s[1]
  OBVIOUS
<1>2. h = IF k \in DOMAIN s[1].configs THEN s[1].configs[k] ELSE has
  BY <1>1
<1> HIDE DEF t, h
<1>3. 1 \in 1 .. Len(s) /\ \A i \in 1 .. Len(s) : i # 1 => i - 1 \in 1 .. Len(t) /\ t[i - 1] = s[i]
  BY <1>1
<1>4. ASSUME \A i \in 1 .. Len(t) : k \notin DOMAIN t[i].configs PROVE h = last
  <2>1. \A i \in 1 .. Len(s) : i # 1 => k \notin DOMAIN s[i].configs
    BY <1>3, <1>4
  <2>2. CASE k \in DOMAIN s[1].configs
    <3>1. \A j \in 1 .. Len(s) : j > 1 => k \notin DOMAIN s[j].configs
      BY <2>1
    <3> QED
      BY <2>2, <3>1, <1>2, <1>3 DEF Settles
  <2>3. CASE k \notin DOMAIN s[1].configs
    BY <2>1, <2>3, <1>2 DEF Settles
  <2> QED
    BY <2>2, <2>3
<1>5. ASSUME NEW i \in 1 .. Len(t), k \in DOMAIN t[i].configs,
             \A j \in 1 .. Len(t) : j > i => k \notin DOMAIN t[j].configs
      PROVE  t[i].configs[k] = last
  <2>1. i + 1 \in 1 .. Len(s) /\ t[i] = s[i + 1]
    BY <1>1
  <2>2. ASSUME NEW j \in 1 .. Len(s), j > i + 1 PROVE k \notin DOMAIN s[j].configs
    <3>1. j # 1 /\ j - 1 > i /\ j - 1 \in 1 .. Len(t)
      BY <2>2, <1>1
    <3>2. t[j - 1] = s[j]
      BY <3>1, <1>3
    <3> QED
      BY <3>1, <3>2, <1>5
  <2> QED
    BY <2>1, <2>2, <1>5 DEF Settles
<1> QED
  BY <1>4, <1>5 DEF Settles, t, h

(* With no message left the key has its last value.                       *)
LEMMA SettlesEmpty ==
    ASSUME NEW k, NEW has, NEW last
    PROVE  Settles(<< >>, k, has, last) <=> has = last
  BY DEF Settles

(* A write gives what it asks for the value that is asked for last, and    *)
(* the other keys it carries along one that was not written since, or they *)
(* are raced.                                                              *)
LEMMA WriteSettles ==
    ASSUME StateInv, NEW a \in alive, ValueOk(a), NEW m \in Note, NEW patch, NEW rest,
           Put(a, m), Wrote(a, patch, rest), \A k \in DOMAIN patch : patch[k] \in Val,
           \A k \in DOMAIN Declared :
              /\ k \in DOMAIN m.configs <=> k \in DOMAIN patch \/ k \in DOMAIN rest
              /\ k \in DOMAIN patch => m.configs[k] = patch[k]
              /\ k \in DOMAIN rest /\ k \notin DOMAIN patch => m.configs[k] = rest[k]
    PROVE  ValueOk(a)'
<1>1. /\ a \in Agents /\ a \in created /\ Exact(configs[a])
      /\ queue \in [Agents -> Seq(Note)] /\ queue[a] \in Seq(Note)
      /\ configs \in [Agents -> WellFormed \cup {NoConfigs}]
      /\ leftover \in [Agents -> Seq(Seq(Note) \ {<< >>})]
      /\ a \notin running => queue[a] = << >>
  BY StateFacts DEF AgentOk
<1>2. /\ \A k \in DOMAIN Declared :
            written'[a][k] = IF k \in DOMAIN patch THEN patch[k] ELSE written[a][k]
      /\ leftover[a] # << >> => DOMAIN Declared \subseteq raced'[a]
      /\ \A k \in DOMAIN Declared \ raced'[a] :
            k \in DOMAIN patch \/ (k \notin raced[a] /\ (k \in DOMAIN rest => rest[k] = written[a][k]))
  BY <1>1, WroteProperty
<1>3. CASE leftover[a] # << >>
  BY <1>2, <1>3 DEF ValueOk
<1>4. CASE leftover[a] = << >>
  <2>1. leftover' = leftover
    BY <1>4 DEF Put
  <2>2. Waiting(a) = queue[a] /\ Waiting(a)' = queue'[a]
    BY <1>4, <2>1 DEF Waiting
  <2>3. ASSUME NEW k \in DOMAIN Declared \ raced'[a]
        PROVE  Settles(queue'[a], k, configs'[a][k], written'[a][k])
    <3>1. \/ k \in DOMAIN m.configs /\ m.configs[k] = written'[a][k]
          \/ /\ k \notin DOMAIN m.configs /\ k \notin raced[a] /\ written'[a][k] = written[a][k]
             /\ Settles(queue[a], k, configs[a][k], written[a][k])
      <4>1. CASE k \in DOMAIN patch
        BY <4>1, <1>2
      <4>2. CASE k \notin DOMAIN patch /\ k \in DOMAIN rest
        BY <4>2, <1>2
      <4>3. CASE k \notin DOMAIN patch /\ k \notin DOMAIN rest
        <5>1. k \notin raced[a]
          BY <4>3, <1>2
        <5> QED
          BY <4>3, <5>1, <1>2, <2>2 DEF ValueOk
      <4> QED
        BY <4>1, <4>2, <4>3
    <3>2. CASE queue' = [queue EXCEPT ![a] = Append(@, m)] /\ UNCHANGED configs
      <4>1. queue'[a] = Append(queue[a], m)
        BY <3>2, <1>1
      <4> QED
        BY <3>1, <3>2, <4>1, <1>1, SettlesAppend
    <3>3. CASE /\ a \notin running /\ UNCHANGED queue
               /\ configs' = [configs EXCEPT ![a] = Applied(a, m)]
      <4>1. configs'[a][k] = IF k \in DOMAIN m.configs THEN m.configs[k] ELSE configs[a][k]
        BY <3>3, <1>1, AppliedProperty
      <4>2. queue[a] = << >> /\ queue'[a] = << >>
        BY <3>3, <1>1
      <4>3. configs'[a][k] = written'[a][k]
        BY <3>1, <4>1, <4>2, SettlesEmpty
      <4> QED
        BY <4>2, <4>3, SettlesEmpty
    <3> QED
      BY <3>2, <3>3, <1>4 DEF Put
  <2> QED
    BY <2>1, <2>2, <2>3, <1>4 DEF ValueOk
<1> QED
  BY <1>3, <1>4

(* A loop that takes a message leaves the rest to settle the keys. *)
LEMMA ReceiveSettles ==
    ASSUME StateInv, NEW a \in Agents, ValueOk(a),
           Receive(a) \/ \E i \in DOMAIN leftover[a] : ReceiveLeftover(a, i)
    PROVE  ValueOk(a)'
<1>1. /\ queue \in [Agents -> Seq(Note)] /\ queue[a] \in Seq(Note)
      /\ configs \in [Agents -> WellFormed \cup {NoConfigs}]
      /\ leftover \in [Agents -> Seq(Seq(Note) \ {<< >>})]
      /\ leftover[a] \in Seq(Seq(Note) \ {<< >>})
  BY StateFacts
<1>take. ASSUME NEW s \in Seq(Note), s # << >>, Exact(configs[a]),
                configs' = [configs EXCEPT ![a] = Applied(a, Head(s))], UNCHANGED written,
                NEW k \in DOMAIN Declared, Settles(s, k, configs[a][k], written[a][k])
         PROVE  Settles(Tail(s), k, configs'[a][k], written'[a][k])
  <2>1. Head(s) \in Note
    BY <1>take
  <2>2. configs'[a] = Applied(a, Head(s))
    BY <1>take, <1>1
  <2>3. configs'[a][k] = IF k \in DOMAIN Head(s).configs THEN Head(s).configs[k] ELSE configs[a][k]
    BY <2>1, <2>2, <1>take, AppliedProperty
  <2>4. Settles(Tail(s), k, IF k \in DOMAIN Head(s).configs THEN Head(s).configs[k] ELSE configs[a][k],
                written[a][k])
    BY <1>take, SettlesTail
  <2> QED
    BY <2>3, <2>4, <1>take
<1>2. CASE Receive(a)
  <2>1. /\ a \in running /\ queue[a] # << >>
        /\ configs' = [configs EXCEPT ![a] = Applied(a, Head(queue[a]))]
        /\ queue' = [queue EXCEPT ![a] = Tail(@)]
        /\ UNCHANGED <<leftover, written, raced>>
    BY <1>2 DEF Receive
  <2>2. Exact(configs[a])
    BY <2>1, StateFacts
  <2>3. CASE leftover[a] # << >>
    <3>1. DOMAIN Declared \subseteq raced[a]
      BY <2>1, <2>3 DEF ValueOk
    <3> QED
      BY <2>1, <3>1 DEF ValueOk
  <2>4. CASE leftover[a] = << >>
    <3>1. Waiting(a) = queue[a] /\ Waiting(a)' = Tail(queue[a])
      BY <2>1, <2>4, <1>1 DEF Waiting
    <3>2. ASSUME NEW k \in DOMAIN Declared \ raced[a]
          PROVE  Settles(Tail(queue[a]), k, configs'[a][k], written'[a][k])
      <4>1. Settles(queue[a], k, configs[a][k], written[a][k])
        BY <3>1 DEF ValueOk
      <4> QED
        BY <4>1, <2>1, <2>2, <1>1, <1>take
    <3> QED
      BY <3>1, <3>2, <2>1, <2>4 DEF ValueOk
  <2> QED
    BY <2>3, <2>4
<1>3. ASSUME NEW i \in DOMAIN leftover[a], ReceiveLeftover(a, i) PROVE ValueOk(a)'
  <2> DEFINE l == leftover[a]
             s == l[i]
             t == IF Len(s) = 1 THEN RemoveAt(l, i) ELSE [l EXCEPT ![i] = Tail(s)]
  <2>1. /\ configs' = [configs EXCEPT ![a] = Applied(a, Head(s))]
        /\ leftover' = [leftover EXCEPT ![a] = t]
        /\ UNCHANGED <<queue, written, raced>>
    BY <1>3 DEF ReceiveLeftover
  <2>2. /\ l \in Seq(Seq(Note) \ {<< >>}) /\ i \in 1 .. Len(l) /\ l # << >>
        /\ Len(l) \in Nat
    BY <1>1
  <2>3. s \in Seq(Note) /\ s # << >>
    <3>1. s \in Seq(Note) \ {<< >>}
      BY <2>2, ElementOfSeq
    <3> QED
      BY <3>1
  <2>4. leftover'[a] = t
    BY <2>1, <1>1
  <2>5. CASE queue[a] # << >> \/ Len(l) > 1
    <3>1. DOMAIN Declared \subseteq raced[a]
      BY <2>2, <2>5 DEF ValueOk
    <3> QED
      BY <2>1, <3>1 DEF ValueOk
  <2>6. CASE queue[a] = << >> /\ ~(Len(l) > 1)
    <3>1. Len(l) = 1 /\ i = 1
      <4> DEFINE n == Len(l)
      <4>1. n \in Nat /\ i \in 1 .. n /\ ~(n > 1)
        BY <2>2, <2>6
      <4> HIDE DEF n
      <4>2. n = 1 /\ i = 1
        BY <4>1
      <4> QED
        BY <4>2 DEF n
    <3>2. Waiting(a) = s
      BY <2>2, <3>1 DEF Waiting
    <3>3. Exact(configs[a])
      BY <2>2, StateFacts
    <3>4. \A k \in DOMAIN Declared \ raced[a] : Settles(Tail(s), k, configs'[a][k], written'[a][k])
      <4>1. \A k \in DOMAIN Declared \ raced[a] : Settles(s, k, configs[a][k], written[a][k])
        BY <3>2 DEF ValueOk
      <4> HIDE DEF s
      <4> QED
        BY <4>1, <2>1, <2>3, <3>3, <1>take
    <3>5. CASE Len(s) = 1
      <4>1. t \in Seq(Seq(Note) \ {<< >>}) /\ Len(t) = 0
        <5>1. t = RemoveAt(l, i)
          BY <3>5
        <5> HIDE DEF l, t
        <5>2. t \in Seq(Seq(Note) \ {<< >>}) /\ Len(t) = Len(l) - 1
          BY <5>1, <2>2, RemoveAtProperty
        <5> QED
          BY <5>2, <3>1
      <4>2. t = << >>
        <5> HIDE DEF t
        <5> QED
          BY <4>1, EmptySeq
      <4>3. Tail(s) = << >>
        <5>1. Tail(s) \in Seq(Note) /\ Len(Tail(s)) = 0
          BY <2>3, <3>5, HeadTailProperties
        <5> QED
          BY <5>1, EmptySeq
      <4>4. Waiting(a)' = Tail(s) /\ leftover'[a] = << >>
        BY <4>2, <4>3, <2>1, <2>4, <2>6 DEF Waiting
      <4> HIDE DEF s, t, l
      <4> QED
        BY <4>4, <3>4, <2>1 DEF ValueOk
    <3>6. CASE Len(s) # 1
      <4> DEFINE x == Tail(s)
      <4>0. t = [l EXCEPT ![i] = x]
        BY <3>6
      <4>x. x \in Seq(Note)
        BY <2>3
      <4> HIDE DEF t, x
      <4>1. Len(t) = 1 /\ t[1] = x /\ t \in Seq(Seq(Note))
        <5>1. l \in Seq(Seq(Note))
          BY <2>2
        <5> HIDE DEF l
        <5> QED
          BY <4>0, <4>x, <5>1, <2>2, <3>1, ExceptSeq
      <4>2. t # << >>
        BY <4>1, EmptySeq
      <4>3. Waiting(a)' = x
        BY <4>1, <4>2, <2>4 DEF Waiting
      <4>4. \A k \in DOMAIN Declared \ raced'[a] : Settles(Waiting(a)', k, configs'[a][k], written'[a][k])
        BY <4>3, <3>4, <2>1 DEF x
      <4>5. queue'[a] = << >> /\ Len(leftover'[a]) = 1
        BY <4>1, <2>1, <2>4, <2>6
      <4> HIDE DEF s, l
      <4> QED
        BY <4>4, <4>5 DEF ValueOk
    <3> QED
      BY <3>5, <3>6
  <2> QED
    BY <2>5, <2>6
<1> QED
  BY <1>2, <1>3

(* Stopping an agent leaves its messages to the loop that stops. *)
LEMMA StopSettles ==
    ASSUME StateInv, NEW a \in Agents, ValueOk(a), Stopped(a), UNCHANGED <<configs, written, raced>>
    PROVE  ValueOk(a)'
<1>1. /\ queue \in [Agents -> Seq(Note)] /\ queue[a] \in Seq(Note)
      /\ leftover \in [Agents -> Seq(Seq(Note) \ {<< >>})]
      /\ leftover[a] \in Seq(Seq(Note) \ {<< >>})
  BY StateFacts
<1>2. /\ leftover'[a] = IF queue[a] = << >> THEN leftover[a] ELSE Append(leftover[a], queue[a])
      /\ queue'[a] = << >>
  BY <1>1 DEF Stopped
<1>3. CASE queue[a] = << >>
  <2>1. leftover'[a] = leftover[a] /\ queue'[a] = queue[a]
    BY <1>2, <1>3
  <2>2. Waiting(a)' = Waiting(a)
    BY <2>1 DEF Waiting
  <2> QED
    BY <2>1, <2>2 DEF ValueOk
<1>4. CASE queue[a] # << >> /\ leftover[a] # << >>
  <2>1. DOMAIN Declared \subseteq raced'[a]
    BY <1>4 DEF ValueOk
  <2> QED
    BY <2>1 DEF ValueOk
<1>5. CASE queue[a] # << >> /\ leftover[a] = << >>
  <2>1. leftover'[a] = << queue[a] >>
    BY <1>1, <1>2, <1>5
  <2>2. /\ leftover'[a] # << >> /\ Len(leftover'[a]) = 1 /\ leftover'[a][1] = queue[a]
    BY <2>1
  <2>3. Waiting(a) = queue[a] /\ Waiting(a)' = queue[a]
    BY <2>2, <1>5 DEF Waiting
  <2> QED
    BY <2>2, <2>3, <1>2 DEF ValueOk
<1> QED
  BY <1>3, <1>4, <1>5

(* set_agent_configs writes what it merged. *)
LEMMA SetWriteSettles ==
    ASSUME StateInv, NEW c \in Clients, NEW a \in alive, a = client[c].agent, ValueOk(a), SetWrite(c)
    PROVE  ValueOk(a)'
<1> DEFINE m == AllConfigs(client[c].configs)
           p == client[c].patch
           r == client[c].configs
<1>1. Put(a, m) /\ Wrote(a, p, r) /\ client[c].pc = "set"
  BY DEF SetWrite
<1>2. /\ r \in WellFormed /\ \A k \in DOMAIN p : k \in DOMAIN r /\ r[k] = p[k]
      /\ p \in Asked
  BY <1>1, StateFacts DEF CallOk
<1>3. m \in Note /\ m.configs = r
  BY <1>2, NoteProperty DEF AllConfigs
<1>4. DOMAIN Declared \subseteq DOMAIN r
  BY <1>2, WellFormedElim
<1>5. \A k \in DOMAIN p : p[k] \in Val
  BY <1>2, AskedProperty
<1> HIDE DEF m, p, r
<1>6. \A k \in DOMAIN Declared :
          /\ k \in DOMAIN m.configs <=> k \in DOMAIN p \/ k \in DOMAIN r
          /\ k \in DOMAIN p => m.configs[k] = p[k]
          /\ k \in DOMAIN r /\ k \notin DOMAIN p => m.configs[k] = r[k]
  BY <1>2, <1>3, <1>4
<1> QED
  BY <1>1, <1>3, <1>5, <1>6, WriteSettles

(* A value that arrives at a port is a write. *)
LEMMA RouteSettles ==
    ASSUME StateInv, NEW a \in alive, ValueOk(a), NEW k \in Routed, NEW v \in RoutedValues(k),
           RouteConfig(a, k, v)
    PROVE  ValueOk(a)'
<1> DEFINE m == OneConfig(k, v)
           p == m.configs
           r == NoConfigs
<1>1. Put(a, m) /\ Wrote(a, p, r)
  BY DEF RouteConfig
<1>2. m \in Note /\ \A j \in DOMAIN p : p[j] \in Val
  BY NoteProperty, KeyFacts
<1>3. DOMAIN r = {}
  BY DEF NoConfigs
<1> HIDE DEF m, r
<1>4. \A j \in DOMAIN Declared :
          /\ j \in DOMAIN m.configs <=> j \in DOMAIN p \/ j \in DOMAIN r
          /\ j \in DOMAIN p => m.configs[j] = p[j]
          /\ j \in DOMAIN r /\ j \notin DOMAIN p => m.configs[j] = r[j]
  BY <1>3
<1> HIDE DEF p
<1> QED
  BY <1>1, <1>2, <1>4, WriteSettles

(* What an update that writes gives an agent. *)
LEMMA UpdateWriteProperty ==
    ASSUME StateInv, NEW c \in Clients, NEW a \in alive, a = client[c].agent, client[c].pc = "update"
    PROVE  \A k \in DOMAIN Declared :
              Updated(configs[a], client[c].patch)[k]
                 = IF k \in DOMAIN client[c].patch THEN client[c].patch[k] ELSE configs[a][k]
<1> DEFINE p == client[c].patch
           f == configs[a]
<1>1. p \in Asked /\ DOMAIN p \subseteq Keys /\ Exact(f)
  BY StateFacts DEF CallOk
<1> HIDE DEF p, f
<1>2. \A k \in DOMAIN Declared : Updated(f, p)[k] = IF k \in DOMAIN p THEN p[k] ELSE f[k]
  BY <1>1, UpdatedProperty
<1> QED
  BY <1>2 DEF p, f

(* Every step keeps, for each agent, what the messages on their way to it  *)
(* settle.                                                                 *)
LEMMA ValueStep == StateInv /\ ValueInv /\ [CfgNext]_cfgVars => ValueInv'
<1> SUFFICES ASSUME StateInv, ValueInv, [CfgNext]_cfgVars PROVE ValueInv'
  OBVIOUS
<1> USE StateFacts
<1>one. ASSUME NEW a \in Agents, a \in alive' => ValueOk(a)', alive' \subseteq alive \cup {a},
               \A b \in Agents : b # a =>
                  /\ configs'[b] = configs[b] /\ queue'[b] = queue[b] /\ leftover'[b] = leftover[b]
                  /\ written'[b] = written[b] /\ raced'[b] = raced[b]
        PROVE  ValueInv'
  <2> SUFFICES ASSUME NEW b \in alive', b # a PROVE ValueOk(b)'
    BY <1>one DEF ValueInv
  <2>1. b \in Agents /\ ValueOk(b)
    BY <1>one DEF ValueInv
  <2> QED
    BY <2>1, <1>one DEF ValueOk, Waiting
<1>same. ASSUME UNCHANGED <<agentVars, written, raced>> PROVE ValueInv'
  BY <1>same DEF ValueInv, ValueOk, Waiting, agentVars
<1>new. ASSUME NEW a \in Agents, a \notin created, NEW cfg, NEW C,
               \A k \in DOMAIN cfg : cfg[k] \in Val,
               \A k \in DOMAIN Declared : C[k] = IF k \in DOMAIN cfg THEN cfg[k] ELSE Declared[k],
               configs' = [configs EXCEPT ![a] = C], alive' = alive \cup {a},
               written' = [written EXCEPT ![a] = Over(OnlyKeys(cfg, DOMAIN Declared), @)],
               UNCHANGED <<queue, leftover, raced>>
        PROVE  ValueInv'
  <2> DEFINE w == Over(OnlyKeys(cfg, DOMAIN Declared), written[a])
  <2>1. written[a] = Declared /\ written[a] \in [DOMAIN Declared -> Val]
    BY <1>new DEF AgentOk
  <2>2. \A k \in DOMAIN Declared : w[k] = IF k \in DOMAIN cfg THEN cfg[k] ELSE Declared[k]
    BY <2>1, <1>new DEF Over, OnlyKeys
  <2>3. configs'[a] = C /\ written'[a] = w
    BY <1>new
  <2> HIDE DEF w
  <2>4. \A k \in DOMAIN Declared : configs'[a][k] = written'[a][k]
    BY <2>2, <2>3, <1>new
  <2>5. Waiting(a)' = << >> /\ leftover'[a] = << >>
    BY <1>new DEF Waiting
  <2>6. ValueOk(a)'
    BY <2>4, <2>5, SettlesEmpty DEF ValueOk
  <2>7. \A b \in Agents : b # a => configs'[b] = configs[b] /\ written'[b] = written[b]
    BY <1>new
  <2> QED
    BY <2>6, <2>7, <1>new, <1>one
<1>1. ASSUME NEW c \in Clients, SetWrite(c) PROVE ValueInv'
  <2>a. PICK a \in Agents : a = client[c].agent
    OBVIOUS
  <2>1. CASE a \notin alive
    BY <1>1, <2>1, <2>a, <1>same DEF SetWrite, agentVars
  <2>2. CASE a \in alive
    <3> DEFINE m == AllConfigs(client[c].configs)
               p == client[c].patch
               r == client[c].configs
    <3>1. Put(a, m) /\ Wrote(a, p, r) /\ client[c].pc = "set" /\ UNCHANGED alive
      BY <1>1, <2>2, <2>a DEF SetWrite
    <3>2. /\ r \in WellFormed /\ \A k \in DOMAIN p : k \in DOMAIN r /\ r[k] = p[k]
          /\ p \in Asked
      BY <3>1 DEF CallOk
    <3>3. m \in Note /\ m.configs = r
      BY <3>2, NoteProperty DEF AllConfigs
    <3>5. \A k \in DOMAIN p : p[k] \in Val
      BY <3>2, AskedProperty
    <3>6. ValueOk(a)
      BY <2>2 DEF ValueInv
    <3>8. ValueOk(a)'
      BY <1>1, <2>2, <2>a, <3>6, SetWriteSettles
    <3> HIDE DEF m, p, r
    <3>9. \A b \in Agents : b # a => /\ configs'[b] = configs[b] /\ queue'[b] = queue[b]
                                     /\ leftover'[b] = leftover[b]
      BY <2>2, <3>1, <3>3, PutProperty
    <3>10. \A b \in Agents : b # a => written'[b] = written[b] /\ raced'[b] = raced[b]
      BY <3>1, <3>5, WroteProperty
    <3> QED
      BY <3>1, <3>8, <3>9, <3>10, <1>one
  <2> QED
    BY <2>1, <2>2
<1>2. ASSUME NEW c \in Clients, UpdateWrite(c) PROVE ValueInv'
  <2>a. PICK a \in Agents : a = client[c].agent
    OBVIOUS
  <2>1. CASE a \notin alive
    BY <1>2, <2>1, <2>a, <1>same DEF UpdateWrite, agentVars
  <2>2. CASE a \in alive
    <3> DEFINE p == client[c].patch
               u == Updated(configs[a], p)
               w == Over(OnlyKeys(p, DOMAIN Declared), written[a])
               r == (raced[a] \ DOMAIN p) \cup (IF Settled(a) THEN {} ELSE DOMAIN Declared)
    <3>1. /\ configs' = [configs EXCEPT ![a] = u]
          /\ written' = [written EXCEPT ![a] = w]
          /\ raced' = [raced EXCEPT ![a] = r]
          /\ UNCHANGED <<alive, queue, leftover>>
          /\ client[c].pc = "update"
      BY <1>2, <2>2, <2>a DEF UpdateWrite
    <3>2. a \in created /\ p \in Asked /\ DOMAIN p \subseteq Keys /\ Exact(configs[a])
      BY <2>2, <3>1 DEF CallOk
    <3>3. \A k \in DOMAIN Declared : u[k] = IF k \in DOMAIN p THEN p[k] ELSE configs[a][k]
      BY <2>2, <2>a, <3>1, UpdateWriteProperty
    <3>4. \A k \in DOMAIN Declared : w[k] = IF k \in DOMAIN p THEN p[k] ELSE written[a][k]
      <4>1. written[a] \in [DOMAIN Declared -> Val] /\ \A k \in DOMAIN p : p[k] \in Val
        BY <3>2, AskedProperty
      <4> HIDE DEF p
      <4> QED
        BY <4>1 DEF Over, OnlyKeys
    <3>5. /\ configs'[a] = u /\ written'[a] = w /\ raced'[a] = r
          /\ \A b \in Agents : b # a => /\ configs'[b] = configs[b] /\ written'[b] = written[b]
                                         /\ raced'[b] = raced[b]
      <4> HIDE DEF u, w, r
      <4> QED
        BY <3>1
    <3>6. ValueOk(a)'
      <4>1. CASE Settled(a)
        <5>1. queue[a] = << >> /\ leftover[a] = << >> /\ Waiting(a) = << >> /\ Waiting(a)' = << >>
          BY <4>1, <3>1 DEF Settled, Waiting
        <5>2. ASSUME NEW k \in DOMAIN Declared \ raced'[a] PROVE configs'[a][k] = written'[a][k]
          <6>1. k \in DOMAIN p \/ k \notin raced[a]
            BY <5>2, <4>1, <3>5
          <6>2. k \notin raced[a] => configs[a][k] = written[a][k]
            BY <2>2, <5>1, SettlesEmpty DEF ValueInv, ValueOk
          <6> HIDE DEF u, w, r, p
          <6> QED
            BY <6>1, <6>2, <3>3, <3>4, <3>5
        <5> QED
          BY <5>1, <5>2, <3>1, SettlesEmpty DEF ValueOk
      <4>2. CASE ~Settled(a)
        <5>1. DOMAIN Declared \subseteq raced'[a]
          BY <4>2, <3>5
        <5> QED
          BY <5>1 DEF ValueOk
      <4> QED
        BY <4>1, <4>2
    <3> HIDE DEF u, w, r, p
    <3> QED
      BY <3>1, <3>5, <3>6, <1>one
  <2> QED
    BY <2>1, <2>2
<1>3. ASSUME NEW c \in Clients, AddCheck(c) PROVE ValueInv'
  BY <1>3, <1>same DEF AddCheck
<1>4. ASSUME NEW a \in Agents, Removed(a) \/ (a \in running /\ Stopped(a) /\ UNCHANGED alive),
             UNCHANGED <<configs, written, raced>>
      PROVE  ValueInv'
  <2>1. \A b \in Agents : b # a => queue'[b] = queue[b] /\ leftover'[b] = leftover[b]
    BY <1>4, StoppedProperty
  <2>2. CASE Removed(a)
    <3>1. a \notin alive' /\ alive' \subseteq alive
      BY <2>2 DEF Removed
    <3> QED
      BY <3>1, <2>1, <1>4, <1>one
  <2>3. CASE a \in running /\ Stopped(a) /\ UNCHANGED alive
    <3>1. ValueOk(a)
      BY <2>3 DEF ValueInv
    <3>2. ValueOk(a)'
      BY <3>1, <2>3, <1>4, StopSettles
    <3> QED
      BY <3>2, <2>1, <2>3, <1>4, <1>one
  <2> QED
    BY <2>2, <2>3, <1>4
<1>5. ASSUME NEW c \in Clients, AddRollback(c) PROVE ValueInv'
  BY <1>5, <1>4 DEF AddRollback
<1>6. ASSUME NEW c \in Clients, NEW a \in Agents, NEW p \in Patches,
             SetRead(c, a, p) \/ UpdateRead(c, a, p)
      PROVE  ValueInv'
  BY <1>6, <1>same DEF SetRead, UpdateRead
<1>7. ASSUME NEW c \in Clients, NEW a \in Agents, NEW p \in Patches, AddAgent(c, a, p)
      PROVE  ValueInv'
  <2> DEFINE spec == Over(OnlyKeys(p, DOMAIN Declared), Declared)
             C == Construct(spec)
  <2>1. /\ a \notin created /\ alive' = alive \cup {a}
        /\ configs' = [configs EXCEPT ![a] = C]
        /\ written' = [written EXCEPT ![a] = Over(OnlyKeys(p, DOMAIN Declared), @)]
        /\ UNCHANGED <<queue, leftover, raced>>
    BY <1>7 DEF AddAgent
  <2>2. /\ DOMAIN spec = DOMAIN Declared
        /\ \A k \in DOMAIN Declared : spec[k] = IF k \in DOMAIN p THEN p[k] ELSE Declared[k]
        /\ \A k \in DOMAIN spec : spec[k] \in Val
        /\ spec["n"] \in DOMAIN Generated
        /\ \A k \in DOMAIN p : p[k] \in Val
    BY SpecProperty, KeyFacts
  <2>3. \A k \in DOMAIN Declared : C[k] = IF k \in DOMAIN p THEN p[k] ELSE Declared[k]
    <3> HIDE DEF spec
    <3> QED
      BY <2>2, ConstructProperty
  <2> HIDE DEF C
  <2> QED
    BY <2>1, <2>2, <2>3, <1>new
<1>8. ASSUME NEW a \in Agents, Receive(a) \/ \E i \in DOMAIN leftover[a] : ReceiveLeftover(a, i)
      PROVE  ValueInv'
  <2>1. UNCHANGED <<alive, written, raced>>
    BY <1>8 DEF Receive, ReceiveLeftover
  <2>2. a \in alive
    BY <1>8 DEF Receive, AgentOk
  <2>3. ValueOk(a)
    BY <2>2 DEF ValueInv
  <2>4. ValueOk(a)'
    BY <2>3, <1>8, ReceiveSettles
  <2>5. \A b \in Agents : b # a => /\ configs'[b] = configs[b] /\ queue'[b] = queue[b]
                                   /\ leftover'[b] = leftover[b]
    BY <1>8 DEF Receive, ReceiveLeftover
  <2> QED
    BY <2>1, <2>4, <2>5, <1>one
<1>9. ASSUME NEW a \in Agents, RemoveAgent(a) \/ Stop(a) PROVE ValueInv'
  BY <1>9, <1>4 DEF RemoveAgent, Stop
<1>10. ASSUME NEW a \in Agents, Start(a) PROVE ValueInv'
  BY <1>10 DEF Start, ValueInv, ValueOk, Waiting
<1>11. ASSUME NEW a \in Agents, NEW k \in Routed, NEW v \in RoutedValues(k), RouteConfig(a, k, v)
       PROVE  ValueInv'
  <2> DEFINE m == OneConfig(k, v)
             p == m.configs
  <2>1. a \in alive /\ Put(a, m) /\ Wrote(a, p, NoConfigs) /\ UNCHANGED alive
    BY <1>11 DEF RouteConfig
  <2>2. m \in Note /\ \A j \in DOMAIN p : p[j] \in Val
    BY NoteProperty, KeyFacts
  <2>4. ValueOk(a)
    BY <2>1 DEF ValueInv
  <2>6. ValueOk(a)'
    BY <2>1, <2>4, <1>11, RouteSettles
  <2> HIDE DEF m, p
  <2>7. \A b \in Agents : b # a => /\ configs'[b] = configs[b] /\ queue'[b] = queue[b]
                                   /\ leftover'[b] = leftover[b]
    BY <2>1, <2>2, PutProperty
  <2>8. \A b \in Agents : b # a => written'[b] = written[b] /\ raced'[b] = raced[b]
    BY <2>1, <2>2, WroteProperty
  <2> QED
    BY <2>1, <2>6, <2>7, <2>8, <1>one
<1>12. ASSUME NEW a \in Agents, NEW cfg \in OldSpecs, OpenOld(a, cfg) PROVE ValueInv'
  <2> DEFINE C == Construct(cfg)
  <2>1. /\ a \notin created /\ alive' = alive \cup {a}
        /\ configs' = [configs EXCEPT ![a] = C]
        /\ written' = [written EXCEPT ![a] = Over(OnlyKeys(cfg, DOMAIN Declared), @)]
        /\ UNCHANGED <<queue, leftover, raced>>
    BY <1>12 DEF OpenOld
  <2>2. /\ \A k \in DOMAIN Declared : C[k] = IF k \in DOMAIN cfg THEN cfg[k] ELSE Declared[k]
        /\ \A k \in DOMAIN cfg : cfg[k] \in Val
    BY SpecProperty, ConstructProperty
  <2> HIDE DEF C
  <2> QED
    BY <2>1, <2>2, <1>new
<1>13. CASE UNCHANGED cfgVars
  BY <1>13, <1>same DEF cfgVars
<1> QED
  BY <1>1, <1>2, <1>3, <1>5, <1>6, <1>7, <1>8, <1>9, <1>10, <1>11, <1>12, <1>13 DEF CfgNext

(* Updates are lost in no other way than the ones that ValueIsLastWritten  *)
(* names: for any definition, agents, clients, patches and mailbox sizes.  *)
THEOREM LastWriteStays == CfgSpec => []ValueIsLastWritten
<1>1. CfgInit => ValueInv
  BY DEF CfgInit, ValueInv
<1>2. StateInv /\ ValueInv => ValueIsLastWritten
  <2> SUFFICES ASSUME StateInv, ValueInv, NEW a \in alive, Settled(a),
                      NEW k \in DOMAIN Declared \ raced[a]
               PROVE  configs[a][k] = written[a][k]
    BY DEF ValueIsLastWritten
  <2>1. Waiting(a) = << >>
    BY DEF Settled, Waiting
  <2> QED
    BY <2>1, SettlesEmpty DEF ValueInv, ValueOk
<1> QED
  BY <1>1, <1>2, StateInit, StateStep, ValueStep, PTL DEF CfgSpec
=============================================================================
