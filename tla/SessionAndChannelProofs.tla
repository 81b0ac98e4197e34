--------------------- MODULE SessionAndChannelProofs ---------------------
(***************************************************************************)
(* The session file (SessionStore), for any entries, compactions and       *)
(* number of faults; and the registration of the agents that read channels *)
(* (ExternalIO), for any preset, connections, names and bounds.  The two   *)
(* share the lemmas on Pick.                                               *)
(***************************************************************************)
EXTENDS SessionStore, ExternalIO, TLAPS, SequenceTheorems, WellFoundedInduction

-----------------------------------------------------------------------------
(* Induction over the naturals, for sets. *)
LEMMA NaturalInduction ==
    ASSUME NEW S, 0 \in S, \A n \in Nat : n \in S => n + 1 \in S
    PROVE  \A n \in Nat : n \in S
<1> DEFINE Less == {ss \in Nat \X Nat : ss[1] < ss[2]}
           T == Nat \ S
<1> SUFFICES ASSUME T # {} PROVE FALSE
  OBVIOUS
<1>1. OpToRel(<, Nat) = Less
  BY DEF OpToRel
<1>2. IsWellFoundedOn(OpToRel(<, Nat), Nat)
  BY NatLessThanWellFounded
<1>3. \E x \in T : \A y \in T : ~(<<y, x>> \in OpToRel(<, Nat))
  BY <1>2, WFMin
<1>4. PICK x \in T : \A y \in T : ~(<<y, x>> \in Less)
  BY <1>1, <1>3, Zenon
<1>5. x \in Nat /\ x # 0
  OBVIOUS
<1>6. x - 1 \in T
  BY <1>5
<1>7. <<x - 1, x>> \in Less
  BY <1>5
<1> QED
  BY <1>4, <1>6, <1>7

(* The function that Pick is defined with exists, so that its equation can *)
(* be used.                                                                *)
PickEq(s, I, pick, m) ==
    pick = [n \in 0 .. m |-> IF n = 0 THEN << >>
                             ELSE IF n \in I THEN Append(pick[n - 1], s[n]) ELSE pick[n - 1]]

(* There is one for every length.                                         *)
LEMMA PickExists ==
    ASSUME NEW s, NEW I
    PROVE  \A m \in Nat : \E pick : PickEq(s, I, pick, m)
<1> DEFINE S == {m \in Nat : \E pick : PickEq(s, I, pick, m)}
<1>1. 0 \in S
  <2>1. PickEq(s, I, [n \in 0 .. 0 |-> << >>], 0)
    BY DEF PickEq
  <2> QED
    BY <2>1
<1>2. ASSUME NEW m \in Nat, m \in S PROVE m + 1 \in S
  <2>1. PICK old : PickEq(s, I, old, m)
    BY <1>2
  <2> DEFINE at(n, f) == IF n = 0 THEN << >> ELSE IF n \in I THEN Append(f[n - 1], s[n]) ELSE f[n - 1]
             new == [n \in 0 .. m + 1 |-> IF n <= m THEN old[n] ELSE at(m + 1, old)]
  <2>2. \A n \in 0 .. m : old[n] = at(n, old)
    BY <2>1 DEF PickEq
  <2>3. ASSUME NEW n \in 0 .. m + 1 PROVE new[n] = at(n, new)
    <3>1. CASE n = 0
      BY <2>2, <3>1
    <3>2. CASE n \in 1 .. m
      <4>1. new[n] = old[n] /\ new[n - 1] = old[n - 1]
        BY <3>2
      <4> QED
        BY <2>2, <3>2, <4>1
    <3>3. CASE n = m + 1
      <4>1. new[n] = at(m + 1, old) /\ new[n - 1] = old[m]
        BY <3>3
      <4> QED
        BY <3>3, <4>1
    <3> QED
      BY <3>1, <3>2, <3>3
  <2>4. new = [n \in 0 .. m + 1 |-> at(n, new)]
    BY <2>3
  <2>5. PickEq(s, I, new, m + 1)
    BY <2>4 DEF PickEq
  <2> QED
    BY <2>5
<1> HIDE DEF S
<1>3. \A m \in Nat : m \in S
  BY <1>1, <1>2, NaturalInduction
<1> QED
  BY <1>3 DEF S

(* The values of that function on the prefixes of s. *)
PickOf(s, I, f) ==
    /\ f[0] = << >>
    /\ \A n \in 1 .. Len(s) : f[n] = IF n \in I THEN Append(f[n - 1], s[n]) ELSE f[n - 1]
    /\ Pick(s, I) = f[Len(s)]

(* Pick is the last of them. *)
LEMMA PickFunction ==
    ASSUME NEW s, NEW I, Len(s) \in Nat
    PROVE  \E f : PickOf(s, I, f)
<1>1. \E pick : PickEq(s, I, pick, Len(s))
  BY PickExists, Zenon
<1> DEFINE f == CHOOSE pick :
               pick = [n \in 0 .. Len(s) |->
                          IF n = 0 THEN <<>>
                          ELSE IF n \in I THEN Append(pick[n - 1], s[n]) ELSE pick[n - 1]]
<1>2. PickEq(s, I, f, Len(s))
  BY <1>1, Zenon DEF PickEq
<1>3. Pick(s, I) = f[Len(s)]
  BY DEF Pick
<1> HIDE DEF f
<1>4. \A n \in 0 .. Len(s) :
         f[n] = IF n = 0 THEN << >>
                ELSE IF n \in I THEN Append(f[n - 1], s[n]) ELSE f[n - 1]
  BY <1>2, Zenon DEF PickEq
<1>5. f[0] = << >>
  BY <1>4
<1>6. \A n \in 1 .. Len(s) : f[n] = IF n \in I THEN Append(f[n - 1], s[n]) ELSE f[n - 1]
  BY <1>4
<1> QED
  BY <1>3, <1>5, <1>6 DEF PickOf

(* Positions behind the end of s do not matter, nor does what t has behind *)
(* s as long as J does not select it.                                      *)
LEMMA PickSame ==
    ASSUME NEW S, NEW s \in Seq(S), NEW t \in Seq(S), NEW I, NEW J,
           Len(s) <= Len(t),
           \A i \in 1 .. Len(s) : s[i] = t[i] /\ (i \in I <=> i \in J),
           \A i \in 1 .. Len(t) : i > Len(s) => i \notin J
    PROVE  Pick(t, J) = Pick(s, I)
<1>0. Len(s) \in Nat /\ Len(t) \in Nat
  OBVIOUS
<1>1. PICK f : PickOf(s, I, f)
  BY <1>0, PickFunction
<1>2. PICK g : PickOf(t, J, g)
  BY <1>0, PickFunction
<1> DEFINE T == {n \in Nat : n <= Len(t) => g[n] = IF n <= Len(s) THEN f[n] ELSE f[Len(s)]}
<1>3. 0 \in T
  BY <1>0, <1>1, <1>2 DEF PickOf
<1>4. ASSUME NEW n \in Nat, n \in T PROVE n + 1 \in T
  <2> SUFFICES ASSUME n + 1 <= Len(t)
               PROVE  g[n + 1] = IF n + 1 <= Len(s) THEN f[n + 1] ELSE f[Len(s)]
    OBVIOUS
  <2>0. n + 1 \in 1 .. Len(t) /\ (n + 1) - 1 = n
    BY <1>0
  <2>1. g[n] = IF n <= Len(s) THEN f[n] ELSE f[Len(s)]
    BY <1>0, <1>4
  <2>2. g[n + 1] = IF n + 1 \in J THEN Append(g[n], t[n + 1]) ELSE g[n]
    BY <1>2, <2>0, Zenon DEF PickOf
  <2>3. CASE n + 1 <= Len(s)
    <3>1. n + 1 \in 1 .. Len(s) /\ n <= Len(s)
      BY <1>0, <2>3
    <3>2. f[n + 1] = IF n + 1 \in I THEN Append(f[n], s[n + 1]) ELSE f[n]
      BY <1>1, <2>0, <3>1, Zenon DEF PickOf
    <3> QED
      BY <2>1, <2>2, <2>3, <3>1, <3>2
  <2>4. CASE ~(n + 1 <= Len(s))
    <3>1. n + 1 \notin J
      BY <1>0, <2>0, <2>4
    <3>2. g[n] = f[Len(s)]
      <4>1. CASE n <= Len(s)
        <5>1. n = Len(s)
          BY <1>0, <2>4, <4>1
        <5> QED
          BY <2>1, <5>1
      <4>2. CASE ~(n <= Len(s))
        BY <2>1, <4>2
      <4> QED
        BY <4>1, <4>2
    <3> QED
      BY <2>2, <2>4, <3>1, <3>2
  <2> QED
    BY <2>3, <2>4
<1> HIDE DEF T
<1>5. \A n \in Nat : n \in T
  BY <1>3, <1>4, NaturalInduction
<1>6. g[Len(t)] = f[Len(s)]
  <2>1. g[Len(t)] = IF Len(t) <= Len(s) THEN f[Len(t)] ELSE f[Len(s)]
    BY <1>0, <1>5 DEF T
  <2>2. CASE Len(t) <= Len(s)
    <3>1. Len(t) = Len(s)
      BY <1>0, <2>2
    <3> QED
      BY <2>1, <3>1
  <2>3. CASE ~(Len(t) <= Len(s))
    BY <2>1, <2>3
  <2> QED
    BY <2>2, <2>3
<1> QED
  BY <1>1, <1>2, <1>6 DEF PickOf

(* One element more. *)
LEMMA PickAppend ==
    ASSUME NEW S, NEW s \in Seq(S), NEW x \in S, NEW I, NEW J,
           \A i \in 1 .. Len(s) : i \in I <=> i \in J
    PROVE  Pick(Append(s, x), J) =
             IF Len(s) + 1 \in J THEN Append(Pick(s, I), x) ELSE Pick(s, I)
<1> DEFINE t == Append(s, x)
           n == Len(s) + 1
<1>0. Len(s) \in Nat /\ t \in Seq(S) /\ Len(t) = n /\ t[n] = x /\ n \in Nat
  OBVIOUS
<1>1. \A i \in 1 .. Len(s) : s[i] = t[i]
  OBVIOUS
<1>2. CASE n \notin J
  <2>1. \A i \in 1 .. Len(t) : i > Len(s) => i \notin J
    BY <1>0, <1>2
  <2>3. Len(s) <= Len(t)
    BY <1>0
  <2> HIDE DEF t
  <2>2. Pick(t, J) = Pick(s, I)
    BY <1>0, <1>1, <2>1, <2>3, PickSame
  <2> QED
    BY <1>2, <2>2 DEF t
<1>3. CASE n \in J
  <2>1. PICK g : PickOf(t, J, g)
    BY <1>0, PickFunction
  <2>2. PICK f : PickOf(s, I, f)
    BY <1>0, PickFunction
  <2> DEFINE T == {m \in Nat : m <= Len(s) => g[m] = f[m]}
  <2>3. 0 \in T
    BY <2>1, <2>2 DEF PickOf
  <2>4. ASSUME NEW m \in Nat, m \in T PROVE m + 1 \in T
    <3> SUFFICES ASSUME m + 1 <= Len(s) PROVE g[m + 1] = f[m + 1]
      OBVIOUS
    <3>1. m + 1 \in 1 .. Len(s) /\ m + 1 \in 1 .. Len(t) /\ (m + 1) - 1 = m /\ m <= Len(s)
      BY <1>0
    <3>2. g[m] = f[m]
      BY <2>4, <3>1
    <3>3. g[m + 1] = IF m + 1 \in J THEN Append(g[m], t[m + 1]) ELSE g[m]
      BY <2>1, <3>1, Zenon DEF PickOf
    <3>4. f[m + 1] = IF m + 1 \in I THEN Append(f[m], s[m + 1]) ELSE f[m]
      BY <2>2, <3>1, Zenon DEF PickOf
    <3>5. t[m + 1] = s[m + 1] /\ (m + 1 \in I <=> m + 1 \in J)
      BY <1>1, <3>1
    <3> HIDE DEF t
    <3> QED
      BY <3>2, <3>3, <3>4, <3>5
  <2> HIDE DEF T
  <2>5. \A m \in Nat : m \in T
    BY <2>3, <2>4, NaturalInduction
  <2>6. g[Len(s)] = f[Len(s)]
    BY <1>0, <2>5 DEF T
  <2>7. g[n] = Append(g[Len(s)], x)
    <3>1. n \in 1 .. Len(t) /\ n - 1 = Len(s)
      BY <1>0
    <3> HIDE DEF t, n
    <3>2. g[n] = IF n \in J THEN Append(g[n - 1], t[n]) ELSE g[n - 1]
      BY <2>1, <3>1, Zenon DEF PickOf
    <3> QED
      BY <1>0, <1>3, <3>1, <3>2
  <2>8. Pick(t, J) = g[n] /\ Pick(s, I) = f[Len(s)]
    BY <1>0, <2>1, <2>2 DEF PickOf
  <2> HIDE DEF t, n
  <2> QED
    BY <1>3, <2>6, <2>7, <2>8 DEF t, n
<1> QED
  BY <1>2, <1>3

(* What Pick selects: the elements at the positions in I, all of them,     *)
(* each once and in order.                                                 *)
PickedAt(s, I, m, res, at) ==
    /\ at \in [1 .. Len(res) -> 1 .. m]
    /\ \A k \in 1 .. Len(res) : at[k] \in I /\ res[k] = s[at[k]]
    /\ \A k, l \in 1 .. Len(res) : k < l => at[k] < at[l]
    /\ \A i \in 1 .. m : i \in I => \E k \in 1 .. Len(res) : at[k] = i

Picked(S, s, I, m, res) == res \in Seq(S) /\ \E at : PickedAt(s, I, m, res, at)

(* Pick selects them. *)
LEMMA PickProperty ==
    ASSUME NEW S, NEW s \in Seq(S), NEW I
    PROVE  Picked(S, s, I, Len(s), Pick(s, I))
<1>0. Len(s) \in Nat
  OBVIOUS
<1>1. PICK f : PickOf(s, I, f)
  BY <1>0, PickFunction
<1> DEFINE T == {m \in Nat : m <= Len(s) => Picked(S, s, I, m, f[m])}
<1>4. 0 \in T
  <2>1. f[0] = << >>
    BY <1>1 DEF PickOf
  <2>2. Picked(S, s, I, 0, << >>)
    <3> DEFINE none == [k \in 1 .. 0 |-> 0]
    <3>1. << >> \in Seq(S) /\ 1 .. Len(<< >>) = {} /\ 1 .. 0 = {}
      OBVIOUS
    <3>2. none \in [1 .. Len(<< >>) -> 1 .. 0]
      BY <3>1
    <3> HIDE DEF none
    <3> QED
      BY <3>1, <3>2 DEF Picked, PickedAt
  <2> QED
    BY <2>1, <2>2
<1>5. ASSUME NEW m \in Nat, m \in T PROVE m + 1 \in T
  <2> SUFFICES ASSUME m + 1 <= Len(s) PROVE Picked(S, s, I, m + 1, f[m + 1])
    OBVIOUS
  <2>1. Picked(S, s, I, m, f[m])
    BY <1>0, <1>5
  <2>2. f[m + 1] = IF m + 1 \in I THEN Append(f[m], s[m + 1]) ELSE f[m]
    <3>1. m + 1 \in 1 .. Len(s) /\ (m + 1) - 1 = m
      BY <1>0
    <3> QED
      BY <1>1, <3>1, Zenon DEF PickOf
  <2> DEFINE old == f[m]
  <2>3. PICK at : PickedAt(s, I, m, old, at)
    BY <2>1 DEF Picked
  <2>4. old \in Seq(S) /\ s[m + 1] \in S
    BY <1>0, <2>1 DEF Picked
  <2>9. at \in [1 .. Len(old) -> 1 .. m]
        /\ (\A k \in 1 .. Len(old) : at[k] \in I /\ old[k] = s[at[k]])
        /\ (\A k, l \in 1 .. Len(old) : k < l => at[k] < at[l])
        /\ (\A i \in 1 .. m : i \in I => \E k \in 1 .. Len(old) : at[k] = i)
    BY <2>3 DEF PickedAt
  <2> HIDE DEF old
  <2>5. CASE m + 1 \notin I
    <3>1. at \in [1 .. Len(old) -> 1 .. m + 1]
      BY <2>9
    <3>2. \A i \in 1 .. m + 1 : i \in I => i \in 1 .. m
      BY <2>5
    <3>3. PickedAt(s, I, m + 1, old, at)
      BY <2>9, <3>1, <3>2 DEF PickedAt
    <3> QED
      BY <2>2, <2>4, <2>5, <3>3 DEF Picked, old
  <2>6. CASE m + 1 \in I
    <3> DEFINE res == Append(old, s[m + 1])
               new == [k \in 1 .. Len(res) |-> IF k <= Len(old) THEN at[k] ELSE m + 1]
    <3>1. res \in Seq(S) /\ Len(res) = Len(old) + 1 /\ Len(old) \in Nat
      BY <2>4
    <3>2. new \in [1 .. Len(res) -> 1 .. m + 1]
      BY <2>9, <3>1
    <3>3. ASSUME NEW k \in 1 .. Len(res) PROVE new[k] \in I /\ res[k] = s[new[k]]
      <4>1. CASE k <= Len(old)
        BY <2>9, <2>4, <3>1, <4>1
      <4>2. CASE k = Len(old) + 1
        BY <2>4, <2>6, <3>1, <4>2
      <4> QED
        BY <3>1, <4>1, <4>2
    <3>4. ASSUME NEW k \in 1 .. Len(res), NEW l \in 1 .. Len(res), k < l PROVE new[k] < new[l]
      <4>1. k <= Len(old) /\ new[k] = at[k] /\ at[k] \in 1 .. m
        BY <2>9, <3>1, <3>4
      <4>2. CASE l <= Len(old)
        <5>1. k \in 1 .. Len(old) /\ l \in 1 .. Len(old) /\ new[l] = at[l]
          BY <3>1, <4>1, <4>2
        <5> QED
          BY <2>9, <3>4, <4>1, <5>1
      <4>3. CASE l = Len(old) + 1
        <5>1. new[l] = m + 1
          BY <3>1, <4>3
        <5> QED
          BY <4>1, <5>1
      <4> QED
        BY <3>1, <4>2, <4>3
    <3>6. ASSUME NEW i \in 1 .. m + 1, i \in I PROVE \E k \in 1 .. Len(res) : new[k] = i
      <4>1. CASE i = m + 1
        <5>1. Len(res) \in 1 .. Len(res) /\ new[Len(res)] = m + 1
          BY <3>1
        <5> QED
          BY <4>1, <5>1
      <4>2. CASE i # m + 1
        <5>1. i \in 1 .. m
          BY <4>2
        <5>2. PICK k \in 1 .. Len(old) : at[k] = i
          BY <2>9, <3>6, <5>1
        <5>3. k \in 1 .. Len(res) /\ new[k] = i
          BY <3>1, <5>2
        <5> QED
          BY <5>3
      <4> QED
        BY <4>1, <4>2
    <3> HIDE DEF new, res
    <3>5. PickedAt(s, I, m + 1, res, new)
      BY <3>1, <3>2, <3>3, <3>4, <3>6 DEF PickedAt
    <3> QED
      BY <2>2, <2>6, <3>1, <3>5 DEF res, old, Picked
  <2> QED
    BY <2>5, <2>6
<1> HIDE DEF T
<1>6. \A m \in Nat : m \in T
  BY <1>4, <1>5, NaturalInduction
<1>7. Picked(S, s, I, Len(s), f[Len(s)])
  BY <1>0, <1>6 DEF T
<1> QED
  BY <1>1, <1>7 DEF PickOf

(* The values g of one pick are ends of the values f of the other. *)
EndsWith(S, J, f, g, m) ==
    /\ f[m] \in Seq(S) /\ g[m] \in Seq(S)
    /\ \E p \in Seq(S) : f[m] = p \o g[m]
    /\ (\A i \in 1 .. m : i \notin J) => g[m] = << >>

(* When J has the later ones of the positions in I, it picks the end of    *)
(* what I picks.                                                           *)
LaterOf(I, J, n) ==
    /\ \A i \in 1 .. n : i \in J => i \in I
    /\ \A i, j \in 1 .. n : (i \in I /\ i \notin J /\ j \in J) => i < j

EndOf(S, r, t) == \E p \in Seq(S) : r = p \o t

(* The end of a pick. *)
LEMMA PickSuffix ==
    ASSUME NEW S, NEW s \in Seq(S), NEW I, NEW J, LaterOf(I, J, Len(s))
    PROVE  EndOf(S, Pick(s, I), Pick(s, J))
<1>0. Len(s) \in Nat
  OBVIOUS
<1>10. (\A i \in 1 .. Len(s) : i \in J => i \in I)
       /\ \A i, j \in 1 .. Len(s) : (i \in I /\ i \notin J /\ j \in J) => i < j
  BY DEF LaterOf
<1>1. PICK f : PickOf(s, I, f)
  BY <1>0, PickFunction
<1>2. PICK g : PickOf(s, J, g)
  BY <1>0, PickFunction
<1> DEFINE T == {m \in Nat : m <= Len(s) => EndsWith(S, J, f, g, m)}
<1>3. 0 \in T
  <2>1. f[0] = << >> /\ g[0] = << >> /\ << >> \in Seq(S) /\ << >> = << >> \o << >>
    BY <1>1, <1>2 DEF PickOf
  <2> QED
    BY <2>1 DEF EndsWith
<1>4. ASSUME NEW m \in Nat, m \in T PROVE m + 1 \in T
  <2> SUFFICES ASSUME m + 1 <= Len(s) PROVE EndsWith(S, J, f, g, m + 1)
    OBVIOUS
  <2>0. m + 1 \in 1 .. Len(s) /\ (m + 1) - 1 = m /\ m <= Len(s) /\ s[m + 1] \in S
    BY <1>0
  <2>1. EndsWith(S, J, f, g, m)
    BY <1>4, <2>0
  <2>2. f[m + 1] = IF m + 1 \in I THEN Append(f[m], s[m + 1]) ELSE f[m]
    BY <1>1, <2>0, Zenon DEF PickOf
  <2>3. g[m + 1] = IF m + 1 \in J THEN Append(g[m], s[m + 1]) ELSE g[m]
    BY <1>2, <2>0, Zenon DEF PickOf
  <2>4. PICK p \in Seq(S) : f[m] = p \o g[m]
    BY <2>1 DEF EndsWith
  <2>5. PICK fm \in Seq(S) : fm = f[m]
    BY <2>1 DEF EndsWith
  <2>6. PICK gm \in Seq(S) : gm = g[m]
    BY <2>1 DEF EndsWith
  <2>7. PICK x \in S : x = s[m + 1]
    BY <2>0
  <2>8. CASE m + 1 \in J
    <3>1. f[m + 1] = Append(fm, x) /\ g[m + 1] = Append(gm, x) /\ m + 1 \in I
      BY <1>10, <2>0, <2>2, <2>3, <2>5, <2>6, <2>7, <2>8
    <3>2. Append(fm, x) \in Seq(S) /\ Append(gm, x) \in Seq(S)
      OBVIOUS
    <3>3. Append(p \o gm, x) = p \o Append(gm, x)
      <4>1. p \o gm \in Seq(S) /\ <<x>> \in Seq(S)
        OBVIOUS
      <4>2. Append(p \o gm, x) = (p \o gm) \o <<x>> /\ Append(gm, x) = gm \o <<x>>
        BY <4>1, AppendIsConcat
      <4>3. PICK y \in Seq(S) : y = <<x>>
        BY <4>1
      <4>4. (p \o gm) \o y = p \o (gm \o y)
        BY ConcatAssociative
      <4> QED
        BY <4>2, <4>3, <4>4
    <3>4. f[m + 1] = p \o g[m + 1]
      BY <2>4, <2>5, <2>6, <3>1, <3>3
    <3>5. m + 1 \in 1 .. m + 1
      OBVIOUS
    <3> QED
      BY <2>8, <3>1, <3>2, <3>4, <3>5 DEF EndsWith
  <2>9. CASE m + 1 \notin J /\ m + 1 \in I
    <3>1. f[m + 1] = Append(fm, x) /\ g[m + 1] = gm
      BY <2>2, <2>3, <2>5, <2>6, <2>7, <2>9
    <3>2. \A i \in 1 .. m : i \notin J
      <4> SUFFICES ASSUME NEW i \in 1 .. m, i \in J PROVE FALSE
        OBVIOUS
      <4>1. i \in 1 .. Len(s)
        BY <1>0, <2>0
      <4>2. m + 1 < i
        BY <1>10, <2>0, <2>9, <4>1
      <4> QED
        BY <4>2
    <3>3. gm = << >>
      BY <2>1, <2>6, <3>2 DEF EndsWith
    <3>4. Append(fm, x) \in Seq(S) /\ Append(fm, x) = Append(fm, x) \o << >>
      BY ConcatEmptySeq
    <3> QED
      BY <3>1, <3>3, <3>4, <2>6 DEF EndsWith
  <2>10. CASE m + 1 \notin J /\ m + 1 \notin I
    <3>1. f[m + 1] = f[m] /\ g[m + 1] = g[m]
      BY <2>2, <2>3, <2>10
    <3>2. (\A i \in 1 .. m + 1 : i \notin J) => (\A i \in 1 .. m : i \notin J)
      OBVIOUS
    <3> QED
      BY <2>1, <3>1, <3>2 DEF EndsWith
  <2> QED
    BY <2>8, <2>9, <2>10
<1> HIDE DEF T
<1>5. \A m \in Nat : m \in T
  BY <1>3, <1>4, NaturalInduction
<1>6. EndsWith(S, J, f, g, Len(s))
  BY <1>0, <1>5 DEF T
<1> QED
  BY <1>1, <1>2, <1>6 DEF PickOf, EndsWith, EndOf
-----------------------------------------------------------------------------
(* How pieces of lines lie in the file: a second half follows its first,   *)
(* no half is there twice, and a compaction is behind what it keeps.       *)
LayoutOf(c, u) ==
    /\ \A i \in DOMAIN c : c[i].half = "second" => i > 1 /\ c[i - 1] = First(c[i].line)
    /\ \A i, j \in DOMAIN c : c[i] = c[j] => i = j
    /\ \A i \in DOMAIN c : c[i].line \in u \cup {Header}
    /\ \A i, j \in DOMAIN c : c[i].line \in Entries /\ c[j].line = FirstKept[c[i].line] => j < i

Layout == LayoutOf(content, used)

(* Compactions keep what was passed to append before them. *)
KeptUsed == \A e \in used : FirstKept[e] \in used \cup {NoEntry} /\ FirstKept[e] # e

(* The lines of the entries whose append returned are complete, and in the *)
(* order in which the appends returned.                                    *)
AckedOf(c, a, u) ==
    /\ \A j \in DOMAIN a : a[j] \in u /\ \E i \in DOMAIN c : c[i] = Second(a[j])
    /\ \A j, k \in DOMAIN a, p, q \in DOMAIN c :
          c[p] = Second(a[j]) /\ c[q] = Second(a[k]) => (j < k <=> p < q)

AckedLayout == AckedOf(content, acked, used)

Writing == pc \in {"write", "rest", "flush"}

(* What the call in progress has written so far. *)
CallLayout ==
    /\ ~Writing => line = NoEntry
    /\ Writing =>
          /\ exists /\ line # NoEntry
          /\ line = Header => ~created
          /\ line \in Entries => line \in used /\ created
          /\ \A j \in DOMAIN acked : acked[j] # line
          /\ \A e \in used : FirstKept[e] # line
    /\ pc = "write" => (\A i \in DOMAIN content : content[i].line # line)
                       /\ (line = Header => content = <<>>)
    /\ pc = "rest" => /\ Len(content) >= 1 /\ content[Len(content)] = First(line)
                      /\ \A i \in DOMAIN content : content[i] # Second(line)
                      /\ line = Header => Len(content) = 1
    /\ pc = "flush" => /\ Len(content) >= 2 /\ content[Len(content)] = Second(line)
                       /\ line = Header => Len(content) = 2
    /\ pc = "repair" => exists /\ seen = content
    /\ ~exists => content = <<>>
    /\ ~created => used = {}
    /\ created => exists /\ Len(content) >= 2
                  /\ content[1] = First(Header) /\ content[2] = Second(Header)

(* In what a load returned a compaction is behind what it keeps. *)
KeptBefore(s) == \A j, k \in DOMAIN s : FirstKept[s[k]] = s[j] => j < k

SessionInv ==
    /\ SessionTypeOK
    /\ Layout
    /\ KeptUsed
    /\ AckedLayout
    /\ CallLayout
    /\ KeptBefore(result.entries)

-----------------------------------------------------------------------------
(* Where the lines of c with entries end, in order. *)
EntriesAt(c, es, at) ==
    /\ at \in [1 .. Len(es) -> DOMAIN c]
    /\ \A k \in 1 .. Len(es) : at[k] \in EntryEnds(c) /\ es[k] = c[at[k]].line
    /\ \A k, l \in 1 .. Len(es) : k < l => at[k] < at[l]
    /\ \A i \in EntryEnds(c) : \E k \in 1 .. Len(es) : at[k] = i

(* EntriesIn reads exactly these. *)
LEMMA EntriesProperty ==
    ASSUME NEW c \in Seq(Piece)
    PROVE  EntriesIn(c) \in Seq(Entries) /\ \E at : EntriesAt(c, EntriesIn(c), at)
<1>1. PICK ends : ends = Pick(c, EntryEnds(c))
  OBVIOUS
<1>2. Picked(Piece, c, EntryEnds(c), Len(c), ends)
  BY <1>1, PickProperty
<1>3. ends \in Seq(Piece) /\ Len(ends) \in Nat
  BY <1>2 DEF Picked
<1>4. PICK at : PickedAt(c, EntryEnds(c), Len(c), ends, at)
  BY <1>2 DEF Picked
<1>5. EntriesIn(c) = [k \in 1 .. Len(ends) |-> ends[k].line]
  BY <1>1, Zenon DEF EntriesIn
<1>6. PICK es : es = [k \in 1 .. Len(ends) |-> ends[k].line]
  OBVIOUS
<1>7. \A k \in 1 .. Len(ends) : ends[k] \in Piece /\ at[k] \in EntryEnds(c) /\ ends[k] = c[at[k]]
  BY <1>3, <1>4 DEF PickedAt
<1>8. \A k \in 1 .. Len(ends) : ends[k].line \in Entries
  BY <1>7 DEF EntryEnds, Piece, Line
<1>9. es \in Seq(Entries) /\ Len(es) = Len(ends)
  BY <1>3, <1>6, <1>8
<1>10. EntryEnds(c) \subseteq 1 .. Len(c) /\ DOMAIN c = 1 .. Len(c)
  BY DEF EntryEnds, Ends
<1>11. EntriesAt(c, es, at)
  BY <1>4, <1>6, <1>7, <1>9, <1>10 DEF EntriesAt, PickedAt
<1> QED
  BY <1>5, <1>6, <1>9, <1>11

(* A line that parses depends only on what is before its end. *)
LEMMA EndsAgree ==
    ASSUME NEW c \in Seq(Piece), NEW d \in Seq(Piece), Len(c) <= Len(d),
           \A i \in 1 .. Len(c) : c[i] = d[i]
    PROVE  \A i \in 1 .. Len(c) : /\ i \in Ends(c) <=> i \in Ends(d)
                                  /\ Parses(c, i) <=> Parses(d, i)
                                  /\ i \in EntryEnds(c) <=> i \in EntryEnds(d)
<1>1. DOMAIN c = 1 .. Len(c) /\ DOMAIN d = 1 .. Len(d) /\ Len(c) \in Nat /\ Len(d) \in Nat
  OBVIOUS
<1>2. ASSUME NEW i \in 1 .. Len(c)
      PROVE  /\ i \in Ends(c) <=> i \in Ends(d)
             /\ Parses(c, i) <=> Parses(d, i)
             /\ i \in EntryEnds(c) <=> i \in EntryEnds(d)
  <2>1. c[i] = d[i] /\ i \in DOMAIN d /\ i \in DOMAIN c
    BY <1>1
  <2>2. i > 1 => c[i - 1] = d[i - 1]
    BY <1>1
  <2>3. i > 2 => c[i - 2] = d[i - 2]
    BY <1>1
  <2>4. i \in Ends(c) <=> i \in Ends(d)
    BY <2>1 DEF Ends
  <2>5. Parses(c, i) <=> Parses(d, i)
    BY <2>1, <2>2, <2>3 DEF Parses
  <2> QED
    BY <2>1, <2>4, <2>5 DEF EntryEnds
<1> QED
  BY <1>2

(* What ends no line adds no entry. *)
LEMMA EntriesSame ==
    ASSUME NEW c \in Seq(Piece), NEW d \in Seq(Piece), Len(c) <= Len(d),
           \A i \in 1 .. Len(c) : c[i] = d[i],
           \A i \in 1 .. Len(d) : i > Len(c) => d[i].half # "second"
    PROVE  EntriesIn(d) = EntriesIn(c)
<1>1. \A i \in 1 .. Len(c) : i \in EntryEnds(c) <=> i \in EntryEnds(d)
  BY EndsAgree
<1>2. \A i \in 1 .. Len(d) : i > Len(c) => i \notin EntryEnds(d)
  BY DEF EntryEnds, Ends
<1>3. Pick(d, EntryEnds(d)) = Pick(c, EntryEnds(c))
  BY <1>1, <1>2, PickSame
<1> QED
  BY <1>3, Zenon DEF EntriesIn

(* The end of a line adds its entry, if it parses. *)
LEMMA EntriesAppend ==
    ASSUME NEW c \in Seq(Piece), NEW p \in Piece
    PROVE  EntriesIn(Append(c, p)) = IF Len(c) + 1 \in EntryEnds(Append(c, p))
                                     THEN Append(EntriesIn(c), p.line) ELSE EntriesIn(c)
<1>0. Append(c, p) \in Seq(Piece)
  OBVIOUS
<1>1. PICK d \in Seq(Piece) : d = Append(c, p)
  BY <1>0
<1>2. Len(c) <= Len(d) /\ (\A i \in 1 .. Len(c) : c[i] = d[i]) /\ Len(c) \in Nat
  BY <1>1
<1>3. \A i \in 1 .. Len(c) : i \in EntryEnds(c) <=> i \in EntryEnds(d)
  BY <1>2, EndsAgree
<1>4. Pick(Append(c, p), EntryEnds(d)) = IF Len(c) + 1 \in EntryEnds(d)
                                         THEN Append(Pick(c, EntryEnds(c)), p) ELSE Pick(c, EntryEnds(c))
  BY <1>3, PickAppend
<1>5. PICK old : old = Pick(c, EntryEnds(c))
  OBVIOUS
<1>6. old \in Seq(Piece) /\ Len(old) \in Nat
  <2>1. Picked(Piece, c, EntryEnds(c), Len(c), old)
    BY <1>5, PickProperty
  <2> QED
    BY <2>1 DEF Picked
<1>7. EntriesIn(c) = [k \in 1 .. Len(old) |-> old[k].line]
  BY <1>5, Zenon DEF EntriesIn
<1>8. CASE Len(c) + 1 \notin EntryEnds(d)
  <2>1. Pick(d, EntryEnds(d)) = old
    BY <1>1, <1>4, <1>5, <1>8
  <2>2. EntriesIn(d) = [k \in 1 .. Len(old) |-> old[k].line]
    BY <2>1, Zenon DEF EntriesIn
  <2> QED
    BY <1>1, <1>7, <1>8, <2>2
<1>9. CASE Len(c) + 1 \in EntryEnds(d)
  <2>0. PICK new : new = Append(old, p)
    OBVIOUS
  <2>1. Pick(d, EntryEnds(d)) = new
    BY <1>1, <1>4, <1>5, <1>9, <2>0
  <2>2. EntriesIn(d) = [k \in 1 .. Len(new) |-> new[k].line]
    BY <2>1, Zenon DEF EntriesIn
  <2>3. Len(new) = Len(old) + 1 /\ new[Len(old) + 1] = p
        /\ \A k \in 1 .. Len(old) : new[k] = old[k]
    BY <1>6, <2>0
  <2>4. PICK es : es = [k \in 1 .. Len(old) |-> old[k].line]
    OBVIOUS
  <2>5. es \in Seq(Line) /\ Len(es) = Len(old) /\ p.line \in Line
    <3>0. \A k \in 1 .. Len(old) : old[k] \in Piece
      BY <1>6
    <3>1. \A k \in 1 .. Len(old) : old[k].line \in Line
      BY <3>0 DEF Piece
    <3> QED
      BY <1>6, <2>4, <3>1 DEF Piece
  <2>6. PICK fs : fs = [k \in 1 .. Len(new) |-> new[k].line]
    OBVIOUS
  <2>7. fs \in Seq(Line) /\ Len(fs) = Len(es) + 1
    <3>0. \A k \in 1 .. Len(new) : new[k] \in Piece
      BY <1>6, <2>0
    <3>1. \A k \in 1 .. Len(new) : new[k].line \in Line
      BY <3>0 DEF Piece
    <3> QED
      BY <1>6, <2>3, <2>5, <2>6, <3>1
  <2>8. \A k \in 1 .. Len(es) + 1 : fs[k] = Append(es, p.line)[k]
    BY <1>6, <2>3, <2>4, <2>5, <2>6
  <2>9. Append(es, p.line) \in Seq(Line) /\ Len(Append(es, p.line)) = Len(es) + 1
    BY <2>5
  <2>10. fs = Append(es, p.line)
    <3>1. PICK gs \in Seq(Line) : gs = Append(es, p.line)
      BY <2>9
    <3>2. Len(gs) = Len(fs) /\ \A k \in 1 .. Len(fs) : fs[k] = gs[k]
      BY <2>7, <2>8, <2>9, <3>1
    <3>3. fs = gs
      BY <2>7, <3>2
    <3> QED
      BY <3>1, <3>3
  <2> QED
    BY <1>1, <1>7, <1>9, <2>2, <2>4, <2>6, <2>10
<1> QED
  BY <1>8, <1>9
-----------------------------------------------------------------------------
(* Errors hold no entries. *)
LEMMA ErrorKept == Error \in Result /\ KeptBefore(Error.entries)
BY DEF Error, Result, KeptBefore

(* An empty file, and no call. *)
LEMMA SessionInitInv == SessionInit => SessionInv
<1> SUFFICES ASSUME SessionInit PROVE SessionInv
  OBVIOUS
<1> USE SessionAssumption DEF SessionInit
<1>0. KeptBefore(result.entries)
  BY ErrorKept
<1>1. SessionTypeOK
  <2>1. <<>> \in Seq(Piece) /\ <<>> \in Seq(Entries) /\ 0 \in 0 .. MaxFaults
    OBVIOUS
  <2> QED
    BY <2>1, ErrorKept DEF SessionTypeOK
<1>2. Layout /\ KeptUsed /\ AckedLayout
  BY DEF Layout, LayoutOf, KeptUsed, AckedLayout, AckedOf
<1>3. CallLayout
  BY DEF CallLayout, Writing
<1> QED
  BY <1>0, <1>1, <1>2, <1>3 DEF SessionInv

(* The file and what is known of it stay. *)
LEMMA LayoutKept ==
    ASSUME SessionInv, UNCHANGED <<content, acked, used>>
    PROVE  Layout' /\ KeptUsed' /\ AckedLayout'
BY DEF SessionInv, Layout, KeptUsed, AckedLayout

(* create makes a file, and a header is to be written. *)
LEMMA CreateStep == SessionInv /\ Create => SessionInv'
<1> SUFFICES ASSUME SessionInv, Create PROVE SessionInv'
  OBVIOUS
<1> USE SessionAssumption
<1>1. SessionTypeOK'
  BY DEF SessionInv, SessionTypeOK, Create, Line
<1>2. Layout' /\ KeptUsed' /\ AckedLayout'
  BY LayoutKept DEF Create
<1>3. CallLayout'
  <2>1. content = <<>> /\ used = {} /\ ~created
    BY DEF SessionInv, CallLayout, SessionTypeOK, Create
  <2>2. \A j \in DOMAIN acked : acked[j] # Header
    BY DEF SessionInv, SessionTypeOK
  <2> QED
    BY <2>1, <2>2 DEF Create, CallLayout, Writing
<1>4. KeptBefore(result.entries)'
  BY DEF SessionInv, Create, KeptBefore
<1> QED
  BY <1>1, <1>2, <1>3, <1>4 DEF SessionInv

(* append takes an entry that was not used before, so no piece of it is in *)
(* the file and no compaction in the file keeps it.                        *)
LEMMA AppendEntryStep ==
    ASSUME SessionInv, NEW e \in Entries, AppendEntry(e)
    PROVE  SessionInv'
<1> USE SessionAssumption
<1>1. SessionTypeOK'
  BY DEF SessionInv, SessionTypeOK, AppendEntry, Line
<1>2. Layout'
  BY DEF SessionInv, Layout, LayoutOf, AppendEntry, First
<1>3. KeptUsed'
  BY DEF SessionInv, SessionTypeOK, KeptUsed, AppendEntry
<1>4. AckedLayout'
  BY DEF SessionInv, AckedLayout, AckedOf, AppendEntry, Second
<1>5. CallLayout'
  <2>1. \A i \in DOMAIN content : content[i].line # e
    BY DEF SessionInv, Layout, LayoutOf, AppendEntry
  <2>2. \A j \in DOMAIN acked : acked[j] # e
    BY DEF SessionInv, AckedLayout, AckedOf, AppendEntry
  <2>3. \A f \in used' : FirstKept[f] # e
    BY DEF SessionInv, KeptUsed, SessionTypeOK, AppendEntry
  <2>4. exists /\ Len(content) >= 2 /\ content[1] = First(Header) /\ content[2] = Second(Header)
    BY DEF SessionInv, CallLayout, AppendEntry
  <2> QED
    BY <2>1, <2>2, <2>3, <2>4 DEF AppendEntry, CallLayout, Writing, First, Second
<1>6. KeptBefore(result.entries)'
  BY DEF SessionInv, AppendEntry, KeptBefore
<1> QED
  BY <1>1, <1>2, <1>3, <1>4, <1>5, <1>6 DEF SessionInv

(* A failed write leaves what it has written. *)
LEMMA WriteFailsStep == SessionInv /\ WriteFails => SessionInv'
<1> SUFFICES ASSUME SessionInv, WriteFails PROVE SessionInv'
  OBVIOUS
<1> USE SessionAssumption
<1>1. SessionTypeOK'
  BY DEF SessionInv, SessionTypeOK, WriteFails, Line
<1>2. Layout' /\ KeptUsed' /\ AckedLayout'
  BY LayoutKept DEF WriteFails
<1>3. CallLayout'
  BY DEF SessionInv, CallLayout, Writing, WriteFails, First, Second
<1>4. KeptBefore(result.entries)'
  BY DEF SessionInv, WriteFails, KeptBefore
<1> QED
  BY <1>1, <1>2, <1>3, <1>4 DEF SessionInv

(* load reads the file. *)
LEMMA LoadReadStep == SessionInv /\ LoadRead => SessionInv'
<1> SUFFICES ASSUME SessionInv, LoadRead PROVE SessionInv'
  OBVIOUS
<1> USE SessionAssumption
<1>1. SessionTypeOK'
  BY DEF SessionInv, SessionTypeOK, LoadRead
<1>2. Layout' /\ KeptUsed' /\ AckedLayout'
  BY LayoutKept DEF LoadRead
<1>3. CallLayout'
  BY DEF SessionInv, CallLayout, Writing, LoadRead, First, Second
<1>4. KeptBefore(result.entries)'
  BY DEF SessionInv, LoadRead, KeptBefore
<1> QED
  BY <1>1, <1>2, <1>3, <1>4 DEF SessionInv

(* A load that fails, and a crash, leave the file. *)
LEMMA FaultStep == SessionInv /\ (LoadFails \/ Crash) => SessionInv'
<1> SUFFICES ASSUME SessionInv, LoadFails \/ Crash PROVE SessionInv'
  OBVIOUS
<1> USE SessionAssumption
<1>0. result' = Error
  BY DEF LoadFails, Crash
<1>1. SessionTypeOK'
  <2>1. CASE LoadFails
    BY <1>0, <2>1, ErrorKept DEF SessionInv, SessionTypeOK, LoadFails, Line
  <2>2. CASE Crash
    BY <1>0, <2>2, ErrorKept DEF SessionInv, SessionTypeOK, Crash, Line
  <2> QED
    BY <2>1, <2>2
<1>2. Layout' /\ KeptUsed' /\ AckedLayout'
  BY LayoutKept DEF LoadFails, Crash
<1>3. CallLayout'
  BY DEF SessionInv, CallLayout, Writing, LoadFails, Crash, First, Second
<1>4. KeptBefore(result.entries)'
  BY <1>0, ErrorKept DEF KeptBefore
<1> QED
  BY <1>1, <1>2, <1>3, <1>4 DEF SessionInv
-----------------------------------------------------------------------------
(* The halves of a line, and the file with one more. *)
LEMMA PieceFacts ==
    ASSUME NEW l \in Line
    PROVE  /\ First(l) \in Piece /\ First(l).line = l /\ First(l).half = "first"
           /\ Second(l) \in Piece /\ Second(l).line = l /\ Second(l).half = "second"
BY DEF First, Second, Piece

(* A piece that is new to the file, a second half behind its first.        *)
LEMMA LayoutGrows ==
    ASSUME NEW c \in Seq(Piece), NEW u \in SUBSET Entries, LayoutOf(c, u),
           NEW p \in Piece, p.line \in u \cup {Header},
           \A e \in u : FirstKept[e] # p.line,
           \A i \in DOMAIN c : c[i] # p,
           p.half = "second" => Len(c) >= 1 /\ c[Len(c)] = First(p.line)
    PROVE  LayoutOf(Append(c, p), u)
<1>1. PICK d : d = Append(c, p)
  OBVIOUS
<1>2. PICK n \in Nat : n = Len(c)
  OBVIOUS
<1>3. DOMAIN c = 1 .. n /\ DOMAIN d = 1 .. n + 1 /\ d[n + 1] = p
      /\ \A i \in 1 .. n : d[i] = c[i]
  BY <1>1, <1>2
<1>4. ASSUME NEW i \in DOMAIN d, d[i].half = "second"
      PROVE  i > 1 /\ d[i - 1] = First(d[i].line)
  <2>1. CASE i = n + 1
    BY <1>2, <1>3, <1>4, <2>1
  <2>2. CASE i \in 1 .. n
    <3>1. i > 1 /\ c[i - 1] = First(c[i].line)
      BY <1>3, <1>4, <2>2 DEF LayoutOf
    <3> QED
      BY <1>3, <2>2, <3>1
  <2> QED
    BY <1>3, <2>1, <2>2
<1>5. ASSUME NEW i \in DOMAIN d, NEW j \in DOMAIN d, d[i] = d[j] PROVE i = j
  <2>1. \A k \in 1 .. n : c[k] # p
    BY <1>3
  <2> QED
    BY <1>3, <1>5, <2>1 DEF LayoutOf
<1>6. ASSUME NEW i \in DOMAIN d PROVE d[i].line \in u \cup {Header}
  BY <1>3 DEF LayoutOf
<1>7. ASSUME NEW i \in DOMAIN d, NEW j \in DOMAIN d,
             d[i].line \in Entries, d[j].line = FirstKept[d[i].line]
      PROVE  j < i
  <2>1. d[i].line \in u
    BY <1>6, <1>7, SessionAssumption
  <2>2. j \in 1 .. n
    BY <1>3, <1>7, <2>1
  <2>3. CASE i = n + 1
    BY <2>2, <2>3
  <2>4. CASE i \in 1 .. n
    BY <1>3, <1>7, <2>2, <2>4 DEF LayoutOf
  <2> QED
    BY <1>3, <2>3, <2>4
<1> QED
  BY <1>1, <1>4, <1>5, <1>6, <1>7 DEF LayoutOf

(* It does not touch the entries that were acknowledged. *)
LEMMA AckedGrows ==
    ASSUME NEW c \in Seq(Piece), NEW a, NEW u, AckedOf(c, a, u),
           NEW p \in Piece, \A j \in DOMAIN a : a[j] # p.line
    PROVE  AckedOf(Append(c, p), a, u)
<1>1. PICK d : d = Append(c, p)
  OBVIOUS
<1>2. PICK n \in Nat : n = Len(c)
  OBVIOUS
<1>3. DOMAIN c = 1 .. n /\ DOMAIN d = 1 .. n + 1 /\ d[n + 1] = p
      /\ \A i \in 1 .. n : d[i] = c[i]
  BY <1>1, <1>2
<1>4. \A j \in DOMAIN a : p # Second(a[j])
  BY DEF Second
<1>5. ASSUME NEW j \in DOMAIN a PROVE a[j] \in u /\ \E i \in DOMAIN d : d[i] = Second(a[j])
  BY <1>3 DEF AckedOf
<1>6. ASSUME NEW j \in DOMAIN a, NEW k \in DOMAIN a, NEW q \in DOMAIN d, NEW r \in DOMAIN d,
             d[q] = Second(a[j]), d[r] = Second(a[k])
      PROVE  j < k <=> q < r
  <2>1. q \in 1 .. n /\ r \in 1 .. n
    BY <1>3, <1>4, <1>6
  <2> QED
    BY <1>3, <1>6, <2>1 DEF AckedOf
<1> QED
  BY <1>1, <1>5, <1>6 DEF AckedOf

(* What a call that writes knows of its line. *)
LEMMA WritingFacts ==
    ASSUME SessionInv, Writing
    PROVE  /\ line \in used \cup {Header} /\ line \in Line
           /\ \A e \in used : FirstKept[e] # line
           /\ \A j \in DOMAIN acked : acked[j] # line
BY SessionAssumption DEF SessionInv, CallLayout, SessionTypeOK, Line

(* write_all writes the first half. *)
LEMMA WritePartStep == SessionInv /\ WritePart => SessionInv'
<1> SUFFICES ASSUME SessionInv, WritePart PROVE SessionInv'
  OBVIOUS
<1> USE SessionAssumption
<1>1. PICK p \in Piece : p = First(line) /\ p.line = line /\ p.half = "first"
  BY WritingFacts, PieceFacts DEF WritePart, Writing
<1>2. PICK c \in Seq(Piece) : c = content
  BY DEF SessionInv, SessionTypeOK
<1>3. content' = Append(c, p)
  BY <1>1, <1>2 DEF WritePart
<1>4. Append(c, p) \in Seq(Piece) /\ Len(Append(c, p)) = Len(c) + 1 /\ Append(c, p)[Len(c) + 1] = p
      /\ Len(c) \in Nat /\ \A i \in 1 .. Len(c) : Append(c, p)[i] = c[i]
  OBVIOUS
<1>5. Writing /\ \A i \in DOMAIN c : c[i] # p
  BY <1>1, <1>2 DEF SessionInv, CallLayout, WritePart, Writing
<1>6. SessionTypeOK'
  BY <1>3, <1>4 DEF SessionInv, SessionTypeOK, WritePart
<1>7. Layout'
  <2>1. LayoutOf(Append(c, p), used)
    BY <1>1, <1>2, <1>5, WritingFacts, LayoutGrows DEF SessionInv, Layout, SessionTypeOK
  <2> QED
    BY <1>3, <2>1 DEF Layout, WritePart
<1>8. KeptUsed'
  BY DEF SessionInv, KeptUsed, WritePart
<1>9. AckedLayout'
  <2>1. AckedOf(Append(c, p), acked, used)
    BY <1>1, <1>2, <1>5, WritingFacts, AckedGrows DEF SessionInv, AckedLayout
  <2> QED
    BY <1>3, <2>1 DEF AckedLayout, WritePart
<1>10. CallLayout'
  <2> DEFINE d == Append(c, p)
  <2>0. DOMAIN d = 1 .. Len(c) + 1 /\ DOMAIN c = 1 .. Len(c)
    BY <1>4
  <2>1. Len(d) = Len(c) + 1 /\ d[Len(c) + 1] = p /\ \A i \in 1 .. Len(c) : d[i] = c[i]
    BY <1>4
  <2> HIDE DEF d
  <2>2. content' = d
    BY <1>3 DEF d
  <2>3. \A i \in DOMAIN d : d[i] # Second(line)
    <3>1. Second(line).line = line /\ Second(line).half = "second"
      BY DEF Second
    <3>2. \A i \in DOMAIN c : c[i].line # line
      BY <1>2 DEF SessionInv, CallLayout, WritePart
    <3> QED
      BY <1>1, <1>4, <2>0, <2>1, <3>1, <3>2
  <2>4. line = Header => Len(d) = 1
    BY <1>2, <2>1 DEF SessionInv, CallLayout, WritePart
  <2>5. created => exists /\ Len(d) >= 2 /\ d[1] = First(Header) /\ d[2] = Second(Header)
    <3> SUFFICES ASSUME created PROVE exists /\ Len(d) >= 2 /\ d[1] = First(Header) /\ d[2] = Second(Header)
      OBVIOUS
    <3>1. exists /\ Len(c) >= 2 /\ c[1] = First(Header) /\ c[2] = Second(Header)
      BY <1>2 DEF SessionInv, CallLayout
    <3> QED
      BY <1>4, <2>1, <3>1
  <2>6. Len(d) >= 1 /\ d[Len(d)] = First(line)
    BY <1>1, <1>4, <2>1
  <2> QED
    BY <2>2, <2>3, <2>4, <2>5, <2>6, <1>5 DEF SessionInv, CallLayout, Writing, WritePart, First, Second
<1>11. KeptBefore(result.entries)'
  BY DEF SessionInv, WritePart, KeptBefore
<1> QED
  BY <1>6, <1>7, <1>8, <1>9, <1>10, <1>11 DEF SessionInv
(* write_all writes the rest. *)
LEMMA WriteRestStep == SessionInv /\ WriteRest => SessionInv'
<1> SUFFICES ASSUME SessionInv, WriteRest PROVE SessionInv'
  OBVIOUS
<1> USE SessionAssumption
<1>1. PICK p \in Piece : p = Second(line) /\ p.line = line /\ p.half = "second"
  BY WritingFacts, PieceFacts DEF WriteRest, Writing
<1>2. PICK c \in Seq(Piece) : c = content
  BY DEF SessionInv, SessionTypeOK
<1>3. content' = Append(c, p)
  BY <1>1, <1>2 DEF WriteRest
<1>4. Append(c, p) \in Seq(Piece) /\ Len(Append(c, p)) = Len(c) + 1 /\ Append(c, p)[Len(c) + 1] = p
      /\ Len(c) \in Nat /\ \A i \in 1 .. Len(c) : Append(c, p)[i] = c[i]
  OBVIOUS
<1>5. Writing /\ (\A i \in DOMAIN c : c[i] # p) /\ Len(c) >= 1 /\ c[Len(c)] = First(line)
  BY <1>1, <1>2 DEF SessionInv, CallLayout, WriteRest, Writing
<1>6. SessionTypeOK'
  BY <1>3, <1>4 DEF SessionInv, SessionTypeOK, WriteRest
<1>7. Layout'
  <2>1. LayoutOf(Append(c, p), used)
    <3>1. used \in SUBSET Entries /\ LayoutOf(c, used)
      BY <1>2 DEF SessionInv, Layout, SessionTypeOK
    <3>2. p.line \in used \cup {Header} /\ \A e \in used : FirstKept[e] # p.line
      BY <1>1, <1>5, WritingFacts
    <3>3. Len(c) >= 1 /\ c[Len(c)] = First(p.line)
      BY <1>1, <1>5
    <3> QED
      BY <1>5, <3>1, <3>2, <3>3, LayoutGrows
  <2> QED
    BY <1>3, <2>1 DEF Layout, WriteRest
<1>8. KeptUsed'
  BY DEF SessionInv, KeptUsed, WriteRest
<1>9. AckedLayout'
  <2>1. AckedOf(Append(c, p), acked, used)
    BY <1>1, <1>2, <1>5, WritingFacts, AckedGrows DEF SessionInv, AckedLayout
  <2> QED
    BY <1>3, <2>1 DEF AckedLayout, WriteRest
<1>10. CallLayout'
  <2> DEFINE d == Append(c, p)
  <2>1. Len(d) = Len(c) + 1 /\ d[Len(c) + 1] = p /\ \A i \in 1 .. Len(c) : d[i] = c[i]
    BY <1>4
  <2> HIDE DEF d
  <2>2. content' = d
    BY <1>3 DEF d
  <2>4. line = Header => Len(d) = 2
    <3>1. pc = "rest"
      BY DEF WriteRest
    <3>2. ASSUME line = Header PROVE Len(d) = 2
      <4>1. Len(content) = 1
        BY <3>1, <3>2 DEF SessionInv, CallLayout
      <4>2. Len(c) = 1
        BY <1>2, <4>1
      <4>3. Len(d) = Len(c) + 1
        BY <2>1
      <4> QED
        BY <4>2, <4>3
    <3> QED
      BY <3>2
  <2>5. created => exists /\ Len(d) >= 2 /\ d[1] = First(Header) /\ d[2] = Second(Header)
    <3> SUFFICES ASSUME created PROVE exists /\ Len(d) >= 2 /\ d[1] = First(Header) /\ d[2] = Second(Header)
      OBVIOUS
    <3>1. exists /\ Len(c) >= 2 /\ c[1] = First(Header) /\ c[2] = Second(Header)
      BY <1>2 DEF SessionInv, CallLayout
    <3> QED
      BY <1>4, <2>1, <3>1
  <2>6. Len(d) >= 2 /\ d[Len(d)] = Second(line)
    BY <1>1, <1>4, <1>5, <2>1
  <2> QED
    BY <2>2, <2>4, <2>5, <2>6, <1>5 DEF SessionInv, CallLayout, Writing, WriteRest, First, Second
<1>11. KeptBefore(result.entries)'
  BY DEF SessionInv, WriteRest, KeptBefore
<1> QED
  BY <1>6, <1>7, <1>8, <1>9, <1>10, <1>11 DEF SessionInv

(* Two pieces, one behind the other. *)
LEMMA AppendTwo ==
    ASSUME NEW S, NEW c \in Seq(S), NEW p \in S, NEW q \in S
    PROVE  c \o <<p, q>> = Append(Append(c, p), q)
<1>1. PICK two \in Seq(S) : two = <<p, q>> /\ Len(two) = 2 /\ two[1] = p /\ two[2] = q
  <2>1. <<p, q>> \in Seq(S) /\ Len(<<p, q>>) = 2 /\ <<p, q>>[1] = p /\ <<p, q>>[2] = q
    OBVIOUS
  <2> QED
    BY <2>1
<1>2. PICK l \in Seq(S) : l = c \o two
  <2>1. c \o two \in Seq(S)
    OBVIOUS
  <2> QED
    BY <2>1
<1>3. PICK d \in Seq(S) : d = Append(c, p)
  <2>1. Append(c, p) \in Seq(S)
    OBVIOUS
  <2> QED
    BY <2>1
<1>4. PICK r \in Seq(S) : r = Append(d, q)
  <2>1. Append(d, q) \in Seq(S)
    OBVIOUS
  <2> QED
    BY <2>1
<1>5. PICK n \in Nat : n = Len(c)
  OBVIOUS
<1>6. Len(l) = n + 2 /\ (\A i \in 1 .. n : l[i] = c[i]) /\ l[n + 1] = p /\ l[n + 2] = q
  BY <1>1, <1>2, <1>5
<1>7. Len(d) = n + 1 /\ (\A i \in 1 .. n : d[i] = c[i]) /\ d[n + 1] = p
  BY <1>3, <1>5
<1>8. Len(r) = n + 2 /\ (\A i \in 1 .. n : r[i] = c[i]) /\ r[n + 1] = p /\ r[n + 2] = q
  BY <1>4, <1>5, <1>7
<1>9. ASSUME NEW i \in 1 .. n + 2 PROVE l[i] = r[i]
  <2>1. i \in 1 .. n \/ i = n + 1 \/ i = n + 2
    OBVIOUS
  <2> QED
    BY <1>6, <1>8, <2>1
<1>10. l = r
  BY <1>6, <1>8, <1>9
<1> QED
  BY <1>1, <1>2, <1>3, <1>4, <1>10

(* write_all writes the line in one go. *)
LEMMA WriteAllStep == SessionInv /\ WriteAll => SessionInv'
<1> SUFFICES ASSUME SessionInv, WriteAll PROVE SessionInv'
  OBVIOUS
<1> USE SessionAssumption
<1>0. line \in Line /\ Writing /\ line \in used \cup {Header}
      /\ (\A e \in used : FirstKept[e] # line) /\ (\A j \in DOMAIN acked : acked[j] # line)
  BY WritingFacts DEF WriteAll, Writing
<1>1. PICK p \in Piece : p = First(line) /\ p.line = line /\ p.half = "first"
  BY <1>0, PieceFacts
<1>2. PICK q \in Piece : q = Second(line) /\ q.line = line /\ q.half = "second"
  BY <1>0, PieceFacts
<1>3. PICK c \in Seq(Piece) : c = content
  BY DEF SessionInv, SessionTypeOK
<1>4. Append(c, p) \in Seq(Piece) /\ Len(Append(c, p)) = Len(c) + 1 /\ Append(c, p)[Len(c) + 1] = p
      /\ Len(c) \in Nat /\ \A i \in 1 .. Len(c) : Append(c, p)[i] = c[i]
  OBVIOUS
<1>5. PICK d \in Seq(Piece) : d = Append(c, p)
  BY <1>4
<1>6. Append(d, q) \in Seq(Piece) /\ Len(Append(d, q)) = Len(d) + 1 /\ Append(d, q)[Len(d) + 1] = q
      /\ \A i \in 1 .. Len(d) : Append(d, q)[i] = d[i]
  OBVIOUS
<1>7. content' = Append(d, q)
  BY <1>1, <1>2, <1>3, <1>5, AppendTwo DEF WriteAll
<1>8. \A i \in DOMAIN c : c[i] # p /\ c[i] # q
  BY <1>1, <1>2, <1>3 DEF SessionInv, CallLayout, WriteAll
<1>9. \A i \in DOMAIN d : d[i] # q
  <2>1. DOMAIN d = 1 .. Len(c) + 1 /\ DOMAIN c = 1 .. Len(c)
    BY <1>4, <1>5
  <2> QED
    BY <1>1, <1>2, <1>4, <1>5, <1>8, <2>1
<1>10. SessionTypeOK'
  BY <1>6, <1>7 DEF SessionInv, SessionTypeOK, WriteAll
<1>11. Layout'
  <2>1. used \in SUBSET Entries /\ LayoutOf(c, used)
    BY <1>3 DEF SessionInv, Layout, SessionTypeOK
  <2>2. LayoutOf(d, used)
    BY <1>0, <1>1, <1>5, <1>8, <2>1, LayoutGrows
  <2>3. Len(d) >= 1 /\ d[Len(d)] = First(q.line)
    BY <1>1, <1>2, <1>4, <1>5
  <2>4. LayoutOf(Append(d, q), used)
    BY <1>0, <1>2, <1>9, <2>1, <2>2, <2>3, LayoutGrows
  <2> QED
    BY <1>7, <2>4 DEF Layout, WriteAll
<1>12. KeptUsed'
  BY DEF SessionInv, KeptUsed, WriteAll
<1>13. AckedLayout'
  <2>1. AckedOf(c, acked, used)
    BY <1>3 DEF SessionInv, AckedLayout
  <2>2. AckedOf(d, acked, used)
    BY <1>0, <1>1, <1>5, <2>1, AckedGrows
  <2>3. AckedOf(Append(d, q), acked, used)
    BY <1>0, <1>2, <2>2, AckedGrows
  <2> QED
    BY <1>7, <2>3 DEF AckedLayout, WriteAll
<1>14. CallLayout'
  <2>1. PICK n \in Nat : n = Len(c)
    BY <1>4
  <2>2. PICK f : f = content'
    OBVIOUS
  <2>3. Len(f) = n + 2 /\ f[n + 2] = q /\ \A i \in 1 .. n : f[i] = c[i]
    <3>1. Len(d) = n + 1 /\ \A i \in 1 .. n : d[i] = c[i]
      BY <1>4, <1>5, <2>1
    <3>2. \A i \in 1 .. n : i \in 1 .. Len(d)
      BY <2>1, <3>1
    <3> QED
      BY <1>6, <1>7, <2>2, <3>1, <3>2
  <2>4. line = Header => Len(f) = 2
    BY <1>3, <2>1, <2>3 DEF SessionInv, CallLayout, WriteAll
  <2>5. created => exists /\ Len(f) >= 2 /\ f[1] = First(Header) /\ f[2] = Second(Header)
    <3> SUFFICES ASSUME created PROVE exists /\ Len(f) >= 2 /\ f[1] = First(Header) /\ f[2] = Second(Header)
      OBVIOUS
    <3>1. exists /\ Len(c) >= 2 /\ c[1] = First(Header) /\ c[2] = Second(Header)
      BY <1>3 DEF SessionInv, CallLayout
    <3> QED
      BY <2>1, <2>3, <3>1
  <2>6. Len(f) >= 2 /\ f[Len(f)] = Second(line)
    BY <1>2, <2>3
  <2> QED
    BY <1>0, <2>2, <2>4, <2>5, <2>6 DEF SessionInv, CallLayout, Writing, WriteAll, First, Second
<1>15. KeptBefore(result.entries)'
  BY DEF SessionInv, WriteAll, KeptBefore
<1> QED
  BY <1>10, <1>11, <1>12, <1>13, <1>14, <1>15 DEF SessionInv

(* The call returns Ok: its line is the last one of the file. *)
LEMMA FlushStep == SessionInv /\ Flush => SessionInv'
<1> SUFFICES ASSUME SessionInv, Flush PROVE SessionInv'
  OBVIOUS
<1> USE SessionAssumption
<1>0. Writing /\ line \in used \cup {Header} /\ line \in Line
      /\ (\A e \in used : FirstKept[e] # line) /\ (\A j \in DOMAIN acked : acked[j] # line)
  BY WritingFacts DEF Flush, Writing
<1>1. Len(content) >= 2 /\ content[Len(content)] = Second(line) /\ (line = Header => Len(content) = 2)
  BY DEF SessionInv, CallLayout, Flush
<1>2. content \in Seq(Piece) /\ acked \in Seq(Entries)
  BY DEF SessionInv, SessionTypeOK
<1>3. KeptBefore(result.entries)' /\ Layout' /\ KeptUsed'
  BY DEF SessionInv, Layout, KeptUsed, KeptBefore, Flush
<1>4. CASE line = Header
  <2>1. created' = TRUE /\ acked' = acked
    BY <1>4 DEF Flush
  <2>2. SessionTypeOK'
    BY <2>1 DEF SessionInv, SessionTypeOK, Flush
  <2>3. AckedLayout'
    BY <2>1 DEF SessionInv, AckedLayout, Flush
  <2>4. content[1] = First(Header) /\ content[2] = Second(Header)
    <3>0. Len(content) = 2 /\ content[2] = Second(Header)
      BY <1>1, <1>4
    <3>1. Len(content) = 2 /\ 2 \in DOMAIN content /\ content[2] = Second(Header)
      BY <1>2, <3>0
    <3>2. content[2].half = "second" /\ content[2].line = Header
      BY <3>1 DEF Second
    <3>3. content[2 - 1] = First(Header)
      BY <3>1, <3>2 DEF SessionInv, Layout, LayoutOf
    <3> QED
      BY <3>1, <3>3
  <2>5. CallLayout'
    BY <1>1, <1>4, <2>1, <2>4 DEF SessionInv, CallLayout, Writing, Flush, First, Second
  <2> QED
    BY <1>3, <2>2, <2>3, <2>5 DEF SessionInv
<1>5. CASE line # Header
  <2>0. line \in Entries /\ line \in used
    BY <1>0, <1>5 DEF Line
  <2>1. created' = created /\ acked' = Append(acked, line)
    BY <1>5 DEF Flush
  <2>2. Append(acked, line) \in Seq(Entries)
    BY <1>2, <2>0
  <2>3. SessionTypeOK'
    BY <2>1, <2>2 DEF SessionInv, SessionTypeOK, Flush
  <2>4. CallLayout'
    BY <2>1 DEF SessionInv, CallLayout, Writing, Flush, First, Second
  <2>5. AckedLayout'
    <3>1. PICK m \in Nat : m = Len(acked)
      BY <1>2
    <3>2. PICK n \in Nat : n = Len(content)
      BY <1>2
    <3>3. PICK a : a = Append(acked, line)
      OBVIOUS
    <3>4. DOMAIN acked = 1 .. m /\ DOMAIN a = 1 .. m + 1 /\ a[m + 1] = line
          /\ \A j \in 1 .. m : a[j] = acked[j]
      BY <1>2, <2>0, <3>1, <3>3
    <3>5. DOMAIN content = 1 .. n /\ n >= 2 /\ content[n] = Second(line)
      BY <1>1, <1>2, <3>2
    <3>6. ASSUME NEW j \in DOMAIN a
          PROVE  a[j] \in used /\ \E i \in DOMAIN content : content[i] = Second(a[j])
      <4>1. CASE j = m + 1
        <5>1. n \in DOMAIN content
          BY <3>5
        <5> QED
          BY <2>0, <3>4, <3>5, <4>1, <5>1
      <4>2. CASE j \in 1 .. m
        BY <3>4, <4>2 DEF SessionInv, AckedLayout, AckedOf
      <4> QED
        BY <3>4, <4>1, <4>2
    <3>7. ASSUME NEW p \in DOMAIN content, content[p] = Second(line) PROVE p = n
      BY <3>5, <3>7 DEF SessionInv, Layout, LayoutOf
    <3>8. ASSUME NEW p \in DOMAIN content, NEW j \in 1 .. m, content[p] = Second(a[j])
          PROVE  p < n
      <4>1. a[j] # line
        BY <1>0, <3>4
      <4>2. Second(a[j]) # Second(line)
        BY <4>1 DEF Second
      <4> QED
        BY <3>5, <3>8, <4>2
    <3>9. ASSUME NEW j \in DOMAIN a, NEW k \in DOMAIN a,
                 NEW p \in DOMAIN content, NEW q \in DOMAIN content,
                 content[p] = Second(a[j]), content[q] = Second(a[k])
          PROVE  j < k <=> p < q
      <4>1. CASE j \in 1 .. m /\ k \in 1 .. m
        BY <3>4, <3>9, <4>1 DEF SessionInv, AckedLayout, AckedOf
      <4>2. CASE j = m + 1 /\ k \in 1 .. m
        <5>1. p = n /\ q < n
          BY <3>4, <3>7, <3>8, <3>9, <4>2
        <5> QED
          BY <3>5, <4>2, <5>1
      <4>3. CASE j \in 1 .. m /\ k = m + 1
        <5>1. q = n /\ p < n
          BY <3>4, <3>7, <3>8, <3>9, <4>3
        <5> QED
          BY <3>5, <4>3, <5>1
      <4>4. CASE j = m + 1 /\ k = m + 1
        <5>1. p = n /\ q = n
          BY <3>4, <3>7, <3>9, <4>4
        <5> QED
          BY <4>4, <5>1
      <4> QED
        BY <3>4, <4>1, <4>2, <4>3, <4>4
    <3>10. AckedOf(content, a, used)
      BY <3>6, <3>9 DEF AckedOf
    <3> QED
      BY <2>1, <3>3, <3>10 DEF AckedLayout, Flush
  <2> QED
    BY <1>3, <2>3, <2>4, <2>5 DEF SessionInv
<1> QED
  BY <1>4, <1>5
-----------------------------------------------------------------------------
(* A set of positions has a last one ... *)
LEMMA HighestProperty ==
    ASSUME NEW n \in Nat, NEW S \in SUBSET (1 .. n), S # {}
    PROVE  Highest(S) \in S /\ \A j \in S : j <= Highest(S)
<1> DEFINE Has(m) == \A R \in SUBSET (1 .. m) : R # {} => \E i \in R : \A j \in R : j <= i
           T == {m \in Nat : Has(m)}
<1>1. 0 \in T
  <2>1. 1 .. 0 = {}
    OBVIOUS
  <2> QED
    BY <2>1
<1>2. ASSUME NEW m \in Nat, m \in T PROVE m + 1 \in T
  <2> SUFFICES ASSUME NEW R \in SUBSET (1 .. m + 1), R # {} PROVE \E i \in R : \A j \in R : j <= i
    OBVIOUS
  <2>1. CASE m + 1 \in R
    BY <2>1
  <2>2. CASE m + 1 \notin R
    <3>1. R \in SUBSET (1 .. m)
      BY <2>2
    <3> QED
      BY <1>2, <3>1
  <2> QED
    BY <2>1, <2>2
<1> HIDE DEF T
<1>3. \A m \in Nat : m \in T
  BY <1>1, <1>2, NaturalInduction
<1>4. Has(n)
  BY <1>3 DEF T
<1>5. \E i \in S : \A j \in S : j <= i
  BY <1>4
<1> QED
  BY <1>5 DEF Highest

(* ... and a first one. *)
LEMMA LowestProperty ==
    ASSUME NEW S \in SUBSET Nat, S # {}
    PROVE  Lowest(S) \in S /\ \A j \in S : Lowest(S) <= j
<1> DEFINE Less == {ss \in Nat \X Nat : ss[1] < ss[2]}
<1>1. OpToRel(<, Nat) = Less
  BY DEF OpToRel
<1>2. IsWellFoundedOn(OpToRel(<, Nat), Nat)
  BY NatLessThanWellFounded
<1>3. \E x \in S : \A y \in S : ~(<<y, x>> \in OpToRel(<, Nat))
  BY <1>2, WFMin
<1>4. PICK x \in S : \A y \in S : ~(<<y, x>> \in Less)
  BY <1>1, <1>3, Zenon
<1>5. \A y \in S : x <= y
  <2> SUFFICES ASSUME NEW y \in S PROVE x <= y
    OBVIOUS
  <2>1. x \in Nat /\ y \in Nat
    OBVIOUS
  <2>2. ~(<<y, x>> \in Less)
    BY <1>4
  <2>3. ~(y < x)
    BY <2>1, <2>2
  <2> QED
    BY <2>1, <2>3
<1> QED
  BY <1>5 DEF Lowest

(* The file up to its last newline: what is cut ends no line. *)
LEMMA CompleteLenProperty ==
    ASSUME NEW c \in Seq(Piece)
    PROVE  /\ CompleteLen(c) \in 0 .. Len(c)
           /\ \A i \in DOMAIN c : c[i].half = "second" => i <= CompleteLen(c)
<1>1. Len(c) \in Nat /\ DOMAIN c = 1 .. Len(c) /\ Ends(c) \in SUBSET (1 .. Len(c))
  BY DEF Ends
<1>2. CASE Ends(c) = {}
  BY <1>1, <1>2 DEF CompleteLen, Ends
<1>3. CASE Ends(c) # {}
  <2>1. Highest(Ends(c)) \in Ends(c) /\ \A j \in Ends(c) : j <= Highest(Ends(c))
    BY <1>1, <1>3, HighestProperty
  <2>2. CompleteLen(c) = Highest(Ends(c))
    BY <1>3 DEF CompleteLen
  <2>3. \A i \in DOMAIN c : c[i].half = "second" => i \in Ends(c)
    BY DEF Ends
  <2> QED
    BY <1>1, <2>1, <2>2, <2>3
<1> QED
  BY <1>2, <1>3

(* d is c up to m. *)
Cut(c, d, m) == d \in Seq(Piece) /\ Len(d) = m /\ \A i \in 1 .. m : d[i] = c[i]

(* What load leaves of the file, and reads. *)
LEMMA CutProperty ==
    ASSUME NEW c \in Seq(Piece)
    PROVE  /\ Cut(c, SubSeq(c, 1, CompleteLen(c)), CompleteLen(c))
           /\ ~(CompleteLen(c) < Len(c)) => SubSeq(c, 1, CompleteLen(c)) = c
<1>1. PICK m \in 0 .. Len(c) : m = CompleteLen(c)
  BY CompleteLenProperty
<1>2. Len(c) \in Nat /\ m \in Nat
  BY <1>1
<1>3. SubSeq(c, 1, m) \in Seq(Piece) /\ Len(SubSeq(c, 1, m)) = m
      /\ \A i \in 1 .. m : SubSeq(c, 1, m)[i] = c[i]
  BY <1>1, <1>2
<1>4. PICK d : d = SubSeq(c, 1, m)
  OBVIOUS
<1>5. ~(m < Len(c)) => d = c
  <2> SUFFICES ASSUME ~(m < Len(c)) PROVE d = c
    OBVIOUS
  <2>1. m = Len(c)
    BY <1>2
  <2>2. d \in Seq(Piece) /\ Len(d) = Len(c) /\ \A i \in 1 .. Len(c) : d[i] = c[i]
    BY <1>3, <1>4, <2>1
  <2> QED
    BY <2>2
<1> QED
  BY <1>1, <1>3, <1>4, <1>5 DEF Cut

(* In the entries of a file a compaction is behind what it keeps. *)
LEMMA EntriesKeptBefore ==
    ASSUME NEW c \in Seq(Piece), NEW u, LayoutOf(c, u)
    PROVE  KeptBefore(EntriesIn(c))
<1>1. PICK s \in Seq(Entries) : s = EntriesIn(c)
  BY EntriesProperty
<1>2. PICK at : EntriesAt(c, s, at)
  BY <1>1, EntriesProperty
<1>3. ASSUME NEW j \in DOMAIN s, NEW k \in DOMAIN s, FirstKept[s[k]] = s[j] PROVE j < k
  <2>1. j \in 1 .. Len(s) /\ k \in 1 .. Len(s) /\ Len(s) \in Nat /\ s[k] \in Entries
    OBVIOUS
  <2>2. at[j] \in DOMAIN c /\ at[k] \in DOMAIN c /\ s[j] = c[at[j]].line /\ s[k] = c[at[k]].line
    BY <1>2, <2>1 DEF EntriesAt
  <2>3. at[j] < at[k]
    BY <1>3, <2>1, <2>2 DEF LayoutOf
  <2>4. DOMAIN c = 1 .. Len(c) /\ Len(c) \in Nat
    OBVIOUS
  <2>5. CASE k < j
    <3>1. at[k] < at[j]
      BY <1>2, <2>1, <2>5 DEF EntriesAt
    <3> QED
      BY <2>2, <2>3, <2>4, <3>1
  <2>6. CASE k = j
    BY <2>2, <2>3, <2>4, <2>6
  <2> QED
    BY <2>1, <2>5, <2>6
<1> QED
  BY <1>1, <1>3 DEF KeptBefore

(* What load returns. *)
LEMMA LoadedProperty ==
    ASSUME NEW c \in Seq(Piece), NEW u, LayoutOf(c, u)
    PROVE  Loaded(c) \in Result /\ KeptBefore(Loaded(c).entries)
<1>1. EntriesIn(c) \in Seq(Entries) /\ KeptBefore(EntriesIn(c))
  BY EntriesProperty, EntriesKeptBefore
<1>2. PICK s \in Seq(Entries) : s = EntriesIn(c)
  BY <1>1
<1>3. Loaded(c) = [ok |-> TRUE, entries |-> s] \/ Loaded(c) = Error
  BY <1>2 DEF Loaded
<1>4. CASE Loaded(c) = Error
  BY <1>4, ErrorKept
<1>5. CASE Loaded(c) = [ok |-> TRUE, entries |-> s]
  <2>1. Loaded(c) \in Result /\ Loaded(c).entries = s
    BY <1>5 DEF Result
  <2> QED
    BY <1>1, <1>2, <2>1
<1> QED
  BY <1>3, <1>4, <1>5

(* A cut of what ends no line keeps every line that is known. *)
LEMMA LoadRepairStep == SessionInv /\ LoadRepair => SessionInv'
<1> SUFFICES ASSUME SessionInv, LoadRepair PROVE SessionInv'
  OBVIOUS
<1> USE SessionAssumption
<1>1. PICK c \in Seq(Piece) : c = content
  BY DEF SessionInv, SessionTypeOK
<1>2. seen = c /\ exists /\ line = NoEntry
  BY <1>1 DEF SessionInv, CallLayout, Writing, LoadRepair
<1>3. PICK m \in 0 .. Len(c) : m = CompleteLen(c)
  BY CompleteLenProperty
<1>4. PICK d : d = SubSeq(c, 1, m)
  OBVIOUS
<1>5. d \in Seq(Piece) /\ Len(d) = m /\ (\A i \in 1 .. m : d[i] = c[i]) /\ (~(m < Len(c)) => d = c)
  BY <1>3, <1>4, CutProperty DEF Cut
<1>6. content' = d /\ result' = Loaded(d)
  BY <1>1, <1>2, <1>3, <1>4, <1>5 DEF LoadRepair
<1>7. DOMAIN c = 1 .. Len(c) /\ DOMAIN d = 1 .. m /\ Len(c) \in Nat /\ m \in Nat /\ m <= Len(c)
  BY <1>3, <1>5
<1>8. \A i \in DOMAIN c : c[i].half = "second" => i \in DOMAIN d
  BY <1>3, <1>7, CompleteLenProperty
<1>9. LayoutOf(d, used)
  <2>1. LayoutOf(c, used)
    BY <1>1 DEF SessionInv, Layout
  <2>2. \A i \in DOMAIN d : i \in DOMAIN c /\ d[i] = c[i] /\ (i > 1 => d[i - 1] = c[i - 1])
    BY <1>5, <1>7
  <2> QED
    BY <2>1, <2>2 DEF LayoutOf
<1>10. AckedOf(d, acked, used)
  <2>1. AckedOf(c, acked, used)
    BY <1>1 DEF SessionInv, AckedLayout
  <2>2. \A i \in DOMAIN d : i \in DOMAIN c /\ d[i] = c[i]
    BY <1>5, <1>7
  <2>3. \A e, i : i \in DOMAIN c /\ c[i] = Second(e) => i \in DOMAIN d
    BY <1>8 DEF Second
  <2> QED
    BY <2>1, <2>2, <2>3 DEF AckedOf
<1>11. Loaded(d) \in Result /\ KeptBefore(Loaded(d).entries)
  BY <1>5, <1>9, LoadedProperty
<1>12. SessionTypeOK'
  <2>0. <<>> \in Seq(Piece)
    OBVIOUS
  <2>1. content' \in Seq(Piece) /\ result' \in Result /\ seen' \in Seq(Piece) /\ pc' = "idle"
    BY <1>5, <1>6, <1>11, <2>0, Zenon DEF LoadRepair
  <2>2. UNCHANGED <<exists, line, created, acked, used, faults>>
    BY DEF LoadRepair
  <2> QED
    BY <2>1, <2>2 DEF SessionInv, SessionTypeOK
<1>13. Layout' /\ KeptUsed' /\ AckedLayout'
  BY <1>6, <1>9, <1>10 DEF SessionInv, Layout, KeptUsed, AckedLayout, LoadRepair
<1>14. CallLayout'
  <2>1. created => Len(d) >= 2 /\ d[1] = First(Header) /\ d[2] = Second(Header)
    <3> SUFFICES ASSUME created PROVE Len(d) >= 2 /\ d[1] = First(Header) /\ d[2] = Second(Header)
      OBVIOUS
    <3>1. Len(c) >= 2 /\ c[1] = First(Header) /\ c[2] = Second(Header)
      BY <1>1 DEF SessionInv, CallLayout
    <3>2. 2 \in DOMAIN d
      BY <1>7, <1>8, <3>1 DEF Second
    <3> QED
      BY <1>5, <1>7, <3>1, <3>2
  <2>2. (~created => used = {}) /\ pc' = "idle" /\ created' = created /\ used' = used /\ exists' = exists
        /\ line' = line
    BY DEF SessionInv, CallLayout, LoadRepair
  <2> QED
    BY <1>2, <1>6, <2>1, <2>2 DEF CallLayout, Writing, First, Second
<1>15. KeptBefore(result.entries)'
  BY <1>6, <1>11 DEF KeptBefore
<1> QED
  BY <1>12, <1>13, <1>14, <1>15 DEF SessionInv

(* Every step keeps the invariant. *)
LEMMA SessionInvNext == SessionInv /\ [SessionNext]_sessionVars => SessionInv'
<1> SUFFICES ASSUME SessionInv, [SessionNext]_sessionVars PROVE SessionInv'
  OBVIOUS
<1>1. CASE Create
  BY <1>1, CreateStep
<1>2. ASSUME NEW e \in Entries, AppendEntry(e) PROVE SessionInv'
  BY <1>2, AppendEntryStep
<1>3. CASE WriteAll
  BY <1>3, WriteAllStep
<1>4. CASE WritePart
  BY <1>4, WritePartStep
<1>5. CASE WriteRest
  BY <1>5, WriteRestStep
<1>6. CASE Flush
  BY <1>6, FlushStep
<1>7. CASE WriteFails
  BY <1>7, WriteFailsStep
<1>8. CASE LoadRead
  BY <1>8, LoadReadStep
<1>9. CASE LoadRepair
  BY <1>9, LoadRepairStep
<1>10. CASE LoadFails \/ Crash
  BY <1>10, FaultStep
<1>11. CASE UNCHANGED sessionVars
  <2>1. UNCHANGED <<content, acked, used>>
    BY <1>11 DEF sessionVars
  <2>2. SessionTypeOK'
    BY <1>11 DEF sessionVars, SessionInv, SessionTypeOK
  <2>3. CallLayout'
    BY <1>11 DEF sessionVars, SessionInv, CallLayout, Writing, First, Second
  <2>4. KeptBefore(result.entries)'
    BY <1>11 DEF sessionVars, SessionInv, KeptBefore
  <2> QED
    BY <2>1, <2>2, <2>3, <2>4, LayoutKept DEF SessionInv
<1> QED
  BY <1>1, <1>2, <1>3, <1>4, <1>5, <1>6, <1>7, <1>8, <1>9, <1>10, <1>11 DEF SessionNext

(* So it is an invariant. *)
LEMMA SessionInvariance == SessionSpec => []SessionInv
BY SessionInitInv, SessionInvNext, PTL DEF SessionSpec

(* The file is a sequence of halves of lines, and the calls of create,     *)
(* append and load keep their types.                                       *)
THEOREM SessionTypeCorrect == SessionSpec => []SessionTypeOK
<1>1. SessionInv => SessionTypeOK
  BY DEF SessionInv
<1> QED
  BY <1>1, SessionInvariance, PTL
-----------------------------------------------------------------------------
(* A line whose second half is there parses, unless its first half is      *)
(* fused to the piece before it.                                           *)
LEMMA CompleteParses ==
    ASSUME SessionInv, NEW i \in DOMAIN content, content[i].half = "second"
    PROVE  /\ i > 1 /\ i - 1 \in DOMAIN content /\ content[i - 1] = First(content[i].line)
           /\ Parses(content, i) \/ Fused(i - 1)
<1>1. content \in Seq(Piece) /\ DOMAIN content = 1 .. Len(content) /\ Len(content) \in Nat
  BY DEF SessionInv, SessionTypeOK
<1>2. i > 1 /\ content[i - 1] = First(content[i].line)
  BY DEF SessionInv, Layout, LayoutOf
<1>3. i - 1 \in DOMAIN content
  BY <1>1, <1>2
<1>4. CASE i > 2 => content[i - 2].half = "second"
  BY <1>2, <1>3, <1>4 DEF Parses
<1>5. CASE i > 2 /\ content[i - 2].half # "second"
  <2>1. i - 2 \in DOMAIN content /\ (i - 1) - 1 = i - 2 /\ i - 1 > 1
    BY <1>1, <1>5
  <2>2. content[i - 2] \in Piece
    BY <1>1, <2>1
  <2>3. content[i - 2].half = "first"
    BY <1>5, <2>2 DEF Piece
  <2>4. content[i - 1].half = "first"
    BY <1>2 DEF First
  <2>5. Fused(i - 1)
    BY <2>1, <2>3, <2>4 DEF Fused
  <2> QED
    BY <1>2, <1>3, <2>5
<1> QED
  BY <1>4, <1>5

(* The invariant gives what is promised of acknowledged entries: their     *)
(* lines are in the file in order, and Stored reads the file in order.     *)
LEMMA AckedFromInv == SessionInv => AckedEntriesKept
<1> SUFFICES ASSUME SessionInv PROVE AckedEntriesKept
  OBVIOUS
<1> USE SessionAssumption
<1>1. content \in Seq(Piece) /\ acked \in Seq(Entries)
  BY DEF SessionInv, SessionTypeOK
<1>2. PICK s \in Seq(Entries) : s = Stored
  BY <1>1, EntriesProperty DEF Stored
<1>3. PICK at : EntriesAt(content, s, at)
  BY <1>1, <1>2, EntriesProperty DEF Stored
<1>4. DOMAIN s = 1 .. Len(s) /\ Len(s) \in Nat /\ DOMAIN content = 1 .. Len(content)
      /\ Len(content) \in Nat /\ DOMAIN acked = 1 .. Len(acked) /\ Len(acked) \in Nat
  BY <1>1
<1>5. \A p \in DOMAIN s : at[p] \in DOMAIN content /\ content[at[p]] = Second(s[p])
  <2> SUFFICES ASSUME NEW p \in DOMAIN s
               PROVE  at[p] \in DOMAIN content /\ content[at[p]] = Second(s[p])
    OBVIOUS
  <2>1. at[p] \in DOMAIN content /\ at[p] \in EntryEnds(content) /\ s[p] = content[at[p]].line
    BY <1>3, <1>4 DEF EntriesAt
  <2>2. content[at[p]].half = "second"
    BY <2>1 DEF EntryEnds, Ends
  <2>3. content[at[p]] \in Piece
    BY <1>1, <2>1
  <2> QED
    BY <2>1, <2>2, <2>3 DEF Piece, Second
<1>6. \A p, q \in DOMAIN s : at[p] < at[q] <=> p < q
  <2> SUFFICES ASSUME NEW p \in DOMAIN s, NEW q \in DOMAIN s PROVE at[p] < at[q] <=> p < q
    OBVIOUS
  <2>1. p < q => at[p] < at[q]
    BY <1>3, <1>4 DEF EntriesAt
  <2>2. q < p => at[q] < at[p]
    BY <1>3, <1>4 DEF EntriesAt
  <2>3. at[p] \in Nat /\ at[q] \in Nat /\ p \in Nat /\ q \in Nat
    BY <1>4, <1>5
  <2> QED
    BY <2>1, <2>2, <2>3
<1>7. ASSUME NEW j \in DOMAIN acked, NEW k \in DOMAIN acked, NEW p \in DOMAIN s, NEW q \in DOMAIN s,
             acked[j] = s[p], acked[k] = s[q]
      PROVE  j < k <=> p < q
  <2>1. content[at[p]] = Second(acked[j]) /\ content[at[q]] = Second(acked[k])
    BY <1>5, <1>7
  <2>2. j < k <=> at[p] < at[q]
    BY <1>5, <2>1 DEF SessionInv, AckedLayout, AckedOf
  <2> QED
    BY <1>6, <2>2
<1>8. ASSUME NEW j \in DOMAIN acked
      PROVE  \/ \E p \in DOMAIN s : s[p] = acked[j]
             \/ \E i \in DOMAIN content : content[i] = First(acked[j]) /\ Fused(i)
  <2>1. PICK i \in DOMAIN content : content[i] = Second(acked[j])
    BY DEF SessionInv, AckedLayout, AckedOf
  <2>2. content[i].half = "second" /\ content[i].line = acked[j] /\ acked[j] \in Entries
    BY <1>1, <2>1 DEF Second
  <2>3. CASE Parses(content, i)
    <3>1. i \in EntryEnds(content)
      BY <2>2, <2>3 DEF EntryEnds, Ends
    <3>2. PICK p \in 1 .. Len(s) : at[p] = i
      BY <1>3, <3>1 DEF EntriesAt
    <3>3. s[p] = content[i].line
      BY <1>3, <3>2 DEF EntriesAt
    <3> QED
      BY <1>4, <2>2, <3>2, <3>3
  <2>4. CASE ~Parses(content, i)
    BY <2>2, <2>4, CompleteParses
  <2> QED
    BY <2>3, <2>4
<1> QED
  BY <1>2, <1>7, <1>8 DEF AckedEntriesKept

(* "A crash can lose at most the single in-flight entry": an entry whose   *)
(* append returned stays in the file, in order, through all crashes,       *)
(* failed writes and repairs, unless it was written behind a partial line. *)
THEOREM AckedEntriesAlwaysKept == SessionSpec => []AckedEntriesKept
BY AckedFromInv, SessionInvariance, PTL

-----------------------------------------------------------------------------
(* The entries that a step leaves in the file: the same ones, or one more. *)
LEMMA StoredSame ==
    ASSUME SessionInv, UNCHANGED content
    PROVE  Stored' = Stored
BY DEF Stored

(* A first half adds no entry. *)
LEMMA FirstAdds ==
    ASSUME NEW c \in Seq(Piece), NEW l \in Line
    PROVE  Append(c, First(l)) \in Seq(Piece) /\ EntriesIn(Append(c, First(l))) = EntriesIn(c)
<1>1. PICK p \in Piece : p = First(l) /\ p.half = "first"
  BY PieceFacts
<1>2. PICK d \in Seq(Piece) : d = Append(c, p)
  <2>1. Append(c, p) \in Seq(Piece)
    OBVIOUS
  <2> QED
    BY <2>1
<1>3. Len(d) = Len(c) + 1 /\ Len(c) \in Nat /\ d[Len(c) + 1] = p /\ \A i \in 1 .. Len(c) : c[i] = d[i]
  BY <1>2
<1>4. \A i \in 1 .. Len(d) : i > Len(c) => d[i].half # "second"
  BY <1>1, <1>3
<1>5. EntriesIn(d) = EntriesIn(c)
  BY <1>3, <1>4, EntriesSame
<1> QED
  BY <1>1, <1>2, <1>5

(* A second half adds its entry, or none. *)
LEMMA SecondAdds ==
    ASSUME NEW c \in Seq(Piece), NEW l \in Line
    PROVE  \/ EntriesIn(Append(c, Second(l))) = EntriesIn(c)
           \/ l \in Entries /\ EntriesIn(Append(c, Second(l))) = Append(EntriesIn(c), l)
<1>1. PICK p \in Piece : p = Second(l) /\ p.line = l
  BY PieceFacts
<1>2. PICK d : d = Append(c, p)
  OBVIOUS
<1>3. EntriesIn(d) = IF Len(c) + 1 \in EntryEnds(d) THEN Append(EntriesIn(c), p.line) ELSE EntriesIn(c)
  BY <1>2, EntriesAppend
<1>4. CASE Len(c) + 1 \in EntryEnds(d)
  <2>1. d[Len(c) + 1] = p
    BY <1>2
  <2>2. p.line # Header
    BY <1>4, <2>1 DEF EntryEnds
  <2> QED
    BY <1>1, <1>2, <1>3, <1>4, <2>2 DEF Line
<1>5. CASE Len(c) + 1 \notin EntryEnds(d)
  BY <1>1, <1>2, <1>3, <1>5
<1> QED
  BY <1>4, <1>5

(* Every step is a step of the store in memory, or leaves it. *)
LEMMA LogStep == SessionInv /\ [SessionNext]_sessionVars => [Log!Next]_(Log!vars)
<1> SUFFICES ASSUME SessionInv, [SessionNext]_sessionVars PROVE [Log!Next]_(Log!vars)
  OBVIOUS
<1>0. content \in Seq(Piece)
  BY DEF SessionInv, SessionTypeOK
<1>1. CASE Create
  <2>1. Stored' = Stored /\ ~exists /\ exists' = TRUE
    BY <1>1, StoredSame DEF Create
  <2> QED
    BY <2>1 DEF Log!Next, Log!Create
<1>2. CASE WriteAll \/ WriteRest
  <2>1. exists /\ exists' = exists /\ line \in Line
    <3>1. Writing
      BY <1>2 DEF WriteAll, WriteRest, Writing
    <3>2. exists
      BY <3>1 DEF SessionInv, CallLayout
    <3> QED
      BY <1>2, <3>1, <3>2, WritingFacts DEF WriteAll, WriteRest
  <2>2. PICK c \in Seq(Piece) : EntriesIn(c) = Stored /\ content' = Append(c, Second(line))
    <3>1. CASE WriteRest
      BY <1>0, <3>1 DEF WriteRest, Stored
    <3>2. CASE WriteAll
      <4>1. First(line) \in Piece /\ Second(line) \in Piece
        BY <2>1, PieceFacts
      <4>2. content' = Append(Append(content, First(line)), Second(line))
        BY <1>0, <3>2, <4>1, AppendTwo DEF WriteAll
      <4>3. Append(content, First(line)) \in Seq(Piece)
            /\ EntriesIn(Append(content, First(line))) = EntriesIn(content)
        BY <1>0, <2>1, FirstAdds
      <4> QED
        BY <4>2, <4>3 DEF Stored
    <3> QED
      BY <1>2, <3>1, <3>2
  <2>3. \/ EntriesIn(Append(c, Second(line))) = EntriesIn(c)
        \/ line \in Entries /\ EntriesIn(Append(c, Second(line))) = Append(EntriesIn(c), line)
    BY <2>1, SecondAdds
  <2>4. Stored' = EntriesIn(Append(c, Second(line)))
    BY <2>2 DEF Stored
  <2>5. Stored' = Stored \/ (line \in Entries /\ Stored' = Append(Stored, line))
    BY <2>2, <2>3, <2>4
  <2> QED
    BY <2>1, <2>5 DEF Log!Next, Log!Append_, Log!vars
<1>3. CASE WritePart
  <2>1. line \in Line /\ exists' = exists /\ content' = Append(content, First(line))
    BY <1>3, WritingFacts DEF WritePart, Writing
  <2>2. EntriesIn(Append(content, First(line))) = EntriesIn(content)
    BY <1>0, <2>1, FirstAdds
  <2>3. Stored' = Stored
    BY <2>1, <2>2 DEF Stored
  <2> QED
    BY <2>1, <2>3 DEF Log!vars
<1>4. CASE LoadRepair
  <2>1. PICK c \in Seq(Piece) : c = content
    BY <1>0
  <2>2. seen = c
    BY <1>4, <2>1 DEF SessionInv, CallLayout, LoadRepair
  <2>3. PICK m \in 0 .. Len(c) : m = CompleteLen(c)
    BY CompleteLenProperty
  <2>4. PICK d : d = SubSeq(c, 1, m)
    OBVIOUS
  <2>5. d \in Seq(Piece) /\ Len(d) = m /\ (\A i \in 1 .. m : d[i] = c[i]) /\ (~(m < Len(c)) => d = c)
    BY <2>3, <2>4, CutProperty DEF Cut
  <2>6. content' = d /\ exists' = exists
    BY <1>4, <2>1, <2>2, <2>3, <2>4, <2>5 DEF LoadRepair
  <2>7. \A i \in 1 .. Len(c) : i > m => c[i].half # "second"
    <3>1. \A i \in DOMAIN c : c[i].half = "second" => i <= m
      BY <2>3, CompleteLenProperty
    <3>2. DOMAIN c = 1 .. Len(c) /\ Len(c) \in Nat /\ m \in Nat
      BY <2>3
    <3> QED
      BY <3>1, <3>2
  <2>8. EntriesIn(c) = EntriesIn(d)
    <3>1. Len(d) <= Len(c) /\ \A i \in 1 .. Len(d) : d[i] = c[i]
      BY <2>3, <2>5
    <3> QED
      BY <2>5, <2>7, <3>1, EntriesSame
  <2>9. Stored' = Stored
    BY <2>1, <2>6, <2>8 DEF Stored
  <2> QED
    BY <2>6, <2>9 DEF Log!vars
<1>5. CASE UNCHANGED <<content, exists>>
  <2>1. Stored' = Stored
    BY <1>5, StoredSame
  <2> QED
    BY <1>5, <2>1 DEF Log!vars
<1> QED
  BY <1>1, <1>2, <1>3, <1>4, <1>5
     DEF SessionNext, AppendEntry, Flush, WriteFails, LoadRead, LoadFails, Crash, sessionVars

(* The file store implements the store in memory: seen through the lines   *)
(* that parse, a session only gains entries, one at a time, at the end,    *)
(* whatever crashes and however load repairs the file.                     *)
THEOREM SessionImplementsLog == SessionSpec => ImplementsLog
<1>1. SessionInit => Log!Init
  <2> SUFFICES ASSUME SessionInit PROVE Log!Init
    OBVIOUS
  <2>1. content = <<>> /\ <<>> \in Seq(Piece) /\ ~exists
    BY DEF SessionInit
  <2>2. EntriesIn(<<>>) \in Seq(Entries) /\ \E at : EntriesAt(<<>>, EntriesIn(<<>>), at)
    BY <2>1, EntriesProperty
  <2>3. PICK s \in Seq(Entries) : s = EntriesIn(<<>>)
    BY <2>2
  <2>4. PICK at : at \in [1 .. Len(s) -> DOMAIN <<>>]
    BY <2>2, <2>3 DEF EntriesAt
  <2>5. s = <<>>
    <3>1. Len(s) \in Nat /\ ~(1 \in 1 .. Len(s))
      BY <2>4
    <3> QED
      BY <3>1
  <2> QED
    BY <2>1, <2>3, <2>5 DEF Log!Init, Stored, SessionInit
<1> QED
  BY <1>1, SessionInvariance, LogStep, PTL DEF SessionSpec, ImplementsLog, Log!Spec
-----------------------------------------------------------------------------
(* A session that was created can be loaded, unless lines are fused: its   *)
(* first line is the header, no other one is, and all complete lines parse. *)
LEMMA CreatedLoads ==
    ASSUME SessionInv, created
    PROVE  Loaded(content).ok \/ \E i \in DOMAIN content : Fused(i)
<1> SUFFICES ASSUME \A i \in DOMAIN content : ~Fused(i) PROVE Loaded(content).ok
  OBVIOUS
<1> USE SessionAssumption
<1>1. content \in Seq(Piece) /\ DOMAIN content = 1 .. Len(content) /\ Len(content) \in Nat
  BY DEF SessionInv, SessionTypeOK
<1>2. Len(content) >= 2 /\ content[1] = First(Header) /\ content[2] = Second(Header)
  BY DEF SessionInv, CallLayout
<1>3. 2 \in Ends(content) /\ 1 \notin Ends(content) /\ Ends(content) \in SUBSET Nat
  BY <1>1, <1>2 DEF Ends, First, Second
<1>4. Lowest(Ends(content)) = 2
  <2>1. Lowest(Ends(content)) \in Ends(content) /\ \A j \in Ends(content) : Lowest(Ends(content)) <= j
    BY <1>3, LowestProperty
  <2>2. Lowest(Ends(content)) \in 1 .. Len(content) /\ Lowest(Ends(content)) <= 2
        /\ Lowest(Ends(content)) # 1
    BY <1>1, <1>3, <2>1 DEF Ends
  <2> QED
    BY <1>1, <2>2
<1>5. ASSUME NEW i \in Ends(content)
      PROVE  Parses(content, i) /\ (content[i].line = Header <=> i = 2)
  <2>1. i \in DOMAIN content /\ content[i].half = "second"
    BY DEF Ends
  <2>2. Parses(content, i)
    BY <2>1, CompleteParses
  <2>3. content[i].line = Header => i = 2
    <3> SUFFICES ASSUME content[i].line = Header PROVE i = 2
      OBVIOUS
    <3>1. content[i] \in Piece
      BY <1>1, <2>1
    <3>2. content[i] = Second(Header)
      BY <2>1, <3>1 DEF Piece, Second
    <3>3. 2 \in DOMAIN content
      BY <1>1, <1>2
    <3> QED
      BY <1>2, <2>1, <3>2, <3>3 DEF SessionInv, Layout, LayoutOf
  <2>4. content[2].line = Header
    BY <1>2 DEF Second
  <2> QED
    BY <2>2, <2>3, <2>4
<1>6. Ends(content) # {}
  BY <1>3
<1>7. Loaded(content) = [ok |-> TRUE, entries |-> EntriesIn(content)]
  BY <1>4, <1>5, <1>6 DEF Loaded
<1> QED
  BY <1>7

(* The end of a concatenation. *)
LEMMA SuffixIsSubSeq ==
    ASSUME NEW S, NEW q \in Seq(S), NEW r \in Seq(S)
    PROVE  Len(q) \in 0 .. Len(q \o r) /\ r = SubSeq(q \o r, Len(q) + 1, Len(q \o r))
<1>1. PICK c \in Seq(S) : c = q \o r
  <2>1. q \o r \in Seq(S)
    OBVIOUS
  <2> QED
    BY <2>1
<1>2. PICK m \in Nat : m = Len(q)
  OBVIOUS
<1>3. PICK n \in Nat : n = Len(r)
  OBVIOUS
<1>4. Len(c) = m + n /\ \A i \in 1 .. n : c[m + i] = r[i]
  BY <1>1, <1>2, <1>3
<1>5. SubSeq(c, m + 1, m + n) \in Seq(S) /\ Len(SubSeq(c, m + 1, m + n)) = n
      /\ \A i \in 1 .. n : SubSeq(c, m + 1, m + n)[i] = c[m + i]
  <2>1. (m + n) - (m + 1) + 1 = n
    OBVIOUS
  <2>2. \A i \in m + 1 .. m + n : i \in DOMAIN c
    BY <1>4
  <2>3. SubSeq(c, m + 1, m + n) \in Seq(S) /\ Len(SubSeq(c, m + 1, m + n)) = n
    BY <1>4, <2>1, <2>2, SubSeqProperties
  <2>4. \A i \in 1 .. n : SubSeq(c, m + 1, m + n)[i] = c[m + i]
    BY <1>4, <2>1
  <2> QED
    BY <2>3, <2>4
<1>6. PICK d : d = SubSeq(c, m + 1, m + n)
  OBVIOUS
<1>7. d \in Seq(S) /\ Len(d) = n /\ \A i \in 1 .. n : d[i] = r[i]
  BY <1>4, <1>5, <1>6
<1>8. d = r
  BY <1>3, <1>7
<1>9. m \in 0 .. Len(c)
  BY <1>4
<1>10. r = SubSeq(c, m + 1, Len(c))
  BY <1>4, <1>6, <1>8
<1> QED
  BY <1>1, <1>2, <1>9, <1>10

(* MessagesFrom has messages only. *)
LEMMA MessagesProperty ==
    ASSUME NEW s \in Seq(Entries), NEW start
    PROVE  /\ MessagesFrom(s, start) \in Seq(Entries)
           /\ \A i \in DOMAIN MessagesFrom(s, start) : IsMessage(MessagesFrom(s, start)[i])
<1> DEFINE I == {i \in DOMAIN s : i >= start /\ IsMessage(s[i])}
<1>1. Picked(Entries, s, I, Len(s), Pick(s, I))
  BY PickProperty
<1>2. PICK r : r = Pick(s, I)
  OBVIOUS
<1>3. r \in Seq(Entries) /\ DOMAIN r = 1 .. Len(r)
  BY <1>1, <1>2 DEF Picked
<1>4. PICK at : PickedAt(s, I, Len(s), r, at)
  BY <1>1, <1>2 DEF Picked
<1>5. \A k \in 1 .. Len(r) : at[k] \in I /\ r[k] = s[at[k]]
  BY <1>4 DEF PickedAt
<1>6. \A k \in DOMAIN r : IsMessage(r[k])
  BY <1>3, <1>5
<1> QED
  BY <1>2, <1>3, <1>6 DEF MessagesFrom

(* From an earlier start there are more of them, in front. *)
LEMMA MessagesSuffix ==
    ASSUME NEW s \in Seq(Entries), NEW a \in Nat, NEW b \in Nat, a <= b
    PROVE  \E p \in Seq(Entries) : MessagesFrom(s, a) = p \o MessagesFrom(s, b)
<1> DEFINE I == {i \in DOMAIN s : i >= a /\ IsMessage(s[i])}
           J == {i \in DOMAIN s : i >= b /\ IsMessage(s[i])}
<1>0. DOMAIN s = 1 .. Len(s) /\ Len(s) \in Nat
  OBVIOUS
<1>1. \A i \in 1 .. Len(s) : i \in J => i \in I
  BY <1>0
<1>2. \A i, j \in 1 .. Len(s) : (i \in I /\ i \notin J /\ j \in J) => i < j
  BY <1>0
<1> HIDE DEF I, J
<1>3. EndOf(Entries, Pick(s, I), Pick(s, J))
  BY <1>1, <1>2, PickSuffix DEF LaterOf
<1> QED
  BY <1>3 DEF I, J, MessagesFrom, EndOf

(* What build_context makes of a session in which compactions are behind   *)
(* what they keep.                                                         *)
LEMMA ContextProperty ==
    ASSUME NEW s \in Seq(Entries), KeptBefore(s)
    PROVE  LET ctx == BuildContext(s)
               last == Highest(CompactionsIn(s))
               recent == MessagesFrom(s, IF CompactionsIn(s) = {} THEN 1 ELSE last + 1)
           IN /\ \E i \in 0 .. Len(ctx) : recent = SubSeq(ctx, i + 1, Len(ctx))
              /\ \A i \in DOMAIN ctx : ~IsMessage(ctx[i]) => ctx[i] = s[last]
<1> DEFINE ctx == BuildContext(s)
           last == Highest(CompactionsIn(s))
           recent == MessagesFrom(s, IF CompactionsIn(s) = {} THEN 1 ELSE last + 1)
<1>0. DOMAIN s = 1 .. Len(s) /\ Len(s) \in Nat
  OBVIOUS
<1>1. CASE CompactionsIn(s) = {}
  <2>1. PICK r \in Seq(Entries) : r = MessagesFrom(s, 1)
    BY MessagesProperty
  <2>2. ctx = r /\ recent = r
    BY <1>1, <2>1 DEF BuildContext
  <2>3. \A i \in DOMAIN r : IsMessage(r[i])
    BY <2>1, MessagesProperty
  <2>4. 0 \in 0 .. Len(r) /\ r = SubSeq(r, 0 + 1, Len(r))
    <3>1. <<>> \in Seq(Entries) /\ <<>> \o r = r /\ Len(<<>>) = 0
      BY ConcatEmptySeq
    <3> QED
      BY <3>1, SuffixIsSubSeq
  <2> QED
    BY <2>2, <2>3, <2>4
<1>2. CASE CompactionsIn(s) # {}
  <2>1. last \in CompactionsIn(s)
    <3>1. CompactionsIn(s) \in SUBSET (1 .. Len(s))
      BY <1>0 DEF CompactionsIn
    <3> QED
      BY <1>0, <1>2, <3>1, HighestProperty
  <2>2. PICK l \in DOMAIN s : l = last
    BY <2>1 DEF CompactionsIn
  <2>3. PICK start \in Nat : start = ContextStart(s, l) /\ start <= l + 1
    <3> DEFINE kept == {i \in DOMAIN s : s[i] = FirstKept[s[l]] /\ IsMessage(s[i])}
    <3>0. l \in Nat
      BY <1>0
    <3>1. CASE kept = {}
      <4>1. ContextStart(s, l) = l + 1
        BY <3>1 DEF ContextStart
      <4> QED
        BY <3>0, <4>1
    <3>2. CASE kept # {}
      <4>1. kept \in SUBSET Nat
        BY <1>0
      <4>2. Lowest(kept) \in kept
        BY <3>2, <4>1, LowestProperty
      <4>3. ContextStart(s, l) = Lowest(kept)
        BY <3>2 DEF ContextStart
      <4>4. PICK k \in kept : k = Lowest(kept)
        BY <4>2
      <4>5. k < l
        BY <4>4 DEF KeptBefore
      <4>6. k \in Nat
        BY <4>1
      <4>7. k <= l + 1
        BY <3>0, <4>5, <4>6
      <4>8. ContextStart(s, l) = k
        BY <4>3, <4>4
      <4> QED
        BY <4>6, <4>7, <4>8
    <3> QED
      BY <3>1, <3>2
  <2>4. PICK r \in Seq(Entries) : r = MessagesFrom(s, l + 1)
    BY MessagesProperty
  <2>5. PICK m \in Seq(Entries) : m = MessagesFrom(s, start)
    BY MessagesProperty
  <2>6. ctx = <<s[l]>> \o m /\ recent = r
    BY <1>2, <2>2, <2>3, <2>4, <2>5 DEF BuildContext, ContextFrom
  <2>7. PICK p \in Seq(Entries) : m = p \o r
    <3>1. l + 1 \in Nat
      BY <1>0
    <3> QED
      BY <2>3, <2>4, <2>5, <3>1, MessagesSuffix
  <2>8. PICK x \in Entries : x = s[l]
    OBVIOUS
  <2>9. <<x>> \in Seq(Entries)
    OBVIOUS
  <2>10. PICK q \in Seq(Entries) : q = <<x>> \o p
    <3>1. <<x>> \o p \in Seq(Entries)
      BY <2>9
    <3> QED
      BY <3>1
  <2>11. ctx = q \o r
    <3>1. PICK y \in Seq(Entries) : y = <<x>>
      BY <2>9
    <3>2. (y \o p) \o r = y \o (p \o r)
      BY ConcatAssociative
    <3> QED
      BY <2>6, <2>7, <2>8, <2>10, <3>1, <3>2
  <2> HIDE DEF ctx, recent
  <2>12. \E i \in 0 .. Len(ctx) : recent = SubSeq(ctx, i + 1, Len(ctx))
    <3>1. Len(q) \in 0 .. Len(q \o r) /\ r = SubSeq(q \o r, Len(q) + 1, Len(q \o r))
      BY SuffixIsSubSeq
    <3> QED
      BY <2>6, <2>11, <3>1
  <2>13. ASSUME NEW i \in DOMAIN ctx, ~IsMessage(ctx[i]) PROVE ctx[i] = s[l]
    <3>1. DOMAIN ctx = 1 .. Len(m) + 1 /\ ctx[1] = x /\ Len(m) \in Nat
          /\ \A k \in 2 .. Len(m) + 1 : ctx[k] = m[k - 1]
      BY <2>6, <2>8, <2>9
    <3>2. \A k \in DOMAIN m : IsMessage(m[k])
      BY <2>5, MessagesProperty
    <3>3. i = 1
      <4> SUFFICES ASSUME i # 1 PROVE FALSE
        OBVIOUS
      <4>1. i \in 2 .. Len(m) + 1 /\ i - 1 \in DOMAIN m
        BY <3>1
      <4> QED
        BY <2>13, <3>1, <3>2, <4>1
    <3> QED
      BY <2>8, <3>1, <3>3
  <2> QED
    BY <2>2, <2>12, <2>13 DEF ctx, recent
<1> QED
  BY <1>1, <1>2

(* The context that build_context makes of a loaded session is current,    *)
(* and a created session loads, for all crashes and failed calls.          *)
THEOREM ContextAlwaysCurrent == SessionSpec => []ContextIsCurrent
<1>1. SessionInv => ContextIsCurrent
  <2> SUFFICES ASSUME SessionInv PROVE ContextIsCurrent
    OBVIOUS
  <2>1. result.entries \in Seq(Entries) /\ KeptBefore(result.entries)
    BY DEF SessionInv, SessionTypeOK, Result
  <2>2. created => Loaded(content).ok \/ \E i \in DOMAIN content : Fused(i)
    BY CreatedLoads
  <2> QED
    BY <2>1, <2>2, ContextProperty, Zenon DEF ContextIsCurrent
<1> QED
  BY <1>1, SessionInvariance, PTL
-----------------------------------------------------------------------------
(* Channels.  The function that Concatenated is defined with exists.       *)
CatEq(ss, cat, m) == cat = [n \in 0 .. m |-> IF n = 0 THEN << >> ELSE cat[n - 1] \o ss[n]]

(* There is one for every length. *)
LEMMA CatExists ==
    ASSUME NEW ss
    PROVE  \A m \in Nat : \E cat : CatEq(ss, cat, m)
<1> DEFINE S == {m \in Nat : \E cat : CatEq(ss, cat, m)}
<1>1. 0 \in S
  <2>1. CatEq(ss, [n \in 0 .. 0 |-> << >>], 0)
    BY DEF CatEq
  <2> QED
    BY <2>1
<1>2. ASSUME NEW m \in Nat, m \in S PROVE m + 1 \in S
  <2>1. PICK old : CatEq(ss, old, m)
    BY <1>2
  <2> DEFINE at(n, f) == IF n = 0 THEN << >> ELSE f[n - 1] \o ss[n]
             new == [n \in 0 .. m + 1 |-> IF n <= m THEN old[n] ELSE at(m + 1, old)]
  <2>2. \A n \in 0 .. m : old[n] = at(n, old)
    BY <2>1 DEF CatEq
  <2>3. ASSUME NEW n \in 0 .. m + 1 PROVE new[n] = at(n, new)
    <3>1. CASE n = 0
      BY <2>2, <3>1
    <3>2. CASE n \in 1 .. m
      <4>1. new[n] = old[n] /\ new[n - 1] = old[n - 1]
        BY <3>2
      <4> QED
        BY <2>2, <3>2, <4>1
    <3>3. CASE n = m + 1
      <4>1. new[n] = at(m + 1, old) /\ new[n - 1] = old[m]
        BY <3>3
      <4> QED
        BY <3>3, <4>1
    <3> QED
      BY <3>1, <3>2, <3>3
  <2>4. new = [n \in 0 .. m + 1 |-> at(n, new)]
    BY <2>3
  <2>5. CatEq(ss, new, m + 1)
    BY <2>4 DEF CatEq
  <2> QED
    BY <2>5
<1> HIDE DEF S
<1>3. \A m \in Nat : m \in S
  BY <1>1, <1>2, NaturalInduction
<1> QED
  BY <1>3 DEF S

(* Sequences of targets, one behind the other, are a sequence of targets. *)
LEMMA ConcatenatedType ==
    ASSUME NEW S, NEW ss \in Seq(Seq(S))
    PROVE  Concatenated(ss) \in Seq(S)
<1>0. Len(ss) \in Nat
  OBVIOUS
<1>1. \E cat : CatEq(ss, cat, Len(ss))
  BY <1>0, CatExists, Zenon
<1> DEFINE f == CHOOSE cat : cat = [n \in 0 .. Len(ss) |-> IF n = 0 THEN <<>> ELSE cat[n - 1] \o ss[n]]
<1>2. CatEq(ss, f, Len(ss))
  BY <1>1, Zenon DEF CatEq
<1>3. Concatenated(ss) = f[Len(ss)]
  BY DEF Concatenated
<1> HIDE DEF f
<1>4. \A n \in 0 .. Len(ss) : f[n] = IF n = 0 THEN << >> ELSE f[n - 1] \o ss[n]
  BY <1>2, Zenon DEF CatEq
<1> DEFINE T == {m \in Nat : m <= Len(ss) => f[m] \in Seq(S)}
<1>5. 0 \in T
  <2>1. f[0] = << >>
    BY <1>0, <1>4
  <2>2. << >> \in Seq(S)
    OBVIOUS
  <2>3. f[0] \in Seq(S)
    BY <2>1, <2>2
  <2> QED
    BY <2>3
<1>6. ASSUME NEW m \in Nat, m \in T PROVE m + 1 \in T
  <2> SUFFICES ASSUME m + 1 <= Len(ss) PROVE f[m + 1] \in Seq(S)
    OBVIOUS
  <2>1. m + 1 \in 0 .. Len(ss) /\ m + 1 # 0 /\ (m + 1) - 1 = m /\ m <= Len(ss)
    BY <1>0
  <2>2. f[m + 1] = f[m] \o ss[m + 1]
    BY <1>4, <2>1, Zenon
  <2>3. f[m] \in Seq(S)
    BY <1>6, <2>1
  <2>4. ss[m + 1] \in Seq(S)
    BY <2>1
  <2>5. f[m] \o ss[m + 1] \in Seq(S)
    BY <2>3, <2>4, ConcatProperties
  <2> QED
    BY <2>2, <2>5
<1> HIDE DEF T
<1>7. \A m \in Nat : m \in T
  BY <1>5, <1>6, NaturalInduction
<1>8. f[Len(ss)] \in Seq(S)
  BY <1>0, <1>7 DEF T
<1> QED
  BY <1>3, <1>8

(* Picked elements have the type of all, and stand at one of the places.   *)
LEMMA PickType ==
    ASSUME NEW S, NEW s \in Seq(S), NEW I
    PROVE  /\ Pick(s, I) \in Seq(S)
           /\ \A k \in DOMAIN Pick(s, I) : \E i \in DOMAIN s : i \in I /\ Pick(s, I)[k] = s[i]
<1>1. PICK r : r = Pick(s, I)
  OBVIOUS
<1>2. Picked(S, s, I, Len(s), r)
  BY <1>1, PickProperty
<1>3. r \in Seq(S) /\ DOMAIN r = 1 .. Len(r)
  BY <1>2 DEF Picked
<1>4. PICK at : PickedAt(s, I, Len(s), r, at)
  BY <1>2 DEF Picked
<1>5. \A k \in DOMAIN r : at[k] \in DOMAIN s /\ at[k] \in I /\ r[k] = s[at[k]]
  BY <1>3, <1>4 DEF PickedAt
<1> QED
  BY <1>1, <1>3, <1>5

(* Appending a registers it, and leaves the others. *)
LEMMA AppendOnce ==
    ASSUME NEW s \in Seq(Nodes), NEW a \in Nodes
    PROVE  /\ Append(s, a) \in Seq(Nodes)
           /\ Never(s, a) => Once(Append(s, a), a)
           /\ ~Never(Append(s, a), a)
           /\ \A b \in Nodes : b # a => /\ Once(s, b) => Once(Append(s, a), b)
                                        /\ Never(s, b) <=> Never(Append(s, a), b)
<1>1. PICK t \in Seq(Nodes) : t = Append(s, a)
  <2>1. Append(s, a) \in Seq(Nodes)
    OBVIOUS
  <2> QED
    BY <2>1
<1>2. PICK n \in Nat : n = Len(s)
  OBVIOUS
<1>3. DOMAIN s = 1 .. n /\ DOMAIN t = 1 .. n + 1 /\ t[n + 1] = a /\ \A i \in 1 .. n : t[i] = s[i]
  BY <1>1, <1>2
<1>4. Never(s, a) => Once(t, a)
  <2> SUFFICES ASSUME Never(s, a) PROVE Once(t, a)
    OBVIOUS
  <2>1. n + 1 \in DOMAIN t /\ \A j \in DOMAIN t : t[j] = a <=> j = n + 1
    BY <1>3 DEF Never
  <2> QED
    BY <2>1 DEF Once
<1>5. ASSUME NEW b \in Nodes, b # a, Once(s, b) PROVE Once(t, b)
  <2>1. PICK i \in DOMAIN s : \A j \in DOMAIN s : s[j] = b <=> j = i
    BY <1>5 DEF Once
  <2>2. i \in DOMAIN t /\ \A j \in DOMAIN t : t[j] = b <=> j = i
    BY <1>3, <1>5, <2>1
  <2> QED
    BY <2>2 DEF Once
<1>6. ASSUME NEW b \in Nodes, b # a PROVE Never(s, b) <=> Never(t, b)
  BY <1>3, <1>6 DEF Never
<1>7. ~Never(t, a)
  BY <1>3 DEF Never
<1> QED
  BY <1>1, <1>4, <1>5, <1>6, <1>7

(* retain removes a, and leaves the others. *)
LEMMA WithoutOnce ==
    ASSUME NEW s \in Seq(Nodes), NEW a \in Nodes
    PROVE  /\ Without(s, a) \in Seq(Nodes)
           /\ Never(Without(s, a), a)
           /\ \A b \in Nodes : b # a => /\ Once(s, b) => Once(Without(s, a), b)
                                        /\ Never(s, b) <=> Never(Without(s, a), b)
<1>1. PICK I : I = {i \in DOMAIN s : s[i] # a}
  OBVIOUS
<1>2. PICK t : t = Without(s, a)
  OBVIOUS
<1>3. Picked(Nodes, s, I, Len(s), t)
  BY <1>1, <1>2, PickProperty DEF Without
<1>4. t \in Seq(Nodes) /\ DOMAIN t = 1 .. Len(t) /\ Len(t) \in Nat
      /\ DOMAIN s = 1 .. Len(s) /\ Len(s) \in Nat
  BY <1>3 DEF Picked
<1>5. PICK at : PickedAt(s, I, Len(s), t, at)
  BY <1>3 DEF Picked
<1>6. \A k \in DOMAIN t : at[k] \in DOMAIN s /\ at[k] \in I /\ t[k] = s[at[k]]
  BY <1>4, <1>5 DEF PickedAt
<1>7. \A k, l \in DOMAIN t : k < l => at[k] < at[l]
  BY <1>4, <1>5 DEF PickedAt
<1>8. \A i \in DOMAIN s : i \in I => \E k \in DOMAIN t : at[k] = i
  BY <1>4, <1>5 DEF PickedAt
<1>9. Never(t, a)
  BY <1>1, <1>6 DEF Never
<1>10. ASSUME NEW b \in Nodes, b # a PROVE Never(s, b) <=> Never(t, b)
  <2>1. Never(s, b) => Never(t, b)
    BY <1>6 DEF Never
  <2>2. ASSUME NEW i \in DOMAIN s, s[i] = b PROVE ~Never(t, b)
    <3>1. PICK k \in DOMAIN t : at[k] = i
      BY <1>1, <1>8, <1>10, <2>2
    <3> QED
      BY <1>6, <2>2, <3>1 DEF Never
  <2> QED
    BY <2>1, <2>2 DEF Never
<1>11. ASSUME NEW b \in Nodes, b # a, Once(s, b) PROVE Once(t, b)
  <2>1. PICK i \in DOMAIN s : \A j \in DOMAIN s : s[j] = b <=> j = i
    BY <1>11 DEF Once
  <2>2. i \in I
    BY <1>1, <1>11, <2>1
  <2>3. PICK k \in DOMAIN t : at[k] = i
    BY <1>8, <2>2
  <2>4. t[k] = b
    BY <1>6, <2>1, <2>3
  <2>5. ASSUME NEW l \in DOMAIN t, t[l] = b PROVE l = k
    <3>1. at[l] = i
      BY <1>6, <2>1, <2>5
    <3>2. ~(l < k) /\ ~(k < l)
      BY <1>4, <1>6, <1>7, <2>3, <3>1
    <3> QED
      BY <1>4, <3>2
  <2> QED
    BY <2>3, <2>4, <2>5 DEF Once
<1> QED
  BY <1>2, <1>4, <1>9, <1>10, <1>11
(* A sequence whose elements are all in S is a sequence of S. *)
LEMMA Narrowed ==
    ASSUME NEW T, NEW S, NEW s \in Seq(T), \A k \in DOMAIN s : s[k] \in S
    PROVE  s \in Seq(S)
<1>1. PICK n \in Nat : n = Len(s)
  OBVIOUS
<1>2. DOMAIN s = 1 .. n /\ s = [k \in 1 .. n |-> s[k]]
  BY <1>1
<1>3. s \in [1 .. n -> S]
  BY <1>2
<1> QED
  BY <1>3, SeqDef

(* The bounds are numbers, and loops are numbered from one. *)
LEMMA BoundsAreNat ==
    /\ MaxWrites \in Nat /\ MaxOps \in Nat
    /\ Len(SpecAgents) \in Nat /\ Len(SpecAgents) > 0
    /\ Loops \subseteq Nat /\ 0 \notin Loops
    /\ DOMAIN SpecAgents \subseteq Loops
    /\ SpecAgents[1] \in Nodes
<1>1. MaxWrites \in Nat /\ MaxOps \in Nat /\ SpecAgents \in Seq(Nodes) /\ SpecAgents # <<>>
  BY ExternalAssumption
<1>2. PICK n \in Nat : n = Len(SpecAgents)
  BY <1>1
<1>3. n > 0 /\ DOMAIN SpecAgents = 1 .. n
  BY <1>1, <1>2
<1>4. Loops = 1 .. n + MaxOps
  BY <1>2 DEF Loops
<1> QED
  BY <1>1, <1>2, <1>3, <1>4 DEF Nodes

(* The names that configs carry, and their channels. *)
LEMMA NameFacts ==
    /\ \A v \in Values : AsName[v] \in Names \cup {NoName}
    /\ \A a \in Nodes, n \in Names : Channel(a, n) \in Channels
    /\ NoName \notin Names
<1>1. \A v \in Values : AsName[v] \in Names \cup {NoName}
  BY DEF Names
<1>2. \A a \in Nodes, n \in Names : Channel(a, n) \in Channels
  BY DEF Channels
<1>3. NoName \notin Names
  BY DEF Names
<1> QED
  BY <1>1, <1>2, <1>3

(* Messages that ports and callers make. *)
LEMMA MessageTypes ==
    /\ \A n \in Names \cup {NoName} : Config(n) \in ConfigMessage /\ Config(n) \in AgentMessage
    /\ Stop \in AgentMessage
    /\ \A t \in Target, v \in Values : PortMessage(t, v) \in AgentMessage
    /\ \A a \in Nodes, p \in {"value", "err"}, v \in Values : AgentOut(a, p, v) \in CentralMessage
    /\ \A c \in Channels, v \in Values : ToChannel(c, v) \in CentralMessage
<1>1. \A n \in Names \cup {NoName} : Config(n) \in ConfigMessage
  BY DEF Config, Message, ConfigMessage
<1>2. ASSUME NEW t \in Target, NEW v \in Values PROVE PortMessage(t, v) \in AgentMessage
  <2>1. Config(AsName[v]) \in ConfigMessage
    BY <1>1, NameFacts
  <2>2. Input(v) \in InputMessage
    BY DEF Input, Message, InputMessage
  <2> QED
    BY <2>1, <2>2 DEF PortMessage, AgentMessage
<1>3. \A a \in Nodes, p \in {"value", "err"}, v \in Values : AgentOut(a, p, v) \in CentralMessage
  BY DEF AgentOut, CentralMessage
<1>4. \A c \in Channels, v \in Values : ToChannel(c, v) \in CentralMessage
  BY DEF ToChannel, CentralMessage
<1>5. Stop \in AgentMessage /\ \A m \in ConfigMessage : m \in AgentMessage
  BY DEF AgentMessage
<1> QED
  BY <1>1, <1>2, <1>3, <1>4, <1>5

(* What a mailbox holds, by its kind. *)
LEMMA MessageKinds ==
    ASSUME NEW m \in AgentMessage, m.kind # "Stop"
    PROVE  /\ m.kind = "Config" => m \in ConfigMessage
           /\ m.kind # "Config" => m \in InputMessage
<1>1. m # Stop
  BY DEF Stop, Message
<1>2. m \in ConfigMessage \/ m \in InputMessage
  BY <1>1 DEF AgentMessage
<1> QED
  BY <1>2 DEF ConfigMessage, InputMessage

(* The targets of a message are targets of connections. *)
LEMMA TargetsType ==
    ASSUME NodeTypes, NEW m \in CentralMessage
    PROVE  TargetsOf(m) \in Seq(Target)
<1>0. Connections \in [Nodes -> Seq(Target)]
  BY ExternalAssumption
<1>1. CASE m.kind = "AgentOut"
  <2>1. m.agent \in Nodes
    BY <1>1 DEF CentralMessage
  <2>2. PICK all \in Seq(Target) : all = Connections[m.agent]
    BY <1>0, <2>1
  <2>3. Pick(all, {i \in DOMAIN all : all[i].source_port = m.port}) \in Seq(Target)
    BY PickType
  <2> QED
    BY <1>1, <2>2, <2>3 DEF TargetsOf
<1>2. CASE m.kind # "AgentOut"
  <2>1. m.channel \in Channels
    BY <1>2 DEF CentralMessage
  <2>2. PICK agents \in Seq(Nodes) : agents = external_input_agents[m.channel]
    BY <2>1 DEF NodeTypes
  <2>3. PICK n \in Nat : n = Len(agents)
    OBVIOUS
  <2>4. \A i \in 1 .. n : Connections[agents[i]] \in Seq(Target)
    BY <1>0, <2>3
  <2>5. PICK ss : ss = [i \in 1 .. n |-> Connections[agents[i]]]
    OBVIOUS
  <2>6. ss \in Seq(Seq(Target))
    <3>1. ss \in [1 .. n -> Seq(Target)]
      BY <2>4, <2>5
    <3> QED
      BY <3>1, SeqDef
  <2>7. Concatenated(ss) \in Seq(Target)
    BY <2>6, ConcatenatedType
  <2> QED
    BY <1>2, <2>2, <2>3, <2>5, <2>7 DEF TargetsOf
<1> QED
  BY <1>1, <1>2
-----------------------------------------------------------------------------
(* An agent with a state, a name and its set of doubled agents is          *)
(* registered as RegisteredOnce says.                                      *)
RegisteredAs(a, st, n, dd, agents) ==
    \A c \in Channels :
        IF st = "Start" /\ n # NoName /\ c = Channel(a, n)
        THEN Once(agents[c], a) \/ (a \in dd /\ ~Never(agents[c], a))
        ELSE Never(agents[c], a)

(* Registrations of agents other than a are kept. *)
OthersKept(a, agents, new) ==
    \A b \in Nodes : b # a => \A c \in Channels : /\ Once(agents[c], b) => Once(new[c], b)
                                                  /\ Never(agents[c], b) <=> Never(new[c], b)

(* RegisteredOnce, agent by agent. *)
LEMMA RegisteredAgents ==
    RegisteredOnce <=> \A a \in InNodes : RegisteredAs(a, status[a], name[a], doubled, external_input_agents)
BY Zenon DEF RegisteredOnce, RegisteredAs

(* push of an agent. *)
LEMMA RegisteredProperty ==
    ASSUME NEW agents \in [Channels -> Seq(Nodes)], NEW c \in Channels, NEW a \in Nodes
    PROVE  /\ Registered(agents, c, a) \in [Channels -> Seq(Nodes)]
           /\ OthersKept(a, agents, Registered(agents, c, a))
           /\ ~Never(Registered(agents, c, a)[c], a)
           /\ Never(agents[c], a) => Once(Registered(agents, c, a)[c], a)
           /\ \A d \in Channels : d # c => Registered(agents, c, a)[d] = agents[d]
<1>1. PICK new : new = Registered(agents, c, a)
  OBVIOUS
<1>2. PICK s \in Seq(Nodes) : s = agents[c]
  OBVIOUS
<1>3. PICK t : t = Append(s, a)
  OBVIOUS
<1>4. /\ t \in Seq(Nodes)
      /\ Never(s, a) => Once(t, a)
      /\ ~Never(t, a)
      /\ \A b \in Nodes : b # a => (Once(s, b) => Once(t, b)) /\ (Never(s, b) <=> Never(t, b))
  BY <1>3, AppendOnce
<1>5. new = [agents EXCEPT ![c] = t]
  BY <1>1, <1>2, <1>3 DEF Registered
<1>6. new \in [Channels -> Seq(Nodes)] /\ new[c] = t /\ \A d \in Channels : d # c => new[d] = agents[d]
  BY <1>4, <1>5
<1>7. OthersKept(a, agents, new)
  BY <1>2, <1>4, <1>6, Zenon DEF OthersKept
<1> QED
  BY <1>1, <1>2, <1>4, <1>6, <1>7

(* retain without an agent. *)
LEMMA UnregisteredProperty ==
    ASSUME NEW agents \in [Channels -> Seq(Nodes)], NEW c \in Channels, NEW a \in Nodes
    PROVE  /\ Unregistered(agents, c, a) \in [Channels -> Seq(Nodes)]
           /\ OthersKept(a, agents, Unregistered(agents, c, a))
           /\ (\A d \in Channels : d # c => Never(agents[d], a)) =>
                 \A d \in Channels : Never(Unregistered(agents, c, a)[d], a)
<1>1. PICK new : new = Unregistered(agents, c, a)
  OBVIOUS
<1>2. PICK s \in Seq(Nodes) : s = agents[c]
  OBVIOUS
<1>3. PICK t : t = Without(s, a)
  OBVIOUS
<1>4. /\ t \in Seq(Nodes)
      /\ Never(t, a)
      /\ \A b \in Nodes : b # a => (Once(s, b) => Once(t, b)) /\ (Never(s, b) <=> Never(t, b))
  BY <1>3, WithoutOnce
<1>5. new = [agents EXCEPT ![c] = t]
  BY <1>1, <1>2, <1>3 DEF Unregistered
<1>6. new \in [Channels -> Seq(Nodes)] /\ new[c] = t /\ \A d \in Channels : d # c => new[d] = agents[d]
  BY <1>4, <1>5
<1>7. OthersKept(a, agents, new)
  BY <1>2, <1>4, <1>6, Zenon DEF OthersKept
<1>8. (\A d \in Channels : d # c => Never(agents[d], a)) => \A d \in Channels : Never(new[d], a)
  BY <1>4, <1>6, Zenon
<1> QED
  BY <1>1, <1>6, <1>7, <1>8

(* Registrations that are kept are still as they should be. *)
LEMMA OthersRegistered ==
    ASSUME NEW a, NEW agents, NEW new, OthersKept(a, agents, new),
           NEW b \in Nodes, b # a, NEW st, NEW n, NEW dd, NEW dd2, b \in dd => b \in dd2,
           RegisteredAs(b, st, n, dd, agents)
    PROVE  RegisteredAs(b, st, n, dd2, new)
BY Zenon DEF OthersKept, RegisteredAs

(* An agent that stops, or loses its name, is removed. *)
LEMMA GoneProperty ==
    ASSUME NEW agents \in [Channels -> Seq(Nodes)], NEW a \in Nodes, NEW n \in Names \cup {NoName},
           NEW dd, RegisteredAs(a, "Start", n, dd, agents)
    PROVE  LET gone == IF n = NoName THEN agents ELSE Unregistered(agents, Channel(a, n), a)
           IN  /\ gone \in [Channels -> Seq(Nodes)]
               /\ OthersKept(a, agents, gone)
               /\ \A d \in Channels : Never(gone[d], a)
<1>1. CASE n = NoName
  BY <1>1 DEF RegisteredAs, OthersKept
<1>2. CASE n # NoName
  <2>1. PICK c \in Channels : c = Channel(a, n)
    BY <1>2, NameFacts
  <2>2. \A d \in Channels : d # c => Never(agents[d], a)
    BY <2>1, Zenon DEF RegisteredAs
  <2>3. /\ Unregistered(agents, c, a) \in [Channels -> Seq(Nodes)]
        /\ OthersKept(a, agents, Unregistered(agents, c, a))
        /\ \A d \in Channels : Never(Unregistered(agents, c, a)[d], a)
    BY <2>2, UnregisteredProperty
  <2> QED
    BY <1>2, <2>1, <2>3
<1> QED
  BY <1>1, <1>2

(* An agent registers under its name: once if it was nowhere registered,   *)
(* and again if it was registered there.                                   *)
LEMMA NewProperty ==
    ASSUME NEW agents \in [Channels -> Seq(Nodes)], NEW a \in Nodes, NEW n \in Names, NEW dd,
           \/ \A d \in Channels : Never(agents[d], a)
           \/ a \in dd /\ \A d \in Channels : d # Channel(a, n) => Never(agents[d], a)
    PROVE  /\ Registered(agents, Channel(a, n), a) \in [Channels -> Seq(Nodes)]
           /\ OthersKept(a, agents, Registered(agents, Channel(a, n), a))
           /\ RegisteredAs(a, "Start", n, dd, Registered(agents, Channel(a, n), a))
<1>1. PICK c \in Channels : c = Channel(a, n)
  BY NameFacts
<1>2. n # NoName
  BY NameFacts
<1>3. PICK new : new = Registered(agents, c, a)
  OBVIOUS
<1>4. /\ new \in [Channels -> Seq(Nodes)]
      /\ OthersKept(a, agents, new)
      /\ ~Never(new[c], a)
      /\ Never(agents[c], a) => Once(new[c], a)
      /\ \A d \in Channels : d # c => new[d] = agents[d]
  BY <1>3, RegisteredProperty
<1>5. RegisteredAs(a, "Start", n, dd, new)
  BY <1>1, <1>2, <1>4, Zenon DEF RegisteredAs
<1> QED
  BY <1>1, <1>3, <1>4, <1>5

(* configs_changed moves the registration of a running agent. *)
LEMMA RepointProperty ==
    ASSUME NodeTypes, RegisteredOnce, NEW a \in Nodes, NEW n \in Names \cup {NoName}, NEW dd,
           name[a] = n \/ status[a] # "Start" => dd = doubled
    PROVE  /\ Repoint(a, n) \in [Channels -> Seq(Nodes)]
           /\ OthersKept(a, external_input_agents, Repoint(a, n))
           /\ a \in InNodes => RegisteredAs(a, status[a], n, dd, Repoint(a, n))
<1>1. PICK agents \in [Channels -> Seq(Nodes)] : agents = external_input_agents
  BY DEF NodeTypes
<1>2. PICK old \in Names \cup {NoName} : old = name[a]
  BY DEF NodeTypes
<1>3. a \in InNodes => RegisteredAs(a, status[a], old, doubled, agents)
  BY <1>1, <1>2, RegisteredAgents
<1>4. OthersKept(a, agents, agents)
  BY DEF OthersKept
<1>5. CASE a \notin InNodes \/ old = n
  <2>1. Repoint(a, n) = agents
    BY <1>1, <1>2, <1>5 DEF Repoint
  <2> QED
    BY <1>1, <1>2, <1>3, <1>4, <1>5, <2>1
<1>6. CASE status[a] # "Start"
  <2>1. Repoint(a, n) = agents
    BY <1>1, <1>2, <1>6 DEF Repoint
  <2>2. a \in InNodes => RegisteredAs(a, status[a], n, dd, agents)
    BY <1>3, <1>6, Zenon DEF RegisteredAs
  <2> QED
    BY <1>1, <1>4, <2>1, <2>2
<1>7. CASE a \in InNodes /\ old # n /\ status[a] = "Start"
  <2>1. PICK gone : gone = IF old = NoName THEN agents ELSE Unregistered(agents, Channel(a, old), a)
    OBVIOUS
  <2>2. RegisteredAs(a, "Start", old, doubled, agents)
    BY <1>3, <1>7
  <2>3. /\ gone \in [Channels -> Seq(Nodes)]
        /\ OthersKept(a, agents, gone)
        /\ \A d \in Channels : Never(gone[d], a)
    BY <2>1, <2>2, GoneProperty
  <2>4. Repoint(a, n) = IF n = NoName THEN gone ELSE Registered(gone, Channel(a, n), a)
    BY <1>1, <1>2, <1>7, <2>1 DEF Repoint
  <2>5. CASE n = NoName
    <3>1. RegisteredAs(a, status[a], n, dd, gone)
      BY <2>3, <2>5, Zenon DEF RegisteredAs
    <3> QED
      BY <1>1, <2>3, <2>4, <2>5, <3>1
  <2>6. CASE n # NoName
    <3>1. PICK new : new = Registered(gone, Channel(a, n), a)
      OBVIOUS
    <3>2. /\ new \in [Channels -> Seq(Nodes)]
          /\ OthersKept(a, gone, new)
          /\ RegisteredAs(a, "Start", n, dd, new)
      BY <2>3, <2>6, <3>1, NewProperty
    <3>3. OthersKept(a, agents, new)
      BY <2>3, <3>2, Zenon DEF OthersKept
    <3> QED
      BY <1>1, <1>7, <2>4, <2>6, <3>1, <3>2, <3>3
  <2> QED
    BY <2>5, <2>6
<1> QED
  BY <1>5, <1>6, <1>7

(* The part of the invariant that is about the agents' registration. *)
NodeInv == NodeTypes /\ RegisteredOnce

(* A step that changes the state, the name or the doubled registration of  *)
(* a alone, and registers it for what it then is, keeps it.                *)
LEMMA RegisteredStep ==
    ASSUME NodeInv, NEW a \in Nodes, NEW st \in {"Init", "Start"}, NEW n \in Names \cup {NoName},
           status' = [status EXCEPT ![a] = st], name' = [name EXCEPT ![a] = n],
           doubled' = doubled \/ doubled' = doubled \cup {a} \/ doubled' = doubled \ {a},
           external_input_agents' \in [Channels -> Seq(Nodes)],
           OthersKept(a, external_input_agents, external_input_agents'),
           a \in InNodes => RegisteredAs(a, st, n, doubled', external_input_agents')
    PROVE  NodeInv'
<1>1. ASSUME NEW b \in InNodes
      PROVE  RegisteredAs(b, status'[b], name'[b], doubled', external_input_agents')
  <2>0. b \in Nodes /\ DOMAIN status = Nodes /\ DOMAIN name = Nodes
    BY DEF InNodes, NodeInv, NodeTypes
  <2>1. CASE b = a
    <3>1. status'[b] = st /\ name'[b] = n
      BY <2>0, <2>1
    <3> QED
      BY <2>1, <3>1
  <2>2. CASE b # a
    <3>1. status'[b] = status[b] /\ name'[b] = name[b] /\ (b \in doubled => b \in doubled')
      BY <2>0, <2>2
    <3>2. RegisteredAs(b, status[b], name[b], doubled, external_input_agents)
      BY RegisteredAgents DEF NodeInv
    <3>3. RegisteredAs(b, status[b], name[b], doubled', external_input_agents')
      BY <2>0, <2>2, <3>1, <3>2, OthersRegistered
    <3> QED
      BY <3>1, <3>3
  <2> QED
    BY <2>1, <2>2
<1>2. RegisteredOnce'
  BY <1>1, Zenon DEF RegisteredOnce, RegisteredAs
<1>3. NodeTypes'
  BY DEF NodeInv, NodeTypes
<1> QED
  BY <1>2, <1>3 DEF NodeInv

(* set_config and configs_changed. *)
LEMMA SetNameStep ==
    ASSUME NodeInv, NEW a \in Nodes, NEW n \in Names \cup {NoName}, SetName(a, n)
    PROVE  NodeInv'
<1>1. /\ external_input_agents' = Repoint(a, n) /\ name' = [name EXCEPT ![a] = n]
      /\ doubled' = IF name[a] = n \/ status[a] # "Start" THEN doubled ELSE doubled \ {a}
      /\ UNCHANGED status
  BY DEF SetName
<1>2. PICK dd : dd = doubled'
  OBVIOUS
<1>3. name[a] = n \/ status[a] # "Start" => dd = doubled
  BY <1>1, <1>2
<1>4. /\ external_input_agents' \in [Channels -> Seq(Nodes)]
      /\ OthersKept(a, external_input_agents, external_input_agents')
      /\ a \in InNodes => RegisteredAs(a, status[a], n, dd, external_input_agents')
  BY <1>1, <1>3, RepointProperty DEF NodeInv
<1>5. PICK st \in {"Init", "Start"} : st = status[a]
  BY DEF NodeInv, NodeTypes
<1>6. status' = [status EXCEPT ![a] = st]
  BY <1>1, <1>5 DEF NodeInv, NodeTypes
<1>7. doubled' = doubled \/ doubled' = doubled \ {a}
  BY <1>1
<1> QED
  BY <1>1, <1>2, <1>4, <1>5, <1>6, <1>7, RegisteredStep

(* AsAgent::start, on an agent that runs or does not. *)
LEMMA RunStartStep ==
    ASSUME NodeInv, NEW a \in Nodes, RunStart(a)
    PROVE  NodeInv'
<1>1. PICK n \in Names \cup {NoName} : n = name[a]
  BY DEF NodeInv, NodeTypes
<1>2. PICK agents \in [Channels -> Seq(Nodes)] : agents = external_input_agents
  BY DEF NodeInv, NodeTypes
<1>3. PICK dd : dd = doubled'
  OBVIOUS
<1>4. dd = IF a \in InNodes /\ n # NoName /\ status[a] = "Start" THEN doubled \cup {a} ELSE doubled
  BY <1>1, <1>3 DEF RunStart, Named
<1>5. a \in InNodes => RegisteredAs(a, status[a], n, doubled, agents)
  BY <1>1, <1>2, RegisteredAgents DEF NodeInv
<1>6. /\ external_input_agents' \in [Channels -> Seq(Nodes)]
      /\ OthersKept(a, agents, external_input_agents')
      /\ a \in InNodes => RegisteredAs(a, "Start", n, dd, external_input_agents')
  <2>1. CASE a \in InNodes /\ n # NoName
    <3>1. external_input_agents' = Registered(agents, Channel(a, n), a)
      BY <1>1, <1>2, <2>1 DEF RunStart, Named
    <3>2. CASE status[a] = "Start"
      <4>1. \A d \in Channels : d # Channel(a, n) => Never(agents[d], a)
        BY <1>5, <2>1, <3>2, Zenon DEF RegisteredAs
      <4>2. a \in dd
        BY <1>4, <2>1, <3>2
      <4> QED
        BY <2>1, <3>1, <4>1, <4>2, NewProperty
    <3>3. CASE status[a] # "Start"
      <4>1. \A d \in Channels : Never(agents[d], a)
        BY <1>5, <2>1, <3>3, Zenon DEF RegisteredAs
      <4> QED
        BY <2>1, <3>1, <4>1, NewProperty
    <3> QED
      BY <3>2, <3>3
  <2>2. CASE ~(a \in InNodes /\ n # NoName)
    <3>1. external_input_agents' = agents
      BY <1>1, <1>2, <2>2 DEF RunStart, Named
    <3>2. a \in InNodes => RegisteredAs(a, "Start", n, dd, agents)
      BY <1>5, <2>2, Zenon DEF RegisteredAs
    <3>3. OthersKept(a, agents, agents)
      BY DEF OthersKept
    <3> QED
      BY <3>1, <3>2, <3>3
  <2> QED
    BY <2>1, <2>2
<1>7. status' = [status EXCEPT ![a] = "Start"] /\ name' = [name EXCEPT ![a] = n]
  BY <1>1 DEF RunStart, NodeInv, NodeTypes
<1>8. doubled' = doubled \/ doubled' = doubled \cup {a}
  BY <1>3, <1>4
<1> QED
  BY <1>2, <1>3, <1>6, <1>7, <1>8, RegisteredStep

(* AsAgent::stop, on an agent that runs. *)
LEMMA RunStopStep ==
    ASSUME NodeInv, NEW a \in Nodes, status[a] = "Start", RunStop(a)
    PROVE  NodeInv'
<1>1. PICK n \in Names \cup {NoName} : n = name[a]
  BY DEF NodeInv, NodeTypes
<1>2. PICK agents \in [Channels -> Seq(Nodes)] : agents = external_input_agents
  BY DEF NodeInv, NodeTypes
<1>3. PICK dd : dd = doubled'
  OBVIOUS
<1>4. a \in InNodes => RegisteredAs(a, "Start", n, doubled, agents)
  BY <1>1, <1>2, RegisteredAgents DEF NodeInv
<1>5. /\ external_input_agents' \in [Channels -> Seq(Nodes)]
      /\ OthersKept(a, agents, external_input_agents')
      /\ a \in InNodes => RegisteredAs(a, "Init", n, dd, external_input_agents')
  <2>1. CASE a \in InNodes
    <3>1. external_input_agents' = IF n = NoName THEN agents ELSE Unregistered(agents, Channel(a, n), a)
      BY <1>1, <1>2, <2>1 DEF RunStop, Named
    <3>2. /\ external_input_agents' \in [Channels -> Seq(Nodes)]
          /\ OthersKept(a, agents, external_input_agents')
          /\ \A d \in Channels : Never(external_input_agents'[d], a)
      BY <1>4, <2>1, <3>1, GoneProperty
    <3> QED
      BY <3>2 DEF RegisteredAs
  <2>2. CASE a \notin InNodes
    <3>1. external_input_agents' = agents
      BY <1>1, <1>2, <2>2 DEF RunStop, Named
    <3> QED
      BY <2>2, <3>1 DEF OthersKept
  <2> QED
    BY <2>1, <2>2
<1>6. status' = [status EXCEPT ![a] = "Init"] /\ name' = [name EXCEPT ![a] = n]
      /\ doubled' = doubled \ {a}
  BY <1>1 DEF RunStop, NodeInv, NodeTypes
<1> QED
  BY <1>2, <1>3, <1>5, <1>6, RegisteredStep
-----------------------------------------------------------------------------
(* A loop that sends for an output agent has a channel to send to: the     *)
(* agent's lock is held, and its name is not taken away meanwhile.         *)
Busy ==
    \A g \in Loops :
        loop[g].pc = "sending" /\ loop[g].agent \in OutNodes => name[loop[g].agent] # NoName

(* The inductive invariant. *)
IOInv ==
    /\ NodeInv /\ Busy
    /\ SlotTypes /\ LoopTypes /\ CallTypes /\ QueueTypes /\ ValueTypes

(* Parts of the state that a step leaves alone keep their types. *)
LEMMA Kept ==
    /\ NodeInv /\ UNCHANGED nodeVars => NodeInv' /\ UNCHANGED name
    /\ SlotTypes /\ UNCHANGED slotVars => SlotTypes'
    /\ LoopTypes /\ UNCHANGED loopVars => LoopTypes' /\ UNCHANGED loop
    /\ CallTypes /\ UNCHANGED callVars => CallTypes'
    /\ QueueTypes /\ UNCHANGED <<central, route>> => QueueTypes'
    /\ ValueTypes /\ UNCHANGED valueVars => ValueTypes'
<1>1. NodeInv /\ UNCHANGED nodeVars => NodeInv' /\ UNCHANGED name
  <2> SUFFICES ASSUME NodeInv, UNCHANGED nodeVars PROVE NodeInv' /\ UNCHANGED name
    OBVIOUS
  <2>1. UNCHANGED <<status, name, external_input_agents, doubled>>
    BY DEF nodeVars
  <2>2. NodeTypes'
    BY <2>1 DEF NodeInv, NodeTypes
  <2>3. RegisteredOnce'
    BY <2>1 DEF NodeInv, RegisteredOnce
  <2> QED
    BY <2>1, <2>2, <2>3 DEF NodeInv
<1>2. SlotTypes /\ UNCHANGED slotVars => SlotTypes'
  BY DEF SlotTypes, slotVars
<1>3. LoopTypes /\ UNCHANGED loopVars => LoopTypes' /\ UNCHANGED loop
  BY DEF LoopTypes, loopVars
<1>4. CallTypes /\ UNCHANGED callVars => CallTypes'
  BY DEF CallTypes, callVars
<1>5. QueueTypes /\ UNCHANGED <<central, route>> => QueueTypes'
  BY DEF QueueTypes
<1>6. ValueTypes /\ UNCHANGED valueVars => ValueTypes'
  BY DEF ValueTypes, valueVars
<1> QED
  BY <1>1, <1>2, <1>3, <1>4, <1>5, <1>6

(* Busy, when no loop begins to send, and only a name that is not locked   *)
(* changes.                                                                *)
LEMMA BusyKept ==
    ASSUME NodeInv, LoopTypes, Busy,
           \A h \in Loops : loop'[h].pc = "sending" => loop[h] = loop'[h],
           name' = name \/ \E a \in Nodes, n \in Names \cup {NoName} : SetName(a, n)
    PROVE  Busy'
<1> SUFFICES ASSUME NEW h \in Loops, loop'[h].pc = "sending", loop'[h].agent \in OutNodes
             PROVE  name'[loop'[h].agent] # NoName
  BY DEF Busy
<1>1. loop[h].pc = "sending" /\ loop[h].agent = loop'[h].agent
  OBVIOUS
<1>2. name[loop'[h].agent] # NoName
  BY <1>1 DEF Busy
<1>3. CASE name' = name
  BY <1>2, <1>3
<1>4. CASE \E a \in Nodes, n \in Names \cup {NoName} : SetName(a, n)
  <2>1. PICK a \in Nodes, n \in Names \cup {NoName} : SetName(a, n)
    BY <1>4
  <2>2. loop'[h].agent # a
    BY <1>1, <2>1 DEF SetName, LockFree, InProcess
  <2>3. name' = [name EXCEPT ![a] = n] /\ name \in [Nodes -> Names \cup {NoName}]
    BY <2>1 DEF SetName, NodeInv, NodeTypes
  <2>4. loop'[h].agent \in Nodes
    BY DEF OutNodes
  <2> QED
    BY <1>2, <2>2, <2>3, <2>4
<1> QED
  BY <1>3, <1>4

(* Nothing about loops and names changes. *)
LEMMA BusySame == Busy /\ UNCHANGED <<loop, name>> => Busy'
BY DEF Busy

(* What a loop holds, where it is. *)
LEMMA LoopFacts ==
    ASSUME LoopTypes, NEW g \in Loops
    PROVE  /\ loop[g].agent \in Nodes
           /\ loop[g].pc \in {"none", "want_start", "poll_start", "recv", "done"} => loop[g].held = NoMessage
           /\ loop[g].pc = "config" => loop[g].held \in ConfigMessage
           /\ loop[g].pc \in {"want_process", "poll_process", "sending", "sent", "failing"}
                 => loop[g].held \in InputMessage
<1>1. loop[g] \in LoopState
  BY DEF LoopTypes
<1>2. CASE loop[g] \in [pc : {"none", "want_start", "poll_start", "recv", "done"}, agent : Nodes,
                        held : {NoMessage}]
  BY <1>2
<1>3. CASE loop[g] \in [pc : {"config"}, agent : Nodes, held : ConfigMessage]
  BY <1>3
<1>4. CASE loop[g] \in [pc : {"want_process", "poll_process", "sending", "sent", "failing"}, agent : Nodes,
                        held : InputMessage]
  BY <1>4
<1> QED
  BY <1>1, <1>2, <1>3, <1>4 DEF LoopState

(* A place in the loop, and what may be held there. *)
Holds(stage, m) ==
    \/ stage \in {"none", "want_start", "poll_start", "recv", "done"} /\ m = NoMessage
    \/ stage = "config" /\ m \in ConfigMessage
    \/ stage \in {"want_process", "poll_process", "sending", "sent", "failing"} /\ m \in InputMessage

(* A loop moves to a place where it may hold what it holds. *)
LEMMA LoopMoves ==
    ASSUME LoopTypes, NEW g \in Loops, NEW stage, NEW m, Holds(stage, m), LoopHolds(g, stage, m)
    PROVE  /\ loop' \in [Loops -> LoopState]
           /\ loop'[g].pc = stage /\ loop'[g].agent = loop[g].agent
           /\ \A h \in Loops : h # g => loop'[h] = loop[h]
           /\ stage # "sending" => \A h \in Loops : loop'[h].pc = "sending" => loop[h] = loop'[h]
<1>1. PICK a \in Nodes : a = loop[g].agent
  BY LoopFacts
<1>2. PICK r : r = [pc |-> stage, agent |-> a, held |-> m]
  OBVIOUS
<1>3. r \in LoopState
  BY <1>2 DEF Holds, LoopState
<1>4. loop' = [loop EXCEPT ![g] = r]
  BY <1>1, <1>2 DEF LoopHolds
<1>5. loop \in [Loops -> LoopState]
  BY DEF LoopTypes
<1>6. loop' \in [Loops -> LoopState] /\ loop'[g] = r /\ \A h \in Loops : h # g => loop'[h] = loop[h]
  BY <1>3, <1>4, <1>5
<1>7. r.pc = stage /\ r.agent = a
  BY <1>2
<1> QED
  BY <1>1, <1>6, <1>7

(* A loop goes on with what it holds. *)
LEMMA LoopGoes ==
    ASSUME LoopTypes, NEW g \in Loops, NEW stage, LoopGoto(g, stage),
           \/ /\ loop[g].pc \in {"none", "want_start", "poll_start", "recv", "done"}
              /\ stage \in {"none", "want_start", "poll_start", "recv", "done"}
           \/ /\ loop[g].pc \in {"want_process", "poll_process", "sending", "sent", "failing"}
              /\ stage \in {"want_process", "poll_process", "sending", "sent", "failing"}
    PROVE  /\ loop' \in [Loops -> LoopState]
           /\ loop'[g].pc = stage /\ loop'[g].agent = loop[g].agent
           /\ \A h \in Loops : h # g => loop'[h] = loop[h]
           /\ stage # "sending" => \A h \in Loops : loop'[h].pc = "sending" => loop[h] = loop'[h]
<1>1. PICK m : m = loop[g].held
  OBVIOUS
<1>2. Holds(stage, m)
  BY <1>1, LoopFacts DEF Holds
<1>3. LoopHolds(g, stage, m)
  BY <1>1 DEF LoopGoto, LoopHolds
<1> QED
  BY <1>2, <1>3, LoopMoves

(* A loop that goes back to its mailbox, or is over. *)
LEMMA LoopBack ==
    ASSUME LoopTypes, NEW g \in Loops, NEW stage \in {"recv", "done"}, LoopHolds(g, stage, NoMessage)
    PROVE  /\ loop' \in [Loops -> LoopState]
           /\ \A h \in Loops : loop'[h].pc = "sending" => loop[h] = loop'[h]
<1>1. PICK m : m = NoMessage
  OBVIOUS
<1>2. Holds(stage, m) /\ LoopHolds(g, stage, m) /\ stage # "sending"
  BY <1>1 DEF Holds
<1> QED
  BY <1>2, LoopMoves

(* Mailboxes: a message is delivered, or all are dropped. *)
LEMMA MailTypes ==
    ASSUME LoopTypes, NEW g \in Loops
    PROVE  /\ \A m \in AgentMessage : Delivered(g, m) => mailbox' \in [Loops -> Seq(AgentMessage)]
           /\ mailbox' = [mailbox EXCEPT ![g] = <<>>] => mailbox' \in [Loops -> Seq(AgentMessage)]
           /\ mailbox' = [mailbox EXCEPT ![g] = Append(@, Stop)] => mailbox' \in [Loops -> Seq(AgentMessage)]
           /\ mailbox[g] # <<>> => Head(mailbox[g]) \in AgentMessage
           /\ mailbox[g] # <<>> /\ mailbox' = [mailbox EXCEPT ![g] = Tail(@)]
                 => mailbox' \in [Loops -> Seq(AgentMessage)]
<1>1. mailbox \in [Loops -> Seq(AgentMessage)]
  BY DEF LoopTypes
<1>2. PICK q \in Seq(AgentMessage) : q = mailbox[g]
  BY <1>1
<1>3. \A m \in AgentMessage : Append(q, m) \in Seq(AgentMessage)
  OBVIOUS
<1>4. << >> \in Seq(AgentMessage)
  OBVIOUS
<1>5. q # << >> => Tail(q) \in Seq(AgentMessage) /\ Head(q) \in AgentMessage
  OBVIOUS
<1>6. \A s \in Seq(AgentMessage) : [mailbox EXCEPT ![g] = s] \in [Loops -> Seq(AgentMessage)]
  BY <1>1
<1>7. ASSUME NEW m \in AgentMessage, Delivered(g, m) PROVE mailbox' \in [Loops -> Seq(AgentMessage)]
  <2>1. mailbox' = mailbox \/ mailbox' = [mailbox EXCEPT ![g] = Append(q, m)]
    BY <1>2, <1>7 DEF Delivered
  <2> QED
    BY <1>1, <1>3, <1>6, <2>1
<1>8. ASSUME mailbox' = [mailbox EXCEPT ![g] = Append(@, Stop)] PROVE mailbox' \in [Loops -> Seq(AgentMessage)]
  <2>1. mailbox' = [mailbox EXCEPT ![g] = Append(q, Stop)]
    BY <1>2, <1>8
  <2>2. Stop \in AgentMessage
    BY MessageTypes
  <2> QED
    BY <1>3, <1>6, <2>1, <2>2
<1>9. ASSUME mailbox[g] # <<>>, mailbox' = [mailbox EXCEPT ![g] = Tail(@)]
      PROVE  mailbox' \in [Loops -> Seq(AgentMessage)]
  <2>1. mailbox' = [mailbox EXCEPT ![g] = Tail(q)]
    BY <1>2, <1>9
  <2> QED
    BY <1>2, <1>5, <1>6, <1>9, <2>1
<1>10. mailbox' = [mailbox EXCEPT ![g] = << >>] => mailbox' \in [Loops -> Seq(AgentMessage)]
  BY <1>4, <1>6
<1> QED
  BY <1>2, <1>5, <1>7, <1>8, <1>9, <1>10

(* What a caller's operation carries. *)
LEMMA CallFacts ==
    ASSUME CallTypes, NEW c \in Callers
    PROVE  /\ call[c].agent \in Nodes
           /\ call[c].gen \in Loops \cup {0}
           /\ call[c].pc \in {"install_token", "push"} => call[c].gen \in Loops
           /\ call[c].pc \in {"push", "direct"} => call[c].name \in Names \cup {NoName}
<1>1. call[c] \in CallState
  BY DEF CallTypes
<1>2. CASE call[c] \in [pc : {"idle", "insert_tx", "take_token", "stop_lock"}, agent : Nodes, gen : {0},
                        name : {NoName}]
  BY <1>2
<1>3. CASE call[c] \in [pc : {"install_token"}, agent : Nodes, gen : Loops, name : {NoName}]
  BY <1>3
<1>4. CASE call[c] \in [pc : {"cancel"}, agent : Nodes, gen : Loops \cup {0}, name : {NoName}]
  BY <1>4
<1>5. CASE call[c] \in [pc : {"push"}, agent : Nodes, gen : Loops, name : Names \cup {NoName}]
  BY <1>5
<1>6. CASE call[c] \in [pc : {"direct"}, agent : Nodes, gen : {0}, name : Names \cup {NoName}]
  BY <1>6
<1> QED
  BY <1>1, <1>2, <1>3, <1>4, <1>5, <1>6 DEF CallState

(* The states of operations. *)
LEMMA CallStates ==
    /\ NoCall \in CallState
    /\ \A a \in Nodes, stage \in {"insert_tx", "take_token", "stop_lock"} : CallAt(stage, a, 0) \in CallState
    /\ \A a \in Nodes, g \in Loops : CallAt("install_token", a, g) \in CallState
    /\ \A a \in Nodes, g \in Loops \cup {0} : CallAt("cancel", a, g) \in CallState
    /\ \A a \in Nodes, n \in Names \cup {NoName}, g \in Loops :
          [pc |-> "push", agent |-> a, gen |-> g, name |-> n] \in CallState
    /\ \A a \in Nodes, n \in Names \cup {NoName} :
          [pc |-> "direct", agent |-> a, gen |-> 0, name |-> n] \in CallState
<1>1. NoCall \in CallState
  BY BoundsAreNat DEF NoCall, CallAt, CallState
<1>2. \A a \in Nodes, stage \in {"insert_tx", "take_token", "stop_lock"} : CallAt(stage, a, 0) \in CallState
  BY DEF CallAt, CallState
<1>3. \A a \in Nodes, g \in Loops : CallAt("install_token", a, g) \in CallState
  BY DEF CallAt, CallState
<1>4. \A a \in Nodes, g \in Loops \cup {0} : CallAt("cancel", a, g) \in CallState
  BY DEF CallAt, CallState
<1>5. \A a \in Nodes, n \in Names \cup {NoName}, g \in Loops :
         [pc |-> "push", agent |-> a, gen |-> g, name |-> n] \in CallState
  BY DEF CallState
<1>6. \A a \in Nodes, n \in Names \cup {NoName} :
         [pc |-> "direct", agent |-> a, gen |-> 0, name |-> n] \in CallState
  BY DEF CallState
<1> QED
  BY <1>1, <1>2, <1>3, <1>4, <1>5, <1>6

(* A caller moves on. *)
LEMMA CallMoves ==
    ASSUME CallTypes, NEW c, NEW s \in CallState, call' = [call EXCEPT ![c] = s],
           ops' = ops \/ (ops < MaxOps /\ ops' = ops + 1)
    PROVE  CallTypes'
<1>1. call' \in [Callers -> CallState]
  BY DEF CallTypes
<1>2. ops' \in 0 .. MaxOps
  BY BoundsAreNat DEF CallTypes
<1> QED
  BY <1>1, <1>2 DEF CallTypes

(* What the message loop serves. *)
LEMMA RouteFacts ==
    ASSUME QueueTypes, route.pc # "recv"
    PROVE  /\ route.value \in Values /\ route.channel \in Channels \cup {<< >>}
           /\ route.todo \in Seq(Target)
           /\ route.pc \in {"push", "direct"} => route.todo # << >>
           /\ route.pc = "push" => route.gen \in Loops
           /\ route.todo # << >> => Head(route.todo) \in Target /\ Tail(route.todo) \in Seq(Target)
<1>1. route \in RouteState /\ route # Receiving
  BY DEF QueueTypes, Receiving
<1>2. CASE route \in [pc : {"deliver"}, value : Values, channel : Channels \cup {<< >>}, todo : Seq(Target),
                      gen : {0}]
  BY <1>2
<1>3. CASE route \in [pc : {"push"}, value : Values, channel : Channels \cup {<< >>},
                      todo : Seq(Target) \ {<< >>}, gen : Loops]
  BY <1>3
<1>4. CASE route \in [pc : {"direct"}, value : Values, channel : Channels \cup {<< >>},
                      todo : Seq(Target) \ {<< >>}, gen : {0}]
  BY <1>4
<1> QED
  BY <1>1, <1>2, <1>3, <1>4 DEF RouteState

(* The message loop turns to a target, or leaves it behind. *)
LEMMA RouteMoves ==
    ASSUME QueueTypes, route.pc # "recv", route.todo # << >>, UNCHANGED central
    PROVE  /\ \A g \in Loops : RouteGoto("push", g) => QueueTypes'
           /\ RouteGoto("direct", 0) => QueueTypes'
           /\ RouteNext => QueueTypes'
<1>1. PICK v \in Values : v = route.value
  BY RouteFacts
<1>2. PICK c \in Channels \cup {<< >>} : c = route.channel
  BY RouteFacts
<1>3. PICK s \in Seq(Target) : s = route.todo /\ s # << >> /\ Tail(s) \in Seq(Target)
  BY RouteFacts
<1>4. PICK p, e : route = [pc |-> p, value |-> v, channel |-> c, todo |-> s, gen |-> e]
  <2>1. route \in RouteState /\ route # Receiving
    BY DEF QueueTypes, Receiving
  <2>2. route = [pc |-> route.pc, value |-> v, channel |-> c, todo |-> s, gen |-> route.gen]
    BY <1>1, <1>2, <1>3, <2>1 DEF RouteState
  <2> QED
    BY <2>2
<1>5. ASSUME NEW g \in Loops, RouteGoto("push", g) PROVE QueueTypes'
  <2>1. route' = [[pc |-> p, value |-> v, channel |-> c, todo |-> s, gen |-> e] EXCEPT !.pc = "push", !.gen = g]
    BY <1>4, <1>5, Zenon DEF RouteGoto
  <2>2. route' = [pc |-> "push", value |-> v, channel |-> c, todo |-> s, gen |-> g]
    BY <2>1
  <2> QED
    BY <1>3, <2>2 DEF QueueTypes, RouteState
<1>6. ASSUME RouteGoto("direct", 0) PROVE QueueTypes'
  <2>1. route' = [[pc |-> p, value |-> v, channel |-> c, todo |-> s, gen |-> e] EXCEPT !.pc = "direct", !.gen = 0]
    BY <1>4, <1>6, Zenon DEF RouteGoto
  <2>2. route' = [pc |-> "direct", value |-> v, channel |-> c, todo |-> s, gen |-> 0]
    BY <2>1
  <2> QED
    BY <1>3, <2>2 DEF QueueTypes, RouteState
<1>7. ASSUME RouteNext PROVE QueueTypes'
  <2>1. route' = [[pc |-> p, value |-> v, channel |-> c, todo |-> s, gen |-> e]
                     EXCEPT !.pc = "deliver", !.gen = 0, !.todo = Tail(@)]
    BY <1>4, <1>7, Zenon DEF RouteNext
  <2>2. route' = [pc |-> "deliver", value |-> v, channel |-> c, todo |-> Tail(s), gen |-> 0]
    BY <2>1
  <2> QED
    BY <1>3, <2>2 DEF QueueTypes, RouteState
<1> QED
  BY <1>5, <1>6, <1>7
-----------------------------------------------------------------------------
(* The steps of start_agent, stop_agent and set_agent_configs. *)
LEMMA ReadStatusStep ==
    ASSUME IOInv, NEW c \in Callers, NEW a \in Nodes, ReadStatus(c, a)
    PROVE  IOInv'
<1>1. PICK s \in CallState : s = CallAt("insert_tx", a, 0)
  BY CallStates
<1>2. CallTypes'
  BY <1>1, CallMoves DEF IOInv, ReadStatus
<1> QED
  BY <1>2, Kept, BusySame DEF IOInv, ReadStatus

(* The new sender replaces the old one. *)
LEMMA InsertTxStep ==
    ASSUME IOInv, NEW c \in Callers, InsertTx(c)
    PROVE  IOInv'
<1>1. PICK a \in Nodes : a = call[c].agent
  BY CallFacts DEF IOInv
<1>2. PICK g \in Loops : g = spawned + 1
  BY DEF InsertTx
<1>3. PICK s \in CallState : s = CallAt("install_token", a, g)
  BY CallStates
<1>4. call' = [call EXCEPT ![c] = s] /\ UNCHANGED ops
  BY <1>1, <1>2, <1>3 DEF InsertTx
<1>5. CallTypes'
  BY <1>4, CallMoves DEF IOInv
<1>6. SlotTypes'
  BY <1>1, <1>2 DEF InsertTx, SlotTypes, IOInv
<1> QED
  BY <1>5, <1>6, Kept, BusySame DEF IOInv, InsertTx

(* The new loop begins, and its token replaces the old one. *)
LEMMA InstallTokenStep ==
    ASSUME IOInv, NEW c \in Callers, InstallToken(c)
    PROVE  IOInv'
<1>1. PICK a \in Nodes : a = call[c].agent
  BY CallFacts DEF IOInv
<1>2. PICK g \in Loops : g = call[c].gen
  BY CallFacts DEF IOInv, InstallToken
<1>3. PICK s \in CallState : s = NoCall
  BY CallStates
<1>4. CallTypes'
  BY <1>3, CallMoves DEF IOInv, InstallToken
<1>5. SlotTypes'
  BY <1>1, <1>2 DEF InstallToken, SlotTypes, IOInv
<1>6. PICK r : r = LoopAt("want_start", a)
  OBVIOUS
<1>7. r \in LoopState /\ r.pc = "want_start"
  BY <1>6 DEF LoopAt, LoopState
<1>8. loop' = [loop EXCEPT ![g] = r] /\ UNCHANGED <<mailbox, outdated>>
  BY <1>1, <1>2, <1>6 DEF InstallToken
<1>9. loop' \in [Loops -> LoopState] /\ \A h \in Loops : loop'[h].pc = "sending" => loop[h] = loop'[h]
  BY <1>7, <1>8 DEF IOInv, LoopTypes
<1>10. LoopTypes'
  BY <1>8, <1>9 DEF IOInv, LoopTypes
<1>11. NodeInv' /\ UNCHANGED name /\ QueueTypes' /\ ValueTypes'
  BY Kept DEF IOInv, InstallToken
<1>12. Busy'
  BY <1>9, <1>11, BusyKept DEF IOInv
<1> QED
  BY <1>4, <1>5, <1>10, <1>11, <1>12 DEF IOInv

(* The sender is taken, and Stop queued if there is room. *)
LEMMA TakeTxStep ==
    ASSUME IOInv, NEW c \in Callers, NEW a \in Nodes, TakeTx(c, a)
    PROVE  IOInv'
<1>1. PICK s \in CallState : s = CallAt("take_token", a, 0)
  BY CallStates
<1>2. CallTypes'
  BY <1>1, CallMoves DEF IOInv, TakeTx
<1>3. PICK g \in Loops \cup {0} : g = agent_txs[a]
  BY DEF IOInv, SlotTypes
<1>4. mailbox' = mailbox \/ (g \in Loops /\ mailbox' = [mailbox EXCEPT ![g] = Append(@, Stop)])
  BY <1>3 DEF TakeTx
<1>5. mailbox' \in [Loops -> Seq(AgentMessage)]
  BY <1>4, MailTypes DEF IOInv, LoopTypes
<1>6. LoopTypes' /\ UNCHANGED loop
  BY <1>5 DEF IOInv, LoopTypes, TakeTx
<1>7. SlotTypes'
  BY DEF IOInv, SlotTypes, TakeTx
<1> QED
  BY <1>2, <1>6, <1>7, Kept, BusySame DEF IOInv, TakeTx

(* The token is taken. *)
LEMMA TakeTokenStep ==
    ASSUME IOInv, NEW c \in Callers, TakeToken(c)
    PROVE  IOInv'
<1>1. PICK a \in Nodes : a = call[c].agent
  BY CallFacts DEF IOInv
<1>2. PICK g \in Loops \cup {0} : g = agent_tokens[a]
  BY DEF IOInv, SlotTypes
<1>3. PICK s \in CallState : s = CallAt("cancel", a, g)
  BY CallStates
<1>4. call' = [call EXCEPT ![c] = s] /\ UNCHANGED ops
  BY <1>1, <1>2, <1>3 DEF TakeToken
<1>5. CallTypes'
  BY <1>4, CallMoves DEF IOInv
<1>6. SlotTypes'
  BY <1>1 DEF IOInv, SlotTypes, TakeToken
<1> QED
  BY <1>5, <1>6, Kept, BusySame DEF IOInv, TakeToken

(* The token is cancelled. *)
LEMMA CancelTokenStep ==
    ASSUME IOInv, NEW c \in Callers, CancelToken(c)
    PROVE  IOInv'
<1>1. PICK a \in Nodes : a = call[c].agent
  BY CallFacts DEF IOInv
<1>2. call[c].gen \in Loops \cup {0}
  BY CallFacts DEF IOInv
<1>3. PICK s \in CallState : s = CallAt("stop_lock", a, 0)
  BY CallStates
<1>4. call' = [call EXCEPT ![c] = s] /\ UNCHANGED ops
  BY <1>1, <1>3 DEF CancelToken
<1>5. CallTypes'
  BY <1>4, CallMoves DEF IOInv
<1>6. SlotTypes'
  BY <1>2 DEF IOInv, SlotTypes, CancelToken
<1> QED
  BY <1>5, <1>6, Kept, BusySame DEF IOInv, CancelToken

(* An agent that runs is stopped. *)
LEMMA StopLockStep ==
    ASSUME IOInv, NEW c \in Callers, StopLock(c)
    PROVE  IOInv'
<1>1. PICK a \in Nodes : a = call[c].agent
  BY CallFacts DEF IOInv
<1>2. PICK s \in CallState : s = NoCall
  BY CallStates
<1>3. CallTypes'
  BY <1>2, CallMoves DEF IOInv, StopLock
<1>4. NodeInv' /\ UNCHANGED name
  <2>1. CASE status[a] = "Start" /\ RunStop(a)
    BY <2>1, RunStopStep DEF IOInv, RunStop
  <2>2. CASE UNCHANGED nodeVars
    BY <2>2, Kept DEF IOInv
  <2> QED
    BY <1>1, <2>1, <2>2 DEF StopLock
<1> QED
  BY <1>3, <1>4, Kept, BusySame DEF IOInv, StopLock

(* set_agent_configs looks up the sender. *)
LEMMA RenameStep ==
    ASSUME IOInv, NEW c \in Callers, NEW a \in Nodes, NEW n \in Names \cup {NoName}, Rename(c, a, n)
    PROVE  IOInv'
<1>1. PICK g \in Loops \cup {0} : g = agent_txs[a]
  BY DEF IOInv, SlotTypes
<1>2. PICK s : s = [pc |-> IF g = 0 THEN "direct" ELSE "push", agent |-> a, gen |-> g, name |-> n]
  OBVIOUS
<1>3. s \in CallState
  BY <1>2, CallStates
<1>4. call' = [call EXCEPT ![c] = s] /\ ops < MaxOps /\ ops' = ops + 1
  BY <1>1, <1>2 DEF Rename
<1>5. CallTypes'
  BY <1>3, <1>4, CallMoves DEF IOInv
<1> QED
  BY <1>5, Kept, BusySame DEF IOInv, Rename

(* It queues the config, *)
LEMMA RenamePushStep ==
    ASSUME IOInv, NEW c \in Callers, RenamePush(c)
    PROVE  IOInv'
<1>1. PICK g \in Loops : g = call[c].gen
  BY CallFacts DEF IOInv, RenamePush
<1>2. PICK n \in Names \cup {NoName} : n = call[c].name
  BY CallFacts DEF IOInv, RenamePush
<1>3. PICK m \in AgentMessage : m = Config(n)
  BY MessageTypes
<1>4. Delivered(g, m)
  BY <1>1, <1>2, <1>3 DEF RenamePush
<1>5. mailbox' \in [Loops -> Seq(AgentMessage)]
  BY <1>4, MailTypes DEF IOInv
<1>6. LoopTypes' /\ UNCHANGED loop
  BY <1>5 DEF IOInv, LoopTypes, RenamePush
<1>7. PICK s \in CallState : s = NoCall
  BY CallStates
<1>8. CallTypes'
  BY <1>7, CallMoves DEF IOInv, RenamePush
<1> QED
  BY <1>6, <1>8, Kept, BusySame DEF IOInv, RenamePush

(* or applies it itself. *)
LEMMA RenameDirectStep ==
    ASSUME IOInv, NEW c \in Callers, RenameDirect(c)
    PROVE  IOInv'
<1>1. PICK a \in Nodes : a = call[c].agent
  BY CallFacts DEF IOInv
<1>2. PICK n \in Names \cup {NoName} : n = call[c].name
  BY CallFacts DEF IOInv, RenameDirect
<1>3. SetName(a, n)
  BY <1>1, <1>2 DEF RenameDirect
<1>4. NodeInv'
  BY <1>3, SetNameStep DEF IOInv
<1>5. PICK s \in CallState : s = NoCall
  BY CallStates
<1>6. CallTypes'
  BY <1>5, CallMoves DEF IOInv, RenameDirect
<1>7. SlotTypes' /\ LoopTypes' /\ UNCHANGED loop /\ QueueTypes' /\ ValueTypes'
  BY Kept DEF IOInv, RenameDirect
<1>8. Busy'
  BY <1>3, <1>7, BusyKept DEF IOInv
<1> QED
  BY <1>4, <1>6, <1>7, <1>8 DEF IOInv
-----------------------------------------------------------------------------
(* Steps of a loop at its locks and its token: where it goes. *)
LEMMA LoopEndsTypes ==
    ASSUME IOInv, NEW g \in Loops, LoopEnds(g), UNCHANGED outdated
    PROVE  LoopTypes' /\ \A h \in Loops : loop'[h].pc = "sending" => loop[h] = loop'[h]
<1>1. loop' \in [Loops -> LoopState] /\ \A h \in Loops : loop'[h].pc = "sending" => loop[h] = loop'[h]
  BY LoopBack DEF IOInv, LoopEnds
<1>2. mailbox' \in [Loops -> Seq(AgentMessage)]
  BY MailTypes DEF IOInv, LoopEnds
<1> QED
  BY <1>1, <1>2 DEF IOInv, LoopTypes

(* A step of a loop that leaves names, calls and queues alone. *)
LEMMA LoopOnly ==
    ASSUME IOInv, LoopTypes', \A h \in Loops : loop'[h].pc = "sending" => loop[h] = loop'[h],
           UNCHANGED <<nodeVars, slotVars, callVars, central, route, valueVars>>
    PROVE  IOInv'
<1>1. NodeInv' /\ UNCHANGED name /\ SlotTypes' /\ CallTypes' /\ QueueTypes' /\ ValueTypes'
  BY Kept DEF IOInv
<1>2. Busy'
  BY <1>1, BusyKept DEF IOInv
<1> QED
  BY <1>1, <1>2 DEF IOInv

(* A loop polls its token before start(), *)
LEMMA PollStartTokenStep ==
    ASSUME IOInv, NEW g \in Loops, PollStartToken(g)
    PROVE  IOInv'
<1>1. CASE g \in fired
  BY <1>1, LoopEndsTypes, LoopOnly DEF PollStartToken
<1>2. CASE g \notin fired
  <2>1. LoopGoto(g, "poll_start") /\ UNCHANGED <<mailbox, outdated>>
    BY <1>2 DEF PollStartToken
  <2>2. loop' \in [Loops -> LoopState] /\ \A h \in Loops : loop'[h].pc = "sending" => loop[h] = loop'[h]
    BY <2>1, LoopGoes DEF IOInv, PollStartToken
  <2>3. LoopTypes'
    BY <2>1, <2>2 DEF IOInv, LoopTypes
  <2> QED
    BY <2>2, <2>3, LoopOnly DEF PollStartToken
<1> QED
  BY <1>1, <1>2

(* and runs start() if it gets the lock. *)
LEMMA PollStartStep ==
    ASSUME IOInv, NEW g \in Loops, PollStart(g)
    PROVE  IOInv'
<1>1. PICK a \in Nodes : a = loop[g].agent
  BY LoopFacts DEF IOInv
<1>2. PICK stage \in {"recv", "want_start"} : LoopGoto(g, stage)
  BY DEF PollStart
<1>3. loop' \in [Loops -> LoopState] /\ \A h \in Loops : loop'[h].pc = "sending" => loop[h] = loop'[h]
  BY <1>2, LoopGoes DEF IOInv, PollStart
<1>4. LoopTypes'
  BY <1>3 DEF IOInv, LoopTypes, PollStart
<1>5. NodeInv' /\ UNCHANGED name
  <2>1. CASE RunStart(a)
    BY <2>1, RunStartStep DEF IOInv, RunStart
  <2>2. CASE UNCHANGED nodeVars
    BY <2>2, Kept DEF IOInv
  <2> QED
    BY <1>1, <2>1, <2>2 DEF PollStart
<1>6. Busy'
  BY <1>3, <1>5, BusyKept DEF IOInv
<1> QED
  BY <1>4, <1>5, <1>6, Kept DEF IOInv, PollStart

(* A loop receives a message, *)
LEMMA RecvStep ==
    ASSUME IOInv, NEW g \in Loops, Recv(g)
    PROVE  IOInv'
<1>0. UNCHANGED <<nodeVars, slotVars, outdated, callVars, central, route, valueVars>>
  BY DEF Recv
<1>1. PICK m \in AgentMessage : m = Head(mailbox[g])
  BY MailTypes DEF IOInv, Recv
<1>2. CASE m.kind = "Stop"
  <2>1. LoopEnds(g)
    BY <1>1, <1>2 DEF Recv
  <2> QED
    BY <1>0, <2>1, LoopEndsTypes, LoopOnly
<1>3. CASE m.kind # "Stop"
  <2>1. PICK stage : stage = IF m.kind = "Config" THEN "config" ELSE "want_process"
    OBVIOUS
  <2>2. Holds(stage, m) /\ stage # "sending"
    BY <1>3, <2>1, MessageKinds DEF Holds
  <2>3. LoopHolds(g, stage, m) /\ mailbox[g] # <<>> /\ mailbox' = [mailbox EXCEPT ![g] = Tail(@)]
    BY <1>1, <1>3, <2>1 DEF Recv, LoopHolds
  <2>4. loop' \in [Loops -> LoopState] /\ \A h \in Loops : loop'[h].pc = "sending" => loop[h] = loop'[h]
    BY <2>2, <2>3, LoopMoves DEF IOInv
  <2>5. mailbox' \in [Loops -> Seq(AgentMessage)]
    BY <2>3, MailTypes DEF IOInv
  <2>6. LoopTypes'
    BY <1>0, <2>4, <2>5 DEF IOInv, LoopTypes
  <2> QED
    BY <1>0, <2>4, <2>6, LoopOnly
<1> QED
  BY <1>2, <1>3

(* or finds that nobody can send to it. *)
LEMMA RecvNoneStep ==
    ASSUME IOInv, NEW g \in Loops, RecvNone(g)
    PROVE  IOInv'
BY LoopEndsTypes, LoopOnly DEF RecvNone

(* It applies a config. *)
LEMMA ApplyConfigStep ==
    ASSUME IOInv, NEW g \in Loops, ApplyConfig(g)
    PROVE  IOInv'
<1>1. PICK a \in Nodes : a = loop[g].agent
  BY LoopFacts DEF IOInv
<1>2. PICK n \in Names \cup {NoName} : n = loop[g].held.name
  <2>1. loop[g].held \in ConfigMessage
    BY LoopFacts DEF IOInv, ApplyConfig
  <2> QED
    BY <2>1 DEF ConfigMessage
<1>3. SetName(a, n)
  BY <1>1, <1>2 DEF ApplyConfig
<1>4. NodeInv'
  BY <1>3, SetNameStep DEF IOInv
<1>5. loop' \in [Loops -> LoopState] /\ \A h \in Loops : loop'[h].pc = "sending" => loop[h] = loop'[h]
  BY LoopBack DEF IOInv, ApplyConfig
<1>6. LoopTypes'
  BY <1>5 DEF IOInv, LoopTypes, ApplyConfig
<1>7. Busy'
  BY <1>3, <1>5, BusyKept DEF IOInv
<1> QED
  BY <1>4, <1>6, <1>7, Kept DEF IOInv, ApplyConfig

(* It polls its token before process(), *)
LEMMA PollProcessTokenStep ==
    ASSUME IOInv, NEW g \in Loops, PollProcessToken(g)
    PROVE  IOInv'
<1>1. loop' \in [Loops -> LoopState] /\ \A h \in Loops : loop'[h].pc = "sending" => loop[h] = loop'[h]
  <2>1. CASE g \in fired
    BY <2>1, LoopBack DEF IOInv, PollProcessToken
  <2>2. CASE g \notin fired
    BY <2>2, LoopGoes DEF IOInv, PollProcessToken
  <2> QED
    BY <2>1, <2>2
<1>2. LoopTypes'
  BY <1>1 DEF IOInv, LoopTypes, PollProcessToken
<1> QED
  BY <1>1, <1>2, LoopOnly DEF PollProcessToken

(* and begins process() if it gets the lock. *)
LEMMA PollProcessStep ==
    ASSUME IOInv, NEW g \in Loops, PollProcess(g)
    PROVE  IOInv'
<1>0. loop[g].pc = "poll_process" /\ UNCHANGED <<nodeVars, slotVars, mailbox, callVars, central, route, valueVars>>
  BY DEF PollProcess
<1>1. PICK a \in Nodes : a = loop[g].agent
  BY LoopFacts DEF IOInv
<1>2. outdated' \subseteq Nodes
  BY <1>1 DEF PollProcess, IOInv, LoopTypes
<1>3. CASE LoopHolds(g, "recv", NoMessage) \/ LoopGoto(g, "want_process")
  <2>1. loop' \in [Loops -> LoopState] /\ \A h \in Loops : loop'[h].pc = "sending" => loop[h] = loop'[h]
    <3>1. CASE LoopHolds(g, "recv", NoMessage)
      BY <3>1, LoopBack DEF IOInv
    <3>2. CASE LoopGoto(g, "want_process")
      BY <1>0, <3>2, LoopGoes DEF IOInv
    <3> QED
      BY <1>3, <3>1, <3>2
  <2>2. LoopTypes'
    BY <1>0, <1>2, <2>1 DEF IOInv, LoopTypes
  <2> QED
    BY <1>0, <2>1, <2>2, LoopOnly
<1>4. CASE LoopGoto(g, "sending") /\ ~(a \in OutNodes /\ name[a] = NoName)
  <2>1. /\ loop' \in [Loops -> LoopState]
        /\ loop'[g].agent = a
        /\ \A h \in Loops : h # g => loop'[h] = loop[h]
    BY <1>0, <1>1, <1>4, LoopGoes DEF IOInv
  <2>2. LoopTypes'
    BY <1>0, <1>2, <2>1 DEF IOInv, LoopTypes
  <2>3. NodeInv' /\ UNCHANGED name /\ SlotTypes' /\ CallTypes' /\ QueueTypes' /\ ValueTypes'
    BY <1>0, Kept DEF IOInv
  <2>4. Busy'
    BY <1>4, <2>1, <2>3 DEF IOInv, Busy
  <2> QED
    BY <2>2, <2>3, <2>4 DEF IOInv
<1> QED
  BY <1>1, <1>3, <1>4 DEF PollProcess

(* Its process call is dropped, *)
LEMMA ProcessCancelledStep ==
    ASSUME IOInv, NEW g \in Loops, ProcessCancelled(g)
    PROVE  IOInv'
<1>1. loop' \in [Loops -> LoopState] /\ \A h \in Loops : loop'[h].pc = "sending" => loop[h] = loop'[h]
  BY LoopBack DEF IOInv, ProcessCancelled
<1>2. LoopTypes'
  BY <1>1 DEF IOInv, LoopTypes, ProcessCancelled
<1> QED
  BY <1>1, <1>2, LoopOnly DEF ProcessCancelled

(* ends, *)
LEMMA FinishStep ==
    ASSUME IOInv, NEW g \in Loops, Finish(g)
    PROVE  IOInv'
<1>1. loop' \in [Loops -> LoopState] /\ \A h \in Loops : loop'[h].pc = "sending" => loop[h] = loop'[h]
  BY LoopBack DEF IOInv, Finish
<1>2. LoopTypes'
  BY <1>1 DEF IOInv, LoopTypes, Finish
<1> QED
  BY <1>1, <1>2, LoopOnly DEF Finish

(* or fails. *)
LEMMA FailStep ==
    ASSUME IOInv, NEW g \in Loops, Fail(g)
    PROVE  IOInv'
<1>1. loop' \in [Loops -> LoopState] /\ \A h \in Loops : loop'[h].pc = "sending" => loop[h] = loop'[h]
  BY LoopGoes DEF IOInv, Fail
<1>2. LoopTypes'
  BY <1>1 DEF IOInv, LoopTypes, Fail
<1> QED
  BY <1>1, <1>2, LoopOnly DEF Fail
-----------------------------------------------------------------------------
(* Steps that queue messages. *)

(* What SendOut queues: an output agent has a name to send to. *)
LEMMA SendOutMessage ==
    ASSUME IOInv, NEW g \in Loops, SendOut(g)
    PROVE  \E m \in CentralMessage :
              /\ central' = Append(central, m)
              /\ m.kind # "AgentOut" => \E b \in OutNodes, n \in Names : m.channel = Channel(b, n)
<1>1. PICK a \in Nodes : a = loop[g].agent
  BY LoopFacts DEF IOInv
<1>2. PICK v \in Values : v = loop[g].held.value
  <2>1. loop[g].held \in InputMessage
    BY LoopFacts DEF IOInv, SendOut
  <2> QED
    BY <2>1 DEF InputMessage
<1>3. CASE a \in OutNodes
  <2>1. PICK n \in Names : n = name[a]
    BY <1>1, <1>3 DEF SendOut, IOInv, Busy, NodeInv, NodeTypes
  <2>2. PICK c \in Channels : c = Channel(a, n)
    BY NameFacts
  <2>3. PICK m \in CentralMessage : m = ToChannel(c, v)
    BY MessageTypes
  <2>4. m.channel = c
    BY <2>3 DEF ToChannel
  <2>5. central' = Append(central, m)
    BY <1>1, <1>2, <1>3, <2>1, <2>2, <2>3 DEF SendOut
  <2> QED
    BY <1>3, <2>2, <2>4, <2>5
<1>4. CASE a \notin OutNodes
  <2>1. PICK m \in CentralMessage : m = AgentOut(a, "value", v)
    BY MessageTypes
  <2>2. m.kind = "AgentOut"
    BY <2>1 DEF AgentOut
  <2>3. central' = Append(central, m)
    BY <1>1, <1>2, <1>4, <2>1 DEF SendOut
  <2> QED
    BY <2>2, <2>3
<1> QED
  BY <1>3, <1>4

(* What SendErr queues. *)
LEMMA SendErrMessage ==
    ASSUME IOInv, NEW g \in Loops, SendErr(g)
    PROVE  \E m \in CentralMessage : central' = Append(central, m) /\ m.kind = "AgentOut"
<1>1. PICK a \in Nodes : a = loop[g].agent
  BY LoopFacts DEF IOInv
<1>2. PICK v \in Values : v = loop[g].held.value
  <2>1. loop[g].held \in InputMessage
    BY LoopFacts DEF IOInv, SendErr
  <2> QED
    BY <2>1 DEF InputMessage
<1>3. PICK m \in CentralMessage : m = AgentOut(a, "err", v)
  BY MessageTypes
<1>4. m.kind = "AgentOut"
  BY <1>3 DEF AgentOut
<1>5. central' = Append(central, m)
  BY <1>1, <1>2, <1>3 DEF SendErr
<1> QED
  BY <1>4, <1>5

(* What Write queues: the next value. *)
LEMMA WriteMessage ==
    ASSUME IOInv, NEW c \in WriteChannels, Write(c)
    PROVE  /\ written \in Nat /\ written' = written + 1 /\ written' \in 0 .. MaxWrites
           /\ \E m \in CentralMessage :
                 central' = Append(central, m) /\ m.kind # "AgentOut" /\ m.value = written + 1
<1>1. written \in Nat /\ written + 1 \in Values /\ written' = written + 1 /\ written' \in 0 .. MaxWrites
  BY BoundsAreNat DEF Write, IOInv, ValueTypes, Values
<1>2. c \in Channels
  BY DEF Channels
<1>3. PICK v \in Values : v = written + 1
  BY <1>1
<1>4. PICK m \in CentralMessage : m = ToChannel(c, v)
  BY <1>2, MessageTypes
<1>5. m.kind # "AgentOut" /\ m.value = v
  BY <1>4 DEF ToChannel
<1>6. central' = Append(central, m)
  BY <1>3, <1>4 DEF Write
<1> QED
  BY <1>1, <1>3, <1>5, <1>6

(* The queue keeps its type. *)
LEMMA QueueGrows ==
    ASSUME QueueTypes, \E m \in CentralMessage : central' = Append(central, m), UNCHANGED route
    PROVE  QueueTypes'
<1>1. PICK m \in CentralMessage : central' = Append(central, m)
  OBVIOUS
<1>2. PICK q \in Seq(CentralMessage) : q = central
  BY DEF QueueTypes
<1>3. Append(q, m) \in Seq(CentralMessage)
  OBVIOUS
<1>4. central' \in Seq(CentralMessage)
  BY <1>1, <1>2, <1>3
<1> QED
  BY <1>4 DEF QueueTypes

(* process sends its value. *)
LEMMA SendOutStep ==
    ASSUME IOInv, NEW g \in Loops, SendOut(g)
    PROVE  IOInv'
<1>0. loop[g].pc = "sending" /\ UNCHANGED <<nodeVars, slotVars, mailbox, outdated, callVars, route, valueVars>>
  BY DEF SendOut
<1>1. QueueTypes'
  BY <1>0, SendOutMessage, QueueGrows DEF IOInv
<1>2. loop' \in [Loops -> LoopState] /\ \A h \in Loops : loop'[h].pc = "sending" => loop[h] = loop'[h]
  <2>1. CASE LoopHolds(g, "recv", NoMessage)
    BY <2>1, LoopBack DEF IOInv
  <2>2. CASE LoopGoto(g, "sent")
    BY <1>0, <2>2, LoopGoes DEF IOInv
  <2> QED
    BY <2>1, <2>2 DEF SendOut
<1>3. LoopTypes'
  BY <1>0, <1>2 DEF IOInv, LoopTypes
<1>4. NodeInv' /\ UNCHANGED name /\ SlotTypes' /\ CallTypes' /\ ValueTypes'
  BY <1>0, Kept DEF IOInv
<1>5. Busy'
  BY <1>2, <1>4, BusyKept DEF IOInv
<1> QED
  BY <1>1, <1>3, <1>4, <1>5 DEF IOInv

(* A failed process sends its error. *)
LEMMA SendErrStep ==
    ASSUME IOInv, NEW g \in Loops, SendErr(g)
    PROVE  IOInv'
<1>0. UNCHANGED <<nodeVars, slotVars, mailbox, outdated, callVars, route, valueVars>>
      /\ LoopHolds(g, "recv", NoMessage)
  BY DEF SendErr
<1>1. QueueTypes'
  BY <1>0, SendErrMessage, QueueGrows DEF IOInv
<1>2. loop' \in [Loops -> LoopState] /\ \A h \in Loops : loop'[h].pc = "sending" => loop[h] = loop'[h]
  BY <1>0, LoopBack DEF IOInv
<1>3. LoopTypes'
  BY <1>0, <1>2 DEF IOInv, LoopTypes
<1>4. NodeInv' /\ UNCHANGED name /\ SlotTypes' /\ CallTypes' /\ ValueTypes'
  BY <1>0, Kept DEF IOInv
<1>5. Busy'
  BY <1>2, <1>4, BusyKept DEF IOInv
<1> QED
  BY <1>1, <1>3, <1>4, <1>5 DEF IOInv

(* A caller writes to a channel. *)
LEMMA WriteStep ==
    ASSUME IOInv, NEW c \in WriteChannels, Write(c)
    PROVE  IOInv'
<1>1. QueueTypes'
  BY WriteMessage, QueueGrows DEF IOInv, Write
<1>2. ValueTypes'
  BY WriteMessage DEF IOInv, ValueTypes, Write
<1> QED
  BY <1>1, <1>2, Kept, BusySame DEF IOInv, Write
-----------------------------------------------------------------------------
(* Steps of the message loop. *)

(* It takes up the first message. *)
LEMMA ReceiveStep ==
    ASSUME IOInv, Receive
    PROVE  IOInv'
<1>1. PICK q \in Seq(CentralMessage) : q = central
  BY DEF IOInv, QueueTypes
<1>2. q # << >> /\ central' = Tail(q)
  BY <1>1 DEF Receive
<1>3. Head(q) \in CentralMessage /\ Tail(q) \in Seq(CentralMessage)
  BY <1>2
<1>4. PICK m \in CentralMessage : m = Head(q)
  BY <1>3
<1>5. Handle(m)
  BY <1>1, <1>4 DEF Receive, Handle, TargetsOf
<1>6. m.value \in Values /\ m.channel \in Channels \cup {<< >>}
      /\ (m.kind # "AgentOut" => m.channel \in Channels)
  BY DEF CentralMessage
<1>7. PICK s \in Seq(Target) : s = TargetsOf(m)
  BY TargetsType DEF IOInv, NodeInv
<1>8. route' = [pc |-> "deliver", value |-> m.value, channel |-> m.channel, todo |-> s, gen |-> 0]
  BY <1>5, <1>7 DEF Handle
<1>9. route' \in RouteState
  BY <1>6, <1>8 DEF RouteState
<1>10. QueueTypes'
  BY <1>2, <1>3, <1>9 DEF QueueTypes
<1>11. m.value \in 0 .. MaxWrites
  BY <1>6, BoundsAreNat DEF Values
<1>12. ValueTypes'
  BY <1>5, <1>6, <1>11 DEF Handle, IOInv, ValueTypes
<1> QED
  BY <1>5, <1>10, <1>12, Kept, BusySame DEF IOInv, Handle

(* It looks up the sender of the next target. *)
LEMMA LookUpStep ==
    ASSUME IOInv, LookUp
    PROVE  IOInv'
<1>0. route.pc # "recv" /\ route.todo # << >> /\ UNCHANGED central
  BY DEF LookUp
<1>1. Head(route.todo).target \in Nodes
  BY <1>0, RouteFacts DEF IOInv, Target
<1>2. PICK g \in Loops \cup {0} : g = agent_txs[Head(route.todo).target]
  BY <1>1 DEF IOInv, SlotTypes
<1>3. (g # 0 /\ RouteGoto("push", g)) \/ RouteGoto("direct", 0) \/ RouteNext
  BY <1>2 DEF LookUp, RouteGoto
<1>4. QueueTypes'
  BY <1>0, <1>3, RouteMoves DEF IOInv
<1> QED
  BY <1>4, Kept, BusySame DEF IOInv, LookUp

(* A port's message is one of an agent's mailbox. *)
LEMMA RoutePushStep ==
    ASSUME IOInv, RoutePush
    PROVE  IOInv'
<1>0. route.pc = "push" /\ route.pc # "recv" /\ UNCHANGED central
  BY DEF RoutePush
<1>1. PICK g \in Loops : g = route.gen
  BY <1>0, RouteFacts DEF IOInv
<1>2. PICK t \in Target : t = Head(route.todo)
  BY <1>0, RouteFacts DEF IOInv
<1>3. PICK v \in Values : v = route.value
  BY <1>0, RouteFacts DEF IOInv
<1>4. PICK m \in AgentMessage : m = PortMessage(t, v)
  BY MessageTypes
<1>5. Delivered(g, m)
  BY <1>1, <1>2, <1>3, <1>4 DEF RoutePush
<1>6. mailbox' \in [Loops -> Seq(AgentMessage)]
  BY <1>5, MailTypes DEF IOInv
<1>7. LoopTypes' /\ UNCHANGED loop
  BY <1>6 DEF IOInv, LoopTypes, RoutePush
<1>8. QueueTypes'
  BY <1>0, RouteFacts, RouteMoves DEF IOInv, RoutePush
<1> QED
  BY <1>7, <1>8, Kept, BusySame DEF IOInv, RoutePush

(* A config goes directly to a stopped agent. *)
LEMMA RouteDirectStep ==
    ASSUME IOInv, RouteDirect
    PROVE  IOInv'
<1>0. route.pc = "direct" /\ route.pc # "recv" /\ UNCHANGED central
  BY DEF RouteDirect
<1>1. PICK a \in Nodes : a = Head(route.todo).target
  BY <1>0, RouteFacts DEF IOInv, Target
<1>2. PICK n \in Names \cup {NoName} : n = AsName[route.value]
  BY <1>0, RouteFacts, NameFacts DEF IOInv
<1>3. SetName(a, n)
  BY <1>1, <1>2 DEF RouteDirect
<1>4. NodeInv'
  BY <1>3, SetNameStep DEF IOInv
<1>5. QueueTypes'
  BY <1>0, RouteFacts, RouteMoves DEF IOInv, RouteDirect
<1>6. SlotTypes' /\ LoopTypes' /\ UNCHANGED loop /\ CallTypes' /\ ValueTypes'
  BY Kept DEF IOInv, RouteDirect
<1>7. Busy'
  BY <1>3, <1>6, BusyKept DEF IOInv
<1> QED
  BY <1>4, <1>5, <1>6, <1>7 DEF IOInv

(* It has served the message. *)
LEMMA RoutedStep ==
    ASSUME IOInv, Routed
    PROVE  IOInv'
<1>1. route.value \in 0 .. MaxWrites
  BY RouteFacts, BoundsAreNat DEF IOInv, Routed, Values
<1>2. ValueTypes'
  BY <1>1 DEF IOInv, ValueTypes, Routed
<1>3. QueueTypes'
  BY DEF IOInv, QueueTypes, RouteState, Routed
<1> QED
  BY <1>2, <1>3, Kept, BusySame DEF IOInv, Routed
-----------------------------------------------------------------------------
(* At first those agents are registered that run and have a name. *)
LEMMA InitRegisters ==
    ASSUME Init
    PROVE  external_input_agents \in [Channels -> Seq(Nodes)] /\ RegisteredOnce
<1>0. SpecAgents \in Seq(Nodes) /\ \A i, j \in DOMAIN SpecAgents : SpecAgents[i] = SpecAgents[j] => i = j
  BY ExternalAssumption
<1>1. name = FirstName /\ status = [a \in Nodes |-> IF a \in Running THEN "Start" ELSE "Init"]
  BY DEF Init
<1> DEFINE At(c) == {i \in DOMAIN SpecAgents :
                        LET a == SpecAgents[i] IN
                        /\ a \in InNodes \cap Running
                        /\ FirstName[a] # NoName /\ Channel(a, FirstName[a]) = c}
<1>2. external_input_agents = [c \in Channels |-> Pick(SpecAgents, At(c))]
  BY DEF Init
<1>3. ASSUME NEW c \in Channels
      PROVE  /\ Pick(SpecAgents, At(c)) \in Seq(Nodes)
             /\ \A a \in InNodes : IF status[a] = "Start" /\ name[a] # NoName /\ c = Channel(a, name[a])
                                   THEN Once(Pick(SpecAgents, At(c)), a)
                                   ELSE Never(Pick(SpecAgents, At(c)), a)
  <2>1. PICK I : I = At(c)
    OBVIOUS
  <2>2. PICK t : t = Pick(SpecAgents, I)
    OBVIOUS
  <2>3. Picked(Nodes, SpecAgents, I, Len(SpecAgents), t)
    BY <1>0, <2>2, PickProperty
  <2>4. /\ t \in Seq(Nodes) /\ DOMAIN t = 1 .. Len(t) /\ Len(t) \in Nat
        /\ DOMAIN SpecAgents = 1 .. Len(SpecAgents) /\ Len(SpecAgents) \in Nat
    BY <1>0, <2>3 DEF Picked
  <2>5. PICK at : PickedAt(SpecAgents, I, Len(SpecAgents), t, at)
    BY <2>3 DEF Picked
  <2>6. \A k \in DOMAIN t : at[k] \in DOMAIN SpecAgents /\ at[k] \in I /\ t[k] = SpecAgents[at[k]]
    BY <2>4, <2>5 DEF PickedAt
  <2>7. \A k, l \in DOMAIN t : k < l => at[k] < at[l]
    BY <2>4, <2>5 DEF PickedAt
  <2>8. \A i \in DOMAIN SpecAgents : i \in I => \E k \in DOMAIN t : at[k] = i
    BY <2>4, <2>5 DEF PickedAt
  <2>9. ASSUME NEW a \in InNodes, status[a] = "Start" /\ name[a] # NoName /\ c = Channel(a, name[a])
        PROVE  Once(t, a)
    <3>0. a \in Running
      BY <1>1, <2>9 DEF InNodes
    <3>1. PICK i \in DOMAIN SpecAgents : SpecAgents[i] = a
      BY DEF InNodes, Nodes
    <3>2. i \in I
      BY <1>1, <2>1, <2>9, <3>0, <3>1
    <3>3. PICK k \in DOMAIN t : at[k] = i
      BY <2>8, <3>2
    <3>4. t[k] = a
      BY <2>6, <3>1, <3>3
    <3>5. ASSUME NEW l \in DOMAIN t, t[l] = a PROVE l = k
      <4>1. at[l] = i
        BY <1>0, <2>6, <3>1, <3>5
      <4>2. ~(l < k) /\ ~(k < l)
        BY <2>4, <2>6, <2>7, <3>3, <4>1
      <4> QED
        BY <2>4, <4>2
    <3> QED
      BY <3>3, <3>4, <3>5 DEF Once
  <2>10. ASSUME NEW a \in InNodes, ~(status[a] = "Start" /\ name[a] # NoName /\ c = Channel(a, name[a]))
         PROVE  Never(t, a)
    <3> SUFFICES ASSUME NEW k \in DOMAIN t, t[k] = a PROVE FALSE
      BY DEF Never
    <3>1. at[k] \in I /\ SpecAgents[at[k]] = a
      BY <2>6
    <3>2. a \in Running /\ FirstName[a] # NoName /\ Channel(a, FirstName[a]) = c
      BY <2>1, <3>1
    <3>3. status[a] = "Start"
      BY <1>1, <3>2 DEF InNodes
    <3> QED
      BY <1>1, <2>10, <3>2, <3>3
  <2> QED
    BY <2>1, <2>2, <2>4, <2>9, <2>10, Zenon
<1> HIDE DEF At
<1>4. external_input_agents \in [Channels -> Seq(Nodes)]
  BY <1>2, <1>3
<1>5. \A c \in Channels : external_input_agents[c] = Pick(SpecAgents, At(c))
  BY <1>2
<1>6. RegisteredOnce
  BY <1>3, <1>5, Zenon DEF RegisteredOnce
<1> QED
  BY <1>4, <1>6

(* The initial states. *)
LEMMA InitIO == Init => IOInv
<1> SUFFICES ASSUME Init PROVE IOInv
  OBVIOUS
<1>1. NodeInv
  BY InitRegisters, ExternalAssumption DEF Init, NodeInv, NodeTypes
<1>2. << >> \in Seq(AgentMessage) /\ << >> \in Seq(CentralMessage)
  OBVIOUS
<1>3. \A a \in Nodes : Position(a) \in DOMAIN SpecAgents
  BY DEF Position, Nodes
<1>4. SlotTypes
  <2>1. agent_txs \in [Nodes -> Loops \cup {0}]
    BY <1>3, BoundsAreNat DEF Init
  <2>2. Len(SpecAgents) \in Loops
    BY BoundsAreNat DEF Loops
  <2> QED
    BY <2>1, <2>2 DEF Init, SlotTypes
<1>5. LoopTypes /\ \A g \in Loops : loop[g].pc # "sending"
  <2>1. \A a \in Nodes, stage \in {"none", "recv"} : LoopAt(stage, a) \in LoopState /\ LoopAt(stage, a).pc # "sending"
    BY DEF LoopAt, LoopState
  <2>2. \A g \in DOMAIN SpecAgents : SpecAgents[g] \in Nodes
    BY DEF Nodes
  <2>3. \A g \in Loops : loop[g] \in LoopState /\ loop[g].pc # "sending"
    BY <2>1, <2>2, BoundsAreNat DEF Init
  <2>4. loop \in [Loops -> LoopState]
    BY <2>3 DEF Init
  <2> QED
    BY <1>2, <2>3, <2>4 DEF Init, LoopTypes
<1>6. CallTypes
  BY CallStates, BoundsAreNat DEF Init, CallTypes
<1>7. QueueTypes
  BY <1>2 DEF Init, QueueTypes, RouteState
<1>8. ValueTypes
  BY BoundsAreNat DEF Init, ValueTypes
<1> QED
  BY <1>1, <1>4, <1>5, <1>6, <1>7, <1>8 DEF IOInv, Busy

(* The invariant is inductive. *)
LEMMA NextIO == IOInv /\ [Next]_ioVars => IOInv'
<1> SUFFICES ASSUME IOInv, [Next]_ioVars PROVE IOInv'
  OBVIOUS
<1>1. CASE \E s \in Starts : ReadStatus(s[1], s[2])
  <2>1. PICK s \in Starts : ReadStatus(s[1], s[2])
    BY <1>1
  <2>2. s[1] \in Callers /\ s[2] \in Nodes
    BY ExternalAssumption
  <2> QED
    BY <2>1, <2>2, ReadStatusStep
<1>2. CASE \E s \in Stops : TakeTx(s[1], s[2])
  <2>1. PICK s \in Stops : TakeTx(s[1], s[2])
    BY <1>2
  <2>2. s[1] \in Callers /\ s[2] \in Nodes
    BY ExternalAssumption
  <2> QED
    BY <2>1, <2>2, TakeTxStep
<1>3. CASE \E r \in Renames : Rename(r[1], r[2], r[3])
  <2>1. PICK r \in Renames : Rename(r[1], r[2], r[3])
    BY <1>3
  <2>2. r[1] \in Callers /\ r[2] \in Nodes /\ r[3] \in Names \cup {NoName}
    BY ExternalAssumption
  <2> QED
    BY <2>1, <2>2, RenameStep
<1>4. CASE \E c \in Callers : CallStep(c)
  BY <1>4, InsertTxStep, InstallTokenStep, TakeTokenStep, CancelTokenStep, StopLockStep, RenamePushStep,
     RenameDirectStep DEF CallStep
<1>5. CASE \E g \in Loops : LoopStep(g) \/ Fail(g)
  BY <1>5, PollStartTokenStep, PollStartStep, RecvStep, RecvNoneStep, ApplyConfigStep, PollProcessTokenStep,
     PollProcessStep, ProcessCancelledStep, SendOutStep, FinishStep, SendErrStep, FailStep DEF LoopStep
<1>6. CASE \E c \in WriteChannels : Write(c)
  BY <1>6, WriteStep
<1>7. CASE RouteStep
  BY <1>7, ReceiveStep, LookUpStep, RoutePushStep, RouteDirectStep, RoutedStep DEF RouteStep
<1>8. CASE UNCHANGED ioVars
  BY <1>8, Kept, BusySame DEF IOInv, ioVars
<1> QED
  BY <1>1, <1>2, <1>3, <1>4, <1>5, <1>6, <1>7, <1>8 DEF Next

(* The invariant holds in all behaviours. *)
LEMMA IOInvariance == Spec => []IOInv
BY InitIO, NextIO, PTL DEF Spec

(* Messages, mailboxes, loops, calls and the message loop have their       *)
(* types: an output agent never sends without a channel, no loop holds     *)
(* what its place does not allow, and the message loop never has a target  *)
(* that is no agent of the preset.                                         *)
THEOREM IOTypeCorrect == Spec => []IOTypeOK
<1>1. IOInv => IOTypeOK
  BY DEF IOInv, NodeInv, IOTypeOK
<1> QED
  BY <1>1, IOInvariance, PTL

(* For every preset, every wiring, any number of callers and every mix of  *)
(* overlapping starts, stops, renames and config messages: an input agent  *)
(* is registered under its current name while it is started, once or, only *)
(* after start() ran on it twice, at least once; and not at all otherwise. *)
THEOREM AlwaysRegisteredOnce == Spec => []RegisteredOnce
<1>1. IOInv => RegisteredOnce
  BY DEF IOInv, NodeInv
<1> QED
  BY <1>1, IOInvariance, PTL
-----------------------------------------------------------------------------
(* The values that wait for channel c in a queue. *)
WaitsFor(q, i, c) == q[i].kind # "AgentOut" /\ q[i].channel = c

(* They are newer than the latest value v, not newer than the last written *)
(* one, and in order.                                                      *)
Ordered(q, v, w, c) ==
    /\ v <= w
    /\ \A i \in DOMAIN q : WaitsFor(q, i, c) => v < q[i].value /\ q[i].value <= w
    /\ \A i, j \in DOMAIN q : i < j /\ WaitsFor(q, i, c) /\ WaitsFor(q, j, c) => q[i].value < q[j].value

(* The inductive invariant of the written order. *)
OrderInv == \A c \in Channels : Direct(c) => Ordered(central, external_values[c], written, c)

(* Values come through a channel that only callers write to in the order   *)
(* in which they were written: InWrittenOrder, for these channels.         *)
DirectInOrder ==
    [][\A c \in Channels : Direct(c) /\ external_values'[c] # external_values[c] =>
          external_values'[c] > external_values[c]]_ioVars

(* Values of messages are numbers. *)
LEMMA ValueIsNat == \A m \in CentralMessage : m.value \in Nat
<1>1. \A m \in CentralMessage : m.value \in Values
  BY DEF CentralMessage
<1>2. Values \subseteq Nat
  BY BoundsAreNat DEF Values
<1> QED
  BY <1>1, <1>2

(* A message is queued: one for the channel is the newest. *)
LEMMA OrderedAppend ==
    ASSUME NEW q \in Seq(CentralMessage), NEW v \in Nat, NEW w \in Nat, NEW c, Ordered(q, v, w, c),
           NEW m \in CentralMessage, NEW w2 \in Nat, w <= w2,
           m.kind # "AgentOut" /\ m.channel = c => w < m.value /\ m.value <= w2
    PROVE  Ordered(Append(q, m), v, w2, c)
<1>1. PICK n \in Nat : n = Len(q)
  OBVIOUS
<1>2. Append(q, m) \in Seq(CentralMessage)
  OBVIOUS
<1>3. PICK t \in Seq(CentralMessage) : t = Append(q, m)
  BY <1>2
<1>4. DOMAIN q = 1 .. n /\ DOMAIN t = 1 .. n + 1 /\ t[n + 1] = m /\ \A i \in 1 .. n : t[i] = q[i]
  BY <1>1, <1>3
<1>5. \A i \in DOMAIN t : t[i] \in CentralMessage
  OBVIOUS
<1>6. \A i \in DOMAIN t : t[i].value \in Nat
  BY <1>5, ValueIsNat
<1>7. v <= w2
  BY DEF Ordered
<1>8. ASSUME NEW i \in DOMAIN t, WaitsFor(t, i, c) PROVE v < t[i].value /\ t[i].value <= w2
  <2>1. CASE i = n + 1
    BY <1>4, <1>6, <1>8, <2>1 DEF WaitsFor, Ordered
  <2>2. CASE i \in 1 .. n
    <3>1. WaitsFor(q, i, c)
      BY <1>4, <1>8, <2>2 DEF WaitsFor
    <3>2. v < q[i].value /\ q[i].value <= w /\ q[i].value = t[i].value
      BY <1>4, <2>2, <3>1 DEF Ordered
    <3> QED
      BY <1>6, <3>2
  <2> QED
    BY <1>4, <2>1, <2>2
<1>9. ASSUME NEW i \in DOMAIN t, NEW j \in DOMAIN t, i < j, WaitsFor(t, i, c), WaitsFor(t, j, c)
      PROVE  t[i].value < t[j].value
  <2>0. i \in 1 .. n
    BY <1>4, <1>9
  <2>1. WaitsFor(q, i, c) /\ q[i].value = t[i].value
    BY <1>4, <1>9, <2>0 DEF WaitsFor
  <2>2. CASE j = n + 1
    <3>1. t[i].value <= w
      BY <1>4, <2>0, <2>1 DEF Ordered
    <3>2. w < t[j].value
      BY <1>4, <1>9, <2>2 DEF WaitsFor
    <3> QED
      BY <1>6, <3>1, <3>2
  <2>3. CASE j \in 1 .. n
    <3>1. WaitsFor(q, j, c) /\ q[j].value = t[j].value
      BY <1>4, <1>9, <2>3 DEF WaitsFor
    <3> QED
      BY <1>4, <1>9, <2>0, <2>1, <2>3, <3>1 DEF Ordered
  <2> QED
    BY <1>4, <2>2, <2>3
<1>10. Ordered(t, v, w2, c)
  BY <1>7, <1>8, <1>9 DEF Ordered
<1> QED
  BY <1>3, <1>10

(* The first message is taken: one for the channel becomes its value. *)
LEMMA OrderedTail ==
    ASSUME NEW q \in Seq(CentralMessage), q # <<>>, NEW v \in Nat, NEW w \in Nat, NEW c,
           Ordered(q, v, w, c), NEW new \in Nat,
           new = IF Head(q).kind # "AgentOut" /\ Head(q).channel = c THEN Head(q).value ELSE v
    PROVE  /\ Ordered(Tail(q), new, w, c)
           /\ new # v => new > v
<1>1. PICK n \in Nat : n = Len(q)
  OBVIOUS
<1>2. Tail(q) \in Seq(CentralMessage) /\ Head(q) = q[1] /\ n > 0
  BY <1>1
<1>3. PICK t \in Seq(CentralMessage) : t = Tail(q)
  BY <1>2
<1>4. DOMAIN q = 1 .. n /\ DOMAIN t = 1 .. n - 1 /\ \A i \in 1 .. n - 1 : t[i] = q[i + 1]
  BY <1>1, <1>2, <1>3
<1>5. \A i \in DOMAIN q : q[i] \in CentralMessage
  OBVIOUS
<1>6. \A i \in DOMAIN q : q[i].value \in Nat
  BY <1>5, ValueIsNat
<1>7. \A i \in DOMAIN t : i + 1 \in DOMAIN q /\ t[i] = q[i + 1] /\ 1 < i + 1 /\ 1 \in DOMAIN q
  BY <1>2, <1>4
<1>8. v <= w
  BY DEF Ordered
<1>9. CASE WaitsFor(q, 1, c)
  <2>1. new = q[1].value
    BY <1>2, <1>9 DEF WaitsFor
  <2>2. v < new /\ new <= w
    BY <1>2, <1>4, <1>9, <2>1 DEF Ordered
  <2>3. ASSUME NEW i \in DOMAIN t, WaitsFor(t, i, c) PROVE new < t[i].value /\ t[i].value <= w
    <3>1. WaitsFor(q, i + 1, c)
      BY <1>7, <2>3 DEF WaitsFor
    <3>2. q[1].value < q[i + 1].value /\ q[i + 1].value <= w
      BY <1>7, <1>9, <3>1 DEF Ordered
    <3> QED
      BY <1>7, <2>1, <3>2
  <2> QED
    BY <2>2, <2>3, <1>3, <1>4, <1>7 DEF Ordered, WaitsFor
<1>10. CASE ~WaitsFor(q, 1, c)
  <2>1. new = v
    BY <1>2, <1>10 DEF WaitsFor
  <2>2. ASSUME NEW i \in DOMAIN t, WaitsFor(t, i, c) PROVE new < t[i].value /\ t[i].value <= w
    <3>1. WaitsFor(q, i + 1, c)
      BY <1>7, <2>2 DEF WaitsFor
    <3> QED
      BY <1>7, <2>1, <3>1 DEF Ordered
  <2> QED
    BY <1>8, <2>1, <2>2, <1>3, <1>4, <1>7 DEF Ordered, WaitsFor
<1> QED
  BY <1>9, <1>10

(* Steps that leave the queue and the values alone keep the order. *)
LEMMA OrderSame ==
    ASSUME OrderInv, UNCHANGED <<central, external_values, written>>
    PROVE  OrderInv'
BY DEF OrderInv

(* A message is queued: a write, or one that goes to no direct channel. *)
LEMMA OrderAppend ==
    ASSUME IOInv, OrderInv, NEW m \in CentralMessage, central' = Append(central, m), UNCHANGED external_values,
           NEW w2 \in Nat, written' = w2,
           \/ w2 = written /\ (m.kind # "AgentOut" => ~Direct(m.channel))
           \/ w2 = written + 1 /\ m.value = w2
    PROVE  OrderInv'
<1> SUFFICES ASSUME NEW c \in Channels, Direct(c)
             PROVE  Ordered(central', external_values'[c], w2, c)
  BY DEF OrderInv
<1>1. PICK q \in Seq(CentralMessage) : q = central
  BY DEF IOInv, QueueTypes
<1>2. PICK v \in Nat : v = external_values[c]
  BY BoundsAreNat DEF IOInv, ValueTypes
<1>3. PICK w \in Nat : w = written
  BY BoundsAreNat DEF IOInv, ValueTypes
<1>4. Ordered(q, v, w, c)
  BY <1>1, <1>2, <1>3 DEF OrderInv
<1>5. w <= w2 /\ (m.kind # "AgentOut" /\ m.channel = c => w < m.value /\ m.value <= w2)
  BY <1>3
<1>6. Ordered(Append(q, m), v, w2, c)
  BY <1>4, <1>5, OrderedAppend
<1> QED
  BY <1>1, <1>2, <1>6

(* SendOut: an output agent sends to a channel that is not direct. *)
LEMMA OrderSendOut ==
    ASSUME IOInv, OrderInv, NEW g \in Loops, SendOut(g)
    PROVE  OrderInv' /\ UNCHANGED external_values
<1>1. PICK m \in CentralMessage :
         /\ central' = Append(central, m)
         /\ m.kind # "AgentOut" => \E b \in OutNodes, n \in Names : m.channel = Channel(b, n)
  BY SendOutMessage
<1>2. m.kind # "AgentOut" => ~Direct(m.channel)
  BY <1>1 DEF Direct
<1>3. PICK w \in Nat : w = written
  BY BoundsAreNat DEF IOInv, ValueTypes
<1>4. UNCHANGED external_values /\ written' = w
  BY <1>3 DEF SendOut, valueVars
<1> QED
  BY <1>1, <1>2, <1>3, <1>4, OrderAppend

(* SendErr *)
LEMMA OrderSendErr ==
    ASSUME IOInv, OrderInv, NEW g \in Loops, SendErr(g)
    PROVE  OrderInv' /\ UNCHANGED external_values
<1>1. PICK m \in CentralMessage : central' = Append(central, m) /\ m.kind = "AgentOut"
  BY SendErrMessage
<1>2. PICK w \in Nat : w = written
  BY BoundsAreNat DEF IOInv, ValueTypes
<1>3. UNCHANGED external_values /\ written' = w
  BY <1>2 DEF SendErr, valueVars
<1> QED
  BY <1>1, <1>2, <1>3, OrderAppend

(* A caller writes the next value. *)
LEMMA OrderWrite ==
    ASSUME IOInv, OrderInv, NEW c \in WriteChannels, Write(c)
    PROVE  OrderInv' /\ UNCHANGED external_values
<1>1. written \in Nat /\ written' = written + 1
  BY WriteMessage
<1>2. PICK m \in CentralMessage : central' = Append(central, m) /\ m.kind # "AgentOut" /\ m.value = written + 1
  BY WriteMessage
<1>3. PICK w2 \in Nat : w2 = written + 1
  BY <1>1
<1>4. UNCHANGED external_values
  BY DEF Write
<1> QED
  BY <1>1, <1>2, <1>3, <1>4, OrderAppend

(* The message loop takes a message: its value is newer. *)
LEMMA OrderReceive ==
    ASSUME IOInv, OrderInv, Receive
    PROVE  /\ OrderInv'
           /\ \A c \in Channels : Direct(c) /\ external_values'[c] # external_values[c] =>
                 external_values'[c] > external_values[c]
<1>1. PICK q \in Seq(CentralMessage) : q = central
  BY DEF IOInv, QueueTypes
<1>2. q # << >> /\ central' = Tail(q) /\ UNCHANGED written
  BY <1>1 DEF Receive, Handle
<1>3. Head(q) \in CentralMessage
  BY <1>2
<1>4. PICK m \in CentralMessage : m = Head(q)
  BY <1>3
<1>5. m.kind # "AgentOut" => m.channel \in Channels
  BY DEF CentralMessage
<1>6. external_values' = IF m.kind = "AgentOut" THEN external_values
                         ELSE [external_values EXCEPT ![m.channel] = m.value]
  BY <1>1, <1>4 DEF Receive, Handle
<1>7. ASSUME NEW c \in Channels, Direct(c)
      PROVE  /\ Ordered(central', external_values'[c], written, c)
             /\ external_values'[c] # external_values[c] => external_values'[c] > external_values[c]
  <2>1. PICK v \in Nat : v = external_values[c]
    BY BoundsAreNat DEF IOInv, ValueTypes
  <2>2. PICK w \in Nat : w = written
    BY BoundsAreNat DEF IOInv, ValueTypes
  <2>3. Ordered(q, v, w, c)
    BY <1>1, <1>7, <2>1, <2>2 DEF OrderInv
  <2>4. external_values'[c] = IF m.kind # "AgentOut" /\ m.channel = c THEN m.value ELSE v
    BY <1>5, <1>6, <2>1 DEF IOInv, ValueTypes
  <2>5. m.value \in Nat
    BY ValueIsNat
  <2>6. PICK new \in Nat : new = IF m.kind # "AgentOut" /\ m.channel = c THEN m.value ELSE v
    BY <2>5
  <2>7. Ordered(Tail(q), new, w, c) /\ (new # v => new > v)
    BY <1>2, <1>4, <2>3, <2>6, OrderedTail
  <2> QED
    BY <1>2, <2>1, <2>2, <2>4, <2>6, <2>7
<1>8. OrderInv'
  BY <1>2, <1>7 DEF OrderInv
<1> QED
  BY <1>7, <1>8

(* Steps of loops that queue nothing. *)
LEMMA QuietLoops ==
    ASSUME NEW g \in Loops, LoopStep(g) \/ Fail(g), ~SendOut(g), ~SendErr(g)
    PROVE  UNCHANGED <<central, route, valueVars>>
BY DEF LoopStep, PollStartToken, PollStart, Recv, RecvNone, ApplyConfig, PollProcessToken, PollProcess,
       ProcessCancelled, Finish, Fail

(* Calls queue nothing for the message loop. *)
LEMMA QuietCalls ==
    ASSUME \/ \E s \in Starts : ReadStatus(s[1], s[2])
           \/ \E s \in Stops : TakeTx(s[1], s[2])
           \/ \E r \in Renames : Rename(r[1], r[2], r[3])
           \/ \E c \in Callers : CallStep(c)
    PROVE  UNCHANGED <<central, route, valueVars>>
<1>1. CASE \E s \in Starts : ReadStatus(s[1], s[2])
  BY <1>1 DEF ReadStatus
<1>2. CASE \E s \in Stops : TakeTx(s[1], s[2])
  BY <1>2 DEF TakeTx
<1>3. CASE \E r \in Renames : Rename(r[1], r[2], r[3])
  BY <1>3 DEF Rename
<1>4. CASE \E c \in Callers : CallStep(c)
  BY <1>4 DEF CallStep, InsertTx, InstallToken, TakeToken, CancelToken, StopLock, RenamePush, RenameDirect
<1> QED
  BY <1>1, <1>2, <1>3, <1>4

(* Every step but those four leaves the queue and the values alone. *)
LEMMA OrderNext ==
    ASSUME IOInv, OrderInv, [Next]_ioVars
    PROVE  /\ OrderInv'
           /\ \A c \in Channels : Direct(c) /\ external_values'[c] # external_values[c] =>
                 external_values'[c] > external_values[c]
<1>1. CASE UNCHANGED <<central, external_values, written>>
  BY <1>1, OrderSame
<1>2. CASE \E g \in Loops : LoopStep(g) \/ Fail(g)
  <2>1. PICK g \in Loops : LoopStep(g) \/ Fail(g)
    BY <1>2
  <2>2. CASE ~SendOut(g) /\ ~SendErr(g)
    BY <1>1, <2>1, <2>2, QuietLoops DEF valueVars
  <2> QED
    BY <2>2, OrderSendOut, OrderSendErr
<1>3. CASE \E c \in WriteChannels : Write(c)
  BY <1>3, OrderWrite
<1>4. CASE RouteStep
  <2>1. CASE LookUp \/ RoutePush \/ RouteDirect \/ Routed
    BY <1>1, <2>1 DEF LookUp, RoutePush, RouteDirect, Routed, valueVars
  <2> QED
    BY <1>4, <2>1, OrderReceive DEF RouteStep
<1>5. CASE UNCHANGED ioVars
  BY <1>1, <1>5 DEF ioVars, valueVars
<1> QED
  BY <1>1, <1>2, <1>3, <1>4, <1>5, QuietCalls DEF Next, valueVars

(* For every preset: what callers write to a channel that no output agent  *)
(* can name arrives there in the order of the writes, whatever else the    *)
(* message loop carries.                                                   *)
THEOREM WritesArriveInOrder == Spec => DirectInOrder
<1>1. Init => OrderInv
  <2> SUFFICES ASSUME Init PROVE OrderInv
    OBVIOUS
  <2>1. central = << >> /\ written = 0 /\ \A c \in Channels : external_values[c] = 0
    BY DEF Init
  <2>2. DOMAIN central = {}
    BY <2>1
  <2> QED
    BY <2>1, <2>2 DEF OrderInv, Ordered
<1>2. IOInv /\ OrderInv /\ [Next]_ioVars => OrderInv'
  BY OrderNext
<1>3. IOInv /\ OrderInv /\ [Next]_ioVars =>
         [\A c \in Channels : Direct(c) /\ external_values'[c] # external_values[c] =>
             external_values'[c] > external_values[c]]_ioVars
  BY OrderNext
<1> QED
  BY <1>1, <1>2, <1>3, IOInvariance, PTL DEF Spec, DirectInOrder
-----------------------------------------------------------------------------
-----------------------------------------------------------------------------
(* A written value is announced, waits in the message route's channel or is *)
(* the one the message loop serves.                                        *)
Held(v) ==
    \/ v <= routed
    \/ \E i \in DOMAIN central : central[i].kind # "AgentOut" /\ central[i].value = v
    \/ route.pc # "recv" /\ route.channel # <<>> /\ route.value = v

(* No value that a caller has written is lost before it is announced: the  *)
(* safety part of EveryWriteRouted.                                        *)
NoWriteLost == \A v \in 1 .. written : Held(v)

(* No channel is the empty one that stands for none. *)
LEMMA ChannelsNonempty == <<>> \notin Channels
<1>1. \A a, n : Channel(a, n) # <<>>
  BY DEF Channel
<1> QED
  BY <1>1, ExternalAssumption DEF Channels

(* Steps that leave the queue alone and change the route's targets only. *)
LEMMA HeldSame ==
    ASSUME NoWriteLost, UNCHANGED <<central, written, routed>>,
           \/ route' = route
           \/ route'.pc # "recv" /\ route'.channel = route.channel /\ route'.value = route.value
    PROVE  NoWriteLost'
BY DEF NoWriteLost, Held

(* A message is queued, and with a write its value is the next one. *)
LEMMA HeldAppend ==
    ASSUME IOInv, NoWriteLost, NEW m \in CentralMessage, central' = Append(central, m),
           UNCHANGED <<route, routed>>,
           written' = written \/ (written' = written + 1 /\ m.kind # "AgentOut" /\ m.value = written + 1)
    PROVE  NoWriteLost'
<1>1. PICK q \in Seq(CentralMessage) : q = central
  BY DEF IOInv, QueueTypes
<1>2. PICK n \in Nat : n = Len(q)
  OBVIOUS
<1>3. PICK t : t = Append(q, m)
  OBVIOUS
<1>4. DOMAIN q = 1 .. n /\ DOMAIN t = 1 .. n + 1 /\ t[n + 1] = m /\ \A i \in 1 .. n : t[i] = q[i]
  BY <1>2, <1>3
<1>5. central' = t
  BY <1>1, <1>3
<1>6. PICK w \in Nat : w = written
  BY BoundsAreNat DEF IOInv, ValueTypes
<1>7. ASSUME NEW v \in 1 .. written' PROVE Held(v)'
  <2>1. CASE v \in 1 .. w
    <3>1. Held(v)
      BY <1>6, <2>1 DEF NoWriteLost
    <3>2. CASE \E i \in DOMAIN central : central[i].kind # "AgentOut" /\ central[i].value = v
      <4>1. PICK i \in 1 .. n : q[i].kind # "AgentOut" /\ q[i].value = v
        BY <1>1, <1>4, <3>2
      <4>2. i \in DOMAIN t /\ t[i].kind # "AgentOut" /\ t[i].value = v
        BY <1>4, <4>1
      <4> QED
        BY <1>5, <4>2 DEF Held
    <3> QED
      BY <3>1, <3>2 DEF Held
  <2>2. CASE v \notin 1 .. w
    <3>1. v = w + 1 /\ m.kind # "AgentOut" /\ m.value = w + 1
      BY <1>6, <1>7, <2>2
    <3>2. n + 1 \in DOMAIN t /\ t[n + 1].kind # "AgentOut" /\ t[n + 1].value = v
      BY <1>4, <3>1
    <3> QED
      BY <1>5, <3>2 DEF Held
  <2> QED
    BY <2>1, <2>2
<1> QED
  BY <1>7 DEF NoWriteLost

(* The message loop takes a message, which it then holds. *)
LEMMA HeldReceive ==
    ASSUME IOInv, NoWriteLost, Receive
    PROVE  NoWriteLost'
<1>1. PICK q \in Seq(CentralMessage) : q = central
  BY DEF IOInv, QueueTypes
<1>2. q # << >> /\ central' = Tail(q) /\ route.pc = "recv" /\ UNCHANGED <<written, routed>>
  BY <1>1 DEF Receive, Handle
<1>3. Head(q) \in CentralMessage
  BY <1>2
<1>4. PICK m \in CentralMessage : m = Head(q)
  BY <1>3
<1>5. route'.pc # "recv" /\ route'.value = m.value /\ route'.channel = m.channel
  BY <1>1, <1>4 DEF Receive, Handle
<1>6. m.kind # "AgentOut" => m.channel # <<>>
  <2>1. m.kind # "AgentOut" => m.channel \in Channels
    BY DEF CentralMessage
  <2> QED
    BY <2>1, ChannelsNonempty
<1>7. PICK n \in Nat : n = Len(q)
  OBVIOUS
<1>8. PICK t : t = Tail(q)
  OBVIOUS
<1>9. n > 0 /\ DOMAIN q = 1 .. n /\ DOMAIN t = 1 .. n - 1 /\ q[1] = m /\ \A i \in 1 .. n - 1 : t[i] = q[i + 1]
  BY <1>2, <1>4, <1>7, <1>8
<1>10. ASSUME NEW v \in 1 .. written PROVE Held(v)'
  <2>1. Held(v)
    BY DEF NoWriteLost
  <2>2. CASE v <= routed
    BY <1>2, <2>2 DEF Held
  <2>3. CASE \E i \in DOMAIN central : central[i].kind # "AgentOut" /\ central[i].value = v
    <3>1. PICK i \in 1 .. n : q[i].kind # "AgentOut" /\ q[i].value = v
      BY <1>1, <1>9, <2>3
    <3>2. CASE i = 1
      BY <1>5, <1>6, <1>9, <3>1, <3>2 DEF Held
    <3>3. CASE i # 1
      <4>1. i - 1 \in DOMAIN t /\ t[i - 1] = q[i]
        BY <1>9, <3>3
      <4>2. t[i - 1].kind # "AgentOut" /\ t[i - 1].value = v
        BY <3>1, <4>1
      <4> QED
        BY <1>2, <1>8, <4>1, <4>2 DEF Held
    <3> QED
      BY <3>2, <3>3
  <2> QED
    BY <1>2, <2>1, <2>2, <2>3 DEF Held
<1> QED
  BY <1>2, <1>10 DEF NoWriteLost

(* What the message loop held is announced. *)
LEMMA HeldRouted ==
    ASSUME IOInv, NoWriteLost, Routed
    PROVE  NoWriteLost'
<1>1. routed \in Nat /\ written \in Nat
  BY BoundsAreNat DEF IOInv, ValueTypes
<1>3. route.value \in Nat
  BY RouteFacts, BoundsAreNat DEF IOInv, Routed, Values
<1>4. /\ routed' = IF route.channel # <<>> /\ route.value > routed THEN route.value ELSE routed
      /\ UNCHANGED <<central, written>>
  BY DEF Routed
<1>5. routed' \in Nat /\ routed <= routed' /\ (route.channel # <<>> => route.value <= routed')
  BY <1>1, <1>3, <1>4
<1>6. ASSUME NEW v \in 1 .. written PROVE Held(v)'
  <2>1. Held(v)
    BY DEF NoWriteLost
  <2>2. CASE v <= routed \/ (route.channel # <<>> /\ route.value = v)
    <3>1. v <= routed'
      BY <1>1, <1>5, <2>2
    <3> QED
      BY <3>1 DEF Held
  <2> QED
    BY <1>4, <2>1, <2>2 DEF Held
<1> QED
  BY <1>4, <1>6 DEF NoWriteLost
(* A target is looked up or served: the message stays the same. *)
LEMMA SameMessage ==
    ASSUME IOInv, LookUp \/ RoutePush \/ RouteDirect
    PROVE  route'.pc # "recv" /\ route'.channel = route.channel /\ route'.value = route.value
<1>1. route \in RouteState
  BY DEF IOInv, QueueTypes
<1>2. RouteNext \/ \E g : RouteGoto("push", g) \/ RouteGoto("direct", 0)
  BY DEF LookUp, RoutePush, RouteDirect, RouteGoto
<1>3. CASE RouteNext
  BY <1>1, <1>3 DEF RouteNext, RouteState, Receiving
<1>4. CASE \E g : RouteGoto("push", g) \/ RouteGoto("direct", 0)
  BY <1>1, <1>4 DEF RouteGoto, RouteState, Receiving
<1> QED
  BY <1>2, <1>3, <1>4

(* Queueing, receiving and announcing are the steps that matter. *)
LEMMA HeldNext ==
    ASSUME IOInv, NoWriteLost, [Next]_ioVars
    PROVE  NoWriteLost'
<1>1. CASE UNCHANGED <<central, written, routed, route>>
  BY <1>1, HeldSame
<1>2. CASE \E g \in Loops : LoopStep(g) \/ Fail(g)
  <2>1. PICK g \in Loops : LoopStep(g) \/ Fail(g)
    BY <1>2
  <2>2. CASE ~SendOut(g) /\ ~SendErr(g)
    BY <1>1, <2>1, <2>2, QuietLoops DEF valueVars
  <2>3. CASE SendOut(g)
    <3>1. PICK m \in CentralMessage : central' = Append(central, m)
      BY <2>3, SendOutMessage
    <3> QED
      BY <2>3, <3>1, HeldAppend DEF SendOut, valueVars
  <2>4. CASE SendErr(g)
    <3>1. PICK m \in CentralMessage : central' = Append(central, m)
      BY <2>4, SendErrMessage
    <3> QED
      BY <2>4, <3>1, HeldAppend DEF SendErr, valueVars
  <2> QED
    BY <2>2, <2>3, <2>4
<1>3. CASE \E c \in WriteChannels : Write(c)
  <2>1. PICK c \in WriteChannels : Write(c)
    BY <1>3
  <2>2. PICK m \in CentralMessage : central' = Append(central, m) /\ m.kind # "AgentOut" /\ m.value = written + 1
    BY <2>1, WriteMessage
  <2>3. written' = written + 1 /\ UNCHANGED <<route, routed>>
    BY <2>1 DEF Write
  <2> QED
    BY <2>2, <2>3, HeldAppend
<1>4. CASE RouteStep
  <2>1. CASE LookUp \/ RoutePush \/ RouteDirect
    <3>1. UNCHANGED <<central, written, routed>>
      BY <2>1 DEF LookUp, RoutePush, RouteDirect, valueVars
    <3> QED
      BY <2>1, <3>1, SameMessage, HeldSame
  <2> QED
    BY <1>4, <2>1, HeldReceive, HeldRouted DEF RouteStep
<1>5. CASE UNCHANGED ioVars
  BY <1>1, <1>5 DEF ioVars, valueVars
<1> QED
  BY <1>1, <1>2, <1>3, <1>4, <1>5, QuietCalls DEF Next, valueVars

(* For every preset: a value that write_external_input accepted is never   *)
(* lost between the queue, the message loop and its announcement, however  *)
(* agents fail, stop or change their channels.                             *)
THEOREM WritesNeverLost == Spec => []NoWriteLost
<1>1. Init => NoWriteLost
  BY DEF Init, NoWriteLost
<1>2. IOInv /\ NoWriteLost /\ [Next]_ioVars => NoWriteLost'
  BY HeldNext
<1> QED
  BY <1>1, <1>2, IOInvariance, PTL DEF Spec
=============================================================================
