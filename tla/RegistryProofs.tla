--------------------------- MODULE RegistryProofs ---------------------------
(***************************************************************************)
(* Two tables of ModularAgent that refer to what they do not hold: the     *)
(* name index of the presets (PresetNames), for any number of presets,     *)
(* names and concurrent callers, and the registry of cancellation tokens   *)
(* (ContextTokens), for any agents, flows, connections and threshold.      *)
(***************************************************************************)
EXTENDS PresetNames, ContextTokens, TLAPS, FiniteSetTheorems

IndexInv == TypeOK /\ RefersToUsed

USE NamesAssumption

(* Initially there is nothing to refer to. *)
LEMMA InitIndex == Init => IndexInv
BY DEF Init, IndexInv, TypeOK, RefersToUsed, Call, CallPc, IdleCall

(* A caller that moves on keeps a well-formed call. *)
LEMMA GotoCall ==
  ASSUME TypeOK, NEW c \in Callers, NEW pc \in CallPc, Goto(c, pc)
  PROVE  /\ call' \in [Callers -> Call]
         /\ call'[c].pc = pc /\ call'[c].id = call[c].id /\ call'[c].name = call[c].name
         /\ \A d \in Callers \ {c} : call'[d] = call[d]
BY DEF TypeOK, Goto, Call

(* A caller that returns is idle. *)
LEMMA ReturnCall ==
  ASSUME TypeOK, NEW c \in Callers, Return(c)
  PROVE  /\ call' \in [Callers -> Call]
         /\ call'[c].pc = "idle"
         /\ \A d \in Callers \ {c} : call'[d] = call[d]
BY DEF TypeOK, Return, Call, IdleCall, CallPc

(* A caller that begins a call is where the call starts. *)
LEMMA BeginCall ==
  ASSUME TypeOK, NEW c \in Callers, NEW pc \in CallPc, NEW id \in PresetIds,
         NEW n \in Names \cup {NoName},
         call' = [call EXCEPT ![c] = [pc |-> pc, id |-> id, name |-> n]]
  PROVE  /\ call' \in [Callers -> Call]
         /\ call'[c].pc = pc /\ call'[c].id = id /\ call'[c].name = n
         /\ \A d \in Callers \ {c} : call'[d] = call[d]
BY DEF TypeOK, Call

(* The fields of a call have their types. *)
LEMMA CallFields ==
  ASSUME TypeOK, NEW c \in Callers
  PROVE  /\ call[c].pc \in CallPc
         /\ call[c].id \in PresetIds \cup {NoId}
         /\ call[c].name \in Names \cup {NoName}
BY DEF TypeOK, Call

(* Dropping a preset's entries leaves an index. *)
LEMMA WithoutType ==
  ASSUME TypeOK, NEW id
  PROVE  /\ Without(preset_names, id) \in [Names -> PresetIds \cup {NoId}]
         /\ \A n \in Names : Without(preset_names, id)[n] =
                IF preset_names[n] = id THEN NoId ELSE preset_names[n]
BY DEF TypeOK, Without

(* Every step keeps the types and refers only to ids handed out. *)
LEMMA IndexStep == IndexInv /\ [Next]_vars => IndexInv'
<1> SUFFICES ASSUME IndexInv, [Next]_vars PROVE IndexInv'
  OBVIOUS
<1> USE DEF IndexInv
<1>1. ASSUME NEW c \in Callers, NEW id \in PresetIds, NEW n \in Names \cup {NoName},
             AddReserve(c, id, n)
      PROVE  IndexInv'
  <2>1. CASE UNCHANGED <<preset_names, presetName, call>>
    BY <1>1, <2>1 DEF AddReserve, Begin, TypeOK, RefersToUsed
  <2>2. CASE /\ n \in Names => preset_names[n] = NoId
             /\ preset_names' = IF n \in Names THEN [preset_names EXCEPT ![n] = id]
                                               ELSE preset_names
             /\ presetName' = [presetName EXCEPT ![id] = n]
             /\ call' = [call EXCEPT ![c] = [pc |-> "add_insert", id |-> id, name |-> n]]
    <3>1. /\ call' \in [Callers -> Call]
          /\ call'[c].pc = "add_insert" /\ call'[c].id = id /\ call'[c].name = n
          /\ \A d \in Callers \ {c} : call'[d] = call[d]
      BY <2>2, BeginCall DEF CallPc
    <3>2. TypeOK'
      BY <1>1, <2>2, <3>1 DEF AddReserve, Begin, TypeOK
    <3>3. RefersToUsed'
      BY <1>1, <2>2, <3>1 DEF AddReserve, TypeOK, RefersToUsed
    <3> QED BY <3>2, <3>3
  <2> QED BY <1>1, <2>1, <2>2 DEF AddReserve
<1>2. ASSUME NEW c \in Callers, NEW id \in PresetIds, NEW n \in Names,
             RenameLookup(c, id, n)
      PROVE  IndexInv'
  <2>1. /\ call' \in [Callers -> Call]
        /\ call'[c].pc = "rename_index" /\ call'[c].id = id /\ call'[c].name = n
        /\ \A d \in Callers \ {c} : call'[d] = call[d]
    BY <1>2, BeginCall DEF RenameLookup, CallPc
  <2> QED BY <1>2, <2>1 DEF RenameLookup, Begin, TypeOK, RefersToUsed
<1>3. ASSUME NEW c \in Callers, NEW id \in PresetIds, RemoveLookup(c, id)
      PROVE  IndexInv'
  <2>1. /\ call' \in [Callers -> Call]
        /\ call'[c].pc = "remove_lock" /\ call'[c].id = id /\ call'[c].name = NoName
        /\ \A d \in Callers \ {c} : call'[d] = call[d]
    BY <1>3, BeginCall DEF RemoveLookup, CallPc
  <2> QED BY <1>3, <2>1 DEF RemoveLookup, Begin, TypeOK, RefersToUsed
<1>4. ASSUME NEW c \in Callers, AddInsert(c) PROVE IndexInv'
  BY <1>4, ReturnCall DEF AddInsert, TypeOK, RefersToUsed
<1>5. ASSUME NEW c \in Callers, RenameIndex(c) PROVE IndexInv'
  <2>1. call[c].id \in PresetIds /\ call[c].id \in used /\ call[c].name \in Names
    BY <1>5 DEF RenameIndex, RefersToUsed, TypeOK
  <2>2. CASE preset_names[call[c].name] \notin {NoId, call[c].id}
    BY <1>5, <2>2, ReturnCall DEF RenameIndex, TypeOK, RefersToUsed
  <2>3. CASE preset_names[call[c].name] \in {NoId, call[c].id}
    <3>1. /\ preset_names' = [Without(preset_names, call[c].id)
                                EXCEPT ![call[c].name] = call[c].id]
          /\ Goto(c, "rename_recheck")
      BY <1>5, <2>3 DEF RenameIndex
    <3>2. /\ call' \in [Callers -> Call]
          /\ call'[c].pc = "rename_recheck" /\ call'[c].id = call[c].id
          /\ call'[c].name = call[c].name
          /\ \A d \in Callers \ {c} : call'[d] = call[d]
      BY <3>1, GotoCall DEF CallPc
    <3>3. /\ preset_names' \in [Names -> PresetIds \cup {NoId}]
          /\ \A n \in Names : preset_names'[n] \in {NoId, call[c].id, preset_names[n]}
      BY <2>1, <3>1, WithoutType
    <3> QED BY <1>5, <2>1, <3>2, <3>3 DEF RenameIndex, TypeOK, RefersToUsed
  <2> QED BY <2>2, <2>3
<1>6. ASSUME NEW c \in Callers, RenameRecheck(c) PROVE IndexInv'
  <2>1. PICK pc \in {"rename_set", "rename_rollback"} : Goto(c, pc)
    BY <1>6 DEF RenameRecheck
  <2>2. /\ call' \in [Callers -> Call]
        /\ call'[c].pc = pc /\ call'[c].id = call[c].id /\ call'[c].name = call[c].name
        /\ \A d \in Callers \ {c} : call'[d] = call[d]
    BY <2>1, GotoCall DEF CallPc
  <2> QED BY <1>6, <2>2 DEF RenameRecheck, TypeOK, RefersToUsed
<1>7. ASSUME NEW c \in Callers, RenameRollback(c) PROVE IndexInv'
  BY <1>7, ReturnCall DEF RenameRollback, TypeOK, RefersToUsed
<1>8. ASSUME NEW c \in Callers, RenameSet(c) PROVE IndexInv'
  BY <1>8, ReturnCall, CallFields DEF RenameSet, TypeOK, RefersToUsed
<1>9. ASSUME NEW c \in Callers, RemoveLock(c) PROVE IndexInv'
  <2>1. /\ call' \in [Callers -> Call]
        /\ call'[c].pc = "remove_teardown" /\ call'[c].id = call[c].id
        /\ \A d \in Callers \ {c} : call'[d] = call[d]
    BY <1>9, GotoCall DEF RemoveLock, CallPc
  <2> QED BY <1>9, <2>1 DEF RemoveLock, TypeOK, RefersToUsed
<1>10. ASSUME NEW c \in Callers, RemoveTeardown(c) PROVE IndexInv'
  <2>1. /\ call' \in [Callers -> Call]
        /\ call'[c].pc = "remove_preset" /\ call'[c].id = call[c].id
        /\ \A d \in Callers \ {c} : call'[d] = call[d]
    BY <1>10, GotoCall DEF RemoveTeardown, CallPc
  <2> QED BY <1>10, <2>1 DEF RemoveTeardown, TypeOK, RefersToUsed
<1>11. ASSUME NEW c \in Callers, RemovePreset(c) PROVE IndexInv'
  <2>1. /\ call' \in [Callers -> Call]
        /\ call'[c].pc = "remove_names" /\ call'[c].id = call[c].id
        /\ \A d \in Callers \ {c} : call'[d] = call[d]
    BY <1>11, GotoCall DEF RemovePreset, CallPc
  <2> QED BY <1>11, <2>1 DEF RemovePreset, TypeOK, RefersToUsed
<1>12. ASSUME NEW c \in Callers, RemoveNames(c) PROVE IndexInv'
  BY <1>12, ReturnCall, WithoutType DEF RemoveNames, TypeOK, RefersToUsed
<1>13. CASE UNCHANGED vars
  BY <1>13 DEF vars, TypeOK, RefersToUsed
<1> QED BY <1>1, <1>2, <1>3, <1>4, <1>5, <1>6, <1>7, <1>8, <1>9, <1>10, <1>11, <1>12,
           <1>13 DEF Next, CallStep

(* Types of all variables, whatever calls overlap. *)
THEOREM TypeCorrect == Spec => []TypeOK
<1>1. Spec => []IndexInv
  BY InitIndex, IndexStep, PTL DEF Spec
<1> QED BY <1>1, PTL DEF IndexInv

-----------------------------------------------------------------------------
(* A caller that does not move stays responsible. *)
LEMMA OthersResponsible ==
  ASSUME NEW c \in Callers, \A d \in Callers \ {c} : call'[d] = call[d],
         DanglingNameIsPending, NEW n \in Names,
         preset_names[n] \notin presets \cup {NoId},
         ~Responsible(c, preset_names[n], n), preset_names'[n] = preset_names[n]
  PROVE  \E d \in Callers : Responsible(d, preset_names[n], n)'
<1>1. PICK d \in Callers : Responsible(d, preset_names[n], n)
  BY DEF DanglingNameIsPending
<1> QED BY <1>1 DEF Responsible

(* Every step leaves each dangling name with a call that settles it: a     *)
(* call stops being responsible only by inserting the preset or by         *)
(* dropping the name.                                                      *)
LEMMA PendingStep ==
  IndexInv /\ DanglingNameIsPending /\ [Next]_vars => DanglingNameIsPending'
<1> SUFFICES ASSUME IndexInv, DanglingNameIsPending, [Next]_vars,
                    NEW m \in Names, preset_names'[m] \notin presets' \cup {NoId}
             PROVE  \E d \in Callers : Responsible(d, preset_names[m], m)'
  BY DEF DanglingNameIsPending
<1> USE DEF IndexInv
<1>1. ASSUME NEW c \in Callers, NEW id \in PresetIds, NEW n \in Names \cup {NoName},
             AddReserve(c, id, n)
      PROVE  \E d \in Callers : Responsible(d, preset_names[m], m)'
  <2>1. CASE UNCHANGED <<preset_names, presetName, call>>
    BY <1>1, <2>1 DEF AddReserve, DanglingNameIsPending, Responsible
  <2>2. CASE /\ n \in Names => preset_names[n] = NoId
             /\ preset_names' = IF n \in Names THEN [preset_names EXCEPT ![n] = id]
                                               ELSE preset_names
             /\ call' = [call EXCEPT ![c] = [pc |-> "add_insert", id |-> id, name |-> n]]
    <3>1. /\ call'[c].pc = "add_insert" /\ call'[c].id = id
          /\ \A d \in Callers \ {c} : call'[d] = call[d]
      BY <2>2, BeginCall DEF CallPc
    <3>2. CASE m = n
      BY <2>2, <3>1, <3>2 DEF Responsible, TypeOK
    <3>3. CASE m # n
      <4>1. preset_names'[m] = preset_names[m] /\ presets' = presets
        BY <1>1, <2>2, <3>3 DEF TypeOK, AddReserve
      <4>2. ~Responsible(c, preset_names[m], m)
        BY <1>1 DEF AddReserve, Begin, Responsible
      <4> QED BY <3>1, <4>1, <4>2, OthersResponsible
    <3> QED BY <3>2, <3>3
  <2> QED BY <1>1, <2>1, <2>2 DEF AddReserve
<1>2. ASSUME NEW c \in Callers, NEW id \in PresetIds, NEW n \in Names,
             RenameLookup(c, id, n)
      PROVE  \E d \in Callers : Responsible(d, preset_names[m], m)'
  <2>1. \A d \in Callers \ {c} : call'[d] = call[d]
    BY <1>2, BeginCall DEF RenameLookup, CallPc
  <2>2. ~Responsible(c, preset_names[m], m)
    BY <1>2 DEF RenameLookup, Begin, Responsible
  <2> QED BY <1>2, <2>1, <2>2, OthersResponsible DEF RenameLookup
<1>3. ASSUME NEW c \in Callers, NEW id \in PresetIds, RemoveLookup(c, id)
      PROVE  \E d \in Callers : Responsible(d, preset_names[m], m)'
  <2>1. \A d \in Callers \ {c} : call'[d] = call[d]
    BY <1>3, BeginCall DEF RemoveLookup, CallPc
  <2>2. ~Responsible(c, preset_names[m], m)
    BY <1>3 DEF RemoveLookup, Begin, Responsible
  <2> QED BY <1>3, <2>1, <2>2, OthersResponsible DEF RemoveLookup
<1>4. ASSUME NEW c \in Callers, AddInsert(c)
      PROVE  \E d \in Callers : Responsible(d, preset_names[m], m)'
  <2>1. preset_names[m] # call[c].id
    BY <1>4 DEF AddInsert
  <2> QED BY <1>4, <2>1, ReturnCall, OthersResponsible DEF AddInsert, Responsible
<1>5. ASSUME NEW c \in Callers, RenameIndex(c)
      PROVE  \E d \in Callers : Responsible(d, preset_names[m], m)'
  <2>1. call[c].id \in PresetIds /\ call[c].name \in Names
    BY <1>5 DEF RenameIndex, RefersToUsed, TypeOK
  <2>2. ~Responsible(c, preset_names[m], m)
    BY <1>5 DEF RenameIndex, Responsible
  <2>3. CASE preset_names[call[c].name] \notin {NoId, call[c].id}
    BY <1>5, <2>2, <2>3, ReturnCall, OthersResponsible DEF RenameIndex
  <2>4. CASE preset_names[call[c].name] \in {NoId, call[c].id}
    <3>1. /\ preset_names' = [Without(preset_names, call[c].id)
                                EXCEPT ![call[c].name] = call[c].id]
          /\ Goto(c, "rename_recheck") /\ presets' = presets
      BY <1>5, <2>4 DEF RenameIndex
    <3>2. /\ call'[c].pc = "rename_recheck" /\ call'[c].id = call[c].id
          /\ call'[c].name = call[c].name
          /\ \A d \in Callers \ {c} : call'[d] = call[d]
      BY <3>1, GotoCall DEF CallPc
    <3>3. CASE m = call[c].name
      <4>1. preset_names'[m] = call[c].id
        BY <3>1, <3>3, WithoutType
      <4> QED BY <3>2, <3>3, <4>1 DEF Responsible
    <3>4. CASE m # call[c].name
      <4>1. preset_names'[m] = preset_names[m]
        BY <2>1, <3>1, <3>4, WithoutType
      <4> QED BY <2>2, <3>1, <3>2, <4>1, OthersResponsible
    <3> QED BY <3>3, <3>4
  <2> QED BY <2>3, <2>4
<1>6. ASSUME NEW c \in Callers, RenameRecheck(c)
      PROVE  \E d \in Callers : Responsible(d, preset_names[m], m)'
  <2>1. UNCHANGED <<presets, preset_names>>
    BY <1>6 DEF RenameRecheck
  <2>2. CASE call[c].id \in presets
    <3>1. Goto(c, "rename_set")
      BY <1>6, <2>2 DEF RenameRecheck
    <3>2. ~Responsible(c, preset_names[m], m)
      BY <2>1, <2>2 DEF Responsible
    <3> QED BY <2>1, <3>1, <3>2, GotoCall, OthersResponsible DEF CallPc
  <2>3. CASE call[c].id \notin presets
    <3>1. Goto(c, "rename_rollback")
      BY <1>6, <2>3 DEF RenameRecheck
    <3>2. /\ call'[c].pc = "rename_rollback" /\ call'[c].id = call[c].id
          /\ call'[c].name = call[c].name
          /\ \A d \in Callers \ {c} : call'[d] = call[d]
      BY <3>1, GotoCall DEF CallPc
    <3>3. CASE Responsible(c, preset_names[m], m)
      BY <1>6, <2>1, <3>2, <3>3 DEF RenameRecheck, Responsible
    <3>4. CASE ~Responsible(c, preset_names[m], m)
      BY <2>1, <3>2, <3>4, OthersResponsible
    <3> QED BY <3>3, <3>4
  <2> QED BY <2>2, <2>3
<1>7. ASSUME NEW c \in Callers, RenameRollback(c)
      PROVE  \E d \in Callers : Responsible(d, preset_names[m], m)'
  <2>1. preset_names'[m] = preset_names[m]
    BY <1>7 DEF RenameRollback, TypeOK
  <2>2. ~Responsible(c, preset_names[m], m)
    BY <1>7 DEF RenameRollback, Responsible, TypeOK
  <2> QED BY <1>7, <2>1, <2>2, ReturnCall, OthersResponsible DEF RenameRollback
<1>8. ASSUME NEW c \in Callers, RenameSet(c)
      PROVE  \E d \in Callers : Responsible(d, preset_names[m], m)'
  <2>1. ~Responsible(c, preset_names[m], m)
    BY <1>8 DEF RenameSet, Responsible
  <2> QED BY <1>8, <2>1, ReturnCall, OthersResponsible DEF RenameSet
<1>9. ASSUME NEW c \in Callers, RemoveLock(c)
      PROVE  \E d \in Callers : Responsible(d, preset_names[m], m)'
  <2>1. ~Responsible(c, preset_names[m], m)
    BY <1>9 DEF RemoveLock, Responsible
  <2> QED BY <1>9, <2>1, GotoCall, OthersResponsible DEF RemoveLock, CallPc
<1>10. ASSUME NEW c \in Callers, RemoveTeardown(c)
       PROVE  \E d \in Callers : Responsible(d, preset_names[m], m)'
  <2>1. ~Responsible(c, preset_names[m], m)
    BY <1>10 DEF RemoveTeardown, Responsible
  <2> QED BY <1>10, <2>1, GotoCall, OthersResponsible DEF RemoveTeardown, CallPc
<1>11. ASSUME NEW c \in Callers, RemovePreset(c)
       PROVE  \E d \in Callers : Responsible(d, preset_names[m], m)'
  <2>1. /\ call'[c].pc = "remove_names" /\ call'[c].id = call[c].id
        /\ \A d \in Callers \ {c} : call'[d] = call[d]
        /\ preset_names' = preset_names /\ presets' = presets \ {call[c].id}
    BY <1>11, GotoCall DEF RemovePreset, CallPc
  <2>2. CASE preset_names[m] = call[c].id
    BY <2>1, <2>2 DEF Responsible
  <2>3. CASE preset_names[m] # call[c].id
    BY <2>1, <2>3, OthersResponsible DEF Responsible
  <2> QED BY <2>2, <2>3
<1>12. ASSUME NEW c \in Callers, RemoveNames(c)
       PROVE  \E d \in Callers : Responsible(d, preset_names[m], m)'
  <2>1. preset_names'[m] = preset_names[m] /\ preset_names[m] # call[c].id
    BY <1>12, WithoutType DEF RemoveNames
  <2> QED BY <1>12, <2>1, ReturnCall, OthersResponsible DEF RemoveNames, Responsible
<1>13. CASE UNCHANGED vars
  BY <1>13 DEF vars, DanglingNameIsPending, Responsible
<1> QED BY <1>1, <1>2, <1>3, <1>4, <1>5, <1>6, <1>7, <1>8, <1>9, <1>10, <1>11, <1>12,
           <1>13 DEF Next, CallStep

(* A name whose preset is not in the presets map always has a call in      *)
(* progress that will insert the preset or drop the name.                  *)
THEOREM DanglingNamePending == Spec => []DanglingNameIsPending
<1>1. Init => DanglingNameIsPending
  BY DEF Init, DanglingNameIsPending
<1> QED BY <1>1, InitIndex, IndexStep, PendingStep, PTL DEF Spec

(* Once no rename, add or remove is in progress the index names only       *)
(* presets that exist.                                                     *)
THEOREM NoDanglingNameAtRest == Spec => []NoDanglingName
<1>1. DanglingNameIsPending => NoDanglingName
  BY DEF DanglingNameIsPending, NoDanglingName, Quiescent, Responsible
<1> QED BY <1>1, DanglingNamePending, PTL

-----------------------------------------------------------------------------
(* Every step leaves a preset with at most one name in the index: an add   *)
(* has a new id, a rename first drops the entries it replaces.             *)
LEMMA OneNameStep == IndexInv /\ OneNamePerPreset /\ [Next]_vars => OneNamePerPreset'
<1> SUFFICES ASSUME IndexInv, OneNamePerPreset, [Next]_vars PROVE OneNamePerPreset'
  OBVIOUS
<1> USE DEF IndexInv
<1>1. ASSUME NEW c \in Callers, NEW id \in PresetIds, NEW n \in Names \cup {NoName},
             AddReserve(c, id, n)
      PROVE  OneNamePerPreset'
  <2>1. CASE preset_names' = preset_names
    BY <2>1 DEF OneNamePerPreset
  <2>2. CASE n \in Names /\ preset_names' = [preset_names EXCEPT ![n] = id]
    <3>1. \A m \in Names : preset_names[m] # id
      BY <1>1 DEF AddReserve, RefersToUsed
    <3>2. \A m \in Names : preset_names'[m] = IF m = n THEN id ELSE preset_names[m]
      BY <2>2 DEF TypeOK
    <3> QED BY <3>1, <3>2 DEF OneNamePerPreset
  <2> QED BY <1>1, <2>1, <2>2 DEF AddReserve
<1>2. ASSUME NEW c \in Callers, RenameIndex(c) PROVE OneNamePerPreset'
  <2>1. CASE preset_names' = preset_names
    BY <2>1 DEF OneNamePerPreset
  <2>2. CASE preset_names' = [Without(preset_names, call[c].id)
                                EXCEPT ![call[c].name] = call[c].id]
    <3>1. \A m \in Names : preset_names'[m] =
            IF m = call[c].name THEN call[c].id
            ELSE IF preset_names[m] = call[c].id THEN NoId ELSE preset_names[m]
      BY <2>2, WithoutType
    <3> QED BY <3>1 DEF OneNamePerPreset
  <2> QED BY <1>2, <2>1, <2>2 DEF RenameIndex
<1>3. ASSUME NEW c \in Callers, RenameRollback(c) PROVE OneNamePerPreset'
  BY <1>3 DEF RenameRollback, OneNamePerPreset, TypeOK
<1>4. ASSUME NEW c \in Callers, RemoveNames(c) PROVE OneNamePerPreset'
  BY <1>4, WithoutType DEF RemoveNames, OneNamePerPreset
<1>5. CASE preset_names' = preset_names
  BY <1>5 DEF OneNamePerPreset
<1> QED BY <1>1, <1>2, <1>3, <1>4, <1>5 DEF Next, CallStep, vars, RenameLookup,
           RemoveLookup, AddInsert, RenameRecheck, RenameSet, RemoveLock,
           RemoveTeardown, RemovePreset

(* No preset is ever found under two names. *)
THEOREM OneNameAlways == Spec => []OneNamePerPreset
<1>1. Init => OneNamePerPreset
  BY DEF Init, OneNamePerPreset
<1> QED BY <1>1, InitIndex, IndexStep, OneNameStep, PTL DEF Spec

-----------------------------------------------------------------------------
(* A name leaves a preset only through a call about that preset, and is    *)
(* free before another preset gets it.                                     *)
THEOREM NamesNeverStolen == Spec => NamesAreNotStolen
<1> DEFINE Kept(n) ==
      (preset_names[n] # NoId /\ preset_names'[n] # preset_names[n]) =>
          /\ preset_names'[n] = NoId
          /\ \E c \in Callers : call'[c] # call[c] /\ call[c].id = preset_names[n]
<1>1. ASSUME IndexInv, [Next]_vars, NEW n \in Names PROVE Kept(n)
  <2> USE DEF IndexInv
  <2>1. ASSUME NEW c \in Callers, NEW id \in PresetIds, NEW k \in Names \cup {NoName},
               AddReserve(c, id, k)
        PROVE  Kept(n)
    BY <1>1, <2>1 DEF AddReserve, TypeOK
  <2>2. ASSUME NEW c \in Callers, RenameIndex(c) PROVE Kept(n)
    <3>1. CASE preset_names' = preset_names
      BY <3>1
    <3>2. CASE /\ preset_names[call[c].name] \in {NoId, call[c].id}
               /\ preset_names' = [Without(preset_names, call[c].id)
                                     EXCEPT ![call[c].name] = call[c].id]
               /\ Goto(c, "rename_recheck")
      <4>1. preset_names'[n] = IF n = call[c].name THEN call[c].id
              ELSE IF preset_names[n] = call[c].id THEN NoId ELSE preset_names[n]
        BY <1>1, <3>2, WithoutType
      <4>2. call'[c].pc # call[c].pc
        BY <1>1, <2>2, <3>2, GotoCall DEF RenameIndex, CallPc
      <4> QED BY <3>2, <4>1, <4>2
    <3> QED BY <2>2, <3>1, <3>2 DEF RenameIndex
  <2>3. ASSUME NEW c \in Callers, RenameRollback(c) PROVE Kept(n)
    <3>1. call'[c].pc # call[c].pc
      BY <1>1, <2>3, ReturnCall DEF RenameRollback
    <3> QED BY <1>1, <2>3, <3>1 DEF RenameRollback, TypeOK
  <2>4. ASSUME NEW c \in Callers, RemoveNames(c) PROVE Kept(n)
    <3>1. call'[c].pc # call[c].pc
      BY <1>1, <2>4, ReturnCall DEF RemoveNames
    <3> QED BY <1>1, <2>4, <3>1, WithoutType DEF RemoveNames
  <2>5. CASE preset_names' = preset_names
    BY <2>5
  <2> QED BY <1>1, <2>1, <2>2, <2>3, <2>4, <2>5 DEF Next, CallStep, vars, RenameLookup,
             RemoveLookup, AddInsert, RenameRecheck, RenameSet, RemoveLock,
             RemoveTeardown, RemovePreset
<1>2. IndexInv /\ [Next]_vars => [\A n \in Names : Kept(n)]_vars
  BY <1>1
<1> QED BY <1>2, InitIndex, IndexStep, PTL DEF Spec, NamesAreNotStolen

-----------------------------------------------------------------------------
(* All clones of a flow that carry a token carry the registered one, so    *)
(* abort_context reaches them.                                             *)
HIDE NamesAssumption
USE ContextAssumption

Packet == [ctx : Context, to : Seq(Agents)]

ContextInv == TokenTypeOK /\ OneTokenPerFlow

(* What is at the head of a nonempty sequence, and what its tail holds. *)
LEMMA HeadTail ==
  ASSUME NEW S, NEW s \in Seq(S), s # <<>>
  PROVE  /\ Head(s) \in S /\ Head(s) \in Range(s)
         /\ Tail(s) \in Seq(S) /\ Range(Tail(s)) \subseteq Range(s)
<1>1. Len(s) \in Nat \ {0} /\ 1 \in DOMAIN s /\ Head(s) = s[1]
  OBVIOUS
<1>2. ASSUME NEW i \in DOMAIN Tail(s)
      PROVE  i + 1 \in DOMAIN s /\ Tail(s)[i] = s[i + 1]
  BY <1>1
<1>3. QED
  BY <1>1, <1>2 DEF Range

(* Appending adds one element. *)
LEMMA AppendRange ==
  ASSUME NEW S, NEW s \in Seq(S), NEW e \in S
  PROVE  Append(s, e) \in Seq(S) /\ Range(Append(s, e)) \subseteq Range(s) \cup {e}
<1>1. ASSUME NEW i \in DOMAIN Append(s, e)
      PROVE  (i \in DOMAIN s /\ Append(s, e)[i] = s[i]) \/ Append(s, e)[i] = e
  OBVIOUS
<1>2. QED
  BY <1>1 DEF Range

(* Contexts on the wire and in the mailboxes have a flow. *)
LEMMA HeldType ==
  ASSUME TokenTypeOK
  PROVE  Held \subseteq Context \cup {NoContext}
<1>1. ASSUME NEW i \in DOMAIN wire PROVE wire[i].ctx \in Context
  <2>1. wire \in Seq(Packet)
    BY DEF TokenTypeOK, Packet
  <2>2. wire[i] \in Packet
    BY <2>1
  <2>3. QED
    BY <2>2 DEF Packet
<1>2. \A a \in Agents : Range(mailbox[a]) \subseteq Context
  BY DEF TokenTypeOK, Range
<1>3. InProcess \subseteq Context \cup {NoContext}
  BY DEF TokenTypeOK, InProcess
<1>4. OnWire \subseteq Context
  BY <1>1 DEF OnWire
<1>5. Queued \subseteq Context
  BY <1>2 DEF Queued
<1>6. QED
  BY <1>3, <1>4, <1>5 DEF Held

-----------------------------------------------------------------------------
(* What each kind of step adds to the contexts that exist.  A send: the    *)
(* context it sends.                                                       *)
LEMMA SendHeld ==
  ASSUME TokenTypeOK, NEW ctx \in Context, NEW to \in Seq(Agents), Send(ctx, to),
         UNCHANGED <<mailbox, running>>
  PROVE  wire' \in Seq(Packet) /\ Held' \subseteq Held \cup {ctx}
<1> DEFINE p == [ctx |-> ctx, to |-> to]
<1>1. p \in Packet /\ wire \in Seq(Packet) /\ wire' = Append(wire, p)
  BY DEF TokenTypeOK, Send, Packet
<1>2. wire' \in Seq(Packet)
  BY <1>1
<1>3. ASSUME NEW i \in DOMAIN wire'
      PROVE  (i \in DOMAIN wire /\ wire'[i] = wire[i]) \/ wire'[i] = p
  BY <1>1
<1>4. OnWire' \subseteq OnWire \cup {ctx}
  BY <1>3 DEF OnWire
<1>5. Queued' = Queued /\ InProcess' = InProcess
  BY DEF Queued, InProcess
<1>6. QED
  BY <1>2, <1>4, <1>5 DEF Held

(* A delivery: nothing. *)
LEMMA DeliverHeld ==
  ASSUME TokenTypeOK, Deliver
  PROVE  /\ wire' \in Seq(Packet) /\ mailbox' \in [Agents -> Seq(Context)]
         /\ Held' \subseteq Held
<1> DEFINE h == Head(wire)
           a == Head(h.to)
<1>1. wire \in Seq(Packet) /\ wire # <<>> /\ h.to # <<>>
  BY DEF TokenTypeOK, Deliver, Packet
<1>2. h \in Packet /\ h = wire[1] /\ 1 \in DOMAIN wire /\ Len(wire) \in Nat
  BY <1>1, HeadTail
<1>3. h.to \in Seq(Agents) /\ h.ctx \in Context /\ h.ctx \in Held
  BY <1>2 DEF Packet, Held, OnWire
<1>4. a \in Agents /\ Tail(h.to) \in Seq(Agents)
  BY <1>1, <1>3, HeadTail
<1>5. wire' = [wire EXCEPT ![1] = [h EXCEPT !.to = Tail(h.to)]]
  BY <1>2 DEF Deliver
<1>6. [h EXCEPT !.to = Tail(h.to)] \in Packet /\ [h EXCEPT !.to = Tail(h.to)].ctx = h.ctx
  BY <1>2, <1>4 DEF Packet
<1>7. wire' \in Seq(Packet)
  BY <1>1, <1>2, <1>5, <1>6
<1>8. DOMAIN wire' = DOMAIN wire /\ \A i \in DOMAIN wire : wire'[i].ctx = wire[i].ctx
  BY <1>1, <1>2, <1>5, <1>6
<1>9. mailbox' \in [Agents -> Seq(Context)]
      /\ \A b \in Agents : Range(mailbox'[b]) \subseteq Range(mailbox[b]) \cup {h.ctx}
  <2>1. CASE UNCHANGED mailbox
    BY <2>1 DEF TokenTypeOK
  <2>2. CASE mailbox' = [mailbox EXCEPT ![a] = Append(@, h.ctx)]
    <3>1. mailbox[a] \in Seq(Context)
      BY <1>4 DEF TokenTypeOK
    <3>2. /\ Append(mailbox[a], h.ctx) \in Seq(Context)
          /\ Range(Append(mailbox[a], h.ctx)) \subseteq Range(mailbox[a]) \cup {h.ctx}
      BY <1>3, <3>1, AppendRange
    <3>3. QED
      BY <2>2, <1>4, <3>2 DEF TokenTypeOK
  <2>3. QED
    BY <2>1, <2>2 DEF Deliver
<1>10. OnWire' = OnWire
  BY <1>8 DEF OnWire
<1>11. Queued' \subseteq Held
  BY <1>3, <1>9 DEF Held, Queued
<1>12. InProcess' = InProcess
  BY DEF Deliver, InProcess
<1>13. QED
  BY <1>7, <1>9, <1>10, <1>11, <1>12 DEF Held

(* The end of a delivery: nothing. *)
LEMMA DeliveredHeld ==
  ASSUME TokenTypeOK, Delivered
  PROVE  wire' \in Seq(Packet) /\ Held' \subseteq Held
<1>1. wire \in Seq(Packet) /\ wire # <<>> /\ wire' = Tail(wire)
  BY DEF TokenTypeOK, Delivered, Packet
<1>2. wire' \in Seq(Packet) /\ Len(wire) \in Nat \ {0}
  BY <1>1, HeadTail
<1>3. ASSUME NEW i \in DOMAIN wire'
      PROVE  i + 1 \in DOMAIN wire /\ wire'[i] = wire[i + 1]
  BY <1>1, <1>2
<1>4. OnWire' \subseteq OnWire
  BY <1>3 DEF OnWire
<1>5. Queued' = Queued /\ InProcess' = InProcess
  BY DEF Delivered, Queued, InProcess
<1>6. QED
  BY <1>2, <1>4, <1>5 DEF Held

(* A dispatch: the context process() is called with, whose flow is that of *)
(* the input.                                                              *)
LEMMA DispatchHeld ==
  ASSUME TokenTypeOK, NEW a \in Agents, Dispatch(a)
  PROVE  /\ mailbox' \in [Agents -> Seq(Context)]
         /\ Head(mailbox[a]) \in Context /\ Head(mailbox[a]) \in Held
         /\ Held' \subseteq Held \cup {running'[a]}
<1>1. mailbox[a] \in Seq(Context) /\ mailbox[a] # <<>>
  BY DEF TokenTypeOK, Dispatch
<1>2. /\ Head(mailbox[a]) \in Context /\ Head(mailbox[a]) \in Range(mailbox[a])
      /\ Tail(mailbox[a]) \in Seq(Context)
      /\ Range(Tail(mailbox[a])) \subseteq Range(mailbox[a])
  BY <1>1, HeadTail
<1>3. mailbox' = [mailbox EXCEPT ![a] = Tail(mailbox[a])] /\ wire' = wire
  BY DEF Dispatch
<1>4. /\ mailbox' \in [Agents -> Seq(Context)]
      /\ \A b \in Agents : Range(mailbox'[b]) \subseteq Range(mailbox[b])
  BY <1>2, <1>3 DEF TokenTypeOK
<1>5. DOMAIN running' = Agents /\ \A b \in Agents \ {a} : running'[b] = running[b]
  BY DEF Dispatch, TokenTypeOK
<1>6. InProcess' \subseteq InProcess \cup {running'[a]}
  BY <1>5 DEF InProcess
<1>7. Queued' \subseteq Queued /\ OnWire' = OnWire
  BY <1>3, <1>4 DEF Queued, OnWire
<1>8. Range(mailbox[a]) \subseteq Held
  BY DEF Held, Queued
<1>9. Held' \subseteq Held \cup {running'[a]}
  BY <1>6, <1>7 DEF Held
<1>10. QED
  BY <1>2, <1>4, <1>8, <1>9

-----------------------------------------------------------------------------
(* Pruning keeps the types and the entries of live flows. *)
LEMMA PrunedType ==
  ASSUME TokenTypeOK
  PROVE  /\ Pruned \in [Flows -> 0 .. (nextToken - 1)]
         /\ \A f \in Flows : Live(context_tokens[f]) => Pruned[f] = context_tokens[f]
<1>1. context_tokens \in [Flows -> 0 .. (nextToken - 1)] /\ 0 \in 0 .. (nextToken - 1)
  BY DEF TokenTypeOK
<1>2. QED
  BY <1>1 DEF Pruned

(* A context made by a dispatch has the flow's registered token. *)
LEMMA DispatchToken ==
  ASSUME ContextInv, NEW a \in Agents, Dispatch(a)
  PROVE  /\ running' \in [Agents -> Context \cup {NoContext}]
         /\ nextToken' \in Nat \ {0} /\ nextToken <= nextToken'
         /\ context_tokens' \in [Flows -> 0 .. (nextToken' - 1)]
         /\ running'[a] \in Context
         /\ running'[a].token # 0 /\ context_tokens'[running'[a].flow] = running'[a].token
         /\ \A ctx \in Held : (ctx.token # 0 /\ ctx \in Context) =>
                context_tokens'[ctx.flow] = ctx.token
<1> DEFINE ctx == Head(mailbox[a])
           f == ctx.flow
<1>1. ctx \in Context /\ ctx \in Held /\ f \in Flows
  BY DispatchHeld DEF ContextInv, Context
<1>2. TokenTypeOK /\ OneTokenPerFlow /\ nextToken \in Nat \ {0}
  BY DEF ContextInv, TokenTypeOK
<1>3. running \in [Agents -> Context \cup {NoContext}]
      /\ context_tokens \in [Flows -> 0 .. (nextToken - 1)]
  BY <1>2 DEF TokenTypeOK
<1>4. CASE ctx.token # 0 /\ running' = [running EXCEPT ![a] = ctx]
           /\ UNCHANGED <<context_tokens, nextToken>>
  <2>1. context_tokens[f] = ctx.token
    BY <1>1, <1>2, <1>4 DEF OneTokenPerFlow
  <2>2. QED
    BY <1>1, <1>2, <1>3, <1>4, <2>1 DEF OneTokenPerFlow
<1>5. CASE /\ Live(context_tokens[f])
           /\ running' = [running EXCEPT ![a] = [flow |-> f, token |-> context_tokens[f]]]
           /\ UNCHANGED <<context_tokens, nextToken>>
  <2>1. [flow |-> f, token |-> context_tokens[f]] \in Context /\ context_tokens[f] # 0
    BY <1>1, <1>2, <1>3, <1>5 DEF Context, Live
  <2>2. QED
    BY <1>1, <1>2, <1>3, <1>5, <2>1 DEF OneTokenPerFlow
<1>6. CASE /\ ~Live(context_tokens[f])
           /\ context_tokens' = [Pruned EXCEPT ![f] = nextToken]
           /\ nextToken' = nextToken + 1
           /\ running' = [running EXCEPT ![a] = [flow |-> f, token |-> nextToken]]
  <2>1. [flow |-> f, token |-> nextToken] \in Context
    BY <1>1, <1>2 DEF Context
  <2>2. nextToken \in 0 .. (nextToken' - 1) /\ 0 .. (nextToken - 1) \subseteq 0 .. (nextToken' - 1)
    BY <1>2, <1>6
  <2>3. Pruned \in [Flows -> 0 .. (nextToken - 1)]
    BY <1>2, PrunedType
  <2>4. context_tokens' \in [Flows -> 0 .. (nextToken' - 1)] /\ context_tokens'[f] = nextToken
    BY <1>1, <1>6, <2>2, <2>3
  <2>5. ASSUME NEW c \in Held, c.token # 0, c \in Context
        PROVE  context_tokens'[c.flow] = c.token
    <3>1. context_tokens[c.flow] = c.token /\ c.flow \in Flows
      BY <1>2, <2>5 DEF OneTokenPerFlow, Context
    <3>2. Live(context_tokens[c.flow])
      BY <2>5, <3>1 DEF Live
    <3>3. c.flow # f /\ Pruned[c.flow] = c.token
      BY <1>2, <1>6, <3>1, <3>2, PrunedType
    <3>4. QED
      BY <1>6, <2>3, <3>1, <3>3
  <2>6. QED
    BY <1>2, <1>3, <1>6, <2>1, <2>4, <2>5
<1>7. QED
  BY <1>4, <1>5, <1>6 DEF Dispatch

-----------------------------------------------------------------------------
(* ContextInv is inductive. *)
LEMMA ContextInvInit == TokenInit => ContextInv
<1> SUFFICES ASSUME TokenInit PROVE ContextInv
  OBVIOUS
<1>1. TokenTypeOK
  BY DEF TokenInit, TokenTypeOK, NoContext
<1>2. Held \subseteq {NoContext}
  <2>1. OnWire = {} /\ Queued = {}
    BY DEF TokenInit, OnWire, Queued, Range
  <2>2. InProcess \subseteq {NoContext}
    BY DEF TokenInit, InProcess
  <2>3. QED
    BY <2>1, <2>2 DEF Held
<1>3. QED
  BY <1>1, <1>2 DEF ContextInv, OneTokenPerFlow, NoContext

(* Contexts that were there, or have no token, satisfy OneTokenPerFlow     *)
(* after a step that leaves the registry alone.                            *)
LEMMA RegistryKept ==
  ASSUME ContextInv, NEW e, e.token = 0, Held' \subseteq Held \cup {e},
         UNCHANGED context_tokens
  PROVE  OneTokenPerFlow'
BY DEF ContextInv, OneTokenPerFlow

(* Every step keeps types and tokens. *)
LEMMA ContextInvNext == ContextInv /\ [TokenNext]_tokenVars => ContextInv'
<1> SUFFICES ASSUME ContextInv, [TokenNext]_tokenVars PROVE ContextInv'
  OBVIOUS
<1>0. TokenTypeOK /\ OneTokenPerFlow
  BY DEF ContextInv
<1>1. ASSUME NEW f \in Flows, WriteExternalInput(f) PROVE ContextInv'
  <2> DEFINE ctx == [flow |-> f, token |-> 0]
  <2>1. ctx \in Context /\ ctx.token = 0
    BY DEF Context
  <2>2. Send(ctx, Entry) /\ UNCHANGED <<mailbox, running, context_tokens, nextToken, fired, aborted>>
    BY <1>1 DEF WriteExternalInput
  <2>3. wire' \in Seq(Packet) /\ Held' \subseteq Held \cup {ctx}
    BY <1>0, <2>1, <2>2, SendHeld
  <2>4. OneTokenPerFlow'
    BY <2>1, <2>2, <2>3, RegistryKept
  <2>5. begun' \subseteq Flows /\ sends' \in Nat
    BY <1>0, <1>1, <2>2 DEF TokenTypeOK, WriteExternalInput, Send
  <2>6. QED
    BY <1>0, <2>2, <2>3, <2>4, <2>5 DEF ContextInv, TokenTypeOK, Packet
<1>2. ASSUME NEW f \in Flows, AbortContext(f) PROVE ContextInv'
  <2>1. context_tokens[f] \in 1 .. (nextToken - 1)
    BY <1>0, <1>2 DEF TokenTypeOK, AbortContext, Live
  <2>2. fired' \subseteq 1 .. (nextToken' - 1)
    BY <1>0, <1>2, <2>1 DEF TokenTypeOK, AbortContext
  <2>3. TokenTypeOK'
    BY <1>0, <1>2, <2>2 DEF TokenTypeOK, AbortContext
  <2>4. QED
    BY <1>0, <1>2, <2>3 DEF ContextInv, OneTokenPerFlow, AbortContext, Held, OnWire, Queued, InProcess
<1>3. ASSUME Deliver PROVE ContextInv'
  <2>1. TokenTypeOK'
    BY <1>0, <1>3, DeliverHeld DEF TokenTypeOK, Deliver, Packet
  <2>2. Held' \subseteq Held /\ UNCHANGED context_tokens
    BY <1>0, <1>3, DeliverHeld DEF Deliver
  <2>3. QED
    BY <1>0, <2>1, <2>2 DEF ContextInv, OneTokenPerFlow
<1>4. ASSUME Delivered PROVE ContextInv'
  <2>1. TokenTypeOK'
    BY <1>0, <1>4, DeliveredHeld DEF TokenTypeOK, Delivered, Packet
  <2>2. Held' \subseteq Held /\ UNCHANGED context_tokens
    BY <1>0, <1>4, DeliveredHeld DEF Delivered
  <2>3. QED
    BY <1>0, <2>1, <2>2 DEF ContextInv, OneTokenPerFlow
<1>5. ASSUME NEW a \in Agents, Dispatch(a) PROVE ContextInv'
  <2>1. fired' \subseteq 1 .. (nextToken' - 1)
    BY <1>0, <1>5, DispatchToken DEF TokenTypeOK, Dispatch
  <2>2. mailbox' \in [Agents -> Seq(Context)]
    BY <1>0, <1>5, DispatchHeld
  <2>3. UNCHANGED <<begun, wire, aborted, sends>>
    BY <1>5 DEF Dispatch
  <2>4. TokenTypeOK'
    BY <1>0, <1>5, <2>1, <2>2, <2>3, DispatchToken DEF TokenTypeOK
  <2>5. ASSUME NEW ctx \in Held', ctx.token # 0
        PROVE  context_tokens'[ctx.flow] = ctx.token
    <3>1. CASE ctx = running'[a]
      BY <1>5, <3>1, DispatchToken
    <3>2. CASE ctx \in Held
      <4>1. ctx \in Context
        BY <1>0, <2>5, <3>2, HeldType DEF NoContext
      <4>2. QED
        BY <1>5, <2>5, <3>2, <4>1, DispatchToken
    <3>3. QED
      BY <1>0, <1>5, <2>5, <3>1, <3>2, DispatchHeld
  <2>6. QED
    BY <2>4, <2>5 DEF ContextInv, OneTokenPerFlow
<1>6. ASSUME NEW a \in Agents, Emit(a) PROVE ContextInv'
  <2>1. running[a] \in Context /\ running[a] \in Held /\ Targets[a] \in Seq(Agents)
    BY <1>0, <1>6 DEF TokenTypeOK, Emit, Held, InProcess
  <2>2. Send(running[a], Targets[a]) /\ UNCHANGED <<begun, mailbox, running, context_tokens, nextToken, fired, aborted>>
    BY <1>6 DEF Emit
  <2>3. wire' \in Seq(Packet) /\ Held' \subseteq Held
    BY <1>0, <2>1, <2>2, SendHeld
  <2>4. sends' \in Nat
    BY <1>0, <2>2 DEF TokenTypeOK, Send
  <2>5. TokenTypeOK'
    BY <1>0, <2>2, <2>3, <2>4 DEF TokenTypeOK, Packet
  <2>6. QED
    BY <1>0, <2>2, <2>3, <2>5 DEF ContextInv, OneTokenPerFlow
<1>7. ASSUME NEW a \in Agents, Finish(a) PROVE ContextInv'
  <2>1. TokenTypeOK'
    BY <1>0, <1>7 DEF TokenTypeOK, Finish
  <2>2. InProcess' \subseteq InProcess \cup {NoContext}
    BY <1>0, <1>7 DEF TokenTypeOK, Finish, InProcess
  <2>3. OnWire' = OnWire /\ Queued' = Queued /\ UNCHANGED context_tokens
    BY <1>7 DEF Finish, OnWire, Queued
  <2>6. Held' \subseteq Held \cup {NoContext}
    BY <2>2, <2>3 DEF Held
  <2>4. NoContext.token = 0
    BY DEF NoContext
  <2>5. QED
    BY <2>1, <2>3, <2>4, <2>6, RegistryKept DEF ContextInv
<1>8. CASE UNCHANGED tokenVars
  BY <1>0, <1>8 DEF tokenVars, ContextInv, TokenTypeOK, OneTokenPerFlow, Held, OnWire, Queued, InProcess
<1>9. QED
  BY <1>1, <1>2, <1>3, <1>4, <1>5, <1>6, <1>7, <1>8 DEF TokenNext

(* Hence all reachable states have them. *)
LEMMA ContextInvariant == TokenSpec => []ContextInv
BY ContextInvInit, ContextInvNext, PTL DEF TokenSpec

(* The types hold in every behaviour; registered and cancelled tokens are  *)
(* tokens that context_token created.                                      *)
THEOREM TokenTypeCorrect == TokenSpec => []TokenTypeOK
<1>1. ContextInv => TokenTypeOK
  BY DEF ContextInv
<1>2. QED
  BY <1>1, ContextInvariant, PTL

(* All clones of a flow that carry a token carry the registered one,       *)
(* however dispatches, prunings and the ends of flows interleave.          *)
THEOREM OneTokenAlways == TokenSpec => []OneTokenPerFlow
<1>1. ContextInv => OneTokenPerFlow
  BY DEF ContextInv
<1>2. QED
  BY <1>1, ContextInvariant, PTL

(* An abort_context that returns true cancels the token of every context   *)
(* of the flow that has one.                                               *)
THEOREM AbortReachesWholeFlow == TokenSpec => AbortReachesFlow
<1> DEFINE Reaches ==
      \A f \in aborted' \ aborted : \A ctx \in Held :
          (ctx.flow = f /\ ctx.token # 0) => ctx.token \in fired'
<1>1. ASSUME ContextInv, [TokenNext]_tokenVars, NEW f \in aborted' \ aborted,
             NEW ctx \in Held, ctx.flow = f, ctx.token # 0
      PROVE  ctx.token \in fired'
  <2>1. PICK g \in Flows : AbortContext(g)
    BY <1>1 DEF TokenNext, tokenVars, WriteExternalInput, Deliver, Delivered, Dispatch, Emit, Finish
  <2>2. f = g /\ context_tokens[f] \in fired'
    BY <1>1, <2>1 DEF AbortContext
  <2>3. context_tokens[f] = ctx.token
    BY <1>1 DEF ContextInv, OneTokenPerFlow
  <2>4. QED
    BY <2>2, <2>3
<1>2. ContextInv /\ [TokenNext]_tokenVars => [Reaches]_tokenVars
  BY <1>1
<1>3. QED
  BY <1>2, ContextInvariant, PTL DEF TokenSpec, AbortReachesFlow

-----------------------------------------------------------------------------
(* Dispatching an input that has no token yet drops no token. *)
LEMMA DispatchKeepsTokens ==
  ASSUME TokenTypeOK, NEW a \in Agents, Dispatch(a), Head(mailbox[a]).token = 0,
         NEW t, Live(t)
  PROVE  Live(t)'
<1>1. PICK ctx \in Held : ctx.token = t
  BY DEF Live
<1>2. t # 0
  BY DEF Live
<1>3. mailbox[a] \in Seq(Context) /\ mailbox[a] # <<>>
  BY DEF TokenTypeOK, Dispatch
<1>4. wire' = wire /\ mailbox' = [mailbox EXCEPT ![a] = Tail(mailbox[a])]
  BY DEF Dispatch
<1>5. CASE ctx \in OnWire
  <2>1. ctx \in OnWire'
    BY <1>4, <1>5 DEF OnWire
  <2>2. QED
    BY <1>1, <1>2, <2>1 DEF Live, Held
<1>6. CASE ctx \in InProcess
  <2>1. PICK b \in Agents : ctx = running[b]
    BY <1>6 DEF InProcess
  <2>2. b # a
    BY <1>1, <1>2, <2>1 DEF Dispatch, NoContext
  <2>3. running'[b] = running[b]
    BY <2>2 DEF Dispatch, TokenTypeOK
  <2>4. ctx \in InProcess'
    BY <2>1, <2>3 DEF InProcess
  <2>5. QED
    BY <1>1, <1>2, <2>4 DEF Live, Held
<1>7. CASE ctx \in Queued
  <2>1. PICK b \in Agents : ctx \in Range(mailbox[b])
    BY <1>7 DEF Queued
  <2>2. ctx \in Range(mailbox'[b])
    <3>1. CASE b # a
      BY <1>4, <2>1, <3>1 DEF TokenTypeOK
    <3>2. CASE b = a
      <4>1. PICK i \in DOMAIN mailbox[a] : ctx = mailbox[a][i]
        BY <2>1, <3>2 DEF Range
      <4>2. i # 1
        BY <1>1, <1>2, <1>3, <4>1
      <4>3. (i - 1) \in DOMAIN Tail(mailbox[a]) /\ Tail(mailbox[a])[i - 1] = ctx
        BY <1>3, <4>1, <4>2
      <4>4. mailbox'[a] = Tail(mailbox[a])
        BY <1>4 DEF TokenTypeOK
      <4>5. QED
        BY <3>2, <4>3, <4>4 DEF Range
    <3>3. QED
      BY <3>1, <3>2
  <2>3. ctx \in Queued'
    BY <2>1, <2>2 DEF Queued
  <2>4. QED
    BY <1>1, <1>2, <2>3 DEF Live, Held
<1>8. QED
  BY <1>1, <1>5, <1>6, <1>7 DEF Held

(* A registry that grows beyond the threshold has been pruned: all its     *)
(* entries are of live flows.                                              *)
THEOREM PrunedBeyondThresholdAlways == TokenSpec => PrunedBeyondThreshold
<1> DEFINE Grows == /\ Cardinality(Entries') > Cardinality(Entries)
                    /\ Cardinality(Entries') > Threshold
<1>1. ASSUME ContextInv, [TokenNext]_tokenVars, Grows, NEW f \in Entries'
      PROVE  Live(context_tokens[f])'
  <2>1. TokenTypeOK /\ IsFiniteSet(Entries) /\ Entries \subseteq Flows
    BY <1>1, FS_Subset DEF ContextInv, Entries
  <2>2. Cardinality(Entries) \in Nat
    BY <2>1, FS_CardinalityType
  <2>3. context_tokens' # context_tokens
    <3>1. SUFFICES ASSUME context_tokens' = context_tokens PROVE FALSE
      OBVIOUS
    <3>2. Entries' = Entries
      BY <3>1 DEF Entries
    <3>3. QED
      BY <1>1, <2>2, <3>2
  <2>4. PICK a \in Agents : Dispatch(a)
    BY <1>1, <2>3 DEF TokenNext, tokenVars, WriteExternalInput, AbortContext, Deliver, Delivered,
                      Emit, Finish
  <2> DEFINE g == Head(mailbox[a]).flow
  <2>5. /\ Head(mailbox[a]).token = 0 /\ context_tokens' = [Pruned EXCEPT ![g] = nextToken]
        /\ running' = [running EXCEPT ![a] = [flow |-> g, token |-> nextToken]]
    BY <2>3, <2>4 DEF Dispatch
  <2>6. g \in Flows /\ nextToken # 0 /\ Pruned \in [Flows -> 0 .. (nextToken - 1)]
        /\ context_tokens \in [Flows -> 0 .. (nextToken - 1)]
    BY <2>1, <2>4, DispatchHeld, PrunedType DEF Context, TokenTypeOK
  <2>7. ~(Cardinality(Entries) < Threshold)
    <3>1. SUFFICES ASSUME Cardinality(Entries) < Threshold PROVE FALSE
      OBVIOUS
    <3>2. Entries' \subseteq Entries \cup {g}
      BY <2>5, <2>6, <3>1 DEF Entries, Pruned
    <3>3. /\ IsFiniteSet(Entries \cup {g})
          /\ Cardinality(Entries \cup {g}) = IF g \in Entries THEN Cardinality(Entries)
                                             ELSE Cardinality(Entries) + 1
      BY <2>1, FS_AddElement
    <3>4. Cardinality(Entries') <= Cardinality(Entries \cup {g}) /\ IsFiniteSet(Entries')
      BY <3>2, <3>3, FS_Subset
    <3>5. Cardinality(Entries') \in Nat
      BY <3>4, FS_CardinalityType
    <3>6. QED
      BY <1>1, <2>2, <3>1, <3>3, <3>4, <3>5
  <2>8. Pruned = [h \in Flows |-> IF Live(context_tokens[h]) THEN context_tokens[h] ELSE 0]
    BY <2>7 DEF Pruned
  <2>9. CASE f = g
    <3>1. context_tokens'[f] = nextToken /\ running'[a].token = nextToken
      BY <2>1, <2>5, <2>6, <2>9 DEF TokenTypeOK
    <3>2. running'[a] \in Held'
      BY DEF Held, InProcess
    <3>3. QED
      BY <2>6, <3>1, <3>2 DEF Live
  <2>10. CASE f # g
    <3>1. f \in Flows /\ context_tokens'[f] # 0 /\ context_tokens'[f] = Pruned[f]
      BY <2>5, <2>6, <2>10 DEF Entries
    <3>2. Live(context_tokens[f]) /\ context_tokens'[f] = context_tokens[f]
      BY <2>8, <3>1
    <3>3. PICK t : t = context_tokens[f]
      OBVIOUS
    <3>4. Live(t)'
      BY <2>1, <2>4, <2>5, <3>2, <3>3, DispatchKeepsTokens
    <3>5. QED
      BY <3>2, <3>3, <3>4 DEF Live
  <2>11. QED
    BY <2>9, <2>10
<1>2. ContextInv /\ [TokenNext]_tokenVars =>
        [Grows => \A f \in Entries' : Live(context_tokens[f])']_tokenVars
  BY <1>1
<1>3. QED
  BY <1>2, ContextInvariant, PTL DEF TokenSpec, PrunedBeyondThreshold
=============================================================================
