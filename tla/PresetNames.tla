----------------------------- MODULE PresetNames -----------------------------
(***************************************************************************)
(* The preset table and its name index: add_preset_raw, rename_preset and  *)
(* remove_preset, called concurrently.  The code never holds the locks of  *)
(* `presets` and `preset_names` together, so each operation is a sequence  *)
(* of separate critical sections and the two tables agree only in the end. *)
(***************************************************************************)
EXTENDS Naturals, FiniteSets

CONSTANTS
    PresetIds,   \* ids new_id can hand out (bound: presets ever created)
    Names,       \* preset names
    Callers,     \* concurrent API callers
    NoId,        \* no preset
    NoName,      \* an unnamed preset
    MaxCalls     \* bound: API calls ever made

ASSUME NamesAssumption ==
    /\ NoId \notin PresetIds
    /\ NoName \notin Names
    /\ MaxCalls \in Nat

VARIABLES
    used,          \* ids handed out so far
    presets,       \* ids in the presets map
    preset_names,  \* name -> id, NoId where the index has no entry
    presetName,    \* id -> Preset::name
    presetLock,    \* ids whose preset mutex is held
    call,          \* caller -> where its call is
    calls          \* number of calls made

vars == <<used, presets, preset_names, presetName, presetLock, call, calls>>

CallPc == {"idle", "add_insert",
           "rename_index", "rename_recheck", "rename_rollback", "rename_set",
           "remove_lock", "remove_teardown", "remove_preset", "remove_names"}
Call == [pc : CallPc, id : PresetIds \cup {NoId}, name : Names \cup {NoName}]
IdleCall == [pc |-> "idle", id |-> NoId, name |-> NoName]

Init ==
    /\ used = {}
    /\ presets = {}
    /\ preset_names = [n \in Names |-> NoId]
    /\ presetName = [p \in PresetIds |-> NoName]
    /\ presetLock = {}
    /\ call = [c \in Callers |-> IdleCall]
    /\ calls = 0

Goto(c, pc) == call' = [call EXCEPT ![c].pc = pc]
Return(c) == call' = [call EXCEPT ![c] = IdleCall]
Begin(c) ==
    /\ call[c].pc = "idle"
    /\ calls < MaxCalls
    /\ calls' = calls + 1

(* preset_names.retain(|_, v| v != id) *)
Without(index, id) == [n \in Names |-> IF index[n] = id THEN NoId ELSE index[n]]

-----------------------------------------------------------------------------
(* add_preset_raw: Preset::new takes a fresh id; a name is reserved before *)
(* the agents are built, a taken one fails the call.                       *)
AddReserve(c, id, n) ==
    /\ Begin(c)
    /\ id \notin used
    /\ used' = used \cup {id}
    /\ \/ /\ n \in Names
          /\ preset_names[n] # NoId
          /\ UNCHANGED <<preset_names, presetName, call>>
       \/ /\ n \in Names => preset_names[n] = NoId
          /\ preset_names' = IF n \in Names THEN [preset_names EXCEPT ![n] = id]
                                            ELSE preset_names
          /\ presetName' = [presetName EXCEPT ![id] = n]
          /\ call' = [call EXCEPT ![c] = [pc |-> "add_insert", id |-> id, name |-> n]]
    /\ UNCHANGED <<presets, presetLock>>

(* The preset becomes visible; its id is new, so it is never a duplicate. *)
AddInsert(c) ==
    /\ call[c].pc = "add_insert"
    /\ presets' = presets \cup {call[c].id}
    /\ Return(c)
    /\ UNCHANGED <<used, preset_names, presetName, presetLock, calls>>

-----------------------------------------------------------------------------
(* rename_preset finds the preset ... *)
RenameLookup(c, id, n) ==
    /\ Begin(c)
    /\ id \in presets
    /\ n \in Names
    /\ call' = [call EXCEPT ![c] = [pc |-> "rename_index", id |-> id, name |-> n]]
    /\ UNCHANGED <<used, presets, preset_names, presetName, presetLock>>

(* ... moves its index entry to the new name, unless another has it ... *)
RenameIndex(c) ==
    /\ call[c].pc = "rename_index"
    /\ IF preset_names[call[c].name] \notin {NoId, call[c].id}
       THEN Return(c) /\ UNCHANGED preset_names
       ELSE /\ preset_names' = [Without(preset_names, call[c].id)
                                  EXCEPT ![call[c].name] = call[c].id]
            /\ Goto(c, "rename_recheck")
    /\ UNCHANGED <<used, presets, presetName, presetLock, calls>>

(* Variant: no second look at the presets map. *)
RenameNoRecheck(c) ==
    /\ call[c].pc = "rename_recheck"
    /\ Goto(c, "rename_set")
    /\ UNCHANGED <<used, presets, preset_names, presetName, presetLock, calls>>

(* ... looks again whether the preset is still there ... *)
RenameRecheck(c) ==
    /\ call[c].pc = "rename_recheck"
    /\ Goto(c, IF call[c].id \in presets THEN "rename_set" ELSE "rename_rollback")
    /\ UNCHANGED <<used, presets, preset_names, presetName, presetLock, calls>>

(* Variant: the entry is rolled back whoever owns it by now. *)
RenameRollbackAny(c) ==
    /\ call[c].pc = "rename_rollback"
    /\ preset_names' = [preset_names EXCEPT ![call[c].name] = NoId]
    /\ Return(c)
    /\ UNCHANGED <<used, presets, presetName, presetLock, calls>>

(* ... and takes the entry back if it is gone and the entry still its own; *)
RenameRollback(c) ==
    /\ call[c].pc = "rename_rollback"
    /\ preset_names' = IF preset_names[call[c].name] = call[c].id
                       THEN [preset_names EXCEPT ![call[c].name] = NoId]
                       ELSE preset_names
    /\ Return(c)
    /\ UNCHANGED <<used, presets, presetName, presetLock, calls>>

(* or sets the name of the preset itself, under the preset's lock.         *)
RenameSet(c) ==
    /\ call[c].pc = "rename_set"
    /\ call[c].id \notin presetLock
    /\ presetName' = [presetName EXCEPT ![call[c].id] = call[c].name]
    /\ Return(c)
    /\ UNCHANGED <<used, presets, preset_names, presetLock, calls>>

-----------------------------------------------------------------------------
(* remove_preset: found, locked, stopped and emptied ... *)
RemoveLookup(c, id) ==
    /\ Begin(c)
    /\ id \in presets
    /\ call' = [call EXCEPT ![c] = [pc |-> "remove_lock", id |-> id, name |-> NoName]]
    /\ UNCHANGED <<used, presets, preset_names, presetName, presetLock>>

RemoveLock(c) ==
    /\ call[c].pc = "remove_lock"
    /\ call[c].id \notin presetLock
    /\ presetLock' = presetLock \cup {call[c].id}
    /\ Goto(c, "remove_teardown")
    /\ UNCHANGED <<used, presets, preset_names, presetName, calls>>

(* ... the lock dropped after the teardown (see PresetGraph) ... *)
RemoveTeardown(c) ==
    /\ call[c].pc = "remove_teardown"
    /\ presetLock' = presetLock \ {call[c].id}
    /\ Goto(c, "remove_preset")
    /\ UNCHANGED <<used, presets, preset_names, presetName, calls>>

(* ... and taken out of the presets map first, of the index second.        *)
RemovePreset(c) ==
    /\ call[c].pc = "remove_preset"
    /\ presets' = presets \ {call[c].id}
    /\ Goto(c, "remove_names")
    /\ UNCHANGED <<used, preset_names, presetName, presetLock, calls>>

(* Variant: only the name the preset shows is dropped. *)
RemoveShownName(c) ==
    /\ call[c].pc = "remove_names"
    /\ preset_names' = [n \in Names |->
           IF n = presetName[call[c].id] /\ preset_names[n] = call[c].id
           THEN NoId ELSE preset_names[n]]
    /\ Return(c)
    /\ UNCHANGED <<used, presets, presetName, presetLock, calls>>

RemoveNames(c) ==
    /\ call[c].pc = "remove_names"
    /\ preset_names' = Without(preset_names, call[c].id)
    /\ Return(c)
    /\ UNCHANGED <<used, presets, presetName, presetLock, calls>>

-----------------------------------------------------------------------------
CallStep(c) ==
    \/ AddInsert(c)
    \/ RenameIndex(c) \/ RenameRecheck(c) \/ RenameRollback(c) \/ RenameSet(c)
    \/ RemoveLock(c) \/ RemoveTeardown(c) \/ RemovePreset(c) \/ RemoveNames(c)

Next ==
    \E c \in Callers :
        \/ \E id \in PresetIds, n \in Names \cup {NoName} : AddReserve(c, id, n)
        \/ \E id \in PresetIds, n \in Names : RenameLookup(c, id, n)
        \/ \E id \in PresetIds : RemoveLookup(c, id)
        \/ CallStep(c)

Spec == Init /\ [][Next]_vars

(* A call that has begun is polled by the executor until it returns. *)
FairSpec == Spec /\ \A c \in Callers : WF_vars(CallStep(c))

-----------------------------------------------------------------------------
(* Types of all variables: a preset in the map has an id handed out by     *)
(* new_id.                                                                 *)
TypeOK ==
    /\ used \subseteq PresetIds
    /\ presets \subseteq used
    /\ preset_names \in [Names -> PresetIds \cup {NoId}]
    /\ presetName \in [PresetIds -> Names \cup {NoName}]
    /\ presetLock \subseteq PresetIds
    /\ call \in [Callers -> Call]
    /\ calls \in Nat

(* What the index and a call in progress refer to has been handed out. *)
RefersToUsed ==
    /\ \A n \in Names : preset_names[n] # NoId => preset_names[n] \in used
    /\ \A c \in Callers : call[c].pc # "idle" =>
          /\ call[c].id \in used
          /\ call[c].pc \in {"rename_index", "rename_recheck",
                            "rename_rollback", "rename_set"} => call[c].name \in Names

Quiescent == \A c \in Callers : call[c].pc = "idle"

(* Calls that will still look at the index entries of id: an add that has  *)
(* reserved a name, a rename that will check whether the preset is there   *)
(* for its own entry, a remove that has yet to clean the index.            *)
Responsible(c, id, n) ==
    /\ call[c].id = id
    /\ \/ call[c].pc = "add_insert"
       \/ call[c].pc \in {"rename_recheck", "rename_rollback"} /\ call[c].name = n
       \/ call[c].pc = "remove_names"

(* A name whose preset is not in the presets map has a call in progress    *)
(* that will insert the preset or drop the name, whatever renames and      *)
(* removals of the preset overlap.                                         *)
DanglingNameIsPending ==
    \A n \in Names : preset_names[n] \notin presets \cup {NoId} =>
        \E c \in Callers : Responsible(c, preset_names[n], n)

(* Once no call is in progress, the index names only presets that exist.   *)
NoDanglingName ==
    Quiescent => \A n \in Names : preset_names[n] # NoId => preset_names[n] \in presets

(* No preset is found under two names. *)
OneNamePerPreset ==
    \A m, n \in Names : (m # n /\ preset_names[m] # NoId) => preset_names[m] # preset_names[n]

(* A name passes from one preset to another only by being free in between, *)
(* and only a call about the preset that has it frees it: neither a rename *)
(* nor the rollback of a failed one takes another preset's name away.      *)
NamesAreNotStolen ==
    [][\A n \in Names :
        (preset_names[n] # NoId /\ preset_names'[n] # preset_names[n]) =>
            /\ preset_names'[n] = NoId
            /\ \E c \in Callers : call'[c] # call[c] /\ call[c].id = preset_names[n]]_vars

(* A preset that was removed disappears from the index for good: a rename  *)
(* that looked the preset up before and enters its name after the removal  *)
(* takes the name out again.                                               *)
RemovedNameFreed ==
    \A c \in Callers, id \in PresetIds :
        (call[c].pc = "remove_preset" /\ call[c].id = id)
            ~> [](id \notin presets /\ \A n \in Names : preset_names[n] # id)
=============================================================================
