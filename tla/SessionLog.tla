----------------------------- MODULE SessionLog -----------------------------
(***************************************************************************)
(* What a SessionStore promises of one session: entries are only ever      *)
(* appended, one at a time.  InMemorySessionStore does exactly this under  *)
(* its mutex.                                                              *)
(***************************************************************************)
EXTENDS Sequences

CONSTANT Entries    \* entry ids

VARIABLES exists, entries

vars == <<exists, entries>>

Init == exists = FALSE /\ entries = <<>>

(* create fails when there is such a session. *)
Create ==
    /\ ~exists
    /\ exists' = TRUE
    /\ UNCHANGED entries

Append_(e) ==
    /\ exists
    /\ entries' = Append(entries, e)
    /\ UNCHANGED exists

Next == Create \/ \E e \in Entries : Append_(e)

Spec == Init /\ [][Next]_vars
=============================================================================
