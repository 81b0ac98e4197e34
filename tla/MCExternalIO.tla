---------------------------- MODULE MCExternalIO ----------------------------
(* in -> w -> out; add, which does not run at first, listens to the same   *)
(* channel as in, and errors of w reach its name.                          *)
EXTENDS ExternalIO, TLC

NodeOrder == <<"in", "w", "out", "add">>
KindOf == ("in" :> "local_in") @@ ("w" :> "work") @@ ("out" :> "ext_out") @@ ("add" :> "local_in")
To(t, sp, tp) == [target |-> t, source_port |-> sp, target_port |-> tp]
Edges == ("in" :> <<To("w", "value", "value")>>)
         @@ ("w" :> <<To("out", "value", "value"), To("add", "err", "config:name")>>)
         @@ ("out" :> <<>>)
         @@ ("add" :> <<>>)
NamesOf == ("in" :> "a") @@ ("w" :> "none") @@ ("out" :> "b") @@ ("add" :> "a")
AsNames == [v \in Values |-> "none"]
StartCalls == {<<"u", "w">>, <<"u", "add">>, <<"v", "add">>}
StopCalls == {<<"v", "w">>, <<"v", "add">>}
RenameCalls == {<<"v", "add", "c">>, <<"v", "w", "c">>}
Written == {<<"local", "a">>}
=============================================================================
