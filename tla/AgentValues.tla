---------------------------- MODULE AgentValues ----------------------------
(***************************************************************************)
(* AgentValue: the values that agents exchange and keep as configs, their  *)
(* two ways into JSON, the way back, the casts between types, equality and *)
(* the conversion of an object into a message.                             *)
(*                                                                         *)
(* A value is a pair of its variant's name and its payload.  A float is    *)
(* <<"fin", ten times its value>>, <<"nan", 0>> or <<"inf", 0>>; an        *)
(* element of a tensor, an f32, is that of its shortest decimal.           *)
(***************************************************************************)
EXTENDS Messages

Unit == <<"Unit", 0>>
Boolean(b) == <<"Boolean", b>>
Integer(i) == <<"Integer", i>>
Number(f) == <<"Number", f>>
String(s) == <<"String", s>>
Image(s) == <<"Image", s>>
Array(s) == <<"Array", s>>
Object(f) == <<"Object", f>>
Tensor(s) == <<"Tensor", s>>
Msg(m) == <<"Message", m>>
Error == <<"Error", 0>>

Fin(tenths) == <<"fin", tenths>>
NaN == <<"nan", 0>>
Inf == <<"inf", 0>>

(* `as f64`: the f32 that prints as 0.1 becomes 0.10000000149011612, for   *)
(* which Fin(2) stands.                                                    *)
Widened(e) == IF e = Fin(1) THEN Fin(2) ELSE e

-----------------------------------------------------------------------------
(* Rust's parsing and printing of texts, for the few that occur.           *)
BoolTexts == (<<"true">> :> TRUE) @@ (<<"false">> :> FALSE)
IntTexts ==
    (<<"0">> :> 0) @@ (<<"1">> :> 1) @@ (<<"2">> :> 2) @@ (<<"3">> :> 3) @@ (<<"max">> :> MaxI64)
FloatTexts ==
    (<<"0">> :> Fin(0)) @@ (<<"0.1">> :> Fin(1)) @@ (<<"0.10000000149011612">> :> Fin(2))
    @@ (<<"0.5">> :> Fin(5)) @@ (<<"1">> :> Fin(10)) @@ (<<"2">> :> Fin(20)) @@ (<<"3">> :> Fin(30))
    @@ (<<"max">> :> Fin(10 * MaxI64)) @@ (<<"2^63">> :> Fin(10 * MaxI64))
    @@ (<<"NaN">> :> NaN) @@ (<<"inf">> :> Inf)

(* i64::MAX as a float is 2^63, and prints like it. *)
ShownFloats == [s \in DOMAIN FloatTexts \ {<<"max">>} |-> FloatTexts[s]]

Parse(table, s) == IF s \in DOMAIN table THEN <<table[s]>> ELSE <<>>
Show(table, x) == CHOOSE s \in DOMAIN table : table[s] = x

(* `as i64` truncates, saturates and turns NaN into 0. *)
AsI64(f) == CASE f = NaN -> 0
              [] f = Inf -> MaxI64
              [] OTHER -> IF f[2] \div 10 > MaxI64 THEN MaxI64 ELSE f[2] \div 10
AsF64(i) == Fin(10 * i)

-----------------------------------------------------------------------------
(* JSON *)

JFloat(f) == <<"float", f>>

(* to_json of a number. *)
NumberToJson(f) == IF Is(f, "fin") THEN JFloat(f) ELSE JNull

(* to_json; a float that JSON has no form for becomes null, and 0 in a     *)
(* tensor, whose elements are widened.                                     *)
RECURSIVE ToJson(_)
ToJson(v) ==
    CASE v[1] \in {"Unit", "Error"} -> JNull
      [] Is(v, "Boolean") -> JBool(v[2])
      [] Is(v, "Integer") -> JInt(v[2])
      [] Is(v, "Number") -> NumberToJson(v[2])
      [] Is(v, "String") -> JStr(v[2])
      [] Is(v, "Image") -> JStr(GetBase64(v[2]))
      [] Is(v, "Array") -> JArr([i \in DOMAIN v[2] |-> ToJson(v[2][i])])
      [] Is(v, "Object") -> JObj([k \in DOMAIN v[2] |-> ToJson(v[2][k])])
      [] Is(v, "Tensor") -> JArr([i \in DOMAIN v[2] |->
                                     IF Is(v[2][i], "fin") THEN JFloat(Widened(v[2][i])) ELSE JInt(0)])
      [] Is(v, "Message") -> Serialize(v[2])

(* Serialize for AgentValue, as serde_json writes it into text: an f32 by  *)
(* its own shortest decimal.                                               *)
RECURSIVE SerializeValue(_)
SerializeValue(v) ==
    CASE v[1] \in {"Unit", "Error"} -> JNull
      [] Is(v, "Boolean") -> JBool(v[2])
      [] Is(v, "Integer") -> JInt(v[2])
      [] Is(v, "Number") -> IF Is(v[2], "fin") THEN JFloat(v[2]) ELSE JNull
      [] Is(v, "String") -> JStr(v[2])
      [] Is(v, "Image") -> JStr(GetBase64(v[2]))
      [] Is(v, "Array") -> JArr([i \in DOMAIN v[2] |-> SerializeValue(v[2][i])])
      [] Is(v, "Object") -> JObj([k \in DOMAIN v[2] |-> SerializeValue(v[2][k])])
      [] Is(v, "Tensor") -> JArr([i \in DOMAIN v[2] |->
                                     IF Is(v[2][i], "fin") THEN JFloat(v[2][i]) ELSE JNull])
      [] Is(v, "Message") -> Serialize(v[2])

(* Variant: every number is read as a float. *)
NumberFromJsonFloat(i) == Number(AsF64(i))

(* A whole number is an Integer if it fits in an i64. *)
NumberFromJson(i) == IF i <= MaxI64 THEN Integer(i) ELSE Number(AsF64(i))

(* from_json: a string that starts like an encoded image is an Image.      *)
RECURSIVE FromJson(_)
FromJson(j) ==
    CASE Is(j, "null") -> Unit
      [] Is(j, "bool") -> Boolean(j[2])
      [] Is(j, "int") -> NumberFromJson(j[2])
      [] Is(j, "float") -> Number(j[2])
      [] Is(j, "str") -> IF IsDataUrl(j[2]) THEN Image(NewFromBase64(Stripped(j[2]))[1])
                         ELSE String(j[2])
      [] Is(j, "arr") -> Array([i \in DOMAIN j[2] |-> FromJson(j[2][i])])
      [] Is(j, "obj") -> Object([k \in DOMAIN j[2] |-> FromJson(j[2][k])])

(* What a value saved in a preset is when the preset is opened again. *)
Reload(v) == FromJson(SerializeValue(v))

-----------------------------------------------------------------------------
(* as_bool, as_i64, as_f64, as_str, as_array, as_object: the readings that *)
(* the getters of values, objects and configs use.                         *)
AsBool(v) == IF Is(v, "Boolean") THEN <<v[2]>> ELSE <<>>
AsInt(v) == CASE Is(v, "Integer") -> <<v[2]>> [] Is(v, "Number") -> <<AsI64(v[2])>> [] OTHER -> <<>>
AsNumber(v) == CASE Is(v, "Integer") -> <<AsF64(v[2])>> [] Is(v, "Number") -> <<v[2]>> [] OTHER -> <<>>
AsStr(v) == IF Is(v, "String") THEN <<v[2]>> ELSE <<>>
AsArray(v) == IF Is(v, "Array") THEN <<v[2]>> ELSE <<>>
AsObject(v) == IF Is(v, "Object") THEN <<v[2]>> ELSE <<>>

(* get and set by key work on objects only. *)
Get(v, k) == IF Is(v, "Object") /\ k \in DOMAIN v[2] THEN <<v[2][k]>> ELSE <<>>
Set(v, k, w) == IF Is(v, "Object") THEN <<Object((k :> w) @@ v[2])>> ELSE <<>>

(* get(key).and_then(read), with or without a default: the getters of      *)
(* objects and of AgentConfigs.  Images, tensors and messages are read as  *)
(* what they are.                                                          *)
Read(type, v) ==
    CASE type = "bool" -> AsBool(v)
      [] type = "i64" -> AsInt(v)
      [] type = "f64" -> AsNumber(v)
      [] type = "str" -> AsStr(v)
      [] type = "array" -> AsArray(v)
      [] type = "object" -> AsObject(v)
      [] OTHER -> IF Is(v, type) THEN <<v[2]>> ELSE <<>>
GetAs(v, k, type) == IF Get(v, k) = <<>> THEN <<>> ELSE Read(type, Get(v, k)[1])
GetOr(v, k, type, d) == OrElse(GetAs(v, k, type), d)

-----------------------------------------------------------------------------
(* Casts of a single value: to_boolean, to_integer, to_number, to_string.  *)
ToBoolean(v) ==
    CASE Is(v, "Boolean") -> <<v[2]>>
      [] Is(v, "Integer") -> <<v[2] # 0>>
      [] Is(v, "Number") -> <<v[2] # Fin(0)>>
      [] Is(v, "String") -> Parse(BoolTexts, v[2])
      [] OTHER -> <<>>

ToInteger(v) ==
    CASE Is(v, "Integer") -> <<v[2]>>
      [] Is(v, "Boolean") -> <<IF v[2] THEN 1 ELSE 0>>
      [] Is(v, "Number") -> <<AsI64(v[2])>>
      [] Is(v, "String") -> Parse(IntTexts, v[2])
      [] OTHER -> <<>>

ToNumber(v) ==
    CASE Is(v, "Number") -> <<v[2]>>
      [] Is(v, "Boolean") -> <<IF v[2] THEN Fin(10) ELSE Fin(0)>>
      [] Is(v, "Integer") -> <<AsF64(v[2])>>
      [] Is(v, "String") -> Parse(FloatTexts, v[2])
      [] OTHER -> <<>>

ToText(v) ==
    CASE Is(v, "String") -> <<v[2]>>
      [] Is(v, "Boolean") -> <<Show(BoolTexts, v[2])>>
      [] Is(v, "Integer") -> <<Show(IntTexts, v[2])>>
      [] Is(v, "Number") -> <<Show(ShownFloats, v[2])>>
      [] Is(v, "Message") -> <<ContentText(v[2].content)>>
      [] OTHER -> <<>>

(* One element of `tool_calls` of an object: the id is read beside         *)
(* `function`, and parse_error not at all.                                 *)
CallFromValue(v) ==
    LET f == OrElse(Get(v, "function"), Unit) IN
    IF GetAs(f, "name", "str") = <<>> \/ Get(f, "parameters") = <<>> THEN <<>>
    ELSE <<ToolCall(GetAs(v, "id", "str"), GetAs(f, "name", "str")[1],
                    ToJson(Get(f, "parameters")[1]), <<>>)>>

CallsFromValue(v) ==
    IF AsArray(v) = <<>> THEN <<>> ELSE Collect([i \in DOMAIN v[2] |-> CallFromValue(v[2][i])])

(* The thinking field of old messages. *)
LegacyThinking(v) == GetAs(v, "thinking", "str")

(* TryFrom<AgentValue> for Message, of an object. *)
MessageFromObject(v) ==
    LET content == IF Get(v, "content") = <<>> \/ Get(v, "content")[1][1] \notin {"String", "Array"}
                   THEN <<>> ELSE ContentFromJson(ToJson(Get(v, "content")[1]))
        calls == MapOpt(CallsFromValue, Get(v, "tool_calls"))
        image == IF Get(v, "image") = <<>> THEN <<>>
                 ELSE CASE Is(Get(v, "image")[1], "String") ->
                              <<NewFromBase64(Stripped(Get(v, "image")[1][2]))>>
                        [] Is(Get(v, "image")[1], "Image") -> <<<<Get(v, "image")[1][2]>>>>
                        [] OTHER -> <<>> IN
    IF \/ content = <<>>
       \/ image = <<<<>>>>
       \/ calls = <<<<>>>>
       \/ Get(v, "tool_name") # <<>> /\ GetAs(v, "tool_name", "str") = <<>>
    THEN <<>>
    ELSE <<[id |-> GetAs(v, "id", "str"),
            role |-> GetOr(v, "role", "str", <<"user">>),
            content |-> WithLegacyThinking(content[1], LegacyThinking(v)),
            tokens |-> <<>>,
            streaming |-> GetOr(v, "streaming", "bool", FALSE),
            tool_calls |-> IF calls = <<>> THEN <<>> ELSE calls[1],
            tool_name |-> GetAs(v, "tool_name", "str"),
            is_error |-> GetAs(v, "is_error", "bool"),
            stop_reason |-> GetAs(v, "stop_reason", "str"),
            usage |-> IF Get(v, "usage") # <<>> /\ Is(Get(v, "usage")[1], "Integer")
                      THEN <<Get(v, "usage")[1][2]>> ELSE <<>>,
            image |-> OrElse(image, <<>>)]>>

(* TryFrom<AgentValue> for Message *)
ToMessage(v) ==
    CASE Is(v, "Message") -> <<v[2]>>
      [] Is(v, "String") -> <<NewMessage(<<"user">>, v[2])>>
      [] Is(v, "Image") -> <<[NewMessage(<<"user">>, <<>>) EXCEPT !.image = <<v[2]>>]>>
      [] Is(v, "Object") -> MessageFromObject(v)
      [] OTHER -> <<>>

(* MessageEvent: the field that holds the message, for each type of event, *)
(* and TryFrom<MessageEvent> for AgentValue.                               *)
EventBody ==
    [t \in {"start", "text_delta", "thinking_delta", "tool_call_start", "tool_call_delta",
            "tool_call_end"} |-> "partial"]
    @@ [t \in {"done", "error"} |-> "message"]

EventValue(type, m) ==
    LET when(types, j) == IF type \in types THEN <<j>> ELSE <<>> IN
    FromJson(JObj(
        ("type" :> JStr(<<type>>)) @@ (EventBody[type] :> Serialize(m))
        @@ Entry("delta", when({"text_delta", "thinking_delta", "tool_call_delta"}, JStr(<<"d">>)))
        @@ Entry("index", when({"tool_call_start", "tool_call_delta", "tool_call_end"}, JInt(0)))
        @@ Entry("tool_call", when({"tool_call_end"},
                                   CallJson(ToolCall(<<<<"c">>>>, <<"f">>, JNull, <<>>))))
        @@ Entry("error", when({"error"}, JStr(<<"e">>)))))

Variants == {"Boolean", "Integer", "Number", "String", "Message"}

CastOne(t, v) ==
    LET o == CASE t = "Boolean" -> ToBoolean(v)
               [] t = "Integer" -> ToInteger(v)
               [] t = "Number" -> ToNumber(v)
               [] t = "String" -> ToText(v)
               [] t = "Message" -> ToMessage(v) IN
    IF o = <<>> THEN <<>> ELSE <<<<t, o[1]>>>>

(* to_boolean_value and its siblings: an array is cast element by element, *)
(* all or nothing; one whose elements all have the type stays as it is.    *)
RECURSIVE Cast(_, _)
Cast(t, v) ==
    CASE Is(v, t) -> <<v>>
      [] Is(v, "Array") ->
            IF \A i \in DOMAIN v[2] : Is(v[2][i], t) THEN <<v>>
            ELSE MapOpt(Array, Collect([i \in DOMAIN v[2] |-> Cast(t, v[2][i])]))
      [] OTHER -> CastOne(t, v)

(* PartialEq: an error equals nothing, messages are compared by id, role   *)
(* and content, NaN is not equal to itself.                                *)
RECURSIVE ValueEq(_, _)
ValueEq(v, w) ==
    /\ v[1] = w[1]
    /\ CASE Is(v, "Error") -> FALSE
         [] Is(v, "Number") -> v[2] = w[2] /\ v[2] # NaN
         [] Is(v, "Tensor") -> v[2] = w[2] /\ \A i \in DOMAIN v[2] : v[2][i] # NaN
         [] Is(v, "Message") -> v[2].id = w[2].id /\ v[2].role = w[2].role
                                /\ v[2].content = w[2].content
         [] v[1] \in {"Array", "Object"} ->
               DOMAIN v[2] = DOMAIN w[2] /\ \A i \in DOMAIN v[2] : ValueEq(v[2][i], w[2][i])
         [] OTHER -> v[2] = w[2]

-----------------------------------------------------------------------------
(* tool_result_content: a tool's answer as the content of its result; the  *)
(* JSON text is one word.                                                  *)
JsonText(j) == <<IF Is(j, "str") THEN "quoted" ELSE j[1]>>

(* image_block: the data URL without its prefix. *)
ImageData(img) == ImageBlock(Stripped(GetBase64(img)))

ToolResultContent(v) ==
    CASE Is(v, "Image") -> Blocks(<<ImageData(v[2])>>)
      [] Is(v, "Array") /\ \E i \in DOMAIN v[2] : Is(v[2][i], "Image") ->
            Blocks([i \in DOMAIN v[2] |-> IF Is(v[2][i], "Image") THEN ImageData(v[2][i][2])
                                          ELSE TextBlock(JsonText(ToJson(v[2][i])))])
      [] OTHER -> TextContent(JsonText(ToJson(v)))
=============================================================================
