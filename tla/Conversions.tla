---------------------------- MODULE Conversions ----------------------------
(***************************************************************************)
(* A value on its way through agents: it is cast, saved and opened again,  *)
(* read as a message, returned by a tool or passed as its arguments, in    *)
(* any order.                                                              *)
(***************************************************************************)
EXTENDS ToolArgs

CONSTANTS
    Samples,    \* values the way starts with
    Schemas,    \* parameter schemas of tools
    FieldValues \* values that agents set in objects

VARIABLE value

ConversionsInit == value \in Samples

SaveAndOpen == value' = Reload(value)

CastTo(t) == Cast(t, value) # <<>> /\ value' = Cast(t, value)[1]

(* A tool takes the value as its arguments. *)
PassAsArguments(s) ==
    LET call == ToolCall(<<>>, <<"tool">>, ToJson(value), <<>>) IN
    ToolArguments(call, s) # <<>> /\ value' = ToolArguments(call, s)[1]

(* A tool returns the value, and its result becomes a message. *)
ReturnFromTool == value' = Msg(ToolMessage(<<"tool">>, ToolResultContent(value)))

(* A provider sends the message in an event, and an agent takes it out.    *)
SendInEvent(type) == Is(value, "Message") /\ value' = EventValue(type, value[2])
TakeFromEvent ==
    \E type \in DOMAIN EventBody :
        /\ Get(value, "type") = <<String(<<type>>)>>
        /\ value' = Get(value, EventBody[type])[1]

(* An agent sets a key of an object. *)
SetKey(k, v) == Set(value, k, v) # <<>> /\ value' = Set(value, k, v)[1]

ConversionsNext ==
    \/ SaveAndOpen
    \/ \E t \in Variants : CastTo(t)
    \/ \E s \in Schemas : PassAsArguments(s)
    \/ ReturnFromTool
    \/ \E type \in DOMAIN EventBody : SendInEvent(type)
    \/ TakeFromEvent
    \/ \E v \in FieldValues : SetKey("x", v)

ConversionsSpec == ConversionsInit /\ [][ConversionsNext]_value

-----------------------------------------------------------------------------
RECURSIVE Plain(_)
Plain(v) ==
    CASE v[1] \in {"Unit", "Boolean", "Integer"} -> TRUE
      [] Is(v, "Number") -> Is(v[2], "fin")
      [] Is(v, "String") -> ~IsDataUrl(v[2])
      [] Is(v, "Image") -> TRUE
      [] v[1] \in {"Array", "Object"} -> \A i \in DOMAIN v[2] : Plain(v[2][i])
      [] OTHER -> FALSE

(* Elements that are finite and print the same as an f32 and as an f64.    *)
RECURSIVE ExactTensors(_)
ExactTensors(v) ==
    CASE Is(v, "Tensor") -> \A i \in DOMAIN v[2] : Is(v[2][i], "fin") /\ Widened(v[2][i]) = v[2][i]
      [] v[1] \in {"Array", "Object"} -> \A i \in DOMAIN v[2] : ExactTensors(v[2][i])
      [] OTHER -> TRUE

(* What a preset keeps of a value does not change by being saved and       *)
(* opened once more, and a value made of JSON's own types is the same      *)
(* after the first time: reopening a preset never alters its configs.      *)
(* to_json, used for ports and tool results, gives the same JSON as the    *)
(* Serialize that writes files, but for tensors: their elements that are   *)
(* not finite, and those that an f64 prints otherwise than an f32.         *)
ReloadStable ==
    /\ Plain(value) => ValueEq(Reload(value), value)
    /\ Reload(Reload(value)) = Reload(value)
    /\ ExactTensors(value) => ToJson(value) = SerializeValue(value)

(* Casting a value twice is casting it once, for arrays of arrays too; a   *)
(* scalar survives being cast to a string and back; and a typed getter     *)
(* that finds a value finds what the cast gives.                           *)
CastsAgree ==
    /\ \A t \in Variants : Cast(t, value) # <<>> => Cast(t, Cast(t, value)[1]) = Cast(t, value)
    /\ \A t \in Variants \ {"String", "Message"} : Is(value, t) =>
          Cast(t, Cast("String", value)[1]) = <<value>>
    /\ \A k \in DOMAIN OrElse(AsObject(value), EmptyObj) :
          LET v == Get(value, k)[1] IN
          /\ GetAs(value, k, "bool") \in {<<>>, ToBoolean(v)}
          /\ GetAs(value, k, "i64") \in {<<>>, ToInteger(v)}
          /\ GetAs(value, k, "f64") \in {<<>>, ToNumber(v)}
          /\ GetAs(value, k, "str") \in {<<>>, ToText(v)}
          /\ GetAs(value, k, "Message") \in {<<>>, ToMessage(v)}

(* What a port keeps of a message, and what writing it changes. *)
ThroughPort(m) ==
    [m EXCEPT !.tokens = <<>>,
              !.tool_calls = MapOpt(LAMBDA cs : [i \in DOMAIN cs |->
                  ToolCall(<<>>, cs[i].name, cs[i].parameters, <<>>)], @)]

Rewritten(m) ==
    [m EXCEPT !.content = IF \A i \in DOMAIN @[2] : Is(@, "Blocks") => IsText(@[2][i])
                          THEN TextContent(ContentText(@)) ELSE @]

(* A message that is read both ways is the same one, old forms with a      *)
(* thinking field included.                                                *)
MessageReadersAgree ==
    LET byFile == Deserialize(ToJson(value))
        byPort == ToMessage(Reload(value)) IN
    Is(value, "Object") /\ byFile # <<>> /\ byPort # <<>> =>
        ThroughPort(byFile[1]) = ThroughPort(byPort[1])

(* A message without an image that is written and read again has the same  *)
(* texts, fields and token estimate; its text-only blocks have become a    *)
(* string.  One with an image cannot be read again.  Read through a port   *)
(* instead, as an object or as the message of an event, each is the same,  *)
(* image included, but for its token count, and for the ids and parse      *)
(* errors of its tool calls; a message whose text looks like an image      *)
(* cannot be read there.  An object that both readers take is one message  *)
(* to both.                                                                *)
MessageSurvives ==
    /\ MessageReadersAgree
    /\ Is(value, "Message") =>
        LET m == value[2] IN
        /\ Deserialize(Serialize(m)) = IF m.image = <<>> THEN <<Rewritten(m)>> ELSE <<>>
        /\ ThinkingText(Rewritten(m).content) = ThinkingText(m.content)
        /\ ContextTokens(<<Rewritten(m), Rewritten(m)>>) = ContextTokens(<<m, m>>)
        /\ ~IsDataUrl(ContentText(m.content)) =>
              /\ ToMessage(FromJson(Serialize(m))) = <<ThroughPort(Rewritten(m))>>
              /\ \A type \in DOMAIN EventBody :
                    ToMessage(Get(EventValue(type, m), EventBody[type])[1])
                        = <<ThroughPort(Rewritten(m))>>

(* Arguments that a tool's schema accepts are not coerced, coercing twice  *)
(* is coercing once, and what validation lets through to from_json is      *)
(* always valid, if the schema compiles.                                   *)
ArgumentsCoercedOnce ==
    \A s \in Schemas :
        LET j == ToJson(value) IN
        /\ Accepts(s, j) => Coerce(j, s) = j
        /\ Coerce(Coerce(j, s), s) = Coerce(j, s)
        /\ s.type # "broken" /\ ValidateToolArgs(s, j) # <<>> => Accepts(s, ValidateToolArgs(s, j)[1])

(* Values are converted once: by casts between types, and by the schema of *)
(* the tool that gets them.                                                *)
CoercionStable == CastsAgree /\ ArgumentsCoercedOnce
=============================================================================
