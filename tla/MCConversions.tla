--------------------------- MODULE MCConversions ---------------------------
(* Sample values and schemas for Conversions. *)
EXTENDS Conversions

ImageText == GetBase64(Pixels)

Words == {<<"txt">>, <<"true">>, <<"1">>, <<"0.5">>, <<"NaN">>, <<>>, ImageText}

Scalars ==
    {Unit, Error, Boolean(TRUE), Boolean(FALSE), Integer(0), Integer(1), Integer(MaxI64),
     Number(Fin(0)), Number(Fin(1)), Number(Fin(5)), Number(Fin(10)), Number(NaN), Number(Inf),
     Image(Pixels), Tensor(<<Fin(1)>>), Tensor(<<Fin(5)>>), Tensor(<<Fin(10), NaN>>)}
    \cup {String(w) : w \in Words}

User == NewMessage(<<"user">>, <<"txt">>)
Bot == [NewMessage(<<"assistant">>, <<"txt", "more">>) EXCEPT !.usage = <<3>>, !.tokens = <<2>>,
           !.stop_reason = <<<<"stop">>>>, !.id = <<<<"m1">>>>]

MessageSamples == {
    User, Bot,
    NewMessage(<<"user">>, ImageText),
    [User EXCEPT !.content = Blocks(<<TextBlock(<<"a">>), TextBlock(<<"b">>)>>), !.streaming = TRUE],
    [Bot EXCEPT !.content = Blocks(<<Thinking(<<"t">>, <<<<"sig">>>>, FALSE), TextBlock(<<"a">>)>>)],
    [Bot EXCEPT !.content = Blocks(<<Thinking(<<"t">>, <<>>, TRUE), Thinking(<<"u">>, <<>>, FALSE),
                                     ImageBlock(<<"px">>)>>)],
    [Bot EXCEPT !.content = Blocks(<<>>), !.usage = <<>>],
    [Bot EXCEPT !.tool_calls = <<<<ToolCall(<<<<"c1">>>>, <<"f">>, JObj("x" :> JInt(1)), <<>>),
                                   ToolCall(<<>>, <<"f">>, JNull, <<<<"bad">>>>)>>>>],
    [User EXCEPT !.role = <<"tool">>, !.tool_name = <<<<"f">>>>, !.is_error = <<TRUE>>],
    [User EXCEPT !.image = <<Pixels>>]}

(* Objects that are messages, or nearly so: the old form with a thinking   *)
(* field, fields of the wrong type, a call with its id in the other place. *)
S(t) == String(<<t>>)
ObjectSamples == {
    Object(EmptyObj),
    Object("x" :> S("1")),
    Object(("content" :> S("txt")) @@ ("thinking" :> S("t"))),
    Object(("content" :> String(<<>>)) @@ ("thinking" :> S("t")) @@ ("role" :> S("assistant"))),
    Object(("content" :> S("txt")) @@ ("role" :> Integer(1)) @@ ("usage" :> Integer(2))),
    Object(("content" :> S("txt")) @@ ("usage" :> S("bad")) @@ ("streaming" :> Boolean(TRUE))),
    Object(("content" :> Integer(1)) @@ ("role" :> S("user"))),
    Object(("content" :> S("txt")) @@ ("tool_name" :> Integer(1))),
    Object(("content" :> Array(<<Object(("type" :> S("text")) @@ ("text" :> S("a")))>>))
           @@ ("thinking" :> S("t"))),
    Object(("content" :> Array(<<Object(("type" :> S("thinking")) @@ ("thinking" :> S("a")))>>))
           @@ ("thinking" :> S("t")) @@ ("id" :> S("m1"))),
    Object(("content" :> Array(<<Integer(1)>>))),
    Object(("content" :> S("txt"))
           @@ ("tool_calls" :> Array(<<Object(("id" :> S("c1"))
                 @@ ("function" :> Object(("name" :> S("f")) @@ ("parameters" :> Unit))))>>))),
    Object(("content" :> S("txt")) @@ ("tool_calls" :> Integer(1))),
    Object(("content" :> S("txt")) @@ ("image" :> String(Pixels))),
    Object(("content" :> S("txt")) @@ ("image" :> String(ImageText)))}

ArraySamples ==
    {Array(<<a, b>>) : a, b \in {Integer(1), Number(Fin(5)), S("1"), S("txt"), Boolean(TRUE), Image(Pixels)}}
    \cup {Array(<<>>), Array(<<Array(<<Integer(1)>>), Array(<<S("0.5"), Error>>)>>),
          Array(<<Array(<<S("1")>>), Integer(0)>>), Array(<<Msg(User), S("txt")>>),
          Object("x" :> Array(<<S("true"), S("1")>>)), Object("x" :> Tensor(<<Inf>>))}

SampleValues == Scalars \cup {Msg(m) : m \in MessageSamples} \cup ObjectSamples \cup ArraySamples

SampleFields == {Integer(1), Number(Fin(5)), Boolean(TRUE), S("1")}

Pair(a, b) == <<TypeSchema(a), TypeSchema(b)>>
SampleSchemas == {
    AnySchema, TypeSchema("broken"),
    TypeSchema("integer"), TypeSchema("number"), TypeSchema("boolean"), TypeSchema("string"),
    [AnySchema EXCEPT !.anyOf = Pair("integer", "boolean")],
    [AnySchema EXCEPT !.anyOf = Pair("string", "integer"), !.oneOf = Pair("number", "boolean")],
    [AnySchema EXCEPT !.oneOf = Pair("number", "boolean")],
    [AnySchema EXCEPT !.type = "number", !.oneOf = Pair("integer", "boolean")],
    [AnySchema EXCEPT !.type = "array", !.items = <<TypeSchema("number")>>],
    [AnySchema EXCEPT !.type = "object", !.properties = ("x" :> TypeSchema("integer"))],
    [AnySchema EXCEPT !.properties =
        ("x" :> [AnySchema EXCEPT !.items = <<[AnySchema EXCEPT !.anyOf = Pair("boolean", "integer")]>>])]}
=============================================================================
