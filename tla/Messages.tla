------------------------------ MODULE Messages ------------------------------
(***************************************************************************)
(* LLM messages and their JSON form.                                       *)
(*                                                                         *)
(* A text is a sequence of words, so that texts can be joined; an Option   *)
(* is <<>> or <<x>>, and so is a Result whose error is not told apart.     *)
(* JSON values are <<"null", 0>>, <<"bool", b>>, <<"int", i>>, <<"float",  *)
(* f>>, <<"str", text>>, <<"arr", sequence>> and <<"obj", function from    *)
(* keys>>.                                                                 *)
(***************************************************************************)
EXTENDS Integers, Sequences, SequencesExt

CONSTANT MaxI64    \* stands for i64::MAX

JNull == <<"null", 0>>
JBool(b) == <<"bool", b>>
JInt(i) == <<"int", i>>
JStr(s) == <<"str", s>>
JArr(s) == <<"arr", s>>
JObj(f) == <<"obj", f>>
EmptyObj == [k \in {} |-> 0]

Is(j, tag) == j[1] = tag
Has(j, k) == Is(j, "obj") /\ k \in DOMAIN j[2]
Field(j, k) == j[2][k]

(* get(key).and_then(as_...): the payload of a field of the right type. *)
Opt(j, k, tag) == IF Has(j, k) /\ Is(Field(j, k), tag) THEN <<Field(j, k)[2]>> ELSE <<>>
OrElse(o, d) == IF o = <<>> THEN d ELSE o[1]

(* A derived Option field is absent, null or of its type. *)
Fits(j, k, tag) == Has(j, k) => Is(Field(j, k), tag) \/ Is(Field(j, k), "null")

(* The entries of an object under construction: those whose value is Some. *)
Entry(k, o) == IF o = <<>> THEN EmptyObj ELSE k :> o[1]
MapOpt(Op(_), o) == IF o = <<>> THEN <<>> ELSE <<Op(o[1])>>

(* collect::<Result<_, _>>: all elements or nothing. *)
Collect(s) ==
    IF \E i \in DOMAIN s : s[i] = <<>> THEN <<>> ELSE <<[i \in DOMAIN s |-> s[i][1]]>>

-----------------------------------------------------------------------------
(* Content *)

TextBlock(t) == [type |-> "text", text |-> t]
Thinking(t, sig, red) == [type |-> "thinking", text |-> t, signature |-> sig, redacted |-> red]
ImageBlock(d) == [type |-> "image", text |-> d]
IsText(b) == b.type = "text"

TextContent(t) == <<"Text", t>>
Blocks(bs) == <<"Blocks", bs>>

(* MessageContent::text *)
ContentText(content) ==
    IF Is(content, "Text") THEN content[2]
    ELSE FlattenSeq([i \in DOMAIN SelectSeq(content[2], IsText) |->
                        SelectSeq(content[2], IsText)[i].text])

(* Message::thinking: the parts joined with a newline, redacted ones as a  *)
(* placeholder.                                                            *)
ThinkingText(content) ==
    LET parts == IF Is(content, "Text") THEN <<>>
                 ELSE SelectSeq(content[2], LAMBDA b : b.type = "thinking")
        shown(b) == IF b.redacted THEN <<"[redacted]">> ELSE b.text IN
    IF parts = <<>> THEN <<>>
    ELSE <<FlattenSeq([i \in DOMAIN parts |-> (IF i = 1 THEN <<>> ELSE <<"nl">>) \o shown(parts[i])])>>

(* absorb_legacy_thinking *)
AbsorbLegacyThinking(content, thinking) ==
    Blocks(<<Thinking(thinking, <<>>, FALSE)>>
           \o (IF Is(content, "Blocks") THEN content[2]
               ELSE IF content[2] = <<>> THEN <<>> ELSE <<TextBlock(content[2])>>))

-----------------------------------------------------------------------------
(* An image is the base64 of its PNG; get_base64 puts a prefix in front.   *)
(* new_from_base64 takes base64 only and panics on all else; <<>> stands   *)
(* for that.                                                               *)
Pixels == <<"px">>
DataUrlPrefix == "data:image/png;base64,"
GetBase64(img) == <<DataUrlPrefix>> \o img
NewFromBase64(text) == IF text = Pixels THEN <<text>> ELSE <<>>
IsDataUrl(text) == text # <<>> /\ Head(text) = DataUrlPrefix
Stripped(text) == IF IsDataUrl(text) THEN Tail(text) ELSE text

-----------------------------------------------------------------------------
(* Messages.  `usage` is the sum of its four counts.                       *)

NewMessage(role, text) ==
    [id |-> <<>>, role |-> role, content |-> TextContent(text), tokens |-> <<>>,
     streaming |-> FALSE, tool_calls |-> <<>>, tool_name |-> <<>>, is_error |-> <<>>,
     stop_reason |-> <<>>, usage |-> <<>>, image |-> <<>>]

ToolMessage(name, content) ==
    [NewMessage(<<"tool">>, <<>>) EXCEPT !.content = content, !.tool_name = <<name>>]

ToolCall(id, name, parameters, parse_error) ==
    [id |-> id, name |-> name, parameters |-> parameters, parse_error |-> parse_error]

(* serde's derived form of a block and of a call. *)
BlockJson(b) ==
    JObj(("type" :> JStr(<<b.type>>)) @@
         (CASE b.type = "text" -> "text" :> JStr(b.text)
            [] b.type = "image" -> "data" :> JStr(b.text)
            [] OTHER -> ("thinking" :> JStr(b.text)) @@ Entry("signature", MapOpt(JStr, b.signature))
                        @@ Entry("redacted", IF b.redacted THEN <<JBool(TRUE)>> ELSE <<>>)))

CallJson(c) ==
    JObj("function" :> JObj(("name" :> JStr(c.name)) @@ ("parameters" :> c.parameters)
                            @@ Entry("id", MapOpt(JStr, c.id))
                            @@ Entry("parse_error", MapOpt(JStr, c.parse_error))))

(* Variant: blocks are always flattened. *)
ContentJsonFlat(content) == JStr(ContentText(content))

(* Content that is only text is written as a string. *)
ContentJson(content) ==
    IF Is(content, "Text") \/ \A i \in DOMAIN content[2] : IsText(content[2][i])
    THEN JStr(ContentText(content))
    ELSE JArr([i \in DOMAIN content[2] |-> BlockJson(content[2][i])])

(* Serialize for Message *)
Serialize(m) ==
    JObj(Entry("id", MapOpt(JStr, m.id))
         @@ ("role" :> JStr(m.role))
         @@ ("content" :> ContentJson(m.content))
         @@ Entry("tokens", MapOpt(JInt, m.tokens))
         @@ Entry("streaming", IF m.streaming THEN <<JBool(TRUE)>> ELSE <<>>)
         @@ Entry("tool_calls", MapOpt(LAMBDA cs : JArr([i \in DOMAIN cs |-> CallJson(cs[i])]),
                                       m.tool_calls))
         @@ Entry("tool_name", MapOpt(JStr, m.tool_name))
         @@ Entry("is_error", MapOpt(JBool, m.is_error))
         @@ Entry("stop_reason", MapOpt(JStr, m.stop_reason))
         @@ Entry("usage", MapOpt(JInt, m.usage))
         @@ Entry("image", MapOpt(LAMBDA img : JStr(GetBase64(img)), m.image)))

BlockFromJson(j) ==
    CASE Opt(j, "type", "str") = <<<<"text">>>> /\ Opt(j, "text", "str") # <<>> ->
            <<TextBlock(Opt(j, "text", "str")[1])>>
      [] Opt(j, "type", "str") = <<<<"image">>>> /\ Opt(j, "data", "str") # <<>> ->
            <<ImageBlock(Opt(j, "data", "str")[1])>>
      [] Opt(j, "type", "str") = <<<<"thinking">>>> /\ Opt(j, "thinking", "str") # <<>>
            /\ Fits(j, "signature", "str")
            /\ (Has(j, "redacted") => Is(Field(j, "redacted"), "bool")) ->
            <<Thinking(Opt(j, "thinking", "str")[1], Opt(j, "signature", "str"),
                       OrElse(Opt(j, "redacted", "bool"), FALSE))>>
      [] OTHER -> <<>>

(* The content of a message from a string or an array of blocks. *)
ContentFromJson(j) ==
    CASE Is(j, "str") -> <<TextContent(j[2])>>
      [] Is(j, "arr") -> MapOpt(Blocks, Collect([i \in DOMAIN j[2] |-> BlockFromJson(j[2][i])]))
      [] OTHER -> <<>>

CallFromJson(j) ==
    LET f == IF Has(j, "function") THEN Field(j, "function") ELSE JNull IN
    IF \/ Opt(f, "name", "str") = <<>>
       \/ ~Has(f, "parameters")
       \/ ~Fits(f, "id", "str")
       \/ ~Fits(f, "parse_error", "str")
    THEN <<>>
    ELSE <<ToolCall(Opt(f, "id", "str"), Opt(f, "name", "str")[1], Field(f, "parameters"),
                    Opt(f, "parse_error", "str"))>>

CallsFromJson(j) ==
    IF Is(j, "arr") THEN Collect([i \in DOMAIN j[2] |-> CallFromJson(j[2][i])]) ELSE <<>>

WithLegacyThinking(content, thinking) ==
    IF thinking = <<>> THEN content ELSE AbsorbLegacyThinking(content, thinking[1])

(* Deserialize for Message.  What is missing has its default; a role, an   *)
(* image, a content or a tool call of the wrong shape fails the message,   *)
(* any other field of the wrong type is dropped.  The image is decoded as  *)
(* it stands, prefix and all.                                              *)
Deserialize(j) ==
    LET content == IF Has(j, "content") THEN ContentFromJson(Field(j, "content"))
                   ELSE <<TextContent(<<>>)>>
        calls == IF Has(j, "tool_calls") THEN <<CallsFromJson(Field(j, "tool_calls"))>> ELSE <<>>
        image == MapOpt(NewFromBase64, Opt(j, "image", "str")) IN
    IF \/ Has(j, "role") /\ Opt(j, "role", "str") = <<>>
       \/ Has(j, "image") /\ image \in {<<>>, <<<<>>>>}
       \/ content = <<>>
       \/ calls = <<<<>>>>
    THEN <<>>
    ELSE <<[id |-> Opt(j, "id", "str"),
            role |-> OrElse(Opt(j, "role", "str"), <<"user">>),
            content |-> WithLegacyThinking(content[1], Opt(j, "thinking", "str")),
            tokens |-> Opt(j, "tokens", "int"),
            streaming |-> OrElse(Opt(j, "streaming", "bool"), FALSE),
            tool_calls |-> IF calls = <<>> THEN <<>> ELSE calls[1],
            tool_name |-> Opt(j, "tool_name", "str"),
            is_error |-> Opt(j, "is_error", "bool"),
            stop_reason |-> Opt(j, "stop_reason", "str"),
            usage |-> Opt(j, "usage", "int"),
            image |-> OrElse(image, <<>>)]>>

-----------------------------------------------------------------------------
(* Token estimates.  A word stands for four characters, an image costs     *)
(* ImageTokens.                                                            *)
ImageTokens == 2

(* estimate_message_tokens *)
MessageTokens(m) ==
    LET size(b) == IF b.type = "image" THEN ImageTokens ELSE Len(b.text)
        sizes == IF Is(m.content, "Text") THEN <<Len(m.content[2])>>
                 ELSE [i \in DOMAIN m.content[2] |-> size(m.content[2][i])]
        calls == OrElse(m.tool_calls, <<>>) IN
    FoldSeq(LAMBDA a, b : a + b, 0, sizes \o [i \in DOMAIN calls |-> Len(calls[i].name) + 1])
    + (IF m.image = <<>> THEN 0 ELSE ImageTokens)

(* estimate_context_tokens: the latest assistant message with a usage      *)
(* accounts for everything up to it.                                       *)
ContextTokens(ms) ==
    LET anchors == {i \in DOMAIN ms : ms[i].role = <<"assistant">> /\ ms[i].usage # <<>>}
        anchor == CHOOSE i \in anchors : \A k \in anchors : k <= i
        rest == IF anchors = {} THEN ms ELSE SubSeq(ms, anchor + 1, Len(ms)) IN
    (IF anchors = {} THEN 0 ELSE ms[anchor].usage[1])
    + FoldSeq(LAMBDA a, b : a + b, 0, [i \in DOMAIN rest |-> MessageTokens(rest[i])])
=============================================================================
