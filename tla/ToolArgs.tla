------------------------------ MODULE ToolArgs ------------------------------
(***************************************************************************)
(* The arguments of a tool call against the schema of the tool: strings    *)
(* that stand for numbers or booleans are coerced where the schema asks    *)
(* for them, then the arguments are validated.                             *)
(*                                                                         *)
(* A schema is a record of the keywords the coercion looks at: type ("any" *)
(* when absent), anyOf and oneOf (<<>> when absent), properties (a         *)
(* function) and items (<<>> or <<schema>>).  A schema of type "broken"    *)
(* does not compile.                                                       *)
(***************************************************************************)
EXTENDS AgentValues

AnySchema == [type |-> "any", anyOf |-> <<>>, oneOf |-> <<>>, properties |-> EmptyObj, items |-> <<>>]
TypeSchema(t) == [AnySchema EXCEPT !.type = t]

TypeAccepts(t, j) ==
    CASE t = "any" -> TRUE
      [] t = "integer" -> Is(j, "int") \/ (Is(j, "float") /\ j[2][2] % 10 = 0)
      [] t = "number" -> j[1] \in {"int", "float"}
      [] t = "boolean" -> Is(j, "bool")
      [] t = "string" -> Is(j, "str")
      [] t = "array" -> Is(j, "arr")
      [] t = "object" -> Is(j, "obj")
      [] t = "broken" -> FALSE

(* What the jsonschema validator accepts. *)
RECURSIVE Accepts(_, _)
Accepts(s, j) ==
    /\ TypeAccepts(s.type, j)
    /\ s.anyOf # <<>> => \E i \in DOMAIN s.anyOf : Accepts(s.anyOf[i], j)
    /\ s.oneOf # <<>> => \E i \in DOMAIN s.oneOf :
          \A k \in DOMAIN s.oneOf : Accepts(s.oneOf[k], j) <=> k = i
    /\ Is(j, "obj") => \A k \in DOMAIN s.properties \cap DOMAIN j[2] :
          Accepts(s.properties[k], j[2][k])
    /\ Is(j, "arr") /\ s.items # <<>> => \A i \in DOMAIN j[2] : Accepts(s.items[1], j[2][i])

(* Variant: a number that is a string already fits too. *)
CoerceTypeEager(t, j) ==
    CASE t \in {"integer", "any"} /\ Is(j, "str") /\ j[2] \in DOMAIN IntTexts -> JInt(IntTexts[j[2]])
      [] OTHER -> j

(* The coercion of a string by the schema's type. *)
CoerceType(t, j) ==
    CASE t = "integer" /\ Is(j, "str") /\ j[2] \in DOMAIN IntTexts -> JInt(IntTexts[j[2]])
      [] t = "number" /\ Is(j, "str") /\ j[2] \in DOMAIN FloatTexts ->
            IF Is(FloatTexts[j[2]], "fin") THEN JFloat(FloatTexts[j[2]]) ELSE j
      [] t = "boolean" /\ Is(j, "str") /\ j[2] \in DOMAIN BoolTexts -> JBool(BoolTexts[j[2]])
      [] OTHER -> j

(* coerce_by_schema: an alternative of anyOf (or else of oneOf) is tried   *)
(* when none accepts the value as it is, and the first that accepts the    *)
(* coerced value wins; then the type, the properties and the items.        *)
RECURSIVE Coerce(_, _)
Coerce(j, s) ==
    LET variants == IF s.anyOf # <<>> THEN s.anyOf ELSE s.oneOf
        fitting == {i \in DOMAIN variants : Accepts(variants[i], Coerce(j, variants[i]))}
        chosen == CHOOSE i \in fitting : \A k \in fitting : i <= k
        picked == IF (\E i \in DOMAIN variants : Accepts(variants[i], j)) \/ fitting = {}
                  THEN j ELSE Coerce(j, variants[chosen])
        typed == CoerceType(s.type, picked) IN
    CASE Is(typed, "obj") ->
            JObj([k \in DOMAIN typed[2] |->
                     IF k \in DOMAIN s.properties THEN Coerce(typed[2][k], s.properties[k])
                     ELSE typed[2][k]])
      [] Is(typed, "arr") /\ s.items # <<>> ->
            JArr([i \in DOMAIN typed[2] |-> Coerce(typed[2][i], s.items[1])])
      [] OTHER -> typed

(* validate_tool_args: the coerced arguments if they are valid; a schema   *)
(* that does not compile is not applied.                                   *)
ValidateToolArgs(s, j) ==
    CASE s.type = "broken" -> <<j>>
      [] Accepts(s, Coerce(j, s)) -> <<Coerce(j, s)>>
      [] OTHER -> <<>>

(* The arguments execute_tool_call hands to the tool, <<>> when the call   *)
(* is answered with an error instead.                                      *)
ToolArguments(c, s) ==
    IF c.parse_error # <<>> THEN <<>> ELSE MapOpt(FromJson, ValidateToolArgs(s, c.parameters))
=============================================================================
