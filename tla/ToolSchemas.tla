------------------------------ MODULE ToolSchemas ------------------------------
(* A tool's input schema as each provider is told it, the arguments a model writes to *)
(* what it was declared, and the tool that is given them.  A schema is one level of JSON  *)
(* schema: a type, perhaps with null; a union; a reference; properties; items.       *)
(* Descriptions, enums, formats and a tool's output schema are left out; a schema's own  *)
(* $defs are one constant for all.                                                   *)
EXTENDS Naturals, FiniteSets

CONSTANTS
  NoSchema,     \* None
  Vendors,      \* the plugins
  ToolInputs,   \* input schemas of tools
  Definitions   \* $defs: name -> schema

VARIABLES
  vendor,    \* the plugin; never changes
  input,     \* the tool's schema; never changes
  declared,    \* the schema the provider is sent
  arguments, \* what the model wrote, then what the tool is given
  toolCall   \* "new", "told", "written", "given" or "refused"

schemaVars == <<vendor, input, declared, arguments, toolCall>>

OfType(type) == [type |-> type, null |-> FALSE, union |-> {}, ref |-> NoSchema,
                 props |-> <<>>, required |-> {}, items |-> NoSchema]
EmptyObjectSchema == OfType("object")
Typed(s) == s.type # NoSchema
Follow(ref) == IF ref \in DOMAIN Definitions THEN Definitions[ref] ELSE OfType(NoSchema)

(* ------------------------------------ Gemini ------------------------------------ *)

(* _convert_schema_property: references are followed, and what has no type of its own   *)
(* is left out, its name not taken from the required ones.  Only an object has properties, *)
(* only an array items.                                                          *)
RECURSIVE GeminiToolSchema(_)
GeminiToolSchema(s) ==
  IF s.ref # NoSchema THEN GeminiToolSchema(Follow(s.ref))
  ELSE IF ~Typed(s) THEN NoSchema
  ELSE LET kept == {k \in DOMAIN s.props : s.type = "object" /\ GeminiToolSchema(s.props[k]) # NoSchema}
       IN [OfType(s.type) EXCEPT
            !.null = s.null, !.required = s.required,
            !.props = [k \in kept |-> GeminiToolSchema(s.props[k])],
            !.items = IF s.type = "array" /\ s.items # NoSchema THEN GeminiToolSchema(s.items) ELSE NoSchema]

(* A reference to nothing raises, wherever the conversion comes by. *)
RECURSIVE RefsResolve(_)
RefsResolve(s) ==
  IF s.ref # NoSchema THEN s.ref \in DOMAIN Definitions /\ RefsResolve(Definitions[s.ref])
  ELSE /\ s.type = "object" => \A k \in DOMAIN s.props : RefsResolve(s.props[k])
       /\ s.type = "array" /\ s.items # NoSchema => RefsResolve(s.items)

(* _create_tool: a tool without parameters takes an empty object. *)
GeminiTool(s) == IF GeminiToolSchema(s) = NoSchema THEN EmptyObjectSchema ELSE GeminiToolSchema(s)

(* ------------------------------- the other plugins ------------------------------- *)

(* _get_tools_definition: the strict form of the OpenAI library, which requires every    *)
(* property of every object.                                                    *)
RECURSIVE Strict(_)
Strict(s) == [s EXCEPT !.props = [k \in DOMAIN s.props |-> Strict(s.props[k])],
                       !.required = DOMAIN s.props,
                       !.items = IF s.items = NoSchema THEN NoSchema ELSE Strict(s.items)]

(* _to_tool_input_schema *)
AnthropicTool(s) == IF Typed(s) THEN s ELSE [s EXCEPT !.type = "object"]

(* _normalize_tool_schema *)
BedrockTool(s) == IF Typed(s) THEN s ELSE [s EXCEPT !.type = "object"]

(* _property_type: its type, or those of its union, or none. *)
PropertyType(s) ==
  IF Typed(s) THEN [OfType(s.type) EXCEPT !.null = s.null]
  ELSE [OfType(NoSchema) EXCEPT !.union = s.union]

(* _convert_parameters: one level, of an object, or of no schema at all (then no         *)
(* parameters are sent, which a model reads as the empty object); else it raises.        *)
OllamaTakes(s) == (s.type = "object" /\ ~s.null) \/ (~Typed(s) /\ s.props # <<>>) \/ s = OfType(NoSchema)
OllamaTool(s) ==
  [EmptyObjectSchema EXCEPT !.required = s.required,
                            !.props = [k \in DOMAIN s.props |-> PropertyType(s.props[k])]]

(* ----------------------------------- arguments ----------------------------------- *)

Literal(type) == [is |-> type, of |-> <<>>]
Compound(type, parts) == [is |-> type, of |-> parts]

(* What a careful model may write for a schema: every choice of optional properties. *)
RECURSIVE Writings(_)
Writings(s) ==
  (IF s.null THEN {Literal("null")} ELSE {})
  \union
  (IF s.ref # NoSchema THEN Writings(Follow(s.ref))
   ELSE IF s.union # {} THEN {Literal(t) : t \in s.union}
   ELSE IF s.props # <<>>
   THEN UNION {LET all == UNION {Writings(s.props[k]) : k \in keys}
               IN {Compound("object", f) : f \in {f \in [keys -> all] :
                                                    \A k \in keys : f[k] \in Writings(s.props[k])}} :
               keys \in {K \in SUBSET DOMAIN s.props : s.required \cap DOMAIN s.props \subseteq K}}
   ELSE IF s.type = "array" /\ s.items # NoSchema
   THEN {Compound("array", <<v>>) : v \in Writings(s.items)}
   ELSE IF ~Typed(s) THEN {Literal("string"), Literal("integer")}
   ELSE {Literal(s.type)})

(* A tool takes what its schema describes. *)
RECURSIVE Takes(_, _)
Takes(s, v) ==
  \/ s.null /\ v.is = "null"
  \/ s.ref # NoSchema /\ Takes(Follow(s.ref), v)
  \/ v.is \in s.union
  \/ ~Typed(s) /\ s.ref = NoSchema /\ s.union = {} /\ s.props = <<>>
  \/ /\ v.is = (IF Typed(s) THEN s.type ELSE "object")
     /\ s.props # <<>> => /\ s.required \subseteq DOMAIN v.of
                          /\ \A k \in DOMAIN v.of : k \in DOMAIN s.props => Takes(s.props[k], v.of[k])
     /\ v.is = "array" /\ s.items # NoSchema => \A k \in DOMAIN v.of : Takes(s.items, v.of[k])

(* A Converse model may write a number or a truth value as a string, an integer as a     *)
(* float, a string as a number.                                                    *)
Slips == {<<"integer", "digits">>, <<"integer", "float">>, <<"number", "digits">>,
          <<"boolean", "truth word">>, <<"string", "integer">>}
RECURSIVE Slip(_)
Slip(v) ==
  {Literal(p[2]) : p \in {p \in Slips : p[1] = v.is}} \union
  (IF v.is = "object"
   THEN UNION {{[v EXCEPT !.of[k] = w] : w \in Slip(v.of[k])} : k \in DOMAIN v.of} ELSE {})

(* _coerce_value, _coerce_map: towards the declared type, property by property; a type     *)
(* given as a list, as one with null is, coerces nothing.                              *)
RECURSIVE CoerceValue(_, _)
CoerceValue(v, s) ==
  IF s.null \/ ~Typed(s) THEN v
  ELSE CASE v.is \in {"digits", "float"} /\ s.type = "integer" -> Literal("integer")
         [] v.is \in {"digits", "integer"} /\ s.type = "number" -> Literal("number")
         [] v.is \in {"integer", "float"} /\ s.type = "string" -> Literal("string")
         [] v.is = "truth word" /\ s.type = "boolean" -> Literal("boolean")
         [] v.is = "array" /\ s.type = "array" /\ s.items # NoSchema ->
              [v EXCEPT !.of = [k \in DOMAIN v.of |-> CoerceValue(v.of[k], s.items)]]
         [] v.is = "object" /\ s.type = "object" ->
              [v EXCEPT !.of = [k \in DOMAIN v.of |->
                IF k \in DOMAIN s.props THEN CoerceValue(v.of[k], s.props[k]) ELSE v.of[k]]]
         [] OTHER -> v

(* ------------------------------------- a call ------------------------------------- *)

SchemaInit == declared = NoSchema /\ arguments = NoSchema /\ toolCall = "new"

(* The plugin writes the tool into its request, or raises. *)
Declare ==
  /\ toolCall = "new"
  /\ declared' = CASE vendor = "gemini" -> IF RefsResolve(input) THEN GeminiTool(input) ELSE NoSchema
               [] vendor = "openai" -> Strict(input)
               [] vendor = "ollama" -> IF OllamaTakes(input) THEN OllamaTool(input) ELSE NoSchema
               [] vendor = "anthropic" -> AnthropicTool(input)
               [] OTHER -> BedrockTool(input)
  /\ toolCall' = IF declared' = NoSchema THEN "refused" ELSE "told"
  /\ UNCHANGED <<vendor, input, arguments>>

Write ==
  /\ toolCall = "told"
  /\ \E v \in Writings(declared) :
       arguments' \in {v} \union (IF vendor = "bedrock" THEN Slip(v) ELSE {})
  /\ toolCall' = "written"
  /\ UNCHANGED <<vendor, input, declared>>

(* coerce_tool_input: arguments that are an object, by the tool's own schema if that is an  *)
(* object's and nothing else; the other plugins hand them on as the model wrote them.    *)
Give ==
  /\ toolCall = "written"
  /\ arguments' = IF vendor = "bedrock" /\ arguments.is = "object" /\ input.type = "object" /\ ~input.null
                  THEN CoerceValue(arguments, input) ELSE arguments
  /\ toolCall' = "given"
  /\ UNCHANGED <<vendor, input, declared>>

SchemaNext == Declare \/ Write \/ Give

(* ----------------------------------- properties ----------------------------------- *)

(* What a plugin does not tell: Gemini, a property that is a union; Ollama, what is      *)
(* inside a property.  What Bedrock's does not mend: a value of several types, and what    *)
(* a schema without a type or not of an object holds.                                *)
RECURSIVE Plain(_)
Plain(s) == /\ ~s.null /\ (Typed(s) \/ s = OfType(NoSchema))
            /\ \A k \in DOMAIN s.props : Plain(s.props[k])
            /\ s.items # NoSchema => Plain(s.items)
Untold(s) ==
  CASE vendor = "gemini" -> \E k \in DOMAIN s.props : ~Typed(s.props[k]) /\ s.props[k].ref = NoSchema
    [] vendor = "ollama" -> \E k \in DOMAIN s.props :
                              \/ s.props[k].ref # NoSchema \/ s.props[k].items # NoSchema
                              \/ s.props[k].props # <<>>
    [] vendor = "bedrock" -> ~Plain(s) \/ s.type \notin {"object", NoSchema}
    [] OTHER -> FALSE

(* A model that writes to what it was told writes what the tool takes, also when it slips  *)
(* as models of Bedrock do, unless a part of the schema was not told; a property that is    *)
(* required is always one the provider knows (_create_tool, _convert_parameters,           *)
(* coerce_tool_input and their siblings).                                            *)
ArgumentsFitTheTool ==
  /\ toolCall \in {"told", "written", "given"} /\ ~Untold(input) => declared.required \subseteq DOMAIN declared.props
  /\ toolCall = "given" /\ ~Untold(input) => Takes(input, arguments)
=============================================================================
