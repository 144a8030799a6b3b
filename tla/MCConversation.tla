-------------------------------- MODULE MCConversation --------------------------------
(* What a conversation goes through, each behaviour one part of it: the patches of  *)
(* the session state, the items of a streamed reply, the cards of a streamed reply,  *)
(* a turn through a model plugin, calls of Gemini at the same time, the options of a  *)
(* call written as requests, the schema of a tool and the arguments it is called with, *)
(* the shipped middleware around calls, the history it is resumed from.  The parts     *)
(* share no state.                                                              *)
EXTENDS JsonPatch, Formats, SurfaceStream, ModelTurns, GeminiCalls, ModelRequests,
        ToolSchemas, ShippedMiddleware, SessionHistory

CONSTANTS c1, c2

VARIABLE part   \* the part of this behaviour; never changes

Parts == {"patch", "format", "surface", "turn", "gemini", "request", "schema",
          "middleware", "history"}

(* The parameters of a part, pinned to one value in the others' behaviours.         *)
Chosen(p, choices) == IF part = p THEN choices ELSE {CHOOSE c \in choices : TRUE}

Init ==
  /\ part \in Parts
  /\ document \in Chosen("patch", Documents) /\ PatchInit
  /\ answered \in Chosen("format", FormatAnswers) /\ FormatInit
  /\ written \in Chosen("surface", SurfaceReplies) /\ mode \in Chosen("surface", Modes)
  /\ onChunk \in Chosen("surface", BOOLEAN) /\ SurfaceInit
  /\ provider \in Chosen("turn", DOMAIN Replies) /\ option \in Chosen("turn", Options)
  /\ reply \in Chosen("turn", Replies[provider]) /\ TurnInit
  /\ plugin \in Chosen("gemini", {p \in GeminiPlugins : Starts(p)})
  /\ ask \in Chosen("gemini", {[c \in Callers |-> Asks[IF c = "call1" THEN p[1] ELSE p[2]]] :
                               p \in {q \in (DOMAIN Asks) \X (DOMAIN Asks) : q[1] <= q[2]}})
  /\ GeminiInit
  /\ target \in Chosen("request", Models) /\ wish \in Chosen("request", Wishes)
  /\ roles \in Chosen("request", Pasts) /\ WireInit
  /\ vendor \in Chosen("schema", Vendors) /\ input \in Chosen("schema", ToolInputs)
  /\ SchemaInit
  /\ use \in Chosen("middleware", Uses) /\ MwInit
  /\ home \in Chosen("history", Stores) /\ HistoryInit

Others(p) ==
  /\ p # "patch" => UNCHANGED patchVars
  /\ p # "format" => UNCHANGED formatVars
  /\ p # "surface" => UNCHANGED surfaceVars
  /\ p # "turn" => UNCHANGED turnVars
  /\ p # "gemini" => UNCHANGED geminiVars
  /\ p # "request" => UNCHANGED wireVars
  /\ p # "schema" => UNCHANGED schemaVars
  /\ p # "middleware" => UNCHANGED mwVars
  /\ p # "history" => UNCHANGED historyVars

Next ==
  /\ \/ part = "patch" /\ PatchNext
     \/ part = "format" /\ FormatNext
     \/ part = "surface" /\ SurfaceNext
     \/ part = "turn" /\ TurnNext
     \/ part = "gemini" /\ GeminiNext
     \/ part = "request" /\ WireNext
     \/ part = "schema" /\ SchemaNext
     \/ part = "middleware" /\ MwNext
     \/ part = "history" /\ HistoryNext
  /\ Others(part) /\ UNCHANGED part

vars == <<part, patchVars, formatVars, surfaceVars, turnVars, geminiVars, wireVars,
          schemaVars, mwVars, historyVars>>
Spec == Init /\ [][Next]_vars

(* ------------------------------ the instances ------------------------------ *)

(* Keys that need escapes, look like escapes, like an index or like the end.       *)
Keys == {<<"a">>, <<"~", "1">>, <<"/", "0">>, <<"0">>, <<"-">>}
Scalars == {Null, Scalar("x"), Scalar("y")}
One(S) == {Object(k :> v) : k \in Keys, v \in S}
Two(S) == {Object(k :> v @@ j :> w) : k \in Keys, j \in Keys, v \in S, w \in Scalars}
Lists(S, n) == {Array(s) : s \in BoundedSeq(S, n)}
MCDocuments == Scalars \union {EmptyObject} \union One(Scalars) \union Two(Scalars) \union Lists(Scalars, 3)
                 \union One(Lists(Scalars, 1)) \union One(One({Null, Scalar("x")}))
                 \union Lists(One({Scalar("x")}), 2)

(* An item with a nested object, one with a bracket in a string, one with an       *)
(* escaped quote in a string.                                                   *)
A == <<"{", "w", "}">>
Q == <<"{", "q", "}", "q", "}">>
E == <<"{", "q", "b", "q", "]", "q", "}">>
N == <<"{", "{", "w", "}", "}">>
MCItems == {A, Q, E, N}
Array3(a, b, c) == <<"[">> \o Joined(<<a, b, c>>) \o <<"]">>
MCAnswers ==
  {[format |-> "array", text |-> t] : t \in
     {Array3(x, y, z) : x \in MCItems, y \in MCItems, z \in MCItems}
     \union {<<"w", "nl">> \o Array3(Q, E, N) \o <<"nl", "w">>,
      <<"[", "nl">> \o A \o <<",", "nl">> \o N \o <<"nl", "]">>, <<"[", "]">>}}
  \union
  {[format |-> "jsonl", text |-> t] : t \in
     {A \o <<"nl">> \o Q \o <<"nl">> \o E, <<"w", "nl">> \o N \o <<"nl", "nl">> \o A \o <<"nl">>}}

(* Prose, blocks, a data part between them, behind what may start a fence, behind   *)
(* an open block and inside one; a fence that is not one of ours; a block that is    *)
(* never closed.                                                                *)
P(s) == [prose |-> s]
B(b) == [body |-> Body(b), closed |-> TRUE, data |-> 0]
U(b) == [body |-> Body(b), closed |-> FALSE, data |-> 0]
Broken(block, k) == [block EXCEPT !.data = k]
D == P(<<"data">>)
Prose == {<<"p">>, <<"p", "nl">>, <<"tick", "p">>, <<"tick", "tick", "q">>, Fence \o <<"nl">>}
MCSurfaceReplies ==
  {<<B(b), D, B(c)>> : b \in BlockBodies, c \in {"create", "update", "bad"}}
  \union {<<B(b), B(c)>> : b \in BlockBodies, c \in {"create", "rootless"}}
  \union {<<P(s), B(b)>> : s \in {<<"p">>, <<"p", "nl">>, <<"tick", "p">>}, b \in BlockBodies}
  \union {<<B(b), P(s)>> : b \in {"create", "bad"}, s \in Prose}
  \union {<<P(s), P(t)>> : s \in Prose, t \in Prose}
  \union {<<P(<<"p">>), D, P(Fence \o <<"p">>)>>, <<P(<<"p">>), U("create")>>,
          <<B("foreign"), P(<<"p", "nl">>), U("known")>>}
  \union {<<P(s), D, t>> : s \in Prose \union {<<"p", "tick">>, <<"p", "tick", "nl">>, Fence \o <<"a2ui">>},
                           t \in {P(<<"p">>), B("update")}}
  \union {<<U(b), D>> : b \in BlockBodies}
  \union {<<Broken(B("lines"), k), B("create")>> : k \in 1..11}
  \union {<<Broken(B("quoted"), k), P(<<"p">>)>> : k \in 1..13}
  \union {<<Broken(B("bad"), k)>> : k \in {2, 6}}
  \union {<<Broken(U("lines"), 6)>>, <<Broken(B("create"), 6), D, B("known")>>}

(* Text, thoughts and two calls, with and without ids; calls without arguments; a  *)
(* redacted thought; a thinking tag; an echo of the conversation.                 *)
T(body) == TextPart(body)
Th(body, sig) == ThoughtPart(body, sig)
C(id, body) == CallPart(id, body)
Args == <<"{", "}">>
Words == <<"a", "b">>
TwoCalls == <<C("c1", Args), C("c2", <<"{", "x", "}">>)>>
NoIds(r) == [k \in DOMAIN r |-> IF r[k].kind = "call" THEN [r[k] EXCEPT !.id = ""] ELSE r[k]]
Fenced == <<T(<<"fence", "{", "}", "fence">>)>>
MCReplies == [p \in {"openai", "anthropic", "bedrock", "ollama", "gemini", "interactions"} |->
  CASE p = "openai" -> {<<Th(<<"t">>, ""), T(Words)>> \o TwoCalls, TwoCalls,
                        <<T(Words), C("c1", <<>>)>>, Fenced, <<>>}
    [] p \in {"anthropic", "bedrock"} ->
         {<<Th(<<"t">>, "s"), T(Words)>> \o TwoCalls,
          <<RedactedPart(<<"r">>), Th(<<"t">>, "s"), C("c1", <<>>)>>, Fenced, <<>>}
    [] p = "ollama" -> {<<Th(<<"t">>, ""), T(Words)>> \o NoIds(TwoCalls),
                        <<T(<<"<think>", "t", "</think>", "a", "<think>", "u", "</think>">>)>>,
                        <<T(<<"<think>", "a">>)>>}
    [] p = "gemini" -> {<<Th(<<"t", "u">>, "s"), T(Words)>> \o TwoCalls, NoIds(TwoCalls)}
    [] OTHER -> {<<Th(<<"t">>, "s"), T(Words)>> \o NoIds(TwoCalls) \o <<T(<<"c">>)>>,
                 <<MPart("echo", "", <<"e">>, "", <<>>), ResultPart("c0", <<"x">>),
                   C("c1", Args), C("", Args)>>}]
MCOptions == {[json |-> j, think |-> b] : j \in BOOLEAN, b \in BOOLEAN} \ {[json |-> TRUE, think |-> TRUE]}

(* Gemini: plugins with a key, with credentials, on Vertex AI in a region, in several,   *)
(* with a pinned address, without a project; calls of a tenant, to another location or    *)
(* address, with misplaced keys; conversations with one mark, two and none.              *)
PluginOf(v, k, cr, pr, l, b, d) ==
  [vertex |-> v, key |-> k, creds |-> cr, project |-> pr, location |-> l, base |-> b,
   options |-> Nil, adc |-> d]
Optioned == [PluginOf(TRUE, Nil, Nil, "project", "us", Nil, "never") EXCEPT !.options = <<"options">>]
MCGeminiPlugins ==
  {PluginOf(FALSE, "plugin key", Nil, Nil, Nil, Nil, "never"),
   PluginOf(TRUE, "plugin key", Nil, Nil, Nil, Nil, "always"),
   PluginOf(TRUE, "plugin key", Nil, "project", Nil, Nil, "never"),
   PluginOf(TRUE, Nil, "service", Nil, Nil, Nil, "never"),
   PluginOf(TRUE, Nil, Nil, Nil, "us", Nil, "always"),
   PluginOf(TRUE, Nil, Nil, Nil, "us", Nil, "late")}
  \union {PluginOf(TRUE, Nil, "user", Nil, Nil, b, d) : b \in {Nil, <<"pinned">>}, d \in {"late", "never"}}
  \union {Optioned, [Optioned EXCEPT !.base = <<"pinned">>]}
Line(r, t, m) == [role |-> r, text |-> t, cache |-> m]
Dialogue == <<Line("system", "s", FALSE), Line("user", "a", TRUE), Line("model", "b", FALSE)>>
AskFor(k, s, b, l, m, t, msgs) ==
  [key |-> k, slot |-> s, base |-> b, location |-> l, version |-> FALSE, model |-> m, tools |-> t,
   messages |-> msgs]
MCAsks ==
  <<AskFor(Nil, "secrets", Nil, Nil, "flash", FALSE, Dialogue),
    AskFor(Nil, "secrets", Nil, "us", "flash", FALSE, Dialogue),
    AskFor(Nil, "secrets", Nil, "eu", "flash", FALSE, Dialogue),
    AskFor(Nil, "secrets", Nil, "west", "flash", FALSE, Dialogue),
    AskFor("tenant", "secrets", Nil, Nil, "flash", FALSE, Dialogue),
    AskFor("tenant", "secrets", Nil, "eu", "flash", FALSE, Dialogue),
    AskFor("tenant", "config", Nil, Nil, "flash", FALSE, Dialogue),
    AskFor(Nil, "empty secrets", Nil, Nil, "flash", FALSE, Dialogue),
    [AskFor(Nil, "secrets", Nil, Nil, "flash", FALSE, Dialogue) EXCEPT !.version = TRUE],
    AskFor(Nil, "secrets", <<"given">>, "eu", "pro", TRUE, <<Line("user", "a", FALSE)>>),
    AskFor(Nil, "secrets", Nil, Nil, "flash 3", FALSE, Dialogue),
    AskFor(Nil, "secrets", Nil, Nil, "pro", FALSE, Dialogue),
    AskFor(Nil, "secrets", Nil, Nil, "flash", FALSE,
           <<Line("user", "a", TRUE), Line("model", "b", FALSE), Line("user", "c", TRUE)>>)>>

(* Models that hold an answer to a schema, beside tools or never, that spell it out, that   *)
(* think, whose server has an older API.  Every form and choice with a plain             *)
(* configuration, every configuration with a JSON answer.                             *)
ModelOf(p, n, c, j, a, v) ==
  [provider |-> p, name |-> n, constrained |-> c, jsonMode |-> j, api |-> a, vertex |-> v]
MCModels ==
  {ModelOf("openai", "gpt", "all", TRUE, "openai", FALSE), ModelOf("openai", "o3", "all", FALSE, "openai", FALSE),
   ModelOf("openai", "deepseek", "none", TRUE, "deepseek", FALSE),
   ModelOf("anthropic", "claude", "all", TRUE, "key", FALSE),
   ModelOf("anthropic", "claude 3", "none", TRUE, "token", FALSE),
   ModelOf("anthropic", "claude beta", "no tools", TRUE, "beta", FALSE),
   ModelOf("ollama", "llama", "all", TRUE, "chat", FALSE),
   ModelOf("ollama", "davinci", "none", FALSE, "generate", FALSE),
   ModelOf("bedrock", "nova", "none", FALSE, "converse", FALSE),
   ModelOf("gemini", "flash", "all", TRUE, "key", FALSE),
   ModelOf("gemini", "gemma", "no tools", TRUE, "key", TRUE),
   ModelOf("gemini", "endpoint", "all", TRUE, "key", TRUE)}
Default == [limit |-> Unset, own |-> Unset, stop |-> Unset, ownStop |-> Unset, think |-> Unset,
            version |-> Unset, model |-> Unset, forced |-> Unset, unknown |-> FALSE, key |-> Unset,
            surface |-> Unset, betaField |-> FALSE]
MCConfigs ==
  {[Default EXCEPT !.limit = "n", !.stop = "s"],
   [Default EXCEPT !.limit = "n", !.own = "m", !.stop = "s", !.ownStop = "t"],
   [Default EXCEPT !.limit = "n", !.version = "o3"],
   [Default EXCEPT !.limit = "n", !.model = "o3", !.version = "gpt"],
   [Default EXCEPT !.limit = "zero", !.version = "gemma"],
   [Default EXCEPT !.forced = "lookup"], [Default EXCEPT !.forced = "no such tool"],
   [Default EXCEPT !.forced = "none"],
   [Default EXCEPT !.unknown = TRUE, !.key = "tenant", !.surface = "beta"],
   [Default EXCEPT !.betaField = TRUE], [Default EXCEPT !.betaField = TRUE, !.surface = "stable"]}
  \union {[Default EXCEPT !.think = [mode |-> m, budget |-> b], !.limit = "n"] :
           m \in {Unset, "adaptive", "enabled", "disabled"}, b \in {Unset, "whole", "part"}}
MCWishes ==
  [format : {"none", "json", "array", "enum", "jsonl", "yaml"}, schema : BOOLEAN,
   constrained : {Unset} \union BOOLEAN, tools : BOOLEAN,
   choice : {Unset, "auto", "required", "none"}, config : {Default}]
  \union [format : {"none", "json"}, schema : {TRUE}, constrained : {Unset, TRUE}, tools : BOOLEAN,
          choice : {Unset, "required"}, config : MCConfigs]
MCPasts == {<<"user">>, <<"system", "user">>, <<"user", "model">>,
            <<"user", "model", "tool", "model", "user">>}

(* Inputs of two properties: scalars, with null, unions, anything, references, lists,     *)
(* nested objects; inputs of none, and ones that are no object.                        *)
RefTo(name) == [OfType(NoSchema) EXCEPT !.ref = name]
ListOf(s) == [OfType("array") EXCEPT !.items = s]
ObjectOf(props, required) == [OfType("object") EXCEPT !.props = props, !.required = required]
Optional == [OfType(NoSchema) EXCEPT !.union = {"integer", "null"}]
MCDefinitions == [point |-> ObjectOf([x |-> OfType("integer")], {"x"})]
MCProps ==
  {OfType(t) : t \in {"string", "integer", "number", "boolean", NoSchema}}
  \union {[OfType("string") EXCEPT !.null = TRUE], Optional, RefTo("point"), RefTo("nothing"),
          ListOf(OfType("integer")), ListOf(RefTo("point")),
          ObjectOf([x |-> Optional, y |-> OfType("string")], {"y"})}
MCToolInputs ==
  {OfType(NoSchema), OfType("string"), EmptyObjectSchema, [EmptyObjectSchema EXCEPT !.null = TRUE],
   [OfType(NoSchema) EXCEPT !.props = [a |-> OfType("string")]]}
  \union {ObjectOf([a |-> p, b |-> q], r) : p \in MCProps, q \in MCProps, r \in {{"a"}, {"a", "b"}}}

(* Retry inside and outside Fallback; approval of the reads, of the writes.          *)
MCUses == {[names |-> {"retry", "fallback", "artifacts"}, allowed |-> {}],
           [names |-> {"retry", "fallback", "retry>fallback", "skills"}, allowed |-> {}],
           [names |-> {"approval", "artifacts"}, allowed |-> {"edit_file", "read_file"}]}
MCRounds == {<<>>, <<"read_file", "read_file">>, <<"edit_file", "raises">>, <<"edit_file", "edit_file">>,
             <<"write_artifact", "read_file">>, <<"no_file">>}

\* What is asked of a provider: every round holds the wishes of the call, a model that
\* fills a tool's schema as it was told calls the tool, and every call reaches its own
\* account with its own conversation (models of the plugins).
ProvidersAreAskedRight == WishesHold /\ ArgumentsFitTheTool /\ CallsAreTheirOwn

\* The chunks of a reply say what its message says, as the plugins put them together and
\* as the cards middleware cuts them again (_middleware.py:94, the plugins' streams).
StreamTellsTheMessage == StreamShowsWhatIsReady /\ StreamMatchesMessage /\ StreamAddsUp

\* Two clients of a store that rejects forks and keeps all rows; one client of
\* a store that keeps the two newest rows of a chain.
StrictOrPruned ==
  {[cap |-> 0, strict |-> TRUE, clients |-> {c1, c2}, turns |-> 2],
   [cap |-> 2, strict |-> FALSE, clients |-> {c1}, turns |-> 1]}
=============================================================================
