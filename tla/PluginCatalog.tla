---------------------------- MODULE PluginCatalog ----------------------------
(* What the model plugins advertise and what they resolve, name by name:          *)
(* list_actions sorts the provider's catalogue, resolve decides from the name       *)
(* alone, and the two were written apart.  A name is the set of the marks its code  *)
(* looks for.                                                                    *)

EXTENDS Naturals

CONSTANT Absent   \* no action

CONSTANTS Shops,      \* plugins: "googleai", "vertexai", "openai", "ollama", "anthropic", "bedrock"
          MaxChanges  \* bound: times the provider's catalogue changes

ASSUME CatalogConstants ==
  /\ Shops \subseteq {"googleai", "vertexai", "openai", "ollama", "anthropic", "bedrock"}
  /\ MaxChanges \in Nat

VARIABLES shop,     \* the plugin; never changes
          remote,   \* the provider's catalogue, for Bedrock the declared models
          kept,    \* _list_actions_cache, Absent while there is none
          listed,   \* the last answer of list_actions
          changes   \* catalogue changes so far

catalogVars == <<shop, remote, kept, listed, changes>>

Act(kind, name, schema) == [kind |-> kind, name |-> name, schema |-> schema]
Has(name, mark) == mark \in name
HasAny(name, marks) == name \intersect marks # {}

(* The names the providers list today, by shop. *)
NamesOf(s) ==
  CASE s \in {"googleai", "vertexai"} ->
         {{"gemini-"}, {"gemini-", "-tts"}, {"gemini-", "-image"}, {"gemini-", "embedding"},
          {"embedding"}, {"gemma-"}, {"veo-"}, {"imagen-"}, {"virtual-try-on-"}, {"lyria-"},
          {"deep-research-"}, {"antigravity-"}, {"aqa"}, {"gemini-", "deprecated"}}
    [] s = "openai" ->
         {{"gpt"}, {"gpt", "-image"}, {"gpt", "tts"}, {"gpt", "transcribe"}, {"whisper"},
          {"dall-e"}, {"embed"}, {"-pro"}}
    [] s = "ollama" -> {{"llama"}, {"embed"}}
    [] s = "anthropic" -> {{"claude"}, {"claude", "known"}}
    [] OTHER -> {{"chat"}, {"image"}, {"rerank"}, {"embed"}, {"embed", "unroutable"},
                 {"chat", "as image"}, {"image", "as chat"}}

(* --------------------------------- Google --------------------------------- *)

Unsupported(name) == Has(name, "virtual-try-on-")

(* classify_family: the first rule that fits. *)
Family(name) ==
  IF Has(name, "embedding") THEN "embedder"
  ELSE IF Unsupported(name) THEN "unsupported"
  ELSE IF Has(name, "veo-") THEN "veo"
  ELSE IF Has(name, "lyria-") THEN "lyria"
  ELSE IF Has(name, "deep-research-") THEN "deep-research"
  ELSE IF Has(name, "antigravity-") THEN "antigravity"
  ELSE IF Has(name, "imagen-") THEN "imagen"
  ELSE IF {"gemini-", "-tts"} \subseteq name THEN "tts"
  ELSE IF {"gemini-", "-image"} \subseteq name THEN "image"
  ELSE IF Has(name, "gemma-") THEN "gemma"
  ELSE IF Has(name, "gemini-") THEN "gemini"
  ELSE "unknown"

(* The fault of a table without the families that run in the background. *)
ChatOrNothing == {"embedder", "unsupported", "lyria", "antigravity"}

(* UNROUTABLE_FAMILIES: no generate path. *)
Unroutable == {"embedder", "unsupported", "veo", "lyria", "deep-research", "antigravity"}

(* get_model_config_schema, and the closures of _resolve_model. *)
GeminiSchema(name) == IF Family(name) \in {"tts", "image", "gemma"} THEN Family(name)
                                                                    ELSE "gemini"

(* VertexAI._resolve_model *)
VertexModel(name) ==
  CASE Family(name) \in Unroutable -> Absent
    [] Family(name) = "imagen" -> Act("model", name, "imagen")
    [] OTHER -> Act("model", name, GeminiSchema(name))

(* GoogleAI._resolve_model: the families of the Interactions API come before the      *)
(* table that Vertex keeps them closed with.                                        *)
GoogleAIModel(name) ==
  IF Has(name, "deep-research-") THEN Absent
  ELSE IF HasAny(name, {"antigravity-", "lyria-"}) THEN Act("model", name, Family(name))
  ELSE VertexModel(name)

(* GoogleAI._resolve_background_action *)
GoogleAIBackground(name) == HasAny(name, {"veo-", "deep-research-"})

(* GoogleAI.resolve: the check and the cancel of a background model are found from     *)
(* its name; Veo has no cancel; every embedder name resolves.                        *)
GoogleAIResolve(kind, name) ==
  CASE kind = "model" -> GoogleAIModel(name)
    [] kind \in {"background-model", "check-operation"} /\ GoogleAIBackground(name) ->
         Act(kind, name, Family(name))
    [] kind = "cancel-operation" /\ Has(name, "deep-research-") -> Act(kind, name, Family(name))
    [] kind = "embedder" -> Act(kind, name, "embedder")
    [] OTHER -> Absent

(* VertexAI._resolve_evaluator, with a project. *)
VertexEvaluator(name) ==
  IF Has(name, "metric") THEN Act("evaluator", name, "evaluator") ELSE Absent

(* VertexAI.resolve *)
VertexResolve(kind, name) ==
  CASE kind = "model" -> VertexModel(name)
    [] kind \in {"background-model", "check-operation"} /\ Has(name, "veo-") ->
         Act(kind, name, "veo")
    [] kind = "embedder" -> Act(kind, name, "embedder")
    [] kind = "evaluator" -> VertexEvaluator(name)
    [] OTHER -> Absent

(* The supported_actions the Gemini API reports. *)
Offers(name) ==
  IF Has(name, "embedding") THEN {"embedContent"}
  ELSE IF Has(name, "imagen-") THEN {"predict"}
  ELSE IF Has(name, "veo-") THEN {"generateVideos"}
  ELSE {"generateContent"}

(* _categorize_genai_model: Vertex reports no actions, so it sorts by name and leaves  *)
(* its embedders to a list of its own.                                              *)
Buckets(s, name) ==
  IF Has(name, "deprecated") THEN {}
  ELSE IF s = "vertexai"
  THEN IF Has(name, "embedding") \/ Unsupported(name) THEN {}
       ELSE IF Has(name, "imagen-") THEN {"imagen"}
       ELSE IF Has(name, "veo-") THEN {"veo"}
       ELSE IF HasAny(name, {"gemini-", "gemma-"}) THEN {"gemini"}
       ELSE {}
  ELSE {b \in {"embedders", "imagen", "veo", "gemini"} :
          CASE b = "embedders" -> "embedContent" \in Offers(name)
            [] b = "imagen" -> "predict" \in Offers(name) /\ Has(name, "imagen-")
            [] b = "veo" -> "generateVideos" \in Offers(name) \/ Has(name, "veo-")
            [] OTHER -> "generateContent" \in Offers(name)
                        /\ HasAny(name, {"gemini-", "gemma-"})}

(* What list_actions says of a name in a bucket; _veo_background_action_metadata. *)
BucketAction(b, name) ==
  CASE b = "gemini" -> Act("model", name, GeminiSchema(name))
    [] b = "imagen" -> Act("model", name, "imagen")
    [] b = "veo" -> Act("background-model", name, "veo")
    [] OTHER -> Act("embedder", name, "embedder")

Discovered(s, names) == UNION {{BucketAction(b, n) : b \in Buckets(s, n)} : n \in names}

(* GoogleAI.list_actions: the sorted catalogue and the families known by heart. *)
GoogleAIList(names) ==
  Discovered("googleai", names)
  \union {Act("background-model", {"deep-research-"}, "deep-research"),
          Act("model", {"antigravity-"}, "antigravity"), Act("model", {"lyria-"}, "lyria")}

(* VertexAI.list_actions, with VERTEX_KNOWN_EMBEDDERS and the evaluators. *)
VertexList(names) ==
  Discovered("vertexai", names)
  \union {Act("embedder", n, "embedder") : n \in {{"embedding"}, {"gemini-", "embedding"}}}
  \union {Act("evaluator", {"metric"}, "evaluator")}

(* --------------------------------- OpenAI --------------------------------- *)

(* _classify_model, which resolve and list_actions share. *)
OpenAIType(name) ==
  IF Has(name, "embed") THEN "embedder"
  ELSE IF {"gpt", "-image"} \subseteq name \/ Has(name, "dall-e") THEN "image"
  ELSE IF Has(name, "tts") THEN "tts"
  ELSE IF HasAny(name, {"whisper", "transcribe"}) THEN "stt"
  ELSE "chat"

OpenAIResolve(kind, name) ==
  CASE kind = "embedder" /\ OpenAIType(name) = "embedder" -> Act(kind, name, "embedder")
    [] kind = "model" /\ OpenAIType(name) # "embedder" -> Act(kind, name, OpenAIType(name))
    [] OTHER -> Absent

(* list_actions drops the names of _UNSUPPORTED_MODEL_MATCHERS. *)
OpenAIList(names) ==
  {Act(IF OpenAIType(n) = "embedder" THEN "embedder" ELSE "model", n, OpenAIType(n)) :
     n \in {m \in names : ~Has(m, "-pro")}}

(* ---------------------------- Ollama, Anthropic ---------------------------- *)

(* Both kinds resolve for every name: what the server has is found at the call. *)
OllamaResolve(kind, name) ==
  IF kind \in {"model", "embedder"} THEN Act(kind, name, kind) ELSE Absent

OllamaList(names) ==
  {LET kind == IF Has(n, "embed") THEN "embedder" ELSE "model" IN Act(kind, n, kind) :
     n \in names}

AnthropicResolve(kind, name) == IF kind = "model" THEN Act(kind, name, "claude") ELSE Absent

(* SUPPORTED_ANTHROPIC_MODELS *)
KnownClaude == {{"claude", "known"}}

ClaudeList(names) == {Act("model", n, "claude") : n \in names}

(* --------------------------------- Bedrock --------------------------------- *)

(* The type a name is declared with, or classified by when it is not. *)
DeclaredType(name) ==
  IF Has(name, "as image") THEN "image"
  ELSE IF Has(name, "as chat") THEN "chat"
  ELSE IF Has(name, "image") THEN "image" ELSE "chat"

BedrockResolve(kind, name) ==
  CASE kind = "embedder" /\ Has(name, "embed") -> Act(kind, name, "embedder")
    [] kind = "model" /\ ~HasAny(name, {"embed", "rerank"}) ->
         Act(kind, name, DeclaredType(name))
    [] OTHER -> Absent

(* list_actions: only what the plugin can serve of what was declared. *)
BedrockList(names) ==
  {Act("model", n, DeclaredType(n)) :
     n \in {m \in names : /\ ~HasAny(m, {"embed", "rerank"})
                          /\ DeclaredType(m) = "image" => Has(m, "image")}}
  \union {Act("embedder", n, "embedder") :
            n \in {m \in names : Has(m, "embed") /\ ~Has(m, "unroutable")}}

(* --------------------------------- plugins --------------------------------- *)

ResolvedBy(s, kind, name) ==
  CASE s = "googleai" -> GoogleAIResolve(kind, name)
    [] s = "vertexai" -> VertexResolve(kind, name)
    [] s = "openai" -> OpenAIResolve(kind, name)
    [] s = "ollama" -> OllamaResolve(kind, name)
    [] s = "anthropic" -> AnthropicResolve(kind, name)
    [] OTHER -> BedrockResolve(kind, name)

ListOf(s, names) ==
  CASE s = "googleai" -> GoogleAIList(names)
    [] s = "vertexai" -> VertexList(names)
    [] s = "openai" -> OpenAIList(names)
    [] s = "ollama" -> OllamaList(names)
    [] s = "anthropic" -> ClaudeList(names \union KnownClaude)
    [] OTHER -> BedrockList(names)

(* resolve_model of the registry: a model of that name before a background model. *)
Generates(s, name) ==
  LET chat == ResolvedBy(s, "model", name)
  IN IF chat # Absent THEN chat ELSE ResolvedBy(s, "background-model", name)

(* ------------------------- a plugin's listing over time ------------------------- *)

CatalogInit ==
  /\ shop \in Shops
  /\ remote \in {{n} : n \in NamesOf(shop)}
  /\ kept = Absent /\ listed = {} /\ changes = 0

(* The provider adds a model.  Bedrock's models are declared with the plugin. *)
AddModel ==
  /\ shop # "bedrock" /\ changes < MaxChanges
  /\ \E n \in NamesOf(shop) \ remote : remote' = remote \union {n}
  /\ changes' = changes + 1
  /\ UNCHANGED <<shop, kept, listed>>

(* list_actions.  Ollama and Bedrock keep no cache. *)
ListActions ==
  /\ listed' = IF kept # Absent THEN kept ELSE ListOf(shop, remote)
  /\ kept' = IF shop \in {"ollama", "bedrock"} THEN Absent ELSE listed'
  /\ UNCHANGED <<shop, remote, changes>>

(* Anthropic answers a failed listing with what it knows, and keeps that out of the   *)
(* cache; the other plugins raise.                                                  *)
ListFails ==
  /\ shop = "anthropic" /\ kept = Absent
  /\ listed' = ClaudeList(KnownClaude)
  /\ UNCHANGED <<shop, remote, kept, changes>>

CatalogNext == AddModel \/ ListActions \/ ListFails

CatalogSpec == CatalogInit /\ [][CatalogNext]_catalogVars

-------------------------------------------------------------------------------

(* Whatever the dev UI is offered exists: an advertised action resolves, in a process   *)
(* that has never listed, to an action of the same kind and config schema; a model so    *)
(* named is what generate runs; a background model's jobs can be checked; and no name     *)
(* advertised as an embedder generates (Ollama learns that from its server).  The         *)
(* listing may be the cached one of a catalogue that has changed since.               *)
AdvertisedResolves ==
  \A a \in listed :
    /\ ResolvedBy(shop, a.kind, a.name) = a
    /\ a.kind \in {"model", "background-model"} => Generates(shop, a.name) = a
    /\ a.kind = "background-model" => ResolvedBy(shop, "check-operation", a.name) # Absent
    /\ a.kind = "embedder" /\ shop # "ollama" => Generates(shop, a.name) = Absent
=============================================================================
