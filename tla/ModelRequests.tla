----------------------------- MODULE ModelRequests -----------------------------
(* What the model plugins send: the options of a generate call - output format,  *)
(* tools, tool choice, configuration - written as each provider's request, again  *)
(* in every round of the tool loop, and the model that obeys what it was sent.    *)
EXTENDS Naturals, Sequences, FiniteSets

CONSTANTS
  Unset,      \* None
  Models,     \* [provider, name, constrained, jsonMode, api, vertex]
  Wishes,     \* [format, schema, constrained, tools, choice, config]; a schema fits its format
  Pasts,      \* what a conversation may hold before: sequences of roles
  Reasoning,  \* names of the models that think before they answer
  MaxRounds   \* max_turns

VARIABLES
  target,   \* the model; never changes
  wish,     \* the options; never changes
  roles,    \* the roles of the conversation's messages
  sent,     \* the last request to the provider
  rounds,   \* tool rounds so far
  loop      \* "new", "asking", "asked", "answered", "refused" or "exhausted"

wireVars == <<target, wish, roles, sent, rounds, loop>>

config == wish.config
Provider == target.provider
ToolRan == \E k \in DOMAIN roles : roles[k] = "tool"
First(a, b) == IF a # Unset THEN a ELSE b
OneOf(field, value) == IF value = Unset THEN {} ELSE {<<field, value>>}

(* A configuration: limit is Genkit's max_output_tokens (OpenAI: max_tokens), own the       *)
(* provider's second name for it (max_completion_tokens, max_tokens, num_predict); stop is  *)
(* stop_sequences, ownStop stop; model another way to name the model, forced a tool choice   *)
(* in the configuration, surface the key api_version, betaField one of Anthropic's beta.    *)
(* A key a provider does not declare is unknown to it: Bedrock refuses it, others pass it   *)
(* on.  Sampling knobs travel like stop and are left out.                              *)
Foreign ==
  config.unknown \/ config.surface # Unset \/ config.betaField \/ config.model # Unset

(* A request: output is how the provider itself holds the answer to a form, told      *)
(* says whether the schema is spelled out in the instructions; limits and stops are   *)
(* the fields that carry them.                                                  *)
Request == [ok |-> TRUE, model |-> target.name, output |-> "free", told |-> FALSE,
            tools |-> FALSE, choice |-> Unset, limits |-> {}, stops |-> {}, think |-> Unset,
            extra |-> FALSE, key |-> Unset, beta |-> FALSE]
Rejected == [Request EXCEPT !.ok = FALSE]

(* ---------------------------------- generate ---------------------------------- *)

(* apply_format: JSON, arrays and enums are held to their schema unless the call says *)
(* otherwise; without a format the call has the only say.                        *)
Constrained ==
  IF wish.constrained # Unset THEN wish.constrained ELSE wish.format \in {"json", "array", "enum"}

(* resolve_parameters: a format nobody defined. *)
Resolves == wish.format \in {"none", "json", "array", "enum", "jsonl", "text"}

(* ----------------------------------- OpenAI ----------------------------------- *)

Deepseek == target.api = "deepseek"

(* _get_openai_request_config: the model that will answer; the others have no second *)
(* name for it.                                                                 *)
AnsweringModel ==
  First(First(IF Provider = "openai" THEN config.model ELSE Unset, config.version), target.name)

(* _openai_create_kwargs, the limit: a model that thinks takes the newer field alone. *)
OpenAILimits ==
  IF config.own # Unset THEN {<<"max_completion_tokens", config.own>>}
  ELSE OneOf(IF AnsweringModel \in Reasoning \/ config.think # Unset
               THEN "max_completion_tokens" ELSE "max_tokens", config.limit)

(* _openai_create_kwargs, the rest: stop wins over stop_sequences. *)
OpenAIKnobs(r) ==
  [r EXCEPT !.model = AnsweringModel, !.limits = OpenAILimits,
            !.stops = OneOf("stop", First(config.ownStop, config.stop)),
            !.think = IF config.think = Unset THEN Unset ELSE "effort", 
            !.extra = config.unknown \/ config.surface # Unset \/ config.betaField]

NeedsSchemaInPrompt == wish.format = "json" /\ wish.schema /\ Deepseek

(* _get_response_format *)
ResponseFormat ==
  CASE wish.format # "json" -> IF wish.format = "none" THEN "free" ELSE "text"
    [] Deepseek -> "json"
    [] wish.schema -> "schema"
    [] target.jsonMode -> "json"
    [] OTHER -> "text"

(* Fault: tools are forced in every round. *)
ForcedAgain == First(config.forced, wish.choice)

(* Nothing is forced once a tool has answered - nor may a tool be called again - but by *)
(* the configuration, whose keys are written over the request's.                  *)
OpenAIChoice == First(config.forced, IF ToolRan THEN "none" ELSE wish.choice)

OpenAIRequest ==
  OpenAIKnobs([Request EXCEPT !.tools = wish.tools, !.choice = OpenAIChoice,
                              !.output = ResponseFormat, !.told = NeedsSchemaInPrompt])

(* ---------------------------------- Anthropic ---------------------------------- *)

(* _to_anthropic_thinking_config: a budget turns thinking on unless it is turned off. *)
AnthropicThinking ==
  LET t == config.think
  IN IF t = Unset \/ t.mode = "adaptive" THEN [ok |-> TRUE, mode |-> First(t, [mode |-> Unset]).mode]
     ELSE IF t.mode = "enabled" \/ (t.budget # Unset /\ t.mode # "disabled")
     THEN [ok |-> t.budget = "whole", mode |-> "enabled"]
     ELSE [ok |-> TRUE, mode |-> t.mode]

(* _client_for_config: a client that authenticates otherwise keeps its own. *)
RequestKey == IF target.api = "token" THEN Unset ELSE config.key

(* _check_api_surface: no field of the beta surface on the stable one. *)
SurfaceFits == ~(config.surface = "stable" /\ config.betaField)

(* _uses_beta_api: the call, then its fields, then the plugin's default. *)
UsesBeta ==
  IF config.surface # Unset THEN config.surface = "beta" ELSE config.betaField \/ target.api = "beta"

(* _supports_constrained, and the same rule of the Gemini plugin. *)
HoldsForm(supports, tools) == supports = "all" \/ (supports = "no tools" /\ ~tools)

(* _build_params, the output: held by the provider, or told, if there is a schema. *)
AnthropicOutput(r) ==
  IF wish.format # "json" THEN r
  ELSE IF wish.schema /\ Constrained /\ HoldsForm(target.constrained, wish.tools)
  THEN [r EXCEPT !.output = "schema"]
  ELSE [r EXCEPT !.told = wish.schema]

(* A tool choice travels with tools only; the request cannot forbid them, the          *)
(* configuration can, when the request says neither "required" nor "auto".          *)
AnthropicChoice ==
  IF ~wish.tools THEN Unset
  ELSE CASE wish.choice = "required" -> "any" [] wish.choice = "auto" -> "auto" [] OTHER -> config.forced

(* _build_params, _move_unknown_params_to_extra_body: max_output_tokens wins. *)
AnthropicRequest ==
  IF ~AnthropicThinking.ok \/ ~SurfaceFits THEN Rejected
  ELSE AnthropicOutput(
    [Request EXCEPT
      !.model = AnsweringModel, !.tools = wish.tools, !.choice = AnthropicChoice,
      !.limits = {<<"max_tokens", First(First(config.limit, config.own), "default")>>},
      !.stops = OneOf("stop_sequences", config.stop), !.think = AnthropicThinking.mode,
      !.extra = config.unknown \/ config.ownStop # Unset, !.key = RequestKey, !.beta = UsesBeta])

(* ------------------------------------ Ollama ------------------------------------ *)

(* build_request_options: num_predict wins over max_output_tokens, stop_sequences over *)
(* stop; think is no option.                                                     *)
OllamaOptions(r) ==
  [r EXCEPT !.limits = OneOf("num_predict", First(config.own, config.limit)),
            !.stops = OneOf("stop", First(config.stop, config.ownStop)),
            !.extra = Foreign \/ config.forced # Unset]

(* build_request_kwargs *)
OllamaKwargs(r) == [r EXCEPT !.think = IF config.think = Unset THEN Unset ELSE "as given"]

(* _chat_with_ollama: the schema, or the format by its name. *)
OllamaForm == CASE wish.schema -> "schema" [] wish.format = "none" -> "free" [] OTHER -> wish.format
OllamaChat == OllamaKwargs(OllamaOptions([Request EXCEPT !.tools = wish.tools, !.output = OllamaForm]))

(* _generate_ollama_response: a prompt of all texts, without tools or form. *)
OllamaGenerate == OllamaKwargs(OllamaOptions(Request))

OllamaRequest == IF target.api = "generate" THEN OllamaGenerate ELSE OllamaChat

(* ----------------------------------- Bedrock ----------------------------------- *)

(* normalize_config: only declared keys. *)
DeclaredConfig == ~Foreign /\ config.own = Unset /\ config.ownStop = Unset

(* build_inference_config *)
InferenceConfig(r) ==
  [r EXCEPT !.limits = IF config.limit = "zero" THEN {} ELSE OneOf("maxTokens", config.limit),
            !.stops = OneOf("stopSequences", config.stop)]

(* _requested_tool_choice: the config may name a tool. *)
RequestedChoice == IF wish.tools THEN First(config.forced, wish.choice) ELSE Unset

(* _to_bedrock_tool_choice *)
ConverseChoice ==
  CASE RequestedChoice \in {"required", "any"} -> "any" [] OTHER -> RequestedChoice
SendsTools == wish.tools /\ RequestedChoice # "none"

(* build_converse_request: an answer begun for the model cannot be offered tools, and *)
(* the choice may only name a tool that is there.                                   *)
ConverseRequest ==
  LET prefilled == roles # <<>> /\ roles[Len(roles)] = "model"
  IN IF ~DeclaredConfig \/ (SendsTools /\ (prefilled \/ ConverseChoice = "no such tool")) THEN Rejected
     ELSE InferenceConfig(
       [Request EXCEPT !.tools = SendsTools, !.choice = IF SendsTools THEN ConverseChoice ELSE Unset,
                       !.think = IF config.think = Unset THEN Unset ELSE "verbatim"])

(* ------------------------------------ Gemini ------------------------------------ *)

(* resolve_vertex_model_name: a tuned endpoint is named with its project, which a client  *)
(* of Vertex AI knows.                                                             *)
VertexName(name) == IF name = "endpoint" /\ target.vertex THEN "project endpoint" ELSE name

(* google_model_info of the model that will answer. *)
InfoOf(name) ==
  IF name = target.name THEN target.constrained
  ELSE IF \E m \in Models : m.name = name THEN (CHOOSE m \in Models : m.name = name).constrained
  ELSE "all"

(* _clean_unsupported_keys, split_sdk_fields: api_version picks the client, the other keys   *)
(* the API does not declare ride along.                                              *)
GeminiLeftovers ==
  config.unknown \/ config.betaField \/ config.model # Unset \/ config.own # Unset \/ config.ownStop # Unset

(* _genkit_to_googleai_cfg: a request with none of these carries no configuration, its      *)
(* schema neither.                                                                 *)
SendsConfig ==
  \/ \E field \in {"limit", "stop", "think", "forced"} : config[field] # Unset
  \/ GeminiLeftovers \/ wish.tools \/ wish.format # "none" \/ \E k \in DOMAIN roles : roles[k] = "system"

(* _genkit_to_googleai_cfg, the output: the offered tools count, the built-in ones do not. *)
GeminiOutput(r) ==
  IF ~SendsConfig \/ ~HoldsForm(InfoOf(AnsweringModel), wish.tools) THEN r
  ELSE [r EXCEPT !.output = CASE wish.schema /\ Constrained -> "schema"
                              [] wish.format = "json" -> "json"
                              [] OTHER -> "free"]

(* _extract_tools_from_config: built-in tools, and a choice that only the config makes. *)
GeminiTools(r) == [r EXCEPT !.tools = wish.tools, !.choice = config.forced]

(* _genkit_to_googleai_cfg: unknown keys ride on the body. *)
GeminiRequest ==
  GeminiTools(GeminiOutput(
    [Request EXCEPT !.model = VertexName(AnsweringModel), !.limits = OneOf("max_output_tokens", config.limit),
                    !.stops = OneOf("stop_sequences", config.stop), !.extra = GeminiLeftovers,
                    !.think = IF config.think = Unset THEN Unset ELSE "config", !.key = config.key]))

(* ------------------------------------- calls ------------------------------------- *)

WireRequest ==
  CASE Provider = "openai" -> OpenAIRequest
    [] Provider = "anthropic" -> AnthropicRequest
    [] Provider = "ollama" -> OllamaRequest
    [] Provider = "bedrock" -> ConverseRequest
    [] OTHER -> GeminiRequest

WireInit == sent = Rejected /\ rounds = 0 /\ loop = "new"

(* generate: format and model are looked up once. *)
BeginCall ==
  /\ loop = "new"
  /\ loop' = IF Resolves THEN "asking" ELSE "refused"
  /\ UNCHANGED <<target, wish, roles, sent, rounds>>

(* call_model: to_model_request, and the plugin writes its own.  A plugin that raises     *)
(* ends the call; the loop itself is module Generate.      *)
AskProvider ==
  /\ loop = "asking"
  /\ sent' = WireRequest
  /\ loop' = IF sent'.ok THEN "asked" ELSE "refused"
  /\ UNCHANGED <<target, wish, roles, rounds>>

(* A model that obeys its request. *)
MayCall == sent.tools /\ sent.choice # "none"
MustCall == MayCall /\ sent.choice \notin {Unset, "auto", "none"}

ModelObeys ==
  /\ loop = "asked" /\ ~MustCall
  /\ roles' = Append(roles, "model") /\ loop' = "answered"
  /\ UNCHANGED <<target, wish, sent, rounds>>

(* run_tools_or_stop: up to max_turns, the tools run and the next turn begins; a tool that *)
(* was never offered ends the call.                                                  *)
CallTools ==
  /\ loop = "asked" /\ MayCall
  /\ IF rounds = MaxRounds THEN loop' = "exhausted" /\ UNCHANGED <<roles, rounds>>
     ELSE IF sent.choice = "no such tool" THEN loop' = "refused" /\ UNCHANGED <<roles, rounds>>
     ELSE /\ roles' = roles \o <<"model", "tool">>
          /\ rounds' = rounds + 1 /\ loop' = "asking"
  /\ UNCHANGED <<target, wish, sent>>

WireNext == BeginCall \/ AskProvider \/ ModelObeys \/ CallTools

(* ---------------------------------- properties ---------------------------------- *)

Sent == loop \in {"asked", "answered", "exhausted"}

(* A call is refused for what it asks before any tool ran: no round after the first    *)
(* finds its request refused, with tools that have already done their work.          *)
RefusedBeforeToolsRun == loop = "refused" => rounds = 0

(* In every round a JSON answer with a schema is asked for, and one way only: held by   *)
(* the provider or told.  Converse and the generate API of Ollama ask for none, nor does *)
(* Gemini of a model that cannot hold one next to tools, nor of one left unconstrained. *)
SchemaIsAskedOnce ==
  Sent /\ wish.format = "json" /\ wish.schema =>
    /\ ~(sent.output = "schema" /\ sent.told)
    /\ Provider \in {"openai", "anthropic"} \/ (Provider = "ollama" /\ target.api # "generate")
         => sent.output = "schema" \/ sent.told
    /\ Provider = "gemini" /\ Constrained /\ InfoOf(AnsweringModel) = "all" => sent.output = "schema"

(* The loop ends when the model wants it to: one that may not answer was told so by the  *)
(* caller, and over OpenAI by its configuration once a tool has run; and a call that       *)
(* forbids tools or brings none has none called, over the providers that can forbid them. *)
LoopIsTheModels ==
  Sent /\ MustCall =>
    /\ wish.tools
    /\ wish.choice = "required" \/ (config.forced # Unset /\ Provider # "ollama")
    /\ Provider = "openai" /\ config.forced = Unset => rounds = 0
NoneIsHeld ==
  /\ Sent /\ wish.choice = "none" /\ config.forced = Unset /\ Provider \in {"openai", "bedrock"} => ~MayCall
  /\ rounds > 0 => wish.tools

(* A limit and the stop sequences travel in one field each, one the model that answers  *)
(* knows, and the provider's own spelling of a limit is the one that counts.           *)
KnobsTravelOnce ==
  Sent =>
    /\ Cardinality(sent.limits) <= 1 /\ Cardinality(sent.stops) <= 1
    /\ config.limit \notin {Unset, "zero"} => sent.limits # {}
    /\ config.stop # Unset => sent.stops # {}
    /\ Provider = "openai" /\ sent.model \in Reasoning =>
         \A l \in sent.limits : l[1] = "max_completion_tokens"
    /\ Provider \in {"openai", "ollama"} /\ config.own # Unset =>
         \A l \in sent.limits : l[2] = config.own

(* A field of Anthropic's beta surface never goes to the stable one. *)
FieldsReachTheirSurface == Sent /\ Provider = "anthropic" /\ config.betaField => sent.beta

(* What a call asks for holds in every round of its loop, whichever provider it is sent  *)
(* to (models of the plugins, _generate.py).                                       *)
WishesHold ==
  /\ RefusedBeforeToolsRun /\ SchemaIsAskedOnce /\ LoopIsTheModels /\ NoneIsHeld
  /\ KnobsTravelOnce /\ FieldsReachTheirSurface
=============================================================================
