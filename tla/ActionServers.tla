---------------------------- MODULE ActionServers ----------------------------
(* Actions behind HTTP: the FastAPI, Flask and Django handlers and the dev server's        *)
(* runAction.  A request is refused by its shape, or its action runs and the reply tells    *)
(* the outcome, whole or as frames.  Also how a provider's failure is classified on its     *)
(* way to a client, or to the middleware that tries again.                               *)
EXTENDS Integers, FiniteSetsExt

CONSTANTS HttpRequests,    \* requests of one server, in flight together
          Sites,       \* servers with what each request asks and how its action ends
          MaxFrames,   \* bound: chunks of one action
          None

ASSUME FramesCounted == MaxFrames \in Nat

ASSUME SitesAssumption ==
  \A s \in Sites :
    /\ s.server \in {"fastapi", "flask", "django", "dev"}
    /\ s.asks \in [HttpRequests -> [shape : {"data", "shorthand", "empty", "other"}, stream : BOOLEAN,
                                    ends : {"value", "unserializable", "caused", "uncaused", "invalid"}]]

VARIABLES
  site,      \* [server, asks: request -> [shape, stream, ends]]; never changes
  act,       \* per request: its action: none, running, cancelling, or its end
  chunks,    \* per request: chunks its action sent
  reply,     \* per request: waiting, sending, complete, broken, abandoned; what was sent
  driver,    \* Flask: the request that runs the one loop of the handlers
  active     \* dev server: requests that can be cancelled, by their trace

serverVars == <<site, act, chunks, reply, driver, active>>

ServersInit ==
  /\ site \in Sites
  /\ act = [q \in HttpRequests |-> "none"] /\ chunks = [q \in HttpRequests |-> 0]
  /\ reply = [q \in HttpRequests |-> [is |-> "waiting", chunks |-> 0, last |-> "nothing yet"]]
  /\ driver = None /\ active = {}

Ask(q) == site.asks[q]
Server == site.server
Streams(q) == Ask(q).stream

(* ------------------------------ failures ------------------------------ *)

Statuses == {"INVALID_ARGUMENT", "UNAUTHENTICATED", "PERMISSION_DENIED", "NOT_FOUND",
             "DEADLINE_EXCEEDED", "ABORTED", "RESOURCE_EXHAUSTED", "CANCELLED", "UNKNOWN",
             "INTERNAL", "UNIMPLEMENTED", "UNAVAILABLE"}

(* _HTTP_CODE_TO_STATUS without its overlay: two of the codes several statuses share, the     *)
(* last in the table wins.                                                                 *)
LastInTable(code) ==
  CASE code = 400 -> "OUT_OF_RANGE" [] code = 401 -> "UNAUTHENTICATED" [] code = 403 -> "PERMISSION_DENIED"
    [] code = 404 -> "NOT_FOUND" [] code = 409 -> "ABORTED" [] code = 429 -> "RESOURCE_EXHAUSTED"
    [] code = 499 -> "CANCELLED" [] code = 500 -> "DATA_LOSS" [] code = 501 -> "UNIMPLEMENTED"
    [] code = 503 -> "UNAVAILABLE" [] code = 504 -> "DEADLINE_EXCEEDED"
    [] OTHER -> IF code >= 500 THEN "INTERNAL" ELSE "UNKNOWN"

FromHttpCode(code) ==
  CASE code = 400 -> "INVALID_ARGUMENT" [] code = 408 -> "DEADLINE_EXCEEDED" [] code = 500 -> "INTERNAL"
    [] OTHER -> LastInTable(code)

ModelPlugins == {"openai", "anthropic", "gemini", "gemini stream", "ollama", "interactions", "bedrock"}

(* What a model plugin raises for a failure of its provider, as a status, or Raw: an exception   *)
(* that is no GenkitError.  A failure is an HTTP status, Bedrock's name for one, a call that      *)
(* timed out, could not connect or was dropped, an answer nobody can read, or a request that      *)
(* cannot be sent; and what its Retry-After header says.                                  *)
Raw == "raw"

(* http_code and wrap_http_error: what is no failure status stays unclassified.              *)
WrapHttpError(code) == IF code \in 400..599 THEN FromHttpCode(code) ELSE Raw

OpenAIRaises(f) ==
  CASE f.how = "http" -> WrapHttpError(f.code)
    [] f.how = "unreadable" -> "INTERNAL"
    [] f.how = "misused" -> "INVALID_ARGUMENT"
    [] OTHER -> Raw

(* Only the SDK's errors are caught: a request that cannot be built is the caller's.         *)
AnthropicRaises(f) ==
  CASE f.how = "http" -> IF f.code = 529 THEN "UNAVAILABLE" ELSE FromHttpCode(f.code)
    [] f.how \in {"timeout", "unreachable", "dropped"} -> "UNKNOWN"
    [] OTHER -> Raw

GeminiRaises(f) == IF f.how = "http" THEN WrapHttpError(f.code) ELSE "INTERNAL"
GeminiStreamRaises(f) == IF f.how = "http" THEN WrapHttpError(f.code) ELSE Raw

(* Ollama's transport failures, timeouts too, are a ConnectionError.                       *)
OllamaConnectionError == Raw
OllamaRaises(f) ==
  CASE f.how = "http" -> WrapHttpError(f.code)
    [] f.how = "unreadable" -> "INTERNAL"
    [] f.how = "misused" -> "INVALID_ARGUMENT"
    [] OTHER -> OllamaConnectionError

InteractionsRaises(f) ==
  CASE f.how = "http" -> FromHttpCode(f.code)
    [] f.how = "timeout" -> "DEADLINE_EXCEEDED"
    [] f.how = "unreadable" -> "INTERNAL"
    [] OTHER -> "UNKNOWN"

BedrockCode(name) ==
  CASE name \in {"ThrottlingException", "TooManyRequestsException", "ServiceQuotaExceededException"} ->
         "RESOURCE_EXHAUSTED"
    [] name \in {"UnrecognizedClientException", "ExpiredTokenException"} -> "UNAUTHENTICATED"
    [] name \in {"ModelNotReadyException", "ServiceUnavailableException"} -> "UNAVAILABLE"
    [] name \in {"ModelErrorException", "InternalServerException", "ModelStreamErrorException"} -> "INTERNAL"
    [] name = "ModelTimeoutException" -> "DEADLINE_EXCEEDED"
    [] name = "ValidationException" -> "INVALID_ARGUMENT"
    [] name = "AccessDeniedException" -> "PERMISSION_DENIED"
    [] name = "ResourceNotFoundException" -> "NOT_FOUND"
    [] OTHER -> "UNKNOWN"

(* Failures that never reached the service carry no code: botocore's types, else UNKNOWN.      *)
BotocoreError(how) ==
  CASE how = "timeout" -> "DEADLINE_EXCEEDED"
    [] how = "unreachable" -> "UNAVAILABLE"
    [] how = "misused" -> "INVALID_ARGUMENT"
    [] OTHER -> "UNKNOWN"

BedrockRaises(f) == IF f.how = "service" THEN BedrockCode(f.code) ELSE BotocoreError(f.how)

Raised(plugin, f) ==
  CASE plugin = "openai" -> OpenAIRaises(f)
    [] plugin = "anthropic" -> AnthropicRaises(f)
    [] plugin = "gemini" -> GeminiRaises(f)
    [] plugin = "gemini stream" -> GeminiStreamRaises(f)
    [] plugin = "ollama" -> OllamaRaises(f)
    [] plugin = "interactions" -> InteractionsRaises(f)
    [] plugin = "bedrock" -> BedrockRaises(f)

(* Retry-After in milliseconds, or NoHint: seconds that are negative or too many to scale are      *)
(* tried as a date, which they are not; a date that has passed is now.                        *)
NoHint == -1
ParseRetryAfter(header) ==
  CASE header.form = "seconds" -> IF header.ms >= 0 THEN header.ms ELSE NoHint
    [] header.form = "date" -> Max({0, header.ms})
    [] OTHER -> NoHint

(* The hint that reaches Retry: off the answer of a failure that was classified.  Ollama's        *)
(* errors carry no headers.                                                             *)
RetryHint(plugin, f) ==
  IF f.how \in {"http", "service"} /\ plugin # "ollama" /\ Raised(plugin, f) # Raw
  THEN ParseRetryAfter(f.after) ELSE NoHint

(* RetryConfig's defaults, in milliseconds; the delay doubles up to the cap.                   *)
MaxRetries == 3
InitialDelay == 1000
MaxDelay == 60000
Backoff[attempt \in 0..MaxRetries] ==
  IF attempt = 0 THEN InitialDelay ELSE Min({2 * Backoff[attempt - 1], MaxDelay})

(* Retry's wait after a failed attempt: what the provider asked, if that is longer, and some       *)
(* jitter, within the cap.                                                               *)
RetryWait(attempt, hint, jitter) == Min({Max({Backoff[attempt], hint}) + jitter, MaxDelay})

(* The fault of taking the provider's hint for the wait.                                    *)
RetryWaitAsAsked(attempt, hint, jitter) == IF hint # NoHint THEN hint ELSE Backoff[attempt]

(* A model's action wraps what is no GenkitError, with its cause: INTERNAL.                *)
Wrapped(raised) == IF raised = Raw THEN "INTERNAL" ELSE raised

RetryStatuses == {"UNAVAILABLE", "DEADLINE_EXCEEDED", "RESOURCE_EXHAUSTED", "ABORTED", "INTERNAL"}

(* ------------------------------ a request ------------------------------ *)

(* Shapes of a body: a wrapped input, one of the client shorthands, an empty object, anything    *)
(* else; for the dev server, a key that names an action or none.                             *)
Understood(q) ==
  \/ Ask(q).shape = "data"
  \/ Server = "fastapi" /\ Ask(q).shape \in {"shorthand", "empty"}

(* The message of an error a handler sends: an error without a cause has none under FastAPI      *)
(* and Flask, which send its cause.                                                     *)
Told(failure) ==
  IF failure = "uncaused" /\ Server \in {"fastapi", "flask"} THEN "error: nothing" ELSE "error: own"

Refuse(q) ==
  /\ act[q] = "none" /\ reply[q].is = "waiting" /\ ~Understood(q)
  /\ reply' = [reply EXCEPT ![q].is = "complete",
                 ![q].last = IF Server \in {"flask", "dev"} THEN "error: own" ELSE Told("uncaused")]
  /\ UNCHANGED <<site, act, chunks, driver, active>>

(* The context provider fails: Django tells, the others leave it to their framework.  FastAPI  *)
(* asks it before it looks at the shape.                                                   *)
ProviderFails(q) ==
  /\ act[q] = "none" /\ reply[q].is = "waiting" /\ Server # "dev" /\ driver # q
  /\ Understood(q) \/ Server = "fastapi"
  /\ reply' = [reply EXCEPT ![q].is = "complete",
                 ![q].last = IF Server = "django" THEN "error: own" ELSE "error: framework"]
  /\ UNCHANGED <<site, act, chunks, driver, active>>

(* The action is started: a stream's reply begins at once, the dev server's when the trace      *)
(* has started or the run failed before it.                                              *)
Launch(q) ==
  /\ act[q] = "none" /\ reply[q].is = "waiting" /\ Understood(q)
  /\ Server = "flask" /\ Streams(q) => driver = q
  /\ act' = [act EXCEPT ![q] = IF Server = "dev" THEN "starting" ELSE "running"]
  /\ reply' = IF Streams(q) /\ Server # "dev" THEN [reply EXCEPT ![q].is = "sending"] ELSE reply
  /\ UNCHANGED <<site, chunks, driver, active>>

(* on_trace_start: from here the run can be cancelled by its trace.                        *)
TraceStarts(q) ==
  /\ act[q] = "starting" /\ Ask(q).ends # "invalid"
  /\ act' = [act EXCEPT ![q] = "running"]
  /\ active' = active \union {q}
  /\ reply' = [reply EXCEPT ![q].is = IF @ = "waiting" THEN "sending" ELSE @]
  /\ UNCHANGED <<site, chunks, driver>>

(* Flask's actions move only while some request drives the handlers' loop; a whole reply       *)
(* has a loop of its own.                                                              *)
Moves(q) == Server # "flask" \/ ~Streams(q) \/ driver # None

SendChunk(q) ==
  /\ act[q] = "running" /\ Moves(q) /\ Streams(q) /\ chunks[q] < MaxFrames
  /\ chunks' = [chunks EXCEPT ![q] = @ + 1]
  /\ UNCHANGED <<site, act, reply, driver, active>>

(* The run ends; the dev server's is forgotten.                                           *)
ActionEnds(q) ==
  /\ Moves(q)
  /\ \/ act[q] = "running" \/ (act[q] = "starting" /\ Ask(q).ends = "invalid")
     \/ act[q] = "cancelling"
  /\ act' = [act EXCEPT ![q] = IF @ = "cancelling" THEN "cancelled" ELSE Ask(q).ends]
  /\ active' = active \ {q}
  /\ reply' = IF Server = "dev" THEN [reply EXCEPT ![q].is = IF @ = "waiting" THEN "sending" ELSE @] ELSE reply
  /\ UNCHANGED <<site, chunks, driver>>

Over(q) == act[q] \notin {"none", "starting", "running", "cancelling"}
Failed(q) == act[q] \in {"caused", "uncaused", "invalid", "cancelled"}

(* What a whole reply, and the last frame of a stream, say of the outcome.                   *)
LastWords(q) ==
  CASE act[q] = "value" -> "result"
    [] act[q] = "cancelled" -> "nothing"
    [] act[q] = "unserializable" ->
         IF Streams(q) \/ Server \in {"django", "dev"} THEN "error: own" ELSE "error: framework"
    [] act[q] = "invalid" -> "error: own"
    [] OTHER -> Told(act[q])

Whole(q) ==
  /\ Over(q) /\ ~Streams(q) /\ reply[q].is \in {"waiting", "sending"}
  /\ reply' = [reply EXCEPT ![q].is = "complete", ![q].last = LastWords(q)]
  /\ UNCHANGED <<site, act, chunks, driver, active>>

(* Flask: the server asks the body for its next frame, which runs the loop until there is one.    *)
(* A loop that already runs, for another request in another thread, refuses.                  *)
Drive(q) ==
  /\ Server = "flask" /\ Streams(q) /\ Understood(q) /\ reply[q].is \in {"waiting", "sending"} /\ driver # q
  /\ IF driver = None THEN driver' = q /\ UNCHANGED reply
     ELSE reply' = [reply EXCEPT ![q].is = "broken"] /\ UNCHANGED driver
  /\ UNCHANGED <<site, act, chunks, active>>

MayFrame(q) ==
  /\ Streams(q) /\ reply[q].is = "sending" /\ (Server = "flask" => driver = q)

Frame(q) ==
  /\ MayFrame(q) /\ reply[q].chunks < chunks[q]
  /\ reply' = [reply EXCEPT ![q].chunks = @ + 1]
  /\ driver' = None
  /\ UNCHANGED <<site, act, chunks, active>>

(* The fault of writing the last frame when the run ends, whatever is still in the channel.      *)
LastFrameAtOnce(q) ==
  /\ MayFrame(q) /\ Over(q)
  /\ reply' = [reply EXCEPT ![q].is = "complete", ![q].last = LastWords(q)]
  /\ driver' = None
  /\ UNCHANGED <<site, act, chunks, active>>

(* The last frame, after the chunks of a run that returned.  A run that failed ends the        *)
(* iteration although chunks sent at the very end are still in the channel; the dev server's     *)
(* one queue keeps the order.                                                           *)
LastFrame(q) ==
  /\ MayFrame(q) /\ Over(q)
  /\ reply[q].chunks = chunks[q] \/ (Failed(q) /\ Server # "dev")
  /\ reply' = [reply EXCEPT ![q].is = "complete", ![q].last = LastWords(q)]
  /\ driver' = None
  /\ UNCHANGED <<site, act, chunks, active>>

(* The client goes away.  The dev server's body cancels its run as it closes; the others'       *)
(* runs go on without it.  Flask notices between two frames.                               *)
Disconnect(q) ==
  /\ reply[q].is = "sending" /\ driver # q
  /\ reply' = [reply EXCEPT ![q].is = "abandoned"]
  /\ act' = IF Server = "dev" /\ act[q] = "running" THEN [act EXCEPT ![q] = "cancelling"] ELSE act
  /\ UNCHANGED <<site, chunks, driver, active>>

(* /api/cancelAction *)
CancelAction(q) ==
  /\ q \in active /\ act[q] = "running"
  /\ act' = [act EXCEPT ![q] = "cancelling"]
  /\ UNCHANGED <<site, chunks, reply, driver, active>>

ServersSystem ==
  \E q \in HttpRequests :
    \/ Refuse(q) \/ Launch(q) \/ TraceStarts(q) \/ ActionEnds(q)
    \/ Whole(q) \/ Drive(q) \/ Frame(q) \/ LastFrame(q)

ServersNext ==
  \/ ServersSystem
  \/ \E q \in HttpRequests : ProviderFails(q) \/ SendChunk(q) \/ Disconnect(q) \/ CancelAction(q)

ServersSpec == ServersInit /\ [][ServersNext]_serverVars

(* -------------------------------- properties -------------------------------- *)

(* A complete reply tells what became of the action, once: the result behind all of its         *)
(* chunks, an error for every run that failed, nothing only for a run that was cancelled; and     *)
(* a run that can be cancelled is one that runs.                                          *)
RepliesTellTheRun ==
  /\ \A q \in HttpRequests : reply[q].is = "complete" =>
       LET last == reply[q].last
       IN /\ last = "result" <=> act[q] = "value"
          /\ last = "nothing" <=> act[q] = "cancelled"
          /\ last = "result" => reply[q].chunks = chunks[q]
          /\ Server \in {"django", "dev"} /\ ~(last \in {"result", "nothing"}) => last = "error: own"
  /\ \A q \in active : act[q] \in {"running", "cancelling"}

(* A provider's failure means the same whatever the plugin: what may pass is tried again, the      *)
(* caller's own mistake is not.  Anthropic's plugin alone has no status for a timeout, and a       *)
(* request that cannot be sent is classified by OpenAI's, Ollama's and Bedrock's only.         *)
TransientIsRetried ==
  LET Retries(plugin, f) == Wrapped(Raised(plugin, f)) \in RetryStatuses
      Http(code) == [how |-> "http", code |-> code]
      Service(name) == [how |-> "service", code |-> name]
      HttpPlugins == ModelPlugins \ {"bedrock"}
  IN /\ \A plugin \in HttpPlugins :
          /\ \A code \in {408, 409, 429, 500, 502, 503, 504, 529} : Retries(plugin, Http(code))
          /\ \A code \in {400, 401, 403, 404, 413, 422, 499, 501} : ~Retries(plugin, Http(code))
     /\ \A name \in {"ThrottlingException", "ModelTimeoutException", "ServiceUnavailableException",
                     "ModelStreamErrorException"} : Retries("bedrock", Service(name))
     /\ \A name \in {"ValidationException", "AccessDeniedException", "ResourceNotFoundException"} :
          ~Retries("bedrock", Service(name))
     /\ \A plugin \in ModelPlugins \ {"anthropic"} : Retries(plugin, [how |-> "timeout"])
     /\ \A plugin \in HttpPlugins : Retries(plugin, [how |-> "unreadable"])
     /\ \A plugin \in {"openai", "ollama", "bedrock"} : ~Retries(plugin, [how |-> "misused"])

(* A refusal for too many requests, with its Retry-After.                                  *)
Refused(plugin, form, ms) ==
  IF plugin = "bedrock"
  THEN [how |-> "service", code |-> "ThrottlingException", after |-> [form |-> form, ms |-> ms]]
  ELSE [how |-> "http", code |-> 429, after |-> [form |-> form, ms |-> ms]]

(* The header's waits and the jitters the property goes through.                             *)
HeaderWaits == {-5, 0, 400, 7000, 90000}
HeaderForms == {"seconds", "date", "words"}
Jitter(attempt) == {0, 1000 * 2 ^ attempt}
HintIsKept(plugin, attempt, ms, form, jitter) ==
  LET wait == RetryWait(attempt, RetryHint(plugin, Refused(plugin, form, ms)), jitter)
  IN /\ wait <= MaxDelay
     /\ wait >= Backoff[attempt]
     /\ form # "words" => wait >= Min({ms, MaxDelay})

(* No attempt comes sooner than its provider asked, or than the backoff, as far as the cap on      *)
(* waiting allows; and no header makes a call wait past the cap.                               *)
RetryAfterIsKept ==
  \A plugin \in ModelPlugins \ {"ollama"} : \A attempt \in 0..MaxRetries - 1 :
  \A ms \in HeaderWaits : \A form \in HeaderForms : \A jitter \in Jitter(attempt) :
    HintIsKept(plugin, attempt, ms, form, jitter)

FailuresAreTold == RepliesTellTheRun /\ TransientIsRetried /\ RetryAfterIsKept

(* Every request whose action ends is answered, unless its client leaves or another request        *)
(* holds Flask's loop; and no run of the dev server outlives its client.                      *)
RequestsEnd ==
  \A q \in HttpRequests :
    (act[q] # "none") ~> \/ reply[q].is \in {"complete", "broken"}
                         \/ reply[q].is = "abandoned" /\ (Server = "dev" => Over(q))
=============================================================================
