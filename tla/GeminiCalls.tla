------------------------------ MODULE GeminiCalls ------------------------------
(* google.py and models/gemini.py: calls of a Gemini model that run at the same time. *)
(* Each picks its client, the plugin's or one made for the caller's key, address or    *)
(* location, stores the marked start of its conversation in the server's context      *)
(* cache and sends the rest.  Between any two requests other calls run and cached     *)
(* contents expire.                                                              *)
EXTENDS Integers, Sequences, FiniteSets

CONSTANTS
  Nil,        \* None
  Callers,       \* the calls
  GeminiPlugins, \* how a plugin may be made: [vertex, key, creds, project, location, base, options, adc]
  Asks,          \* the things a call may ask for: [key, slot, base, location, version, model, tools,
                 \* messages]; version says whether it asks for an api_version
  MultiRegions,  \* MULTI_REGIONAL_LOCATIONS
  Cacheable      \* CONTEXT_CACHE_SUPPORTED_MODELS

VARIABLES
  plugin,    \* the arguments of the plugin; never changes
  ask,       \* caller -> what it asks for; never changes
  call,      \* caller -> how far it is, and what it has put together
  caches,    \* cached contents of all servers: [id, server, name, model, contents]
  adc        \* _adc_project_probed and _adc_project_cache: "unprobed", a project or Nil

geminiVars == <<plugin, ask, call, caches, adc>>

Multi(location) == location \in MultiRegions
Host(location) == <<"rep", location>>          \* multi_regional_base_url
Either(a, b) == IF a # Nil THEN a ELSE b

(* ---------------------------------- clients ---------------------------------- *)

\* The project of given credentials, and of the application default ones: "late"
\* ones are there only after the plugin was made.
CredentialsProject(creds) == IF creds = "service" THEN "service project" ELSE Nil
DefaultProject(p, now) == IF p.adc = "always" \/ (p.adc = "late" /\ now) THEN "adc project" ELSE Nil

\* _inject_attribution_headers: an address given as an argument wins over that of the
\* HTTP options, whose owner's object is left alone.
GivenAddress(p) == Either(p.base, p.options)

\* VertexAI.__init__: a plugin without a project looks for one, with a key only where
\* its location demands one.
VertexKwargs(p) ==
  LET location == Either(p.location, "region")
      project == IF p.project # Nil \/ (p.key # Nil /\ ~Multi(location)) THEN p.project
                 ELSE Either(CredentialsProject(p.creds), DefaultProject(p, FALSE))
  IN [key |-> p.key, creds |-> p.creds, project |-> project, location |-> location,
      base |-> IF GivenAddress(p) = Nil /\ Multi(location) THEN Host(location)
               ELSE GivenAddress(p)]

\* GoogleAI.__init__
GoogleKwargs(p) ==
  [key |-> p.key, creds |-> p.creds, project |-> Nil, location |-> Nil,
   base |-> GivenAddress(p)]

Kwargs(p) == IF p.vertex THEN VertexKwargs(p) ELSE GoogleKwargs(p)

\* genai.Client: a key and a project exclude each other.
MakesClient(kwargs) == kwargs.key = Nil \/ kwargs.project = Nil

\* Both __init__: what they refuse.
Starts(p) ==
  IF p.vertex THEN Multi(Kwargs(p).location) => Kwargs(p).project # Nil
  ELSE p.key # Nil \/ p.creds # Nil

\* context_api_key, reject_request_config_api_key: a key anywhere but in the secrets, and
\* secrets without one.
KeyIsMisplaced(a) == a.key # Nil /\ a.slot # "secrets"
SecretsAreRefused(a) == KeyIsMisplaced(a) \/ (a.slot = "empty secrets" /\ a.key = Nil)
Secret(a) == a.key

\* A location means something to Vertex AI alone.
AskedLocation(a) == IF plugin.vertex THEN a.location ELSE Nil
KeepsPluginClient(a) ==
  Secret(a) = Nil /\ a.base = Nil /\ AskedLocation(a) = Nil /\ ~a.version

\* _resolve_request_client up to the project: the plugin's arguments with the call's over
\* them; a tenant's key drops the plugin's credentials, project, location and address.
OverriddenKwargs(a) ==
  LET own == Kwargs(plugin)
      moved == AskedLocation(a) # Nil /\ GivenAddress(plugin) = Nil
      address == IF ~moved THEN own.base
                 ELSE IF Multi(a.location) THEN Host(a.location) ELSE Nil
  IN IF Secret(a) # Nil
     THEN [key |-> a.key, creds |-> Nil, project |-> Nil, location |-> Nil,
           base |-> a.base]
     ELSE [own EXCEPT !.location = Either(AskedLocation(a), @),
                      !.base = IF a.base # Nil THEN a.base ELSE address]

NeedsProject(kwargs) == plugin.vertex /\ kwargs.project = Nil /\ kwargs.key = Nil

(* ----------------------------------- calls ----------------------------------- *)

NewCall == [at |-> "new", client |-> Nil, k |-> 1, contents |-> <<>>, cached |-> Nil,
            sent |-> <<>>]

GeminiInit ==
  /\ call = [c \in Callers |-> NewCall]
  /\ caches = {} /\ adc = "unprobed"

Set(c, r) == call' = [call EXCEPT ![c] = r]
Fail(c) == Set(c, [call[c] EXCEPT !.at = "failed"])

\* The end of _resolve_request_client, with the project there is.
WithClient(c, kwargs) ==
  LET stuck == \/ plugin.vertex /\ kwargs.project = Nil /\ Multi(kwargs.location)
               \/ ~MakesClient(kwargs)
  IN IF stuck THEN Fail(c) ELSE Set(c, [call[c] EXCEPT !.at = "building", !.client = kwargs])

\* generate: the plugin's client, made for the first call, comes before the request's own.
Resolve(c) ==
  /\ call[c].at = "new"
  /\ LET a == ask[c]
         kwargs == OverriddenKwargs(a)
         project == CredentialsProject(kwargs.creds)
     IN IF ~MakesClient(Kwargs(plugin)) \/ SecretsAreRefused(a) THEN Fail(c)
        ELSE IF KeepsPluginClient(a)
        THEN Set(c, [call[c] EXCEPT !.at = "building", !.client = Kwargs(plugin)])
        ELSE IF ~NeedsProject(kwargs) THEN WithClient(c, kwargs)
        ELSE IF project # Nil THEN WithClient(c, [kwargs EXCEPT !.project = project])
        ELSE IF adc # "unprobed" THEN WithClient(c, [kwargs EXCEPT !.project = adc])
        ELSE Set(c, [call[c] EXCEPT !.at = "probing"])
  /\ UNCHANGED <<plugin, ask, caches, adc>>

\* _adc_project: the thread has looked; calls that started together all look.
Probe(c) ==
  /\ call[c].at = "probing"
  /\ adc' = DefaultProject(plugin, TRUE)
  /\ WithClient(c, [OverriddenKwargs(ask[c]) EXCEPT !.project = adc'])
  /\ UNCHANGED <<plugin, ask, caches>>

\* validate_context_cache_request
MayCache(a) == a.model \in Cacheable /\ ~a.tools

Contents(a) == SelectSeq(a.messages, LAMBDA m : m.role # "system")
Texts(turns) == [k \in DOMAIN turns |-> turns[k].text]

\* _build_messages up to the next marked message, or to the end; a request has contents.
Build(c) ==
  /\ call[c].at = "building"
  /\ LET r == call[c]
         turns == Contents(ask[c])
         marks == {k \in r.k..Len(turns) : turns[k].cache}
         end == IF marks = {} THEN Len(turns) ELSE CHOOSE k \in marks : \A j \in marks : k <= j
         contents == r.contents \o Texts(SubSeq(turns, r.k, end))
     IN IF marks = {}
        THEN Set(c, [r EXCEPT !.at = "sending", !.k = end + 1,
                              !.contents = IF contents = <<>> THEN <<" ">> ELSE contents])
        ELSE IF ~MayCache(ask[c]) THEN Fail(c)
        ELSE Set(c, [r EXCEPT !.at = "listing", !.k = end + 1, !.contents = contents])
  /\ UNCHANGED <<plugin, ask, caches, adc>>

\* generate_cache_key
CacheKey(contents, model) == <<model, contents>>

\* The server the cache is kept on: that of the call's own client.
CacheServer(c) == call[c].client

\* _retrieve_cached_content: what the server lists under the key.
ListCaches(c) ==
  /\ call[c].at = "listing"
  /\ LET r == call[c]
         named == {e \in caches : /\ e.server = CacheServer(c)
                                  /\ e.name = CacheKey(r.contents, ask[c].model)}
     IN IF named = {} THEN Set(c, [r EXCEPT !.at = "creating"])
        ELSE \E e \in named : Set(c, [r EXCEPT !.at = "updating", !.cached = e.id])
  /\ UNCHANGED <<plugin, ask, caches, adc>>

Kept(r) == [r EXCEPT !.at = "building", !.contents = <<>>]

\* _retrieve_cached_content: its time is prolonged, if it is still there.
UpdateCache(c) ==
  /\ call[c].at = "updating"
  /\ IF \E e \in caches : e.id = call[c].cached THEN Set(c, Kept(call[c])) ELSE Fail(c)
  /\ UNCHANGED <<plugin, ask, caches, adc>>

\* _retrieve_cached_content: it is made; nobody looks whether another call just made it.
CreateCache(c) ==
  /\ call[c].at = "creating"
  /\ LET r == call[c]
         entry == [id |-> <<c, r.k>>, server |-> CacheServer(c), model |-> ask[c].model,
                   name |-> CacheKey(r.contents, ask[c].model), contents |-> r.contents]
     IN caches' = caches \union {entry} /\ Set(c, [Kept(r) EXCEPT !.cached = entry.id])
  /\ UNCHANGED <<plugin, ask, adc>>

\* generate: the request is sent; the server refuses contents it no longer has.
SendRequest(c) ==
  /\ call[c].at = "sending"
  /\ LET r == call[c]
     IN IF r.cached # Nil /\ ~\E e \in caches : e.id = r.cached THEN Fail(c)
        ELSE Set(c, [r EXCEPT !.at = "answered", !.sent =
               IF r.cached = Nil THEN <<>>
               ELSE <<CHOOSE e \in caches : e.id = r.cached>>])
  /\ UNCHANGED <<plugin, ask, caches, adc>>

\* The server drops cached contents whose time is over.
Expire ==
  /\ \E e \in caches : caches' = caches \ {e}
  /\ UNCHANGED <<plugin, ask, call, adc>>

GeminiNext ==
  \/ \E c \in Callers : \/ Resolve(c) \/ Probe(c) \/ Build(c) \/ ListCaches(c)
                        \/ UpdateCache(c) \/ CreateCache(c) \/ SendRequest(c)
  \/ Expire

(* --------------------------------- properties --------------------------------- *)

Finished == {c \in Callers : call[c].at = "answered"}
Placed == {c \in Callers : call[c].client # Nil}
Marks(a) == {k \in DOMAIN Contents(a) : Contents(a)[k].cache}

\* What an answered call's model read: the cached start and the contents of the request.
ModelReads(c) ==
  LET rest == SelectSeq(call[c].contents, LAMBDA t : t # " ")
  IN IF call[c].sent = <<>> THEN rest ELSE call[c].sent[1].contents \o rest

\* The model reads the conversation once, whichever call stored its start.
ReadsItsConversation ==
  \A c \in Finished : Cardinality(Marks(ask[c])) <= 1 => ModelReads(c) = Texts(Contents(ask[c]))

\* Whatever the other calls stored and whenever it expired, the start a model reads was
\* stored for that model on the server of the call's own client.
StartIsItsOwn ==
  \A c \in Finished : \A k \in DOMAIN call[c].sent : /\ call[c].sent[k].server = call[c].client
                                                     /\ call[c].sent[k].model = ask[c].model

\* A tenant's key travels without anything of the plugin's, never falls through to the
\* plugin's client, and a caller without one never travels with another's.
KeysTravelAlone ==
  \A c \in Placed :
    LET a == ask[c]
        client == call[c].client
    IN /\ ~SecretsAreRefused(a)
       /\ a.key # Nil => /\ client.key = a.key /\ client.creds = Nil
                            /\ client.project = Nil /\ client.base \in {a.base, Nil}
       /\ a.key = Nil => client.key = plugin.key /\ client.creds = plugin.creds

\* No request goes to the host of another location than its client's, and one to a
\* location of several regions names a project, however client and probe came about.
HostServesLocation ==
  \A c \in Placed :
    LET client == call[c].client
    IN /\ \A l \in MultiRegions : client.base = Host(l) => client.location = l
       /\ Multi(client.location) =>
            /\ client.project # Nil
            /\ client.base \in {Host(client.location), GivenAddress(plugin), ask[c].base}
            /\ client.base # Nil

\* Every call reaches its own account and place with its own conversation (gemini.py,
\* context_caching/utils.py, _secrets.py).
CallsAreTheirOwn ==
  ReadsItsConversation /\ StartIsItsOwn /\ KeysTravelAlone /\ HostServesLocation
=============================================================================
