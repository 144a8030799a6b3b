------------------------------ MODULE MCServices ------------------------------
(* The services around a generation, each behaviour one of them: the registry,   *)
(* the connection to the dev UI, a streamed action, a plugin's catalogue, a        *)
(* background job, a batch of inputs, a call of an SDK on threads, a process in dev     *)
(* mode.  They share no state.                                                    *)
EXTENDS Registry, ReflectionV2, ActionStream, PluginCatalog, BackgroundJobs, Batches,
        BedrockTransport, DevProcess

VARIABLE part   \* the service of this behaviour; never changes

Parts == {"registry", "reflection", "stream", "catalog", "job", "batch", "transport", "process"}

(* The parameters of a service, pinned to one value in the others' behaviours.     *)
Chosen(p, choices) == IF part = p THEN choices ELSE {CHOOSE c \in choices : TRUE}

Init ==
  /\ part \in Parts
  /\ plan \in Chosen("registry", Plans) /\ RegistryInit
  /\ load \in Chosen("reflection", Loads) /\ ReflectionInit
  /\ surface \in Chosen("stream", Surfaces) /\ StreamInit
  /\ shop \in Chosen("catalog", Shops)
  /\ remote \in Chosen("catalog", {{n} : n \in NamesOf(shop)}) /\ CatalogInit
  /\ request \in Chosen("job", Jobs) /\ JobsInit
  /\ batch \in Chosen("batch", BatchRequests) /\ BatchInit
  /\ setting \in Chosen("transport", Settings) /\ TransportInit
  /\ process \in Chosen("process", Processes) /\ DevInit

Others(p) ==
  /\ p # "registry" => UNCHANGED registryVars
  /\ p # "reflection" => UNCHANGED reflVars
  /\ p # "stream" => UNCHANGED streamVars
  /\ p # "catalog" => UNCHANGED catalogVars
  /\ p # "job" => UNCHANGED jobVars
  /\ p # "batch" => UNCHANGED batchVars
  /\ p # "transport" => UNCHANGED transportVars
  /\ p # "process" => UNCHANGED devVars

Next ==
  /\ \/ part = "registry" /\ RegistryNext
     \/ part = "reflection" /\ ReflectionNext
     \/ part = "stream" /\ StreamNext
     \/ part = "catalog" /\ CatalogNext
     \/ part = "job" /\ JobsNext
     \/ part = "batch" /\ BatchNext
     \/ part = "transport" /\ TransportNext
     \/ part = "process" /\ DevNext
  /\ Others(part) /\ UNCHANGED part

(* What each service does by itself, as its own specification says.              *)
System ==
  /\ \/ part = "registry" /\ Scheduled /\ UNCHANGED plan
     \/ part = "reflection" /\ ReflectionSystem /\ UNCHANGED load
     \/ part = "stream" /\ StreamSystem
     \/ part = "job" /\ JobsSystem
     \/ part = "transport" /\ TransportSystem
     \/ part = "process" /\ DevSystem
  /\ Others(part) /\ UNCHANGED part

vars == <<part, registryVars, reflVars, streamVars, catalogVars, jobVars, batchVars,
          transportVars, devVars>>
Spec == Init /\ [][Next]_vars /\ WF_vars(System)

(* Calls of a service in bulk or on threads: each input has its own answer, and no call   *)
(* leaves a connection open or another's settings behind (embedders.py, transport.py).    *)
CallsAreAccounted == AnswersMatchInputs /\ CallsLeaveNothing

(* Nobody waits for ever: registry calls end, dev runs end, a stream's reader is   *)
(* told the outcome, a polled job's handle is one day done, a call of an SDK ends, a     *)
(* process that is told to stop ends.                                              *)
EveryWaitEnds == CallsEnd /\ RunsEnd /\ ReaderIsTold /\ PollsEnd /\ CallsAreReleased /\ StopsWhenTold

(* ------------------------------ the instances ------------------------------ *)

(* Registry: two loops, the application's and the dev server's, two tasks on the *)
(* first; one plugin at the start and one that comes later.                     *)
MCLoopOf == [t \in Tasks |-> IF t = "dev" THEN "devLoop" ELSE "appLoop"]
MCPluginOf == [n \in {"made", "later", "asked", "unknown", "prompt", "remote"} |->
                 CASE n \in {"made", "asked", "unknown"} -> "early"
                   [] n = "later" -> "late"
                   [] OTHER -> None]
MCInitGives == [p \in Plugins |-> IF p = "early" THEN {"made"} ELSE {"later"}]
MCResolvable == [p \in Plugins |-> IF p = "early" THEN {"asked"} ELSE {}]
MCOwn == [r \in {"root", "child"} |-> IF r = "root" THEN {"prompt"} ELSE {}]
Ask(n, r) == [op |-> "resolve", name |-> n, reg |-> r]
List(r) == [op |-> "list", name |-> "prompt", reg |-> r]
Made == Ask("made", "child")
Prompt == Ask("prompt", "root")
Remote == Ask("remote", "child")
Plan(a, b, c) == [t \in Tasks |-> CASE t = "app1" -> a [] t = "app2" -> b [] OTHER -> c]
MCPlans ==
  {Plan(p[1], p[2], None) : p \in {<<Made, Made>>, <<Made, List("root")>>,
      <<Ask("asked", "root"), Ask("unknown", "child")>>, <<Prompt, Prompt>>,
      <<List("root"), List("child")>>, <<Remote, Remote>>}}
  \union
  {Plan(p[1], None, p[2]) : p \in {<<Made, List("root")>>, <<Prompt, Prompt>>,
      <<Prompt, List("root")>>, <<Remote, Remote>>}}

(* Reflection: a one-shot run over two connections, an agent run over two, and the *)
(* two at once, without chunks, on one connection with all writes answered.       *)
Load(runs, chunks, conns, failures) ==
  [runs |-> runs, chunks |-> chunks, conns |-> conns, timeouts |-> failures]
MCLoads == {Load({"r1"}, 2, 2, 1), Load({"r2"}, 1, 2, 1), Load({"r1", "r2"}, 0, 1, 0)}

(* Jobs of each kind of model, with every order of hooks, and per-request keys.    *)
Hooks == {"pass", "drop", "raise"}
Job(s, n, e, hooks, k, p) ==
  [shop |-> s, name |-> n, entry |-> e, key |-> k, passes |-> p,
   model |-> hooks[1], inner |-> hooks[2], outer |-> hooks[3]]
Plain == <<"pass", "pass", "pass">>
MCJobs ==
  {Job("googleai", {"veo-"}, "generate", h, FALSE, "nothing") : h \in Hooks \X Hooks \X Hooks}
  \union {Job("googleai", n, e, <<m, "pass", "pass">>, k, p) :
            n \in {{"veo-"}, {"deep-research-"}}, e \in {"generate", "generate_operation"},
            m \in {"pass", "drop"}, k \in BOOLEAN, p \in {"nothing", "config", "context"}}
  \union {Job("vertexai", {"veo-"}, "generate", Plain, FALSE, "nothing")}

(* Dev processes: with the default handlers and with handlers of their own, made on the   *)
(* main thread or on another, that catch what a signal raises or do not.                *)
DevKind(i, t, o, c) == [int |-> i, term |-> t, onMain |-> o, catches |-> c]
MCProcesses ==
  {DevKind("default", "default", o, c) : o \in BOOLEAN, c \in BOOLEAN}
  \union {DevKind("ignore", "default", TRUE, FALSE), DevKind("returns", "returns", TRUE, FALSE)}

(* Batches: what one input and two can be for each family, five for the calls that    *)
(* overtake each other, test cases with and without what their evaluator needs.        *)
BatchOf(k, f, i) == [kind |-> k, family |-> f, inputs |-> i]
Documents2 == BoundedSeq({"text", "both", "gif", "remote", "none", "image"}, 2)
MCBatchRequests ==
  {BatchOf("embed", f, i) : f \in {"titan_text", "titan_multimodal", "google_multimodal", "cohere_v4"},
                            i \in Documents2}
  \union {BatchOf("embed", f, i) : f \in {"openai", "googleai_text", "ollama"},
                                   i \in BoundedSeq({"text", "texts", "none"}, 2)}
  \union {BatchOf("embed", f, <<"text", "both", "text", "text", "text">>) : f \in {"cohere_v3", "nova"}}
  \union {BatchOf("evaluate", "genkitEval", i) : i \in BoundedSeq({"match", "differs", "no output"}, 2)}
  \union {BatchOf("evaluate", "vertexai", i) : i \in BoundedSeq({"attribute", "plain"}, 3)}
  \union {BatchOf("rank", "", i) : i \in Documents2}

(* Transport: what each of an argument, the session and the environment may say about   *)
(* timeouts and retries, with a region and without one.                              *)
Says(who, keys) == {[k \in Keys |-> IF k \in said THEN who ELSE Unset] : said \in SUBSET keys}
Setting(a, s, e, t) == [argument |-> a, session |-> s, ambient |-> e, ownSession |-> TRUE, timeout |-> t]
Nothing == [k \in Keys |-> Unset]
MCSettings ==
  {Setting([a EXCEPT !["region"] = "argument"], s, e, TRUE) :
     a \in Says("argument", {"read_timeout", "max_attempts"}),
     s \in Says("session", {"read_timeout", "max_attempts", "retry_mode"}),
     e \in Says("ambient", {"max_attempts", "retry_mode"})}
  \union {Setting(Nothing, Nothing, Nothing, TRUE), Setting([Nothing EXCEPT !["region"] = "a"], Nothing, Nothing, FALSE)}
=============================================================================
