------------------------------- MODULE MCApplication -------------------------------
(* What an application calls and what serves it, each behaviour one part of it:       *)
(* the requests and the tool loop of generate, the pauses of a tool round, a prompt, an   *)
(* action behind HTTP, and the exporters that tell of them.  The parts share no state. *)
EXTENDS ToolPauses, GenerateRequest, Prompts, ActionServers, TraceExport

CONSTANTS t, ghost

VARIABLE part   \* the part of this behaviour; never changes

Parts == {"loop", "pause", "request", "prompt", "server", "queue", "trace"}

(* The parameters of a part, pinned to one value in the others' behaviours.         *)
Chosen(p, choices) == IF part = p THEN choices ELSE {CHOOSE c \in choices : TRUE}

AppInit ==
  /\ part \in Parts
  /\ Init
  /\ pauseSite \in Chosen("pause", PauseSites) /\ PausesInit
  /\ RequestInit
  /\ job \in Chosen("prompt", Jobs) /\ PromptsInit
  /\ site \in Chosen("server", Sites) /\ ServersInit
  /\ sink \in Chosen("queue", Sinks) /\ QueueInit
  /\ tracedRun \in Chosen("trace", Runs) /\ TraceInit

Others(p) ==
  /\ p # "loop" => UNCHANGED vars
  /\ p # "pause" => UNCHANGED pauseVars
  /\ p # "request" => UNCHANGED requestVars
  /\ p # "prompt" => UNCHANGED promptVars
  /\ p # "server" => UNCHANGED serverVars
  /\ p # "queue" => UNCHANGED queueVars
  /\ p # "trace" => UNCHANGED traceVars
  /\ UNCHANGED part

AppNext ==
  /\ \/ part = "loop" /\ Next
     \/ part = "pause" /\ PausesNext
     \/ part = "request" /\ RequestNext
     \/ part = "prompt" /\ PromptsNext
     \/ part = "server" /\ ServersNext
     \/ part = "queue" /\ QueueNext
     \/ part = "trace" /\ TraceNext
  /\ Others(part)

(* The steps the framework takes by itself.                                       *)
AppSystem ==
  /\ \/ part = "loop" /\ Engine
     \/ part = "server" /\ ServersSystem
     \/ part = "queue" /\ QueueSystem
     \/ part = "trace" /\ TraceSystem
  /\ Others(part)

appVars == <<part, vars, pauseVars, requestVars, promptVars, serverVars, queueVars, traceVars>>
AppSpec == AppInit /\ [][AppNext]_appVars /\ WF_appVars(AppSystem)

(* An aborted call returns; a request whose action ends is answered; a worker that is   *)
(* told to stop stops; what was exported is posted or given up.                    *)
CallsSettle == AbortReturns /\ RequestsEnd /\ WorkerStops /\ TracesDrain

(* The model is told what was said, set and asked for, each once: by a prompt, by the    *)
(* request of a call.                                                             *)
ModelIsToldOnce == PromptsKeepTheirWord /\ RequestsSayItOnce

(* ------------------------------ the instances ------------------------------ *)

(* Calls with the formats JSON, enum and text, their instructions on, off or the caller's *)
(* own, with and without documents; calls whose tools collide in a last segment, come  *)
(* from a provider one or all, and from a middleware.                              *)
Named(n) == [from |-> "name", name |-> n]
Provided(n) == [from |-> "dap", name |-> n]
Menus == {<<Named(<<"ns", "find">>), Provided(<<"echo">>)>>, <<Named(<<"find">>), Provided(<<"*">>)>>,
          <<Provided(<<"none">>)>>}
OrderOf(f, d, menu, extra) ==
  [format |-> f[1], instruct |-> f[2], docs |-> d, tools |-> menu, contributed |-> extra]
MCOrders ==
  {OrderOf(f, d, <<>>, <<>>) : d \in {"none", "d1"},
     f \in {<<"none", "unset">>, <<"json", "unset">>, <<"json", "on">>, <<"json", "custom">>,
            <<"enum", "unset">>, <<"enum", "off">>, <<"text", "custom">>}}
  \union {OrderOf(<<"enum", "unset">>, "d2", m, c) : m \in Menus,
                                        c \in {<<>>, <<<<"echo">>>>, <<<<"read">>>>}}
MCCatalog == <<<<"echo">>, <<"look">>>>
MCRegistered == {<<"find">>, <<"ns", "find">>}

(* Rounds of a tool and one that only asks, of two calls of a tool, of two that no ref      *)
(* tells apart; under ToolApproval, resumed by an agent, resumed by a program.            *)
ToolCall(n, r, a) == [tool |-> n, ref |-> r, always |-> a]
PauseSite(r, g, b) == [round |-> r, gated |-> g, agent |-> b]
MCPauseSites ==
  {PauseSite(<<ToolCall("write", "1", FALSE), ToolCall("confirm", "2", TRUE)>>, {"write"}, FALSE),
   PauseSite(<<ToolCall("write", "1", FALSE), ToolCall("write", "2", FALSE)>>, {}, TRUE),
   PauseSite(<<ToolCall("write", "none", FALSE), ToolCall("write", "none", FALSE)>>, {}, FALSE)}

(* Prompts without a list of messages; one prompt with one, for prompts that lose them. *)
Templates == [system : BOOLEAN, messages : {"none", "template"}, user : BOOLEAN]
FewShot == {[system |-> TRUE, messages |-> "list", user |-> FALSE]}

(* A directory with a file that cannot be parsed between two others.               *)
MCFolder ==
  [top |-> [parent |-> "root", kind |-> "good"],
   sub |-> [parent |-> "root", kind |-> "dir"], sub2 |-> [parent |-> "root", kind |-> "dir"],
   bad |-> [parent |-> "sub", kind |-> "bad"], low |-> [parent |-> "sub", kind |-> "good"],
   low2 |-> [parent |-> "sub2", kind |-> "good"]]

(* Two requests of one server, the second a plain stream.                          *)
Asks(s, st, e) == [shape |-> s, stream |-> st, ends |-> e]
MCSites ==
  {[server |-> s, asks |-> [q \in HttpRequests |->
      IF q = "q1" THEN Asks(sh, st, e) ELSE Asks("data", TRUE, "value")]] :
    s \in {"fastapi", "flask", "django", "dev"}, sh \in {"data", "shorthand", "empty", "other"},
    st \in BOOLEAN, e \in {"value", "unserializable", "caused", "uncaused", "invalid"}}

(* A root with a model call and a tool under it.                                  *)
MCParent == [s \in Spans |-> 1]
MCRuns ==
  {[mode |-> m, ignored |-> i, full |-> l,
    kind |-> [s \in Spans |-> IF s = 1 THEN r ELSE IF s = 2 THEN "model" ELSE "tool"]] :
    m \in {"dev", "prod", "forced"}, i \in BOOLEAN, l \in BOOLEAN, r \in {"generate", "prompt"}}
====================================================================================
