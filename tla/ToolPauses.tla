------------------------------ MODULE ToolPauses ------------------------------
(* The tool requests of one model message, from their first run to the tool message that    *)
(* answers them, over every pause between: what a pause stamps and stashes on a request      *)
(* part, what the program replies, what a restarted tool is told (_ai/_tools.py and the       *)
(* resume half of _ai/_generate.py).  Aborts are module Generate's, and the tools named are    *)
(* ones the registry has.  A part's metadata is a function of the keys it has;                *)
(* the input the model gave request i is i, one the program replaced it by is New(i).        *)
(* It opens up one round of module Generate, with which it shares no state.                 *)
EXTENDS Generate

CONSTANTS
  PauseSites,   \* the programs: [round: sequence of [tool, ref, always: define_interrupt],
                \*   gated: the tools ToolApproval asks for, agent: resumed by an agent's client]
  MaxPauses     \* bound: pauses of one round; one failure is let happen

ASSUME RoundsAreLists == \A s \in PauseSites : DOMAIN s.round \subseteq Nat

VARIABLES
  pauseSite,    \* the program; never changes
  asking,       \* the request parts of the model message: [input, meta]
  replies,      \* options.resume: by the request replied to, in the order of the requests
  toolRun,      \* per request: [at, input, told, came: the envelope or what it asks]
  toolMessage,  \* the answers, once the round is closed
  roundIs,        \* fresh, paused, resuming, closed, failed
  pauseTally      \* [pauses, failures; per request, done: its runs that ended well,
                  \*   returned: what the last that was heard returned]

pauseVars == <<pauseSite, asking, replies, toolRun, toolMessage, roundIs, pauseTally>>

Requested == DOMAIN pauseSite.round
Asked(i) == pauseSite.round[i]
New(i) == 10 + i
Fresh == [resumed |-> "no", original |-> 0]
Bare(at, came) == [at |-> at, input |-> 0, told |-> Fresh, came |-> came]
NoRuns == [i \in Requested |-> Bare("due", "nothing")]
Empty == [x \in {} |-> 0]
With(meta, key, value) == [k \in DOMAIN meta \union {key} |-> IF k = key THEN value ELSE meta[k]]
Without(meta, keys) == [k \in DOMAIN meta \ keys |-> meta[k]]

Envelope(output, content, metadata) == [output |-> output, content |-> content, metadata |-> metadata]

PausesInit ==
  /\ pauseSite \in PauseSites
  /\ asking = [i \in Requested |-> [input |-> i, meta |-> Empty]]
  /\ replies = Empty /\ toolMessage = <<>> /\ roundIs = "fresh"
  /\ toolRun = NoRuns
  /\ pauseTally = [pauses |-> 0, failures |-> 0, done |-> [i \in Requested |-> 0],
                   returned |-> [i \in Requested |-> Envelope("nothing", "none", {})]]

(* --------------------------------- a run of a tool --------------------------------- *)

(* What a tool may return: a value, an envelope with media and metadata, one with a part     *)
(* that has no payload, and what cannot be told as JSON.                                  *)
Returned == {Envelope("value", "none", {}), Envelope("value", "media", {"tool's"}),
             Envelope("value", "dead part", {}), Envelope("no JSON", "none", {})}

(* wire_part_is_live, dump_tool_output: what as_multipart_tool_response lets pass.           *)
IsLive(content) == content # "dead part"
IsJson(output) == output # "no JSON"
Speaks(envelope) == IsLive(envelope.content) /\ IsJson(envelope.output)

(* _resume_context_from_tool_request_part: a restart without metadata resumes with {}.        *)
ResumeContext(meta) ==
  [resumed |-> IF "resumed" \in DOMAIN meta THEN meta["resumed"] ELSE "no",
   original |-> IF "replacedInput" \in DOMAIN meta THEN meta["replacedInput"] ELSE 0]

(* matching_tool_response, matching_restart: the first of that name and ref.                *)
SameRequest(r, i) == r.tool = Asked(i).tool /\ r.ref = Asked(i).ref
Candidates(how, i) == {k \in DOMAIN replies : replies[k].how = how /\ SameRequest(replies[k], i)}
Earliest(S) == CHOOSE k \in S : \A j \in S : k <= j

(* resolve_resumed_tool: from the stash, from a reply, by a restart, or not at all.          *)
Route(i) ==
  IF "pendingOutput" \in DOMAIN asking[i].meta THEN "stash"
  ELSE IF Candidates("respond", i) # {} THEN "respond"
  ELSE IF Candidates("restart", i) # {} THEN "restart" ELSE "unresolved"

(* The part a run is made of: the model's, or that of the restart.                          *)
PartToRun(i) ==
  IF roundIs = "fresh" THEN asking[i]
  ELSE LET r == replies[Earliest(Candidates("restart", i))] IN [input |-> r.input, meta |-> r.meta]

(* run_one_tool, run_restart: ToolApproval asks for what carries no approval; run_tool_request *)
(* tells the tool what the part says of its resumption.                                    *)
MayRun(i) ==
  /\ roundIs \in {"fresh", "resuming"} /\ toolRun[i].at = "due"
  /\ roundIs = "resuming" => Route(i) = "restart"
AsksApproval(i) ==
  Asked(i).tool \in pauseSite.gated /\ ResumeContext(PartToRun(i).meta).resumed # "approved"
BeginRun(i) ==
  /\ MayRun(i)
  /\ toolRun' = [toolRun EXCEPT ![i] =
       IF AsksApproval(i) THEN Bare("asked", "gate")
       ELSE [at |-> "running", input |-> PartToRun(i).input,
             told |-> ResumeContext(PartToRun(i).meta), came |-> "nothing"]]
  /\ UNCHANGED <<pauseSite, asking, replies, toolMessage, roundIs, pauseTally>>

(* The tool raises an Interrupt; define_interrupt's does nothing else.  A restarted run wraps *)
(* it in an error, which resolve_resumed_tool unwraps again: it pauses once more.            *)
ToolAsks(i) ==
  /\ toolRun[i].at = "running"
  /\ toolRun' = [toolRun EXCEPT ![i] = Bare("asked", "question")]
  /\ UNCHANGED <<pauseSite, asking, replies, toolMessage, roundIs, pauseTally>>

(* The caller is given the first failure, gather cancels no other: the tools that run or are    *)
(* about to may still end well.  What failed a restart leaves the pause as it was, for the    *)
(* program to resume again.                                                               *)
MayEndWell(j) ==
  ~Asked(j).always /\ (toolRun[j].at = "running" \/ (MayRun(j) /\ ~AsksApproval(j)))
GiveUp(others) ==
  /\ pauseTally.failures = 0
  /\ \E on \in SUBSET {j \in others : MayEndWell(j)} :
       pauseTally' = [pauseTally EXCEPT !.failures = 1,
                        !.done = [j \in Requested |-> pauseTally.done[j] + (IF j \in on THEN 1 ELSE 0)]]
  /\ roundIs' = IF roundIs = "fresh" THEN "failed" ELSE "paused"
  /\ replies' = Empty /\ toolRun' = NoRuns
  /\ UNCHANGED <<pauseSite, asking, toolMessage>>

(* The tool returns: what cannot be told is a failure of a tool that has run.                 *)
Returns(i, envelope) ==
  /\ toolRun[i].at = "running" /\ ~Asked(i).always
  /\ IF Speaks(envelope)
     THEN /\ toolRun' = [toolRun EXCEPT ![i] = Bare("ended", envelope)]
          /\ pauseTally' = [pauseTally EXCEPT !.done[i] = @ + 1, !.returned[i] = envelope]
          /\ UNCHANGED <<pauseSite, asking, replies, toolMessage, roundIs>>
     ELSE GiveUp(Requested \ {i})

(* A tool that raises anything but an Interrupt has not ended well, and fails the round.      *)
Raises(i) ==
  /\ toolRun[i].at = "running" /\ ~Asked(i).always
  /\ GiveUp(Requested \ {i})

Unresolved ==
  /\ roundIs = "resuming" /\ \E i \in Requested : Route(i) = "unresolved"
  /\ GiveUp(Requested)

(* ------------------------------ the end of the round ------------------------------ *)

(* interrupt_request_part: the question, on the part the model made.                       *)
Stamped(part, question) == [part EXCEPT !.meta = With(@, "interrupt", question)]

(* The part of a request that is answered: its stash or its question taken off.               *)
StashKeys == {"pendingOutput", "pendingContent", "pendingMetadata"}
Resolved(i) ==
  CASE roundIs = "fresh" -> asking[i]
    [] roundIs = "resuming" /\ Route(i) = "stash" -> [asking[i] EXCEPT !.meta = Without(@, StashKeys)]
    [] OTHER -> [asking[i] EXCEPT !.meta = With(Without(@, {"interrupt"}), "resolvedInterrupt",
                                             IF "interrupt" \in DOMAIN @ THEN @["interrupt"] ELSE "none")]

(* The tool response of a request: of its run, its stash, or the program's own.               *)
FromStash(meta) ==
  Envelope(meta["pendingOutput"],
           IF "pendingContent" \in DOMAIN meta THEN meta["pendingContent"] ELSE "none",
           (IF "pendingMetadata" \in DOMAIN meta THEN meta["pendingMetadata"] ELSE {}) \union {"source"})
ToolResponse(i) ==
  IF toolRun[i].at = "ended" THEN toolRun[i].came
  ELSE IF Route(i) = "stash" THEN FromStash(asking[i].meta)
  ELSE LET r == replies[Earliest(Candidates("respond", i))]
       IN Envelope(r.output, "none", {"interruptResponse"})

(* to_pending_response: an answer waits on the part of its request.                        *)
PendingResponse(part, answer) ==
  LET output == With(part.meta, "pendingOutput", answer.output)
      content == IF answer.content = "none" THEN output ELSE With(output, "pendingContent", answer.content)
      all == IF answer.metadata = {} THEN content ELSE With(content, "pendingMetadata", answer.metadata)
  IN [part EXCEPT !.meta = all]

AllIn ==
  /\ roundIs \in {"fresh", "resuming"}
  /\ \A i \in Requested : \/ toolRun[i].at \in {"ended", "asked"}
                          \/ roundIs = "resuming" /\ Route(i) \in {"stash", "respond"}
Unanswered == {i \in Requested : toolRun[i].at = "asked"}

(* resolve_tool_requests, resolve_resume_options: one question pauses them all.              *)
RoundPauses ==
  /\ AllIn /\ Unanswered # {} /\ pauseTally.pauses < MaxPauses
  /\ asking' = [i \in Requested |-> IF i \in Unanswered THEN Stamped(asking[i], toolRun[i].came)
                                    ELSE PendingResponse(Resolved(i), ToolResponse(i))]
  /\ roundIs' = "paused" /\ replies' = Empty
  /\ toolRun' = NoRuns
  /\ pauseTally' = [pauseTally EXCEPT !.pauses = @ + 1]
  /\ UNCHANGED <<pauseSite, toolMessage>>

RoundCloses ==
  /\ AllIn /\ Unanswered = {}
  /\ asking' = [i \in Requested |-> Resolved(i)]
  /\ toolMessage' = [i \in Requested |-> ToolResponse(i)]
  /\ roundIs' = "closed"
  /\ UNCHANGED <<pauseSite, replies, toolRun, pauseTally>>

(* ----------------------------------- the program ----------------------------------- *)

(* respond_to_interrupt, and restart_tool: a copy of the part's metadata with the resumption   *)
(* on it, and the input it had if the program gives another.                               *)
Respond(i) ==
  [how |-> "respond", tool |-> Asked(i).tool, ref |-> Asked(i).ref, output |-> "reply"]
RestartTool(i, resumed, replace) ==
  LET meta == With(asking[i].meta, "resumed", resumed)
  IN [how |-> "restart", tool |-> Asked(i).tool, ref |-> Asked(i).ref,
      input |-> IF replace THEN New(i) ELSE asking[i].input,
      meta |-> IF replace THEN With(meta, "replacedInput", asking[i].input) ELSE meta]
MayReply(i) ==
  {Respond(i)} \union {RestartTool(i, "empty", FALSE), RestartTool(i, "approved", FALSE),
                       RestartTool(i, "answer", FALSE), RestartTool(i, "approved", TRUE)}

(* validate_resume_against_history: an agent's client may not change an input; a request is     *)
(* found by name and ref, here as well the first.                                           *)
Forged(r) ==
  r.how = "restart" /\ r.input # asking[Earliest({j \in Requested : SameRequest(r, j)})].input

Reply ==
  /\ roundIs = "paused"
  /\ \E said \in SUBSET {i \in Requested : "interrupt" \in DOMAIN asking[i].meta} \ {{}} :
     \E what \in [said -> UNION {MayReply(i) : i \in said}] :
       /\ \A i \in said : what[i] \in MayReply(i)
       /\ pauseSite.agent => \A i \in said : ~Forged(what[i])
       /\ replies' = what
  /\ roundIs' = "resuming"
  /\ UNCHANGED <<pauseSite, asking, toolRun, toolMessage, pauseTally>>

PausesNext ==
  \/ \E i \in Requested : BeginRun(i) \/ ToolAsks(i) \/ Raises(i)
  \/ \E i \in Requested, envelope \in Returned : Returns(i, envelope)
  \/ Unresolved \/ RoundPauses \/ RoundCloses \/ Reply

PausesSpec == PausesInit /\ [][PausesNext]_pauseVars

(* ----------------------------------- properties ----------------------------------- *)

(* Requests the replies can tell apart: providers that give no ref tell two calls of one     *)
(* tool apart by nothing.                                                                *)
Distinct == \A i, j \in Requested : SameRequest(Asked(i), j) => i = j

(* However many pauses a round goes through: a tool that runs is told what the program replied *)
(* to its own last question, and nothing of an earlier one; its original input is what the     *)
(* model asked; no tool that ended well runs again, unless a resume failed; and in the end       *)
(* every request is answered with what its run returned, media and metadata, or with the        *)
(* program's reply, and bears no mark of a pause.                                          *)
ToldItsOwn(i) ==
  LET run == toolRun[i] IN
  IF roundIs = "fresh" THEN run.told = Fresh /\ run.input = i
  ELSE LET r == replies[i] IN
       /\ run.told.resumed = r.meta["resumed"]
       /\ run.input = r.input
       /\ run.told.original = IF r.input = New(i) THEN i ELSE 0
Answers(i, answer) ==
  LET told == [answer EXCEPT !.metadata = @ \ {"source"}]
  IN \/ told = Envelope("reply", "none", {"interruptResponse"})
     \/ told = pauseTally.returned[i] /\ pauseTally.done[i] > 0
RepliesReachTheirTool ==
  /\ Distinct /\ roundIs \in {"fresh", "resuming"} => \A i \in Requested : toolRun[i].at = "running" => ToldItsOwn(i)
  /\ \A i \in Requested : pauseTally.done[i] <= 1 + pauseTally.failures
  /\ roundIs = "closed" => \A i \in Requested :
       /\ Answers(i, toolMessage[i])
       /\ asking[i].input = i /\ DOMAIN asking[i].meta \subseteq {"resolvedInterrupt"}

(* No tool runs twice for one request, and none is answered for another: the answers of a *)
(* closed round are kept, a pause tells all that the round has done, and what the         *)
(* program replies reaches the run it is meant for.                                      *)
RoundsAreWhole == ClosedRoundsKept /\ PausesAreWhole /\ RepliesReachTheirTool
=============================================================================
