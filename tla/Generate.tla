-------------------------------- MODULE Generate --------------------------------
(***************************************************************************)
(* The tool loop of generate(), and the program that calls it again and    *)
(* again with the history it got back.                                     *)
(*                                                                         *)
(* run_wrap_generate calls itself for every closed tool round, inside the  *)
(* wrap_generate hook of the round before: `frames` is that call stack,    *)
(* each frame the messages its options carry.  `pc` is the point the       *)
(* innermost frame has reached; the steps between two awaits are one       *)
(* action, and anything may happen in between: the caller sets its abort   *)
(* signal or cancels the task, a tool of the round ends.                   *)
(*                                                                         *)
(* A tool request is its id; what the code can tell of it is its tool, its *)
(* ref, and the metadata that marks it "interrupt" or "pending".  A model  *)
(* message's `ver` tells a hook's rewrite from the original.               *)
(***************************************************************************)
EXTENDS Naturals, Sequences, FiniteSets, SequencesExt

CONSTANTS
  Tools,          \* the tools the caller named
  Ghost,          \* a tool the model makes up
  MaxTurns,       \* options.max_turns
  Habits,         \* what the wrap_generate hook may also do: see HookAfter
  MaxCalls,       \* bound on the calls of generate
  MaxRequests,    \* bound on the tool requests the model makes
  MaxParallel     \* bound on the tool requests of one model message

ASSUME GenerateAssumption ==
  /\ Ghost \notin Tools
  /\ Habits \subseteq {"raiseOnPause", "replaceAfterRound"}
  /\ {MaxTurns, MaxCalls, MaxRequests, MaxParallel} \subseteq Nat

VARIABLES
  resp,      \* the response the caller holds: its history is Messages(resp)
  calls,     \* calls of generate made so far
  entry,     \* the messages this call was given
  resume,    \* options.resume: the replies, or NoResume
  abort,     \* the caller's abort signal
  pc,        \* where the innermost frame is
  frames,    \* options.messages of the nested run_wrap_generate calls
  messages,  \* call.messages
  last,      \* call.last_response: its message, or Unset
  round,     \* the model message whose tools run
  out,       \* what the tools of the round have come to
  strays,    \* tools that still run though their round was given up
  result,    \* the response on its way out through the hooks
  nextId,    \* the next fresh tool request
  closed     \* requests whose answers were put into history in this call

client == <<resp, calls, entry, resume>>
loop == <<pc, frames, messages, last, result>>
tools == <<round, out, strays>>
vars == <<client, abort, loop, tools, nextId, closed>>

User == [role |-> "user", parts |-> {}, ver |-> 0]
Model(parts, ver) == [role |-> "model", parts |-> parts, ver |-> ver]
Tool(parts) == [role |-> "tool", parts |-> parts, ver |-> 0]
NoMsg == [role |-> "none", parts |-> {}, ver |-> 0]
Unset == [role |-> "unset", parts |-> {}, ver |-> 0]
NoResume == {[of |-> 0, tool |-> Ghost, ref |-> 0, how |-> "none"]}
NoRound == [x \in {} |-> "asked"]

Response(fin, msg, request) == [fin |-> fin, msg |-> msg, request |-> request]

\* ModelResponse.messages
Messages(r) == IF r.msg = NoMsg THEN r.request ELSE Append(r.request, r.msg)

\* history_with_closed_turn
WithClosedTurn(ms, msg) ==
  IF msg = NoMsg \/ (ms # <<>> /\ Last(ms) = msg) THEN ms ELSE Append(ms, msg)

\* Fault: every response a hook returns is a turn of its own.
RememberEach(ms, lastMsg, msg) == WithClosedTurn(ms, msg)

\* GenerateRun.remember: call.messages after a hook returned a response
Remember(ms, lastMsg, msg) ==
  IF msg # NoMsg /\ lastMsg \notin {NoMsg, Unset} /\ ms # <<>> /\ Last(ms) = lastMsg
  THEN Append(Front(ms), msg)
  ELSE WithClosedTurn(ms, msg)

\* Fault: the box goes back to the messages of the first round.
BoxOfTheCall(fin, ms) == Response(fin, NoMsg, Head(frames))

\* box_dead_turn, box_from_exc: the unanswered turn is dropped
Box(fin, ms) == Response(fin, NoMsg, ms)
FailedOrAborted == IF abort THEN "aborted" ELSE "failed"

\* tool_requests of the last message, if it is the model's
OpenParts(ms) ==
  IF ms # <<>> /\ Last(ms).role = "model" THEN Last(ms).parts ELSE {}
Interrupts(ms) == {p \in OpenParts(ms) : p.mark = "interrupt"}

Init ==
  /\ resp = Response("stop", NoMsg, <<>>)
  /\ calls = 0
  /\ entry = <<>>
  /\ resume = NoResume
  /\ abort = FALSE
  /\ pc = "idle"
  /\ frames = <<>>
  /\ messages = <<>>
  /\ last = Unset
  /\ round = {}
  /\ out = NoRound
  /\ strays = {}
  /\ result = Response("stop", NoMsg, <<>>)
  /\ nextId = 1
  /\ closed = {}

-----------------------------------------------------------------------------
(* The caller *)

StartCall(ms, replies) ==
  /\ pc = "idle"
  /\ calls < MaxCalls
  /\ calls' = calls + 1
  /\ entry' = ms
  /\ resume' = replies
  /\ abort' = FALSE
  /\ pc' = "door"
  /\ frames' = <<ms>>
  /\ strays' = {}
  /\ closed' = {}
  /\ UNCHANGED <<resp, messages, last, result, round, out, nextId>>

(* The caller says something: after a pause it has first dropped the paused
   turn, which leaves response.request.messages. *)
Prompt ==
  /\ \/ OpenParts(Messages(resp)) = {} /\ StartCall(Append(Messages(resp), User), NoResume)
     \/ OpenParts(Messages(resp)) # {} /\ StartCall(Append(Front(Messages(resp)), User), NoResume)

(* The caller answers the interrupts it was told of (respond_to_interrupt,
   restart_tool), perhaps not all of them. *)
Resume ==
  \E answered \in SUBSET Interrupts(Messages(resp)) :
    \E how \in [answered -> {"respond", "restart"}] :
      /\ OpenParts(Messages(resp)) # {}
      /\ StartCall(Messages(resp),
           {[of |-> p.id, tool |-> p.tool, ref |-> p.ref, how |-> how[p]] : p \in answered})

Abort ==
  /\ pc # "idle"
  /\ ~abort
  /\ abort' = TRUE
  /\ UNCHANGED <<client, loop, tools, nextId, closed>>

(* The caller cancels the task at an await: raise_if_foreign_cancel lets it
   through, gather cancels the tools of the round, and there is no response. *)
Cancel ==
  /\ pc \in {"before", "model", "gather", "gatherResume"}
  /\ ~abort
  /\ pc' = "idle"
  /\ frames' = <<>>
  /\ out' = NoRound
  /\ round' = {}
  /\ UNCHANGED <<client, abort, messages, last, result, strays, nextId, closed>>

-----------------------------------------------------------------------------
(* run_wrap_generate *)

Raise(ms) ==
  /\ result' = Box(FailedOrAborted, ms)
  /\ pc' = "return"
  /\ messages' = ms

Door ==
  /\ pc = "door"
  /\ messages' = Last(frames)
  /\ IF abort
     THEN /\ result' = Box("aborted", Last(frames))
          /\ pc' = "return"
          /\ UNCHANGED last
     ELSE /\ last' = Unset
          /\ pc' = "before"
          /\ UNCHANGED result
  /\ UNCHANGED <<client, abort, frames, tools, nextId, closed>>

\* The wrap_generate hook, until it calls next_fn.
HookBefore ==
  /\ pc = "before"
  /\ \/ /\ pc' = IF Len(frames) = 1 /\ resume # NoResume THEN "resume" ELSE "model"
        /\ UNCHANGED <<messages, result>>
     \/ Raise(messages)
  /\ UNCHANGED <<client, abort, frames, last, tools, nextId, closed>>

(* The turn returned a response: remember() it, and the hook gets it.  The
   hook returns it, rewrites its text, raises, or returns a response of its
   own, whose request stamp_output then fills in from this frame's options.
   Habits allow a hook to do the last two when a pause or a closed round is
   what it throws away. *)
HookAfter ==
  LET remembered == Remember(messages, last, result.msg)
      paused == result.fin = "interrupted"
  IN
  /\ pc = "after"
  /\ \/ /\ messages' = remembered
        /\ last' = result.msg
        /\ pc' = "return"
        /\ UNCHANGED result
     \/ /\ result.msg.role = "model" /\ result.msg.parts = {}
        /\ LET msg == Model({}, result.msg.ver + 1) IN
             /\ messages' = Remember(remembered, result.msg, msg)
             /\ last' = msg
             /\ result' = [result EXCEPT !.msg = msg]
        /\ pc' = "return"
     \/ /\ paused => "raiseOnPause" \in Habits
        /\ Raise(remembered)
        /\ last' = result.msg
     \/ /\ closed # {} => "replaceAfterRound" \in Habits
        /\ ~paused
        /\ LET own == Model({}, 1) IN
             /\ messages' = Remember(remembered, result.msg, own)
             /\ last' = own
             /\ result' = Response("stop", own, Last(frames))
        /\ pc' = "return"
  /\ UNCHANGED <<client, abort, frames, tools, nextId, closed>>

\* This run_wrap_generate returns, to the turn that called it or to the caller.
Return ==
  /\ pc = "return"
  /\ frames' = Front(frames)
  /\ IF Len(frames) = 1
     THEN resp' = result /\ pc' = "idle"
     ELSE pc' = "after" /\ UNCHANGED resp
  /\ UNCHANGED <<calls, entry, resume, abort, messages, last, result, tools, nextId, closed>>

-----------------------------------------------------------------------------
(* resolve_resume_options *)

\* matching_tool_response, matching_restart: the first with this name and ref
Matching(p, how) ==
  {r \in resume : r.how = how /\ r.tool = p.tool /\ r.ref = p.ref}

(* resolve_resumed_tool: what was stashed is not asked for again; then a
   reply; then a restart, which runs the tool; nothing else will do. *)
Resolution(p) ==
  IF p.mark = "pending" THEN "stashed"
  ELSE IF Matching(p, "respond") # {} THEN "respond"
  ELSE IF Matching(p, "restart") # {} THEN "restart"
  ELSE "unresolved"

\* The request whose answer p is given: a stash keeps the one it was given.
MeantFor(p) ==
  IF pc = "gather" \/ Resolution(p) = "stashed" THEN p.of
  ELSE (CHOOSE r \in Matching(p, Resolution(p)) : TRUE).of

StartResume ==
  LET asked == OpenParts(Last(frames))
      restarted == {p \in asked : Resolution(p) = "restart"}
      ids == {p.id : p \in asked}
  IN
  /\ pc = "resume"
  /\ IF \E p \in asked : Resolution(p) = "unresolved"
     THEN /\ Raise(messages)
          /\ strays' = {p.id : p \in restarted}
          /\ UNCHANGED <<round, out>>
     ELSE /\ pc' = "gatherResume"
          /\ round' = asked
          /\ out' = [id \in ids |->
                       IF id \in {p.id : p \in restarted} THEN "running" ELSE "ok"]
          /\ UNCHANGED <<result, messages, strays>>
  /\ UNCHANGED <<client, abort, frames, last, nextId, closed>>

Running == {id \in DOMAIN out : out[id] = "running"}
Paused == \E id \in DOMAIN out : out[id] = "interrupt"

\* interrupt_request_part and to_pending_response: the round as a pause shows it
PausedParts ==
  {IF out[p.id] = "interrupt"
     THEN [p EXCEPT !.mark = "interrupt", !.of = p.id]
     ELSE [p EXCEPT !.mark = "pending", !.of = MeantFor(p)] : p \in round}

\* resolve_tool_requests returns or raises: the outcomes of a round are its own.
EndRound == round' = {} /\ out' = NoRound

(* A restarted tool ended.  Nobody watches the abort signal for it, and a
   failure gives the whole resume up while the other restarts run on. *)
FinishRestart(id) ==
  /\ pc = "gatherResume"
  /\ out[id] = "running"
  /\ \/ \E what \in {"ok", "interrupt"} :
          /\ out' = [out EXCEPT ![id] = what]
          /\ UNCHANGED <<pc, messages, result, round, strays>>
     \/ /\ Raise(messages)
        /\ strays' = strays \union (Running \ {id})
        /\ EndRound
  /\ UNCHANGED <<client, abort, frames, last, nextId, closed>>

(* All of the resume is in: pause again, or put the answers behind the model
   message they answer, stream them, and go on to the model. *)
EndResume ==
  LET before == Front(Last(frames))
      answered == Append(Append(before, Model({[p EXCEPT !.mark = "resolved"] : p \in round}, 0)),
                         Tool({[id |-> p.id, of |-> MeantFor(p)] : p \in round}))
  IN
  /\ pc = "gatherResume"
  /\ Running = {}
  /\ IF Paused
     THEN /\ result' = Response("interrupted", Model(PausedParts, 0), before)
          /\ pc' = "after"
          /\ UNCHANGED <<messages, closed>>
     ELSE /\ closed' = closed \union {p.id : p \in round}
          /\ \/ pc' = "model" /\ messages' = answered /\ UNCHANGED result
             \/ Raise(answered)
  /\ EndRound
  /\ UNCHANGED <<client, abort, frames, last, strays, nextId>>

-----------------------------------------------------------------------------
(* call_model, stop_after_model, run_tools_or_stop *)

\* What the model may ask for next: some tools, each request with a ref of its own.
Requests ==
  UNION {{{[id |-> i, tool |-> f[i], ref |-> i, mark |-> "asked", of |-> i] : i \in DOMAIN f} :
            f \in [nextId..(nextId + n - 1) -> Tools \union {Ghost}]} :
          n \in 1..MaxParallel}

Stop(response) ==
  /\ result' = response
  /\ pc' = "after"
  /\ UNCHANGED <<round, out>>

(* The model call raised, or stopped without tools (perhaps without any
   message), or asked for tools: too many rounds, an abort or an unknown tool
   box the turn, else the round starts. *)
ModelAnswers ==
  /\ pc = "model"
  /\ \/ Stop(Box(FailedOrAborted, messages)) /\ UNCHANGED nextId
     \/ \E msg \in {NoMsg, Model({}, 0)} :
          Stop(Response("stop", msg, messages)) /\ UNCHANGED nextId
     \/ \E asked \in Requests :
          /\ nextId + Cardinality(asked) <= MaxRequests + 1
          /\ nextId' = nextId + Cardinality(asked)
          /\ IF Len(frames) > MaxTurns \/ abort
             THEN Stop(Box("aborted", messages))
             ELSE IF \E p \in asked : p.tool = Ghost
             THEN Stop(Box("failed", messages))
             ELSE /\ pc' = "gather"
                  /\ round' = asked
                  /\ out' = [id \in {p.id : p \in asked} |-> "running"]
                  /\ UNCHANGED result
  /\ UNCHANGED <<client, abort, frames, messages, last, strays, closed>>

\* gather gives up at the first exception; the other tools are not cancelled.
LoseRound(id, fin) ==
  /\ result' = Box(fin, messages)
  /\ pc' = "after"
  /\ strays' = strays \union (Running \ {id})
  /\ EndRound

FinishTool(id) ==
  /\ pc = "gather"
  /\ out[id] = "running"
  /\ \/ \E what \in {"ok", "interrupt"} :
          /\ out' = [out EXCEPT ![id] = what]
          /\ UNCHANGED <<pc, result, round, strays>>
     \/ LoseRound(id, FailedOrAborted)
  /\ UNCHANGED <<client, abort, frames, messages, last, nextId, closed>>

\* Fault: the abort signal only reaches tools that read it.
NoWatch(id) == FALSE /\ UNCHANGED vars

\* execute_tool_request: its watch_abort cancels the tool, whatever it does.
CancelTool(id) ==
  /\ pc = "gather"
  /\ out[id] = "running"
  /\ abort
  /\ LoseRound(id, "aborted")
  /\ UNCHANGED <<client, abort, frames, messages, last, nextId, closed>>

\* A tool nobody waits for any more ends.
StrayEnds(id) ==
  /\ id \in strays
  /\ strays' = strays \ {id}
  /\ UNCHANGED <<client, abort, loop, round, out, nextId, closed>>

(* All tools of the round are in: pause, or close the round, stream it, and
   call run_wrap_generate again. *)
EndRoundOfTools ==
  LET next == Append(Append(messages, Model(round, 0)),
                     Tool({[id |-> p.id, of |-> p.id] : p \in round}))
  IN
  /\ pc = "gather"
  /\ Running = {}
  /\ IF Paused
     THEN /\ result' = Response("interrupted", Model(PausedParts, 0), messages)
          /\ pc' = "after"
          /\ UNCHANGED <<messages, frames, closed>>
     ELSE /\ closed' = closed \union {p.id : p \in round}
          /\ \/ /\ pc' = "door"
                /\ messages' = next
                /\ frames' = Append(frames, next)
                /\ UNCHANGED result
             \/ Raise(next) /\ UNCHANGED frames
  /\ EndRound
  /\ UNCHANGED <<client, abort, last, strays, nextId>>

-----------------------------------------------------------------------------

Engine ==
  \/ Door \/ HookBefore \/ HookAfter \/ Return
  \/ StartResume \/ EndResume
  \/ ModelAnswers \/ EndRoundOfTools
  \/ \E id \in DOMAIN out : FinishRestart(id) \/ CancelTool(id)

Next ==
  \/ Prompt \/ Resume \/ Abort \/ Cancel
  \/ Engine
  \/ \E id \in DOMAIN out : FinishTool(id)
  \/ \E id \in strays : StrayEnds(id)

(* The framework takes its steps, the model and the hooks answer, a restarted
   tool ends; a tool of the model's own round may never end. *)
Spec == Init /\ [][Next]_vars /\ WF_vars(Engine)

-----------------------------------------------------------------------------
(* Properties *)

Ids(parts) == {p.id : p \in parts}
Leaving == pc = "return" /\ Len(frames) = 1
History == Messages(result)

(* Whatever happens after a tool round was closed (a later round fails, the
   stream breaks, a hook raises or rewrites, the caller aborts), the response
   still carries the answers of that round, so that resending its history
   does not run those tools again (run_wrap_generate, box_from_exc). *)
ClosedRoundsKept ==
  Leaving => closed \subseteq UNION {Ids(m.parts) : m \in {m \in ToSet(History) : m.role = "tool"}}

(* The history of a response can be sent again: every tool request in it is
   answered by the message behind it.  Only a pause ends in requests without
   answers, or the failed resume of one, which hands back the pause. *)
Resendable ==
  Leaving =>
    /\ \A i \in 1..(Len(History) - 1) :
         History[i].role = "model" /\ History[i].parts # {} =>
           History[i + 1].role = "tool" /\ Ids(History[i + 1].parts) = Ids(History[i].parts)
    /\ OpenParts(History) # {} /\ result.fin # "interrupted" => Last(History) = Last(entry)

(* History never holds two model turns in a row, however often the hooks of
   nested rounds rewrite a reply before one of them raises: the promise
   GenerateRun.remember makes. *)
OneModelTurn ==
  pc = "return" =>
    \A i \in 1..(Len(History) - 1) :
      ~(History[i].role = "model" /\ History[i + 1].role = "model")

(* A reply, and the result of a restart, becomes the answer of the request it
   was built for, also when it was stashed over another pause
   (matching_tool_response, matching_restart, to_pending_response). *)
AnswersItsRequest ==
  Leaving => \A m \in {m \in ToSet(History) : m.role = "tool"} : \A p \in m.parts : p.of = p.id

(* The history of a response is one that the next request can start from.         *)
HistoryCanBeResent == Resendable /\ OneModelTurn /\ AnswersItsRequest

(* A pause is whole.  It is told only when every tool of the round has ended,
   so that nothing the caller could restart still runs behind its back; and
   whoever replies to all its interrupts is never told that a request is
   unresolved, however many pauses the turn went through: the siblings that
   had finished are stashed with it (the gathers of resolve_tool_requests and
   resolve_resume_options, to_pending_response). *)
PausesAreWhole ==
  /\ pc = "return" /\ result.fin = "interrupted" => strays = {} /\ Running = {}
  /\ pc = "resume" /\ Interrupts(entry) # {} /\ {r.of : r \in resume} = Ids(Interrupts(entry)) =>
       \A p \in OpenParts(Last(frames)) : Resolution(p) # "unresolved"

(* An abort ends the call, even when a tool of the round never ends
   (execute_tool_request's watch_abort). *)
AbortReturns == abort ~> pc = "idle"
===============================================================================
