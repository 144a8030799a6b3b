-------------------------- MODULE ShippedMiddleware --------------------------
(* The middleware of genkit_middleware around the tool loop of a generate call:    *)
(* Retry and Fallback around each model call, ToolApproval and Filesystem around     *)
(* each tool, Filesystem, Artifacts and Skills around each turn.  Generate has the    *)
(* loop itself; here are what the hooks put into the conversation, the files behind   *)
(* them, and the indexes of the streamed messages.                                  *)
EXTENDS Naturals, Sequences, FiniteSets, SequencesExt

CONSTANTS Uses,        \* middleware of a call: records of names, allowed
          Rounds,      \* what a model may ask for: sequences of tools
          MaxRetries,  \* Retry.max_retries
          MaxModels,   \* Fallback.models: how many
          MaxTurns,    \* bound: turns of a behaviour
          MaxCalls,    \* bound: generate calls of a behaviour
          MaxChunks    \* bound: chunks of a call

ASSUME MiddlewareConstants == {MaxRetries, MaxModels, MaxTurns, MaxCalls, MaxChunks} \subseteq Nat

VARIABLES
  use,       \* names: which middleware the call uses, "retry>fallback" when Retry is outside;
             \* allowed: ToolApproval.allowed_tools; never changes
  messages,  \* the conversation, as options.messages of the turn
  queue,     \* Filesystem._message_queue of this call's instance
  tools,      \* the tools that run: [tool, n, at, seen, restart]; left by a call that failed
  disk,      \* the file's edits, the answered ones, the ones that ran at the same time
  stored,    \* artifacts written to the session, skills on disk
  stream,    \* chunks the caller got in this call: [index, role]
  chunks,    \* ChunkAccumulator: message_index, chunk_role, whether it sent any
  run        \* where the call is; the model's turn: model, attempt; bounds

mwVars == <<use, messages, queue, tools, disk, stored, stream, chunks, run>>

On(name) == name \in use.names

Part(kind, tool, n) == [kind |-> kind, tool |-> tool, n |-> n]
Msg(role, parts) == [role |-> role, parts |-> parts]
User(part) == Msg("user", <<part>>)
PartsOf(m) == {m.parts[k] : k \in DOMAIN m.parts}

MwInit ==
  /\ use \in Uses
  /\ messages = <<User(Part("ask", "", 0))>>
  /\ queue = <<>> /\ tools = {}
  /\ disk = [file |-> {}, acked |-> {}, clashed |-> {}]
  /\ stored = [artifacts |-> 0, skills |-> 0]
  /\ stream = <<>>
  /\ chunks = [index |-> 0, role |-> "model", sent |-> FALSE]
  /\ run = [at |-> "turn", model |-> 0, attempt |-> 0, turns |-> 0, calls |-> 1, n |-> 0]

(* ------------------------------- wrap_generate ------------------------------- *)

FirstSystem(ms) == {k \in DOMAIN ms : ms[k].role = "system" /\ \A j \in 1..(k - 1) : ms[j].role # "system"}

(* A part at the end of the first system message, or in one put before all.          *)
ToSystem(ms, part) ==
  IF FirstSystem(ms) = {} THEN <<Msg("system", <<part>>)>> \o ms
  ELSE [k \in DOMAIN ms |-> IF k \in FirstSystem(ms) THEN Msg("system", Append(ms[k].parts, part))
                                                      ELSE ms[k]]

(* The fault of adding a listing and leaving the ones of earlier turns. *)
AddListing(ms) == ToSystem(ms, Part("listing", "", stored.artifacts))

(* inject_artifact_listing_messages *)
InjectListing(ms) ==
  LET NotListing(p) == p.kind # "listing"
  IN ToSystem([k \in DOMAIN ms |-> Msg(ms[k].role, SelectSeq(ms[k].parts, NotListing))],
              Part("listing", "", stored.artifacts))

(* _inject_skills_prompt: in place of the one that is there.  Without skills nothing     *)
(* is put in, or taken out.                                                         *)
InjectSkills(ms) ==
  LET part == Part("skills", "", stored.skills)
      Fresh(p) == IF p.kind = "skills" THEN part ELSE p
      there == {k \in FirstSystem(ms) : \E p \in PartsOf(ms[k]) : p.kind = "skills"}
  IN IF stored.skills = 0 THEN ms
     ELSE IF there = {} THEN ToSystem(ms, part)
     ELSE [k \in DOMAIN ms |-> IF k \in there
                                 THEN Msg("system", [j \in DOMAIN ms[k].parts |-> Fresh(ms[k].parts[j])])
                                 ELSE ms[k]]

(* Filesystem.wrap_generate sends what it adds, one index each. *)
DrainedChunks == [k \in DOMAIN queue |-> [index |-> chunks.index + k - 1, role |-> "user"]]

AfterDrained == chunks.index + Len(queue)

(* One turn's wrap_generate hooks, and the ChunkAccumulator of the turn.  A resumed call    *)
(* restarts the paused tools first.                                                 *)
StartTurn ==
  /\ run.at = "turn" /\ run.turns < MaxTurns
  /\ LET drained == messages \o queue
         listed == IF On("artifacts") THEN InjectListing(drained) ELSE drained
     IN messages' = IF On("skills") THEN InjectSkills(listed) ELSE listed
  /\ stream' = stream \o DrainedChunks
  /\ chunks' = [index |-> AfterDrained, role |-> "model", sent |-> FALSE]
  /\ queue' = <<>>
  /\ LET paused == Last(messages).role = "model"
     IN /\ tools' = IF paused
                   THEN {[tool |-> p.tool, n |-> p.n, at |-> "waiting", seen |-> {}, restart |-> TRUE,
                            left |-> FALSE] :
                           p \in {q \in PartsOf(Last(messages)) : q.kind = "interrupt"}} \union tools
                   ELSE tools
        /\ run' = [run EXCEPT !.at = IF paused THEN "resuming" ELSE "model", !.turns = @ + 1,
                               !.model = 0, !.attempt = 0]
  /\ UNCHANGED <<use, disk, stored>>

(* -------------------------------- wrap_model -------------------------------- *)

(* ChunkAccumulator.make: a new index when the role changes. *)
Made(role) ==
  LET at == IF role # chunks.role /\ chunks.sent THEN chunks.index + 1 ELSE chunks.index
  IN /\ chunks' = [index |-> at, role |-> role, sent |-> TRUE]
     /\ stream' = Append(stream, [index |-> at, role |-> role])

ModelStreams ==
  /\ run.at = "model" /\ Len(stream) < MaxChunks
  /\ Made("model")
  /\ UNCHANGED <<use, messages, queue, tools, disk, stored, run>>

Failures == {"UNAVAILABLE", "NOT_FOUND", "INVALID_ARGUMENT", "no GenkitError"}
Retried(status) == status \in {"UNAVAILABLE", "no GenkitError"}   \* _DEFAULT_RETRY_STATUSES
FellBack(status) == status \in {"UNAVAILABLE", "NOT_FOUND"}       \* _DEFAULT_FALLBACK_STATUSES

(* What follows a failed attempt.  Retry inside Fallback repeats the named model only,      *)
(* the others are run once; Retry outside repeats the whole chain.                      *)
AfterFailure(status) ==
  LET again == On("retry") /\ Retried(status) /\ run.attempt < MaxRetries
      other == On("fallback") /\ FellBack(status) /\ run.model < MaxModels
      Retry == [run EXCEPT !.attempt = @ + 1, !.model = 0]
      Fallback == [run EXCEPT !.model = @ + 1]
  IN IF On("retry>fallback")
     THEN IF other THEN Fallback ELSE IF again THEN Retry ELSE [run EXCEPT !.at = "failed"]
     ELSE IF again /\ run.model = 0 THEN Retry
          ELSE IF other THEN Fallback ELSE [run EXCEPT !.at = "failed"]

(* Retry.wrap_model, Fallback.wrap_model; what was streamed stays streamed. *)
ModelFails ==
  /\ run.at = "model"
  /\ \E status \in Failures : run' = AfterFailure(status)
  /\ UNCHANGED <<use, messages, queue, tools, disk, stored, stream, chunks>>

(* The model asks for tools, numbered in order, or is done. *)
ModelAnswers ==
  /\ run.at = "model"
  /\ \E round \in Rounds :
       /\ tools' = tools \union {[tool |-> round[k], n |-> run.n + k, at |-> "waiting", seen |-> {},
                                restart |-> FALSE, left |-> FALSE] : k \in DOMAIN round}
       /\ run' = [run EXCEPT !.at = IF round = <<>> THEN "done" ELSE "tools", !.n = @ + Len(round)]
       /\ messages' = Append(messages, Msg("model",
            [k \in DOMAIN round |-> Part("request", round[k], run.n + k)]))
  /\ UNCHANGED <<use, queue, disk, stored, stream, chunks>>

(* --------------------------------- wrap_tool --------------------------------- *)

ToolsRun == run.at \in {"tools", "resuming"}
Mine == {w \in tools : ~w.left}      \* the tools the call waits for
Orphans == tools \ Mine
With(w, at) == (tools \ {w}) \union {[w EXCEPT !.at = at]}

(* _enqueue_parts: on the user message that waits, unless two threads both saw none. *)
Enqueued(part, others) ==
  \/ queue' = IF queue = <<>> THEN <<User(part)>>
              ELSE [queue EXCEPT ![Len(queue)].parts = Append(@, part)]
  \/ others /\ queue' = Append(queue, User(part))

(* ToolApproval.wrap_tool: a restarted tool carries its approval. *)
Approval ==
  /\ ToolsRun /\ On("approval")
  /\ \E w \in Mine : /\ w.at = "waiting" /\ ~w.restart /\ w.tool \notin use.allowed
                     /\ tools' = With(w, "paused")
  /\ UNCHANGED <<use, messages, queue, disk, stored, stream, chunks, run>>

MayRun(w) == /\ w.at = "waiting"
             /\ On("approval") => w.restart \/ w.tool \in use.allowed

(* read_file answers that its content is queued, and so does a Filesystem tool that       *)
(* fails.  One left by a failed call fills the queue of that call's instance.             *)
ReadFile ==
  /\ \E w \in tools :
       /\ MayRun(w) /\ w.tool \in {"read_file", "no_file"}
       /\ tools' = With(w, "done")
       /\ IF ~w.left
          THEN Enqueued(Part("queued", w.tool, w.n),
                        w.tool = "read_file" /\ \E v \in Mine \ {w} : v.tool = "read_file")
          ELSE UNCHANGED queue
  /\ UNCHANGED <<use, messages, disk, stored, stream, chunks, run>>

(* edit_file, in a thread of its own: it reads the file ... *)
EditReads ==
  /\ \E w \in tools :
       /\ MayRun(w) /\ w.tool = "edit_file"
       /\ LET other == {v.n : v \in {u \in tools \ {w} : u.at = "read"}}
          IN disk' = [disk EXCEPT !.clashed = @ \union other \union (IF other = {} THEN {} ELSE {w.n})]
       /\ tools' = (tools \ {w}) \union {[w EXCEPT !.at = "read", !.seen = disk.file]}
  /\ UNCHANGED <<use, messages, queue, stored, stream, chunks, run>>

(* ... and writes what it read with its edit. *)
EditWrites ==
  /\ \E w \in tools :
       /\ w.at = "read"
       /\ disk' = [disk EXCEPT !.file = w.seen \union {w.n},
                                !.acked = IF w.left THEN @ ELSE @ \union {w.n}]
       /\ tools' = With(w, "done")
  /\ UNCHANGED <<use, messages, queue, stored, stream, chunks, run>>

(* write_artifact *)
WriteArtifact ==
  /\ \E w \in tools : MayRun(w) /\ w.tool = "write_artifact" /\ tools' = With(w, "done")
  /\ stored' = [stored EXCEPT !.artifacts = @ + 1]
  /\ UNCHANGED <<use, messages, queue, disk, stream, chunks, run>>

(* A tool of the application raises: gather answers at once and the turn is dropped; the   *)
(* other tools go on.                                                               *)
ToolFails ==
  /\ ToolsRun
  /\ \E w \in Mine :
       /\ MayRun(w) /\ w.tool = "raises"
       /\ tools' = {[v EXCEPT !.left = TRUE] : v \in {u \in tools \ {w} : u.at # "paused" /\ u.tool # "raises"}}
  /\ messages' = IF run.at = "resuming" THEN messages ELSE SubSeq(messages, 1, Len(messages) - 1)
  /\ run' = [run EXCEPT !.at = "failed"]
  /\ UNCHANGED <<use, queue, disk, stored, stream, chunks>>

(* The reply of a tool: "pending" when it waited for a paused one, "restarted". *)
ToolReplies(kind) ==
  LET parts == {p \in PartsOf(Last(messages)) : p.kind \in {"request", "pending", "interrupt"}}
      N(k) == CHOOSE p \in parts : Cardinality({q \in parts : q.n < p.n}) = k - 1
      Kind(p) == CASE p.kind = "pending" -> "pending" [] p.kind = "interrupt" -> "restarted"
                   [] OTHER -> kind
  IN [k \in 1..Cardinality(parts) |-> Part(Kind(N(k)), N(k).tool, N(k).n)]

AllAt(states) == \A w \in Mine : w.at \in states

(* A closed round: the tool message, its chunk, the next turn. *)
RoundCloses ==
  /\ run.at = "tools" /\ AllAt({"done"})
  /\ messages' = Append(messages, Msg("tool", ToolReplies("reply")))
  /\ LET at == IF chunks.role # "tool" /\ chunks.sent THEN chunks.index + 1 ELSE chunks.index
     IN /\ stream' = Append(stream, [index |-> at, role |-> "tool"])
        /\ chunks' = [index |-> at + 1, role |-> "tool", sent |-> TRUE]
  /\ tools' = Orphans
  /\ run' = [run EXCEPT !.at = "turn"]
  /\ UNCHANGED <<use, queue, disk, stored>>

(* to_pending_response: the outputs of the finished tools are kept on the paused turn. *)
RoundPauses ==
  /\ run.at = "tools" /\ AllAt({"done", "paused"}) /\ ~AllAt({"done"})
  /\ messages' = [messages EXCEPT ![Len(messages)].parts =
       [k \in DOMAIN @ |-> LET w == CHOOSE v \in Mine : v.n = @[k].n
                           IN Part(IF w.at = "paused" THEN "interrupt" ELSE "pending", w.tool, w.n)]]
  /\ run' = [run EXCEPT !.at = "paused"] /\ tools' = Orphans
  /\ UNCHANGED <<use, queue, disk, stored, stream, chunks>>

(* resolve_resume_options: the restarted tools ran, the model is called in this turn.     *)
ResumeCloses ==
  /\ run.at = "resuming" /\ AllAt({"done"})
  /\ messages' = Append(messages, Msg("tool", ToolReplies("reply")))
  /\ Made("tool")
  /\ tools' = Orphans
  /\ run' = [run EXCEPT !.at = "model"]
  /\ UNCHANGED <<use, queue, disk, stored>>

(* ------------------------------- the next call ------------------------------- *)

(* The caller resends what it got: to restart the paused tools, approved, or to ask        *)
(* again.  A call has an instance of its own of each middleware.                       *)
NextCall ==
  /\ run.at \in {"paused", "failed", "done"} /\ run.calls < MaxCalls
  /\ messages' = IF Last(messages).role = "model" /\ run.at # "done" THEN messages
                 ELSE Append(messages, User(Part("ask", "", run.calls)))
  /\ queue' = <<>> /\ stream' = <<>>
  /\ chunks' = [index |-> 0, role |-> "model", sent |-> FALSE]
  /\ run' = [run EXCEPT !.at = "turn", !.calls = @ + 1]
  /\ UNCHANGED <<use, tools, disk, stored>>

(* A SKILL.md appears, or changes. *)
SkillsChange ==
  /\ On("skills") /\ stored.skills < 2 /\ run.at \in {"turn", "model"}
  /\ stored' = [stored EXCEPT !.skills = @ + 1]
  /\ UNCHANGED <<use, messages, queue, tools, disk, stream, chunks, run>>

MwNext ==
  \/ StartTurn \/ ModelStreams \/ ModelFails \/ ModelAnswers \/ Approval \/ ReadFile \/ EditReads
  \/ EditWrites \/ WriteArtifact \/ ToolFails \/ RoundCloses \/ RoundPauses \/ ResumeCloses
  \/ NextCall \/ SkillsChange

MwSpec == MwInit /\ [][MwNext]_mwVars

(* --------------------------------- properties --------------------------------- *)

(* What the model is told at each call of it is what the tools did.  A read that a tool     *)
(* message answered stands once in the user message behind that message; the session's     *)
(* artifacts are listed once, with every write that was answered; the skills stand once,   *)
(* as they are on disk.  An edit that was answered is in the file, unless another edit ran  *)
(* at the same time.                                                                *)
Shown(kind) == {at \in UNION {{k} \X DOMAIN messages[k].parts : k \in DOMAIN messages} :
                  messages[at[1]].parts[at[2]].kind = kind}
ReadsFollowReplies ==
  \A k \in DOMAIN messages : \A p \in PartsOf(messages[k]) :
    p.kind = "reply" /\ p.tool \in {"read_file", "no_file"} =>
      LET there == {at \in Shown("queued") : messages[at[1]].parts[at[2]].n = p.n}
      IN Cardinality(there) = 1 /\ \A at \in there : \A j \in (k + 1)..at[1] : messages[j].role = "user"
ListedOnce ==
  LET PartAt(at) == messages[at[1]].parts[at[2]]
      answered == {at \in Shown("reply") : PartAt(at).tool = "write_artifact"}
  IN /\ On("artifacts") => /\ Cardinality(Shown("listing")) = 1
                           /\ \A at \in Shown("listing") : Cardinality(answered) <= PartAt(at).n
     /\ Cardinality(Shown("skills")) <= 1
EditsStand == disk.acked \ disk.clashed \subseteq disk.file
ModelSeesItsTools == run.at = "model" => ReadsFollowReplies /\ ListedOnce /\ EditsStand

(* The chunks of a call come in the order of its messages, and two of one index belong to   *)
(* messages of the same role: a client that groups chunks by index never mixes what the     *)
(* model said with what its tools, or the middleware, added.                           *)
StreamNamesMessages ==
  \A i, j \in DOMAIN stream : i < j =>
    /\ stream[i].index <= stream[j].index
    /\ stream[i].index = stream[j].index => stream[i].role = stream[j].role

(* What the middleware adds comes where it belongs, in the request of the next model     *)
(* call and in the stream.                                                             *)
InjectionsInOrder == ModelSeesItsTools /\ StreamNamesMessages

(* The docstring of genkit_middleware/_filesystem.py: "wrap_generate drains queued         *)
(* messages into the request before the next model call."  The content of every read the    *)
(* model is answered stands in the request of a model call.                              *)
QueuedReachesModel ==
  run.at = "model" =>
    \A at \in Shown("reply") \union Shown("pending") \union Shown("restarted") :
      LET p == messages[at[1]].parts[at[2]]
      IN p.tool = "read_file" /\ messages[at[1]].role = "tool" =>
           \E to \in Shown("queued") : messages[to[1]].parts[to[2]].n = p.n
=============================================================================
