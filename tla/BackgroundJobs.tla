---------------------------- MODULE BackgroundJobs ----------------------------
(* Long-running models (_core/_background.py, Veo and Deep Research of             *)
(* genkit_google_genai): generate starts a provider's job and hands back a handle  *)
(* through the middleware, the caller stores it, polls it, cancels it, and may do  *)
(* so in another process.  What finds a job again is the action key on its handle. *)
EXTENDS PluginCatalog

CONSTANTS Jobs,         \* the runs to check: records of shop, name, entry, hooks, key, passes
          MaxFailures,  \* bound: polls that fail in transport
          MaxRestarts   \* bound: restarts of the process

(* What a handle can be. *)
Operations ==
  [action : {r.name : r \in Jobs}, done : BOOLEAN, output : BOOLEAN, error : BOOLEAN]

ASSUME JobConstants ==
  /\ MaxFailures \in Nat /\ MaxRestarts \in Nat
  /\ \A r \in Jobs : r.name # Absent
  /\ Absent \notin Operations
  /\ \A r \in Jobs : \A kind \in {"background-model", "check-operation"}, schema \in {"veo", Family(r.name)} :
       Absent # Act(kind, r.name, schema)

VARIABLES request,      \* the request of this behaviour; never changes
          job,      \* the provider's job: "none", "running" or how it ended
          returned, \* generate has answered
          handle,   \* the Operation the caller holds, or Absent
          saved,    \* the Operation it stored when it got it, or Absent
          mishaps   \* failed polls and restarts so far

jobVars == <<request, job, returned, handle, saved, mishaps>>

Research == Has(request.name, "deep-research-")

Endings ==
  IF Research
  THEN {"completed", "completed_empty", "incomplete", "incomplete_empty", "cancelled",
        "failed", "requires_action", "unheard_of"}
  ELSE {"videos", "error", "filtered", "no_media"}

(* An Operation: the key of its start action, and whether it is done, has output,   *)
(* has an error.                                                                   *)
Op(action, done, output, error) ==
  [action |-> action, done |-> done, output |-> output, error |-> error]

(* ------------------------------ what a poll says ------------------------------ *)

(* from_interaction: whatever ends a job ends the polling, and says why. *)
FromInteraction(status) ==
  Op(Absent, status # "running",
     status \in {"completed", "completed_empty", "incomplete", "cancelled"},
     status \in {"incomplete_empty", "failed", "requires_action", "unheard_of"})

(* _from_veo_operation: done without a playable video is an error. *)
FromVeo(status) ==
  Op(Absent, status # "running", status = "videos",
     status \in {"error", "filtered", "no_media"})

(* wrapped_start, wrapped_check and persist put the action key on every answer. *)
Stamped(op) == [op EXCEPT !.action = request.name]

Polled(status) == Stamped(IF Research THEN FromInteraction(status) ELSE FromVeo(status))

(* -------------------------- the ticket and the hooks -------------------------- *)

Response(ticket, failed) == [ticket |-> ticket, failed |-> failed]
Raised == Response(Absent, TRUE)

(* A hook hands on what it got, answers without the operation, or raises.  What was   *)
(* raised inside goes through it.                                                  *)
Hooked(hook, inner) ==
  IF inner = Raised \/ hook = "raise" THEN Raised
  ELSE IF hook = "drop" THEN Response(Absent, FALSE)
  ELSE inner

(* box_dead_turn: the failure is put on a copy of the handle. *)
Boxed(ticket) ==
  Response(IF ticket = Absent THEN Absent ELSE [ticket EXCEPT !.error = TRUE], TRUE)

(* The fault of passing on what the hooks made of the answer. *)
AsTheHooksSay(ticket, answer) == answer

(* box_if_hook_dropped_ticket: a dropped ticket is kept on a failed response. *)
KeepTicket(ticket, answer) == IF answer.ticket = Absent THEN Boxed(ticket) ELSE answer

(* call_model in generate_turn: what the model hooks make of the started job; if one   *)
(* raises, the box is built from the ticket (GenerateRun.earned).                   *)
TurnAnswer(ticket) ==
  LET answer == Hooked(request.model, Response(ticket, FALSE))
  IN IF answer = Raised THEN Boxed(ticket) ELSE KeepTicket(ticket, answer)

(* run_wrap_generate: the generate hooks, inside out; when one raises, the box is       *)
(* built from the last response a hook returned (GenerateRun.last_response).        *)
GenerateAnswer(ticket) ==
  LET turn == TurnAnswer(ticket)
      inner == Hooked(request.inner, turn)
      outer == Hooked(request.outer, inner)
      last == IF inner = Raised THEN turn ELSE inner
  IN IF outer = Raised THEN Boxed(last.ticket) ELSE KeepTicket(ticket, outer)

(* generate keeps the operation of a failed response; generate_operation raises. *)
Handed(answer) ==
  IF request.entry = "generate_operation" /\ answer.failed THEN Absent ELSE answer.ticket

(* ---------------------------------- actions ---------------------------------- *)

JobsInit ==
  /\ request \in Jobs
  /\ job = "none" /\ returned = FALSE
  /\ handle = Absent /\ saved = Absent /\ mishaps = [failures |-> 0, restarts |-> 0]

(* generate on a background model: the provider bills a job, or refuses it and the    *)
(* response carries no operation.  The caller stores the handle it gets.            *)
StartJob ==
  /\ ~returned
  /\ Generates(request.shop, request.name) # Absent
  /\ \/ /\ job' = "running"
        /\ handle' = Handed(GenerateAnswer(Polled("running")))
     \/ job' = "none" /\ handle' = Absent
  /\ saved' = handle' /\ returned' = TRUE
  /\ UNCHANGED <<request, mishaps>>

(* The provider's job ends. *)
JobEnds ==
  /\ job = "running"
  /\ job' \in Endings
  /\ UNCHANGED <<request, returned, handle, saved, mishaps>>

(* operation_context: the key of the request reaches the plugin when the caller passes   *)
(* it again, or passes nothing or only config and so keeps the current context.       *)
KeyReaches(passes) == passes \in {"nothing", "config", "context"}

(* resolve_operation_action finds the start and the check action from the handle's key. *)
Found(op) ==
  /\ op.action # Absent
  /\ ResolvedBy(request.shop, "background-model", op.action) # Absent
  /\ ResolvedBy(request.shop, "check-operation", op.action) # Absent

(* The plugin asks the provider with the key the job was started with. *)
Reaches == Found(handle) /\ (request.key => KeyReaches(request.passes))

(* check_operation *)
Poll ==
  /\ handle # Absent /\ ~handle.done /\ Reaches
  /\ handle' = Polled(job)
  /\ UNCHANGED <<request, job, returned, saved, mishaps>>

(* The poll fails in transport: check raises and the caller keeps its handle. *)
PollFails ==
  /\ handle # Absent /\ ~handle.done /\ mishaps.failures < MaxFailures
  /\ mishaps' = [mishaps EXCEPT !.failures = @ + 1]
  /\ UNCHANGED <<request, job, returned, handle, saved>>

(* cancel_operation: a model without a cancel action answers UNIMPLEMENTED; the        *)
(* provider may have ended the job, or say that it still runs.                       *)
Cancel ==
  /\ handle # Absent /\ ~handle.done /\ Reaches
  /\ ResolvedBy(request.shop, "cancel-operation", handle.action) # Absent
  /\ job' \in (IF job = "running" THEN {"running", "cancelled"} ELSE {job})
  /\ handle' = Polled(job')
  /\ UNCHANGED <<request, returned, saved, mishaps>>

(* The process restarts with the handle that was stored. *)
Restart ==
  /\ returned /\ saved # Absent /\ mishaps.restarts < MaxRestarts
  /\ handle' = saved
  /\ mishaps' = [mishaps EXCEPT !.restarts = @ + 1]
  /\ UNCHANGED <<request, job, returned, saved>>

JobsNext == StartJob \/ JobEnds \/ Poll \/ PollFails \/ Cancel \/ Restart
JobsSystem == StartJob \/ JobEnds \/ Poll

JobsSpec == JobsInit /\ [][JobsNext]_jobVars /\ WF_jobVars(JobEnds) /\ WF_jobVars(Poll)

-------------------------------------------------------------------------------

Started == returned /\ job # "none"

(* start() already billed a ticket, dropping it orphans the job: whatever the hooks do,  *)
(* whoever called generate has the handle of the job that was started.               *)
NoJobOrphaned == Started /\ request.entry = "generate" => handle # Absent

(* The one order of hooks that loses it: an inner generate hook answers without the     *)
(* operation and an outer one raises, so the box is built from the inner answer.       *)
LostBetweenHooks == request.inner = "drop" /\ request.outer = "raise"

(* A started job stays in reach and is told truthfully: its caller has a handle, from    *)
(* whose key any process finds the actions that poll it; the handle says done only of   *)
(* a job that ended, and then has an output or an error, never both and never neither.  *)
JobsAreAccounted ==
  /\ ~LostBetweenHooks => NoJobOrphaned
  /\ \A op \in {handle, saved} \ {Absent} :
       /\ Found(op)
       /\ op.done => job \in Endings /\ (op.output # op.error)

(* Polling ends: a handle is one day done, although polls fail and processes restart. *)
PollsEnd == (handle # Absent) ~> (handle # Absent /\ handle.done)
=============================================================================
