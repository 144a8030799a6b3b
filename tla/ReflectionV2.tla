----------------------------- MODULE ReflectionV2 -----------------------------
(* The runtime's side of the dev UI (_core/_reflection_v2.py): one websocket to  *)
(* the manager, lost and opened again, over which the manager runs actions,     *)
(* one-shot or agent runs fed turn by turn, reads their chunks and cancels them. *)
(* One event loop.  Frames leave through one FIFO lock (outbox); wire is what    *)
(* each connection carried.  Trace ids and request ids are fresh per run.        *)
EXTENDS Naturals, Sequences, FiniteSets, SequencesExt

CONSTANTS Runs,         \* request ids of runAction
          Agents,       \* those that run a BidiAction with streamInput
          MaxInputs,    \* bound: inputs the manager sends to an agent run
          Loads         \* bounds: the runs asked for, the chunks of each, the
                        \* connections, the writes that fail on a live one

ASSUME ReflectionConstants ==
  /\ Agents \subseteq Runs /\ MaxInputs \in Nat
  /\ Loads \subseteq [runs : SUBSET Runs, chunks : Nat, conns : Nat, timeouts : Nat]

VARIABLES
  load,      \* the bounds of this behaviour; never changes
  conn,      \* connections opened so far; the last is the live one while ws
  ws,        \* self.ws is not None
  outbox,    \* senders at the write lock: [id, kind, n, written]; the head holds it
  wire,      \* runAction -> the frames about it: [conn, kind, n]
  run,       \* runAction -> its task
  active,    \* active_actions: the runs cancelAction finds
  streams,   \* bidi_input_streams: the runs whose stream is registered
  inq,       \* input queue of each agent run: [items, closed]
  doomed,    \* tasks with a CancelledError on its way
  claimed,   \* runs of which cancelAction answered "Action cancelled"
  timeouts   \* writes that failed so far

reflVars == <<load, conn, ws, outbox, wire, run, active, streams, inq, doomed,
              claimed, timeouts>>

NewRun == [pc |-> "none", conn |-> 0, chunks |-> 0, inputs |-> 0]

ReflectionInit ==
  /\ load \in Loads
  /\ conn = 0 /\ ws = FALSE /\ outbox = <<>> /\ wire = [i \in Runs |-> <<>>]
  /\ run = [i \in Runs |-> NewRun]
  /\ active = {} /\ streams = {} /\ doomed = {} /\ claimed = {}
  /\ inq = [i \in Runs |-> [items |-> 0, closed |-> FALSE]]
  /\ timeouts = 0

AnswerKinds == {"response", "error", "internal"}

Goto(i, pc) == run' = [run EXCEPT ![i].pc = pc]
Live(i) == run[i].pc \notin {"none", "ended"}

(* The finally of run_action and run_bidi_action, and the end of the task. *)
Ended(i) ==
  /\ Goto(i, "ended")
  /\ active' = active \ {i}
  /\ streams' = streams \ {i}

(* ------------------------------ sending a frame ------------------------------ *)

Frame(i, kind, n) == [id |-> i, kind |-> kind, n |-> n, written |-> FALSE]

(* Fault: the write lock does not serve in order. *)
EnqueuedEarly(frame) ==
  CASE ~ws -> outbox
    [] ws /\ outbox # <<>> /\ outbox[1].written -> InsertAt(outbox, 2, frame)
    [] OTHER -> <<frame>> \o outbox

(* send_message raises at once when there is no websocket; else the sender      *)
(* queues at the FIFO write lock.                                               *)
Enqueued(frame) == IF ws THEN Append(outbox, frame) ELSE outbox

(* The senders at these places, in their order. *)
Senders(places) ==
  LET Nth(k) == Cardinality({m \in places : m <= k})
  IN [j \in 1..Cardinality(places) |-> outbox[CHOOSE k \in places : Nth(k) = j]]

(* The holder of the lock hands its frame to the websocket of the moment. *)
Write ==
  /\ outbox # <<>> /\ ~outbox[1].written /\ ws
  /\ outbox' = [outbox EXCEPT ![1].written = TRUE]
  /\ wire' = [wire EXCEPT ![outbox[1].id] =
                Append(@, [conn |-> conn, kind |-> outbox[1].kind, n |-> outbox[1].n])]
  /\ UNCHANGED <<conn, ws, run, active, streams, inq, doomed, claimed, timeouts>>

(* What the sender does when its send returned (ok) or raised. The state frame   *)
(* is awaited by on_trace_start inside action.run; chunk tasks are on their own; *)
(* a response that fails is reported as an error, a report that fails reaches    *)
(* dispatch_incoming, which tries once more.                                    *)
Told(frame, ok) ==
  LET i == frame.id
  IN CASE frame.kind = "chunk" -> UNCHANGED <<run, active, streams>>
       [] frame.kind = "state" ->
            /\ IF ok THEN Goto(i, "running")
                     ELSE Goto(i, "failing")
            /\ UNCHANGED <<active, streams>>
       [] frame.kind = "response" /\ ~ok ->
            /\ Goto(i, "failing")
            /\ UNCHANGED <<active, streams>>
       [] frame.kind = "error" /\ ~ok ->
            /\ Goto(i, "internal")
            /\ active' = active \ {i} /\ streams' = streams \ {i}
       [] OTHER -> Ended(i)

(* The lock is released: the frame went out. *)
Sent ==
  /\ outbox # <<>> /\ outbox[1].written
  /\ outbox' = Tail(outbox)
  /\ Told(outbox[1], TRUE)
  /\ UNCHANGED <<conn, ws, wire, inq, doomed, claimed, timeouts>>

(* wait_for ran out, or the websocket is gone when the lock is obtained. *)
WriteFails ==
  /\ outbox # <<>> /\ ~outbox[1].written
  /\ IF ws THEN timeouts < load.timeouts /\ timeouts' = timeouts + 1
           ELSE UNCHANGED timeouts
  /\ outbox' = Tail(outbox)
  /\ Told(outbox[1], FALSE)
  /\ UNCHANGED <<conn, ws, wire, inq, doomed, claimed>>

(* A run's own send (not one of its chunk tasks): queued, or refused at once. *)
Sends(i, kind, pc) ==
  IF ws THEN /\ outbox' = Append(outbox, Frame(i, kind, 0))
             /\ Goto(i, pc) /\ UNCHANGED <<active, streams>>
        ELSE Told(Frame(i, kind, 0), FALSE) /\ UNCHANGED outbox

(* ------------------------------ the connection ------------------------------ *)

(* run_forever connects; when it is not the first time, after a backoff of half  *)
(* a second at least, longer than a CancelledError takes to arrive.             *)
Connect ==
  /\ ~ws /\ conn < load.conns /\ doomed = {}
  /\ conn' = conn + 1 /\ ws' = TRUE
  /\ UNCHANGED <<outbox, wire, run, active, streams, inq, doomed, claimed, timeouts>>

(* The finally of run_forever: every handler is cancelled, every live input      *)
(* stream closed and forgotten.                                                 *)
Disconnect ==
  /\ ws
  /\ ws' = FALSE
  /\ doomed' = doomed \union {i \in Runs : Live(i)}
  /\ inq' = [i \in Runs |-> IF i \in streams THEN [inq[i] EXCEPT !.closed = TRUE]
                                             ELSE inq[i]]
  /\ streams' = {}
  /\ UNCHANGED <<conn, outbox, wire, run, active, claimed, timeouts>>

(* ------------------------------ running an action ------------------------------ *)

(* runAction arrives: dispatch_incoming, handle_run_action. *)
RunAction(i) ==
  /\ ws /\ run[i].pc = "none" /\ i \in load.runs
  /\ run' = [run EXCEPT ![i].pc = "resolving", ![i].conn = conn]
  /\ UNCHANGED <<conn, ws, outbox, wire, active, streams, inq, doomed, claimed, timeouts>>

(* The key is not found, or an input does not validate: an error response.       *)
(* Else run_bidi_action registers the stream before the run starts, and          *)
(* on_trace_start, called before the action's first await, makes the run one     *)
(* that cancelAction finds and waits for its state frame.                       *)
Resolved(i) ==
  /\ run[i].pc = "resolving" /\ i \notin doomed
  /\ \/ Sends(i, "error", "reporting")
     \/ /\ IF ws THEN outbox' = Append(outbox, Frame(i, "state", 0)) /\ Goto(i, "tracing")
                  ELSE /\ Goto(i, "failing")
                       /\ UNCHANGED outbox
        /\ active' = active \union {i}
        /\ streams' = IF i \in Agents THEN streams \union {i} ELSE streams
  /\ UNCHANGED <<conn, ws, wire, inq, doomed, claimed, timeouts>>

(* on_chunk makes a task per chunk; tasks start in the order they were made. *)
Emit(i) ==
  /\ run[i].pc \in {"running", "unwinding"} /\ run[i].chunks < load.chunks
  /\ run' = [run EXCEPT ![i].chunks = @ + 1]
  /\ outbox' = Enqueued(Frame(i, "chunk", run[i].chunks + 1))
  /\ UNCHANGED <<conn, ws, wire, active, streams, inq, doomed, claimed, timeouts>>

(* An agent run takes its next turn. *)
TakeInput(i) ==
  /\ run[i].pc = "running" /\ inq[i].items > 0
  /\ inq' = [inq EXCEPT ![i].items = @ - 1]
  /\ UNCHANGED <<conn, ws, outbox, wire, run, active, streams, doomed, claimed, timeouts>>

(* The action returns (an agent when its inputs have ended) or raises. *)
ActionReturns(i) ==
  /\ run[i].pc = "running" /\ i \notin doomed
  /\ i \in Agents => inq[i].closed /\ inq[i].items = 0
  /\ Goto(i, "draining")
  /\ UNCHANGED <<conn, ws, outbox, wire, active, streams, inq, doomed, claimed, timeouts>>

ActionRaises(i) ==
  /\ run[i].pc \in {"running", "unwinding"}
  /\ Goto(i, "failing")
  /\ UNCHANGED <<conn, ws, outbox, wire, active, streams, inq, doomed, claimed, timeouts>>

ChunksOut(i) == ~\E k \in DOMAIN outbox : outbox[k].id = i /\ outbox[k].kind = "chunk"

(* drain_chunks, then respond_run_action_success: flush_tracing, the response. *)
Drained(i) ==
  /\ run[i].pc = "draining" /\ ChunksOut(i) /\ i \notin doomed
  /\ Goto(i, "flushing")
  /\ UNCHANGED <<conn, ws, outbox, wire, active, streams, inq, doomed, claimed, timeouts>>

Flushed(i) ==
  /\ run[i].pc = "flushing" /\ i \notin doomed
  /\ Sends(i, "response", "responding")
  /\ UNCHANGED <<conn, ws, wire, inq, doomed, claimed, timeouts>>

(* The except clause: drain_chunks, then send_run_action_error. *)
Report(i) ==
  /\ run[i].pc = "failing" /\ ChunksOut(i)
  /\ Sends(i, "error", "reporting")
  /\ UNCHANGED <<conn, ws, wire, inq, doomed, claimed, timeouts>>

(* dispatch_incoming: 'internal error' for what escaped the handler. *)
Internal(i) ==
  /\ run[i].pc = "internal" /\ i \notin doomed
  /\ Sends(i, "internal", "closing")
  /\ UNCHANGED <<conn, ws, wire, inq, doomed, claimed, timeouts>>

(* The CancelledError arrives at the await the task is in.  A send that waits    *)
(* for the lock or has written its frame is given up; a gather of chunk tasks     *)
(* cancels them; inside the except clause it ends the task unreported.          *)
CancelLands(i) ==
  /\ i \in doomed /\ Live(i)
  /\ run[i].pc = "failing" => ~ChunksOut(i)
  /\ doomed' = doomed \ {i}
  /\ LET drops == IF run[i].pc \in {"draining", "failing"} THEN {"chunk"}
                  ELSE {"state", "response", "error", "internal"}
     IN outbox' = Senders({k \in DOMAIN outbox : outbox[k].id = i => outbox[k].kind \notin drops})
  /\ IF run[i].pc \in {"resolving", "failing", "reporting", "internal", "closing"}
       THEN Ended(i)
       ELSE /\ Goto(i, IF run[i].pc \in {"running", "unwinding"} THEN "unwinding" ELSE "failing")
            /\ UNCHANGED <<active, streams>>
  /\ UNCHANGED <<conn, ws, wire, inq, claimed, timeouts>>

(* --------------------------- the manager's requests --------------------------- *)

(* cancelAction that finds the run: the task is cancelled, the registration      *)
(* dropped and the request answered "Action cancelled".                         *)
CancelAction(i) ==
  /\ ws /\ i \in active
  /\ doomed' = doomed \union {i}
  /\ active' = active \ {i}
  /\ claimed' = claimed \union {i}
  /\ UNCHANGED <<conn, ws, outbox, wire, run, streams, inq, timeouts>>

SendInputStreamChunk(i) ==
  /\ ws /\ i \in streams /\ ~inq[i].closed
  /\ run[i].inputs < MaxInputs
  /\ run' = [run EXCEPT ![i].inputs = @ + 1]
  /\ inq' = [inq EXCEPT ![i].items = @ + 1]
  /\ UNCHANGED <<conn, ws, outbox, wire, active, streams, doomed, claimed, timeouts>>

EndInputStream(i) ==
  /\ ws /\ i \in streams /\ ~inq[i].closed
  /\ inq' = [inq EXCEPT ![i].closed = TRUE]
  /\ UNCHANGED <<conn, ws, outbox, wire, run, active, streams, doomed, claimed, timeouts>>

(* ------------------------------- specification ------------------------------- *)

RunStep(i) == \/ Resolved(i) \/ Emit(i) \/ TakeInput(i) \/ ActionReturns(i)
              \/ ActionRaises(i) \/ Drained(i) \/ Flushed(i) \/ Report(i)
              \/ Internal(i) \/ CancelLands(i)

ReflectionSystem == Write \/ Sent \/ (~ws /\ WriteFails) \/ \E i \in Runs : RunStep(i)

ReflectionNext ==
  /\ \/ ReflectionSystem \/ WriteFails \/ Connect \/ Disconnect
     \/ \E i \in Runs : \/ RunAction(i) \/ CancelAction(i)
                         \/ SendInputStreamChunk(i) \/ EndInputStream(i)
  /\ UNCHANGED load

(* The loop runs what is ready, a write ends (wait_for), an action that has its  *)
(* inputs returns.  The manager owes nothing.                                   *)
ReflectionSpec == ReflectionInit /\ [][ReflectionNext]_reflVars
                  /\ WF_reflVars(ReflectionSystem /\ UNCHANGED load)

(* -------------------------------- properties -------------------------------- *)

Answer(f) == f.kind \in AnswerKinds

(* What one connection carries of a run is what the dev UI can rebuild it from:  *)
(* the chunks in the order they were emitted, none twice, nothing after the      *)
(* answer, and one answer, unless a cancel or a write that timed out came while  *)
(* the answer was on its way.                                                   *)
WireTellsTheRun ==
  \A i \in Runs : \A p, q \in DOMAIN wire[i] :
    p < q /\ wire[i][p].conn = wire[i][q].conn =>
      /\ wire[i][p].kind = "chunk" /\ wire[i][q].kind = "chunk" => wire[i][p].n < wire[i][q].n
      /\ Answer(wire[i][p]) => Answer(wire[i][q]) /\ (i \in claimed \/ timeouts > 0)

(* A request is not left without an answer: a run that ended on the connection   *)
(* that asked for it, uncancelled and with no write lost, was answered, and a    *)
(* success follows every chunk.                                                 *)
NoRunLeftUnanswered ==
  \A i \in Runs :
    LET Carried(kinds) == {k \in DOMAIN wire[i] : wire[i][k].kind \in kinds}
    IN run[i].pc = "ended" /\ ws /\ conn = run[i].conn /\ i \notin claimed /\ timeouts = 0 =>
         /\ Carried(AnswerKinds) # {}
         /\ Carried({"response"}) # {} => Cardinality(Carried({"chunk"})) = run[i].chunks

(* active_actions and bidi_input_streams name runs that are alive: none is left  *)
(* by a run that ended, however it ended, and an agent run that nobody cancelled *)
(* can be fed as long as its connection lives.                                  *)
RegistrationsMatchRuns ==
  /\ \A i \in active \union streams : Live(i)
  /\ \A i \in Agents : run[i].pc = "running" /\ ws /\ conn = run[i].conn => i \in streams
  /\ ~ws => streams = {}

(* The dev UI sees each run as it went, and can reach the runs that go on.         *)
DevUiSeesTheRun == WireTellsTheRun /\ NoRunLeftUnanswered /\ RegistrationsMatchRuns

(* Every run ends, also when its connection is lost while it waits for input,    *)
(* except an agent run whose manager is there and may still send a turn.        *)
RunsEnd ==
  \A i \in Runs : Live(i) ~>
    run[i].pc = "ended" \/ (run[i].pc = "running" /\ i \in streams /\ ~inq[i].closed)
=============================================================================
