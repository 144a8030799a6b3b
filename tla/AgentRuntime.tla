------------------------------ MODULE AgentRuntime ------------------------------
(***************************************************************************)
(* One invocation of an agent: AgentRuntime.run and the tasks it starts.   *)
(*                                                                         *)
(*   fwd    forward_inbound_stream: client inputs -> turn_inputs (size 1)  *)
(*   fn     run_agent_loop: SessionRunner.run and the user's handler       *)
(*   run    run() itself: waits for fn or for the detach signal            *)
(*   fin    finalize_detach        beat   refresh_heartbeat                *)
(*   watch  watch_snapshot_abort   abort  another request that aborts      *)
(*                                                                         *)
(* The tasks share one event loop: `running` is the task that holds it,    *)
(* and a step keeps the loop until it reaches an await that suspends.  A   *)
(* save is a call that the store commits atomically (InMemorySessionStore) *)
(* and the caller resumes from later.  With an "immediate" store (the      *)
(* in-memory store) a save never suspends its caller; with a "suspending"  *)
(* one (the file store, Firestore) other tasks run between the call, its   *)
(* commit and its return, and MaxStoreFailures calls may fail.  "none" is  *)
(* a client-managed agent.                                                 *)
(*                                                                         *)
(* The conversation is its version number: session.version grows with      *)
(* every mutation, so equal versions are equal states.                     *)
(***************************************************************************)
EXTENDS SnapshotRules, Integers, Sequences, FiniteSets

CONSTANTS
  StoreKinds,        \* the stores an agent may have
  Resumed,           \* the invocation continues an earlier snapshot
  InputKinds,        \* the inputs the client sends
  MaxInputs,         \* bound on the inputs sent
  MaxMutations,      \* bound on the session mutations of handlers
  MaxBeats,          \* bound on heartbeats
  MaxStoreFailures,  \* bound on store operations that raise
  MaxIds             \* bound on snapshot ids: one per turn, the parent, one for run()

ASSUME RuntimeAssumption ==
  /\ StoreKinds \subseteq {"none", "immediate", "suspending"}
  /\ Resumed \in BOOLEAN
  /\ InputKinds \subseteq {"message", "resume", "detach", "detachMessage"}
  /\ {MaxInputs, MaxMutations, MaxBeats, MaxStoreFailures} \subseteq Nat
  /\ MaxIds \in Nat /\ MaxIds >= MaxInputs + 2

None == 0          \* no snapshot id
Parent == 1        \* the snapshot the invocation resumes, if Resumed
Idle == "idle"     \* nobody holds the event loop
Tasks == {"fwd", "fn", "run", "fin", "beat", "watch", "abort"}

IsDetach(input) == input \in {"detach", "detachMessage"}
agent_input_has_payload(input) == input # "detach"
HasMessage(input) == input \in {"message", "detachMessage"}

VARIABLES
  storeKind,    \* the store of this agent; never changes
  running,      \* task that holds the event loop
  inbox,        \* client inputs not yet forwarded
  inboxClosed,  \* the client ended its stream
  sent,         \* inputs sent
  turn_inputs,  \* the intake queue, at most one input
  closed,       \* the intake queue is closed
  fwd,          \* state of the forwarder: [at, item]
  fn,           \* where the agent function is
  sr,           \* the fields of SessionRunner
  version,      \* session.version
  mutations,    \* mutations made by handlers
  rt,           \* the fields of AgentRuntime and the futures of run()
  run,          \* where run() is
  out,          \* the AgentOutput of run(): [reason, id]
  err_holder,   \* the agent function raised
  fin,          \* where finalize_detach is
  beat,         \* where the heartbeat is: [at, count]
  watch,        \* where the abort watcher is
  abort,        \* where the aborting request is: [at, answer]
  snapshots,    \* the rows of the store
  call,         \* the store operation of each task
  nextId,       \* the next fresh snapshot id
  failures,     \* store operations that raised for a reason of the store
  told          \* turnEnd chunks sent: [id, version]

client == <<inbox, inboxClosed, sent>>
queue == <<turn_inputs, closed>>
session == <<version, mutations>>
background == <<fin, beat, watch, abort>>
storeVars == <<storeKind, snapshots, failures>>
vars == <<running, client, queue, fwd, fn, sr, session, rt, run, out, err_holder,
          background, storeVars, call, nextId, told>>

HasStore == storeKind # "none"
StoreYields == storeKind = "suspending"

NoRow == [status |-> "absent", parent |-> None, state |-> 0, beat |-> 0]
\* Fault: the parent is the id reserved for the turn.
NewRowUnderTurn(status, state) ==
  [status |-> status, parent |-> sr.current_turn_snapshot_id, state |-> state, beat |-> 0]

NewRow(status, state) ==
  [status |-> status, parent |-> rt.last_snapshot, state |-> state, beat |-> 0]
NoCall == [phase |-> "none"]

Init ==
  /\ storeKind \in StoreKinds
  /\ running = Idle
  /\ inbox = <<>> /\ inboxClosed = FALSE /\ sent = 0
  /\ turn_inputs = <<>> /\ closed = FALSE
  /\ fwd = [at |-> "reading", item |-> "message"]
  /\ fn = "loop"
  /\ sr = [turn_index |-> 0, last_turn_finish_reason |-> "none", last_turn_error |-> FALSE,
           last_good_state |-> 0,
           last_good_finish_reason |-> "none", new_snapshot_id |-> None, current_turn_snapshot_id |-> None]
  /\ version = 0 /\ mutations = 0
  /\ rt = [detached |-> FALSE, detach_future |-> FALSE, abort_signal |-> FALSE,
           last_snapshot |-> IF HasStore /\ Resumed THEN Parent ELSE None,
           last_snapshot_version |-> IF HasStore /\ Resumed THEN 0 ELSE -1]
  /\ run = "waiting" /\ out = [reason |-> "none", id |-> None]
  /\ err_holder = FALSE
  /\ fin = "none" /\ watch = "none"
  /\ beat = [at |-> "none", count |-> 0]
  /\ abort = [at |-> "idle", answer |-> "none"]
  /\ snapshots = [id \in 1..MaxIds |->
       IF id = Parent /\ HasStore /\ Resumed
         THEN [status |-> "completed", parent |-> None, state |-> 0, beat |-> 0] ELSE NoRow]
  /\ call = [t \in Tasks |-> NoCall]
  /\ nextId = 2 /\ failures = 0
  /\ told = {}

-----------------------------------------------------------------------------
(* The event loop and the store *)

\* A task may step when the loop is free or already its own.
CanRun(t) == running \in {Idle, t}

\* await store.save_snapshot: the mutator sees the row at commit time, but the
\* new row was built from what the task knew when it made the call.
Issue(t, id, mutator, row) ==
  /\ call' = [call EXCEPT ![t] = [phase |-> "issued", id |-> id, mutator |-> mutator, row |-> row]]
  /\ running' = IF StoreYields THEN Idle ELSE t

Returned(t) == call[t].phase \in {"saved", "skipped", "raised"}

Produced(c) ==
  LET existing == snapshots[c.id]
  IN CASE c.mutator = "pending" -> {c.row}
       [] c.mutator = "settle"  -> UnlessAborted(existing, c.row)
       [] c.mutator = "abort"   -> abort_if_pending(existing)
       [] c.mutator = "beat"    -> BeatIfPending(existing, 1)

\* The store runs the mutator and commits (there is one session here, so only
\* the terminal-status rule of apply_save can refuse).
Commit(t) ==
  /\ call[t].phase = "issued"
  /\ StoreYields \/ running = t
  /\ LET c == call[t]
         existing == snapshots[c.id]
         Done(phase) == call' = [call EXCEPT ![t] = [c EXCEPT !.phase = phase]]
     IN \/ /\ Produced(c) = {}
           /\ Done("skipped")
           /\ UNCHANGED storeVars
        \/ \E row \in Produced(c) :
             IF TerminalFlip(existing, row)
               THEN Done("raised") /\ UNCHANGED storeVars
               ELSE /\ Done("saved")
                    /\ snapshots' = [snapshots EXCEPT ![c.id] = row]
                    /\ UNCHANGED <<storeKind, failures>>
        \/ /\ failures < MaxStoreFailures
           /\ failures' = failures + 1
           /\ Done("raised")
           /\ UNCHANGED <<storeKind, snapshots>>
  /\ UNCHANGED <<running, client, queue, fwd, fn, sr, session, rt, run, out, err_holder,
                 background, nextId, told>>

-----------------------------------------------------------------------------
(* The client *)

Send(input) ==
  /\ ~inboxClosed /\ sent < MaxInputs
  /\ inbox' = Append(inbox, input) /\ sent' = sent + 1
  /\ UNCHANGED <<running, inboxClosed, queue, fwd, fn, sr, session, rt, run, out, err_holder,
                 background, storeVars, call, nextId, told>>

CloseInput ==
  /\ ~inboxClosed
  /\ inboxClosed' = TRUE
  /\ UNCHANGED <<running, inbox, sent, queue, fwd, fn, sr, session, rt, run, out, err_holder,
                 background, storeVars, call, nextId, told>>

-----------------------------------------------------------------------------
(* forward_inbound_stream *)

Full == turn_inputs # <<>>
FwdUnchanged == UNCHANGED <<inboxClosed, sent, fn, sr, session, run, out, err_holder,
                            background, storeVars, call, nextId, told>>

\* Take the next client input; a detach stops chunk emission at once.
FwdTake ==
  /\ CanRun("fwd") /\ fwd.at = "reading" /\ inbox # <<>>
  /\ inbox' = Tail(inbox)
  /\ rt' = [rt EXCEPT !.detached = @ \/ IsDetach(Head(inbox))]
  /\ IF agent_input_has_payload(Head(inbox))
       THEN /\ fwd' = [at |-> "putting", item |-> Head(inbox)]
            /\ running' = IF Full /\ ~closed THEN Idle ELSE "fwd"
       ELSE /\ fwd' = [at |-> "signalling", item |-> Head(inbox)]
            /\ running' = "fwd"
  /\ UNCHANGED queue
  /\ FwdUnchanged

\* turn_inputs.put: waits for room; a closed queue raises, which ends the
\* forwarder of a plain input and is swallowed for a detach payload.
FwdPut ==
  /\ CanRun("fwd") /\ fwd.at = "putting" /\ (~Full \/ closed)
  /\ turn_inputs' = IF closed THEN turn_inputs ELSE Append(turn_inputs, fwd.item)
  /\ fwd' = [fwd EXCEPT !.at = IF IsDetach(fwd.item) THEN "signalling"
                               ELSE IF closed THEN "done" ELSE "reading"]
  /\ running' = IF ~IsDetach(fwd.item) /\ (closed \/ inbox = <<>>) THEN Idle ELSE "fwd"
  /\ UNCHANGED <<inbox, closed, rt>>
  /\ FwdUnchanged

\* The payload is queued: close the intake, then signal the detach.
FwdSignal ==
  /\ CanRun("fwd") /\ fwd.at = "signalling"
  /\ closed' = TRUE
  /\ rt' = [rt EXCEPT !.detach_future = TRUE]
  /\ fwd' = [fwd EXCEPT !.at = "done"]
  /\ running' = Idle
  /\ UNCHANGED <<inbox, turn_inputs>>
  /\ FwdUnchanged

\* End of the client's stream: close the intake so that the turn loop exits.
FwdEnd ==
  /\ CanRun("fwd") /\ fwd.at = "reading" /\ inbox = <<>> /\ inboxClosed
  /\ closed' = TRUE
  /\ fwd' = [fwd EXCEPT !.at = "done"]
  /\ running' = Idle
  /\ UNCHANGED <<inbox, turn_inputs, rt>>
  /\ FwdUnchanged

Forwarder == FwdTake \/ FwdPut \/ FwdSignal \/ FwdEnd

-----------------------------------------------------------------------------
(* SessionRunner.run and the handler *)

FnUnchanged == UNCHANGED <<client, fwd, run, out, background, storeVars>>

\* The agent function returns or raises: close the intake (run_agent_loop).
FnDone ==
  /\ fn' = "done" /\ closed' = TRUE /\ running' = Idle
  /\ UNCHANGED turn_inputs

\* Begin a turn: add the message, reserve the turn's snapshot id unless the
\* detach path did, hand it to the handler.
BeginTurn ==
  /\ CanRun("fn") /\ fn = "loop" /\ Full
  /\ turn_inputs' = Tail(turn_inputs)
  /\ version' = IF HasMessage(Head(turn_inputs)) THEN version + 1 ELSE version
  /\ LET id == IF sr.new_snapshot_id # None THEN sr.new_snapshot_id
                ELSE IF HasStore THEN nextId ELSE None
     IN /\ nextId' = IF id = nextId THEN nextId + 1 ELSE nextId
        /\ sr' = [sr EXCEPT !.new_snapshot_id = None, !.current_turn_snapshot_id = id]
  /\ fn' = "turn"
  /\ running' = "fn"
  /\ UNCHANGED <<closed, mutations, rt, err_holder, call, told>>
  /\ FnUnchanged

\* The intake is closed and drained: the loop ends.
EndLoop ==
  /\ CanRun("fn") /\ fn = "loop" /\ ~Full /\ closed
  /\ fn' = "tail"
  /\ running' = "fn"
  /\ UNCHANGED <<queue, session, sr, rt, err_holder, call, nextId, told>>
  /\ FnUnchanged

\* The handler awaits something.
Suspend ==
  /\ running = "fn" /\ fn = "turn"
  /\ running' = Idle
  /\ UNCHANGED <<queue, fn, session, sr, rt, err_holder, call, nextId, told>>
  /\ FnUnchanged

\* The handler, or the agent function after its loop, changes the session.
Mutate ==
  /\ CanRun("fn") /\ fn \in {"turn", "tail"} /\ mutations < MaxMutations
  /\ version' = version + 1 /\ mutations' = mutations + 1
  /\ running' = "fn"
  /\ UNCHANGED <<queue, fn, sr, rt, err_holder, call, nextId, told>>
  /\ FnUnchanged

\* After on_end_turn: a turn that raised ends the loop, any other is the last
\* good one and the loop takes the next input.
TurnOver(s) ==
  IF s.last_turn_error
    THEN /\ sr' = [s EXCEPT !.current_turn_snapshot_id = None]
         /\ fn' = "tail" /\ running' = "fn"
    ELSE /\ sr' = [s EXCEPT !.current_turn_snapshot_id = None, !.last_good_state = version,
                            !.last_good_finish_reason = s.last_turn_finish_reason,
                            !.turn_index = @ + 1]
         /\ fn' = "loop"
         /\ running' = IF Full \/ closed THEN "fn" ELSE Idle

\* Fault: a conversation that has a snapshot is not saved again.
SnapshotNeededOnce(force) == HasStore /\ (force \/ rt.last_snapshot = None)

\* maybe_snapshot writes when forced or when the session changed.
SnapshotNeeded(force) ==
  HasStore /\ (force \/ rt.last_snapshot = None \/ version # rt.last_snapshot_version)

\* emit_turn_end, entered with the runner fields s: nothing once detached;
\* otherwise the snapshot, and the turnEnd chunk when the save returns.
EmitTurnEnd(s) ==
  LET failed == s.last_turn_finish_reason = "failed"
  IN \/ /\ rt.detached \/ ~SnapshotNeeded(failed)
        /\ TurnOver(s)
        /\ told' = IF rt.detached THEN told ELSE told \cup {[id |-> rt.last_snapshot, version |-> version]}
        /\ call' = [call EXCEPT !["fn"] = NoCall]
     \/ /\ ~rt.detached /\ SnapshotNeeded(failed)
        /\ Issue("fn", s.current_turn_snapshot_id, "settle",
                 NewRow(IF failed THEN "failed" ELSE "completed", version))
        /\ sr' = s /\ fn' = "saving"
        /\ UNCHANGED told

\* The handler returns a finish reason (it may report a failure itself).
HandlerReturns(reason) ==
  /\ CanRun("fn") /\ fn = "turn"
  /\ EmitTurnEnd([sr EXCEPT !.last_turn_finish_reason = reason, !.last_turn_error = FALSE])
  /\ UNCHANGED <<queue, session, rt, err_holder, nextId>>
  /\ FnUnchanged

Failed(s) == [s EXCEPT !.last_turn_finish_reason = "failed", !.last_turn_error = TRUE]

HandlerRaises ==
  /\ CanRun("fn") /\ fn = "turn"
  /\ EmitTurnEnd(Failed(sr))
  /\ UNCHANGED <<queue, session, rt, err_holder, nextId>>
  /\ FnUnchanged

\* The fields maybe_snapshot and ensure_recovery_snapshot update after a save.
\* A skipped save leaves them alone.
AfterSave(t, v) ==
  rt' = IF call[t].phase = "saved"
          THEN [rt EXCEPT !.last_snapshot = call[t].id, !.last_snapshot_version = v] ELSE rt

\* The turn-end save returned.
TurnSaved ==
  /\ CanRun("fn") /\ fn = "saving" /\ call["fn"].phase \in {"saved", "skipped"}
  /\ AfterSave("fn", version)
  /\ told' = IF rt.detached THEN told ELSE told \cup {[id |-> rt'.last_snapshot, version |-> version]}
  /\ call' = [call EXCEPT !["fn"] = NoCall]
  /\ TurnOver(sr)
  /\ UNCHANGED <<queue, session, err_holder, nextId>>
  /\ FnUnchanged

\* The turn-end save raised: the turn becomes a failed one and is saved as such;
\* when that save raises too, the exception leaves the agent function.
TurnSaveRaised ==
  /\ CanRun("fn") /\ fn = "saving" /\ call["fn"].phase = "raised"
  /\ IF sr.last_turn_error
       THEN /\ FnDone
            /\ err_holder' = TRUE
            /\ sr' = [sr EXCEPT !.current_turn_snapshot_id = None]
            /\ call' = [call EXCEPT !["fn"] = NoCall]
            /\ UNCHANGED told
       ELSE /\ EmitTurnEnd(Failed(sr))
            /\ UNCHANGED <<queue, err_holder>>
  /\ UNCHANGED <<session, rt, nextId>>
  /\ FnUnchanged

\* The agent function ends after its loop.
FnReturns(raises) ==
  /\ CanRun("fn") /\ fn = "tail"
  /\ FnDone
  /\ err_holder' = raises
  /\ UNCHANGED <<session, sr, rt, call, nextId, told>>
  /\ FnUnchanged

FnStep ==
  \/ BeginTurn \/ EndLoop \/ TurnSaved \/ TurnSaveRaised
  \/ \E reason \in {"stop", "failed"} : HandlerReturns(reason)
  \/ HandlerRaises
  \/ \E raises \in BOOLEAN : FnReturns(raises)

-----------------------------------------------------------------------------
(* run() *)

RunUnchanged == UNCHANGED <<client, turn_inputs, fn, session, err_holder, storeVars, told>>

Return(reason, id) == run' = "returned" /\ out' = [reason |-> reason, id |-> id]

\* The detach signal: reserve the in-flight id, share it with the runner, save
\* the pending row under it.
RunDetach ==
  /\ CanRun("run") /\ run = "waiting" /\ rt.detach_future /\ HasStore
  /\ LET id == IF sr.current_turn_snapshot_id # None THEN sr.current_turn_snapshot_id
                ELSE IF sr.new_snapshot_id # None THEN sr.new_snapshot_id ELSE nextId
     IN /\ sr' = [sr EXCEPT !.new_snapshot_id = id, !.current_turn_snapshot_id = id]
        /\ nextId' = IF id = nextId THEN nextId + 1 ELSE nextId
        /\ Issue("run", id, "pending", NewRow("pending", version))
  /\ run' = "pending"
  /\ UNCHANGED <<closed, fwd, rt, out, background>>
  /\ RunUnchanged

\* The pending row is saved: start the background tasks and answer the client.
RunDetached ==
  /\ CanRun("run") /\ run = "pending" /\ call["run"].phase = "saved"
  /\ rt' = [rt EXCEPT !.detached = TRUE]
  /\ fin' = "waiting" /\ watch' = "starting" /\ beat' = [beat EXCEPT !.at = "sleeping"]
  /\ Return("detached", call["run"].id)
  /\ running' = Idle
  /\ UNCHANGED <<closed, fwd, sr, abort, call, nextId>>
  /\ RunUnchanged

\* Detach without a store is a configuration error: signal abort, wait, raise.
RunDetachNoStore ==
  /\ CanRun("run") /\ run = "waiting" /\ rt.detach_future /\ ~HasStore
  /\ rt' = [rt EXCEPT !.abort_signal = TRUE]
  /\ run' = "draining"
  /\ running' = Idle
  /\ UNCHANGED <<closed, fwd, sr, out, background, call, nextId>>
  /\ RunUnchanged

RunDrained ==
  /\ CanRun("run") /\ run = "draining" /\ fn = "done" /\ fwd.at = "done"
  /\ run' = "raised"
  /\ running' = Idle
  /\ UNCHANGED <<closed, fwd, sr, rt, out, background, call, nextId>>
  /\ RunUnchanged

\* Fault: a failed run answers with the latest snapshot.
FailedOutputLatest ==
  /\ Return("failed", rt.last_snapshot)
  /\ running' = Idle
  /\ UNCHANGED <<call, nextId>>

\* A failed turn: failed_agent_output, with ensure_recovery_snapshot.
FailedOutput ==
  LET last_good_row == rt.last_snapshot_version = sr.last_good_state
  IN \/ /\ ~HasStore \/ last_good_row \/ sr.turn_index = 0
        /\ Return("failed", IF HasStore /\ last_good_row THEN rt.last_snapshot ELSE None)
        /\ running' = Idle
        /\ UNCHANGED <<call, nextId>>
     \/ /\ HasStore /\ ~last_good_row /\ sr.turn_index > 0
        /\ Issue("run", nextId, "settle", NewRow("completed", sr.last_good_state))
        /\ nextId' = nextId + 1
        /\ run' = "recovering"
        /\ UNCHANGED out

\* The invocation-end snapshot, when the session changed since the last one.
NormalOutput ==
  \/ /\ ~SnapshotNeeded(FALSE)
     /\ Return(sr.last_turn_finish_reason, rt.last_snapshot)
     /\ running' = Idle
     /\ UNCHANGED <<call, nextId>>
  \/ /\ SnapshotNeeded(FALSE)
     /\ Issue("run", nextId, "settle", NewRow("completed", version))
     /\ nextId' = nextId + 1
     /\ run' = "finishing"
     /\ UNCHANGED out

\* fn finished first: cancel a forwarder that still waits for input, and answer.
RunFinish ==
  /\ CanRun("run") /\ run = "waiting" /\ fn = "done" /\ ~rt.detach_future
  /\ fwd' = [fwd EXCEPT !.at = "done"]
  /\ closed' = TRUE
  /\ \/ sr.last_turn_error /\ FailedOutput
     \/ ~sr.last_turn_error /\ err_holder /\ run' = "raised" /\ running' = Idle
          /\ UNCHANGED <<out, call, nextId>>
     \/ ~sr.last_turn_error /\ ~err_holder /\ NormalOutput
  /\ UNCHANGED <<sr, rt, background>>
  /\ RunUnchanged

\* The recovery save, or the invocation-end save, returned.
RunSaved ==
  /\ CanRun("run") /\ run \in {"recovering", "finishing"}
  /\ call["run"].phase \in {"saved", "skipped"}
  /\ AfterSave("run", IF run = "recovering" THEN sr.last_good_state ELSE version)
  /\ Return(IF run = "recovering" THEN "failed" ELSE sr.last_turn_finish_reason, rt'.last_snapshot)
  /\ running' = Idle
  /\ UNCHANGED <<closed, fwd, sr, background, call, nextId>>
  /\ RunUnchanged

\* A save of run() raised: so does run(), and what it started keeps going.
RunSaveRaised ==
  /\ CanRun("run") /\ run \in {"pending", "recovering", "finishing"} /\ call["run"].phase = "raised"
  /\ run' = "raised"
  /\ running' = Idle
  /\ UNCHANGED <<closed, fwd, sr, rt, out, background, call, nextId>>
  /\ RunUnchanged

RunStep ==
  \/ RunDetach \/ RunDetached \/ RunDetachNoStore \/ RunDrained
  \/ RunFinish \/ RunSaved \/ RunSaveRaised

-----------------------------------------------------------------------------
(* The background tasks of a detached run *)

BackgroundUnchanged ==
  UNCHANGED <<client, queue, fwd, fn, sr, session, run, out, err_holder, storeVars, nextId, told>>

\* Fault: the outcome looks only at exceptions of the agent function.
FinalizeErrOnly ==
  /\ CanRun("fin") /\ fin = "waiting" /\ fn = "done" /\ fwd.at = "done"
  /\ beat' = [beat EXCEPT !.at = "cancelled"]
  /\ Issue("fin", call["run"].id, "settle",
           [NewRow(IF err_holder THEN "failed" ELSE "completed", version)
              EXCEPT !.parent = call["run"].row.parent])
  /\ fin' = "saving"
  /\ UNCHANGED <<rt, watch, abort>>
  /\ BackgroundUnchanged

\* The turn settled: stop the heartbeat (a beat in flight is abandoned, its save
\* may still commit), then save the terminal row over the pending one.
Finalize ==
  /\ CanRun("fin") /\ fin = "waiting" /\ fn = "done" /\ fwd.at = "done"
  /\ beat' = [beat EXCEPT !.at = "cancelled"]
  /\ LET failed == err_holder \/ sr.last_turn_finish_reason = "failed"
     IN Issue("fin", call["run"].id, "settle",
              [NewRow(IF failed THEN "failed" ELSE "completed", version)
                 EXCEPT !.parent = call["run"].row.parent])
  /\ fin' = "saving"
  /\ UNCHANGED <<rt, watch, abort>>
  /\ BackgroundUnchanged

\* Whatever the save did, the finalizer ends: an exception is only logged.
Finalized ==
  /\ CanRun("fin") /\ fin = "saving" /\ Returned("fin")
  /\ fin' = "done"
  /\ running' = Idle
  /\ UNCHANGED <<rt, beat, watch, abort, call>>
  /\ BackgroundUnchanged

Beat ==
  /\ CanRun("beat") /\ beat.at = "sleeping" /\ beat.count < MaxBeats
  /\ beat' = [at |-> "saving", count |-> beat.count + 1]
  /\ Issue("beat", call["run"].id, "beat", NewRow("pending", version))
  /\ UNCHANGED <<rt, fin, watch, abort>>
  /\ BackgroundUnchanged

\* Exceptions are swallowed: a missed beat only ages the row.
Beaten ==
  /\ CanRun("beat") /\ beat.at = "saving" /\ Returned("beat")
  /\ beat' = [beat EXCEPT !.at = "sleeping"]
  /\ running' = Idle
  /\ UNCHANGED <<rt, fin, watch, abort, call>>
  /\ BackgroundUnchanged

\* Fault: a run that settled before the subscription is not looked at.
WatchStartOnlyPending ==
  /\ CanRun("watch") /\ watch = "starting"
  /\ watch' = IF snapshots[call["run"].id].status = "pending" THEN "open" ELSE "ended"
  /\ running' = Idle
  /\ UNCHANGED <<rt, fin, beat, abort, call>>
  /\ BackgroundUnchanged

\* Subscribe to the row's status stream.
WatchStart ==
  /\ CanRun("watch") /\ watch = "starting"
  /\ watch' = "open"
  /\ running' = Idle
  /\ UNCHANGED <<rt, fin, beat, abort, call>>
  /\ BackgroundUnchanged

\* The stream yields the terminal status and ends (InMemorySessionStore shows
\* that it does); `aborted` sets the abort signal.
WatchEnd ==
  /\ CanRun("watch") /\ watch = "open"
  /\ snapshots[call["run"].id].status \in TERMINAL_STATUSES
  /\ watch' = "ended"
  /\ rt' = [rt EXCEPT !.abort_signal = @ \/ snapshots[call["run"].id].status = "aborted"]
  /\ running' = Idle
  /\ UNCHANGED <<fin, beat, abort, call>>
  /\ BackgroundUnchanged

\* Another request aborts the detached snapshot the client was given.
Abort ==
  /\ CanRun("abort") /\ abort.at = "idle" /\ out.reason = "detached"
  /\ Issue("abort", out.id, "abort", NewRow("aborted", version))
  /\ abort' = [at |-> "saving", answer |-> "none"]
  /\ UNCHANGED <<rt, fin, beat, watch>>
  /\ BackgroundUnchanged

\* Fault: abort answers what the client believed, not what the mutator saw.
AbortedUnseen ==
  /\ CanRun("abort") /\ abort.at = "saving" /\ Returned("abort")
  /\ abort' = [at |-> "done", answer |-> "pending"]
  /\ running' = Idle
  /\ UNCHANGED <<rt, fin, beat, watch, call>>
  /\ BackgroundUnchanged

\* abort_snapshot_in_store answers the status its mutator saw.
Aborted ==
  /\ CanRun("abort") /\ abort.at = "saving" /\ Returned("abort")
  /\ abort' = [at |-> "done", answer |-> CASE call["abort"].phase = "saved" -> "pending"
                                           [] call["abort"].phase = "skipped" -> "terminal"
                                           [] call["abort"].phase = "raised" -> "error"]
  /\ running' = Idle
  /\ UNCHANGED <<rt, fin, beat, watch, call>>
  /\ BackgroundUnchanged

Background == Finalize \/ Finalized \/ Beat \/ Beaten \/ WatchStart \/ WatchEnd \/ Abort \/ Aborted

-----------------------------------------------------------------------------
Next ==
  \/ \E input \in InputKinds : Send(input)
  \/ CloseInput
  \/ Forwarder \/ FnStep \/ Suspend \/ Mutate \/ RunStep \/ Background
  \/ \E t \in Tasks : Commit(t)

Spec == Init /\ [][Next]_vars

\* The event loop runs every ready task in turn, the store answers, and the
\* handler and the agent function terminate.  The client need not do anything,
\* and nothing makes anyone abort.
Fairness ==
  /\ SF_vars(Forwarder) /\ SF_vars(FnStep) /\ SF_vars(RunStep)
  /\ SF_vars(Finalize \/ Finalized) /\ SF_vars(Beaten) /\ SF_vars(WatchStart \/ WatchEnd)
  /\ SF_vars(Aborted)
  /\ WF_vars(Suspend)
  /\ \A t \in Tasks : WF_vars(Commit(t))

FairSpec == Spec /\ Fairness

-----------------------------------------------------------------------------
(* Properties *)

Row(id) == IF id = None THEN NoRow ELSE snapshots[id]

Settled == run \in {"returned", "raised"}

\* A turn on a resume input adds no message of its own.  When it changes nothing else
\* either, its row cannot be told from the last-good one: the session has not moved.
TurnsAddMessages == "resume" \notin InputKinds

\* What the client is told is durable.  At the end of an attached run there is a
\* snapshot, and the one of a successful output holds the final state and is completed;
\* every turnEnd chunk that named a snapshot named a persisted row with the state of
\* the session at that turn's end.
AnswersAreDurable ==
  /\ (run = "returned" /\ out.reason \in {"stop", "none"} /\ HasStore)
       => /\ out.id # None
          /\ Row(out.id).status \in {"completed", "failed"} /\ Row(out.id).state = version
          /\ TurnsAddMessages => Row(out.id).status = "completed"
  /\ \A chunk \in told :
       chunk.id # None => /\ snapshots[chunk.id].status \in TERMINAL_STATUSES
                          /\ snapshots[chunk.id].state = chunk.version

\* "server-managed resumes by the last-good snapshot": the snapshot of a failed
\* output, if any, holds the state after the last good turn, and is completed
\* unless that turn reported a failure of its own.
FailureResumesLastGood ==
  (run = "returned" /\ out.reason = "failed" /\ sr.last_turn_error /\ out.id # None)
    => /\ Row(out.id).state = sr.last_good_state
       /\ TurnsAddMessages =>
            Row(out.id).status = "completed" \/ sr.last_good_finish_reason = "failed"

\* The history is acyclic and has no holes: a row's parent was reserved before it
\* and is persisted, also when the row is written by the detach path, by the
\* finalizer or as the recovery row of a failed turn.
HistoryIsAChain ==
  \A id \in 1..MaxIds :
    snapshots[id].parent # None => /\ snapshots[id].parent < id
                                   /\ ~Absent(snapshots[snapshots[id].parent])

\* The row whose id a detached client was given tells how the work goes: it stays
\* pending while the work runs, and once the finalizer is done it tells how the
\* work ended and holds its final state, unless it was aborted or the store failed.
\* (With a store that suspends, a turn-end save that lands late settles the row
\* before the work is over.)
DetachedRowTellsTheWork ==
  /\ (run = "returned" /\ ~StoreYields /\ out.reason = "detached" /\ fn # "done")
       => Row(out.id).status \in {"pending", "aborted"}
  /\ (fin = "done" /\ ~StoreYields /\ failures = 0 /\ Row(out.id).status # "aborted")
       => /\ Row(out.id).state = version
          /\ Row(out.id).status =
               (IF err_holder \/ sr.last_turn_finish_reason = "failed" THEN "failed" ELSE "completed")

\* An abort that answered `pending` is never undone by the turn it cancelled.
AbortHolds == abort.answer = "pending" => Row(out.id).status = "aborted"

\* "detach signal -> pending snapshot -> AgentOutput(snapshot_id)": while the
\* store works, a detach never makes run() raise.
DetachAnswers ==
  (run = "raised" /\ HasStore /\ failures = 0) => ~rt.detach_future

\* run() answers once the client has ended its stream or has detached.
RunAnswers == (inboxClosed \/ rt.detach_future) ~> Settled

\* A detached run settles: its row leaves `pending`, and no background task is
\* left behind.
DetachedSettles ==
  (out.reason = "detached") ~>
    (Row(out.id).status \in TERMINAL_STATUSES /\ fin = "done" /\ watch = "ended"
       /\ beat.at = "cancelled")

\* An abort that took effect reaches the running handler.
AbortReachesHandler == (abort.answer = "pending") ~> rt.abort_signal

\* Nobody waits for ever for a run: neither its client, nor who polls its row,
\* nor who aborted it.
RunsSettle == RunAnswers /\ DetachedSettles /\ AbortReachesHandler
===============================================================================
