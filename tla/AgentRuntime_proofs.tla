-------------------------- MODULE AgentRuntime_proofs --------------------------
(***************************************************************************)
(* Proofs about one invocation of an agent, for any store, any number of   *)
(* inputs, mutations, heartbeats and failures of the store.                *)
(*                                                                         *)
(* A row of the store is written by four tasks that know of each other     *)
(* only through the ids they hold.  The invariant says which ids those     *)
(* are, in which order they were reserved, and what the row behind each of *)
(* them is while a save is under way, has returned, or has raised.         *)
(***************************************************************************)
EXTENDS AgentRuntime, TLAPS

Ids == 1..MaxIds
Payloads == InputKinds \ {"detach"}
Rows == [status : Statuses \cup {"absent"}, parent : Ids \cup {None}, state : Nat, beat : Nat]
WrittenRows == [status : Statuses, parent : Ids \cup {None}, state : Nat, beat : Nat]
Calls == [phase : {"issued", "saved", "skipped", "raised"}, id : Ids,
          mutator : {"pending", "settle", "abort", "beat"}, row : WrittenRows]
Reasons == {"none", "stop", "failed"}
Runners == [turn_index : Nat, last_turn_finish_reason : Reasons, last_turn_error : BOOLEAN,
            last_good_state : Nat, last_good_finish_reason : Reasons,
            new_snapshot_id : Ids \cup {None}, current_turn_snapshot_id : Ids \cup {None}]

ClientTypeOK ==
  /\ inbox \in Seq(InputKinds) /\ inboxClosed \in BOOLEAN /\ sent \in 0..MaxInputs
  /\ turn_inputs \in Seq(Payloads) /\ Len(turn_inputs) <= 1 /\ closed \in BOOLEAN
  /\ fwd \in [at : {"reading", "putting", "signalling", "done"}, item : InputKinds \cup {"message"}]
  /\ fwd.at = "putting" => fwd.item \in Payloads

RunnerTypeOK ==
  /\ running \in Tasks \cup {Idle}
  /\ fn \in {"loop", "turn", "saving", "tail", "done"}
  /\ sr \in Runners
  /\ version \in Nat /\ mutations \in Nat
  /\ err_holder \in BOOLEAN
  /\ told \in SUBSET [id : Ids \cup {None}, version : Nat]

RunTypeOK ==
  /\ rt \in [detached : BOOLEAN, detach_future : BOOLEAN, abort_signal : BOOLEAN,
             last_snapshot : Ids \cup {None}, last_snapshot_version : Nat \cup {-1}]
  /\ run \in {"waiting", "pending", "draining", "recovering", "finishing", "returned", "raised"}
  /\ out \in [reason : Reasons \cup {"detached"}, id : Ids \cup {None}]
  /\ fin \in {"none", "waiting", "saving", "done"}
  /\ beat \in [at : {"none", "sleeping", "saving", "cancelled"}, count : Nat]
  /\ watch \in {"none", "starting", "open", "ended"}
  /\ abort \in [at : {"idle", "saving", "done"}, answer : {"none", "pending", "terminal", "error"}]

StoreTypeOK ==
  /\ storeKind \in StoreKinds
  /\ snapshots \in [Ids -> Rows]
  /\ call \in [Tasks -> {NoCall} \cup Calls]
  /\ nextId \in Nat /\ nextId >= 2 /\ failures \in Nat

TypeOK == ClientTypeOK /\ RunnerTypeOK /\ RunTypeOK /\ StoreTypeOK

Called(t) == call[t].phase # "none"

\* run() has saved, or is saving, the pending row of a detach.
Detached == Called("run") /\ call["run"].mutator = "pending"

\* Every id is paid for by an input or by run(), which reserves one at most.
IdsSuffice ==
  /\ nextId + Len(inbox) + Len(turn_inputs) + (IF fwd.at = "putting" THEN 1 ELSE 0)
            + (IF run = "waiting" THEN 1 ELSE 0) <= sent + 3
  /\ rt.last_snapshot < nextId
  /\ sr.new_snapshot_id < nextId /\ sr.current_turn_snapshot_id < nextId
  /\ \A t \in Tasks : Called(t) => call[t].id < nextId
  /\ \A id \in Ids : id >= nextId => Absent(snapshots[id])

\* The order of a detach: no chunks, the payload queued, the signal, the pending row.
DetachOrder ==
  /\ fwd.at = "signalling" \/ (fwd.at = "putting" /\ IsDetach(fwd.item)) \/ rt.detach_future
       => rt.detached
  /\ run # "waiting" => rt.detached \/ fn = "done"
  /\ Detached => rt.detached

\* Which ids the runner holds, and when.
RunnerIds ==
  /\ run = "waiting" =>
       /\ sr.new_snapshot_id = None
       /\ HasStore /\ fn \in {"turn", "saving"} <=> sr.current_turn_snapshot_id # None
  /\ ~HasStore => rt.last_snapshot = None
  /\ fn = "saving" => /\ HasStore /\ Called("fn") /\ call["fn"].mutator = "settle"
                      /\ call["fn"].id = sr.current_turn_snapshot_id
                      /\ rt.last_snapshot < call["fn"].id
  /\ fn = "turn" /\ HasStore /\ run = "waiting" => rt.last_snapshot < sr.current_turn_snapshot_id

\* Which task has a call, on which row.
CallsInOrder ==
  /\ fn # "saving" => call["fn"] = NoCall
  /\ call["fwd"] = NoCall /\ call["watch"] = NoCall
  /\ run \in {"waiting", "draining"} => call["run"] = NoCall
  /\ run = "pending" => Detached
  /\ run # "returned" => out.reason = "none"
  /\ run \in {"recovering", "finishing"} => Called("run") /\ ~Detached /\ fn = "done"
  /\ run \in {"returned", "raised"} => call["run"].phase # "issued"
  /\ run \in {"returned", "raised"} => fn = "done" \/ Detached
  /\ run = "draining" => ~HasStore
  /\ Called("run") => HasStore /\ call["run"].mutator \in {"pending", "settle"}
  /\ out.reason = "detached" <=> run = "returned" /\ Detached
  /\ out.reason = "detached" => call["run"].phase = "saved" /\ out.id = call["run"].id
  /\ out.reason = "detached" <=> fin # "none"
  /\ fin # "none" <=> beat.at # "none"
  /\ fin # "none" <=> watch # "none"
  /\ abort.at # "idle" => fin # "none"
  /\ fin \in {"none", "waiting"} => call["fin"] = NoCall
  /\ fin = "done" => call["fin"].phase # "issued"
  /\ beat.at = "none" => call["beat"] = NoCall
  /\ abort.at = "idle" => call["abort"] = NoCall
  /\ abort.at # "idle" => Called("abort")
  /\ fin \in {"saving", "done"} => /\ fn = "done" /\ Called("fin") /\ call["fin"].mutator = "settle"
                                   /\ call["fin"].row.parent = call["run"].row.parent
                                   /\ beat.at = "cancelled"
  /\ \A t \in {"fin", "beat", "abort"} : Called(t) => call[t].id = call["run"].id
  /\ Called("beat") => call["beat"].mutator = "beat"
  /\ Called("abort") => call["abort"].mutator = "abort"

\* With a store that never suspends, a save keeps the loop until it has returned.
SavesKeepTheLoop ==
  ~StoreYields =>
    /\ \A t \in Tasks : call[t].phase = "issued" => running = t
    /\ fn = "saving" => running = "fn" /\ ~Detached
    /\ run \in {"pending", "recovering", "finishing"} => running = "run"
    /\ fin = "saving" => running = "fin"
    /\ beat.at = "saving" => running = "beat"
    /\ abort.at = "saving" => running = "abort"

\* A row that a call writes, or wrote, stands on an older row that is there.
ParentsAreThere ==
  /\ rt.last_snapshot # None => ~Absent(snapshots[rt.last_snapshot])
  /\ \A t \in Tasks : Called(t) =>
       /\ call[t].phase = "saved" => ~Absent(snapshots[call[t].id])
       /\ call[t].mutator \in {"pending", "settle"} =>
            /\ call[t].row.parent < call[t].id
            /\ call[t].row.parent # None => ~Absent(snapshots[call[t].row.parent])

\* Nobody is about to write a row that a turnEnd chunk named.
ToldRowsAreOver ==
  \A chunk \in told :
    /\ chunk.id <= rt.last_snapshot
    /\ Called("run") => chunk.id < call["run"].id

\* What the runner saves, and what run() saves at the end.
SavedRows ==
  /\ fn = "saving" =>
       call["fn"].row.state = version /\ call["fn"].row.status =
         (IF sr.last_turn_finish_reason = "failed" THEN "failed" ELSE "completed")
  /\ run = "finishing" => call["run"].row.state = version /\ call["run"].row.status = "completed"
  /\ run = "recovering" =>
       /\ call["run"].row.state = sr.last_good_state /\ call["run"].row.status = "completed"
       /\ sr.last_turn_error
  /\ run = "finishing" => ~sr.last_turn_error
  /\ run = "pending" => call["run"].row.status = "pending"

\* Unless run() detaches, a row belongs to the task that writes it: it is absent until
\* the save has committed, and then it is what the task wrote.
Undisturbed(t) ==
  /\ call[t].phase \in {"issued", "raised"} => Absent(snapshots[call[t].id])
  /\ call[t].phase = "saved" => snapshots[call[t].id] = call[t].row
  /\ call[t].phase # "skipped"

AttachedRows ==
  ~Detached =>
    /\ fn = "turn" /\ HasStore => Absent(snapshots[sr.current_turn_snapshot_id])
    /\ fn = "saving" => Undisturbed("fn")
    /\ run \in {"recovering", "finishing"} => Undisturbed("run")
    /\ rt.last_snapshot # None =>
         /\ snapshots[rt.last_snapshot].status \in {"completed", "failed"}
         /\ snapshots[rt.last_snapshot].state = rt.last_snapshot_version

\* What rt and sr remember is of the past; a turn that adds a message moves on from it.
VersionsInOrder ==
  /\ rt.last_snapshot_version <= version /\ sr.last_good_state <= version
  /\ TurnsAddMessages /\ fn \in {"turn", "saving"} =>
       rt.last_snapshot_version < version /\ sr.last_good_state < version

\* A failed row is the last one only of a conversation whose last turn failed, and the
\* last-good one only of a conversation whose last good turn reported a failure.
FailedRowTellsTheTurn ==
  TurnsAddMessages /\ ~Detached /\ rt.last_snapshot # None =>
    (snapshots[rt.last_snapshot].status = "failed" =>
       /\ rt.last_snapshot_version = version => sr.last_turn_finish_reason = "failed"
       /\ rt.last_snapshot_version = sr.last_good_state => sr.last_good_finish_reason = "failed")

AbortCommitted ==
  /\ abort.answer = "pending" => call["abort"].phase = "saved"
  /\ abort.at # "done" => abort.answer = "none"
  /\ call["abort"].phase = "saved" => snapshots[call["abort"].id].status = "aborted"

TellsTheWork(row) ==
  /\ row.state = version
  /\ row.status = (IF err_holder \/ sr.last_turn_finish_reason = "failed" THEN "failed" ELSE "completed")

\* With a store that never suspends: the row of a detach until the finalizer is done.
DetachedRow ==
  ~StoreYields =>
    /\ run = "pending" =>
         /\ call["run"].phase = "issued" => Absent(snapshots[call["run"].id])
         /\ call["run"].phase = "saved" => snapshots[call["run"].id].status = "pending"
    /\ fin = "waiting" => snapshots[call["run"].id].status \in {"pending", "aborted"}
    /\ fin = "saving" =>
         /\ TellsTheWork(call["fin"].row)
         /\ call["fin"].phase = "issued" => snapshots[call["run"].id].status \in {"pending", "aborted"}
         /\ call["fin"].phase = "skipped" => snapshots[call["run"].id].status = "aborted"
         /\ call["fin"].phase = "raised" => failures > 0
         /\ call["fin"].phase = "saved" => TellsTheWork(snapshots[call["run"].id])
    /\ fin = "done" => \/ failures > 0
                       \/ snapshots[call["run"].id].status = "aborted"
                       \/ TellsTheWork(snapshots[call["run"].id])

\* The end of a turn with finish reason r, raised or not: the handler returned or raised,
\* or the save of a turn that had ended well raised.
TurnEnds(r, e) ==
  /\ CanRun("fn")
  /\ fn = "turn" \/ (fn = "saving" /\ call["fn"].phase = "raised")
  /\ EmitTurnEnd([sr EXCEPT !.last_turn_finish_reason = r, !.last_turn_error = e])
  /\ UNCHANGED <<turn_inputs, closed, version, mutations, rt, err_holder, nextId, inbox, inboxClosed, sent, fwd, run,
                 out, fin, beat, watch, abort, storeKind, snapshots, failures>>

IInv ==
  /\ TypeOK /\ IdsSuffice /\ DetachOrder /\ RunnerIds /\ CallsInOrder /\ SavesKeepTheLoop
  /\ ParentsAreThere /\ ToldRowsAreOver /\ SavedRows /\ AttachedRows /\ VersionsInOrder
  /\ FailedRowTellsTheTurn /\ AbortCommitted /\ DetachedRow
  /\ AnswersAreDurable /\ FailureResumesLastGood /\ HistoryIsAChain

-----------------------------------------------------------------------------
\* What the types say, and what a call is.

\* What the types say of the variables that the leaves count with, one by one.
LEMMA TypeFacts ==
  ASSUME IInv
  PROVE  /\ Len(inbox) \in Nat /\ Len(turn_inputs) \in Nat /\ Len(turn_inputs) <= 1 /\ sent \in 0..MaxInputs
         /\ nextId \in Nat /\ nextId >= 2 /\ failures \in Nat
         /\ version \in Nat /\ sr.turn_index \in Nat /\ sr.last_good_state \in Nat
         /\ sr.last_turn_error \in BOOLEAN /\ err_holder \in BOOLEAN
         /\ sr.new_snapshot_id \in Ids \cup {None} /\ sr.current_turn_snapshot_id \in Ids \cup {None}
         /\ rt.last_snapshot \in Ids \cup {None} /\ rt.last_snapshot_version \in Nat \cup {-1}
         /\ out.id \in Ids \cup {None}
         /\ \A chunk \in told : chunk.id \in Ids \cup {None} /\ chunk.version \in Nat
         /\ \A id \in Ids : snapshots[id] \in Rows
<1>1. \A chunk \in told : chunk.id \in Ids \cup {None} /\ chunk.version \in Nat
  BY DEF IInv, TypeOK, RunnerTypeOK, Runners
<1>2. \A id \in Ids : snapshots[id] \in Rows
  BY DEF IInv, TypeOK, StoreTypeOK
<1>3. Len(inbox) \in Nat /\ Len(turn_inputs) \in Nat /\ Len(turn_inputs) <= 1 /\ sent \in 0..MaxInputs
  <2>1. inbox \in Seq(InputKinds) /\ sent \in 0..MaxInputs
    BY DEF IInv, TypeOK, ClientTypeOK
  <2>2. turn_inputs \in Seq(Payloads) /\ Len(turn_inputs) <= 1
    BY DEF IInv, TypeOK, ClientTypeOK
  <2>3. Len(inbox) \in Nat
    BY <2>1
  <2>4. Len(turn_inputs) \in Nat /\ Len(turn_inputs) <= 1
    BY <2>2
  <2> QED
    BY <2>1, <2>3, <2>4
<1>4. /\ rt.last_snapshot \in Ids \cup {None} /\ rt.last_snapshot_version \in Nat \cup {-1}
      /\ out.id \in Ids \cup {None}
  BY DEF IInv, TypeOK, RunTypeOK
<1> QED
  BY <1>1, <1>2, <1>3, <1>4 DEF IInv, TypeOK, RunnerTypeOK, Runners, StoreTypeOK

\* The ids of rt, of sr and of the turnEnd chunks are numbers (None is 0).
LEMMA IdsAreNumbers ==
  ASSUME IInv
  PROVE  /\ rt.last_snapshot \in Nat /\ sr.new_snapshot_id \in Nat /\ sr.current_turn_snapshot_id \in Nat
         /\ \A chunk \in told : chunk.id \in Nat
<1>1. \A id \in Ids \cup {None} : id \in Nat
  BY DEF Ids, None
<1> QED
  BY <1>1, TypeFacts

\* A task has no call, or one that the store can answer.
LEMMA CallFacts ==
  ASSUME IInv, NEW t \in Tasks
  PROVE  call[t] = NoCall \/ (call[t] \in Calls /\ Called(t))
  BY DEF IInv, TypeOK, StoreTypeOK, Called, Calls

\* Every input pays for one id.
LEMMA RoomForOneMore ==
  ASSUME IInv, turn_inputs # <<>> \/ run = "waiting"
  PROVE  nextId \in Ids
<1>1. Len(turn_inputs) \in Nat /\ (turn_inputs # <<>> => Len(turn_inputs) > 0)
  BY DEF IInv, TypeOK, ClientTypeOK
<1> DEFINE Putting == IF fwd.at = "putting" THEN 1 ELSE 0
           Waiting == IF run = "waiting" THEN 1 ELSE 0
<1>2. nextId + Len(inbox) + Len(turn_inputs) + Putting + Waiting <= sent + 3
  BY DEF IInv, IdsSuffice
<1>3. Putting \in Nat /\ Waiting \in Nat /\ Len(turn_inputs) + Waiting >= 1
  BY <1>1
<1> HIDE DEF Putting, Waiting
<1>4. MaxInputs \in Nat /\ MaxIds \in Nat /\ MaxIds >= MaxInputs + 2
  BY RuntimeAssumption
<1>5. Len(inbox) \in Nat /\ nextId \in Nat /\ nextId >= 2 /\ sent \in Int /\ sent <= MaxInputs
  BY <1>4, TypeFacts
<1>6. nextId <= MaxInputs + 2
  BY <1>1, <1>2, <1>3, <1>4, <1>5
<1> QED
  BY <1>4, <1>5, <1>6 DEF Ids

\* What issue does to call and to the loop.
LEMMA IssueFacts ==
  ASSUME call \in [Tasks -> {NoCall} \cup Calls],
         NEW t \in Tasks, NEW id, NEW mutator, NEW row, Issue(t, id, mutator, row)
  PROVE  /\ call'[t] = [phase |-> "issued", id |-> id, mutator |-> mutator, row |-> row]
         /\ \A u \in Tasks \ {t} : call'[u] = call[u]
         /\ id \in Ids /\ mutator \in {"pending", "settle", "abort", "beat"} /\ row \in WrittenRows
              => call' \in [Tasks -> {NoCall} \cup Calls]
         /\ running' = IF StoreYields THEN Idle ELSE t
  BY DEF Issue, Calls

-----------------------------------------------------------------------------
\* The forwarder.

\* The forwarder and the watcher hold the loop in no save.
LEMMA FreeLoop ==
  ASSUME IInv, CanRun("fwd") \/ CanRun("watch"), UNCHANGED <<fn, run, fin, beat, abort, storeKind, call>>
  PROVE  SavesKeepTheLoop'
<1>1. running \in {Idle, "fwd", "watch"}
  BY DEF CanRun
<1>2. call["fwd"] = NoCall /\ call["watch"] = NoCall
  BY DEF IInv, CallsInOrder
<1> QED
  BY <1>1, <1>2 DEF IInv, SavesKeepTheLoop, StoreYields, Idle, NoCall, Tasks, Detached, Called

\* Taking an input keeps the types of run()'s state.
LEMMA FwdTake_RunTypeOK ==
  ASSUME IInv, FwdTake PROVE RunTypeOK'
<1>1. PICK d \in BOOLEAN : rt' = [rt EXCEPT !.detached = d]
  BY DEF FwdTake, IsDetach, IInv, TypeOK, RunTypeOK
<1> QED
  BY <1>1 DEF IInv, TypeOK, RunTypeOK, FwdTake, FwdUnchanged, background

\* The input that the forwarder takes, and what rt makes of it.
LEMMA FwdTakeHead ==
  ASSUME IInv, FwdTake
  PROVE  /\ Head(inbox) \in InputKinds /\ Len(Tail(inbox)) = Len(inbox) - 1 /\ Len(inbox) > 0
         /\ rt'.detached = (rt.detached \/ IsDetach(Head(inbox)))
         /\ rt'.detach_future = rt.detach_future
         /\ rt'.last_snapshot = rt.last_snapshot /\ rt'.last_snapshot_version = rt.last_snapshot_version
<1>1. inbox \in Seq(InputKinds) /\ inbox # <<>>
  BY DEF IInv, TypeOK, ClientTypeOK, FwdTake
<1>2. Head(inbox) \in InputKinds /\ Len(Tail(inbox)) = Len(inbox) - 1 /\ Len(inbox) > 0
  BY <1>1
<1>3. rt' = [rt EXCEPT !.detached = rt.detached \/ IsDetach(Head(inbox))]
  BY DEF FwdTake
<1> QED
  BY <1>2, <1>3 DEF IInv, TypeOK, RunTypeOK

\* Taking an input keeps the order of a detach.
LEMMA FwdTake_DetachOrder ==
  ASSUME IInv, FwdTake PROVE DetachOrder'
<1>1. fwd' \in [at : {"putting", "signalling"}, item : {Head(inbox)}] /\ (fwd'.at = "signalling" => IsDetach(Head(inbox)))
  BY FwdTakeHead DEF FwdTake, agent_input_has_payload, IsDetach
<1>2. UNCHANGED <<run, fn, call>>
  BY DEF FwdTake, FwdUnchanged
<1> QED
  BY <1>1, <1>2, FwdTakeHead DEF IInv, DetachOrder, Detached, Called

\* Taking an input keeps an id for every input.
LEMMA FwdTake_IdsSuffice ==
  ASSUME IInv, FwdTake PROVE IdsSuffice'
<1>1. Len(inbox') = Len(inbox) - 1 /\ fwd.at = "reading"
  BY FwdTakeHead DEF FwdTake
<1>2. UNCHANGED <<run, call, sr, nextId, turn_inputs, sent, snapshots>> /\ rt'.last_snapshot = rt.last_snapshot
  BY FwdTakeHead DEF FwdTake, FwdUnchanged, queue, storeVars
<1>3. Len(inbox) \in Nat /\ Len(turn_inputs) \in Nat /\ nextId \in Nat /\ sent \in Nat
  BY DEF IInv, TypeOK, ClientTypeOK, StoreTypeOK
<1> QED
  BY <1>1, <1>2, <1>3 DEF IInv, IdsSuffice, Called

\* Taking an input keeps the loop with the task that saves.
LEMMA FwdTake_SavesKeepTheLoop ==
  ASSUME IInv, FwdTake PROVE SavesKeepTheLoop'
  BY FreeLoop DEF FwdTake, FwdUnchanged, background, storeVars

\* Queueing an input keeps the loop with the task that saves.
LEMMA FwdPut_SavesKeepTheLoop ==
  ASSUME IInv, FwdPut PROVE SavesKeepTheLoop'
  BY FreeLoop DEF FwdPut, FwdUnchanged, background, storeVars

\* The detach signal keeps the loop with the task that saves.
LEMMA FwdSignal_SavesKeepTheLoop ==
  ASSUME IInv, FwdSignal PROVE SavesKeepTheLoop'
  BY FreeLoop DEF FwdSignal, FwdUnchanged, background, storeVars

\* The end of the forwarder keeps the loop with the task that saves.
LEMMA FwdEnd_SavesKeepTheLoop ==
  ASSUME IInv, FwdEnd PROVE SavesKeepTheLoop'
  BY FreeLoop DEF FwdEnd, FwdUnchanged, background, storeVars

\* The start of the watcher keeps the loop with the task that saves.
LEMMA WatchStart_SavesKeepTheLoop ==
  ASSUME IInv, WatchStart PROVE SavesKeepTheLoop'
  BY FreeLoop DEF WatchStart, BackgroundUnchanged, background, storeVars

\* The end of the watcher keeps the loop with the task that saves.
LEMMA WatchEnd_SavesKeepTheLoop ==
  ASSUME IInv, WatchEnd PROVE SavesKeepTheLoop'
  BY FreeLoop DEF WatchEnd, BackgroundUnchanged, background, storeVars

\* Queueing an input keeps an id for every input.
LEMMA FwdPut_IdsSuffice ==
  ASSUME IInv, FwdPut PROVE IdsSuffice'
<1>1. UNCHANGED <<run, call, sr, nextId, inbox, sent, snapshots, rt>> /\ fwd.at = "putting" /\ fwd'.at # "putting"
  BY DEF FwdPut, FwdUnchanged, storeVars, IInv, TypeOK, ClientTypeOK
<1>2. Len(turn_inputs') <= Len(turn_inputs) + 1 /\ Len(turn_inputs') \in Nat /\ Len(turn_inputs) \in Nat
  BY DEF FwdPut, IInv, TypeOK, ClientTypeOK
<1>3. Len(inbox) \in Nat /\ nextId \in Nat /\ sent \in Nat
  BY DEF IInv, TypeOK, ClientTypeOK, StoreTypeOK
<1> QED
  BY <1>1, <1>2, <1>3 DEF IInv, IdsSuffice, Called

\* Taking an input keeps the types of the client's state.
LEMMA FwdTake_ClientTypeOK ==
  ASSUME IInv, FwdTake PROVE ClientTypeOK'
<1>1. Head(inbox) \in InputKinds /\ Tail(inbox) \in Seq(InputKinds) /\ inbox' = Tail(inbox)
  BY FwdTakeHead DEF IInv, TypeOK, ClientTypeOK, FwdTake
<1>2. \/ fwd' = [at |-> "putting", item |-> Head(inbox)] /\ Head(inbox) \in Payloads
      \/ fwd' = [at |-> "signalling", item |-> Head(inbox)]
  BY <1>1 DEF FwdTake, agent_input_has_payload, Payloads
<1>3. UNCHANGED <<inboxClosed, sent, turn_inputs, closed>>
  BY DEF FwdTake, FwdUnchanged, queue
<1> QED
  BY <1>1, <1>2, <1>3 DEF IInv, TypeOK, ClientTypeOK

\* The client sends an input: an id is set aside for it.
LEMMA SendStep ==
  ASSUME IInv, NEW input \in InputKinds, Send(input) PROVE IInv'
<1>1. /\ ~inboxClosed /\ sent < MaxInputs /\ inbox' = Append(inbox, input) /\ sent' = sent + 1
      /\ UNCHANGED <<running, inboxClosed, turn_inputs, closed, fwd, fn, sr, version, mutations, rt, run, out,
                    err_holder, fin, beat, watch, abort, storeKind, snapshots, failures, call, nextId, told>>
  BY DEF Send, client, queue, session, background, storeVars
<1>2. RunnerTypeOK' /\ RunTypeOK' /\ StoreTypeOK' /\ DetachOrder' /\ RunnerIds' /\ CallsInOrder'
      /\ SavesKeepTheLoop' /\ ParentsAreThere' /\ ToldRowsAreOver' /\ SavedRows' /\ AttachedRows'
      /\ VersionsInOrder' /\ FailedRowTellsTheTurn' /\ AbortCommitted' /\ DetachedRow'
      /\ AnswersAreDurable' /\ FailureResumesLastGood' /\ HistoryIsAChain'
  BY <1>1 DEF IInv, TypeOK, RunnerTypeOK, RunTypeOK, StoreTypeOK, DetachOrder, RunnerIds, CallsInOrder,
         SavesKeepTheLoop, ParentsAreThere, ToldRowsAreOver, SavedRows, AttachedRows, VersionsInOrder,
         FailedRowTellsTheTurn, AbortCommitted, DetachedRow, AnswersAreDurable, FailureResumesLastGood,
         HistoryIsAChain, Detached, Called, HasStore, StoreYields, Absent, Undisturbed, TurnsAddMessages,
         TellsTheWork, Row
<1>3. ClientTypeOK'
  BY <1>1, RuntimeAssumption DEF IInv, ClientTypeOK, TypeOK, Send, queue
<1>4. IdsSuffice'
  BY <1>1 DEF IInv, IdsSuffice, Called, TypeOK, ClientTypeOK, StoreTypeOK, Send, storeVars
<1> QED
  BY <1>2, <1>3, <1>4 DEF IInv, TypeOK

\* The client ends its stream.
LEMMA CloseInputStep ==
  ASSUME IInv, CloseInput PROVE IInv'
<1>1. /\ inboxClosed' = TRUE
      /\ UNCHANGED <<running, inbox, sent, turn_inputs, closed, fwd, fn, sr, version, mutations, rt, run, out,
                    err_holder, fin, beat, watch, abort, storeKind, snapshots, failures, call, nextId, told>>
  BY DEF CloseInput, client, queue, session, background, storeVars
<1>2. RunnerTypeOK' /\ RunTypeOK' /\ StoreTypeOK' /\ IdsSuffice' /\ DetachOrder' /\ RunnerIds'
      /\ CallsInOrder' /\ SavesKeepTheLoop' /\ ParentsAreThere' /\ ToldRowsAreOver' /\ SavedRows'
      /\ AttachedRows' /\ VersionsInOrder' /\ FailedRowTellsTheTurn' /\ AbortCommitted' /\ DetachedRow'
      /\ AnswersAreDurable' /\ FailureResumesLastGood' /\ HistoryIsAChain'
  BY <1>1 DEF IInv, TypeOK, RunnerTypeOK, RunTypeOK, StoreTypeOK, IdsSuffice, DetachOrder, RunnerIds,
         CallsInOrder, SavesKeepTheLoop, ParentsAreThere, ToldRowsAreOver, SavedRows, AttachedRows,
         VersionsInOrder, FailedRowTellsTheTurn, AbortCommitted, DetachedRow, AnswersAreDurable,
         FailureResumesLastGood, HistoryIsAChain, Called, Absent, Detached, HasStore, StoreYields,
         Undisturbed, TurnsAddMessages, TellsTheWork, Row
<1>3. ClientTypeOK'
  BY <1>1 DEF IInv, ClientTypeOK, TypeOK
<1> QED
  BY <1>2, <1>3 DEF IInv, TypeOK

\* The forwarder takes an input, which still pays for an id.
LEMMA FwdTakeStep ==
  ASSUME IInv, FwdTake PROVE IInv'
<1>1. /\ CanRun("fwd") /\ fwd.at = "reading" /\ inbox # <<>> /\ inbox' = Tail(inbox)
      /\ fwd' \in [at : {"putting", "signalling"}, item : {Head(inbox)}]
      /\ running' \in {Idle, "fwd"}
      /\ UNCHANGED <<inboxClosed, sent, turn_inputs, closed, fn, sr, version, mutations, run, out, err_holder,
                    fin, beat, watch, abort, storeKind, snapshots, failures, call, nextId, told>>
  BY DEF FwdTake, FwdUnchanged, Full, agent_input_has_payload, client, queue, session, background, storeVars
<1>2. StoreTypeOK' /\ CallsInOrder' /\ SavedRows' /\ AbortCommitted' /\ DetachedRow'
      /\ AnswersAreDurable' /\ FailureResumesLastGood' /\ HistoryIsAChain'
  BY <1>1 DEF IInv, TypeOK, StoreTypeOK, CallsInOrder, SavedRows, AbortCommitted, DetachedRow,
         AnswersAreDurable, FailureResumesLastGood, HistoryIsAChain, Called, Detached, HasStore, StoreYields,
         Absent, TellsTheWork, Row, TurnsAddMessages
<1>3. ClientTypeOK'
  BY FwdTake_ClientTypeOK
<1>4. RunnerTypeOK'
  BY <1>1 DEF IInv, RunnerTypeOK, TypeOK, IdsSuffice, Ids, Reasons, Tasks, NoCall, Idle, None, Calls
<1>5. RunTypeOK'
  BY FwdTake_RunTypeOK
<1>6. IdsSuffice'
  BY FwdTake_IdsSuffice
<1>7. DetachOrder'
  BY FwdTake_DetachOrder
<1>8. RunnerIds'
  BY <1>1, FwdTakeHead DEF IInv, RunnerIds, HasStore, Called
<1>9. SavesKeepTheLoop'
  BY FwdTake_SavesKeepTheLoop
<1>10. ParentsAreThere'
  BY <1>1, FwdTakeHead DEF IInv, ParentsAreThere, Called, Absent
<1>11. ToldRowsAreOver'
  BY <1>1, FwdTakeHead DEF IInv, ToldRowsAreOver, Called
<1>12. AttachedRows'
  BY <1>1, FwdTakeHead DEF IInv, AttachedRows, Detached, Called, Undisturbed, Absent, HasStore
<1>13. VersionsInOrder'
  BY <1>1, FwdTakeHead DEF IInv, VersionsInOrder, TurnsAddMessages
<1>14. FailedRowTellsTheTurn'
  BY <1>1, FwdTakeHead DEF IInv, FailedRowTellsTheTurn, TurnsAddMessages, Detached, Called
<1> QED
  BY <1>2, <1>3, <1>4, <1>5, <1>6, <1>7, <1>8, <1>9, <1>10, <1>11, <1>12, <1>13, <1>14 DEF IInv, TypeOK

\* The forwarder queues an input.
LEMMA FwdPutStep ==
  ASSUME IInv, FwdPut PROVE IInv'
<1>1. /\ CanRun("fwd") /\ fwd.at = "putting"
      /\ turn_inputs' = (IF closed THEN turn_inputs ELSE Append(turn_inputs, fwd.item))
      /\ closed \/ turn_inputs = <<>>
      /\ fwd' = [fwd EXCEPT !.at = IF IsDetach(fwd.item) THEN "signalling" ELSE IF closed THEN "done" ELSE "reading"]
      /\ running' \in {Idle, "fwd"}
      /\ UNCHANGED <<inbox, inboxClosed, sent, closed, fn, sr, version, mutations, rt, run, out, err_holder,
                    fin, beat, watch, abort, storeKind, snapshots, failures, call, nextId, told>>
  BY DEF FwdPut, FwdUnchanged, Full, agent_input_has_payload, client, queue, session, background, storeVars
<1>2. RunTypeOK' /\ StoreTypeOK' /\ RunnerIds' /\ CallsInOrder' /\ ParentsAreThere' /\ ToldRowsAreOver'
      /\ SavedRows' /\ AttachedRows' /\ VersionsInOrder' /\ FailedRowTellsTheTurn' /\ AbortCommitted'
      /\ DetachedRow' /\ AnswersAreDurable' /\ FailureResumesLastGood' /\ HistoryIsAChain'
  BY <1>1 DEF IInv, TypeOK, RunTypeOK, StoreTypeOK, RunnerIds, CallsInOrder, ParentsAreThere,
     ToldRowsAreOver,
         SavedRows, AttachedRows, VersionsInOrder, FailedRowTellsTheTurn, AbortCommitted, DetachedRow,
         AnswersAreDurable, FailureResumesLastGood, HistoryIsAChain, HasStore, Called, Detached, Absent,
         Undisturbed, TurnsAddMessages, StoreYields, TellsTheWork, Row
<1>3. ClientTypeOK'
  BY <1>1 DEF IInv, ClientTypeOK, TypeOK
<1>4. RunnerTypeOK'
  BY <1>1 DEF IInv, RunnerTypeOK, TypeOK, IdsSuffice, Ids, Reasons, Tasks, NoCall, Idle, None
<1>5. IdsSuffice'
  BY FwdPut_IdsSuffice
<1>6. DetachOrder'
  BY <1>1 DEF IInv, DetachOrder, Detached, Called, TypeOK, ClientTypeOK
<1>7. SavesKeepTheLoop'
  BY FwdPut_SavesKeepTheLoop
<1> QED
  BY <1>2, <1>3, <1>4, <1>5, <1>6, <1>7 DEF IInv, TypeOK

\* The forwarder ends.
LEMMA FwdEndStep ==
  ASSUME IInv, FwdEnd PROVE IInv'
<1>1. /\ CanRun("fwd") /\ fwd.at = "reading" /\ closed' = TRUE /\ running' = Idle
      /\ fwd' = [fwd EXCEPT !.at = "done"]
      /\ UNCHANGED <<inbox, inboxClosed, sent, turn_inputs, fn, sr, version, mutations, rt, run, out,
                    err_holder, fin, beat, watch, abort, storeKind, snapshots, failures, call, nextId, told>>
  BY DEF FwdEnd, FwdUnchanged, Full, agent_input_has_payload, client, queue, session, background, storeVars
<1>2. RunTypeOK' /\ StoreTypeOK' /\ RunnerIds' /\ CallsInOrder' /\ ParentsAreThere' /\ ToldRowsAreOver'
      /\ SavedRows' /\ AttachedRows' /\ VersionsInOrder' /\ FailedRowTellsTheTurn' /\ AbortCommitted'
      /\ DetachedRow' /\ AnswersAreDurable' /\ FailureResumesLastGood' /\ HistoryIsAChain'
  BY <1>1 DEF IInv, TypeOK, RunTypeOK, StoreTypeOK, RunnerIds, CallsInOrder, ParentsAreThere,
     ToldRowsAreOver,
         SavedRows, AttachedRows, VersionsInOrder, FailedRowTellsTheTurn, AbortCommitted, DetachedRow,
         AnswersAreDurable, FailureResumesLastGood, HistoryIsAChain, HasStore, Called, Detached, Absent,
         Undisturbed, TurnsAddMessages, StoreYields, TellsTheWork, Row
<1>3. ClientTypeOK'
  BY <1>1 DEF IInv, ClientTypeOK, TypeOK
<1>4. RunnerTypeOK'
  BY <1>1 DEF IInv, RunnerTypeOK, TypeOK
<1>5. IdsSuffice'
  BY <1>1 DEF IInv, IdsSuffice, Called, TypeOK, ClientTypeOK
<1>6. DetachOrder'
  BY <1>1 DEF IInv, DetachOrder, Detached, Called, TypeOK, ClientTypeOK
<1>7. SavesKeepTheLoop'
  BY FwdEnd_SavesKeepTheLoop
<1> QED
  BY <1>2, <1>3, <1>4, <1>5, <1>6, <1>7 DEF IInv, TypeOK

-----------------------------------------------------------------------------
\* The agent function begins a turn.

\* A turn begins on the id that a detach reserved, on a new one, or on none.
LEMMA BeginTurnFacts ==
  ASSUME IInv, BeginTurn
  PROVE  /\ fn = "loop" /\ fn' = "turn" /\ running' = "fn"
         /\ Len(turn_inputs) = 1 /\ Len(turn_inputs') = 0 /\ turn_inputs' \in Seq(Payloads)
         /\ version' \in Nat /\ version' >= version /\ (TurnsAddMessages => version' > version)
         /\ nextId \in Ids
         /\ sr' = [sr EXCEPT !.new_snapshot_id = None,
                             !.current_turn_snapshot_id = sr'.current_turn_snapshot_id]
         /\ \/ /\ sr.new_snapshot_id # None
               /\ sr'.current_turn_snapshot_id = sr.new_snapshot_id /\ nextId' = nextId
            \/ /\ sr.new_snapshot_id = None /\ ~HasStore
               /\ sr'.current_turn_snapshot_id = None /\ nextId' = nextId
            \/ /\ sr.new_snapshot_id = None /\ HasStore
               /\ sr'.current_turn_snapshot_id = nextId /\ nextId' = nextId + 1
         /\ UNCHANGED <<inbox, inboxClosed, sent, closed, fwd, run, out, fin, beat, watch, abort, storeKind, snapshots,
                        failures, rt, err_holder, call, told, mutations>>
<1>1. /\ fn = "loop" /\ fn' = "turn" /\ running' = "fn" /\ turn_inputs # <<>> /\ turn_inputs' = Tail(turn_inputs)
      /\ version' = (IF HasMessage(Head(turn_inputs)) THEN version + 1 ELSE version)
      /\ UNCHANGED <<inbox, inboxClosed, sent, closed, fwd, run, out, fin, beat, watch, abort, storeKind, snapshots,
                     failures, rt, err_holder, call, told, mutations>>
  BY DEF BeginTurn, Full, FnUnchanged, client, background, storeVars
<1>2. /\ Len(turn_inputs) = 1 /\ Len(turn_inputs') = 0 /\ turn_inputs' \in Seq(Payloads)
      /\ Head(turn_inputs) \in Payloads
  <2>1. turn_inputs \in Seq(Payloads) /\ Len(turn_inputs) <= 1 /\ Len(turn_inputs) > 0
    BY <1>1 DEF IInv, TypeOK, ClientTypeOK
  <2>2. Len(turn_inputs) = 1
    BY <2>1
  <2>3. Tail(turn_inputs) \in Seq(Payloads) /\ Len(Tail(turn_inputs)) = 0
    BY <2>1, <2>2
  <2>4. Head(turn_inputs) \in Payloads
    BY <2>1, <2>2
  <2> QED
    BY <1>1, <2>2, <2>3, <2>4
<1>3. version' \in Nat /\ version' >= version /\ (TurnsAddMessages => version' > version)
  <2>1. TurnsAddMessages => HasMessage(Head(turn_inputs))
    BY <1>2, RuntimeAssumption DEF TurnsAddMessages, Payloads, HasMessage
  <2>2. version \in Nat
    BY TypeFacts
  <2> QED
    BY <1>1, <2>1, <2>2
<1>4. nextId \in Ids
  BY <1>1, RoomForOneMore
<1> DEFINE id == IF sr.new_snapshot_id # None THEN sr.new_snapshot_id
                 ELSE IF HasStore THEN nextId ELSE None
<1>5. /\ sr' = [sr EXCEPT !.new_snapshot_id = None, !.current_turn_snapshot_id = id]
      /\ nextId' = IF id = nextId THEN nextId + 1 ELSE nextId
  BY DEF BeginTurn
<1>6. sr.new_snapshot_id < nextId /\ nextId # None
  BY TypeFacts DEF IInv, IdsSuffice, None
<1>7. sr'.current_turn_snapshot_id = id
  BY <1>5 DEF IInv, TypeOK, RunnerTypeOK, Runners
<1>8. id # nextId => nextId' = nextId
  BY <1>5
<1>9. sr.new_snapshot_id # None => id = sr.new_snapshot_id /\ nextId' = nextId
  BY <1>5, <1>6, TypeFacts DEF None, Ids
<1>10. sr.new_snapshot_id = None /\ ~HasStore => id = None /\ nextId' = nextId
  BY <1>5, <1>6
<1>11. sr.new_snapshot_id = None /\ HasStore => id = nextId /\ nextId' = nextId + 1
  BY <1>5
<1> HIDE DEF id
<1> QED
  BY <1>1, <1>2, <1>3, <1>4, <1>5, <1>7, <1>9, <1>10, <1>11

\* A turn that begins keeps the types of the runner's state.
LEMMA BeginTurn_RunnerTypeOK ==
  ASSUME IInv, BeginTurn PROVE RunnerTypeOK'
<1>1. sr'.current_turn_snapshot_id \in Ids \cup {None}
  BY BeginTurnFacts, TypeFacts
<1> QED
  BY <1>1, BeginTurnFacts DEF IInv, TypeOK, RunnerTypeOK, Runners, None, Tasks

\* A turn that begins keeps the types of the store's state.
LEMMA BeginTurn_StoreTypeOK ==
  ASSUME IInv, BeginTurn PROVE StoreTypeOK'
  BY BeginTurnFacts, TypeFacts DEF IInv, TypeOK, StoreTypeOK

\* A turn that begins keeps an id for every input.
LEMMA BeginTurn_IdsSuffice ==
  ASSUME IInv, BeginTurn PROVE IdsSuffice'
<1>1. sr.new_snapshot_id \in Nat /\ sr.new_snapshot_id < nextId /\ sr'.new_snapshot_id = None
  <2>1. sr.new_snapshot_id \in Nat /\ sr.new_snapshot_id < nextId
    BY IdsAreNumbers DEF IInv, IdsSuffice
  <2>2. sr'.new_snapshot_id = None
    BY BeginTurnFacts DEF IInv, TypeOK, RunnerTypeOK, Runners
  <2> QED
    BY <2>1, <2>2
<1>2. nextId' <= nextId + 1 /\ nextId' >= nextId /\ nextId' \in Nat
  BY BeginTurnFacts, TypeFacts
<1>3. sr'.current_turn_snapshot_id < nextId'
  BY <1>1, BeginTurnFacts, TypeFacts DEF None
<1>4. \A t \in Tasks : Called(t) => call[t].id \in Nat /\ call[t].id < nextId
  BY CallFacts DEF IInv, IdsSuffice, Calls, Ids, NoCall, Called
<1>5. nextId' + Len(inbox') + Len(turn_inputs') + (IF fwd'.at = "putting" THEN 1 ELSE 0)
            + (IF run' = "waiting" THEN 1 ELSE 0) <= sent' + 3
  <2>1. UNCHANGED <<inbox, fwd, run, sent>> /\ Len(turn_inputs) = 1 /\ Len(turn_inputs') = 0
    BY BeginTurnFacts
  <2>2. Len(inbox) \in Nat /\ nextId \in Nat /\ sent \in Int
    BY TypeFacts
  <2> QED
    BY <1>2, <2>1, <2>2 DEF IInv, IdsSuffice
<1>6. rt.last_snapshot \in Nat /\ rt.last_snapshot < nextId
  BY IdsAreNumbers DEF IInv, IdsSuffice
<1>7. \A id \in Ids : id >= nextId' => Absent(snapshots[id])
  BY <1>2, TypeFacts DEF IInv, IdsSuffice, Ids
<1>8. UNCHANGED <<call, rt, snapshots>> /\ nextId \in Nat
  BY BeginTurnFacts, TypeFacts
<1> QED
  BY <1>1, <1>2, <1>3, <1>4, <1>5, <1>6, <1>7, <1>8 DEF IdsSuffice, Called, None, Absent

\* A turn that begins keeps the ids that the runner holds.
LEMMA BeginTurn_RunnerIds ==
  ASSUME IInv, BeginTurn PROVE RunnerIds'
<1>1. UNCHANGED <<run, call, rt, storeKind>> /\ sr'.new_snapshot_id = None /\ fn = "loop" /\ fn' = "turn"
  BY BeginTurnFacts DEF IInv, TypeOK, RunnerTypeOK, Runners
<1>2. run = "waiting" => /\ HasStore => sr'.current_turn_snapshot_id = nextId
                         /\ ~HasStore => sr'.current_turn_snapshot_id = None
  BY BeginTurnFacts DEF IInv, RunnerIds
<1>3. nextId > rt.last_snapshot /\ nextId # None
  BY DEF IInv, IdsSuffice, TypeOK, StoreTypeOK, None
<1> QED
  BY <1>1, <1>2, <1>3 DEF IInv, RunnerIds, HasStore, Called

\* A turn that begins keeps the rows of an attached run undisturbed.
LEMMA BeginTurn_AttachedRows ==
  ASSUME IInv, BeginTurn PROVE AttachedRows'
<1>1. UNCHANGED <<run, call, rt, storeKind, snapshots>> /\ fn = "loop" /\ fn' = "turn"
  BY BeginTurnFacts
<1>2. ~Detached /\ HasStore => Absent(snapshots[sr'.current_turn_snapshot_id])
  <2> SUFFICES ASSUME ~Detached, HasStore PROVE Absent(snapshots[sr'.current_turn_snapshot_id])
    OBVIOUS
  <2>1. run = "waiting"
    BY <1>1 DEF IInv, TypeOK, RunTypeOK, CallsInOrder
  <2>2. sr'.current_turn_snapshot_id = nextId /\ nextId \in Ids
    BY <2>1, BeginTurnFacts DEF IInv, RunnerIds
  <2> QED
    BY <2>2, TypeFacts DEF IInv, IdsSuffice
<1> QED
  BY <1>1, <1>2 DEF IInv, AttachedRows, Undisturbed, Detached, Called, HasStore

\* A turn that begins keeps the versions in order.
LEMMA BeginTurn_VersionsInOrder ==
  ASSUME IInv, BeginTurn PROVE VersionsInOrder'
<1>1. sr'.last_good_state = sr.last_good_state /\ rt' = rt /\ fn' = "turn"
  BY BeginTurnFacts DEF IInv, TypeOK, RunnerTypeOK, Runners
<1> QED
  BY <1>1, TypeFacts, BeginTurnFacts DEF IInv, VersionsInOrder

\* A turn begins on an id of its own.
LEMMA BeginTurnStep ==
  ASSUME IInv, BeginTurn PROVE IInv'
<1>1. /\ CanRun("fn")
      /\ UNCHANGED <<inbox, inboxClosed, sent, closed, fwd, mutations, rt, run, out, err_holder, fin, beat,
                    watch, abort, storeKind, snapshots, failures, call, told>>
  BY DEF BeginTurn, FnUnchanged, FnDone, Full, client, queue, session, background, storeVars
<1>2. RunTypeOK' /\ ParentsAreThere' /\ ToldRowsAreOver' /\ AbortCommitted' /\ HistoryIsAChain'
  BY <1>1 DEF IInv, TypeOK, RunTypeOK, ParentsAreThere, ToldRowsAreOver, AbortCommitted, HistoryIsAChain,
         Called, Absent
<1>3. ClientTypeOK'
  BY <1>1, BeginTurnFacts DEF IInv, ClientTypeOK, TypeOK
<1>4. RunnerTypeOK'
  BY BeginTurn_RunnerTypeOK
<1>5. StoreTypeOK'
  BY BeginTurn_StoreTypeOK
<1>6. IdsSuffice'
  BY BeginTurn_IdsSuffice
<1>7. DetachOrder'
  BY <1>1, BeginTurnFacts DEF IInv, DetachOrder, Detached, Called
<1>8. RunnerIds'
  BY BeginTurn_RunnerIds
<1>9. CallsInOrder'
  BY <1>1, BeginTurnFacts DEF IInv, CallsInOrder, Called, Detached, HasStore
<1>10. SavesKeepTheLoop'
  BY <1>1, BeginTurnFacts DEF IInv, SavesKeepTheLoop, StoreYields, Detached, Called, CanRun, CallsInOrder,
         DetachOrder, NoCall, Idle, Tasks
<1>11. SavedRows'
  BY <1>1, BeginTurnFacts DEF IInv, SavedRows, CallsInOrder, RunnerIds, Called, Detached, NewRow, NoCall
<1>12. AttachedRows'
  BY BeginTurn_AttachedRows
<1>13. VersionsInOrder'
  BY BeginTurn_VersionsInOrder
<1>14. FailedRowTellsTheTurn'
  BY <1>1 DEF IInv, FailedRowTellsTheTurn, TurnsAddMessages, Detached, Called, VersionsInOrder,
     AttachedRows,
         Undisturbed, SavedRows, CallsInOrder, RunnerIds, DetachOrder, None, TypeOK, RunnerTypeOK, Runners,
         BeginTurn
<1>15. DetachedRow'
  BY <1>1, BeginTurnFacts DEF IInv, DetachedRow, StoreYields, Absent, TellsTheWork, CallsInOrder,
     DetachOrder,
         SavesKeepTheLoop, RunnerIds, AttachedRows, IdsSuffice, Called, Detached, NoCall, NewRow, CanRun, Ids
<1>16. AnswersAreDurable'
  BY <1>1, BeginTurnFacts DEF IInv, AnswersAreDurable, HasStore, Row, TurnsAddMessages, CallsInOrder,
         DetachOrder, Called, Detached, None
<1>17. FailureResumesLastGood'
  BY <1>1, BeginTurnFacts DEF IInv, FailureResumesLastGood, Row, TurnsAddMessages, CallsInOrder, Called,
         Detached, None
<1> QED
  BY <1>2, <1>3, <1>4, <1>5, <1>6, <1>7, <1>8, <1>9, <1>10, <1>11, <1>12, <1>13, <1>14, <1>15, <1>16,
     <1>17 DEF IInv, TypeOK

\* The loop of the runner ends.
LEMMA EndLoopStep ==
  ASSUME IInv, EndLoop PROVE IInv'
<1>1. /\ CanRun("fn") /\ fn = "loop" /\ fn' = "tail" /\ running' = "fn"
      /\ UNCHANGED <<inbox, inboxClosed, sent, turn_inputs, closed, fwd, sr, version, mutations, rt, run, out,
                    err_holder, fin, beat, watch, abort, storeKind, snapshots, failures, call, nextId, told>>
  BY DEF EndLoop, FnUnchanged, FnDone, Full, client, queue, session, background, storeVars
<1>2. ClientTypeOK' /\ RunTypeOK' /\ StoreTypeOK' /\ IdsSuffice' /\ ParentsAreThere' /\ ToldRowsAreOver'
      /\ FailedRowTellsTheTurn' /\ AbortCommitted' /\ DetachedRow' /\ AnswersAreDurable'
      /\ FailureResumesLastGood' /\ HistoryIsAChain'
  BY <1>1 DEF IInv, TypeOK, ClientTypeOK, RunTypeOK, StoreTypeOK, IdsSuffice, ParentsAreThere,
         ToldRowsAreOver, FailedRowTellsTheTurn, AbortCommitted, DetachedRow, AnswersAreDurable,
         FailureResumesLastGood, HistoryIsAChain, Called, Absent, TurnsAddMessages, Detached, StoreYields,
         TellsTheWork, HasStore, Row
<1>3. RunnerTypeOK'
  BY <1>1 DEF IInv, RunnerTypeOK, TypeOK, IdsSuffice, Ids, Reasons, Tasks, NoCall, Idle, None
<1>4. DetachOrder'
  BY <1>1 DEF IInv, DetachOrder, Detached, Called
<1>5. RunnerIds'
  BY <1>1 DEF IInv, RunnerIds, HasStore, Called
<1>6. CallsInOrder'
  BY <1>1 DEF IInv, CallsInOrder, Called, Detached, HasStore
<1>7. SavesKeepTheLoop'
  BY <1>1 DEF IInv, SavesKeepTheLoop, StoreYields, Detached, Called, CanRun, CallsInOrder, DetachOrder,
         NoCall, Idle, Tasks
<1>8. SavedRows'
  BY <1>1 DEF IInv, SavedRows
<1>9. AttachedRows'
  BY <1>1 DEF IInv, AttachedRows, Detached, Called, Undisturbed, Absent, HasStore
<1>10. VersionsInOrder'
  BY <1>1 DEF IInv, VersionsInOrder, TurnsAddMessages
<1> QED
  BY <1>2, <1>3, <1>4, <1>5, <1>6, <1>7, <1>8, <1>9, <1>10 DEF IInv, TypeOK

\* The handler awaits.
LEMMA SuspendStep ==
  ASSUME IInv, Suspend PROVE IInv'
<1>1. /\ running = "fn" /\ fn = "turn" /\ running' = Idle
      /\ UNCHANGED <<inbox, inboxClosed, sent, turn_inputs, closed, fwd, fn, sr, version, mutations, rt, run,
                    out, err_holder, fin, beat, watch, abort, storeKind, snapshots, failures, call, nextId,
                    told>>
  BY DEF Suspend, FnUnchanged, FnDone, Full, client, queue, session, background, storeVars
<1>2. ClientTypeOK' /\ RunTypeOK' /\ StoreTypeOK' /\ IdsSuffice' /\ DetachOrder' /\ RunnerIds'
      /\ CallsInOrder' /\ ParentsAreThere' /\ ToldRowsAreOver' /\ SavedRows' /\ AttachedRows'
      /\ VersionsInOrder' /\ FailedRowTellsTheTurn' /\ AbortCommitted' /\ DetachedRow'
      /\ AnswersAreDurable' /\ FailureResumesLastGood' /\ HistoryIsAChain'
  BY <1>1 DEF IInv, TypeOK, ClientTypeOK, RunTypeOK, StoreTypeOK, IdsSuffice, DetachOrder, RunnerIds,
         CallsInOrder, ParentsAreThere, ToldRowsAreOver, SavedRows, AttachedRows, VersionsInOrder,
         FailedRowTellsTheTurn, AbortCommitted, DetachedRow, AnswersAreDurable, FailureResumesLastGood,
         HistoryIsAChain, Called, Absent, Detached, HasStore, Undisturbed, TurnsAddMessages, StoreYields,
         TellsTheWork, Row
<1>3. RunnerTypeOK'
  BY <1>1 DEF IInv, RunnerTypeOK, TypeOK
<1>4. SavesKeepTheLoop'
  BY <1>1 DEF IInv, SavesKeepTheLoop, StoreYields, Detached, Called, CallsInOrder, DetachOrder, CanRun,
         NoCall, Idle
<1> QED
  BY <1>2, <1>3, <1>4 DEF IInv, TypeOK

\* The session moves on from all that was saved.
LEMMA MutateStep ==
  ASSUME IInv, Mutate PROVE IInv'
<1>1. /\ CanRun("fn") /\ fn \in {"turn", "tail"} /\ running' = "fn"
      /\ version' = version + 1 /\ mutations' = mutations + 1
      /\ UNCHANGED <<inbox, inboxClosed, sent, turn_inputs, closed, fwd, fn, sr, rt, run, out, err_holder,
                    fin, beat, watch, abort, storeKind, snapshots, failures, call, nextId, told>>
  BY DEF Mutate, FnUnchanged, FnDone, Full, client, queue, session, background, storeVars
<1>2. ClientTypeOK' /\ RunTypeOK' /\ StoreTypeOK' /\ IdsSuffice' /\ DetachOrder' /\ RunnerIds'
      /\ CallsInOrder' /\ ParentsAreThere' /\ ToldRowsAreOver' /\ AttachedRows' /\ AbortCommitted'
      /\ FailureResumesLastGood' /\ HistoryIsAChain'
  BY <1>1 DEF IInv, TypeOK, ClientTypeOK, RunTypeOK, StoreTypeOK, IdsSuffice, DetachOrder, RunnerIds,
         CallsInOrder, ParentsAreThere, ToldRowsAreOver, AttachedRows, AbortCommitted, FailureResumesLastGood,
         HistoryIsAChain, Called, Absent, Detached, HasStore, Undisturbed, Row, TurnsAddMessages
<1>3. RunnerTypeOK'
  BY <1>1 DEF IInv, RunnerTypeOK, TypeOK, IdsSuffice, Ids, Reasons, Tasks, Mutate
<1>4. SavesKeepTheLoop'
  BY <1>1 DEF IInv, SavesKeepTheLoop, StoreYields, Detached, Called, CanRun, CallsInOrder, DetachOrder,
         NoCall, Idle, Tasks
<1>5. SavedRows'
  BY <1>1 DEF IInv, SavedRows, CallsInOrder, RunnerIds, Called, Detached, NewRow
<1>6. VersionsInOrder'
  BY <1>1, TypeFacts DEF IInv, VersionsInOrder, TurnsAddMessages, HasMessage
<1>7. FailedRowTellsTheTurn'
  BY <1>1, TypeFacts DEF IInv, FailedRowTellsTheTurn, TurnsAddMessages, Detached, Called, VersionsInOrder,
         AttachedRows, Undisturbed, SavedRows, CallsInOrder, RunnerIds, DetachOrder
<1>8. DetachedRow'
  BY <1>1 DEF IInv, DetachedRow, StoreYields, Absent, TellsTheWork, CallsInOrder, DetachOrder,
         SavesKeepTheLoop, RunnerIds, AttachedRows, IdsSuffice, Called, Detached, NoCall, NewRow, CanRun
<1>9. AnswersAreDurable'
  BY <1>1 DEF IInv, AnswersAreDurable, HasStore, Row, TurnsAddMessages, CallsInOrder, DetachOrder, Called,
         Detached
<1> QED
  BY <1>2, <1>3, <1>4, <1>5, <1>6, <1>7, <1>8, <1>9 DEF IInv, TypeOK

\* The agent function returns or raises.
LEMMA FnReturnsStep ==
  ASSUME IInv, NEW raises \in BOOLEAN, FnReturns(raises) PROVE IInv'
<1>1. /\ CanRun("fn") /\ fn = "tail" /\ fn' = "done" /\ closed' = TRUE /\ running' = Idle /\ err_holder' = raises
      /\ UNCHANGED <<inbox, inboxClosed, sent, turn_inputs, fwd, sr, version, mutations, rt, run, out, fin,
                    beat, watch, abort, storeKind, snapshots, failures, call, nextId, told>>
  BY DEF FnReturns, FnUnchanged, FnDone, Full, client, queue, session, background, storeVars
<1>2. RunTypeOK' /\ StoreTypeOK' /\ IdsSuffice' /\ ParentsAreThere' /\ ToldRowsAreOver'
      /\ FailedRowTellsTheTurn' /\ AbortCommitted' /\ AnswersAreDurable' /\ FailureResumesLastGood'
      /\ HistoryIsAChain'
  BY <1>1 DEF IInv, TypeOK, RunTypeOK, StoreTypeOK, IdsSuffice, ParentsAreThere, ToldRowsAreOver,
         FailedRowTellsTheTurn, AbortCommitted, AnswersAreDurable, FailureResumesLastGood, HistoryIsAChain,
         Called, Absent, TurnsAddMessages, Detached, HasStore, Row
<1>3. ClientTypeOK'
  BY <1>1 DEF IInv, ClientTypeOK, TypeOK
<1>4. RunnerTypeOK'
  BY <1>1 DEF IInv, RunnerTypeOK, TypeOK
<1>5. DetachOrder'
  BY <1>1 DEF IInv, DetachOrder, Detached, Called
<1>6. RunnerIds'
  BY <1>1 DEF IInv, RunnerIds, HasStore, Called
<1>7. CallsInOrder'
  BY <1>1 DEF IInv, CallsInOrder, Called, Detached, HasStore
<1>8. SavesKeepTheLoop'
  BY <1>1 DEF IInv, SavesKeepTheLoop, StoreYields, Detached, Called, CanRun, CallsInOrder, DetachOrder,
         NoCall, FnReturns, FnDone
<1>9. SavedRows'
  BY <1>1 DEF IInv, SavedRows
<1>10. AttachedRows'
  BY <1>1 DEF IInv, AttachedRows, Detached, Called, Undisturbed, Absent, HasStore
<1>11. VersionsInOrder'
  BY <1>1 DEF IInv, VersionsInOrder, TurnsAddMessages
<1>12. DetachedRow'
  BY <1>1 DEF IInv, DetachedRow, StoreYields, Absent, TellsTheWork, CallsInOrder, DetachOrder,
         SavesKeepTheLoop, RunnerIds, AttachedRows, IdsSuffice, Called, Detached, NoCall, NewRow, CanRun
<1> QED
  BY <1>2, <1>3, <1>4, <1>5, <1>6, <1>7, <1>8, <1>9, <1>10, <1>11, <1>12 DEF IInv, TypeOK

-----------------------------------------------------------------------------
\* run() detaches.

\* The pending row has the id of the running turn, or a new one.
LEMMA RunDetachFacts ==
  ASSUME IInv, RunDetach
  PROVE  /\ run = "waiting" /\ run' = "pending" /\ HasStore /\ rt.detach_future /\ rt.detached
         /\ CanRun("run") /\ running' = (IF StoreYields THEN Idle ELSE "run")
         /\ call["run"] = NoCall /\ ~Detached
         /\ call'["run"] = [phase |-> "issued", id |-> sr'.current_turn_snapshot_id,
                            mutator |-> "pending", row |-> NewRow("pending", version)]
         /\ \A t \in Tasks \ {"run"} : call'[t] = call[t]
         /\ sr' = [sr EXCEPT !.new_snapshot_id = sr'.current_turn_snapshot_id,
                             !.current_turn_snapshot_id = sr'.current_turn_snapshot_id]
         /\ \/ /\ fn \in {"turn", "saving"} /\ nextId' = nextId
               /\ sr'.current_turn_snapshot_id = sr.current_turn_snapshot_id
            \/ /\ fn \notin {"turn", "saving"} /\ nextId' = nextId + 1
               /\ sr'.current_turn_snapshot_id = nextId
         /\ sr'.current_turn_snapshot_id \in Ids /\ sr'.current_turn_snapshot_id < nextId'
         /\ rt.last_snapshot < sr'.current_turn_snapshot_id
         /\ NewRow("pending", version) \in WrittenRows
         /\ UNCHANGED <<inbox, inboxClosed, sent, turn_inputs, closed, fwd, rt, out, fin, beat, watch, abort, fn,
                        version, mutations, err_holder, storeKind, snapshots, failures, told>>
<1>1. /\ run = "waiting" /\ run' = "pending" /\ HasStore /\ rt.detach_future /\ CanRun("run")
      /\ UNCHANGED <<inbox, inboxClosed, sent, turn_inputs, closed, fwd, rt, out, fin, beat, watch, abort, fn,
                     version, mutations, err_holder, storeKind, snapshots, failures, told>>
  BY DEF RunDetach, RunUnchanged, client, background, session, storeVars
<1>2. rt.detached /\ call["run"] = NoCall /\ ~Detached
  BY <1>1 DEF IInv, DetachOrder, CallsInOrder, Detached, Called, NoCall
<1> DEFINE id == IF sr.current_turn_snapshot_id # None THEN sr.current_turn_snapshot_id
                 ELSE IF sr.new_snapshot_id # None THEN sr.new_snapshot_id ELSE nextId
<1>3. /\ sr' = [sr EXCEPT !.new_snapshot_id = id, !.current_turn_snapshot_id = id]
      /\ nextId' = (IF id = nextId THEN nextId + 1 ELSE nextId)
      /\ Issue("run", id, "pending", NewRow("pending", version))
  BY DEF RunDetach
<1>4. sr'.current_turn_snapshot_id = id
  BY <1>3 DEF IInv, TypeOK, RunnerTypeOK, Runners
<1>5. sr.new_snapshot_id = None /\ (fn \in {"turn", "saving"} <=> sr.current_turn_snapshot_id # None)
  BY <1>1 DEF IInv, RunnerIds
<1>6. nextId \in Ids /\ rt.last_snapshot < nextId /\ sr.current_turn_snapshot_id < nextId
  BY <1>1, RoomForOneMore DEF IInv, IdsSuffice
<1>7. \/ fn \in {"turn", "saving"} /\ nextId' = nextId /\ id = sr.current_turn_snapshot_id
      \/ fn \notin {"turn", "saving"} /\ nextId' = nextId + 1 /\ id = nextId
  BY <1>3, <1>5, <1>6, TypeFacts DEF Ids, None
<1>8. fn \in {"turn", "saving"} => rt.last_snapshot < sr.current_turn_snapshot_id
  BY <1>1 DEF IInv, RunnerIds
<1>9. rt.last_snapshot < id /\ id \in Ids /\ id < nextId'
  BY <1>5, <1>6, <1>7, <1>8, TypeFacts DEF None, Ids
<1>10. NewRow("pending", version) \in WrittenRows
  BY TypeFacts DEF NewRow, WrittenRows, Statuses
<1>11. /\ call'["run"] = [phase |-> "issued", id |-> id, mutator |-> "pending", row |-> NewRow("pending", version)]
       /\ \A t \in Tasks \ {"run"} : call'[t] = call[t]
       /\ running' = (IF StoreYields THEN Idle ELSE "run")
  <2>1. call \in [Tasks -> {NoCall} \cup Calls] /\ "run" \in Tasks
    BY DEF IInv, TypeOK, StoreTypeOK, Tasks
  <2> HIDE DEF id
  <2> QED
    BY <1>3, <2>1, IssueFacts
<1> HIDE DEF id
<1> QED
  BY <1>1, <1>2, <1>3, <1>4, <1>7, <1>9, <1>10, <1>11

\* A detach keeps the types of the runner's state.
LEMMA RunDetach_RunnerTypeOK ==
  ASSUME IInv, RunDetach PROVE RunnerTypeOK'
  BY RunDetachFacts DEF IInv, TypeOK, RunnerTypeOK, Runners, Tasks

\* A detach keeps the types of the store's state.
LEMMA RunDetach_StoreTypeOK ==
  ASSUME IInv, RunDetach PROVE StoreTypeOK'
<1>1. call'["run"] \in Calls /\ nextId' \in Nat /\ nextId' >= 2
  BY RunDetachFacts, TypeFacts DEF Calls
<1>2. call' = [t \in Tasks |-> call'[t]]
  BY DEF RunDetach, Issue, IInv, TypeOK, StoreTypeOK
<1>3. \A t \in Tasks : call'[t] \in {NoCall} \cup Calls
  BY <1>1, RunDetachFacts DEF IInv, TypeOK, StoreTypeOK
<1>4. call' \in [Tasks -> {NoCall} \cup Calls]
  BY <1>2, <1>3
<1> QED
  BY <1>1, <1>4, RunDetachFacts DEF IInv, TypeOK, StoreTypeOK

\* A detach keeps an id for every input.
LEMMA RunDetach_IdsSuffice ==
  ASSUME IInv, RunDetach PROVE IdsSuffice'
<1>1. nextId' \in Nat /\ nextId' <= nextId + 1 /\ nextId' >= nextId /\ nextId \in Nat
  BY RunDetachFacts, TypeFacts
<1>2. /\ sr'.new_snapshot_id < nextId' /\ sr'.current_turn_snapshot_id < nextId'
  BY RunDetachFacts DEF IInv, TypeOK, RunnerTypeOK, Runners
<1>3. \A t \in Tasks : Called(t)' => call'[t].id < nextId'
  <2> SUFFICES ASSUME NEW t \in Tasks, Called(t)' PROVE call'[t].id < nextId'
    OBVIOUS
  <2>1. CASE t = "run"
    BY <2>1, RunDetachFacts
  <2>2. CASE t # "run"
    <3>1. call'[t] = call[t] /\ Called(t)
      BY <2>2, RunDetachFacts DEF Called
    <3>2. call[t].id \in Nat /\ call[t].id < nextId
      BY <3>1, CallFacts DEF IInv, IdsSuffice, Calls, Ids, Called, NoCall
    <3> QED
      BY <3>1, <3>2, <1>1
  <2> QED
    BY <2>1, <2>2
<1>4. nextId' + Len(inbox') + Len(turn_inputs') + (IF fwd'.at = "putting" THEN 1 ELSE 0)
            + (IF run' = "waiting" THEN 1 ELSE 0) <= sent' + 3
  <2>1. UNCHANGED <<inbox, turn_inputs, fwd, sent>> /\ run = "waiting" /\ run' # "waiting"
    BY RunDetachFacts
  <2>2. Len(inbox) \in Nat /\ Len(turn_inputs) \in Nat /\ sent \in Int
    BY TypeFacts
  <2> QED
    BY <1>1, <2>1, <2>2 DEF IInv, IdsSuffice
<1>5. rt'.last_snapshot < nextId'
  <2>1. rt.last_snapshot < nextId /\ rt.last_snapshot \in Nat /\ rt' = rt
    BY TypeFacts, RunDetachFacts DEF IInv, IdsSuffice, Ids, None
  <2> QED
    BY <1>1, <2>1
<1>6. \A id \in Ids : id >= nextId' => Absent(snapshots[id])
  BY <1>1 DEF IInv, IdsSuffice, Ids
<1>7. snapshots' = snapshots
  BY RunDetachFacts
<1> QED
  BY <1>2, <1>3, <1>4, <1>5, <1>6, <1>7 DEF IdsSuffice, Absent

\* A detach keeps the ids that the runner holds.
LEMMA RunDetach_RunnerIds ==
  ASSUME IInv, RunDetach PROVE RunnerIds'
<1>1. fn' = "saving" => /\ HasStore' /\ Called("fn")' /\ call'["fn"].mutator = "settle"
                        /\ call'["fn"].id = sr'.current_turn_snapshot_id
                        /\ rt'.last_snapshot < call'["fn"].id
  BY RunDetachFacts DEF IInv, RunnerIds, Called, HasStore, Tasks
<1> QED
  BY <1>1, RunDetachFacts DEF RunnerIds, HasStore

\* A detach keeps the calls in order.
LEMMA RunDetach_CallsInOrder ==
  ASSUME IInv, RunDetach PROVE CallsInOrder'
<1>1. UNCHANGED <<fn, out, fin, beat, watch, abort, storeKind>> /\ run = "waiting" /\ run' = "pending" /\ HasStore
  BY RunDetachFacts
<1>2. \A t \in Tasks \ {"run"} : call'[t] = call[t]
  BY RunDetachFacts
<1>3. Detached' /\ call'["run"].mutator = "pending" /\ call["run"] = NoCall
  BY RunDetachFacts DEF Detached, Called
<1>4. out.reason = "none" /\ fin = "none" /\ \A t \in {"fin", "beat", "abort"} : call[t] = NoCall
  BY <1>1 DEF IInv, CallsInOrder
<1> QED
  BY <1>1, <1>2, <1>3, <1>4 DEF IInv, CallsInOrder, Called, Tasks, HasStore, NoCall

\* A detach keeps the row of a detach in step with the work.
LEMMA RunDetach_DetachedRow ==
  ASSUME IInv, RunDetach PROVE DetachedRow'
<1>1. ~StoreYields => Absent(snapshots[sr'.current_turn_snapshot_id])
  <2> SUFFICES ASSUME ~StoreYields PROVE Absent(snapshots[sr'.current_turn_snapshot_id])
    OBVIOUS
  <2>1. fn # "saving"
    BY RunDetachFacts DEF IInv, SavesKeepTheLoop, CanRun, Idle
  <2>2. CASE fn = "turn"
    BY <2>2, RunDetachFacts DEF IInv, AttachedRows
  <2>3. CASE fn # "turn"
    <3>1. sr'.current_turn_snapshot_id = nextId /\ nextId \in Ids
      BY <2>1, <2>3, RunDetachFacts
    <3> QED
      BY <3>1 DEF IInv, IdsSuffice, Ids
  <2> QED
    BY <2>2, <2>3
<1>2. fin = "none"
  BY RunDetachFacts DEF IInv, CallsInOrder
<1>3. UNCHANGED <<snapshots, fin, storeKind>> /\ run' = "pending"
      /\ call'["run"].phase = "issued" /\ call'["run"].id = sr'.current_turn_snapshot_id
  BY RunDetachFacts
<1> QED
  BY <1>1, <1>2, <1>3 DEF DetachedRow, StoreYields, Absent

\* A detach keeps every parent in the store.
LEMMA RunDetach_ParentsAreThere ==
  ASSUME IInv, RunDetach PROVE ParentsAreThere'
<1>1. call'["run"].row.parent = rt.last_snapshot
  BY RunDetachFacts DEF NewRow
<1>2. UNCHANGED <<snapshots, rt>> /\ rt.last_snapshot < call'["run"].id /\ call'["run"].phase = "issued"
  BY RunDetachFacts
<1>3. \A t \in Tasks \ {"run"} : call'[t] = call[t]
  BY RunDetachFacts
<1> QED
  BY <1>1, <1>2, <1>3 DEF IInv, ParentsAreThere, Called, Absent

\* A detach keeps the rows of turnEnd chunks from being written.
LEMMA RunDetach_ToldRowsAreOver ==
  ASSUME IInv, RunDetach PROVE ToldRowsAreOver'
<1>1. UNCHANGED <<told, rt>> /\ rt.last_snapshot < call'["run"].id
  BY RunDetachFacts
<1>2. \A chunk \in told : chunk.id <= rt.last_snapshot
  BY DEF IInv, ToldRowsAreOver
<1>3. \A chunk \in told : chunk.id \in Nat
  BY IdsAreNumbers
<1>4. rt.last_snapshot \in Nat /\ call'["run"].id \in Nat
  BY IdsAreNumbers, RunDetachFacts DEF Ids
<1> QED
  BY <1>1, <1>2, <1>3, <1>4 DEF ToldRowsAreOver

\* A detach keeps what is saved true to the session.
LEMMA RunDetach_SavedRows ==
  ASSUME IInv, RunDetach PROVE SavedRows'
<1>1. sr'.last_turn_finish_reason = sr.last_turn_finish_reason /\ fn' = fn /\ version' = version
  BY RunDetachFacts DEF IInv, TypeOK, RunnerTypeOK, Runners
<1>2. call'["run"].row.status = "pending" /\ run' = "pending" /\ call'["fn"] = call["fn"]
  BY RunDetachFacts DEF NewRow, Tasks
<1> QED
  BY <1>1, <1>2 DEF IInv, SavedRows

\* run() saves the pending row under an id nobody has written, unless the runner is writing it.
LEMMA RunDetachStep ==
  ASSUME IInv, RunDetach PROVE IInv'
<1>1. /\ UNCHANGED <<inbox, inboxClosed, sent, turn_inputs, closed, fwd, fn, version, mutations, rt, out,
                    err_holder, fin, beat, watch, abort, storeKind, snapshots, failures, told>>
  BY DEF RunDetach, RunUnchanged, Return, client, queue, session, background, storeVars
<1>2. ClientTypeOK' /\ HistoryIsAChain'
  BY <1>1 DEF IInv, TypeOK, ClientTypeOK, HistoryIsAChain, Absent
<1>3. RunnerTypeOK'
  BY RunDetach_RunnerTypeOK
<1>4. RunTypeOK'
  BY <1>1, RunDetachFacts DEF IInv, RunTypeOK, TypeOK
<1>5. StoreTypeOK'
  BY RunDetach_StoreTypeOK
<1>6. IdsSuffice'
  BY RunDetach_IdsSuffice
<1>7. DetachOrder'
  BY <1>1, RunDetachFacts DEF IInv, DetachOrder, Detached, Called
<1>8. RunnerIds'
  BY RunDetach_RunnerIds
<1>9. CallsInOrder'
  BY RunDetach_CallsInOrder
<1>10. SavesKeepTheLoop'
  BY <1>1, RunDetachFacts DEF IInv, SavesKeepTheLoop, StoreYields, Detached, Called, CallsInOrder,
         DetachOrder, CanRun, NoCall, Idle, Tasks
<1>11. ParentsAreThere'
  BY RunDetach_ParentsAreThere
<1>12. ToldRowsAreOver'
  BY RunDetach_ToldRowsAreOver
<1>13. SavedRows'
  BY RunDetach_SavedRows
<1>14. AttachedRows'
  BY <1>1, RunDetachFacts DEF IInv, AttachedRows, Detached, Called, Undisturbed, Absent, HasStore
<1>15. VersionsInOrder'
  BY <1>1, RunDetachFacts DEF IInv, VersionsInOrder, TypeOK, RunnerTypeOK, Runners
<1>16. FailedRowTellsTheTurn'
  BY <1>1, RunDetachFacts DEF IInv, FailedRowTellsTheTurn, TurnsAddMessages, Detached, Called
<1>17. AbortCommitted'
  BY <1>1, RunDetachFacts DEF IInv, AbortCommitted, Tasks
<1>18. DetachedRow'
  BY RunDetach_DetachedRow
<1>19. AnswersAreDurable'
  BY <1>1, RunDetachFacts DEF IInv, AnswersAreDurable, HasStore, Row, TurnsAddMessages
<1>20. FailureResumesLastGood'
  BY <1>1, RunDetachFacts DEF IInv, FailureResumesLastGood, Row, TurnsAddMessages
<1> QED
  BY <1>2, <1>3, <1>4, <1>5, <1>6, <1>7, <1>8, <1>9, <1>10, <1>11, <1>12, <1>13, <1>14, <1>15, <1>16, <1>17,
     <1>18, <1>19, <1>20 DEF IInv, TypeOK

-----------------------------------------------------------------------------
\* The background tasks of a detach.

\* A call of a background task is on the row of the detach.
LEMMA BackgroundCall ==
  ASSUME IInv, NEW t \in {"fin", "beat", "abort"}, NEW mutator \in {"settle", "beat", "abort"}, NEW row \in WrittenRows,
         NEW id \in Ids, id = call["run"].id, Called("run"),
         Issue(t, id, mutator, row), UNCHANGED <<nextId, storeKind, snapshots, failures>>
  PROVE  /\ StoreTypeOK'
         /\ \A u \in Tasks : Called(u)' => call'[u].id < nextId
<1>1. t \in Tasks /\ call \in [Tasks -> {NoCall} \cup Calls]
  BY DEF Tasks, IInv, TypeOK, StoreTypeOK
<1>2. call'[t] = [phase |-> "issued", id |-> id, mutator |-> mutator, row |-> row]
  BY <1>1, IssueFacts
<1>3. \A u \in Tasks \ {t} : call'[u] = call[u]
  BY <1>1, IssueFacts
<1>4. call' \in [Tasks -> {NoCall} \cup Calls]
  BY <1>1, <1>2, <1>3, IssueFacts, mutator \in {"pending", "settle", "abort", "beat"}
<1>5. id < nextId
  BY DEF IInv, IdsSuffice, Tasks
<1>6. \A u \in Tasks : Called(u)' => call'[u].id < nextId
  BY <1>1, <1>2, <1>3, <1>5 DEF IInv, IdsSuffice, Called
<1> QED
  BY <1>4, <1>6 DEF IInv, TypeOK, StoreTypeOK

\* What the finalizer saves, and over which row.
LEMMA FinalizeFacts ==
  ASSUME IInv, Finalize
  PROVE  /\ fin = "waiting" /\ fin' = "saving" /\ fn = "done" /\ fwd.at = "done"
         /\ beat' = [beat EXCEPT !.at = "cancelled"]
         /\ call["fin"] = NoCall /\ Detached /\ call["run"].id \in Ids /\ call["run"].row \in WrittenRows
         /\ call'["fin"].phase = "issued" /\ call'["fin"].id = call["run"].id
         /\ call'["fin"].mutator = "settle" /\ call'["fin"].row.parent = call["run"].row.parent
         /\ TellsTheWork(call'["fin"].row)
         /\ \A u \in Tasks \ {"fin"} : call'[u] = call[u]
         /\ running' = (IF StoreYields THEN Idle ELSE "fin") /\ CanRun("fin")
         /\ UNCHANGED <<inbox, inboxClosed, sent, turn_inputs, closed, fwd, fn, sr, version, mutations, rt, run,
                        out, err_holder, watch, abort, storeKind, snapshots, failures, nextId, told>>
         /\ StoreTypeOK'
         /\ \A u \in Tasks : Called(u)' => call'[u].id < nextId
<1> DEFINE row == [NewRow(IF err_holder \/ sr.last_turn_finish_reason = "failed" THEN "failed" ELSE "completed",
                          version) EXCEPT !.parent = call["run"].row.parent]
<1>1. /\ fin = "waiting" /\ fin' = "saving" /\ fn = "done" /\ fwd.at = "done"
      /\ beat' = [beat EXCEPT !.at = "cancelled"] /\ CanRun("fin")
      /\ Issue("fin", call["run"].id, "settle", row)
      /\ UNCHANGED <<inbox, inboxClosed, sent, turn_inputs, closed, fwd, fn, sr, version, mutations, rt, run,
                     out, err_holder, watch, abort, storeKind, snapshots, failures, nextId, told>>
  BY DEF Finalize, BackgroundUnchanged, client, queue, session, storeVars
<1>2. call["fin"] = NoCall /\ Detached
  BY <1>1 DEF IInv, CallsInOrder
<1>3. call["run"] \in Calls
  BY <1>2, CallFacts DEF Detached, Called, Tasks, NoCall
<1>4. call["run"].id \in Ids /\ call["run"].row \in WrittenRows
  BY <1>3 DEF Calls
<1>5. row \in WrittenRows /\ row.parent = call["run"].row.parent /\ row.state = version
      /\ row.status = (IF err_holder \/ sr.last_turn_finish_reason = "failed" THEN "failed" ELSE "completed")
  BY <1>4, TypeFacts DEF NewRow, WrittenRows, Statuses, TERMINAL_STATUSES
<1> HIDE DEF row
<1>6. call \in [Tasks -> {NoCall} \cup Calls] /\ "fin" \in Tasks
  BY DEF IInv, TypeOK, StoreTypeOK, Tasks
<1>7. /\ call'["fin"] = [phase |-> "issued", id |-> call["run"].id, mutator |-> "settle", row |-> row]
      /\ \A u \in Tasks \ {"fin"} : call'[u] = call[u]
      /\ running' = (IF StoreYields THEN Idle ELSE "fin")
  BY <1>1, <1>6, IssueFacts
<1>8. StoreTypeOK' /\ \A u \in Tasks : Called(u)' => call'[u].id < nextId
  BY <1>1, <1>2, <1>4, <1>5, BackgroundCall DEF Detached
<1>9. TellsTheWork(call'["fin"].row)
  BY <1>5, <1>7 DEF TellsTheWork
<1> QED
  BY <1>1, <1>2, <1>4, <1>5, <1>7, <1>8, <1>9

\* The finalizer keeps the types of run()'s state.
LEMMA Finalize_RunTypeOK ==
  ASSUME IInv, Finalize PROVE RunTypeOK'
  BY FinalizeFacts DEF IInv, TypeOK, RunTypeOK

\* The finalizer keeps an id for every input.
LEMMA Finalize_IdsSuffice ==
  ASSUME IInv, Finalize PROVE IdsSuffice'
  BY FinalizeFacts DEF IInv, IdsSuffice

\* The finalizer keeps the row of a detach in step with the work.
LEMMA Finalize_DetachedRow ==
  ASSUME IInv, Finalize PROVE DetachedRow'
<1>1. run = "returned" /\ run' = "returned" /\ fin' = "saving"
  BY FinalizeFacts DEF IInv, CallsInOrder
<1>2. TellsTheWork(call["fin"].row)'
  BY FinalizeFacts DEF TellsTheWork
<1>3. ~StoreYields => snapshots[call["run"].id].status \in {"pending", "aborted"}
  BY FinalizeFacts DEF IInv, DetachedRow
<1>4. call'["fin"].phase = "issued" /\ call'["run"] = call["run"] /\ UNCHANGED <<snapshots, storeKind>>
  BY FinalizeFacts DEF Tasks
<1> QED
  BY <1>1, <1>2, <1>3, <1>4 DEF DetachedRow, StoreYields

\* The finalizer keeps every parent in the store.
LEMMA Finalize_ParentsAreThere ==
  ASSUME IInv, Finalize PROVE ParentsAreThere'
<1>1. /\ call["run"].row.parent < call["run"].id
      /\ call["run"].row.parent # None => ~Absent(snapshots[call["run"].row.parent])
  BY FinalizeFacts DEF IInv, ParentsAreThere, Detached, Tasks
<1>2. /\ call'["fin"].phase = "issued" /\ call'["fin"].id = call["run"].id
      /\ call'["fin"].row.parent = call["run"].row.parent /\ UNCHANGED <<snapshots, rt>>
  BY FinalizeFacts
<1>3. \A u \in Tasks \ {"fin"} : call'[u] = call[u]
  BY FinalizeFacts
<1> QED
  BY <1>1, <1>2, <1>3 DEF IInv, ParentsAreThere, Called, Absent

\* A heartbeat saves over the row of the detach.
LEMMA BeatFacts ==
  ASSUME IInv, Beat
  PROVE  /\ beat.at = "sleeping" /\ beat' = [at |-> "saving", count |-> beat.count + 1]
         /\ call'["beat"].phase = "issued" /\ call'["beat"].mutator = "beat"
         /\ call'["beat"].id = call["run"].id /\ \A u \in Tasks \ {"beat"} : call'[u] = call[u]
         /\ running' = (IF StoreYields THEN Idle ELSE "beat")
         /\ StoreTypeOK'
         /\ \A u \in Tasks : Called(u)' => call'[u].id < nextId
         /\ UNCHANGED <<inbox, turn_inputs, fwd, sent, sr, rt, run, out, fin, watch, abort, snapshots, nextId>>
<1>1. /\ beat.at = "sleeping" /\ beat' = [at |-> "saving", count |-> beat.count + 1]
      /\ Issue("beat", call["run"].id, "beat", NewRow("pending", version))
      /\ UNCHANGED <<inbox, turn_inputs, fwd, sent, sr, rt, run, out, fin, watch, abort, snapshots, nextId, storeKind, failures>>
  BY DEF Beat, BackgroundUnchanged, client, queue, storeVars
<1>2. Detached /\ Called("run")
  BY <1>1 DEF IInv, CallsInOrder, Detached
<1>3. call["run"].id \in Ids
  BY <1>2, CallFacts DEF Called, Tasks, NoCall, Calls
<1>4. NewRow("pending", version) \in WrittenRows
  BY TypeFacts DEF NewRow, WrittenRows, Statuses
<1>5. StoreTypeOK' /\ \A u \in Tasks : Called(u)' => call'[u].id < nextId
  BY <1>1, <1>2, <1>3, <1>4, BackgroundCall
<1>6. /\ call'["beat"] = [phase |-> "issued", id |-> call["run"].id, mutator |-> "beat",
                          row |-> NewRow("pending", version)]
      /\ \A u \in Tasks \ {"beat"} : call'[u] = call[u]
      /\ running' = (IF StoreYields THEN Idle ELSE "beat")
  BY <1>1, IssueFacts DEF IInv, TypeOK, StoreTypeOK, Tasks
<1> QED
  BY <1>1, <1>5, <1>6

\* A heartbeat keeps the types of run()'s state.
LEMMA Beat_RunTypeOK ==
  ASSUME IInv, Beat PROVE RunTypeOK'
  BY BeatFacts DEF IInv, TypeOK, RunTypeOK

\* A heartbeat keeps an id for every input.
LEMMA Beat_IdsSuffice ==
  ASSUME IInv, Beat PROVE IdsSuffice'
  BY BeatFacts DEF IInv, IdsSuffice

\* An abort saves over the row of the detach.
LEMMA AbortFacts ==
  ASSUME IInv, Abort
  PROVE  /\ StoreTypeOK'
         /\ Detached /\ fin # "none" /\ call'["abort"].phase = "issued" /\ call'["abort"].mutator = "abort"
         /\ call'["abort"].id = call["run"].id /\ \A u \in Tasks \ {"abort"} : call'[u] = call[u]
         /\ running' = (IF StoreYields THEN Idle ELSE "abort")
         /\ \A u \in Tasks : Called(u)' => call'[u].id < nextId
         /\ UNCHANGED <<inbox, turn_inputs, fwd, sent, sr, rt, run, snapshots, nextId>>
<1>1. /\ out.reason = "detached"
      /\ Issue("abort", out.id, "abort", NewRow("aborted", version))
      /\ UNCHANGED <<inbox, turn_inputs, fwd, sent, sr, rt, run, snapshots, nextId, storeKind, failures>>
  BY DEF Abort, BackgroundUnchanged, client, queue, storeVars
<1>2. fin # "none" /\ Detached /\ Called("run") /\ out.id = call["run"].id
  BY <1>1 DEF IInv, CallsInOrder, Detached
<1>3. out.id \in Ids
  BY <1>2, CallFacts DEF Called, Tasks, NoCall, Calls
<1>4. NewRow("aborted", version) \in WrittenRows
  BY TypeFacts DEF NewRow, WrittenRows, Statuses, TERMINAL_STATUSES
<1>5. /\ call'["abort"] = [phase |-> "issued", id |-> out.id, mutator |-> "abort", row |-> NewRow("aborted", version)]
      /\ \A u \in Tasks \ {"abort"} : call'[u] = call[u]
      /\ running' = (IF StoreYields THEN Idle ELSE "abort")
  BY <1>1, IssueFacts DEF IInv, TypeOK, StoreTypeOK, Tasks
<1>6. StoreTypeOK' /\ \A u \in Tasks : Called(u)' => call'[u].id < nextId
  BY <1>1, <1>2, <1>3, <1>4, BackgroundCall
<1> QED
  BY <1>1, <1>2, <1>5, <1>6

\* An abort keeps an id for every input.
LEMMA Abort_IdsSuffice ==
  ASSUME IInv, Abort PROVE IdsSuffice'
  BY AbortFacts DEF IInv, IdsSuffice

\* The finalizer keeps the types of the store's state.
LEMMA Finalize_StoreTypeOK ==
  ASSUME IInv, Finalize PROVE StoreTypeOK'
  BY FinalizeFacts

\* A heartbeat keeps the types of the store's state.
LEMMA Beat_StoreTypeOK ==
  ASSUME IInv, Beat PROVE StoreTypeOK'
  BY BeatFacts

\* An abort keeps the types of the store's state.
LEMMA Abort_StoreTypeOK ==
  ASSUME IInv, Abort PROVE StoreTypeOK'
  BY AbortFacts

\* A detach without a store keeps an id for every input.
LEMMA RunDetachNoStore_IdsSuffice ==
  ASSUME IInv, RunDetachNoStore PROVE IdsSuffice'
<1>1. /\ run = "waiting" /\ run' = "draining" /\ rt'.last_snapshot = rt.last_snapshot
      /\ UNCHANGED <<inbox, turn_inputs, fwd, sent, sr, nextId, snapshots, call>>
  BY DEF RunDetachNoStore, RunUnchanged, client, storeVars, IInv, TypeOK, RunTypeOK
<1>2. /\ Len(inbox) \in Nat /\ Len(turn_inputs) \in Nat /\ nextId \in Nat /\ sent \in Int
  BY TypeFacts
<1>3. nextId' + Len(inbox') + Len(turn_inputs') + (IF fwd'.at = "putting" THEN 1 ELSE 0)
            + (IF run' = "waiting" THEN 1 ELSE 0) <= sent' + 3
  BY <1>1, <1>2 DEF IInv, IdsSuffice
<1> QED
  BY <1>1, <1>3 DEF IInv, IdsSuffice, Called, Absent

\* The detach signal keeps the types of run()'s state.
LEMMA FwdSignal_RunTypeOK ==
  ASSUME IInv, FwdSignal PROVE RunTypeOK'
<1>1. PICK b \in BOOLEAN : rt' = [rt EXCEPT !.detach_future = b]
  BY DEF FwdSignal
<1>2. UNCHANGED <<run, out, fin, beat, watch, abort>>
  BY DEF FwdSignal, FwdUnchanged, background
<1> QED
  BY <1>1, <1>2 DEF IInv, TypeOK, RunTypeOK

\* The end of the watcher keeps the types of run()'s state.
LEMMA WatchEnd_RunTypeOK ==
  ASSUME IInv, WatchEnd PROVE RunTypeOK'
<1>1. PICK b \in BOOLEAN : rt' = [rt EXCEPT !.abort_signal = b]
  BY DEF WatchEnd, IInv, TypeOK, RunTypeOK
<1>2. watch' = "ended" /\ UNCHANGED <<run, out, fin, beat, abort>>
  BY DEF WatchEnd, BackgroundUnchanged
<1> QED
  BY <1>1, <1>2 DEF IInv, TypeOK, RunTypeOK

\* The answer to a detach keeps the types of run()'s state.
LEMMA RunDetached_RunTypeOK ==
  ASSUME IInv, RunDetached PROVE RunTypeOK'
<1>1. call["run"].id \in Ids
  BY CallFacts DEF RunDetached, NoCall, Calls, Tasks
<1>2. /\ rt' = [rt EXCEPT !.detached = TRUE] /\ beat' = [beat EXCEPT !.at = "sleeping"]
      /\ fin' = "waiting" /\ watch' = "starting" /\ abort' = abort
      /\ run' = "returned" /\ out' = [reason |-> "detached", id |-> call["run"].id]
  BY DEF RunDetached, Return
<1> QED
  BY <1>1, <1>2 DEF IInv, TypeOK, RunTypeOK

\* The end of an abort keeps the types of run()'s state.
LEMMA Aborted_RunTypeOK ==
  ASSUME IInv, Aborted PROVE RunTypeOK'
<1>1. /\ abort'.at = "done" /\ abort'.answer \in {"pending", "terminal", "error"}
      /\ abort' = [at |-> abort'.at, answer |-> abort'.answer]
  BY DEF Aborted, Returned
<1>2. UNCHANGED <<rt, run, out, fin, beat, watch>>
  BY DEF Aborted, BackgroundUnchanged
<1> QED
  BY <1>1, <1>2 DEF IInv, TypeOK, RunTypeOK

\* A detach without a store keeps the types of run()'s state.
LEMMA RunDetachNoStore_RunTypeOK ==
  ASSUME IInv, RunDetachNoStore PROVE RunTypeOK'
<1>1. PICK b \in BOOLEAN : rt' = [rt EXCEPT !.abort_signal = b]
  BY DEF RunDetachNoStore, IInv, TypeOK, RunTypeOK
<1>2. run' = "draining" /\ UNCHANGED <<out, fin, beat, watch, abort>>
  BY DEF RunDetachNoStore, RunUnchanged, background
<1> QED
  BY <1>1, <1>2 DEF IInv, TypeOK, RunTypeOK

\* The forwarder signals the detach.
LEMMA FwdSignalStep ==
  ASSUME IInv, FwdSignal PROVE IInv'
<1>1. /\ CanRun("fwd") /\ fwd.at = "signalling" /\ closed' = TRUE /\ running' = Idle
      /\ rt'.detach_future /\ rt'.detached = rt.detached /\ rt'.last_snapshot = rt.last_snapshot
      /\ rt'.last_snapshot_version = rt.last_snapshot_version
      /\ fwd' = [fwd EXCEPT !.at = "done"]
      /\ UNCHANGED <<inbox, inboxClosed, sent, turn_inputs, fn, sr, version, mutations, run, out, err_holder,
                    fin, beat, watch, abort, storeKind, snapshots, failures, call, nextId, told>>
  BY DEF FwdSignal, FwdUnchanged, Full, agent_input_has_payload, client, queue, session, background,
         storeVars, IInv, TypeOK, RunTypeOK
<1>2. StoreTypeOK' /\ CallsInOrder' /\ SavedRows' /\ AbortCommitted' /\ DetachedRow'
      /\ AnswersAreDurable' /\ FailureResumesLastGood' /\ HistoryIsAChain'
  BY <1>1 DEF IInv, TypeOK, StoreTypeOK, CallsInOrder, SavedRows, AbortCommitted, DetachedRow,
         AnswersAreDurable, FailureResumesLastGood, HistoryIsAChain, Called, Detached, HasStore, StoreYields,
         Absent, TellsTheWork, Row, TurnsAddMessages
<1>3. ClientTypeOK'
  BY <1>1 DEF IInv, ClientTypeOK, TypeOK
<1>4. RunnerTypeOK'
  BY <1>1 DEF IInv, RunnerTypeOK, TypeOK
<1>5. RunTypeOK'
  BY FwdSignal_RunTypeOK
<1>6. IdsSuffice'
  BY <1>1 DEF IInv, IdsSuffice, Called, Absent, NoCall, None, Ids, Tasks, FwdSignal, FwdUnchanged, storeVars
<1>7. DetachOrder'
  BY <1>1 DEF IInv, DetachOrder, Detached, Called
<1>8. RunnerIds'
  BY <1>1 DEF IInv, RunnerIds, HasStore, Called
<1>9. SavesKeepTheLoop'
  BY FwdSignal_SavesKeepTheLoop
<1>10. ParentsAreThere'
  BY <1>1 DEF IInv, ParentsAreThere, Called, Absent
<1>11. ToldRowsAreOver'
  BY <1>1 DEF IInv, ToldRowsAreOver, Called
<1>12. AttachedRows'
  BY <1>1 DEF IInv, AttachedRows, Detached, Called, Undisturbed, Absent, HasStore
<1>13. VersionsInOrder'
  BY <1>1 DEF IInv, VersionsInOrder, TurnsAddMessages
<1>14. FailedRowTellsTheTurn'
  BY <1>1 DEF IInv, FailedRowTellsTheTurn, TurnsAddMessages, Detached, Called
<1> QED
  BY <1>2, <1>3, <1>4, <1>5, <1>6, <1>7, <1>8, <1>9, <1>10, <1>11, <1>12, <1>13, <1>14 DEF IInv, TypeOK

\* run() answers a detach.
LEMMA RunDetachedStep ==
  ASSUME IInv, RunDetached PROVE IInv'
<1>1. /\ CanRun("run") /\ run = "pending" /\ call["run"].phase = "saved" /\ run' = "returned" /\ running' = Idle
      /\ rt'.detached /\ rt'.detach_future = rt.detach_future /\ rt'.last_snapshot = rt.last_snapshot
      /\ rt'.last_snapshot_version = rt.last_snapshot_version
      /\ fin' = "waiting" /\ watch' = "starting"
      /\ beat' = [beat EXCEPT !.at = "sleeping"] /\ out' = [reason |-> "detached", id |-> call["run"].id]
      /\ UNCHANGED <<inbox, inboxClosed, sent, turn_inputs, closed, fwd, fn, sr, version, mutations,
                    err_holder, abort, storeKind, snapshots, failures, call, nextId, told>>
  BY DEF RunDetached, RunUnchanged, Return, client, queue, session, background, storeVars, IInv, TypeOK,
         RunTypeOK
<1>2. ClientTypeOK' /\ StoreTypeOK' /\ AbortCommitted' /\ HistoryIsAChain'
  BY <1>1 DEF IInv, TypeOK, ClientTypeOK, StoreTypeOK, AbortCommitted, HistoryIsAChain, Absent
<1>3. RunnerTypeOK'
  BY <1>1 DEF IInv, RunnerTypeOK, TypeOK
<1>4. RunTypeOK'
  BY RunDetached_RunTypeOK
<1>5. IdsSuffice'
  BY <1>1 DEF IInv, IdsSuffice, Called, Absent
<1>6. DetachOrder'
  BY <1>1 DEF IInv, DetachOrder, Detached, Called
<1>7. RunnerIds'
  BY <1>1 DEF IInv, RunnerIds, HasStore, Called
<1>8. CallsInOrder'
  BY <1>1 DEF IInv, CallsInOrder, Called, Detached, HasStore, TypeOK, RunTypeOK
<1>9. SavesKeepTheLoop'
  BY <1>1 DEF IInv, SavesKeepTheLoop, StoreYields, TypeOK, RunTypeOK
<1>10. ParentsAreThere'
  BY <1>1 DEF IInv, ParentsAreThere, Called, Absent
<1>11. ToldRowsAreOver'
  BY <1>1 DEF IInv, ToldRowsAreOver, Called
<1>12. SavedRows'
  BY <1>1 DEF IInv, SavedRows
<1>13. AttachedRows'
  BY <1>1 DEF IInv, AttachedRows, Detached, Called, Undisturbed, Absent, HasStore
<1>14. VersionsInOrder'
  BY <1>1 DEF IInv, VersionsInOrder, TurnsAddMessages
<1>15. FailedRowTellsTheTurn'
  BY <1>1 DEF IInv, FailedRowTellsTheTurn, TurnsAddMessages, Detached, Called
<1>16. DetachedRow'
  BY <1>1 DEF IInv, DetachedRow, StoreYields, Absent, TellsTheWork
<1>17. AnswersAreDurable'
  BY <1>1 DEF IInv, AnswersAreDurable, HasStore, Row, TurnsAddMessages
<1>18. FailureResumesLastGood'
  BY <1>1 DEF IInv, FailureResumesLastGood, Row, TurnsAddMessages
<1> QED
  BY <1>2, <1>3, <1>4, <1>5, <1>6, <1>7, <1>8, <1>9, <1>10, <1>11, <1>12, <1>13, <1>14, <1>15, <1>16, <1>17,
     <1>18 DEF IInv, TypeOK

\* A detach without a store.
LEMMA RunDetachNoStoreStep ==
  ASSUME IInv, RunDetachNoStore PROVE IInv'
<1>1. /\ CanRun("run") /\ run = "waiting" /\ rt.detach_future /\ ~HasStore /\ run' = "draining" /\ running' = Idle
      /\ rt'.detached = rt.detached /\ rt'.detach_future = rt.detach_future
      /\ rt'.last_snapshot = rt.last_snapshot /\ rt'.last_snapshot_version = rt.last_snapshot_version
      /\ UNCHANGED <<inbox, inboxClosed, sent, turn_inputs, closed, fwd, fn, sr, version, mutations, out,
                    err_holder, fin, beat, watch, abort, storeKind, snapshots, failures, call, nextId, told>>
  BY DEF RunDetachNoStore, RunUnchanged, Return, client, queue, session, background, storeVars, IInv,
     TypeOK,
         RunTypeOK
<1>2. ClientTypeOK' /\ StoreTypeOK' /\ AbortCommitted' /\ HistoryIsAChain'
  BY <1>1 DEF IInv, TypeOK, ClientTypeOK, StoreTypeOK, AbortCommitted, HistoryIsAChain, Absent
<1>3. RunnerTypeOK'
  BY <1>1 DEF IInv, RunnerTypeOK, TypeOK
<1>4. RunTypeOK'
  BY RunDetachNoStore_RunTypeOK
<1>5. IdsSuffice'
  BY RunDetachNoStore_IdsSuffice
<1>6. DetachOrder'
  BY <1>1 DEF IInv, DetachOrder, Detached, Called
<1>7. RunnerIds'
  BY <1>1 DEF IInv, RunnerIds, HasStore, Called
<1>8. CallsInOrder'
  BY <1>1 DEF IInv, CallsInOrder, Called, Detached, HasStore
<1>9. SavesKeepTheLoop'
  BY <1>1 DEF IInv, SavesKeepTheLoop, StoreYields, Detached, Called, CanRun, CallsInOrder, DetachOrder,
         NoCall, Idle
<1>10. ParentsAreThere'
  BY <1>1 DEF IInv, ParentsAreThere, Called, Absent
<1>11. ToldRowsAreOver'
  BY <1>1 DEF IInv, ToldRowsAreOver, Called
<1>12. SavedRows'
  BY <1>1 DEF IInv, SavedRows
<1>13. AttachedRows'
  BY <1>1 DEF IInv, AttachedRows, Detached, Called, Undisturbed, Absent, HasStore
<1>14. VersionsInOrder'
  BY <1>1 DEF IInv, VersionsInOrder, TurnsAddMessages
<1>15. FailedRowTellsTheTurn'
  BY <1>1 DEF IInv, FailedRowTellsTheTurn, TurnsAddMessages, Detached, Called
<1>16. DetachedRow'
  BY <1>1 DEF IInv, DetachedRow, StoreYields, Absent, TellsTheWork
<1>17. AnswersAreDurable'
  BY <1>1 DEF IInv, AnswersAreDurable, HasStore, Row, TurnsAddMessages
<1>18. FailureResumesLastGood'
  BY <1>1 DEF IInv, FailureResumesLastGood, Row, TurnsAddMessages
<1> QED
  BY <1>2, <1>3, <1>4, <1>5, <1>6, <1>7, <1>8, <1>9, <1>10, <1>11, <1>12, <1>13, <1>14, <1>15, <1>16, <1>17,
     <1>18 DEF IInv, TypeOK

\* run() raises once the turns are drained.
LEMMA RunDrainedStep ==
  ASSUME IInv, RunDrained PROVE IInv'
<1>1. /\ CanRun("run") /\ run = "draining" /\ fn = "done" /\ fwd.at = "done" /\ run' = "raised" /\ running' = Idle
      /\ UNCHANGED <<inbox, inboxClosed, sent, turn_inputs, closed, fwd, fn, sr, version, mutations, rt, out,
                    err_holder, fin, beat, watch, abort, storeKind, snapshots, failures, call, nextId, told>>
  BY DEF RunDrained, RunUnchanged, Return, client, queue, session, background, storeVars
<1>2. ClientTypeOK' /\ StoreTypeOK' /\ ParentsAreThere' /\ ToldRowsAreOver' /\ VersionsInOrder'
      /\ FailedRowTellsTheTurn' /\ AbortCommitted' /\ HistoryIsAChain'
  BY <1>1 DEF IInv, TypeOK, ClientTypeOK, StoreTypeOK, ParentsAreThere, ToldRowsAreOver, VersionsInOrder,
         FailedRowTellsTheTurn, AbortCommitted, HistoryIsAChain, Called, Absent, TurnsAddMessages, Detached
<1>3. RunnerTypeOK'
  BY <1>1 DEF IInv, RunnerTypeOK, TypeOK
<1>4. RunTypeOK'
  BY <1>1 DEF IInv, RunTypeOK, TypeOK
<1>5. IdsSuffice'
  BY <1>1 DEF IInv, IdsSuffice, Called, Absent
<1>6. DetachOrder'
  BY <1>1 DEF IInv, DetachOrder, Detached, Called
<1>7. RunnerIds'
  BY <1>1 DEF IInv, RunnerIds, HasStore, Called
<1>8. CallsInOrder'
  BY <1>1 DEF IInv, CallsInOrder, Called, Detached, HasStore
<1>9. SavesKeepTheLoop'
  BY <1>1 DEF IInv, SavesKeepTheLoop, StoreYields, Detached, Called, CanRun, CallsInOrder, DetachOrder,
         NoCall, Idle
<1>10. SavedRows'
  BY <1>1 DEF IInv, SavedRows
<1>11. AttachedRows'
  BY <1>1 DEF IInv, AttachedRows, Detached, Called, Undisturbed, Absent, HasStore
<1>12. DetachedRow'
  BY <1>1 DEF IInv, DetachedRow, StoreYields, Absent, TellsTheWork
<1>13. AnswersAreDurable'
  BY <1>1 DEF IInv, AnswersAreDurable, HasStore, Row, TurnsAddMessages
<1>14. FailureResumesLastGood'
  BY <1>1 DEF IInv, FailureResumesLastGood, Row, TurnsAddMessages
<1> QED
  BY <1>2, <1>3, <1>4, <1>5, <1>6, <1>7, <1>8, <1>9, <1>10, <1>11, <1>12, <1>13, <1>14 DEF IInv, TypeOK

\* A save of run() raised, and so does run().
LEMMA RunSaveRaisedStep ==
  ASSUME IInv, RunSaveRaised PROVE IInv'
<1>1. /\ CanRun("run") /\ run \in {"pending", "recovering", "finishing"} /\ call["run"].phase = "raised"
      /\ run' = "raised" /\ running' = Idle
      /\ UNCHANGED <<inbox, inboxClosed, sent, turn_inputs, closed, fwd, fn, sr, version, mutations, rt, out,
                    err_holder, fin, beat, watch, abort, storeKind, snapshots, failures, call, nextId, told>>
  BY DEF RunSaveRaised, RunUnchanged, Return, client, queue, session, background, storeVars
<1>2. ClientTypeOK' /\ StoreTypeOK' /\ ParentsAreThere' /\ ToldRowsAreOver' /\ VersionsInOrder'
      /\ FailedRowTellsTheTurn' /\ AbortCommitted' /\ HistoryIsAChain'
  BY <1>1 DEF IInv, TypeOK, ClientTypeOK, StoreTypeOK, ParentsAreThere, ToldRowsAreOver, VersionsInOrder,
         FailedRowTellsTheTurn, AbortCommitted, HistoryIsAChain, Called, Absent, TurnsAddMessages, Detached
<1>3. RunnerTypeOK'
  BY <1>1 DEF IInv, RunnerTypeOK, TypeOK
<1>4. RunTypeOK'
  BY <1>1 DEF IInv, RunTypeOK, TypeOK
<1>5. IdsSuffice'
  BY <1>1 DEF IInv, IdsSuffice, Called, Absent
<1>6. DetachOrder'
  BY <1>1 DEF IInv, DetachOrder, Detached, Called
<1>7. RunnerIds'
  BY <1>1 DEF IInv, RunnerIds, HasStore, Called
<1>8. CallsInOrder'
  BY <1>1 DEF IInv, CallsInOrder, Called, Detached, HasStore
<1>9. SavesKeepTheLoop'
  BY <1>1 DEF IInv, SavesKeepTheLoop, StoreYields, Detached, Called, CanRun
<1>10. SavedRows'
  BY <1>1 DEF IInv, SavedRows
<1>11. AttachedRows'
  BY <1>1 DEF IInv, AttachedRows, Detached, Called, Undisturbed, Absent, HasStore
<1>12. DetachedRow'
  BY <1>1 DEF IInv, DetachedRow, StoreYields, Absent, TellsTheWork
<1>13. AnswersAreDurable'
  BY <1>1 DEF IInv, AnswersAreDurable, HasStore, Row, TurnsAddMessages
<1>14. FailureResumesLastGood'
  BY <1>1 DEF IInv, FailureResumesLastGood, Row, TurnsAddMessages
<1> QED
  BY <1>2, <1>3, <1>4, <1>5, <1>6, <1>7, <1>8, <1>9, <1>10, <1>11, <1>12, <1>13, <1>14 DEF IInv, TypeOK

\* The finalizer saves the outcome over the pending row.
LEMMA FinalizeStep ==
  ASSUME IInv, Finalize PROVE IInv'
<1>1. /\ UNCHANGED <<inbox, inboxClosed, sent, turn_inputs, closed, fwd, fn, sr, version, mutations, rt, run,
                    out, err_holder, watch, abort, storeKind, snapshots, failures, nextId, told>>
  BY DEF Finalize, BackgroundUnchanged, client, queue, session, background, storeVars
<1>2. ClientTypeOK' /\ VersionsInOrder' /\ AnswersAreDurable' /\ FailureResumesLastGood'
      /\ HistoryIsAChain'
  BY <1>1 DEF IInv, TypeOK, ClientTypeOK, VersionsInOrder, AnswersAreDurable, FailureResumesLastGood,
         HistoryIsAChain, TurnsAddMessages, HasStore, Row, Absent
<1>3. RunnerTypeOK'
  BY <1>1, FinalizeFacts DEF IInv, RunnerTypeOK, TypeOK, IdsSuffice, Ids, Reasons, Tasks, NoCall,
     Idle, None,
         Calls
<1>4. RunTypeOK'
  BY Finalize_RunTypeOK
<1>5. StoreTypeOK'
  BY Finalize_StoreTypeOK
<1>6. IdsSuffice'
  BY Finalize_IdsSuffice
<1>7. DetachOrder'
  BY <1>1, FinalizeFacts DEF IInv, DetachOrder, Detached, Called
<1>8. RunnerIds'
  BY <1>1, FinalizeFacts DEF IInv, RunnerIds, HasStore, Called
<1>9. CallsInOrder'
  BY <1>1 DEF IInv, CallsInOrder, Called, Detached, HasStore, DetachOrder, RunnerIds, NoCall, None, Tasks,
         TypeOK, StoreTypeOK, Finalize, Issue
<1>10. SavesKeepTheLoop'
  BY <1>1, FinalizeFacts DEF IInv, SavesKeepTheLoop, StoreYields, CanRun, Idle, Tasks, TypeOK, RunTypeOK
<1>11. ParentsAreThere'
  BY Finalize_ParentsAreThere
<1>12. ToldRowsAreOver'
  BY <1>1, FinalizeFacts DEF IInv, ToldRowsAreOver, Called, Tasks
<1>13. SavedRows'
  BY <1>1, FinalizeFacts DEF IInv, SavedRows, CallsInOrder, RunnerIds, Called, Detached, NewRow, NoCall
<1>14. AttachedRows'
  BY <1>1 DEF IInv, AttachedRows, Detached, Called, Undisturbed, Absent, HasStore, IdsSuffice, DetachOrder,
         RunnerIds, CallsInOrder, SavedRows, NoCall, NewRow, None, Tasks, Ids, Finalize, Issue
<1>15. FailedRowTellsTheTurn'
  BY <1>1, FinalizeFacts DEF IInv, FailedRowTellsTheTurn, Detached, Called, Tasks
<1>16. AbortCommitted'
  BY <1>1, FinalizeFacts DEF IInv, AbortCommitted, Tasks
<1>17. DetachedRow'
  BY Finalize_DetachedRow
<1> QED
  BY <1>2, <1>3, <1>4, <1>5, <1>6, <1>7, <1>8, <1>9, <1>10, <1>11, <1>12, <1>13, <1>14, <1>15, <1>16,
     <1>17 DEF IInv, TypeOK

\* The finalizer ends.
LEMMA FinalizedStep ==
  ASSUME IInv, Finalized PROVE IInv'
<1>1. /\ CanRun("fin") /\ fin = "saving" /\ Returned("fin") /\ fin' = "done" /\ running' = Idle
      /\ UNCHANGED <<inbox, inboxClosed, sent, turn_inputs, closed, fwd, fn, sr, version, mutations, rt, run,
                    out, err_holder, beat, watch, abort, storeKind, snapshots, failures, call, nextId, told>>
  BY DEF Finalized, BackgroundUnchanged, client, queue, session, background, storeVars
<1>2. ClientTypeOK' /\ StoreTypeOK' /\ IdsSuffice' /\ DetachOrder' /\ RunnerIds' /\ ParentsAreThere'
      /\ ToldRowsAreOver' /\ SavedRows' /\ AttachedRows' /\ VersionsInOrder' /\ FailedRowTellsTheTurn'
      /\ AbortCommitted' /\ AnswersAreDurable' /\ FailureResumesLastGood' /\ HistoryIsAChain'
  BY <1>1 DEF IInv, TypeOK, ClientTypeOK, StoreTypeOK, IdsSuffice, DetachOrder, RunnerIds, ParentsAreThere,
         ToldRowsAreOver, SavedRows, AttachedRows, VersionsInOrder, FailedRowTellsTheTurn, AbortCommitted,
         AnswersAreDurable, FailureResumesLastGood, HistoryIsAChain, Called, Absent, Detached, HasStore,
         Undisturbed, TurnsAddMessages, Row
<1>3. RunnerTypeOK'
  BY <1>1 DEF IInv, RunnerTypeOK, TypeOK
<1>4. RunTypeOK'
  BY <1>1 DEF IInv, RunTypeOK, TypeOK
<1>5. CallsInOrder'
  BY <1>1 DEF IInv, CallsInOrder, Called, Detached, HasStore, Returned
<1>6. SavesKeepTheLoop'
  BY <1>1 DEF IInv, SavesKeepTheLoop, StoreYields, Detached, Called, CanRun, Returned
<1>7. DetachedRow'
  BY <1>1 DEF IInv, DetachedRow, StoreYields, Absent, TellsTheWork, Returned
<1> QED
  BY <1>2, <1>3, <1>4, <1>5, <1>6, <1>7 DEF IInv, TypeOK

\* A heartbeat.
LEMMA BeatStep ==
  ASSUME IInv, Beat PROVE IInv'
<1>1. /\ CanRun("beat") /\ beat.at = "sleeping" /\ beat' = [at |-> "saving", count |-> beat.count + 1]
      /\ UNCHANGED <<inbox, inboxClosed, sent, turn_inputs, closed, fwd, fn, sr, version, mutations, rt, run,
                    out, err_holder, fin, watch, abort, storeKind, snapshots, failures, nextId, told>>
  BY DEF Beat, BackgroundUnchanged, client, queue, session, background, storeVars
<1>2. ClientTypeOK' /\ VersionsInOrder' /\ AnswersAreDurable' /\ FailureResumesLastGood'
      /\ HistoryIsAChain'
  BY <1>1 DEF IInv, TypeOK, ClientTypeOK, VersionsInOrder, AnswersAreDurable, FailureResumesLastGood,
         HistoryIsAChain, TurnsAddMessages, HasStore, Row, Absent
<1>3. RunnerTypeOK'
  BY <1>1, BeatFacts DEF IInv, RunnerTypeOK, TypeOK, IdsSuffice, Ids, Reasons, Tasks, NoCall, Idle, None,
         Calls
<1>4. RunTypeOK'
  BY Beat_RunTypeOK
<1>5. StoreTypeOK'
  BY Beat_StoreTypeOK
<1>6. IdsSuffice'
  BY Beat_IdsSuffice
<1>7. DetachOrder'
  BY <1>1, BeatFacts DEF IInv, DetachOrder, Detached, Called, Tasks
<1>8. RunnerIds'
  BY <1>1, BeatFacts DEF IInv, RunnerIds, HasStore, Called, Tasks
<1>9. CallsInOrder'
  BY <1>1, BeatFacts DEF IInv, CallsInOrder, Called, Detached, HasStore, DetachOrder, RunnerIds,
     NoCall, None,
         Tasks
<1>10. SavesKeepTheLoop'
  BY <1>1, BeatFacts DEF IInv, SavesKeepTheLoop, StoreYields, Detached, Called, CanRun, CallsInOrder,
         DetachOrder, NoCall, Idle, Tasks
<1>11. ParentsAreThere'
  BY <1>1, BeatFacts DEF IInv, ParentsAreThere, Called, Absent
<1>12. ToldRowsAreOver'
  BY <1>1, BeatFacts DEF IInv, ToldRowsAreOver, Called, Tasks
<1>13. SavedRows'
  BY <1>1, BeatFacts DEF IInv, SavedRows, Tasks
<1>14. AttachedRows'
  BY <1>1, BeatFacts DEF IInv, AttachedRows, Detached, Called, Undisturbed, Absent, HasStore, IdsSuffice,
         DetachOrder, RunnerIds, CallsInOrder, SavedRows, NoCall, NewRow, None, Tasks, Ids
<1>15. FailedRowTellsTheTurn'
  BY <1>1, BeatFacts DEF IInv, FailedRowTellsTheTurn, Detached, Called, Tasks
<1>16. AbortCommitted'
  BY <1>1, BeatFacts DEF IInv, AbortCommitted, Tasks
<1>17. DetachedRow'
  BY <1>1, BeatFacts DEF IInv, DetachedRow, StoreYields, Absent, TellsTheWork, Tasks
<1> QED
  BY <1>2, <1>3, <1>4, <1>5, <1>6, <1>7, <1>8, <1>9, <1>10, <1>11, <1>12, <1>13, <1>14, <1>15, <1>16,
     <1>17 DEF IInv, TypeOK

\* A heartbeat is over.
LEMMA BeatenStep ==
  ASSUME IInv, Beaten PROVE IInv'
<1>1. /\ CanRun("beat") /\ beat.at = "saving" /\ Returned("beat") /\ running' = Idle
      /\ beat' = [beat EXCEPT !.at = "sleeping"]
      /\ UNCHANGED <<inbox, inboxClosed, sent, turn_inputs, closed, fwd, fn, sr, version, mutations, rt, run,
                    out, err_holder, fin, watch, abort, storeKind, snapshots, failures, call, nextId, told>>
  BY DEF Beaten, BackgroundUnchanged, client, queue, session, background, storeVars
<1>2. ClientTypeOK' /\ StoreTypeOK' /\ IdsSuffice' /\ DetachOrder' /\ RunnerIds' /\ ParentsAreThere'
      /\ ToldRowsAreOver' /\ SavedRows' /\ AttachedRows' /\ VersionsInOrder' /\ FailedRowTellsTheTurn'
      /\ AbortCommitted' /\ DetachedRow' /\ AnswersAreDurable' /\ FailureResumesLastGood'
      /\ HistoryIsAChain'
  BY <1>1 DEF IInv, TypeOK, ClientTypeOK, StoreTypeOK, IdsSuffice, DetachOrder, RunnerIds, ParentsAreThere,
         ToldRowsAreOver, SavedRows, AttachedRows, VersionsInOrder, FailedRowTellsTheTurn, AbortCommitted,
         DetachedRow, AnswersAreDurable, FailureResumesLastGood, HistoryIsAChain, Called, Absent, Detached,
         HasStore, Undisturbed, TurnsAddMessages, StoreYields, TellsTheWork, Row
<1>3. RunnerTypeOK'
  BY <1>1 DEF IInv, RunnerTypeOK, TypeOK
<1>4. RunTypeOK'
  BY <1>1 DEF IInv, RunTypeOK, TypeOK
<1>5. CallsInOrder'
  BY <1>1 DEF IInv, CallsInOrder, Called, Detached, HasStore, TypeOK, RunTypeOK
<1>6. SavesKeepTheLoop'
  BY <1>1 DEF IInv, SavesKeepTheLoop, StoreYields, Returned, TypeOK, RunTypeOK
<1> QED
  BY <1>2, <1>3, <1>4, <1>5, <1>6 DEF IInv, TypeOK

\* The abort watcher subscribes.
LEMMA WatchStartStep ==
  ASSUME IInv, WatchStart PROVE IInv'
<1>1. /\ CanRun("watch") /\ watch = "starting" /\ watch' = "open" /\ running' = Idle
      /\ UNCHANGED <<inbox, inboxClosed, sent, turn_inputs, closed, fwd, fn, sr, version, mutations, rt, run,
                    out, err_holder, fin, beat, abort, storeKind, snapshots, failures, call, nextId, told>>
  BY DEF WatchStart, BackgroundUnchanged, client, queue, session, background, storeVars
<1>2. ClientTypeOK' /\ StoreTypeOK' /\ IdsSuffice' /\ DetachOrder' /\ RunnerIds' /\ ParentsAreThere'
      /\ ToldRowsAreOver' /\ SavedRows' /\ AttachedRows' /\ VersionsInOrder' /\ FailedRowTellsTheTurn'
      /\ AbortCommitted' /\ DetachedRow' /\ AnswersAreDurable' /\ FailureResumesLastGood'
      /\ HistoryIsAChain'
  BY <1>1 DEF IInv, TypeOK, ClientTypeOK, StoreTypeOK, IdsSuffice, DetachOrder, RunnerIds, ParentsAreThere,
         ToldRowsAreOver, SavedRows, AttachedRows, VersionsInOrder, FailedRowTellsTheTurn, AbortCommitted,
         DetachedRow, AnswersAreDurable, FailureResumesLastGood, HistoryIsAChain, Called, Absent, Detached,
         HasStore, Undisturbed, TurnsAddMessages, StoreYields, TellsTheWork, Row
<1>3. RunnerTypeOK'
  BY <1>1 DEF IInv, RunnerTypeOK, TypeOK
<1>4. RunTypeOK'
  BY <1>1 DEF IInv, RunTypeOK, TypeOK
<1>5. CallsInOrder'
  BY <1>1 DEF IInv, CallsInOrder, Called, Detached, HasStore
<1>6. SavesKeepTheLoop'
  BY WatchStart_SavesKeepTheLoop
<1> QED
  BY <1>2, <1>3, <1>4, <1>5, <1>6 DEF IInv, TypeOK

\* The abort watcher has seen the row settle.
LEMMA WatchEndStep ==
  ASSUME IInv, WatchEnd PROVE IInv'
<1>1. /\ CanRun("watch") /\ watch = "open" /\ watch' = "ended" /\ running' = Idle
      /\ rt'.detached = rt.detached /\ rt'.detach_future = rt.detach_future
      /\ rt'.last_snapshot = rt.last_snapshot /\ rt'.last_snapshot_version = rt.last_snapshot_version
      /\ UNCHANGED <<inbox, inboxClosed, sent, turn_inputs, closed, fwd, fn, sr, version, mutations, run, out,
                    err_holder, fin, beat, abort, storeKind, snapshots, failures, call, nextId, told>>
  BY DEF WatchEnd, BackgroundUnchanged, client, queue, session, background, storeVars, IInv, TypeOK,
     RunTypeOK
<1>2. ClientTypeOK' /\ StoreTypeOK' /\ SavedRows' /\ AbortCommitted' /\ DetachedRow'
      /\ AnswersAreDurable' /\ FailureResumesLastGood' /\ HistoryIsAChain'
  BY <1>1 DEF IInv, TypeOK, ClientTypeOK, StoreTypeOK, SavedRows, AbortCommitted, DetachedRow,
         AnswersAreDurable, FailureResumesLastGood, HistoryIsAChain, StoreYields, Absent, TellsTheWork,
         HasStore, Row, TurnsAddMessages
<1>3. RunnerTypeOK'
  BY <1>1 DEF IInv, RunnerTypeOK, TypeOK
<1>4. RunTypeOK'
  BY WatchEnd_RunTypeOK
<1>5. IdsSuffice'
  BY <1>1 DEF IInv, IdsSuffice, Called, Absent
<1>6. DetachOrder'
  BY <1>1 DEF IInv, DetachOrder, Detached, Called
<1>7. RunnerIds'
  BY <1>1 DEF IInv, RunnerIds, HasStore, Called
<1>8. CallsInOrder'
  BY <1>1 DEF IInv, CallsInOrder, Called, Detached, HasStore
<1>9. SavesKeepTheLoop'
  BY WatchEnd_SavesKeepTheLoop
<1>10. ParentsAreThere'
  BY <1>1 DEF IInv, ParentsAreThere, Called, Absent
<1>11. ToldRowsAreOver'
  BY <1>1 DEF IInv, ToldRowsAreOver, Called
<1>12. AttachedRows'
  BY <1>1 DEF IInv, AttachedRows, Detached, Called, Undisturbed, Absent, HasStore
<1>13. VersionsInOrder'
  BY <1>1 DEF IInv, VersionsInOrder, TurnsAddMessages
<1>14. FailedRowTellsTheTurn'
  BY <1>1 DEF IInv, FailedRowTellsTheTurn, TurnsAddMessages, Detached, Called
<1> QED
  BY <1>2, <1>3, <1>4, <1>5, <1>6, <1>7, <1>8, <1>9, <1>10, <1>11, <1>12, <1>13, <1>14 DEF IInv, TypeOK

\* Another request aborts the row.
LEMMA AbortStep ==
  ASSUME IInv, Abort PROVE IInv'
<1>1. /\ CanRun("abort") /\ abort.at = "idle" /\ out.reason = "detached" /\ abort' = [at |-> "saving", answer |-> "none"]
      /\ UNCHANGED <<inbox, inboxClosed, sent, turn_inputs, closed, fwd, fn, sr, version, mutations, rt, run,
                    out, err_holder, fin, beat, watch, storeKind, snapshots, failures, nextId, told>>
  BY DEF Abort, BackgroundUnchanged, client, queue, session, background, storeVars
<1>2. ClientTypeOK' /\ VersionsInOrder' /\ AnswersAreDurable' /\ FailureResumesLastGood'
      /\ HistoryIsAChain'
  BY <1>1 DEF IInv, TypeOK, ClientTypeOK, VersionsInOrder, AnswersAreDurable, FailureResumesLastGood,
         HistoryIsAChain, TurnsAddMessages, HasStore, Row, Absent
<1>3. RunnerTypeOK'
  BY <1>1, AbortFacts DEF IInv, RunnerTypeOK, TypeOK, IdsSuffice, Ids, Reasons, Tasks, NoCall, Idle, None,
         Calls
<1>4. RunTypeOK'
  BY <1>1, AbortFacts DEF IInv, RunTypeOK, TypeOK
<1>5. StoreTypeOK'
  BY Abort_StoreTypeOK
<1>6. IdsSuffice'
  BY Abort_IdsSuffice
<1>7. DetachOrder'
  BY <1>1, AbortFacts DEF IInv, DetachOrder, Detached, Called
<1>8. RunnerIds'
  BY <1>1, AbortFacts DEF IInv, RunnerIds, HasStore, Called, Tasks
<1>9. CallsInOrder'
  BY <1>1, AbortFacts DEF IInv, CallsInOrder, Called, Detached, HasStore, DetachOrder, RunnerIds, NoCall,
         None, Tasks
<1>10. SavesKeepTheLoop'
  BY <1>1, AbortFacts DEF IInv, SavesKeepTheLoop, StoreYields, Detached, Called, CanRun, CallsInOrder,
         DetachOrder, NoCall, Idle, Tasks
<1>11. ParentsAreThere'
  BY <1>1, AbortFacts DEF IInv, ParentsAreThere, Called, Absent
<1>12. ToldRowsAreOver'
  BY <1>1, AbortFacts DEF IInv, ToldRowsAreOver, Called, Tasks
<1>13. SavedRows'
  BY <1>1, AbortFacts DEF IInv, SavedRows, Tasks
<1>14. AttachedRows'
  BY <1>1, AbortFacts DEF IInv, AttachedRows, Detached, Called, Undisturbed, Absent, HasStore, IdsSuffice,
         DetachOrder, RunnerIds, CallsInOrder, SavedRows, NoCall, NewRow, None, Tasks, Ids
<1>15. FailedRowTellsTheTurn'
  BY <1>1, AbortFacts DEF IInv, FailedRowTellsTheTurn, Detached, Called, Tasks
<1>16. AbortCommitted'
  BY <1>1, AbortFacts DEF IInv, AbortCommitted
<1>17. DetachedRow'
  BY <1>1 DEF IInv, DetachedRow, StoreYields, Absent, TellsTheWork, CallsInOrder, DetachOrder,
         SavesKeepTheLoop, RunnerIds, AttachedRows, IdsSuffice, Called, Detached, NoCall, NewRow, CanRun, Ids,
         TypeOK, Abort, BackgroundUnchanged, Issue, storeVars
<1> QED
  BY <1>2, <1>3, <1>4, <1>5, <1>6, <1>7, <1>8, <1>9, <1>10, <1>11, <1>12, <1>13, <1>14, <1>15, <1>16,
     <1>17 DEF IInv, TypeOK

\* The abort answers what its save did.
LEMMA AbortedStep ==
  ASSUME IInv, Aborted PROVE IInv'
<1>1. /\ CanRun("abort") /\ abort.at = "saving" /\ Returned("abort") /\ running' = Idle
      /\ abort' = [at |-> "done", answer |-> CASE call["abort"].phase = "saved" -> "pending"
                                               [] call["abort"].phase = "skipped" -> "terminal"
                                               [] call["abort"].phase = "raised" -> "error"]
      /\ UNCHANGED <<inbox, inboxClosed, sent, turn_inputs, closed, fwd, fn, sr, version, mutations, rt, run,
                    out, err_holder, fin, beat, watch, storeKind, snapshots, failures, call, nextId, told>>
  BY DEF Aborted, BackgroundUnchanged, client, queue, session, background, storeVars
<1>2. ClientTypeOK' /\ StoreTypeOK' /\ IdsSuffice' /\ DetachOrder' /\ RunnerIds' /\ ParentsAreThere'
      /\ ToldRowsAreOver' /\ SavedRows' /\ AttachedRows' /\ VersionsInOrder' /\ FailedRowTellsTheTurn'
      /\ DetachedRow' /\ AnswersAreDurable' /\ FailureResumesLastGood' /\ HistoryIsAChain'
  BY <1>1 DEF IInv, TypeOK, ClientTypeOK, StoreTypeOK, IdsSuffice, DetachOrder, RunnerIds, ParentsAreThere,
         ToldRowsAreOver, SavedRows, AttachedRows, VersionsInOrder, FailedRowTellsTheTurn, DetachedRow,
         AnswersAreDurable, FailureResumesLastGood, HistoryIsAChain, Called, Absent, Detached, HasStore,
         Undisturbed, TurnsAddMessages, StoreYields, TellsTheWork, Row
<1>3. RunnerTypeOK'
  BY <1>1 DEF IInv, RunnerTypeOK, TypeOK
<1>4. RunTypeOK'
  BY Aborted_RunTypeOK
<1>5. CallsInOrder'
  BY <1>1 DEF IInv, CallsInOrder, Called, Detached, HasStore, Returned
<1>6. SavesKeepTheLoop'
  BY <1>1 DEF IInv, SavesKeepTheLoop, StoreYields, Detached, Called, CanRun, Returned
<1>7. AbortCommitted'
  BY <1>1 DEF IInv, AbortCommitted, Returned
<1> QED
  BY <1>2, <1>3, <1>4, <1>5, <1>6, <1>7 DEF IInv, TypeOK

-----------------------------------------------------------------------------
\* The store commits a call.

\* A commit settles one call and writes one row at most.
LEMMA CommitFacts ==
  ASSUME IInv, NEW t \in Tasks, Commit(t)
  PROVE  /\ call[t] \in Calls /\ Called(t) /\ call[t].phase = "issued" /\ (StoreYields \/ running = t)
         /\ call'[t] \in Calls /\ call'[t].phase \in {"saved", "skipped", "raised"}
         /\ call'[t].id = call[t].id /\ call'[t].mutator = call[t].mutator /\ call'[t].row = call[t].row
         /\ \A u \in Tasks \ {t} : call'[u] = call[u]
         /\ call' \in [Tasks -> {NoCall} \cup Calls]
         /\ snapshots' \in [Ids -> Rows]
         /\ \A id \in Ids \ {call[t].id} : snapshots'[id] = snapshots[id]
         /\ failures' \in Nat /\ failures' >= failures
         /\ call'[t].phase # "saved" => snapshots' = snapshots
         /\ UNCHANGED <<running, inbox, inboxClosed, sent, turn_inputs, closed, fwd, fn, sr, version, mutations, rt,
                        run, out, err_holder, fin, beat, watch, abort, storeKind, nextId, told>>
<1>1. /\ call[t].phase = "issued" /\ (StoreYields \/ running = t)
      /\ UNCHANGED <<running, inbox, inboxClosed, sent, turn_inputs, closed, fwd, fn, sr, version, mutations, rt,
                     run, out, err_holder, fin, beat, watch, abort, storeKind, nextId, told>>
  BY DEF Commit, client, queue, session, background, storeVars
<1>2. call[t] \in Calls /\ Called(t)
  BY <1>1, CallFacts DEF NoCall
<1>3. call \in [Tasks -> {NoCall} \cup Calls] /\ snapshots \in [Ids -> Rows] /\ failures \in Nat
  BY DEF IInv, TypeOK, StoreTypeOK
<1>4. PICK phase \in {"saved", "skipped", "raised"} : call' = [call EXCEPT ![t] = [call[t] EXCEPT !.phase = phase]]
  BY DEF Commit
<1>5. [call[t] EXCEPT !.phase = phase] \in Calls
  BY <1>2 DEF Calls
<1>6. /\ call'[t] \in Calls /\ call'[t].phase = phase
      /\ call'[t].id = call[t].id /\ call'[t].mutator = call[t].mutator /\ call'[t].row = call[t].row
      /\ \A u \in Tasks \ {t} : call'[u] = call[u]
      /\ call' \in [Tasks -> {NoCall} \cup Calls]
  BY <1>2, <1>3, <1>4, <1>5 DEF Calls
<1>7. call[t].id \in Ids /\ \A row \in Produced(call[t]) : row \in Rows
  BY <1>2, <1>3 DEF Calls, Produced, UnlessAborted, abort_if_pending, BeatIfPending, Rows,
     WrittenRows, Statuses,
                    TERMINAL_STATUSES
<1>8. \/ snapshots' = snapshots
      \/ \E row \in Produced(call[t]) : snapshots' = [snapshots EXCEPT ![call[t].id] = row]
  BY DEF Commit, storeVars
<1>9. snapshots' \in [Ids -> Rows] /\ \A id \in Ids \ {call[t].id} : snapshots'[id] = snapshots[id]
  BY <1>3, <1>7, <1>8
<1>10. failures' \in Nat /\ failures' >= failures
  BY <1>3 DEF Commit, storeVars
<1>11. call'[t].phase # "saved" => snapshots' = snapshots
  BY <1>3, <1>2, <1>6 DEF Commit, storeVars, Calls
<1> QED
  BY <1>1, <1>2, <1>6, <1>9, <1>10, <1>11

\* What a commit may make of a row, by the mutator of the call.
LEMMA CommitOutcome ==
  ASSUME IInv, NEW t \in Tasks, Commit(t)
  PROVE  LET c == call[t]
             before == snapshots[c.id]
             after == snapshots'[c.id]
         IN /\ call'[t].phase = "saved" =>
                 /\ c.mutator \in {"pending", "settle"} =>
                      after = c.row /\ (before.status \in TERMINAL_STATUSES => c.row.status = before.status)
                 /\ c.mutator = "settle" => before.status # "aborted"
                 /\ c.mutator = "abort" =>
                      before.status = "pending" /\ after = [before EXCEPT !.status = "aborted"]
                 /\ c.mutator = "beat" =>
                      before.status = "pending" /\ after = [before EXCEPT !.beat = 1]
            /\ call'[t].phase = "skipped" =>
                 /\ c.mutator # "pending"
                 /\ c.mutator = "settle" => before.status = "aborted"
                 /\ c.mutator \in {"abort", "beat"} => before.status # "pending"
            /\ call'[t].phase = "raised" =>
                 \/ failures' > 0
                 \/ /\ before.status \in TERMINAL_STATUSES /\ c.mutator \in {"pending", "settle"}
                    /\ c.mutator = "settle" => before.status # "aborted"
<1> DEFINE c == call[t]
           before == snapshots[c.id]
<1>1. c \in Calls /\ before \in Rows /\ snapshots \in [Ids -> Rows] /\ c.id \in Ids /\ failures \in Nat
  BY CommitFacts DEF Calls, IInv, TypeOK, StoreTypeOK
<1>2. call \in [Tasks -> {NoCall} \cup Calls]
  BY DEF IInv, TypeOK, StoreTypeOK
<1>3. CASE Produced(c) = {} /\ call' = [call EXCEPT ![t] = [c EXCEPT !.phase = "skipped"]]
  <2>1. call'[t].phase = "skipped"
    BY <1>1, <1>2, <1>3 DEF Calls
  <2> QED
    BY <2>1, <1>1, <1>3 DEF Produced, UnlessAborted, abort_if_pending, BeatIfPending, Calls
<1>4. CASE \E row \in Produced(c) : TerminalFlip(before, row) /\ call' = [call EXCEPT ![t] = [c EXCEPT !.phase = "raised"]]
  <2>1. call'[t].phase = "raised"
    BY <1>1, <1>2, <1>4 DEF Calls
  <2> QED
    BY <2>1, <1>1, <1>4 DEF Produced, UnlessAborted, abort_if_pending, BeatIfPending, Calls,
       TerminalFlip, TERMINAL_STATUSES
<1>5. CASE \E row \in Produced(c) : /\ ~TerminalFlip(before, row)
                                    /\ call' = [call EXCEPT ![t] = [c EXCEPT !.phase = "saved"]]
                                    /\ snapshots' = [snapshots EXCEPT ![c.id] = row]
  <2>1. call'[t].phase = "saved"
    BY <1>1, <1>2, <1>5 DEF Calls
  <2>2. PICK row \in Produced(c) : ~TerminalFlip(before, row) /\ snapshots'[c.id] = row
    BY <1>1, <1>5
  <2> QED
    BY <2>1, <2>2, <1>1 DEF Produced, UnlessAborted, abort_if_pending, BeatIfPending, Calls, TerminalFlip
<1>6. CASE failures' = failures + 1 /\ call' = [call EXCEPT ![t] = [c EXCEPT !.phase = "raised"]]
  <2>1. call'[t].phase = "raised" /\ failures' > 0
    BY <1>1, <1>2, <1>6 DEF Calls
  <2> QED
    BY <2>1
<1> QED
  BY <1>3, <1>4, <1>5, <1>6 DEF Commit, storeVars

\* No row goes away, and an aborted one stays aborted.
LEMMA CommitKeepsRows ==
  ASSUME IInv, NEW t \in Tasks, Commit(t)
  PROVE  /\ \A id \in Ids : ~Absent(snapshots[id]) => ~Absent(snapshots'[id])
         /\ call'[t].phase = "saved" => ~Absent(snapshots'[call[t].id])
         /\ snapshots[call[t].id].status = "aborted" /\ call'[t].phase = "saved" =>
              snapshots'[call[t].id].status = "aborted"
<1>1. call[t] \in Calls /\ call[t].row \in WrittenRows
  BY CommitFacts DEF Calls
<1>2. call'[t].phase = "saved" => ~Absent(snapshots'[call[t].id])
  BY <1>1, CommitOutcome, TypeFacts DEF Calls, WrittenRows, Statuses, TERMINAL_STATUSES, Absent, Rows
<1>3. \A id \in Ids : ~Absent(snapshots[id]) => ~Absent(snapshots'[id])
  BY <1>2, CommitFacts DEF Absent
<1>4. snapshots[call[t].id].status = "aborted" /\ call'[t].phase = "saved" =>
        snapshots'[call[t].id].status = "aborted"
  BY <1>1, CommitOutcome DEF Calls, TERMINAL_STATUSES
<1> QED
  BY <1>2, <1>3, <1>4

\* A commit keeps the types.
LEMMA Commit_TypeOK ==
  ASSUME IInv, NEW t \in Tasks, Commit(t) PROVE TypeOK'
<1>1. ClientTypeOK'
  BY CommitFacts DEF IInv, TypeOK, ClientTypeOK
<1>2. RunnerTypeOK'
  BY CommitFacts DEF IInv, TypeOK, RunnerTypeOK, Runners
<1>3. RunTypeOK'
  BY CommitFacts DEF IInv, TypeOK, RunTypeOK
<1>4. StoreTypeOK'
  BY CommitFacts DEF IInv, TypeOK, StoreTypeOK
<1> QED
  BY <1>1, <1>2, <1>3, <1>4 DEF TypeOK

\* A commit keeps an id for every input.
LEMMA Commit_IdsSuffice ==
  ASSUME IInv, NEW t \in Tasks, Commit(t) PROVE IdsSuffice'
<1>1. call[t].id < nextId /\ call[t].id \in Ids /\ nextId \in Nat
  BY CommitFacts, TypeFacts DEF IInv, IdsSuffice, Calls
<1>2. \A id \in Ids : id >= nextId => id # call[t].id
  BY <1>1 DEF Ids
<1>3. \A id \in Ids : id >= nextId => Absent(snapshots'[id])
  BY <1>2, CommitFacts DEF IInv, IdsSuffice, Absent
<1>4. \A u \in Tasks : Called(u)' => call'[u].id < nextId
  BY <1>1, CommitFacts DEF IInv, IdsSuffice, Called
<1> QED
  BY <1>3, <1>4, CommitFacts DEF IInv, IdsSuffice, Absent

\* A commit changes of a call its phase alone.
LEMMA CommitKeepsCalls ==
  ASSUME IInv, NEW t \in Tasks, Commit(t)
  PROVE  /\ \A u \in Tasks : Called(u)' <=> Called(u)
         /\ \A u \in Tasks : call'[u] = NoCall <=> call[u] = NoCall
         /\ \A u \in Tasks : Called(u) =>
              /\ call'[u].id = call[u].id /\ call'[u].mutator = call[u].mutator /\ call'[u].row = call[u].row
              /\ call'[u].phase = "issued" => call[u].phase = "issued" /\ u # t
         /\ Detached' <=> Detached
<1>1. Called(t) /\ Called(t)' /\ call'[t] # NoCall /\ call[t] # NoCall
  BY CommitFacts DEF Called, NoCall, Calls
<1> QED
  BY <1>1, CommitFacts DEF Called, Detached, Tasks

\* A commit keeps the order of a detach.
LEMMA Commit_DetachOrder ==
  ASSUME IInv, NEW t \in Tasks, Commit(t) PROVE DetachOrder'
  BY CommitFacts, CommitKeepsCalls DEF IInv, DetachOrder

\* A commit keeps the ids that the runner holds.
LEMMA Commit_RunnerIds ==
  ASSUME IInv, NEW t \in Tasks, Commit(t) PROVE RunnerIds'
<1>1. "fn" \in Tasks
  BY DEF Tasks
<1> QED
  BY <1>1, CommitFacts, CommitKeepsCalls DEF IInv, RunnerIds, HasStore

\* A commit keeps the calls in order.
LEMMA Commit_CallsInOrder ==
  ASSUME IInv, NEW t \in Tasks, Commit(t) PROVE CallsInOrder'
<1>1. Tasks = {"fwd", "fn", "run", "fin", "beat", "watch", "abort"}
  BY DEF Tasks
<1>2. UNCHANGED <<fn, run, out, fin, beat, watch, abort, storeKind>>
  BY CommitFacts
<1>3. call["run"].phase # "issued" => call'["run"] = call["run"]
  BY CommitFacts DEF Tasks
<1> QED
  BY <1>1, <1>2, <1>3, CommitKeepsCalls DEF IInv, CallsInOrder, HasStore, Called

\* A commit keeps the loop with the task that saves.
LEMMA Commit_SavesKeepTheLoop ==
  ASSUME IInv, NEW t \in Tasks, Commit(t) PROVE SavesKeepTheLoop'
<1>1. \A u \in Tasks : call'[u].phase = "issued" => call[u].phase = "issued"
  BY CommitFacts
<1> QED
  BY <1>1, CommitFacts, CommitKeepsCalls DEF IInv, SavesKeepTheLoop, StoreYields

\* A commit keeps every parent in the store.
LEMMA Commit_ParentsAreThere ==
  ASSUME IInv, NEW t \in Tasks, Commit(t) PROVE ParentsAreThere'
<1>1. rt' = rt /\ rt.last_snapshot \in Ids \cup {None}
  BY CommitFacts, TypeFacts
<1>2. \A u \in Tasks : Called(u) => call[u].id \in Ids /\ call[u].row.parent \in Ids \cup {None}
  BY CallFacts DEF Called, NoCall, Calls, WrittenRows
<1>3. \A id \in Ids : ~Absent(snapshots[id]) => ~Absent(snapshots'[id])
  BY CommitKeepsRows
<1>4. \A u \in Tasks : call'[u].phase = "saved" => ~Absent(snapshots'[call'[u].id])
  <2> SUFFICES ASSUME NEW u \in Tasks, call'[u].phase = "saved" PROVE ~Absent(snapshots'[call'[u].id])
    OBVIOUS
  <2>1. CASE u = t
    BY <2>1, CommitFacts, CommitKeepsRows
  <2>2. CASE u # t
    <3>1. call'[u] = call[u] /\ Called(u)
      BY <2>2, CommitFacts DEF Called
    <3> QED
      BY <3>1, <1>2, <1>3 DEF IInv, ParentsAreThere
  <2> QED
    BY <2>1, <2>2
<1>5. \A u \in Tasks : Called(u) /\ call[u].mutator \in {"pending", "settle"} =>
        /\ call[u].row.parent < call[u].id
        /\ call[u].row.parent # None => ~Absent(snapshots'[call[u].row.parent])
  BY <1>2, <1>3 DEF IInv, ParentsAreThere
<1> QED
  BY <1>1, <1>3, <1>4, <1>5, CommitKeepsCalls DEF IInv, ParentsAreThere, Absent

\* A commit keeps the rows of turnEnd chunks from being written.
LEMMA Commit_ToldRowsAreOver ==
  ASSUME IInv, NEW t \in Tasks, Commit(t) PROVE ToldRowsAreOver'
<1>1. "run" \in Tasks
  BY DEF Tasks
<1> QED
  BY <1>1, CommitFacts, CommitKeepsCalls DEF IInv, ToldRowsAreOver

\* A commit keeps what is saved true to the session.
LEMMA Commit_SavedRows ==
  ASSUME IInv, NEW t \in Tasks, Commit(t) PROVE SavedRows'
<1>1. "run" \in Tasks /\ "fn" \in Tasks
  BY DEF Tasks
<1>2. /\ fn = "saving" => Called("fn")
      /\ run \in {"pending", "recovering", "finishing"} => Called("run")
  BY DEF IInv, RunnerIds, CallsInOrder, Detached
<1> QED
  BY <1>1, <1>2, CommitFacts, CommitKeepsCalls DEF IInv, SavedRows

\* Until a detach, only the runner and run() have calls, and never both.
LEMMA AttachedCaller ==
  ASSUME IInv, ~Detached, NEW t \in Tasks, call[t].phase = "issued"
  PROVE  \/ t = "fn" /\ fn = "saving" /\ run \notin {"recovering", "finishing"}
         \/ t = "run" /\ run \in {"recovering", "finishing"} /\ fn = "done"
<1>1. Called(t) /\ call[t] # NoCall
  BY DEF Called, NoCall
<1>2. fin = "none" /\ beat.at = "none" /\ abort.at = "idle"
  BY DEF IInv, CallsInOrder
<1>3. t \notin {"fin", "beat", "abort", "fwd", "watch"}
  BY <1>1, <1>2 DEF IInv, CallsInOrder
<1>4. CASE t = "fn"
  BY <1>1, <1>4 DEF IInv, CallsInOrder
<1>5. CASE t = "run"
  BY <1>1, <1>5 DEF IInv, CallsInOrder, TypeOK, RunTypeOK
<1> QED
  BY <1>3, <1>4, <1>5 DEF Tasks

\* A commit of an attached run writes a row that was absent.
LEMMA AttachedCommit ==
  ASSUME IInv, ~Detached, NEW t \in Tasks, Commit(t)
  PROVE  /\ Absent(snapshots[call[t].id]) /\ call[t].mutator = "settle"
         /\ call'[t].phase \in {"saved", "raised"}
         /\ call'[t].phase = "saved" => snapshots'[call[t].id] = call[t].row
         /\ rt.last_snapshot # None => snapshots'[rt.last_snapshot] = snapshots[rt.last_snapshot]
<1>1. \/ t = "fn" /\ fn = "saving" /\ run \notin {"recovering", "finishing"}
      \/ t = "run" /\ run \in {"recovering", "finishing"} /\ fn = "done"
  BY AttachedCaller, CommitFacts
<1>2. call[t].mutator = "settle"
  BY <1>1 DEF IInv, RunnerIds, CallsInOrder, Detached
<1>3. Absent(snapshots[call[t].id])
  BY <1>1, CommitFacts DEF IInv, AttachedRows, Undisturbed
<1>4. call'[t].phase \in {"saved", "raised"} /\ (call'[t].phase = "saved" => snapshots'[call[t].id] = call[t].row)
  BY <1>2, <1>3, CommitFacts, CommitOutcome DEF Absent
<1>5. rt.last_snapshot # None => rt.last_snapshot # call[t].id
  BY <1>3 DEF IInv, AttachedRows, Absent
<1> QED
  BY <1>2, <1>3, <1>4, <1>5, CommitFacts, TypeFacts

\* A commit keeps the rows of an attached run undisturbed.
LEMMA Commit_AttachedRows ==
  ASSUME IInv, NEW t \in Tasks, Commit(t) PROVE AttachedRows'
<1> SUFFICES ASSUME ~Detached PROVE AttachedRows'
  BY CommitKeepsCalls DEF AttachedRows
<1>1. \/ t = "fn" /\ fn = "saving" /\ run \notin {"recovering", "finishing"}
      \/ t = "run" /\ run \in {"recovering", "finishing"} /\ fn = "done"
  BY AttachedCaller, CommitFacts
<1>2. UNCHANGED <<fn, run, rt, storeKind, sr>>
  BY CommitFacts
<1>3. Undisturbed(t)'
  BY AttachedCommit, CommitFacts DEF Undisturbed, Absent
<1> QED
  BY <1>1, <1>2, <1>3, AttachedCommit DEF IInv, AttachedRows

\* A commit keeps a failed row telling of a failed turn.
LEMMA Commit_FailedRowTellsTheTurn ==
  ASSUME IInv, NEW t \in Tasks, Commit(t) PROVE FailedRowTellsTheTurn'
  BY AttachedCommit, CommitKeepsCalls, CommitFacts DEF IInv, FailedRowTellsTheTurn, TurnsAddMessages

\* A commit keeps what an abort has answered.
LEMMA Commit_AbortCommitted ==
  ASSUME IInv, NEW t \in Tasks, Commit(t) PROVE AbortCommitted'
<1>1. "abort" \in Tasks /\ abort' = abort
  BY CommitFacts DEF Tasks
<1>2. abort.answer = "pending" => t # "abort"
  BY CommitFacts DEF IInv, AbortCommitted
<1>3. CASE t = "abort"
  <2>1. call[t].mutator = "abort"
    BY <1>3, CommitFacts DEF IInv, CallsInOrder
  <2>2. call'[t].phase = "saved" => snapshots'[call[t].id].status = "aborted"
    <3>1. snapshots[call[t].id] \in Rows
      BY CommitFacts, TypeFacts DEF Calls
    <3> QED
      BY <2>1, <3>1, CommitOutcome DEF Rows
  <2> QED
    BY <1>1, <1>2, <1>3, <2>2, CommitFacts DEF IInv, AbortCommitted
<1>4. CASE t # "abort"
  <2>1. call'["abort"] = call["abort"]
    BY <1>1, <1>4, CommitFacts
  <2>2. call["abort"].phase = "saved" => call["abort"].id \in Ids
    BY <1>1, CallFacts DEF Calls, NoCall
  <2>3. call["abort"].phase = "saved" => snapshots'[call["abort"].id].status = "aborted"
    BY <2>2, CommitFacts, CommitKeepsRows DEF IInv, AbortCommitted
  <2> QED
    BY <1>1, <2>1, <2>3 DEF IInv, AbortCommitted
<1> QED
  BY <1>3, <1>4

\* A commit keeps the answers durable.
LEMMA Commit_AnswersAreDurable ==
  ASSUME IInv, NEW t \in Tasks, Commit(t) PROVE AnswersAreDurable'
<1>1. ~(run = "returned" /\ ~Detached)
  BY AttachedCaller, CommitFacts DEF IInv, CallsInOrder
<1>2. Detached /\ run = "returned" => out.reason = "detached"
  BY DEF IInv, CallsInOrder
<1>3. \A chunk \in told : chunk.id # None => chunk.id # call[t].id
  <2> SUFFICES ASSUME NEW chunk \in told, chunk.id # None, chunk.id = call[t].id PROVE FALSE
    OBVIOUS
  <2>1. chunk.id <= rt.last_snapshot /\ (Called("run") => chunk.id < call["run"].id)
    BY DEF IInv, ToldRowsAreOver
  <2>2. Called(t) /\ call[t].id \in Nat
    BY CommitFacts DEF Calls, Ids
  <2>3. CASE t = "fn"
    <3>1. fn = "saving"
      BY <2>2, <2>3 DEF IInv, CallsInOrder, Called, NoCall
    <3> QED
      BY <3>1, <2>1, <2>2, <2>3, IdsAreNumbers DEF IInv, RunnerIds
  <2>4. CASE t # "fn"
    <3>1. call[t].id = call["run"].id /\ Called("run")
      BY <2>2, <2>4 DEF IInv, CallsInOrder, Called, Tasks, NoCall, Detached
    <3> QED
      BY <3>1, <2>1, <2>2
  <2> QED
    BY <2>3, <2>4
<1>4. \A chunk \in told : chunk.id # None => snapshots'[chunk.id] = snapshots[chunk.id]
  BY <1>3, CommitFacts, TypeFacts
<1> QED
  BY <1>1, <1>2, <1>4, CommitFacts DEF IInv, AnswersAreDurable

\* A commit keeps the last-good answer after a failure.
LEMMA Commit_FailureResumesLastGood ==
  ASSUME IInv, NEW t \in Tasks, Commit(t) PROVE FailureResumesLastGood'
<1>1. ~(run = "returned" /\ ~Detached)
  BY AttachedCaller, CommitFacts DEF IInv, CallsInOrder
<1>2. Detached /\ run = "returned" => out.reason = "detached"
  BY DEF IInv, CallsInOrder
<1> QED
  BY <1>1, <1>2, CommitFacts DEF FailureResumesLastGood

\* A commit keeps the rows of the store a chain.
LEMMA Commit_HistoryIsAChain ==
  ASSUME IInv, NEW t \in Tasks, Commit(t) PROVE HistoryIsAChain'
<1> DEFINE c == call[t]
<1>1. c.id \in Ids /\ snapshots[c.id] \in Rows /\ Called(t) /\ c.mutator \in {"pending", "settle", "abort", "beat"}
      /\ c.row \in WrittenRows
  BY CommitFacts, TypeFacts DEF Calls
<1>2. CASE call'[t].phase = "saved" /\ c.mutator \in {"pending", "settle"}
  <2>1. snapshots'[c.id] = c.row
    BY <1>2, CommitOutcome
  <2>2. c.row.parent < c.id /\ (c.row.parent # None => ~Absent(snapshots[c.row.parent]))
    BY <1>1, <1>2 DEF IInv, ParentsAreThere
  <2>3. \A id \in Ids : snapshots'[id].parent # None =>
          /\ snapshots'[id].parent < id /\ ~Absent(snapshots[snapshots'[id].parent])
    BY <2>1, <2>2, CommitFacts DEF IInv, HistoryIsAChain, Ids
  <2> QED
    BY <2>3, <1>1, CommitKeepsRows, CommitFacts DEF HistoryIsAChain, Ids, Rows, Absent
<1>3. CASE ~(call'[t].phase = "saved" /\ c.mutator \in {"pending", "settle"})
  <2>1. snapshots'[c.id].parent = snapshots[c.id].parent
    BY <1>1, <1>3, CommitFacts, CommitOutcome DEF Rows
  <2>2. \A id \in Ids : snapshots'[id].parent = snapshots[id].parent
    BY <2>1, CommitFacts
  <2> QED
    BY <2>2, CommitKeepsRows, CommitFacts DEF IInv, HistoryIsAChain, Ids, Rows, Absent, TypeOK, StoreTypeOK
<1> QED
  BY <1>2, <1>3

\* A commit keeps the row of a detach in step with the work.
LEMMA Commit_DetachedRow ==
  ASSUME IInv, NEW t \in Tasks, Commit(t) PROVE DetachedRow'
<1> SUFFICES ASSUME ~StoreYields PROVE DetachedRow'
  BY CommitFacts DEF DetachedRow, StoreYields
<1> DEFINE id == call["run"].id
<1>1. running = t /\ UNCHANGED <<run, fin, err_holder, sr, version, storeKind>>
  BY CommitFacts
<1>2. Called("run") => id \in Ids
  BY CallFacts DEF Called, NoCall, Calls, Tasks
<1>3. failures' >= failures /\ failures \in Nat /\ failures' \in Nat
  BY CommitFacts, TypeFacts
<1>4. call'["run"].id = id \/ ~Called("run")
  BY CommitKeepsCalls DEF Tasks
<1>5. fin # "none" => Detached /\ run = "returned"
  BY DEF IInv, CallsInOrder
<1>6. run = "pending" => running = "run" /\ Detached
  BY DEF IInv, SavesKeepTheLoop, CallsInOrder
<1>7. CASE run = "pending"
  <2>1. fin = "none" /\ t = "run" /\ call["run"].mutator = "pending" /\ Called("run")
    BY <1>1, <1>5, <1>6, <1>7 DEF Detached
  <2>2. Absent(snapshots[id]) /\ call["run"].row.status = "pending"
    BY <1>7, <2>1, CommitFacts DEF IInv, DetachedRow, SavedRows
  <2>3. call'["run"].phase = "saved" => snapshots'[id] = call["run"].row
    BY <2>1, CommitOutcome
  <2>4. call'["run"].phase # "issued"
    BY <2>1, CommitFacts
  <2> QED
    BY <1>1, <1>7, <2>1, <2>2, <2>3, <2>4, CommitFacts DEF DetachedRow
<1>8. CASE run # "pending" /\ fin = "none"
  BY <1>1, <1>8 DEF DetachedRow
<1>9. CASE fin # "none"
  <2>1. Detached /\ Called("run") /\ call["run"].phase # "issued" /\ run = "returned"
    BY <1>5, <1>9 DEF IInv, CallsInOrder, Detached
  <2>2. t \in {"fin", "beat", "abort"}
    BY <2>1, <1>1, CommitFacts DEF IInv, CallsInOrder, SavesKeepTheLoop, Tasks, NoCall
  <2>3. call[t].id = id /\ call'["run"] = call["run"]
    BY <2>1, <2>2, CommitFacts DEF IInv, CallsInOrder, Tasks
  <2>4. CASE t = "fin"
    <3>1. fin = "saving" /\ call["fin"].mutator = "settle"
      BY <1>9, <2>4, CommitFacts DEF IInv, CallsInOrder, NoCall, TypeOK, RunTypeOK
    <3>2. /\ snapshots[id].status \in {"pending", "aborted"} /\ TellsTheWork(call["fin"].row)
      BY <2>4, <3>1, CommitFacts DEF IInv, DetachedRow
    <3>3. call'["fin"].row = call["fin"].row /\ call'["fin"].phase # "issued"
      BY <2>4, CommitFacts
    <3>4. call'["fin"].phase = "saved" => snapshots'[id] = call["fin"].row
      BY <2>3, <2>4, <3>1, CommitOutcome
    <3>5. call'["fin"].phase = "skipped" => snapshots'[id] = snapshots[id] /\ snapshots[id].status = "aborted"
      BY <2>3, <2>4, <3>1, CommitOutcome, CommitFacts
    <3>6. call'["fin"].phase = "raised" => failures' > 0
      BY <2>3, <2>4, <3>1, <3>2, CommitOutcome DEF TERMINAL_STATUSES
    <3>7. fin' = "saving" /\ run' = "returned" /\ call'["fin"].phase \in {"saved", "skipped", "raised"}
      BY <1>1, <2>1, <2>4, <3>1, CommitFacts
    <3>8. TellsTheWork(call["fin"].row)'
      BY <3>2, <3>3, CommitFacts DEF TellsTheWork
    <3>9. call'["fin"].phase = "saved" => TellsTheWork(snapshots[id])'
      BY <3>3, <3>4, <3>8, <2>3 DEF TellsTheWork
    <3> QED
      BY <2>3, <3>3, <3>5, <3>6, <3>7, <3>8, <3>9 DEF DetachedRow
  <2>5. CASE t \in {"beat", "abort"}
    <3>1. fin # "saving"
      BY <1>1, <2>5 DEF IInv, SavesKeepTheLoop
    <3>2. \/ snapshots'[id] = snapshots[id]
          \/ snapshots[id].status = "pending" /\ snapshots'[id].status \in {"pending", "aborted"}
      <4>1. snapshots[id] \in Rows /\ call[t].mutator \in {"beat", "abort"}
        BY <1>2, <2>1, <2>5, CommitFacts, TypeFacts DEF IInv, CallsInOrder
      <4>2. call'[t].phase # "saved" => snapshots' = snapshots
        BY CommitFacts
      <4>3. call'[t].phase = "saved" =>
              /\ snapshots[id].status = "pending"
              /\ \/ snapshots'[id] = [snapshots[id] EXCEPT !.status = "aborted"]
                 \/ snapshots'[id] = [snapshots[id] EXCEPT !.beat = 1]
        BY <2>3, <4>1, CommitOutcome
      <4> QED
        BY <4>1, <4>2, <4>3 DEF Rows
    <3>3. fin = "waiting" => snapshots'[id].status \in {"pending", "aborted"}
      BY <3>2 DEF IInv, DetachedRow
    <3>4. fin = "done" => failures > 0 \/ snapshots[id].status = "aborted" \/ TellsTheWork(snapshots[id])
      BY DEF IInv, DetachedRow
    <3>5. fin = "done" => failures' > 0 \/ snapshots'[id].status = "aborted"
                            \/ (snapshots'[id] = snapshots[id] /\ TellsTheWork(snapshots[id]))
      BY <1>3, <3>2, <3>4 DEF TellsTheWork
    <3> QED
      BY <1>1, <2>1, <2>3, <3>1, <3>3, <3>5, CommitFacts DEF DetachedRow, TellsTheWork, StoreYields
  <2> QED
    BY <2>2, <2>4, <2>5
<1> QED
  BY <1>7, <1>8, <1>9

\* A commit keeps the versions in order.
LEMMA Commit_VersionsInOrder ==
  ASSUME IInv, NEW t \in Tasks, Commit(t) PROVE VersionsInOrder'
  BY CommitFacts DEF IInv, VersionsInOrder, TurnsAddMessages

-----------------------------------------------------------------------------
\* A turn ends, and its save returns.

\* A turn that ends keeps the runner's ids, its counters and its last good turn until
\* the save is back.
LEMMA TurnOverFacts ==
  ASSUME IInv, NEW s \in Runners, TurnOver(s)
  PROVE  /\ sr' \in Runners
         /\ sr'.current_turn_snapshot_id = None /\ sr'.new_snapshot_id = s.new_snapshot_id
         /\ sr'.last_turn_finish_reason = s.last_turn_finish_reason
         /\ sr'.last_turn_error = s.last_turn_error
         /\ \/ /\ s.last_turn_error /\ fn' = "tail" /\ running' = "fn"
               /\ sr'.last_good_state = s.last_good_state
               /\ sr'.last_good_finish_reason = s.last_good_finish_reason
            \/ /\ ~s.last_turn_error /\ fn' = "loop" /\ running' \in {"fn", Idle}
               /\ sr'.last_good_state = version
               /\ sr'.last_good_finish_reason = s.last_turn_finish_reason
<1>1. version \in Nat
  BY TypeFacts
<1>2. CASE s.last_turn_error
  BY <1>1, <1>2 DEF TurnOver, None, Runners
<1>3. CASE ~s.last_turn_error
  <2>1. PICK n \in Nat : sr' = [s EXCEPT !.current_turn_snapshot_id = None, !.last_good_state = version,
                                         !.last_good_finish_reason = s.last_turn_finish_reason,
                                         !.turn_index = n]
    <3>1. s.turn_index + 1 \in Nat
      BY DEF Runners
    <3>2. sr' = [s EXCEPT !.current_turn_snapshot_id = None, !.last_good_state = version,
                          !.last_good_finish_reason = s.last_turn_finish_reason,
                          !.turn_index = s.turn_index + 1]
      BY <1>3 DEF TurnOver
    <3> QED
      BY <3>1, <3>2
  <2>2. fn' = "loop" /\ running' \in {"fn", Idle}
    BY <1>3 DEF TurnOver
  <2> QED
    BY <1>1, <1>3, <2>1, <2>2 DEF None, Runners
<1> QED
  BY <1>2, <1>3

\* The end of a turn saves nothing, or starts the save of the turn.
LEMMA TurnEndsFacts ==
  ASSUME IInv, NEW r \in {"stop", "failed"}, NEW e \in BOOLEAN, TurnEnds(r, e)
  PROVE  /\ CanRun("fn") /\ fn \in {"turn", "saving"} /\ fn # "done"
         /\ sr' \in Runners
         /\ sr'.new_snapshot_id = sr.new_snapshot_id
         /\ sr'.last_turn_finish_reason = r /\ sr'.last_turn_error = e
         /\ \A u \in Tasks \ {"fn"} : call'[u] = call[u]
         /\ call' \in [Tasks -> {NoCall} \cup Calls]
         /\ \/ /\ rt.detached \/ ~SnapshotNeeded(r = "failed")
               /\ fn' \in {"tail", "loop"} /\ running' \in {"fn", Idle}
               /\ sr'.current_turn_snapshot_id = None
               /\ \/ /\ sr'.last_good_state = sr.last_good_state
                     /\ sr'.last_good_finish_reason = sr.last_good_finish_reason
                  \/ sr'.last_good_state = version
               /\ call'["fn"] = NoCall
               /\ told' = (IF rt.detached THEN told
                           ELSE told \cup {[id |-> rt.last_snapshot, version |-> version]})
            \/ /\ ~rt.detached /\ run = "waiting" /\ HasStore /\ ~Detached
               /\ fn' = "saving" /\ running' = (IF StoreYields THEN Idle ELSE "fn")
               /\ sr'.last_good_state = sr.last_good_state
               /\ sr'.last_good_finish_reason = sr.last_good_finish_reason
               /\ sr'.current_turn_snapshot_id = sr.current_turn_snapshot_id
               /\ sr.current_turn_snapshot_id \in Ids
               /\ rt.last_snapshot < sr.current_turn_snapshot_id
               /\ Absent(snapshots[sr.current_turn_snapshot_id])
               /\ call'["fn"] = [phase |-> "issued", id |-> sr.current_turn_snapshot_id, mutator |-> "settle",
                                 row |-> NewRow(IF r = "failed" THEN "failed" ELSE "completed", version)]
               /\ told' = told
<1> DEFINE s == [sr EXCEPT !.last_turn_finish_reason = r, !.last_turn_error = e]
<1>1. /\ s \in Runners
      /\ s.new_snapshot_id = sr.new_snapshot_id /\ s.current_turn_snapshot_id = sr.current_turn_snapshot_id
      /\ s.last_turn_finish_reason = r /\ s.last_turn_error = e
      /\ s.last_good_state = sr.last_good_state /\ s.last_good_finish_reason = sr.last_good_finish_reason
  BY DEF IInv, TypeOK, RunnerTypeOK, Runners, Reasons
<1>2. CanRun("fn") /\ (fn = "turn" \/ (fn = "saving" /\ call["fn"].phase = "raised")) /\ EmitTurnEnd(s)
  BY DEF TurnEnds
<1>3. call \in [Tasks -> {NoCall} \cup Calls] /\ "fn" \in Tasks
  BY DEF IInv, TypeOK, StoreTypeOK, Tasks
<1> HIDE DEF s
<1>4. CASE /\ rt.detached \/ ~SnapshotNeeded(r = "failed")
           /\ TurnOver(s)
           /\ told' = IF rt.detached THEN told ELSE told \cup {[id |-> rt.last_snapshot, version |-> version]}
           /\ call' = [call EXCEPT !["fn"] = NoCall]
  BY <1>1, <1>2, <1>3, <1>4, TurnOverFacts
<1>5. CASE /\ ~rt.detached /\ SnapshotNeeded(r = "failed")
           /\ Issue("fn", s.current_turn_snapshot_id, "settle",
                    NewRow(IF r = "failed" THEN "failed" ELSE "completed", version))
           /\ sr' = s /\ fn' = "saving"
           /\ told' = told
  <2>1. run = "waiting" /\ HasStore /\ ~Detached
    BY <1>2, <1>5 DEF IInv, DetachOrder, SnapshotNeeded
  <2>2. sr.current_turn_snapshot_id \in Ids
    BY <1>2, <2>1, TypeFacts DEF IInv, RunnerIds
  <2>3. rt.last_snapshot < sr.current_turn_snapshot_id
    BY <1>2, <2>1 DEF IInv, RunnerIds
  <2>4. Absent(snapshots[sr.current_turn_snapshot_id])
    BY <1>2, <2>1 DEF IInv, RunnerIds, AttachedRows, Undisturbed
  <2>5. NewRow(IF r = "failed" THEN "failed" ELSE "completed", version) \in WrittenRows
    BY TypeFacts DEF NewRow, WrittenRows, Statuses, TERMINAL_STATUSES
  <2>6. /\ call'["fn"] = [phase |-> "issued", id |-> sr.current_turn_snapshot_id, mutator |-> "settle",
                          row |-> NewRow(IF r = "failed" THEN "failed" ELSE "completed", version)]
        /\ \A u \in Tasks \ {"fn"} : call'[u] = call[u]
        /\ call' \in [Tasks -> {NoCall} \cup Calls]
        /\ running' = (IF StoreYields THEN Idle ELSE "fn")
    BY <1>1, <1>3, <1>5, <2>2, <2>5, IssueFacts
  <2> QED
    BY <1>1, <1>2, <1>5, <2>1, <2>2, <2>3, <2>4, <2>6
<1> QED
  BY <1>1, <1>2, <1>4, <1>5 DEF EmitTurnEnd

\* The end of a turn keeps the types.
LEMMA TurnEnds_TypeOK ==
  ASSUME IInv, NEW r \in {"stop", "failed"}, NEW e \in BOOLEAN, TurnEnds(r, e) PROVE TypeOK'
<1>1. ClientTypeOK' /\ RunTypeOK'
  BY DEF TurnEnds, IInv, TypeOK, ClientTypeOK, RunTypeOK
<1>2. RunnerTypeOK'
  <2>1. told' \in SUBSET [id : Ids \cup {None}, version : Nat]
    BY TurnEndsFacts, TypeFacts DEF IInv, TypeOK, RunnerTypeOK
  <2>2. running' \in Tasks \cup {Idle} /\ fn' \in {"loop", "turn", "saving", "tail", "done"} /\ sr' \in Runners
    BY TurnEndsFacts DEF Tasks
  <2> QED
    BY <2>1, <2>2 DEF TurnEnds, IInv, TypeOK, RunnerTypeOK
<1>3. StoreTypeOK'
  BY TurnEndsFacts DEF TurnEnds, IInv, TypeOK, StoreTypeOK
<1> QED
  BY <1>1, <1>2, <1>3 DEF TypeOK

\* The end of a turn keeps an id for every input.
LEMMA TurnEnds_IdsSuffice ==
  ASSUME IInv, NEW r \in {"stop", "failed"}, NEW e \in BOOLEAN, TurnEnds(r, e) PROVE IdsSuffice'
<1>1. /\ sr'.new_snapshot_id < nextId /\ sr'.current_turn_snapshot_id < nextId
  <2>1. /\ sr.new_snapshot_id < nextId /\ sr.current_turn_snapshot_id < nextId /\ None < nextId
    BY TypeFacts DEF IInv, IdsSuffice, None
  <2>2. sr'.current_turn_snapshot_id \in {None, sr.current_turn_snapshot_id} /\ sr'.new_snapshot_id = sr.new_snapshot_id
    BY TurnEndsFacts
  <2> QED
    BY <2>1, <2>2
<1>2. Called("fn")' => call'["fn"].id < nextId
  BY TurnEndsFacts DEF IInv, IdsSuffice, Called, NoCall
<1>3. \A u \in Tasks \ {"fn"} : Called(u)' => call'[u].id < nextId
  BY TurnEndsFacts DEF IInv, IdsSuffice, Called
<1> QED
  BY <1>1, <1>2, <1>3 DEF IInv, IdsSuffice, TurnEnds, Absent

\* What the end of a turn leaves alone.
LEMMA TurnEndsKeeps ==
  ASSUME IInv, NEW r \in {"stop", "failed"}, NEW e \in BOOLEAN, TurnEnds(r, e)
  PROVE  /\ \A u \in Tasks \ {"fn"} : call'[u] = call[u] /\ (Called(u)' <=> Called(u))
         /\ Detached' <=> Detached
         /\ UNCHANGED <<turn_inputs, closed, version, mutations, rt, err_holder, nextId, inbox, inboxClosed, sent, fwd,
                        run, out, fin, beat, watch, abort, storeKind, snapshots, failures>>
         /\ fin \in {"none", "waiting"}
         /\ run = "returned" => out.reason = "detached"
<1>1. fn # "done" /\ \A u \in Tasks \ {"fn"} : call'[u] = call[u]
  BY TurnEndsFacts
<1> QED
  BY <1>1 DEF TurnEnds, Called, Detached, Tasks, IInv, CallsInOrder, TypeOK, RunTypeOK

\* The end of a turn keeps the order of a detach.
LEMMA TurnEnds_DetachOrder ==
  ASSUME IInv, NEW r \in {"stop", "failed"}, NEW e \in BOOLEAN, TurnEnds(r, e) PROVE DetachOrder'
  BY TurnEndsFacts, TurnEndsKeeps DEF IInv, DetachOrder

\* The end of a turn keeps the ids that the runner holds.
LEMMA TurnEnds_RunnerIds ==
  ASSUME IInv, NEW r \in {"stop", "failed"}, NEW e \in BOOLEAN, TurnEnds(r, e) PROVE RunnerIds'
  BY TurnEndsFacts, TurnEndsKeeps DEF IInv, RunnerIds, HasStore, Called, None, Ids

\* The end of a turn keeps the calls in order.
LEMMA TurnEnds_CallsInOrder ==
  ASSUME IInv, NEW r \in {"stop", "failed"}, NEW e \in BOOLEAN, TurnEnds(r, e) PROVE CallsInOrder'
<1>1. {"fwd", "run", "fin", "beat", "watch", "abort"} \subseteq Tasks \ {"fn"}
  BY DEF Tasks
<1>2. fn' \in {"tail", "loop", "saving"} /\ (fn' # "saving" => call'["fn"] = NoCall) /\ fn # "done"
  BY TurnEndsFacts
<1> QED
  BY <1>1, <1>2, TurnEndsKeeps DEF IInv, CallsInOrder, HasStore

\* The end of a turn keeps the loop with the task that saves.
LEMMA TurnEnds_SavesKeepTheLoop ==
  ASSUME IInv, NEW r \in {"stop", "failed"}, NEW e \in BOOLEAN, TurnEnds(r, e) PROVE SavesKeepTheLoop'
<1> SUFFICES ASSUME ~StoreYields PROVE SavesKeepTheLoop'
  BY TurnEndsKeeps DEF SavesKeepTheLoop, StoreYields
<1>1. running \in {Idle, "fn"}
  BY TurnEndsFacts DEF CanRun
<1>2. /\ \A u \in Tasks \ {"fn"} : call[u].phase # "issued"
      /\ run \notin {"pending", "recovering", "finishing"} /\ fin # "saving"
      /\ beat.at # "saving" /\ abort.at # "saving"
  BY <1>1 DEF IInv, SavesKeepTheLoop, Idle, Tasks
<1>3. call'["fn"].phase = "issued" \/ fn' = "saving" => running' = "fn" /\ ~Detached
  BY TurnEndsFacts DEF NoCall
<1> QED
  BY <1>2, <1>3, TurnEndsKeeps DEF SavesKeepTheLoop

\* The end of a turn keeps every parent in the store.
LEMMA TurnEnds_ParentsAreThere ==
  ASSUME IInv, NEW r \in {"stop", "failed"}, NEW e \in BOOLEAN, TurnEnds(r, e) PROVE ParentsAreThere'
<1>1. Called("fn")' => /\ call'["fn"].phase = "issued" /\ call'["fn"].row.parent = rt.last_snapshot
                       /\ rt.last_snapshot < call'["fn"].id
  BY TurnEndsFacts DEF Called, NoCall, NewRow
<1> QED
  BY <1>1, TurnEndsKeeps DEF IInv, ParentsAreThere, Absent

\* The end of a turn keeps the rows of turnEnd chunks from being written.
LEMMA TurnEnds_ToldRowsAreOver ==
  ASSUME IInv, NEW r \in {"stop", "failed"}, NEW e \in BOOLEAN, TurnEnds(r, e) PROVE ToldRowsAreOver'
<1>1. Called("run")' <=> Called("run")
  BY TurnEndsKeeps DEF Tasks
<1>2. UNCHANGED rt /\ call'["run"] = call["run"]
  BY TurnEndsKeeps DEF Tasks
<1>3. ~rt.detached => run = "waiting" /\ ~Called("run")
  BY TurnEndsFacts DEF IInv, DetachOrder, CallsInOrder, Called, NoCall
<1>4. told' = told \/ (~rt.detached /\ told' = told \cup {[id |-> rt.last_snapshot, version |-> version]})
  BY TurnEndsFacts
<1>5. rt.last_snapshot <= rt.last_snapshot
  BY IdsAreNumbers
<1> QED
  BY <1>1, <1>2, <1>3, <1>4, <1>5 DEF IInv, ToldRowsAreOver

\* The end of a turn keeps what is saved true to the session.
LEMMA TurnEnds_SavedRows ==
  ASSUME IInv, NEW r \in {"stop", "failed"}, NEW e \in BOOLEAN, TurnEnds(r, e) PROVE SavedRows'
<1>1. fn' = "saving" => call'["fn"].row.state = version
                        /\ call'["fn"].row.status = (IF r = "failed" THEN "failed" ELSE "completed")
  BY TurnEndsFacts DEF NewRow
<1>2. run \notin {"recovering", "finishing"} /\ call'["run"] = call["run"] /\ UNCHANGED <<run, version>>
  BY TurnEndsFacts, TurnEndsKeeps DEF IInv, CallsInOrder, Tasks
<1> QED
  BY <1>1, <1>2, TurnEndsFacts DEF IInv, SavedRows

\* The end of a turn keeps the rows of an attached run undisturbed.
LEMMA TurnEnds_AttachedRows ==
  ASSUME IInv, NEW r \in {"stop", "failed"}, NEW e \in BOOLEAN, TurnEnds(r, e) PROVE AttachedRows'
<1>1. fn' # "turn"
  BY TurnEndsFacts
<1>2. fn' = "saving" => Undisturbed("fn")'
  BY TurnEndsFacts, TurnEndsKeeps DEF Undisturbed, Absent
<1>3. run \notin {"recovering", "finishing"}
  BY TurnEndsFacts DEF IInv, CallsInOrder
<1> QED
  BY <1>1, <1>2, <1>3, TurnEndsKeeps DEF IInv, AttachedRows

\* The end of a turn keeps the versions in order.
LEMMA TurnEnds_VersionsInOrder ==
  ASSUME IInv, NEW r \in {"stop", "failed"}, NEW e \in BOOLEAN, TurnEnds(r, e) PROVE VersionsInOrder'
<1>1. sr'.last_good_state = sr.last_good_state \/ (sr'.last_good_state = version /\ fn' \notin {"turn", "saving"})
  BY TurnEndsFacts
<1>2. fn \in {"turn", "saving"} /\ version <= version
  BY TurnEndsFacts, TypeFacts
<1> QED
  BY <1>1, <1>2, TurnEndsKeeps DEF IInv, VersionsInOrder, TurnsAddMessages

\* The end of a turn keeps a failed row telling of a failed turn.
LEMMA TurnEnds_FailedRowTellsTheTurn ==
  ASSUME IInv, NEW r \in {"stop", "failed"}, NEW e \in BOOLEAN, TurnEnds(r, e) PROVE FailedRowTellsTheTurn'
<1>1. TurnsAddMessages => rt.last_snapshot_version # version
  BY TurnEndsFacts, TypeFacts DEF IInv, VersionsInOrder
<1>2. \/ sr'.last_good_state = version
      \/ sr'.last_good_state = sr.last_good_state /\ sr'.last_good_finish_reason = sr.last_good_finish_reason
  BY TurnEndsFacts
<1> QED
  BY <1>1, <1>2, TurnEndsKeeps DEF IInv, FailedRowTellsTheTurn, TurnsAddMessages

\* The end of a turn keeps what an abort has answered.
LEMMA TurnEnds_AbortCommitted ==
  ASSUME IInv, NEW r \in {"stop", "failed"}, NEW e \in BOOLEAN, TurnEnds(r, e) PROVE AbortCommitted'
<1>1. "abort" \in Tasks \ {"fn"}
  BY DEF Tasks
<1> QED
  BY <1>1, TurnEndsKeeps DEF IInv, AbortCommitted

\* The end of a turn keeps the row of a detach in step with the work.
LEMMA TurnEnds_DetachedRow ==
  ASSUME IInv, NEW r \in {"stop", "failed"}, NEW e \in BOOLEAN, TurnEnds(r, e) PROVE DetachedRow'
<1>1. "run" \in Tasks \ {"fn"}
  BY DEF Tasks
<1> QED
  BY <1>1, TurnEndsKeeps DEF IInv, DetachedRow, StoreYields, Absent

\* The end of a turn keeps the answers durable.
LEMMA TurnEnds_AnswersAreDurable ==
  ASSUME IInv, NEW r \in {"stop", "failed"}, NEW e \in BOOLEAN, TurnEnds(r, e) PROVE AnswersAreDurable'
<1>1. \A chunk \in told' \ told :
        chunk.id # None => /\ snapshots[chunk.id].status \in TERMINAL_STATUSES
                           /\ snapshots[chunk.id].state = chunk.version
  <2> SUFFICES ASSUME NEW chunk \in told' \ told, chunk.id # None
               PROVE  /\ snapshots[chunk.id].status \in TERMINAL_STATUSES
                      /\ snapshots[chunk.id].state = chunk.version
    OBVIOUS
  <2>1. ~rt.detached /\ chunk = [id |-> rt.last_snapshot, version |-> version] /\ ~SnapshotNeeded(r = "failed")
    BY TurnEndsFacts
  <2>2. ~Detached
    BY <2>1 DEF IInv, DetachOrder
  <2>3. rt.last_snapshot # None /\ rt.last_snapshot_version = version
    BY <2>1 DEF SnapshotNeeded, IInv, RunnerIds
  <2> QED
    BY <2>1, <2>2, <2>3 DEF IInv, AttachedRows, TERMINAL_STATUSES
<1> QED
  BY <1>1, TurnEndsKeeps DEF IInv, AnswersAreDurable

\* The end of a turn keeps the last-good answer after a failure.
LEMMA TurnEnds_FailureResumesLastGood ==
  ASSUME IInv, NEW r \in {"stop", "failed"}, NEW e \in BOOLEAN, TurnEnds(r, e) PROVE FailureResumesLastGood'
  BY TurnEndsKeeps DEF FailureResumesLastGood

\* The end of a turn keeps the rows of the store a chain.
LEMMA TurnEnds_HistoryIsAChain ==
  ASSUME IInv, NEW r \in {"stop", "failed"}, NEW e \in BOOLEAN, TurnEnds(r, e) PROVE HistoryIsAChain'
  BY TurnEndsKeeps DEF IInv, HistoryIsAChain, Absent

\* A turn-end save that is back, saved or skipped.
LEMMA TurnSavedFacts ==
  ASSUME IInv, TurnSaved
  PROVE  /\ CanRun("fn") /\ fn = "saving" /\ fn' \in {"tail", "loop"} /\ running' \in {"fn", Idle}
         /\ call["fn"] \in Calls /\ call["fn"].phase \in {"saved", "skipped"}
         /\ rt' = (IF call["fn"].phase = "saved"
                     THEN [rt EXCEPT !.last_snapshot = call["fn"].id, !.last_snapshot_version = version] ELSE rt)
         /\ rt'.detached = rt.detached /\ rt'.detach_future = rt.detach_future
         /\ call["fn"].phase = "saved" => rt'.last_snapshot = call["fn"].id /\ rt'.last_snapshot_version = version
         /\ told' = (IF rt.detached THEN told ELSE told \cup {[id |-> rt'.last_snapshot, version |-> version]})
         /\ sr' \in Runners /\ sr'.current_turn_snapshot_id = None /\ sr'.new_snapshot_id = sr.new_snapshot_id
         /\ sr'.last_turn_finish_reason = sr.last_turn_finish_reason
         /\ sr'.last_turn_error = sr.last_turn_error
         /\ \/ /\ sr'.last_good_state = sr.last_good_state
               /\ sr'.last_good_finish_reason = sr.last_good_finish_reason
            \/ /\ sr'.last_good_state = version
               /\ sr'.last_good_finish_reason = sr.last_turn_finish_reason
         /\ call'["fn"] = NoCall
         /\ \A u \in Tasks \ {"fn"} : call'[u] = call[u] /\ (Called(u)' <=> Called(u))
         /\ call' \in [Tasks -> {NoCall} \cup Calls]
         /\ Detached' <=> Detached
         /\ ~rt.detached => run = "waiting" /\ ~Called("run") /\ call["fn"].phase = "saved"
         /\ ~Detached => call["fn"].phase = "saved" /\ snapshots[call["fn"].id] = call["fn"].row
         /\ fin \in {"none", "waiting"} /\ (run = "returned" => out.reason = "detached")
         /\ UNCHANGED <<inbox, inboxClosed, sent, turn_inputs, closed, fwd, version, mutations, run, out, err_holder,
                        fin, beat, watch, abort, storeKind, snapshots, failures, nextId>>
<1>1. /\ CanRun("fn") /\ fn = "saving" /\ call["fn"].phase \in {"saved", "skipped"}
      /\ rt' = (IF call["fn"].phase = "saved"
                  THEN [rt EXCEPT !.last_snapshot = call["fn"].id, !.last_snapshot_version = version] ELSE rt)
      /\ told' = (IF rt.detached THEN told ELSE told \cup {[id |-> rt'.last_snapshot, version |-> version]})
      /\ call' = [call EXCEPT !["fn"] = NoCall]
      /\ TurnOver(sr)
      /\ UNCHANGED <<inbox, inboxClosed, sent, turn_inputs, closed, fwd, version, mutations, run, out, err_holder,
                     fin, beat, watch, abort, storeKind, snapshots, failures, nextId>>
  BY DEF TurnSaved, AfterSave, FnUnchanged, client, queue, session, background, storeVars
<1>2. call["fn"] \in Calls /\ call \in [Tasks -> {NoCall} \cup Calls] /\ "fn" \in Tasks
  BY <1>1, CallFacts DEF NoCall, Tasks, IInv, TypeOK, StoreTypeOK
<1>3. sr \in Runners
  BY DEF IInv, TypeOK, RunnerTypeOK
<1>4. /\ rt'.detached = rt.detached /\ rt'.detach_future = rt.detach_future
      /\ call["fn"].phase = "saved" => rt'.last_snapshot = call["fn"].id /\ rt'.last_snapshot_version = version
  BY <1>1 DEF IInv, TypeOK, RunTypeOK
<1>5. /\ call'["fn"] = NoCall
      /\ \A u \in Tasks \ {"fn"} : call'[u] = call[u] /\ (Called(u)' <=> Called(u))
      /\ call' \in [Tasks -> {NoCall} \cup Calls]
      /\ Detached' <=> Detached
  BY <1>1, <1>2 DEF Called, Detached, Tasks
<1>6. ~Detached => call["fn"].phase = "saved" /\ snapshots[call["fn"].id] = call["fn"].row
  BY <1>1 DEF IInv, AttachedRows, Undisturbed
<1>7. ~rt.detached => run = "waiting" /\ ~Called("run") /\ ~Detached
  BY <1>1 DEF IInv, DetachOrder, CallsInOrder, Called, NoCall
<1>8. fin \in {"none", "waiting"} /\ (run = "returned" => out.reason = "detached")
  BY <1>1 DEF IInv, CallsInOrder, TypeOK, RunTypeOK
<1>9. /\ sr' \in Runners
      /\ sr'.current_turn_snapshot_id = None /\ sr'.new_snapshot_id = sr.new_snapshot_id
      /\ sr'.last_turn_finish_reason = sr.last_turn_finish_reason
      /\ sr'.last_turn_error = sr.last_turn_error
      /\ fn' \in {"tail", "loop"} /\ running' \in {"fn", Idle}
      /\ \/ /\ sr'.last_good_state = sr.last_good_state
            /\ sr'.last_good_finish_reason = sr.last_good_finish_reason
         \/ /\ sr'.last_good_state = version
            /\ sr'.last_good_finish_reason = sr.last_turn_finish_reason
  BY <1>1, <1>3, TurnOverFacts
<1> QED
  BY <1>1, <1>2, <1>4, <1>5, <1>6, <1>7, <1>8, <1>9

\* A saved turn keeps the types.
LEMMA TurnSaved_TypeOK ==
  ASSUME IInv, TurnSaved PROVE TypeOK'
<1>1. ClientTypeOK'
  BY TurnSavedFacts DEF IInv, TypeOK, ClientTypeOK
<1>2. RunTypeOK'
  <2>1. rt' \in [detached : BOOLEAN, detach_future : BOOLEAN, abort_signal : BOOLEAN,
                 last_snapshot : Ids \cup {None}, last_snapshot_version : Nat \cup {-1}]
    BY TurnSavedFacts, TypeFacts DEF IInv, TypeOK, RunTypeOK, Calls
  <2> QED
    BY <2>1, TurnSavedFacts DEF IInv, TypeOK, RunTypeOK
<1>3. RunnerTypeOK'
  <2>1. rt'.last_snapshot \in Ids \cup {None} /\ version \in Nat
    BY TurnSavedFacts, TypeFacts DEF Calls
  <2>2. told' \in SUBSET [id : Ids \cup {None}, version : Nat]
    BY <2>1, TurnSavedFacts DEF IInv, TypeOK, RunnerTypeOK
  <2> QED
    BY <2>2, TurnSavedFacts DEF IInv, TypeOK, RunnerTypeOK, Tasks
<1>4. StoreTypeOK'
  BY TurnSavedFacts DEF IInv, TypeOK, StoreTypeOK
<1> QED
  BY <1>1, <1>2, <1>3, <1>4 DEF TypeOK

\* A saved turn keeps an id for every input.
LEMMA TurnSaved_IdsSuffice ==
  ASSUME IInv, TurnSaved PROVE IdsSuffice'
<1>1. rt'.last_snapshot < nextId
  BY TurnSavedFacts DEF IInv, IdsSuffice, Called, Tasks
<1>2. /\ sr'.new_snapshot_id < nextId /\ sr'.current_turn_snapshot_id < nextId
  BY TurnSavedFacts, TypeFacts DEF IInv, IdsSuffice, None
<1>3. \A u \in Tasks : Called(u)' => call'[u].id < nextId
  BY TurnSavedFacts DEF IInv, IdsSuffice, Called, NoCall
<1> QED
  BY <1>1, <1>2, <1>3, TurnSavedFacts DEF IInv, IdsSuffice, Absent

\* A saved turn keeps the order of a detach.
LEMMA TurnSaved_DetachOrder ==
  ASSUME IInv, TurnSaved PROVE DetachOrder'
  BY TurnSavedFacts DEF IInv, DetachOrder

\* A saved turn keeps the ids that the runner holds.
LEMMA TurnSaved_RunnerIds ==
  ASSUME IInv, TurnSaved PROVE RunnerIds'
  BY TurnSavedFacts DEF IInv, RunnerIds, HasStore

\* A saved turn keeps the calls in order.
LEMMA TurnSaved_CallsInOrder ==
  ASSUME IInv, TurnSaved PROVE CallsInOrder'
<1>1. {"fwd", "run", "fin", "beat", "watch", "abort"} \subseteq Tasks \ {"fn"}
  BY DEF Tasks
<1> QED
  BY <1>1, TurnSavedFacts DEF IInv, CallsInOrder, HasStore

\* A saved turn keeps the loop with the task that saves.
LEMMA TurnSaved_SavesKeepTheLoop ==
  ASSUME IInv, TurnSaved PROVE SavesKeepTheLoop'
<1> SUFFICES ASSUME ~StoreYields PROVE SavesKeepTheLoop'
  BY TurnSavedFacts DEF SavesKeepTheLoop, StoreYields
<1>1. running = "fn"
  BY TurnSavedFacts DEF IInv, SavesKeepTheLoop
<1>2. /\ \A u \in Tasks \ {"fn"} : call[u].phase # "issued"
      /\ run \notin {"pending", "recovering", "finishing"} /\ fin # "saving"
      /\ beat.at # "saving" /\ abort.at # "saving"
  BY <1>1 DEF IInv, SavesKeepTheLoop, Tasks
<1> QED
  BY <1>2, TurnSavedFacts DEF SavesKeepTheLoop, NoCall

\* A saved turn keeps every parent in the store.
LEMMA TurnSaved_ParentsAreThere ==
  ASSUME IInv, TurnSaved PROVE ParentsAreThere'
<1>1. rt'.last_snapshot # None => ~Absent(snapshots[rt'.last_snapshot])
  BY TurnSavedFacts DEF IInv, ParentsAreThere, Called, Tasks
<1>2. \A u \in Tasks \ {"fn"} : Called(u)' =>
        /\ call'[u].phase = "saved" => ~Absent(snapshots[call'[u].id])
        /\ call'[u].mutator \in {"pending", "settle"} =>
             /\ call'[u].row.parent < call'[u].id
             /\ call'[u].row.parent # None => ~Absent(snapshots[call'[u].row.parent])
  BY TurnSavedFacts DEF IInv, ParentsAreThere
<1>3. ~Called("fn")' /\ snapshots' = snapshots
  BY TurnSavedFacts DEF Called, NoCall
<1> QED
  BY <1>1, <1>2, <1>3 DEF ParentsAreThere, Absent

\* A saved turn keeps the rows of turnEnd chunks from being written.
LEMMA TurnSaved_ToldRowsAreOver ==
  ASSUME IInv, TurnSaved PROVE ToldRowsAreOver'
<1>1. /\ rt.last_snapshot < call["fn"].id /\ rt.last_snapshot \in Nat /\ call["fn"].id \in Nat
      /\ \A chunk \in told : chunk.id \in Nat
  <2>1. rt.last_snapshot < call["fn"].id
    BY TurnSavedFacts DEF IInv, RunnerIds
  <2>2. call["fn"].id \in Nat
    BY TurnSavedFacts DEF Calls, Ids
  <2> QED
    BY <2>1, <2>2, IdsAreNumbers
<1>2. rt'.last_snapshot \in {rt.last_snapshot, call["fn"].id}
  BY TurnSavedFacts
<1>3. \A chunk \in told : chunk.id <= rt'.last_snapshot /\ (Called("run") => chunk.id < call["run"].id)
  BY <1>1, <1>2 DEF IInv, ToldRowsAreOver
<1>4. call'["run"] = call["run"] /\ (Called("run")' <=> Called("run"))
  BY TurnSavedFacts DEF Tasks
<1>5. rt'.last_snapshot <= rt'.last_snapshot
  BY <1>1, <1>2
<1>6. told' = told \/ (~Called("run") /\ told' = told \cup {[id |-> rt'.last_snapshot, version |-> version]})
  BY TurnSavedFacts
<1> QED
  BY <1>3, <1>4, <1>5, <1>6 DEF ToldRowsAreOver

\* A saved turn keeps what is saved true to the session.
LEMMA TurnSaved_SavedRows ==
  ASSUME IInv, TurnSaved PROVE SavedRows'
<1>1. run \notin {"recovering", "finishing"} /\ call'["run"] = call["run"]
  BY TurnSavedFacts DEF IInv, CallsInOrder, Tasks
<1> QED
  BY <1>1, TurnSavedFacts DEF IInv, SavedRows

\* A saved turn keeps the rows of an attached run undisturbed.
LEMMA TurnSaved_AttachedRows ==
  ASSUME IInv, TurnSaved PROVE AttachedRows'
<1> SUFFICES ASSUME ~Detached PROVE AttachedRows'
  BY TurnSavedFacts DEF AttachedRows
<1>1. /\ snapshots[rt'.last_snapshot].status \in {"completed", "failed"}
      /\ snapshots[rt'.last_snapshot].state = rt'.last_snapshot_version
  BY TurnSavedFacts DEF IInv, SavedRows
<1>2. run \notin {"recovering", "finishing"} /\ fn' \notin {"turn", "saving"} /\ UNCHANGED <<run, snapshots>>
  BY TurnSavedFacts DEF IInv, CallsInOrder
<1> QED
  BY <1>1, <1>2 DEF AttachedRows

\* A saved turn keeps the versions in order.
LEMMA TurnSaved_VersionsInOrder ==
  ASSUME IInv, TurnSaved PROVE VersionsInOrder'
<1>1. rt'.last_snapshot_version \in {rt.last_snapshot_version, version}
      /\ sr'.last_good_state \in {sr.last_good_state, version}
  BY TurnSavedFacts
<1>2. version <= version /\ fn' \notin {"turn", "saving"} /\ version' = version
  BY TurnSavedFacts, TypeFacts
<1> QED
  BY <1>1, <1>2 DEF IInv, VersionsInOrder

\* A saved turn keeps a failed row telling of a failed turn.
LEMMA TurnSaved_FailedRowTellsTheTurn ==
  ASSUME IInv, TurnSaved PROVE FailedRowTellsTheTurn'
<1> SUFFICES ASSUME TurnsAddMessages, ~Detached PROVE FailedRowTellsTheTurn'
  BY TurnSavedFacts DEF FailedRowTellsTheTurn, TurnsAddMessages
<1>1. rt'.last_snapshot_version = version /\ snapshots[rt'.last_snapshot] = call["fn"].row
  BY TurnSavedFacts
<1>2. call["fn"].row.status = "failed" => sr.last_turn_finish_reason = "failed"
  BY TurnSavedFacts DEF IInv, SavedRows
<1>3. sr.last_good_state # version
  BY TurnSavedFacts, TypeFacts DEF IInv, VersionsInOrder
<1> QED
  BY <1>1, <1>2, <1>3, TurnSavedFacts DEF FailedRowTellsTheTurn

\* A saved turn keeps what an abort has answered.
LEMMA TurnSaved_AbortCommitted ==
  ASSUME IInv, TurnSaved PROVE AbortCommitted'
<1>1. "abort" \in Tasks \ {"fn"}
  BY DEF Tasks
<1> QED
  BY <1>1, TurnSavedFacts DEF IInv, AbortCommitted

\* A saved turn keeps the row of a detach in step with the work.
LEMMA TurnSaved_DetachedRow ==
  ASSUME IInv, TurnSaved PROVE DetachedRow'
<1>1. "run" \in Tasks \ {"fn"}
  BY DEF Tasks
<1> QED
  BY <1>1, TurnSavedFacts DEF IInv, DetachedRow, StoreYields, Absent

\* A saved turn keeps the answers durable.
LEMMA TurnSaved_AnswersAreDurable ==
  ASSUME IInv, TurnSaved PROVE AnswersAreDurable'
<1>1. ~rt.detached => /\ snapshots[rt'.last_snapshot].status \in TERMINAL_STATUSES
                      /\ snapshots[rt'.last_snapshot].state = version
  <2>1. ~rt.detached => ~Detached
    BY DEF IInv, DetachOrder
  <2> QED
    BY <2>1, TurnSavedFacts DEF IInv, SavedRows, TERMINAL_STATUSES
<1> QED
  BY <1>1, TurnSavedFacts DEF IInv, AnswersAreDurable

\* A saved turn keeps the last-good answer after a failure.
LEMMA TurnSaved_FailureResumesLastGood ==
  ASSUME IInv, TurnSaved PROVE FailureResumesLastGood'
  BY TurnSavedFacts DEF FailureResumesLastGood

\* A saved turn keeps the rows of the store a chain.
LEMMA TurnSaved_HistoryIsAChain ==
  ASSUME IInv, TurnSaved PROVE HistoryIsAChain'
  BY TurnSavedFacts DEF IInv, HistoryIsAChain, Absent

-----------------------------------------------------------------------------
\* run() ends, and its save returns.

\* run() answers with a row it has, raises, or saves a last one.
LEMMA RunFinishFacts ==
  ASSUME IInv, RunFinish
  PROVE  /\ CanRun("run") /\ run = "waiting" /\ fn = "done" /\ ~rt.detach_future
         /\ ~Called("run") /\ ~Detached /\ ~Detached' /\ fin = "none"
         /\ fwd' = [fwd EXCEPT !.at = "done"] /\ fwd'.at = "done"
         /\ \A u \in Tasks \ {"run"} : call'[u] = call[u] /\ (Called(u)' <=> Called(u))
         /\ call' \in [Tasks -> {NoCall} \cup Calls]
         /\ \/ /\ run' = "returned" /\ running' = Idle /\ nextId' = nextId /\ call'["run"] = NoCall
               /\ out'.id \in {None, rt.last_snapshot} /\ out' = [reason |-> out'.reason, id |-> out'.id]
               /\ \/ /\ sr.last_turn_error /\ out'.reason = "failed"
                     /\ out'.id # None => rt.last_snapshot_version = sr.last_good_state
                  \/ /\ ~sr.last_turn_error /\ out'.reason = sr.last_turn_finish_reason
                     /\ HasStore => out'.id # None /\ rt.last_snapshot_version = version
            \/ /\ run' = "raised" /\ running' = Idle /\ nextId' = nextId /\ call'["run"] = NoCall /\ out' = out
            \/ /\ run' \in {"recovering", "finishing"} /\ HasStore
               /\ running' = (IF StoreYields THEN Idle ELSE "run")
               /\ nextId' = nextId + 1 /\ nextId \in Ids /\ rt.last_snapshot < nextId /\ out' = out
               /\ call'["run"].phase = "issued" /\ call'["run"].id = nextId
               /\ call'["run"].mutator = "settle"
               /\ call'["run"].row.parent = rt.last_snapshot /\ call'["run"].row.status = "completed"
               /\ run' = "recovering" => sr.last_turn_error /\ call'["run"].row.state = sr.last_good_state
               /\ run' = "finishing" => ~sr.last_turn_error /\ call'["run"].row.state = version
         /\ closed' = TRUE
         /\ UNCHANGED <<inbox, inboxClosed, sent, turn_inputs, fn, sr, version, mutations, rt, err_holder,
                        fin, beat, watch, abort, storeKind, snapshots, failures, told>>
<1>1. /\ CanRun("run") /\ run = "waiting" /\ fn = "done" /\ ~rt.detach_future
      /\ fwd' = [fwd EXCEPT !.at = "done"]
      /\ closed' = TRUE
      /\ UNCHANGED <<inbox, inboxClosed, sent, turn_inputs, fn, sr, version, mutations, rt, err_holder,
                     fin, beat, watch, abort, storeKind, snapshots, failures, told>>
  BY DEF RunFinish, RunUnchanged, client, session, background, storeVars
<1>2. call["run"] = NoCall /\ ~Called("run") /\ ~Detached /\ fin = "none"
  BY <1>1 DEF IInv, CallsInOrder, Called, Detached, NoCall
<1>3. fwd'.at = "done"
  BY <1>1 DEF IInv, TypeOK, ClientTypeOK
<1>4. call \in [Tasks -> {NoCall} \cup Calls] /\ "run" \in Tasks
  BY DEF IInv, TypeOK, StoreTypeOK, Tasks
<1>5. nextId \in Ids /\ rt.last_snapshot < nextId
  BY <1>1, RoomForOneMore DEF IInv, IdsSuffice
<1>6. CASE run' = "raised" /\ running' = Idle /\ UNCHANGED <<out, call, nextId>>
  BY <1>1, <1>2, <1>3, <1>4, <1>6 DEF Called, Detached
<1>7. CASE sr.last_turn_error /\ FailedOutput
  <2>1. CASE /\ Return("failed", IF HasStore /\ rt.last_snapshot_version = sr.last_good_state
                                   THEN rt.last_snapshot ELSE None)
             /\ running' = Idle /\ UNCHANGED <<call, nextId>>
    BY <1>1, <1>2, <1>3, <1>4, <1>7, <2>1 DEF Return, Called, Detached
  <2>2. CASE /\ HasStore /\ Issue("run", nextId, "settle", NewRow("completed", sr.last_good_state))
             /\ nextId' = nextId + 1 /\ run' = "recovering" /\ UNCHANGED out
    <3>1. NewRow("completed", sr.last_good_state) \in WrittenRows
      BY TypeFacts DEF NewRow, WrittenRows, Statuses, TERMINAL_STATUSES
    <3>2. /\ call'["run"] = [phase |-> "issued", id |-> nextId, mutator |-> "settle",
                             row |-> NewRow("completed", sr.last_good_state)]
          /\ \A u \in Tasks \ {"run"} : call'[u] = call[u]
          /\ call' \in [Tasks -> {NoCall} \cup Calls]
          /\ running' = (IF StoreYields THEN Idle ELSE "run")
      BY <1>4, <1>5, <2>2, <3>1, IssueFacts
    <3> QED
      BY <1>1, <1>2, <1>3, <1>5, <1>7, <2>2, <3>2 DEF NewRow, Called, Detached
  <2> QED
    BY <1>7, <2>1, <2>2 DEF FailedOutput
<1>8. CASE ~sr.last_turn_error /\ NormalOutput
  <2>1. CASE /\ ~SnapshotNeeded(FALSE) /\ Return(sr.last_turn_finish_reason, rt.last_snapshot)
             /\ running' = Idle /\ UNCHANGED <<call, nextId>>
    <3>1. HasStore => rt.last_snapshot # None /\ rt.last_snapshot_version = version
      BY <2>1 DEF SnapshotNeeded
    <3> QED
      BY <1>1, <1>2, <1>3, <1>4, <1>8, <2>1, <3>1 DEF Return, Called, Detached
  <2>2. CASE /\ SnapshotNeeded(FALSE) /\ Issue("run", nextId, "settle", NewRow("completed", version))
             /\ nextId' = nextId + 1 /\ run' = "finishing" /\ UNCHANGED out
    <3>1. NewRow("completed", version) \in WrittenRows
      BY TypeFacts DEF NewRow, WrittenRows, Statuses, TERMINAL_STATUSES
    <3>2. /\ call'["run"] = [phase |-> "issued", id |-> nextId, mutator |-> "settle",
                             row |-> NewRow("completed", version)]
          /\ \A u \in Tasks \ {"run"} : call'[u] = call[u]
          /\ call' \in [Tasks -> {NoCall} \cup Calls]
          /\ running' = (IF StoreYields THEN Idle ELSE "run")
      BY <1>4, <1>5, <2>2, <3>1, IssueFacts
    <3>3. HasStore
      BY <2>2 DEF SnapshotNeeded
    <3> QED
      BY <1>1, <1>2, <1>3, <1>5, <1>8, <2>2, <3>2, <3>3 DEF NewRow, Called, Detached
  <2> QED
    BY <1>8, <2>1, <2>2 DEF NormalOutput
<1> QED
  BY <1>6, <1>7, <1>8 DEF RunFinish

\* The end of run() keeps the types.
LEMMA RunFinish_TypeOK ==
  ASSUME IInv, RunFinish PROVE TypeOK'
<1>1. ClientTypeOK'
  BY RunFinishFacts DEF IInv, TypeOK, ClientTypeOK
<1>2. RunTypeOK'
  <2>1. out' \in [reason : Reasons \cup {"detached"}, id : Ids \cup {None}]
    BY RunFinishFacts, TypeFacts DEF IInv, TypeOK, RunTypeOK, RunnerTypeOK, Runners, Reasons
  <2> QED
    BY <2>1, RunFinishFacts DEF IInv, TypeOK, RunTypeOK
<1>3. RunnerTypeOK'
  BY RunFinishFacts DEF IInv, TypeOK, RunnerTypeOK, Tasks
<1>4. StoreTypeOK'
  <2>1. nextId' \in Nat /\ nextId' >= 2
    BY RunFinishFacts, TypeFacts
  <2> QED
    BY <2>1, RunFinishFacts DEF IInv, TypeOK, StoreTypeOK
<1> QED
  BY <1>1, <1>2, <1>3, <1>4 DEF TypeOK

\* The end of run() keeps an id for every input.
LEMMA RunFinish_IdsSuffice ==
  ASSUME IInv, RunFinish PROVE IdsSuffice'
<1>1. nextId' \in Nat /\ nextId' <= nextId + 1 /\ nextId' >= nextId /\ nextId \in Nat
  BY RunFinishFacts, TypeFacts
<1>2. nextId' + Len(inbox') + Len(turn_inputs') + (IF fwd'.at = "putting" THEN 1 ELSE 0)
            + (IF run' = "waiting" THEN 1 ELSE 0) <= sent' + 3
  <2>1. UNCHANGED <<inbox, turn_inputs, sent>> /\ run = "waiting" /\ run' # "waiting" /\ fwd'.at = "done"
    BY RunFinishFacts
  <2>2. Len(inbox) \in Nat /\ Len(turn_inputs) \in Nat /\ sent \in Int
    BY TypeFacts
  <2> QED
    BY <1>1, <2>1, <2>2 DEF IInv, IdsSuffice
<1>3. \A u \in Tasks \ {"run"} : Called(u) => call[u].id < nextId /\ call[u].id \in Nat
  BY CallFacts DEF IInv, IdsSuffice, Called, NoCall, Calls, Ids
<1>4. Called("run")' => call'["run"].id < nextId'
  BY <1>1, RunFinishFacts DEF Called, NoCall
<1>5. \A u \in Tasks : Called(u)' => call'[u].id < nextId'
  BY <1>1, <1>3, <1>4, RunFinishFacts
<1>6. /\ rt.last_snapshot < nextId' /\ sr.new_snapshot_id < nextId' /\ sr.current_turn_snapshot_id < nextId'
  <2>1. /\ rt.last_snapshot < nextId /\ sr.new_snapshot_id < nextId /\ sr.current_turn_snapshot_id < nextId
    BY DEF IInv, IdsSuffice
  <2>2. rt.last_snapshot \in Nat /\ sr.new_snapshot_id \in Nat /\ sr.current_turn_snapshot_id \in Nat
    BY IdsAreNumbers
  <2> QED
    BY <1>1, <2>1, <2>2
<1>7. \A id \in Ids : id >= nextId' => Absent(snapshots[id])
  BY <1>1 DEF IInv, IdsSuffice, Ids
<1>8. UNCHANGED <<rt, sr, snapshots>>
  BY RunFinishFacts
<1> QED
  BY <1>2, <1>5, <1>6, <1>7, <1>8 DEF IdsSuffice, Absent

\* The end of run() keeps the order of a detach.
LEMMA RunFinish_DetachOrder ==
  ASSUME IInv, RunFinish PROVE DetachOrder'
  BY RunFinishFacts DEF IInv, DetachOrder

\* The end of run() keeps the ids that the runner holds.
LEMMA RunFinish_RunnerIds ==
  ASSUME IInv, RunFinish PROVE RunnerIds'
  BY RunFinishFacts DEF IInv, RunnerIds, HasStore

\* The end of run() keeps the calls in order.
LEMMA RunFinish_CallsInOrder ==
  ASSUME IInv, RunFinish PROVE CallsInOrder'
<1>1. Tasks = {"fwd", "fn", "run", "fin", "beat", "watch", "abort"}
  BY DEF Tasks
<1>2. \A t \in {"fin", "beat", "abort"} : call[t] = NoCall
  BY RunFinishFacts DEF IInv, CallsInOrder
<1>3. out'.reason # "detached"
  BY RunFinishFacts DEF IInv, CallsInOrder, TypeOK, RunnerTypeOK, Runners, Reasons
<1>4. Called("run")' => call'["run"].mutator = "settle" /\ HasStore
  BY RunFinishFacts DEF Called, NoCall
<1>5. /\ run' \in {"recovering", "finishing"} => Called("run")'
      /\ run' \in {"returned", "raised"} => call'["run"].phase # "issued"
      /\ run' \in {"recovering", "finishing", "returned", "raised"} /\ fn' = "done"
      /\ run' # "returned" => out' = out
  BY RunFinishFacts DEF Called, NoCall
<1>6. /\ call'["fn"] = call["fn"] /\ call'["fwd"] = call["fwd"] /\ call'["watch"] = call["watch"]
      /\ \A t \in {"fin", "beat", "abort"} : call'[t] = call[t]
      /\ UNCHANGED <<fin, beat, watch, abort, storeKind, fn>> /\ run = "waiting" /\ ~Detached' /\ fin = "none"
  BY <1>1, RunFinishFacts
<1> QED
  BY <1>2, <1>3, <1>4, <1>5, <1>6 DEF IInv, CallsInOrder, HasStore, Called, NoCall

\* The end of run() keeps the loop with the task that saves.
LEMMA RunFinish_SavesKeepTheLoop ==
  ASSUME IInv, RunFinish PROVE SavesKeepTheLoop'
<1> SUFFICES ASSUME ~StoreYields PROVE SavesKeepTheLoop'
  BY RunFinishFacts DEF SavesKeepTheLoop, StoreYields
<1>1. running \in {Idle, "run"}
  BY RunFinishFacts DEF CanRun
<1>2. /\ \A u \in Tasks \ {"run"} : call[u].phase # "issued"
      /\ fn # "saving" /\ fin # "saving" /\ beat.at # "saving" /\ abort.at # "saving"
  BY <1>1 DEF IInv, SavesKeepTheLoop, Idle, Tasks
<1> QED
  BY <1>2, RunFinishFacts DEF SavesKeepTheLoop, NoCall

\* The end of run() keeps every parent in the store.
LEMMA RunFinish_ParentsAreThere ==
  ASSUME IInv, RunFinish PROVE ParentsAreThere'
<1>1. Called("run")' => /\ call'["run"].phase = "issued" /\ call'["run"].row.parent = rt.last_snapshot
                        /\ rt.last_snapshot < call'["run"].id
  BY RunFinishFacts DEF Called, NoCall
<1>2. \A u \in Tasks \ {"run"} : call'[u] = call[u] /\ (Called(u)' <=> Called(u))
  BY RunFinishFacts
<1>3. UNCHANGED <<rt, snapshots>>
  BY RunFinishFacts
<1> QED
  BY <1>1, <1>2, <1>3 DEF IInv, ParentsAreThere, Absent

\* The end of run() keeps the rows of turnEnd chunks from being written.
LEMMA RunFinish_ToldRowsAreOver ==
  ASSUME IInv, RunFinish PROVE ToldRowsAreOver'
<1>1. Called("run")' => rt.last_snapshot < call'["run"].id /\ call'["run"].id \in Nat
  BY RunFinishFacts DEF Called, NoCall, Ids
<1>2. rt.last_snapshot \in Nat /\ \A chunk \in told : chunk.id \in Nat /\ chunk.id <= rt.last_snapshot
  BY IdsAreNumbers DEF IInv, ToldRowsAreOver
<1>3. UNCHANGED <<told, rt>>
  BY RunFinishFacts
<1> QED
  BY <1>1, <1>2, <1>3 DEF ToldRowsAreOver

\* The end of run() keeps what is saved true to the session.
LEMMA RunFinish_SavedRows ==
  ASSUME IInv, RunFinish PROVE SavedRows'
  BY RunFinishFacts DEF SavedRows

\* The end of run() keeps the rows of an attached run undisturbed.
LEMMA RunFinish_AttachedRows ==
  ASSUME IInv, RunFinish PROVE AttachedRows'
<1>1. run' \in {"recovering", "finishing"} => Undisturbed("run")'
  <2>1. nextId \in Ids => Absent(snapshots[nextId])
    BY TypeFacts DEF IInv, IdsSuffice
  <2> QED
    BY <2>1, RunFinishFacts DEF Undisturbed, Absent
<1> QED
  BY <1>1, RunFinishFacts DEF IInv, AttachedRows

\* The end of run() keeps the versions in order.
LEMMA RunFinish_VersionsInOrder ==
  ASSUME IInv, RunFinish PROVE VersionsInOrder'
  BY RunFinishFacts DEF IInv, VersionsInOrder, TurnsAddMessages

\* The end of run() keeps a failed row telling of a failed turn.
LEMMA RunFinish_FailedRowTellsTheTurn ==
  ASSUME IInv, RunFinish PROVE FailedRowTellsTheTurn'
  BY RunFinishFacts DEF IInv, FailedRowTellsTheTurn, TurnsAddMessages

\* The end of run() keeps what an abort has answered.
LEMMA RunFinish_AbortCommitted ==
  ASSUME IInv, RunFinish PROVE AbortCommitted'
<1>1. "abort" \in Tasks \ {"run"}
  BY DEF Tasks
<1> QED
  BY <1>1, RunFinishFacts DEF IInv, AbortCommitted

\* The end of run() keeps the row of a detach in step with the work.
LEMMA RunFinish_DetachedRow ==
  ASSUME IInv, RunFinish PROVE DetachedRow'
  BY RunFinishFacts DEF DetachedRow

\* The end of run() keeps the answers durable.
LEMMA RunFinish_AnswersAreDurable ==
  ASSUME IInv, RunFinish PROVE AnswersAreDurable'
<1>1. (run' = "returned" /\ out'.reason \in {"stop", "none"} /\ HasStore)
        => /\ out'.id # None
           /\ snapshots[out'.id].status \in {"completed", "failed"} /\ snapshots[out'.id].state = version
           /\ TurnsAddMessages => snapshots[out'.id].status = "completed"
  <2> SUFFICES ASSUME run' = "returned", out'.reason \in {"stop", "none"}, HasStore
               PROVE  /\ out'.id # None
                      /\ snapshots[out'.id].status \in {"completed", "failed"}
                      /\ snapshots[out'.id].state = version
                      /\ TurnsAddMessages => snapshots[out'.id].status = "completed"
    OBVIOUS
  <2>1. /\ out'.id # None /\ out'.id = rt.last_snapshot /\ rt.last_snapshot_version = version
        /\ sr.last_turn_finish_reason \in {"stop", "none"} /\ ~Detached
    BY RunFinishFacts
  <2> QED
    BY <2>1 DEF IInv, AttachedRows, FailedRowTellsTheTurn
<1> QED
  BY <1>1, RunFinishFacts DEF IInv, AnswersAreDurable, Row, HasStore, TurnsAddMessages

\* The end of run() keeps the last-good answer after a failure.
LEMMA RunFinish_FailureResumesLastGood ==
  ASSUME IInv, RunFinish PROVE FailureResumesLastGood'
<1>1. (run' = "returned" /\ out'.reason = "failed" /\ sr.last_turn_error /\ out'.id # None)
        => /\ snapshots[out'.id].state = sr.last_good_state
           /\ TurnsAddMessages =>
                snapshots[out'.id].status = "completed" \/ sr.last_good_finish_reason = "failed"
  <2> SUFFICES ASSUME run' = "returned", sr.last_turn_error, out'.id # None
               PROVE  /\ snapshots[out'.id].state = sr.last_good_state
                      /\ TurnsAddMessages =>
                           snapshots[out'.id].status = "completed" \/ sr.last_good_finish_reason = "failed"
    OBVIOUS
  <2>1. out'.id = rt.last_snapshot /\ rt.last_snapshot_version = sr.last_good_state /\ ~Detached
    BY RunFinishFacts
  <2> QED
    BY <2>1 DEF IInv, AttachedRows, FailedRowTellsTheTurn
<1> QED
  BY <1>1, RunFinishFacts DEF FailureResumesLastGood, Row, TurnsAddMessages

\* The end of run() keeps the rows of the store a chain.
LEMMA RunFinish_HistoryIsAChain ==
  ASSUME IInv, RunFinish PROVE HistoryIsAChain'
  BY RunFinishFacts DEF IInv, HistoryIsAChain, Absent

\* run() answers with the row it saved.
LEMMA RunSavedFacts ==
  ASSUME IInv, RunSaved
  PROVE  /\ CanRun("run") /\ run \in {"recovering", "finishing"} /\ run' = "returned" /\ running' = Idle
         /\ fn = "done" /\ ~Detached /\ HasStore /\ fin = "none"
         /\ call["run"] \in Calls /\ call["run"].phase = "saved"
         /\ snapshots[call["run"].id] = call["run"].row
         /\ call["run"].row.status = "completed"
         /\ call["run"].row.state = (IF run = "recovering" THEN sr.last_good_state ELSE version)
         /\ rt' = [rt EXCEPT !.last_snapshot = call["run"].id, !.last_snapshot_version = call["run"].row.state]
         /\ rt'.last_snapshot = call["run"].id /\ rt'.last_snapshot_version = call["run"].row.state
         /\ rt'.detached = rt.detached /\ rt'.detach_future = rt.detach_future
         /\ out' = [reason |-> IF run = "recovering" THEN "failed" ELSE sr.last_turn_finish_reason,
                    id |-> call["run"].id]
         /\ UNCHANGED <<inbox, inboxClosed, sent, turn_inputs, closed, fwd, fn, sr, version, mutations, err_holder,
                        fin, beat, watch, abort, storeKind, snapshots, failures, nextId, told, call>>
<1>1. /\ CanRun("run") /\ run \in {"recovering", "finishing"} /\ run' = "returned" /\ running' = Idle
      /\ call["run"].phase \in {"saved", "skipped"}
      /\ rt' = (IF call["run"].phase = "saved"
                  THEN [rt EXCEPT !.last_snapshot = call["run"].id,
                                  !.last_snapshot_version = IF run = "recovering" THEN sr.last_good_state ELSE version]
                  ELSE rt)
      /\ out' = [reason |-> IF run = "recovering" THEN "failed" ELSE sr.last_turn_finish_reason,
                 id |-> rt'.last_snapshot]
      /\ UNCHANGED <<inbox, inboxClosed, sent, turn_inputs, closed, fwd, fn, sr, version, mutations, err_holder,
                     fin, beat, watch, abort, storeKind, snapshots, failures, nextId, told, call>>
  BY DEF RunSaved, AfterSave, Return, RunUnchanged, client, session, background, storeVars
<1>2. Called("run") /\ ~Detached /\ fn = "done" /\ HasStore /\ fin = "none"
  BY <1>1 DEF IInv, CallsInOrder
<1>3. call["run"].phase = "saved" /\ snapshots[call["run"].id] = call["run"].row
  BY <1>1, <1>2 DEF IInv, AttachedRows, Undisturbed
<1>4. call["run"] \in Calls
  BY <1>3, CallFacts DEF NoCall, Tasks
<1>5. /\ call["run"].row.status = "completed"
      /\ call["run"].row.state = (IF run = "recovering" THEN sr.last_good_state ELSE version)
  BY <1>1 DEF IInv, SavedRows
<1>6. /\ rt' = [rt EXCEPT !.last_snapshot = call["run"].id, !.last_snapshot_version = call["run"].row.state]
  BY <1>1, <1>3, <1>5
<1>7. /\ rt'.last_snapshot = call["run"].id /\ rt'.last_snapshot_version = call["run"].row.state
      /\ rt'.detached = rt.detached /\ rt'.detach_future = rt.detach_future
  BY <1>6 DEF IInv, TypeOK, RunTypeOK
<1> QED
  BY <1>1, <1>2, <1>3, <1>4, <1>5, <1>6, <1>7

\* The answer of run() keeps the types of run()'s state.
LEMMA RunSaved_RunTypeOK ==
  ASSUME IInv, RunSaved PROVE RunTypeOK'
<1>1. rt' \in [detached : BOOLEAN, detach_future : BOOLEAN, abort_signal : BOOLEAN,
               last_snapshot : Ids \cup {None}, last_snapshot_version : Nat \cup {-1}]
  BY RunSavedFacts DEF IInv, TypeOK, RunTypeOK, Calls, WrittenRows
<1>2. out' \in [reason : Reasons \cup {"detached"}, id : Ids \cup {None}]
  BY RunSavedFacts DEF IInv, TypeOK, RunnerTypeOK, Runners, Reasons, Calls
<1> QED
  BY <1>1, <1>2, RunSavedFacts DEF IInv, TypeOK, RunTypeOK

\* The answer of run() keeps an id for every input.
LEMMA RunSaved_IdsSuffice ==
  ASSUME IInv, RunSaved PROVE IdsSuffice'
<1>1. rt'.last_snapshot < nextId
  BY RunSavedFacts DEF IInv, IdsSuffice, Called, Tasks
<1>2. run' # "waiting" /\ run # "waiting"
  BY RunSavedFacts
<1> QED
  BY <1>1, <1>2, RunSavedFacts DEF IInv, IdsSuffice, Called, Absent

\* The answer of run() keeps the ids that the runner holds.
LEMMA RunSaved_RunnerIds ==
  ASSUME IInv, RunSaved PROVE RunnerIds'
  BY RunSavedFacts DEF IInv, RunnerIds, HasStore

\* The answer of run() keeps the calls in order.
LEMMA RunSaved_CallsInOrder ==
  ASSUME IInv, RunSaved PROVE CallsInOrder'
<1>1. out'.reason # "detached"
  BY RunSavedFacts DEF IInv, TypeOK, RunnerTypeOK, Runners, Reasons
<1> QED
  BY <1>1, RunSavedFacts DEF IInv, CallsInOrder, HasStore, Called, Detached

\* The answer of run() keeps every parent in the store.
LEMMA RunSaved_ParentsAreThere ==
  ASSUME IInv, RunSaved PROVE ParentsAreThere'
<1>1. ~Absent(snapshots[rt'.last_snapshot])
  BY RunSavedFacts DEF Absent
<1> QED
  BY <1>1, RunSavedFacts DEF IInv, ParentsAreThere, Absent, Called

\* The answer of run() keeps the rows of turnEnd chunks from being written.
LEMMA RunSaved_ToldRowsAreOver ==
  ASSUME IInv, RunSaved PROVE ToldRowsAreOver'
<1>1. \A chunk \in told : chunk.id < call["run"].id /\ chunk.id \in Nat /\ call["run"].id \in Nat
  <2>1. Called("run") /\ call["run"] \in Calls
    BY RunSavedFacts DEF Called, Calls
  <2> QED
    BY <2>1, IdsAreNumbers DEF IInv, ToldRowsAreOver, Calls, Ids
<1> QED
  BY <1>1, RunSavedFacts DEF ToldRowsAreOver

\* The answer of run() keeps the rows of an attached run undisturbed.
LEMMA RunSaved_AttachedRows ==
  ASSUME IInv, RunSaved PROVE AttachedRows'
  BY RunSavedFacts DEF AttachedRows

\* The answer of run() keeps the versions in order.
LEMMA RunSaved_VersionsInOrder ==
  ASSUME IInv, RunSaved PROVE VersionsInOrder'
<1>1. rt'.last_snapshot_version \in {sr.last_good_state, version} /\ version <= version
  BY RunSavedFacts, TypeFacts
<1> QED
  BY <1>1, RunSavedFacts DEF IInv, VersionsInOrder

\* The answer of run() keeps a failed row telling of a failed turn.
LEMMA RunSaved_FailedRowTellsTheTurn ==
  ASSUME IInv, RunSaved PROVE FailedRowTellsTheTurn'
  BY RunSavedFacts DEF FailedRowTellsTheTurn

\* The answer of run() keeps the answers durable.
LEMMA RunSaved_AnswersAreDurable ==
  ASSUME IInv, RunSaved PROVE AnswersAreDurable'
<1>1. out'.id = call["run"].id /\ out'.id # None /\ snapshots[out'.id].status = "completed"
  BY RunSavedFacts DEF Calls, Ids, None
<1>2. out'.reason \in {"stop", "none"} => snapshots[out'.id].state = version
  BY RunSavedFacts
<1> QED
  BY <1>1, <1>2, RunSavedFacts DEF IInv, AnswersAreDurable, Row, HasStore

\* The answer of run() keeps the last-good answer after a failure.
LEMMA RunSaved_FailureResumesLastGood ==
  ASSUME IInv, RunSaved PROVE FailureResumesLastGood'
<1>1. out'.id = call["run"].id /\ snapshots[out'.id].status = "completed"
      /\ (sr.last_turn_error => snapshots[out'.id].state = sr.last_good_state)
  BY RunSavedFacts DEF IInv, SavedRows
<1> QED
  BY <1>1, RunSavedFacts DEF FailureResumesLastGood, Row

\* run() answers with the row it saved.
LEMMA RunSavedStep ==
  ASSUME IInv, RunSaved PROVE IInv'
<1>1. /\ CanRun("run") /\ run \in {"recovering", "finishing"} /\ run' = "returned" /\ running' = Idle
      /\ UNCHANGED <<inbox, inboxClosed, sent, turn_inputs, closed, fwd, fn, sr, version, mutations,
                    err_holder, fin, beat, watch, abort, storeKind, snapshots, failures, call, nextId, told>>
  BY DEF RunSaved, RunUnchanged, Return, client, queue, session, background, storeVars
<1>2. ClientTypeOK' /\ StoreTypeOK' /\ AbortCommitted' /\ HistoryIsAChain'
  BY <1>1 DEF IInv, TypeOK, ClientTypeOK, StoreTypeOK, AbortCommitted, HistoryIsAChain, Absent
<1>3. RunnerTypeOK'
  BY <1>1, RunSavedFacts DEF IInv, RunnerTypeOK, TypeOK
<1>4. RunTypeOK'
  BY RunSaved_RunTypeOK
<1>5. IdsSuffice'
  BY RunSaved_IdsSuffice
<1>6. DetachOrder'
  BY <1>1, RunSavedFacts DEF IInv, DetachOrder, Detached, Called
<1>7. RunnerIds'
  BY RunSaved_RunnerIds
<1>8. CallsInOrder'
  BY RunSaved_CallsInOrder
<1>9. SavesKeepTheLoop'
  BY <1>1, RunSavedFacts DEF IInv, SavesKeepTheLoop, StoreYields, Detached, Called, CanRun
<1>10. ParentsAreThere'
  BY RunSaved_ParentsAreThere
<1>11. ToldRowsAreOver'
  BY RunSaved_ToldRowsAreOver
<1>12. SavedRows'
  BY <1>1, RunSavedFacts DEF IInv, SavedRows
<1>13. AttachedRows'
  BY RunSaved_AttachedRows
<1>14. VersionsInOrder'
  BY RunSaved_VersionsInOrder
<1>15. FailedRowTellsTheTurn'
  BY RunSaved_FailedRowTellsTheTurn
<1>16. DetachedRow'
  BY <1>1, RunSavedFacts DEF IInv, DetachedRow, StoreYields, Absent, TellsTheWork
<1>17. AnswersAreDurable'
  BY RunSaved_AnswersAreDurable
<1>18. FailureResumesLastGood'
  BY RunSaved_FailureResumesLastGood
<1> QED
  BY <1>2, <1>3, <1>4, <1>5, <1>6, <1>7, <1>8, <1>9, <1>10, <1>11, <1>12, <1>13, <1>14, <1>15, <1>16, <1>17,
     <1>18 DEF IInv, TypeOK

-----------------------------------------------------------------------------
\* Every action keeps the invariant.

\* A turn that ends, however it ended.
LEMMA TurnEndsStep ==
  ASSUME IInv, NEW r \in {"stop", "failed"}, NEW e \in BOOLEAN, TurnEnds(r, e) PROVE IInv'
  BY TurnEnds_TypeOK, TurnEnds_IdsSuffice, TurnEnds_DetachOrder, TurnEnds_RunnerIds, TurnEnds_CallsInOrder,
     TurnEnds_SavesKeepTheLoop, TurnEnds_ParentsAreThere, TurnEnds_ToldRowsAreOver, TurnEnds_SavedRows,
     TurnEnds_AttachedRows, TurnEnds_VersionsInOrder, TurnEnds_FailedRowTellsTheTurn, TurnEnds_AbortCommitted,
     TurnEnds_DetachedRow, TurnEnds_AnswersAreDurable, TurnEnds_FailureResumesLastGood, TurnEnds_HistoryIsAChain
  DEF IInv

\* A turn-end save that returned.
LEMMA TurnSavedStep ==
  ASSUME IInv, TurnSaved PROVE IInv'
  BY TurnSaved_TypeOK, TurnSaved_IdsSuffice, TurnSaved_DetachOrder, TurnSaved_RunnerIds,
     TurnSaved_CallsInOrder,
     TurnSaved_SavesKeepTheLoop, TurnSaved_ParentsAreThere, TurnSaved_ToldRowsAreOver, TurnSaved_SavedRows,
     TurnSaved_AttachedRows, TurnSaved_VersionsInOrder, TurnSaved_FailedRowTellsTheTurn, TurnSaved_AbortCommitted,
     TurnSaved_DetachedRow, TurnSaved_AnswersAreDurable, TurnSaved_FailureResumesLastGood, TurnSaved_HistoryIsAChain
  DEF IInv

\* The agent function has ended and run() answers.
LEMMA RunFinishStep ==
  ASSUME IInv, RunFinish PROVE IInv'
  BY RunFinish_TypeOK, RunFinish_IdsSuffice, RunFinish_DetachOrder, RunFinish_RunnerIds,
     RunFinish_CallsInOrder,
     RunFinish_SavesKeepTheLoop, RunFinish_ParentsAreThere, RunFinish_ToldRowsAreOver, RunFinish_SavedRows,
     RunFinish_AttachedRows, RunFinish_VersionsInOrder, RunFinish_FailedRowTellsTheTurn, RunFinish_AbortCommitted,
     RunFinish_DetachedRow, RunFinish_AnswersAreDurable, RunFinish_FailureResumesLastGood, RunFinish_HistoryIsAChain
  DEF IInv

\* The store commits a call, or refuses it, or raises.
LEMMA CommitStep ==
  ASSUME IInv, NEW t \in Tasks, Commit(t) PROVE IInv'
  BY Commit_TypeOK, Commit_IdsSuffice, Commit_DetachOrder, Commit_RunnerIds, Commit_CallsInOrder,
     Commit_SavesKeepTheLoop, Commit_ParentsAreThere, Commit_ToldRowsAreOver, Commit_SavedRows,
     Commit_AttachedRows, Commit_VersionsInOrder, Commit_FailedRowTellsTheTurn, Commit_AbortCommitted,
     Commit_DetachedRow, Commit_AnswersAreDurable, Commit_FailureResumesLastGood, Commit_HistoryIsAChain
  DEF IInv

\* The handler returned or raised.
LEMMA HandlerStep ==
  ASSUME IInv, HandlerRaises \/ \E reason \in {"stop", "failed"} : HandlerReturns(reason)
  PROVE  IInv'
<1>1. CASE HandlerRaises
  <2>1. TurnEnds("failed", TRUE)
    BY <1>1 DEF HandlerRaises, TurnEnds, Failed, FnUnchanged, client, queue, session, background, storeVars
  <2> QED
    BY <2>1, TurnEndsStep
<1>2. CASE \E reason \in {"stop", "failed"} : HandlerReturns(reason)
  <2>1. PICK reason \in {"stop", "failed"} : HandlerReturns(reason)
    BY <1>2
  <2>2. TurnEnds(reason, FALSE)
    BY <2>1 DEF HandlerReturns, TurnEnds, FnUnchanged, client, queue, session, background, storeVars
  <2> QED
    BY <2>2, TurnEndsStep
<1> QED
  BY <1>1, <1>2

\* The save of a turn raised: the turn is saved as a failed one, or the function raises.
LEMMA TurnSaveRaisedStep ==
  ASSUME IInv, TurnSaveRaised PROVE IInv'
<1>1. CASE ~sr.last_turn_error
  <2>1. TurnEnds("failed", TRUE)
    BY <1>1 DEF TurnSaveRaised, TurnEnds, Failed, FnUnchanged, client, queue, session, background, storeVars
  <2> QED
    BY <2>1, TurnEndsStep
<1>2. CASE sr.last_turn_error
  <2>1. /\ CanRun("fn") /\ fn = "saving" /\ fn' = "done" /\ closed' = TRUE /\ running' = Idle /\ err_holder' = TRUE
        /\ sr' = [sr EXCEPT !.current_turn_snapshot_id = None]
        /\ call' = [call EXCEPT !["fn"] = NoCall]
        /\ UNCHANGED <<inbox, inboxClosed, sent, turn_inputs, fwd, version, mutations, rt, run, out, fin, beat, watch,
                       abort, storeKind, snapshots, failures, nextId, told>>
    BY <1>2 DEF TurnSaveRaised, FnDone, FnUnchanged, client, queue, session, background, storeVars
  <2>2. /\ sr' \in Runners /\ sr'.current_turn_snapshot_id = None /\ sr'.new_snapshot_id = sr.new_snapshot_id
        /\ sr'.last_turn_finish_reason = sr.last_turn_finish_reason /\ sr'.last_turn_error = sr.last_turn_error
        /\ sr'.last_good_state = sr.last_good_state /\ sr'.last_good_finish_reason = sr.last_good_finish_reason
    BY <2>1 DEF IInv, TypeOK, RunnerTypeOK, Runners, None
  <2>3. /\ call'["fn"] = NoCall /\ call' \in [Tasks -> {NoCall} \cup Calls] /\ ~Called("fn")'
        /\ \A u \in Tasks \ {"fn"} : call'[u] = call[u] /\ (Called(u)' <=> Called(u))
        /\ call'["run"] = call["run"] /\ call'["fin"] = call["fin"] /\ call'["beat"] = call["beat"]
        /\ call'["abort"] = call["abort"] /\ call'["fwd"] = call["fwd"] /\ call'["watch"] = call["watch"]
        /\ Detached' <=> Detached
    BY <2>1 DEF Called, NoCall, Detached, Tasks, IInv, TypeOK, StoreTypeOK
  <2>4. fin \in {"none", "waiting"} /\ (run = "returned" => out.reason = "detached")
        /\ run \notin {"recovering", "finishing"}
    BY <2>1 DEF IInv, CallsInOrder, TypeOK, RunTypeOK
  <2>5. ClientTypeOK' /\ RunTypeOK'
    BY <2>1 DEF IInv, TypeOK, ClientTypeOK, RunTypeOK
  <2>6. RunnerTypeOK' /\ StoreTypeOK'
    BY <2>1, <2>2, <2>3 DEF IInv, TypeOK, RunnerTypeOK, StoreTypeOK
  <2>7. IdsSuffice'
    <3>1. None < nextId
      BY TypeFacts DEF None
    <3> QED
      BY <3>1, <2>1, <2>2, <2>3 DEF IInv, IdsSuffice, Absent
  <2>8. DetachOrder' /\ RunnerIds'
    BY <2>1, <2>2, <2>3 DEF IInv, DetachOrder, RunnerIds, HasStore
  <2>9. CallsInOrder'
    BY <2>1, <2>3, <2>4 DEF IInv, CallsInOrder, HasStore, Called
  <2>10. SavesKeepTheLoop'
    BY <2>1, <2>3 DEF IInv, SavesKeepTheLoop, StoreYields, Tasks, NoCall
  <2>11. ParentsAreThere' /\ ToldRowsAreOver'
    BY <2>1, <2>3 DEF IInv, ParentsAreThere, ToldRowsAreOver, Called, Absent
  <2>12. SavedRows' /\ AttachedRows'
    BY <2>1, <2>3, <2>4 DEF IInv, SavedRows, AttachedRows
  <2>13. VersionsInOrder' /\ FailedRowTellsTheTurn' /\ AbortCommitted'
    BY <2>1, <2>2, <2>3 DEF IInv, VersionsInOrder, FailedRowTellsTheTurn, TurnsAddMessages, AbortCommitted
  <2>14. DetachedRow'
    BY <2>1, <2>3, <2>4 DEF IInv, DetachedRow, StoreYields, Absent
  <2>15. AnswersAreDurable' /\ FailureResumesLastGood' /\ HistoryIsAChain'
    BY <2>1, <2>2, <2>4 DEF IInv, AnswersAreDurable, FailureResumesLastGood, HistoryIsAChain, Row,
       HasStore, Absent
  <2> QED
    BY <2>5, <2>6, <2>7, <2>8, <2>9, <2>10, <2>11, <2>12, <2>13, <2>14, <2>15 DEF IInv, TypeOK
<1> QED
  BY <1>1, <1>2 DEF IInv, TypeOK, RunnerTypeOK, Runners

-----------------------------------------------------------------------------
\* The theorems.

\* An invocation starts with the invariant.
LEMMA InitIInv == Init => IInv
<1> SUFFICES ASSUME Init PROVE IInv
  OBVIOUS
<1>1. \A t \in Tasks : call[t] = NoCall
  BY DEF Init
<1>2. ClientTypeOK /\ RunnerTypeOK
  <2>1. fwd.at = "reading" /\ Len(turn_inputs) = 0 /\ 0 \in 0..MaxInputs
    BY RuntimeAssumption DEF Init
  <2>2. ClientTypeOK
    <3>1. inbox \in Seq(InputKinds) /\ turn_inputs \in Seq(Payloads)
      BY DEF Init
    <3>2. fwd \in [at : {"reading", "putting", "signalling", "done"}, item : InputKinds \cup {"message"}]
      BY DEF Init
    <3>3. Len(turn_inputs) <= 1
      BY <2>1
    <3> QED
      BY <2>1, <3>1, <3>2, <3>3 DEF Init, ClientTypeOK
  <2>3. RunnerTypeOK
    BY DEF Init, RunnerTypeOK, Runners, Reasons, None, Tasks, Idle
  <2> QED
    BY <2>2, <2>3
<1>3. RunTypeOK /\ StoreTypeOK
  <2>1. Parent \in Ids
    BY RuntimeAssumption DEF Parent, Ids
  <2>2. RunTypeOK
    BY <2>1 DEF Init, RunTypeOK, Reasons, None
  <2>3. snapshots \in [Ids -> Rows]
    BY <2>1 DEF Init, Ids, Rows, Statuses, TERMINAL_STATUSES, NoRow, None
  <2> QED
    BY <2>2, <2>3 DEF Init, StoreTypeOK
<1>4. IdsSuffice
  BY <1>1 DEF Init, IdsSuffice, Called, NoCall, Absent, NoRow, Parent, None, Ids
<1>5. DetachOrder /\ RunnerIds
  BY <1>1 DEF Init, DetachOrder, RunnerIds, Called, Detached, NoCall, IsDetach, HasStore, Tasks
<1>6. CallsInOrder /\ SavesKeepTheLoop
  BY <1>1 DEF Init, CallsInOrder, SavesKeepTheLoop, Called, Detached, NoCall, Tasks
<1>7. ParentsAreThere /\ ToldRowsAreOver
  BY <1>1, RuntimeAssumption DEF Init, ParentsAreThere, ToldRowsAreOver, Called, NoCall, Absent,
     Parent, None
<1>8. SavedRows
  BY DEF Init, SavedRows
<1>9. AttachedRows /\ VersionsInOrder /\ FailedRowTellsTheTurn
  BY RuntimeAssumption DEF Init, AttachedRows, VersionsInOrder, FailedRowTellsTheTurn, Parent, None
<1>10. AbortCommitted /\ DetachedRow
  BY <1>1 DEF Init, AbortCommitted, DetachedRow, NoCall, Tasks
<1>11. AnswersAreDurable /\ FailureResumesLastGood /\ HistoryIsAChain
  BY DEF Init, AnswersAreDurable, FailureResumesLastGood, HistoryIsAChain, NoRow, None
<1> QED
  BY <1>2, <1>3, <1>4, <1>5, <1>6, <1>7, <1>8, <1>9, <1>10, <1>11 DEF IInv, TypeOK

\* Every step keeps the invariant.
LEMMA NextIInv == IInv /\ [Next]_vars => IInv'
<1> SUFFICES ASSUME IInv, [Next]_vars PROVE IInv'
  OBVIOUS
<1>1. CASE (\E input \in InputKinds : Send(input)) \/ CloseInput
  BY <1>1, SendStep, CloseInputStep
<1>2. CASE Forwarder
  BY <1>2, FwdTakeStep, FwdPutStep, FwdSignalStep, FwdEndStep DEF Forwarder
<1>3. CASE FnStep \/ Suspend \/ Mutate
  BY <1>3, BeginTurnStep, EndLoopStep, TurnSavedStep, TurnSaveRaisedStep, HandlerStep, FnReturnsStep,
     SuspendStep,
     MutateStep DEF FnStep
<1>4. CASE RunStep
  BY <1>4, RunDetachStep, RunDetachedStep, RunDetachNoStoreStep, RunDrainedStep, RunFinishStep,
     RunSavedStep,
     RunSaveRaisedStep DEF RunStep
<1>5. CASE Background
  BY <1>5, FinalizeStep, FinalizedStep, BeatStep, BeatenStep, WatchStartStep, WatchEndStep,
     AbortStep, AbortedStep
  DEF Background
<1>6. CASE \E t \in Tasks : Commit(t)
  BY <1>6, CommitStep
<1>7. CASE UNCHANGED vars
  <2>1. /\ UNCHANGED <<running, inbox, inboxClosed, sent, turn_inputs, closed, fwd, fn, sr, version, mutations, rt, run>>
        /\ UNCHANGED <<out, err_holder, fin, beat, watch, abort, storeKind, snapshots, failures, call, nextId, told>>
    BY <1>7 DEF vars, client, queue, session, background, storeVars
  <2>2. /\ ClientTypeOK' /\ RunnerTypeOK' /\ RunTypeOK' /\ StoreTypeOK' /\ IdsSuffice' /\ DetachOrder' /\ RunnerIds'
        /\ CallsInOrder' /\ SavesKeepTheLoop' /\ ParentsAreThere' /\ ToldRowsAreOver'
    BY <2>1 DEF IInv, TypeOK, ClientTypeOK, RunnerTypeOK, RunTypeOK, StoreTypeOK, IdsSuffice,
       DetachOrder, RunnerIds,
       CallsInOrder, SavesKeepTheLoop, ParentsAreThere, ToldRowsAreOver, Called, Detached, HasStore, StoreYields, Absent
  <2>3. /\ SavedRows' /\ AttachedRows' /\ VersionsInOrder' /\ FailedRowTellsTheTurn' /\ AbortCommitted' /\ DetachedRow'
        /\ AnswersAreDurable' /\ FailureResumesLastGood' /\ HistoryIsAChain'
    BY <2>1 DEF IInv, SavedRows, AttachedRows, VersionsInOrder, FailedRowTellsTheTurn,
       AbortCommitted, DetachedRow,
       AnswersAreDurable, FailureResumesLastGood, HistoryIsAChain, Called, Detached, Undisturbed, TurnsAddMessages,
       HasStore, StoreYields, Absent, TellsTheWork, Row
  <2> QED
    BY <2>2, <2>3 DEF IInv, TypeOK
<1> QED
  BY <1>1, <1>2, <1>3, <1>4, <1>5, <1>6, <1>7 DEF Next

\* The invariant holds in every state of an invocation.
THEOREM Invariance == Spec => []IInv
  BY InitIInv, NextIInv, PTL DEF Spec

\* The snapshot that run() names, or that a turnEnd chunk named, is in the store with the
\* state the client was told of.
THEOREM AnswersAreDurableHolds == Spec => []AnswersAreDurable
<1>1. IInv => AnswersAreDurable
  BY DEF IInv
<1> QED
  BY <1>1, Invariance, PTL

\* An invocation that failed names a row of the last turn that ended well.
THEOREM FailureResumesLastGoodHolds == Spec => []FailureResumesLastGood
<1>1. IInv => FailureResumesLastGood
  BY DEF IInv
<1> QED
  BY <1>1, Invariance, PTL

\* Every row stands on an older row of the store.
THEOREM HistoryIsAChainHolds == Spec => []HistoryIsAChain
<1>1. IInv => HistoryIsAChain
  BY DEF IInv
<1> QED
  BY <1>1, Invariance, PTL

\* The row that a detach answered with is the row of the call of run().
LEMMA DetachedAnswer ==
  ASSUME IInv, out.reason = "detached" \/ fin # "none"
  PROVE  /\ run = "returned" /\ fin # "none" /\ out.id = call["run"].id /\ Row(out.id) = snapshots[call["run"].id]
<1>1. run = "returned" /\ fin # "none" /\ out.id = call["run"].id /\ Detached
  BY DEF IInv, CallsInOrder
<1>2. call["run"].id # None
  BY <1>1, CallFacts DEF Detached, Called, Calls, NoCall, Ids, None, Tasks
<1> QED
  BY <1>1, <1>2 DEF Row

\* With a store that never suspends, the row of a detach is pending while the function works
\* and tells of its work when the finalizer is done.
THEOREM DetachedRowTellsTheWorkHolds == Spec => []DetachedRowTellsTheWork
<1>1. IInv => DetachedRowTellsTheWork
  <2> SUFFICES ASSUME IInv PROVE DetachedRowTellsTheWork
    OBVIOUS
  <2>1. (run = "returned" /\ ~StoreYields /\ out.reason = "detached" /\ fn # "done")
          => Row(out.id).status \in {"pending", "aborted"}
    <3>1. fn # "done" => fin \in {"none", "waiting"}
      BY DEF IInv, CallsInOrder, TypeOK, RunTypeOK
    <3> QED
      BY <3>1, DetachedAnswer DEF IInv, DetachedRow
  <2>2. (fin = "done" /\ ~StoreYields /\ failures = 0 /\ Row(out.id).status # "aborted") => TellsTheWork(Row(out.id))
    BY DetachedAnswer DEF IInv, DetachedRow
  <2> QED
    BY <2>1, <2>2 DEF DetachedRowTellsTheWork, TellsTheWork
<1> QED
  BY <1>1, Invariance, PTL

\* An abort that answered "pending" has settled the row for good.
THEOREM AbortHoldsAlways == Spec => []AbortHolds
<1>1. IInv => AbortHolds
  <2> SUFFICES ASSUME IInv, abort.answer = "pending" PROVE Row(out.id).status = "aborted"
    BY DEF AbortHolds
  <2>1. call["abort"].phase = "saved" /\ abort.at = "done" /\ snapshots[call["abort"].id].status = "aborted"
    BY DEF IInv, AbortCommitted
  <2>2. fin # "none" /\ call["abort"].id = call["run"].id
    BY <2>1 DEF IInv, CallsInOrder, Called
  <2> QED
    BY <2>1, <2>2, DetachedAnswer
<1> QED
  BY <1>1, Invariance, PTL
=============================================================================
