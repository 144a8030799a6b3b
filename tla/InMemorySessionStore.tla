-------------------------- MODULE InMemorySessionStore --------------------------
(***************************************************************************)
(* InMemorySessionStore: a dictionary of snapshot rows, an asyncio lock    *)
(* that is one lock PER EVENT LOOP (SessionStoreLock), and the queues of   *)
(* the status streams.                                                     *)
(*                                                                         *)
(* A save runs in three blocks that a thread switch can separate: take the *)
(* lock and read the row; run the mutator and write the row; notify and    *)
(* release.  Within one event loop the lock keeps two saves apart.  With   *)
(* two loops (the dev reflection server runs agents on a loop of its own)  *)
(* each has its own lock and the blocks interleave.                        *)
(***************************************************************************)
EXTENDS SnapshotRules, Sequences, FiniteSets

CONSTANTS
  Ids,        \* snapshot ids
  Sessions,   \* session ids
  Loops,      \* event loops that use this store object
  Tasks,      \* coroutines that save
  Watchers,   \* coroutines that follow a status stream
  LoopOf,     \* the loop each task and watcher runs on
  MaxSaves    \* bound on the saves of one behaviour

ASSUME SavesAssumption == MaxSaves \in Nat
ASSUME LoopAssumption ==
  /\ LoopOf \in [Tasks \cup Watchers -> Loops]
  /\ Tasks \cap Watchers = {}
  /\ "free" \notin Tasks \cup Watchers

VARIABLES
  snapshots,  \* the rows
  lock,       \* holder of each loop's lock, or "free"
  pc,         \* block each task is at
  job,        \* what each task saves: the mutator, the id and the new row
  existing,   \* the copy of the row each task read
  claims,     \* aborts that answered `pending`, per id
  saves,      \* saves begun: stands for the clock and names each state
  subs,       \* watchers registered for each id
  wpc,        \* life of each stream
  watched,    \* the id each stream follows
  queue,      \* statuses not yet consumed, "end" for the None sentinel
  last        \* the last status each stream yielded

store == <<snapshots, lock, saves>>
taskVars == <<pc, job, existing, claims>>
streams == <<subs, wpc, watched, queue, last>>
vars == <<snapshots, lock, saves, pc, job, existing, claims, subs, wpc, watched, queue, last>>

Mutators == {"pending", "settle", "abort", "beat"}
OwnerChoices == Sessions \cup {NoSession}
Rows == [status : Statuses, owner : OwnerChoices, session : Sessions,
         state : 0..MaxSaves, beat : 0..MaxSaves]
NoRow == [status |-> "absent", owner |-> NoSession, session |-> NoSession, state |-> 0, beat |-> 0]
Jobs == [kind : Mutators, id : Ids, row : Rows]
NoJob == [kind |-> "none"]

\* The rows a mutator may build at this point of the behaviour.  The runtime's
\* mutators leave the top-level session id out; a caller's own may set it.
NewRows ==
  {row \in [status : {"pending", "completed", "failed"}, owner : OwnerChoices,
            session : Sessions, state : {saves + 1}, beat : {saves + 1}] :
     row.owner \in {NoSession, row.session}}

Init ==
  /\ snapshots = [id \in Ids |-> NoRow]
  /\ lock = [l \in Loops |-> "free"]
  /\ saves = 0
  /\ pc = [t \in Tasks |-> "idle"]
  /\ job = [t \in Tasks |-> NoJob]
  /\ existing = [t \in Tasks |-> NoRow]
  /\ claims = [id \in Ids |-> 0]
  /\ subs = [id \in Ids |-> {}]
  /\ wpc = [w \in Watchers |-> "idle"]
  /\ watched \in [Watchers -> Ids]
  /\ queue = [w \in Watchers |-> <<>>]
  /\ last = [w \in Watchers |-> "none"]

\* SessionStoreLock: the lock of the loop that coroutine x runs on is free.
Unlocked(x) == lock[LoopOf[x]] = "free"

-----------------------------------------------------------------------------
(* save_snapshot *)

\* Fault: the save does not wait for the lock.
BeginSaveUnlocked(t) ==
  /\ pc[t] = "idle"
  /\ saves < MaxSaves
  /\ \E kind \in Mutators, id \in Ids, row \in NewRows :
       /\ (row.status = "pending") = (kind = "pending")
       /\ job' = [job EXCEPT ![t] = [kind |-> kind, id |-> id, row |-> row]]
       /\ existing' = [existing EXCEPT ![t] = snapshots[id]]
  /\ saves' = saves + 1
  /\ pc' = [pc EXCEPT ![t] = "read"]
  /\ UNCHANGED <<snapshots, lock, claims, streams>>

\* `async with self.lock` and the read of the row.
BeginSave(t) ==
  /\ pc[t] = "idle"
  /\ saves < MaxSaves
  /\ Unlocked(t)
  /\ \E kind \in Mutators, id \in Ids, row \in NewRows :
       /\ (row.status = "pending") = (kind = "pending")
       /\ job' = [job EXCEPT ![t] = [kind |-> kind, id |-> id, row |-> row]]
       /\ existing' = [existing EXCEPT ![t] = snapshots[id]]
  /\ saves' = saves + 1
  /\ lock' = [lock EXCEPT ![LoopOf[t]] = t]
  /\ pc' = [pc EXCEPT ![t] = "read"]
  /\ UNCHANGED <<snapshots, claims, streams>>

\* The mutator of the task's job applied to the copy it read.
Produced(t) ==
  CASE job[t].kind = "pending" -> {job[t].row}
    [] job[t].kind = "settle"  -> UnlessAborted(existing[t], job[t].row)
    [] job[t].kind = "abort"   -> abort_if_pending(existing[t])
    [] job[t].kind = "beat"    -> BeatIfPending(existing[t], job[t].row.beat)

Persisted(t) == apply_save(existing[t], Produced(t))

\* What an abort answers: _AbortRecorder.previous, unless the save raised.
Claimed(t) ==
  /\ job[t].kind = "abort"
  /\ existing[t].status = "pending"
  /\ ~WasRefused(existing[t], Produced(t))

\* apply_save produced a row: it replaces whatever the id holds NOW.
WriteRow(t) ==
  /\ pc[t] = "read"
  /\ \E row \in Persisted(t) : snapshots' = [snapshots EXCEPT ![job[t].id] = row]
  /\ claims' = [claims EXCEPT ![job[t].id] = IF Claimed(t) THEN @ + 1 ELSE @]
  /\ pc' = [pc EXCEPT ![t] = "written"]
  /\ UNCHANGED <<lock, saves, job, existing, streams>>

\* The mutator skipped, or apply_save raised: nothing is written or notified.
NothingToWrite(t) ==
  /\ pc[t] = "read"
  /\ Persisted(t) = {}
  /\ lock' = [lock EXCEPT ![LoopOf[t]] = "free"]
  /\ pc' = [pc EXCEPT ![t] = "idle"]
  /\ job' = [job EXCEPT ![t] = NoJob]
  /\ existing' = [existing EXCEPT ![t] = NoRow]
  /\ UNCHANGED <<snapshots, saves, claims, streams>>

\* Fault: notify without the end-of-stream sentinel.
AnnouncementWithoutEnd(status) == <<status>>

\* What notify puts on a queue for a status.
Announcement(status) ==
  IF status \in TERMINAL_STATUSES THEN <<status, "end">> ELSE <<status>>

\* notify every registered stream of the row this task wrote, release the lock.
Notify(t) ==
  /\ pc[t] = "written"
  /\ \E row \in Persisted(t) :
       queue' = [w \in Watchers |-> IF w \in subs[job[t].id]
                                      THEN queue[w] \o Announcement(row.status)
                                      ELSE queue[w]]
  /\ lock' = [lock EXCEPT ![LoopOf[t]] = "free"]
  /\ pc' = [pc EXCEPT ![t] = "idle"]
  /\ job' = [job EXCEPT ![t] = NoJob]
  /\ existing' = [existing EXCEPT ![t] = NoRow]
  /\ UNCHANGED <<snapshots, saves, claims, subs, wpc, watched, last>>

-----------------------------------------------------------------------------
(* on_snapshot_status_change and the stream it returns *)

\* Fault: the stream starts without the current status.
SeedNothing(w) ==
  /\ wpc[w] = "idle"
  /\ Unlocked(w)
  /\ lock' = [lock EXCEPT ![LoopOf[w]] = w]
  /\ wpc' = [wpc EXCEPT ![w] = "seeded"]
  /\ UNCHANGED <<snapshots, saves, taskVars, subs, watched, queue, last>>

\* Take the lock and seed the queue from the current row.
Seed(w) ==
  /\ wpc[w] = "idle"
  /\ Unlocked(w)
  /\ lock' = [lock EXCEPT ![LoopOf[w]] = w]
  /\ queue' = [queue EXCEPT ![w] = IF Absent(snapshots[watched[w]])
                                     THEN <<>> ELSE Announcement(snapshots[watched[w]].status)]
  /\ wpc' = [wpc EXCEPT ![w] = "seeded"]
  /\ UNCHANGED <<snapshots, saves, taskVars, subs, watched, last>>

\* Register the queue and release the lock.
Register(w) ==
  /\ wpc[w] = "seeded"
  /\ subs' = [subs EXCEPT ![watched[w]] = @ \cup {w}]
  /\ lock' = [lock EXCEPT ![LoopOf[w]] = "free"]
  /\ wpc' = [wpc EXCEPT ![w] = "open"]
  /\ UNCHANGED <<snapshots, saves, taskVars, watched, queue, last>>

\* __anext__ yields a status.
Yield(w) ==
  /\ wpc[w] = "open"
  /\ queue[w] # <<>>
  /\ Head(queue[w]) # "end"
  /\ last' = [last EXCEPT ![w] = Head(queue[w])]
  /\ queue' = [queue EXCEPT ![w] = Tail(queue[w])]
  /\ UNCHANGED <<store, taskVars, subs, wpc, watched>>

\* __anext__ reaches the sentinel and closes the stream.
StopIteration(w) ==
  /\ wpc[w] = "open"
  /\ queue[w] # <<>>
  /\ Head(queue[w]) = "end"
  /\ queue' = [queue EXCEPT ![w] = Tail(queue[w])]
  /\ wpc' = [wpc EXCEPT ![w] = "ended"]
  /\ UNCHANGED <<store, taskVars, subs, watched, last>>

\* The consumer leaves early.
Aclose(w) ==
  /\ wpc[w] = "open"
  /\ wpc' = [wpc EXCEPT ![w] = "closed"]
  /\ UNCHANGED <<store, taskVars, subs, watched, queue, last>>

\* on_close: under the lock, drop the queue from the registrations.
OnClose(w) ==
  /\ wpc[w] \in {"ended", "closed"}
  /\ w \in subs[watched[w]]
  /\ Unlocked(w)
  /\ subs' = [subs EXCEPT ![watched[w]] = @ \ {w}]
  /\ UNCHANGED <<store, taskVars, wpc, watched, queue, last>>

-----------------------------------------------------------------------------
TaskStep(t) == BeginSave(t) \/ WriteRow(t) \/ NothingToWrite(t) \/ Notify(t)
StreamStep(w) == Seed(w) \/ Register(w) \/ Yield(w) \/ StopIteration(w) \/ Aclose(w) \/ OnClose(w)

Next == (\E t \in Tasks : TaskStep(t)) \/ (\E w \in Watchers : StreamStep(w))

Spec == Init /\ [][Next]_vars

\* A coroutine that holds the lock runs on; a consumer keeps reading and is
\* woken from the lock in turn (asyncio.Lock is first-in first-out).
Fairness ==
  /\ \A t \in Tasks : WF_vars(WriteRow(t) \/ NothingToWrite(t) \/ Notify(t))
  /\ \A w \in Watchers : /\ WF_vars(Register(w))
                         /\ WF_vars(Yield(w) \/ StopIteration(w))
                         /\ SF_vars(OnClose(w))

FairSpec == Spec /\ Fairness

-----------------------------------------------------------------------------
(* Properties *)

TypeOK ==
  /\ snapshots \in [Ids -> Rows \cup {NoRow}]
  /\ lock \in [Loops -> Tasks \cup Watchers \cup {"free"}]
  /\ saves \in 0..MaxSaves
  /\ pc \in [Tasks -> {"idle", "read", "written"}]
  /\ job \in [Tasks -> Jobs \cup {NoJob}]
  /\ existing \in [Tasks -> Rows \cup {NoRow}]
  /\ claims \in [Ids -> Nat]
  /\ subs \in [Ids -> SUBSET Watchers]
  /\ wpc \in [Watchers -> {"idle", "seeded", "open", "ended", "closed"}]
  /\ watched \in [Watchers -> Ids]
  /\ queue \in [Watchers -> Seq(Statuses \cup {"end"})]
  /\ last \in [Watchers -> Statuses \cup {"none"}]

\* The status of every snapshot follows the store's promise: created once,
\* settled at most once, terminal for ever.
Promise == INSTANCE SnapshotLifecycle WITH status <- [id \in Ids |-> snapshots[id].status]
ImplementsLifecycle == Promise!Lifecycle

\* A save is an atomic read-modify-write: while a task is between its read and
\* its write, the row is still the one it read.
ReadStillCurrent ==
  \A t \in Tasks : pc[t] = "read" => existing[t] = snapshots[job[t].id]

\* An abort answers `pending` to one caller at most, and then the row is aborted:
\* two callers are never both told that they cancelled the turn, and a caller
\* told so never finds the turn completed.
AbortAnswersOnce ==
  \A id \in Ids : /\ claims[id] <= 1
                  /\ claims[id] = 1 => snapshots[id].status = "aborted"

\* The last status in a queue: only sentinels stand behind it.
LastStatus(q, i) == q[i] # "end" /\ \A j \in (i + 1)..Len(q) : q[j] = "end"

\* The last status a stream was given: waiting in its queue, or else yielded.
Told(w) ==
  LET q == queue[w]
  IN IF \A i \in 1..Len(q) : q[i] = "end"
       THEN last[w] ELSE q[CHOOSE i \in 1..Len(q) : LastStatus(q, i)]

\* Between two saves, a stream that is open has been told the current status of
\* its snapshot: it was yielded last or waits at the end of the queue.  No status
\* is missed between the seed and the registration; and a stream ends only after
\* it has yielded the terminal status.
StreamIsCurrent ==
  \A w \in Watchers :
    LET id == watched[w] IN
      /\ (/\ wpc[w] = "open"
          /\ ~Absent(snapshots[id])
          /\ \A t \in Tasks : pc[t] = "written" => job[t].id # id)
         => Told(w) = snapshots[id].status
      /\ wpc[w] = "ended" => last[w] \in TERMINAL_STATUSES /\ last[w] = snapshots[id].status

\* A stream nobody closes early ends once its snapshot is terminal, and leaves no
\* registration behind.
StreamEnds ==
  \A w \in Watchers :
    (wpc[w] = "open" /\ snapshots[watched[w]].status \in TERMINAL_STATUSES)
      ~> (wpc[w] \in {"ended", "closed"} /\ w \notin subs[watched[w]])
===============================================================================
