---------------------------- MODULE FileSessionStore ----------------------------
(***************************************************************************)
(* FileSessionStore: one file per snapshot, saved by a coroutine that      *)
(* holds the store's asyncio lock and does its file work in threads.       *)
(*                                                                         *)
(* Files are modelled as a file system keeps them: a name refers to an     *)
(* inode, a writer that opened a name keeps its inode when the name is     *)
(* renamed.  write_sync opens <id>.json.tmp, writes, and renames it over   *)
(* <id>.json, so it takes three steps.  Cancelling a coroutine that awaits *)
(* a thread releases the lock at once and leaves the thread running; the   *)
(* runtime does that to a heartbeat (finalize_detach).                     *)
(*                                                                         *)
(* max_persisted_chain_length is unset here: SessionHistory has the        *)
(* pruning.  Status streams are those of InMemorySessionStore.             *)
(***************************************************************************)
EXTENDS SnapshotRules, FiniteSets

CONSTANTS
  Ids,          \* snapshot ids
  Tasks,        \* coroutines that save; "free" is none
  MaxSaves,     \* bound on the saves of one behaviour
  MaxCrashes,   \* bound on process crashes
  CancelIds     \* the Ids whose heartbeat may be cancelled while its save runs

Inodes == 1..MaxSaves
NoFile == 0

VARIABLES
  path,      \* inode of <id>.json, or NoFile
  tmp,       \* inode of <id>.json.tmp, or NoFile
  content,   \* what each inode holds
  lock,      \* holder of the store's lock, or "free"
  pc,        \* where each task's save is
  orphan,    \* the task was cancelled: its thread goes on alone
  job,       \* what each task saves
  existing,  \* the row each task read
  handle,    \* the inode each task's thread has open
  saves,     \* saves begun
  crashes,   \* process crashes
  acked,     \* the last save of each id that returned to its caller
  cancelled  \* ids with a heartbeat cancelled while its thread was running

files == <<path, tmp, content>>
taskVars == <<pc, orphan, job, existing, handle>>
vars == <<path, tmp, content, lock, pc, orphan, job, existing, handle, saves, crashes, acked,
          cancelled>>

Mutators == {"pending", "settle", "abort", "beat"}
\* A row on disk always names its session.
Rows == [status : Statuses, owner : {"session"}, session : {"session"},
         state : 0..MaxSaves, beat : 0..MaxSaves]
NoRow == [status |-> "absent", owner |-> NoSession, session |-> NoSession, state |-> 0, beat |-> 0]
NoJob == [kind |-> "none", id |-> "none", row |-> NoRow, save |-> 0]

\* What an inode may hold: nothing yet, the text of one save, or a mixture.
Empty == [text |-> "empty"]
Torn == [text |-> "torn"]
Text(row, save) == [text |-> "row", row |-> row, save |-> save]

Init ==
  /\ path = [id \in Ids |-> NoFile]
  /\ tmp = [id \in Ids |-> NoFile]
  /\ content = [i \in Inodes |-> Empty]
  /\ lock = "free"
  /\ pc = [t \in Tasks |-> "idle"]
  /\ orphan = [t \in Tasks |-> FALSE]
  /\ job = [t \in Tasks |-> NoJob]
  /\ existing = [t \in Tasks |-> NoRow]
  /\ handle = [t \in Tasks |-> NoFile]
  /\ saves = 0 /\ crashes = 0
  /\ acked = [id \in Ids |-> 0]
  /\ cancelled = {}

Exists(id) == path[id] # NoFile
Readable(id) == content[path[id]].text = "row"
OnDisk(id) == IF Exists(id) /\ Readable(id) THEN content[path[id]].row ELSE NoRow

\* The save ends; a task that was cancelled has left the lock before.
Leave(t) ==
  /\ pc' = [pc EXCEPT ![t] = "idle"]
  /\ orphan' = [orphan EXCEPT ![t] = FALSE]
  /\ job' = [job EXCEPT ![t] = NoJob]
  /\ existing' = [existing EXCEPT ![t] = NoRow]
  /\ handle' = [handle EXCEPT ![t] = NoFile]
  /\ lock' = IF orphan[t] THEN lock ELSE "free"

-----------------------------------------------------------------------------
(* save_snapshot *)

NewRows ==
  [status : {"pending", "completed", "failed"}, owner : {NoSession},
   session : {NoSession, "session"}, state : {saves + 1}, beat : {saves + 1}]

\* `async with self.lock`, then a thread for the read.
BeginSave(t) ==
  /\ pc[t] = "idle" /\ saves < MaxSaves
  /\ lock = "free"
  /\ \E kind \in Mutators, id \in Ids, row \in NewRows :
       /\ (row.status = "pending") = (kind = "pending")
       /\ job' = [job EXCEPT ![t] = [kind |-> kind, id |-> id, row |-> row, save |-> saves + 1]]
  /\ saves' = saves + 1
  /\ lock' = t
  /\ pc' = [pc EXCEPT ![t] = "read"]
  /\ UNCHANGED <<files, orphan, existing, handle, crashes, acked, cancelled>>

ProducedFrom(t, row) ==
  CASE job[t].kind = "pending" -> {job[t].row}
    [] job[t].kind = "settle"  -> UnlessAborted(row, job[t].row)
    [] job[t].kind = "abort"   -> abort_if_pending(row)
    [] job[t].kind = "beat"    -> BeatIfPending(row, job[t].save)

\* The row to write: none when the mutator skips, apply_save refuses, or the
\* row carries no session id.
Persisted(t, row) == {r \in apply_save(row, ProducedFrom(t, row)) : r.owner # NoSession}

\* read_sync finds a row, or no file, and there is something to write.
ReadRow(t) ==
  /\ pc[t] = "read"
  /\ Exists(job[t].id) => Readable(job[t].id)
  /\ Persisted(t, OnDisk(job[t].id)) # {}
  /\ existing' = [existing EXCEPT ![t] = OnDisk(job[t].id)]
  /\ pc' = [pc EXCEPT ![t] = "open"]
  /\ UNCHANGED <<files, lock, orphan, job, handle, saves, crashes, acked, cancelled>>

\* Nothing to write, or the file does not parse and the save raises.
NothingToWrite(t) ==
  /\ pc[t] = "read"
  /\ \/ Exists(job[t].id) /\ ~Readable(job[t].id)
     \/ Persisted(t, OnDisk(job[t].id)) = {}
  /\ Leave(t)
  /\ UNCHANGED <<files, saves, crashes, acked, cancelled>>

\* Fault: the file itself is opened for writing.
OpenInPlace(t) ==
  /\ pc[t] = "open"
  /\ LET id == job[t].id
         inode == IF path[id] # NoFile THEN path[id] ELSE job[t].save
     IN /\ tmp' = [tmp EXCEPT ![id] = inode]
        /\ path' = [path EXCEPT ![id] = inode]
        /\ content' = [content EXCEPT ![inode] = Empty]
        /\ handle' = [handle EXCEPT ![t] = inode]
  /\ pc' = [pc EXCEPT ![t] = "write"]
  /\ UNCHANGED <<lock, orphan, job, existing, saves, crashes, acked, cancelled>>

\* open(temp_path, 'w'): creates the file or truncates the one that is there.
OpenTemp(t) ==
  /\ pc[t] = "open"
  /\ LET id == job[t].id
         inode == IF tmp[id] # NoFile THEN tmp[id] ELSE job[t].save
     IN /\ tmp' = [tmp EXCEPT ![id] = inode]
        /\ content' = [content EXCEPT ![inode] = Empty]
        /\ handle' = [handle EXCEPT ![t] = inode]
  /\ pc' = [pc EXCEPT ![t] = "write"]
  /\ UNCHANGED <<path, lock, orphan, job, existing, saves, crashes, acked, cancelled>>

\* f.write and close.  Over another writer's text, a shorter one leaves a tail.
WriteTemp(t) ==
  /\ pc[t] = "write"
  /\ \E row \in Persisted(t, existing[t]) :
       \/ content' = [content EXCEPT ![handle[t]] = Text(row, job[t].save)]
       \/ /\ content[handle[t]] # Empty
          /\ content' = [content EXCEPT ![handle[t]] = Torn]
  /\ pc' = [pc EXCEPT ![t] = "replace"]
  /\ UNCHANGED <<path, tmp, lock, orphan, job, existing, handle, saves, crashes, acked, cancelled>>

\* os.replace and the return to the caller, if it still waits.
Replace(t) ==
  /\ pc[t] = "replace"
  /\ tmp[job[t].id] # NoFile
  /\ path' = [path EXCEPT ![job[t].id] = tmp[job[t].id]]
  /\ tmp' = [tmp EXCEPT ![job[t].id] = NoFile]
  /\ acked' = IF orphan[t] THEN acked ELSE [acked EXCEPT ![job[t].id] = job[t].save]
  /\ Leave(t)
  /\ UNCHANGED <<content, saves, crashes, cancelled>>

\* Another writer renamed the temporary file: FileNotFoundError.
ReplaceRaises(t) ==
  /\ pc[t] = "replace"
  /\ tmp[job[t].id] = NoFile
  /\ Leave(t)
  /\ UNCHANGED <<files, saves, crashes, acked, cancelled>>

-----------------------------------------------------------------------------
\* heartbeat_task.cancel(): the coroutine leaves the lock.  A thread that has
\* not started its work may be dropped, a running one goes on.
CancelBeat(t) ==
  /\ job[t].kind = "beat" /\ job[t].id \in CancelIds /\ ~orphan[t]
  /\ \/ pc[t] \in {"read", "open"} /\ Leave(t) /\ UNCHANGED cancelled
     \/ /\ pc[t] \in {"open", "write", "replace"}
        /\ orphan' = [orphan EXCEPT ![t] = TRUE]
        /\ lock' = "free"
        /\ cancelled' = cancelled \cup {job[t].id}
        /\ UNCHANGED <<pc, job, existing, handle>>
  /\ UNCHANGED <<files, saves, crashes, acked>>

\* The process dies and starts again: the directory is all that is left.
Crash ==
  /\ crashes < MaxCrashes
  /\ crashes' = crashes + 1
  /\ lock' = "free"
  /\ pc' = [t \in Tasks |-> "idle"]
  /\ orphan' = [t \in Tasks |-> FALSE]
  /\ job' = [t \in Tasks |-> NoJob]
  /\ existing' = [t \in Tasks |-> NoRow]
  /\ handle' = [t \in Tasks |-> NoFile]
  /\ UNCHANGED <<files, saves, acked, cancelled>>

SaveStep(t) ==
  \/ BeginSave(t) \/ ReadRow(t) \/ NothingToWrite(t) \/ OpenTemp(t) \/ WriteTemp(t)
  \/ Replace(t) \/ ReplaceRaises(t)

Next == (\E t \in Tasks : SaveStep(t) \/ CancelBeat(t)) \/ Crash

Spec == Init /\ [][Next]_vars

-----------------------------------------------------------------------------
(* Properties *)

\* "Atomically write a snapshot to disk": at every moment, also right after a
\* crash, the file of a snapshot is absent or holds the whole text of one save.
AtomicWrite == \A id \in Ids : Exists(id) => Readable(id)

\* The snapshots no cancelled heartbeat has left a thread behind for.  What such
\* a thread does it does to its own snapshot only: the property below
\* holds for all others.
Undisturbed == Ids \ cancelled

\* A save that returned to its caller is never lost: what is on disk is that save
\* or a later one, whatever crashes come.
AcknowledgedIsKept ==
  \A id \in Undisturbed :
    acked[id] > 0 => (Exists(id) /\ Readable(id) /\ content[path[id]].save >= acked[id])

\* The rows on disk follow the promise of the stores, across crashes, unless
\* their heartbeat may be cancelled: a file never stops being the whole text of
\* one save.
StatusOnDisk(id) ==
  IF ~Exists(id) THEN "absent" ELSE IF Readable(id) THEN content[path[id]].row.status ELSE "torn"
Promise == INSTANCE SnapshotLifecycle
             WITH Ids <- Ids \ CancelIds, status <- [id \in Ids \ CancelIds |-> StatusOnDisk(id)]
ImplementsLifecycle == Promise!Lifecycle

\* The file store keeps the promise of the stores, and no save it acknowledged is lost.
FilesImplementLifecycle == ImplementsLifecycle /\ []AcknowledgedIsKept
===============================================================================
