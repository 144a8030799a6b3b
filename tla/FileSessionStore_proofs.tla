------------------------ MODULE FileSessionStore_proofs ------------------------
(***************************************************************************)
(* Proofs about the file store, for any snapshots, coroutines, saves and   *)
(* crashes: the files of a snapshot that no cancelled heartbeat has left a *)
(* thread behind for are as good as an atomic write, and their rows keep   *)
(* the promise of SnapshotLifecycle.                                       *)
(*                                                                         *)
(* Two saves of one snapshot exclude each other by the lock, a thread that *)
(* was left behind is one of another snapshot, and the threads of two      *)
(* snapshots never have the same inode: so between the open and the        *)
(* rename the temporary file is one save's own, and the read it started    *)
(* from is still what is on disk.                                          *)
(***************************************************************************)
EXTENDS FileSessionStore, TLAPS

\* "free" is the lock nobody holds.
FileConstants == MaxSaves \in Nat /\ "free" \notin Tasks

Busy(t) == pc[t] # "idle"
Holds(t) == pc[t] \in {"write", "replace"}

\* The rows callers hand in, without the store's own field, and the jobs they make.
GivenRows == [status : Statuses, owner : {NoSession}, session : {NoSession, "session"},
              state : 0..MaxSaves, beat : 0..MaxSaves]
Jobs == [kind : Mutators, id : Ids, row : GivenRows, save : Inodes]
Texts == {Empty, Torn} \cup {Text(row, save) : row \in Rows, save \in Inodes}

FileTypes ==
  /\ path \in [Ids -> 0..MaxSaves] /\ tmp \in [Ids -> 0..MaxSaves]
  /\ content \in [Inodes -> Texts]
  /\ pc \in [Tasks -> {"idle", "read", "open", "write", "replace"}]
  /\ orphan \in [Tasks -> BOOLEAN]
  /\ job \in [Tasks -> Jobs \cup {NoJob}]
  /\ existing \in [Tasks -> Rows \cup {NoRow}]
  /\ handle \in [Tasks -> 0..MaxSaves]
  /\ saves \in 0..MaxSaves
  /\ acked \in [Ids -> 0..MaxSaves]
  /\ cancelled \in SUBSET (Ids \cap CancelIds)

\* A save under way has the lock and is the last one begun, or was left behind by a
\* heartbeat that was cancelled.
LockInv ==
  \A t \in Tasks :
    /\ Busy(t) => /\ job[t] \in Jobs /\ job[t].save <= saves
                  /\ \/ orphan[t] /\ job[t].id \in cancelled /\ pc[t] # "read"
                     \/ ~orphan[t] /\ lock = t /\ job[t].save = saves
    /\ ~Busy(t) => ~orphan[t]

\* The inodes that the names of a snapshot and the threads that save it have.
Refers(id, i) ==
  /\ i # NoFile
  /\ path[id] = i \/ tmp[id] = i \/ \E t \in Tasks : Holds(t) /\ job[t].id = id /\ handle[t] = i

\* No two snapshots share one, and the inode a save will create is nobody's yet.
InodeInv ==
  /\ \A id \in Ids, i \in Nat : Refers(id, i) => i <= saves
  /\ \A id, other \in Ids, i \in Nat : Refers(id, i) /\ Refers(other, i) => id = other
  /\ \A t \in Tasks, id \in Ids : pc[t] \in {"read", "open"} => ~Refers(id, job[t].save)
  /\ \A t, u \in Tasks : Busy(t) /\ Busy(u) /\ t # u => job[t].save # job[u].save
  /\ \A t \in Tasks : Holds(t) => handle[t] # NoFile

\* What a save of the snapshot id has done so far: it started from what is on disk, and
\* has the temporary file for itself.
SaveInv(t, id) ==
  /\ path[id] # NoFile => content[path[id]].save < job[t].save
  /\ pc[t] # "read" => existing[t] = OnDisk(id)
  /\ Holds(t) => tmp[id] # NoFile /\ handle[t] = tmp[id]
  /\ pc[t] = "write" => content[tmp[id]] = Empty
  /\ pc[t] = "replace" =>
       /\ content[tmp[id]].text = "row" /\ content[tmp[id]].save = job[t].save
       /\ content[tmp[id]].row \in Rows
       /\ existing[t].status \in TERMINAL_STATUSES => content[tmp[id]].row.status = existing[t].status

\* The file of a snapshot is absent or the whole text of one save, at least the last one
\* that was acknowledged.
RowInv(id) ==
  /\ path[id] # NoFile =>
       /\ content[path[id]].text = "row" /\ content[path[id]].save <= saves
       /\ path[id] # tmp[id]
  /\ acked[id] > 0 => path[id] # NoFile /\ content[path[id]].save >= acked[id]
  /\ \A t \in Tasks : Busy(t) /\ job[t].id = id => SaveInv(t, id)

\* The step leaves the file of a snapshot as it is.
SameFile(id) ==
  path'[id] = path[id] /\ (path[id] # NoFile => content'[path[id]] = content[path[id]])

FInv == FileTypes /\ LockInv /\ InodeInv /\ \A id \in Undisturbed : RowInv(id)

-----------------------------------------------------------------------------
\* A text that parses is that of a row, by the save that wrote it.
LEMMA WholeText ==
  ASSUME NEW x \in Texts, x.text = "row"
  PROVE  x.row \in Rows /\ x.save \in Inodes
<1>1. PICK row \in Rows, save \in Inodes : x = Text(row, save)
  BY DEF Texts, Empty, Torn
<1> QED
  BY <1>1 DEF Text

\* What is on disk under an id is a row, or none.
LEMMA OnDiskTyped ==
  ASSUME FileConstants, FileTypes, NEW id \in Ids
  PROVE  OnDisk(id) \in Rows \cup {NoRow}
<1>1. ASSUME Exists(id), Readable(id) PROVE content[path[id]] \in Texts
  BY <1>1 DEF Exists, FileTypes, Inodes, NoFile, FileConstants
<1> QED
  BY <1>1, WholeText DEF OnDisk, Readable

\* What a save persists is a row of the store, and never changes a settled status
\* (apply_save and the mutators, _util.py).
LEMMA PersistedRows ==
  ASSUME FileConstants, NEW t \in Tasks, job[t] \in Jobs,
         NEW e \in Rows \cup {NoRow}, NEW row \in Persisted(t, e)
  PROVE  row \in Rows /\ (e.status \in TERMINAL_STATUSES => row.status = e.status)
<1> DEFINE All == Rows \cup GivenRows
<1>1. job[t].kind \in Mutators /\ job[t].row \in GivenRows /\ job[t].save \in 0..MaxSaves
  BY DEF Jobs, Inodes, FileConstants
<1>2. e.status = "pending" => e \in Rows
  BY DEF NoRow
<1>3. ASSUME NEW n \in ProducedFrom(t, e) PROVE n \in All
  <2>1. CASE job[t].kind = "pending"
    BY <1>1, <1>3, <2>1 DEF ProducedFrom
  <2>2. CASE job[t].kind = "settle"
    BY <1>1, <1>3, <2>2 DEF ProducedFrom, UnlessAborted
  <2>3. CASE job[t].kind = "abort"
    BY <1>2, <1>3, <2>3 DEF ProducedFrom, abort_if_pending, Rows, Statuses, TERMINAL_STATUSES
  <2>4. CASE job[t].kind = "beat"
    BY <1>1, <1>2, <1>3, <2>4 DEF ProducedFrom, BeatIfPending, Rows
  <2> QED
    BY <1>1, <2>1, <2>2, <2>3, <2>4 DEF Mutators
<1>4. PICK n \in ProducedFrom(t, e) : ~Refused(e, n) /\ row = stamp_store_fields(n)
  BY DEF Persisted, apply_save
<1>5. row.owner # NoSession
  BY DEF Persisted
<1>6. n \in All
  BY <1>3, <1>4
<1>7. row \in Rows /\ row.status = n.status
  <2>1. CASE n \in Rows
    BY <1>4, <2>1 DEF stamp_store_fields, Rows, NoSession
  <2>2. CASE n \in GivenRows
    BY <1>4, <1>5, <2>2 DEF stamp_store_fields, Rows, GivenRows, NoSession
  <2> QED
    BY <1>6, <2>1, <2>2
<1>8. e.status \in TERMINAL_STATUSES => n.status = e.status
  BY <1>4 DEF Refused, TerminalFlip
<1> QED
  BY <1>7, <1>8

\* An empty directory and no coroutine at work.
LEMMA InitFInv == ASSUME FileConstants, Init PROVE FInv
<1> USE DEF Init, FileConstants, NoFile
<1>1. FileTypes
  BY DEF FileTypes, Texts
<1>2. LockInv /\ InodeInv
  BY DEF LockInv, InodeInv, Busy, Holds, Refers
<1>3. ASSUME NEW id \in Ids PROVE RowInv(id)
  BY DEF RowInv, Busy
<1> QED
  BY <1>1, <1>2, <1>3 DEF FInv, Undisturbed

\* What a step leaves alone: the files of a snapshot and the saves of it stay as they are.
LEMMA RowKept ==
  ASSUME FInv, NEW id \in Ids \ cancelled, saves' \in Nat, saves <= saves',
         path'[id] = path[id], tmp'[id] = tmp[id], acked'[id] = acked[id],
         path[id] # NoFile => content'[path[id]] = content[path[id]],
         tmp[id] # NoFile => content'[tmp[id]] = content[tmp[id]],
         \A t \in Tasks : pc'[t] # "idle" /\ job'[t].id = id =>
           /\ pc'[t] = pc[t] /\ job'[t] = job[t] /\ existing'[t] = existing[t] /\ handle'[t] = handle[t],
         FileConstants
  PROVE  RowInv(id)'
<1>1. RowInv(id)
  BY DEF FInv, Undisturbed
<1>2. OnDisk(id)' = OnDisk(id)
  BY DEF OnDisk, Exists, Readable
<1>3. ASSUME NEW t \in Tasks, Busy(t)', (job[t].id = id)' PROVE SaveInv(t, id)'
  <2>1. Busy(t) /\ job[t].id = id
    BY <1>3 DEF Busy
  <2>2. SaveInv(t, id)
    BY <1>1, <2>1 DEF RowInv
  <2> QED
    BY <1>2, <1>3, <2>2 DEF SaveInv, Busy, Holds
<1>4. path[id] # NoFile => content[path[id]].save <= saves'
  <2> SUFFICES ASSUME path[id] # NoFile PROVE content[path[id]].save <= saves'
    OBVIOUS
  <2>1. content[path[id]] \in Texts /\ content[path[id]].text = "row"
    BY <1>1 DEF RowInv, FInv, FileTypes, Inodes, NoFile, FileConstants
  <2>2. content[path[id]].save \in Nat
    BY <2>1, WholeText DEF Inodes, FileConstants
  <2> QED
    BY <1>1, <2>2 DEF RowInv, FInv, FileTypes
<1> QED
  BY <1>1, <1>3, <1>4 DEF RowInv

\* Where no thread gets hold of an inode, the inodes stay told apart.
LEMMA InodesKept ==
  ASSUME FInv, saves' \in Nat, saves <= saves',
         \A id \in Ids, i \in Nat : Refers(id, i)' => Refers(id, i),
         \A t \in Tasks : pc'[t] # "idle" =>
           /\ pc[t] # "idle" /\ job'[t] = job[t]
           /\ pc'[t] \in {"read", "open"} => pc[t] \in {"read", "open"}
           /\ pc'[t] \in {"write", "replace"} => pc[t] \in {"write", "replace"} /\ handle'[t] = handle[t],
         FileConstants
  PROVE  InodeInv'
<1>1. InodeInv /\ saves \in Nat /\ job \in [Tasks -> Jobs \cup {NoJob}]
  BY DEF FInv, FileTypes, FileConstants
<1>2. \A id \in Ids, i \in Nat : Refers(id, i)' => i <= saves'
  BY <1>1 DEF InodeInv
<1>3. \A id, other \in Ids, i \in Nat : Refers(id, i)' /\ Refers(other, i)' => id = other
  BY <1>1 DEF InodeInv
<1>4. \A t \in Tasks, id \in Ids : pc'[t] \in {"read", "open"} => ~Refers(id, job[t].save)'
  <2> SUFFICES ASSUME NEW t \in Tasks, NEW id \in Ids, pc'[t] \in {"read", "open"}
               PROVE  ~Refers(id, job[t].save)'
    OBVIOUS
  <2>1. job'[t] = job[t] /\ pc[t] \in {"read", "open"}
    OBVIOUS
  <2>2. job[t] \in Jobs
    BY <2>1 DEF FInv, LockInv, Busy
  <2>3. job[t].save \in Nat
    BY <2>2 DEF Jobs, Inodes, FileConstants
  <2>4. ~Refers(id, job[t].save)
    BY <1>1, <2>1 DEF InodeInv
  <2> DEFINE s == job[t].save
  <2>5. s' = s
    BY <2>1
  <2>6. PICK i \in Nat : i = s /\ ~Refers(id, i)
    BY <2>3, <2>4
  <2>7. ~Refers(id, i)'
    BY <2>6
  <2> QED
    BY <2>5, <2>6, <2>7 DEF Refers
<1>5. \A t, u \in Tasks : Busy(t)' /\ Busy(u)' /\ t # u => (job[t].save # job[u].save)'
  BY <1>1 DEF InodeInv, Busy
<1>6. \A t \in Tasks : Holds(t)' => (handle[t] # NoFile)'
  BY <1>1 DEF InodeInv, Holds
<1> QED
  BY <1>2, <1>3, <1>4, <1>5, <1>6 DEF InodeInv

\* A save of a snapshot nobody disturbed has the lock, and is the only one of it.
LEMMA OnlySave ==
  ASSUME FInv, NEW t \in Tasks, Busy(t), job[t].id \notin cancelled
  PROVE  /\ job[t] \in Jobs /\ ~orphan[t] /\ lock = t /\ job[t].save = saves
         /\ \A u \in Tasks : Busy(u) /\ job[u].id = job[t].id => u = t
BY DEF FInv, LockInv

\* A save begins: the lock is free, so nobody else saves an undisturbed snapshot.
LEMMA BeginKeeps ==
  ASSUME FileConstants, FInv, NEW t \in Tasks, BeginSave(t)
  PROVE  FInv'
<1> USE DEF FileConstants
<1>1. PICK kind \in Mutators, id \in Ids, row \in NewRows :
        job' = [job EXCEPT ![t] = [kind |-> kind, id |-> id, row |-> row, save |-> saves + 1]]
  BY DEF BeginSave
<1>2. /\ pc[t] = "idle" /\ saves < MaxSaves /\ lock = "free" /\ saves' = saves + 1 /\ lock' = t
      /\ pc' = [pc EXCEPT ![t] = "read"]
      /\ UNCHANGED <<path, tmp, content, orphan, existing, handle, acked, cancelled>>
  BY DEF BeginSave, files
<1>3. saves \in Nat /\ saves + 1 \in Inodes /\ MaxSaves \in Nat
  BY <1>2 DEF FInv, FileTypes, Inodes
<1>4. job'[t] \in Jobs /\ job'[t].id = id /\ job'[t].save = saves + 1
  <2>1. row \in GivenRows
    BY <1>2, <1>3 DEF NewRows, GivenRows, Statuses, TERMINAL_STATUSES
  <2>2. [kind |-> kind, id |-> id, row |-> row, save |-> saves + 1] \in Jobs
    BY <1>3, <2>1 DEF Jobs
  <2> QED
    BY <1>1, <2>2 DEF FInv, FileTypes
<1>5. \A u \in Tasks \ {t} : job'[u] = job[u] /\ pc'[u] = pc[u]
  BY <1>1, <1>2 DEF FInv, FileTypes
<1>6. pc'[t] = "read" /\ ~orphan[t]
  BY <1>2 DEF FInv, FileTypes, LockInv, Busy
<1>7. FileTypes'
  <2>1. job' \in [Tasks -> Jobs \cup {NoJob}]
    BY <1>1, <1>4, <1>5 DEF FInv, FileTypes
  <2>2. pc' \in [Tasks -> {"idle", "read", "open", "write", "replace"}]
    BY <1>2 DEF FInv, FileTypes
  <2>3. saves' \in 0..MaxSaves
    BY <1>2, <1>3
  <2> QED
    BY <1>2, <2>1, <2>2, <2>3 DEF FInv, FileTypes
<1>8. \A u \in Tasks : Busy(u) => /\ job[u] \in Jobs /\ job[u].save <= saves /\ orphan[u]
                                  /\ job[u].id \in cancelled /\ pc[u] # "read" /\ u # t
  BY <1>2 DEF FInv, LockInv, Busy
<1>9. LockInv'
  <2>1. ASSUME NEW u \in Tasks, u # t, Busy(u)
        PROVE job'[u] \in Jobs /\ job'[u].save <= saves' /\ orphan'[u] /\ job'[u].id \in cancelled' /\ pc'[u] # "read"
    BY <1>2, <1>3, <1>5, <1>8, <2>1 DEF Jobs, Inodes
  <2>2. \A u \in Tasks : u # t /\ ~Busy(u) => ~orphan'[u] /\ ~Busy(u)'
    BY <1>2, <1>5 DEF FInv, LockInv, Busy
  <2>3. job'[t] \in Jobs /\ job'[t].save <= saves' /\ ~orphan'[t] /\ lock' = t /\ job'[t].save = saves' /\ Busy(t)'
    BY <1>2, <1>3, <1>4, <1>6 DEF Busy
  <2>4. ASSUME NEW u \in Tasks
        PROVE  /\ Busy(u)' => /\ job'[u] \in Jobs /\ job'[u].save <= saves'
                               /\ \/ orphan'[u] /\ job'[u].id \in cancelled' /\ pc'[u] # "read"
                                  \/ ~orphan'[u] /\ lock' = u /\ job'[u].save = saves'
               /\ ~Busy(u)' => ~orphan'[u]
    <3>1. CASE u = t
      BY <2>3, <3>1
    <3>2. CASE u # t
      BY <1>5, <2>1, <2>2, <3>2 DEF Busy
    <3> QED
      BY <3>1, <3>2
  <2> QED
    BY <2>4 DEF LockInv, Busy
<1>10. InodeInv'
  <2>1. \A other \in Ids, i \in Nat : Refers(other, i)' => Refers(other, i)
    BY <1>2, <1>5, <1>6 DEF Refers, Holds
  <2>2. \A other \in Ids, i \in Nat : Refers(other, i)' => i <= saves'
    BY <1>2, <1>3, <2>1 DEF FInv, InodeInv
  <2>3. \A other, third \in Ids, i \in Nat : Refers(other, i)' /\ Refers(third, i)' => other = third
    BY <2>1 DEF FInv, InodeInv
  <2>4. ASSUME NEW u \in Tasks, NEW other \in Ids, pc'[u] \in {"read", "open"}
        PROVE  ~Refers(other, job[u].save)'
    <3>1. PICK i \in Nat : i = job'[u].save /\ ~Refers(other, i)
      <4>1. CASE u = t
        BY <1>3, <1>4, <4>1 DEF FInv, InodeInv
      <4>2. CASE u # t
        <5>1. pc[u] \in {"read", "open"} /\ job'[u] = job[u]
          BY <1>5, <2>4, <4>2
        <5>2. job[u].save \in Nat
          BY <1>8, <5>1 DEF Busy, Jobs, Inodes
        <5> QED
          BY <5>1, <5>2 DEF FInv, InodeInv
      <4> QED
        BY <4>1, <4>2
    <3>2. ~Refers(other, i)'
      BY <2>1, <3>1
    <3> QED
      BY <3>1, <3>2 DEF Refers
  <2>5. \A u, w \in Tasks : Busy(u)' /\ Busy(w)' /\ u # w => (job[u].save # job[w].save)'
    <3>1. \A u \in Tasks : u # t /\ Busy(u)' => Busy(u) /\ job'[u] = job[u] /\ job[u].save \in Nat /\ job[u].save <= saves
      BY <1>5, <1>8 DEF Busy, Jobs, Inodes
    <3>2. job'[t].save = saves + 1
      BY <1>4
    <3>3. \A u \in Tasks : u # t /\ Busy(u)' => job'[u].save # job'[t].save
      BY <1>3, <3>1, <3>2
    <3> QED
      BY <3>1, <3>3 DEF FInv, InodeInv
  <2>6. \A u \in Tasks : Holds(u)' => (handle[u] # NoFile)'
    BY <1>2, <1>5, <1>6 DEF FInv, InodeInv, Holds
  <2> QED
    BY <2>2, <2>3, <2>4, <2>5, <2>6 DEF InodeInv
<1>11. ASSUME NEW other \in Ids \ cancelled' PROVE RowInv(other)'
  <2>1. RowInv(other) /\ other \notin cancelled
    BY <1>2, <1>11 DEF FInv, Undisturbed
  <2>2. path[other] # NoFile => /\ content[path[other]].save \in Nat /\ content[path[other]].save <= saves
                               /\ content[path[other]].text = "row"
    <3> SUFFICES ASSUME path[other] # NoFile
                 PROVE  /\ content[path[other]].save \in Nat /\ content[path[other]].save <= saves
                        /\ content[path[other]].text = "row"
      OBVIOUS
    <3>1. content[path[other]] \in Texts
      BY DEF FInv, FileTypes, Inodes, NoFile
    <3> QED
      BY <2>1, <3>1, WholeText DEF RowInv, Inodes
  <2>3. ASSUME NEW u \in Tasks, Busy(u)', (job[u].id = other)' PROVE SaveInv(u, other)'
    <3>1. u = t
      BY <1>5, <1>8, <2>1, <2>3 DEF Busy
    <3>2. path[other] # NoFile => content[path[other]].save < job'[t].save
      BY <1>3, <1>4, <2>2
    <3> QED
      BY <1>2, <1>6, <3>1, <3>2 DEF SaveInv, Holds
  <2>4. path[other] # NoFile => content[path[other]].save <= saves'
    BY <1>2, <1>3, <2>2
  <2> QED
    BY <1>2, <2>1, <2>3, <2>4 DEF RowInv
<1> QED
  BY <1>7, <1>9, <1>10, <1>11 DEF FInv, Undisturbed

\* The read: what is on disk is what the save goes on with.
LEMMA ReadKeeps ==
  ASSUME FileConstants, FInv, NEW t \in Tasks, ReadRow(t)
  PROVE  FInv'
<1> DEFINE id == job[t].id
<1>1. /\ pc[t] = "read" /\ existing' = [existing EXCEPT ![t] = OnDisk(id)]
      /\ pc' = [pc EXCEPT ![t] = "open"]
      /\ UNCHANGED <<path, tmp, content, lock, orphan, job, handle, saves, acked, cancelled>>
  BY DEF ReadRow, files
<1>2. job[t] \in Jobs /\ id \in Ids /\ saves \in Nat
  BY <1>1, FileConstants DEF FInv, FileTypes, LockInv, Busy, Jobs, FileConstants
<1>3. pc'[t] = "open" /\ existing'[t] = OnDisk(id) /\ \A u \in Tasks \ {t} : pc'[u] = pc[u] /\ existing'[u] = existing[u]
  BY <1>1 DEF FInv, FileTypes
<1>4. FileTypes'
  <2>1. OnDisk(id) \in Rows \cup {NoRow}
    BY <1>2, OnDiskTyped DEF FInv
  <2>2. existing' \in [Tasks -> Rows \cup {NoRow}]
    BY <1>1, <2>1 DEF FInv, FileTypes
  <2>3. pc' \in [Tasks -> {"idle", "read", "open", "write", "replace"}]
    BY <1>1 DEF FInv, FileTypes
  <2> QED
    BY <1>1, <2>2, <2>3 DEF FInv, FileTypes
<1>5. LockInv'
  BY <1>1, <1>3 DEF FInv, LockInv, Busy
<1>6. InodeInv'
  <2>1. \A other \in Ids, i \in Nat : Refers(other, i)' => Refers(other, i)
    BY <1>1, <1>3 DEF Refers, Holds
  <2> QED
    BY <1>1, <1>2, <1>3, <2>1, InodesKept, FileConstants
<1>7. ASSUME NEW other \in Ids \ cancelled' PROVE RowInv(other)'
  <2>1. CASE other # id
    BY <1>1, <1>2, <1>3, <1>7, <2>1, RowKept, FileConstants
  <2>2. CASE other = id
    <3>1. RowInv(id) /\ \A u \in Tasks : Busy(u) /\ job[u].id = id => u = t
      BY <1>1, <1>7, <2>2, OnlySave DEF FInv, Undisturbed, Busy
    <3>2. SaveInv(t, id)
      BY <1>1, <1>7, <2>2, <3>1 DEF RowInv, Busy
    <3>3. OnDisk(other)' = OnDisk(id)
      BY <1>1, <2>2 DEF OnDisk, Exists, Readable
    <3>4. SaveInv(t, other)'
      BY <1>1, <1>3, <2>2, <3>2, <3>3 DEF SaveInv, Holds
    <3>5. ASSUME NEW u \in Tasks, Busy(u)', (job[u].id = other)' PROVE u = t
      BY <1>1, <1>3, <2>2, <3>1, <3>5 DEF Busy
    <3> QED
      BY <1>1, <2>2, <3>1, <3>4, <3>5 DEF RowInv
  <2> QED
    BY <2>1, <2>2
<1> QED
  BY <1>4, <1>5, <1>6, <1>7 DEF FInv, Undisturbed

\* A save ends without having touched a file.
LEMMA LeaveKeeps ==
  ASSUME FileConstants, FInv, NEW t \in Tasks, Busy(t), Leave(t),
         UNCHANGED <<path, tmp, content, saves, acked, cancelled>>
  PROVE  FInv'
<1>1. /\ pc'[t] = "idle" /\ ~orphan'[t]
      /\ \A u \in Tasks \ {t} : /\ pc'[u] = pc[u] /\ orphan'[u] = orphan[u] /\ job'[u] = job[u]
                                /\ existing'[u] = existing[u] /\ handle'[u] = handle[u]
      /\ lock' = IF orphan[t] THEN lock ELSE "free"
  BY DEF Leave, FInv, FileTypes
<1>2. saves \in Nat
  BY DEF FInv, FileTypes, FileConstants
<1>3. FileTypes'
  BY FileConstants DEF Leave, FInv, FileTypes, NoFile, FileConstants
<1>4. LockInv'
  BY <1>1 DEF FInv, LockInv, Busy
<1>5. InodeInv'
  <2>1. \A other \in Ids, i \in Nat : Refers(other, i)' => Refers(other, i)
    BY <1>1 DEF Refers, Holds
  <2> QED
    BY <1>1, <1>2, <2>1, InodesKept
<1>6. ASSUME NEW other \in Ids \ cancelled' PROVE RowInv(other)'
  BY <1>1, <1>2, <1>6, RowKept
<1> QED
  BY <1>3, <1>4, <1>5, <1>6 DEF FInv, Undisturbed

\* A heartbeat is cancelled: its save ends, or its thread goes on, and its snapshot is one
\* of the disturbed from then on.
LEMMA CancelKeeps ==
  ASSUME FileConstants, FInv, NEW t \in Tasks, CancelBeat(t)
  PROVE  FInv'
<1>1. CASE Leave(t) /\ pc[t] \in {"read", "open"} /\ UNCHANGED cancelled
  BY <1>1, LeaveKeeps DEF CancelBeat, files, Busy
<1>2. CASE /\ pc[t] \in {"open", "write", "replace"}
           /\ orphan' = [orphan EXCEPT ![t] = TRUE] /\ lock' = "free"
           /\ cancelled' = cancelled \cup {job[t].id}
           /\ UNCHANGED <<pc, job, existing, handle>>
  <2>1. job[t] \in Jobs /\ job[t].id \in Ids /\ ~orphan[t] /\ lock = t /\ saves \in Nat /\ Busy(t)
    BY <1>2, FileConstants DEF CancelBeat, FInv, FileTypes, LockInv, Busy, Jobs, FileConstants
  <2>2. UNCHANGED <<path, tmp, content, saves, acked>>
    BY DEF CancelBeat, files
  <2>3. orphan'[t] /\ \A u \in Tasks \ {t} : orphan'[u] = orphan[u]
    BY <1>2 DEF FInv, FileTypes
  <2>4. FileTypes'
    <3>1. cancelled' \in SUBSET (Ids \cap CancelIds)
      BY <1>2, <2>1 DEF CancelBeat, FInv, FileTypes
    <3> QED
      BY <1>2, <2>1, <2>2, <3>1 DEF FInv, FileTypes
  <2>5. LockInv'
    BY <1>2, <2>1, <2>2, <2>3 DEF FInv, LockInv, Busy
  <2>6. InodeInv'
    <3>1. \A other \in Ids, i \in Nat : Refers(other, i)' => Refers(other, i)
      BY <1>2, <2>2 DEF Refers, Holds
    <3> QED
      BY <1>2, <2>1, <2>2, <3>1, InodesKept
  <2>7. ASSUME NEW other \in Ids \ cancelled' PROVE RowInv(other)'
    BY <1>2, <2>1, <2>2, <2>7, RowKept
  <2> QED
    BY <2>4, <2>5, <2>6, <2>7 DEF FInv, Undisturbed
<1> QED
  BY <1>1, <1>2 DEF CancelBeat

\* The process dies: no save is under way, and the files are as they were.
LEMMA CrashKeeps ==
  ASSUME FileConstants, FInv, Crash
  PROVE  FInv'
<1>1. /\ \A t \in Tasks : pc'[t] = "idle" /\ ~orphan'[t]
      /\ UNCHANGED <<path, tmp, content, saves, acked, cancelled>>
  BY DEF Crash, files
<1>2. saves \in Nat
  BY DEF FInv, FileTypes, FileConstants
<1>3. FileTypes'
  BY DEF Crash, files, FInv, FileTypes, NoFile, FileConstants
<1>4. LockInv'
  BY <1>1 DEF LockInv, Busy
<1>5. InodeInv'
  <2>1. \A other \in Ids, i \in Nat : Refers(other, i)' => Refers(other, i)
    BY <1>1 DEF Refers, Holds
  <2> QED
    BY <1>1, <1>2, <2>1, InodesKept
<1>6. ASSUME NEW other \in Ids \ cancelled' PROVE RowInv(other)'
  BY <1>1, <1>2, <1>6, RowKept
<1> QED
  BY <1>3, <1>4, <1>5, <1>6 DEF FInv, Undisturbed

\* The temporary file is created, or emptied: its inode is this snapshot's, and never the
\* one of the file itself.
LEMMA OpenKeeps ==
  ASSUME FileConstants, FInv, NEW t \in Tasks, OpenTemp(t)
  PROVE  FInv' /\ \A id \in Undisturbed : SameFile(id)
<1> DEFINE id == job[t].id
           x == IF tmp[id] # NoFile THEN tmp[id] ELSE job[t].save
<1>1. /\ pc[t] = "open" /\ tmp' = [tmp EXCEPT ![id] = x]
      /\ content' = [content EXCEPT ![x] = Empty] /\ handle' = [handle EXCEPT ![t] = x]
      /\ pc' = [pc EXCEPT ![t] = "write"]
      /\ UNCHANGED <<path, lock, orphan, job, existing, saves, acked, cancelled>>
  BY DEF OpenTemp
<1>2. job[t] \in Jobs /\ id \in Ids /\ saves \in Nat /\ MaxSaves \in Nat /\ saves <= MaxSaves
      /\ job[t].save \in Inodes /\ job[t].save <= saves
  BY <1>1 DEF FInv, FileTypes, LockInv, Busy, Jobs, FileConstants
<1>3. x \in Inodes /\ x <= saves /\ x \in Nat /\ x # NoFile
      /\ \A other \in Ids : Refers(other, x) => other = id
  <2>1. CASE tmp[id] # NoFile
    <3>1. tmp[id] \in Nat /\ Refers(id, tmp[id])
      BY <1>2, <2>1 DEF FInv, FileTypes, Refers
    <3>2. \A other \in Ids : Refers(other, tmp[id]) => other = id
      BY <1>2, <3>1 DEF FInv, InodeInv
    <3>3. tmp[id] <= saves
      BY <1>2, <3>1 DEF FInv, InodeInv
    <3> QED
      BY <1>2, <2>1, <3>1, <3>2, <3>3 DEF Inodes, NoFile
  <2>2. CASE tmp[id] = NoFile
    <3>1. \A other \in Ids : ~Refers(other, job[t].save)
      BY <1>1 DEF FInv, InodeInv
    <3> QED
      BY <1>2, <2>2, <3>1 DEF Inodes, NoFile
  <2> QED
    BY <2>1, <2>2
<1> HIDE DEF x
<1>4. /\ pc'[t] = "write" /\ handle'[t] = x /\ tmp'[id] = x /\ content'[x] = Empty
      /\ \A u \in Tasks \ {t} : pc'[u] = pc[u] /\ handle'[u] = handle[u]
      /\ \A other \in Ids \ {id} : tmp'[other] = tmp[other]
      /\ \A i \in Inodes \ {x} : content'[i] = content[i]
  BY <1>1, <1>2, <1>3 DEF FInv, FileTypes
<1>5. FileTypes'
  <2>1. Empty \in Texts /\ x \in 0..MaxSaves
    BY <1>2, <1>3 DEF Texts, Inodes
  <2>2. content' \in [Inodes -> Texts] /\ tmp' \in [Ids -> 0..MaxSaves] /\ handle' \in [Tasks -> 0..MaxSaves]
        /\ pc' \in [Tasks -> {"idle", "read", "open", "write", "replace"}]
    BY <1>1, <1>2, <1>3, <2>1 DEF FInv, FileTypes
  <2> QED
    BY <1>1, <2>2 DEF FInv, FileTypes
<1>6. LockInv'
  BY <1>1, <1>4 DEF FInv, LockInv, Busy
<1>7. InodeInv'
  <2>1. ASSUME NEW other \in Ids, NEW i \in Nat, Refers(other, i)'
        PROVE  Refers(other, i) \/ (other = id /\ i = x)
    BY <1>1, <1>2, <1>4, <2>1 DEF Refers, Holds
  <2>2. \A other \in Ids, i \in Nat : Refers(other, i)' => i <= saves'
    BY <1>1, <1>2, <1>3, <2>1 DEF FInv, InodeInv
  <2>3. \A other, third \in Ids, i \in Nat : Refers(other, i)' /\ Refers(third, i)' => other = third
    <3>1. ASSUME NEW other \in Ids, NEW third \in Ids, NEW i \in Nat, Refers(other, i)', Refers(third, i)'
          PROVE  other = third
      <4>1. Refers(other, i) \/ (other = id /\ i = x)
        BY <2>1, <3>1
      <4>2. Refers(third, i) \/ (third = id /\ i = x)
        BY <2>1, <3>1
      <4>3. Refers(other, i) /\ Refers(third, i) => other = third
        BY DEF FInv, InodeInv
      <4> QED
        BY <1>3, <4>1, <4>2, <4>3
    <3> QED
      BY <3>1
  <2>4. ASSUME NEW u \in Tasks, NEW other \in Ids, pc'[u] \in {"read", "open"}
        PROVE  ~Refers(other, job[u].save)'
    <3>1. u # t /\ pc[u] \in {"read", "open"} /\ job'[u] = job[u] /\ job[u] \in Jobs /\ job[u].save \in Nat
      BY <1>1, <1>4, <2>4 DEF FInv, LockInv, Busy, Jobs, Inodes
    <3>2. ~Refers(other, job[u].save) /\ ~Refers(id, job[u].save) /\ job[u].save # job[t].save
      BY <1>1, <1>2, <3>1 DEF FInv, InodeInv, Busy
    <3>3. job[u].save # x
      <4>1. tmp[id] # NoFile => Refers(id, tmp[id])
        BY DEF Refers
      <4> QED
        BY <3>2, <4>1 DEF x
    <3>4. PICK i \in Nat : i = job[u].save /\ ~Refers(other, i) /\ i # x
      BY <3>1, <3>2, <3>3
    <3>5. ~Refers(other, i)'
      BY <2>1, <3>4
    <3> QED
      BY <3>1, <3>4, <3>5 DEF Refers
  <2>5. \A u, w \in Tasks : Busy(u)' /\ Busy(w)' /\ u # w => (job[u].save # job[w].save)'
    BY <1>1, <1>4 DEF FInv, InodeInv, Busy
  <2>6. \A u \in Tasks : Holds(u)' => (handle[u] # NoFile)'
    BY <1>3, <1>4 DEF FInv, InodeInv, Holds
  <2> QED
    BY <2>2, <2>3, <2>4, <2>5, <2>6 DEF InodeInv
<1>8. \A other \in Ids : /\ path[other] \in Nat /\ tmp[other] \in Nat
                         /\ path[other] # NoFile => Refers(other, path[other]) /\ path[other] \in Inodes
                         /\ tmp[other] # NoFile => Refers(other, tmp[other]) /\ tmp[other] \in Inodes
  BY <1>2 DEF FInv, FileTypes, Refers, Inodes, NoFile
<1>9. ASSUME id \notin cancelled, path[id] # NoFile PROVE path[id] # x
  <2>1. CASE tmp[id] # NoFile
    BY <1>2, <1>9, <2>1 DEF FInv, Undisturbed, RowInv, x
  <2>2. CASE tmp[id] = NoFile
    <3>1. ~Refers(id, job[t].save)
      BY <1>1, <1>2 DEF FInv, InodeInv
    <3> QED
      BY <1>2, <1>8, <1>9, <2>2, <3>1 DEF x
  <2> QED
    BY <2>1, <2>2
<1>10. ASSUME NEW other \in Ids \ cancelled PROVE SameFile(other)
  BY <1>1, <1>3, <1>4, <1>8, <1>9, <1>10 DEF SameFile
<1>11. ASSUME NEW other \in Ids \ cancelled' PROVE RowInv(other)'
  <2>1. CASE other # id
    <3>1. tmp[other] # x
      BY <1>3, <1>8, <2>1
    <3>2. /\ path[other] # NoFile => content'[path[other]] = content[path[other]]
          /\ tmp[other] # NoFile => content'[tmp[other]] = content[tmp[other]]
      BY <1>1, <1>4, <1>8, <1>10, <1>11, <3>1 DEF SameFile
    <3>3. other \in Ids \ cancelled /\ saves' \in Nat /\ saves <= saves' /\ path'[other] = path[other]
          /\ tmp'[other] = tmp[other] /\ acked'[other] = acked[other]
      BY <1>1, <1>2, <1>4, <1>11, <2>1
    <3>4. \A u \in Tasks : pc'[u] # "idle" /\ job'[u].id = other =>
            /\ pc'[u] = pc[u] /\ job'[u] = job[u] /\ existing'[u] = existing[u] /\ handle'[u] = handle[u]
      BY <1>1, <1>4, <2>1
    <3> QED
      BY <3>2, <3>3, <3>4, RowKept
  <2>2. CASE other = id
    <3>1. RowInv(id) /\ \A u \in Tasks : Busy(u) /\ job[u].id = id => u = t
      BY <1>1, <1>11, <2>2, OnlySave DEF FInv, Undisturbed, Busy
    <3>2. SaveInv(t, id)
      BY <1>1, <1>11, <2>2, <3>1 DEF RowInv, Busy
    <3>3. path[id] # NoFile => path[id] # x /\ content'[path[id]] = content[path[id]]
      BY <1>1, <1>9, <1>10, <1>11, <2>2 DEF SameFile
    <3>4. OnDisk(other)' = OnDisk(id)
      BY <1>1, <2>2, <3>3 DEF OnDisk, Exists, Readable
    <3>5. SaveInv(t, other)'
      BY <1>1, <1>3, <1>4, <2>2, <3>2, <3>3, <3>4 DEF SaveInv, Holds
    <3>6. ASSUME NEW u \in Tasks, Busy(u)', (job[u].id = other)' PROVE u = t
      BY <1>1, <1>4, <2>2, <3>1, <3>6 DEF Busy
    <3> QED
      BY <1>1, <1>4, <2>2, <3>1, <3>3, <3>5, <3>6 DEF RowInv
  <2> QED
    BY <2>1, <2>2
<1> QED
  BY <1>5, <1>6, <1>7, <1>10, <1>11 DEF FInv, Undisturbed

\* The text goes into the temporary file: of a save nobody disturbs, the whole row.
LEMMA WriteKeeps ==
  ASSUME FileConstants, FInv, NEW t \in Tasks, WriteTemp(t)
  PROVE  FInv' /\ \A id \in Undisturbed : SameFile(id)
<1> DEFINE id == job[t].id
           x == handle[t]
<1>1. /\ pc[t] = "write" /\ pc' = [pc EXCEPT ![t] = "replace"]
      /\ UNCHANGED <<path, tmp, lock, orphan, job, existing, handle, saves, acked, cancelled>>
  BY DEF WriteTemp
<1>2. job[t] \in Jobs /\ id \in Ids /\ saves \in Nat /\ MaxSaves \in Nat /\ saves <= MaxSaves
      /\ job[t].save \in Inodes
  BY <1>1 DEF FInv, FileTypes, LockInv, Busy, Jobs, FileConstants
<1>3. x \in Nat /\ x \in Inodes /\ Refers(id, x)
  <2>1. x # NoFile /\ x \in 0..MaxSaves
    BY <1>1 DEF FInv, FileTypes, InodeInv, Holds
  <2> QED
    BY <1>1, <1>2, <2>1 DEF Refers, Holds, Inodes, NoFile
<1>4. existing[t] \in Rows \cup {NoRow}
  BY DEF FInv, FileTypes
<1>5. PICK row \in Persisted(t, existing[t]) :
        \/ content' = [content EXCEPT ![x] = Text(row, job[t].save)]
        \/ content[x] # Empty /\ content' = [content EXCEPT ![x] = Torn]
  BY DEF WriteTemp
<1>6. row \in Rows /\ (existing[t].status \in TERMINAL_STATUSES => row.status = existing[t].status)
  BY <1>2, <1>4, PersistedRows
<1>7. Text(row, job[t].save) \in Texts /\ Torn \in Texts
  BY <1>2, <1>6 DEF Texts
<1>8. \A i \in Inodes \ {x} : content'[i] = content[i]
  BY <1>5 DEF FInv, FileTypes
<1>9. pc'[t] = "replace" /\ \A u \in Tasks \ {t} : pc'[u] = pc[u]
  BY <1>1 DEF FInv, FileTypes
<1>10. FileTypes'
  <2>1. content' \in [Inodes -> Texts] /\ pc' \in [Tasks -> {"idle", "read", "open", "write", "replace"}]
    BY <1>1, <1>5, <1>7 DEF FInv, FileTypes
  <2> QED
    BY <1>1, <2>1 DEF FInv, FileTypes
<1>11. LockInv'
  BY <1>1, <1>9 DEF FInv, LockInv, Busy
<1>12. InodeInv'
  <2>1. \A other \in Ids, i \in Nat : Refers(other, i)' => Refers(other, i)
    BY <1>1, <1>9 DEF Refers, Holds
  <2> QED
    BY <1>1, <1>2, <1>9, <2>1, InodesKept
<1>13. \A other \in Ids : /\ path[other] \in Nat /\ tmp[other] \in Nat
                          /\ path[other] # NoFile => Refers(other, path[other]) /\ path[other] \in Inodes
                          /\ tmp[other] # NoFile => Refers(other, tmp[other]) /\ tmp[other] \in Inodes
  BY <1>2 DEF FInv, FileTypes, Refers, Inodes, NoFile
<1>14. ASSUME id \notin cancelled PROVE SaveInv(t, id) /\ RowInv(id)
  BY <1>1, <1>2, <1>14 DEF FInv, Undisturbed, RowInv, Busy
<1>15. ASSUME NEW other \in Ids \ cancelled PROVE SameFile(other)
  <2>1. CASE other # id
    <3>1. ~Refers(other, x)
      BY <1>2, <1>3, <2>1 DEF FInv, InodeInv
    <3> QED
      BY <1>1, <1>8, <1>13, <3>1 DEF SameFile
  <2>2. CASE other = id
    BY <1>1, <1>2, <1>8, <1>13, <1>14, <1>15, <2>2 DEF SameFile, RowInv, SaveInv, Holds
  <2> QED
    BY <2>1, <2>2
<1>16. ASSUME NEW other \in Ids \ cancelled' PROVE RowInv(other)'
  <2>1. CASE other # id
    <3>1. ~Refers(other, x)
      BY <1>2, <1>3, <2>1 DEF FInv, InodeInv
    <3>2. /\ path[other] # NoFile => content'[path[other]] = content[path[other]]
          /\ tmp[other] # NoFile => content'[tmp[other]] = content[tmp[other]]
      BY <1>8, <1>13, <3>1
    <3>3. other \in Ids \ cancelled /\ saves' \in Nat /\ saves <= saves' /\ path'[other] = path[other]
          /\ tmp'[other] = tmp[other] /\ acked'[other] = acked[other]
      BY <1>1, <1>2, <1>16, <2>1
    <3>4. \A u \in Tasks : pc'[u] # "idle" /\ job'[u].id = other =>
            /\ pc'[u] = pc[u] /\ job'[u] = job[u] /\ existing'[u] = existing[u] /\ handle'[u] = handle[u]
      BY <1>1, <1>9, <2>1
    <3> QED
      BY <3>2, <3>3, <3>4, RowKept
  <2>2. CASE other = id
    <3>1. RowInv(id) /\ SaveInv(t, id) /\ \A u \in Tasks : Busy(u) /\ job[u].id = id => u = t
      BY <1>1, <1>14, <1>16, <2>2, OnlySave DEF Busy
    <3>2. x = tmp[id] /\ tmp[id] # NoFile /\ content[x] = Empty
      BY <1>1, <3>1 DEF SaveInv, Holds
    <3>3. content'[x] = Text(row, job[t].save)
      BY <1>3, <1>5, <3>2 DEF FInv, FileTypes
    <3>4. path[id] # NoFile => content'[path[id]] = content[path[id]]
      BY <1>1, <1>15, <1>16, <2>2 DEF SameFile
    <3>5. OnDisk(other)' = OnDisk(id)
      BY <1>1, <2>2, <3>4 DEF OnDisk, Exists, Readable
    <3>6. content'[x].text = "row" /\ content'[x].row = row /\ content'[x].save = job[t].save
      BY <3>3 DEF Text
    <3>7. SaveInv(t, other)'
      BY <1>1, <1>6, <1>9, <2>2, <3>1, <3>2, <3>4, <3>5, <3>6 DEF SaveInv, Holds
    <3>8. ASSUME NEW u \in Tasks, Busy(u)', (job[u].id = other)' PROVE u = t
      BY <1>1, <1>9, <2>2, <3>1, <3>8 DEF Busy
    <3> QED
      BY <1>1, <2>2, <3>1, <3>4, <3>7, <3>8 DEF RowInv
  <2> QED
    BY <2>1, <2>2
<1> QED
  BY <1>10, <1>11, <1>12, <1>15, <1>16 DEF FInv, Undisturbed

\* The rename: the file of the snapshot is the save's text, and only its.
LEMMA ReplaceKeeps ==
  ASSUME FileConstants, FInv, NEW t \in Tasks, Replace(t)
  PROVE  /\ FInv'
         /\ \A id \in Undisturbed \ {job[t].id} : SameFile(id)
         /\ job[t].id \in Undisturbed =>
              LET id == job[t].id
                  row == content[tmp[id]].row
              IN /\ path'[id] = tmp[id] /\ tmp[id] # NoFile /\ content' = content
                 /\ content[tmp[id]].text = "row" /\ row \in Rows
                 /\ OnDisk(id).status \in TERMINAL_STATUSES => row.status = OnDisk(id).status
<1> DEFINE id == job[t].id
           x == tmp[id]
<1>1. /\ pc[t] = "replace" /\ x # NoFile
      /\ path' = [path EXCEPT ![id] = x] /\ tmp' = [tmp EXCEPT ![id] = NoFile]
      /\ acked' = IF orphan[t] THEN acked ELSE [acked EXCEPT ![id] = job[t].save]
      /\ Leave(t)
      /\ UNCHANGED <<content, saves, cancelled>>
  BY DEF Replace
<1>2. job[t] \in Jobs /\ id \in Ids /\ saves \in Nat /\ MaxSaves \in Nat /\ saves <= MaxSaves
      /\ job[t].save \in 1..MaxSaves
  BY <1>1 DEF FInv, FileTypes, LockInv, Busy, Jobs, FileConstants, Inodes
<1>3. /\ pc'[t] = "idle" /\ ~orphan'[t]
      /\ \A u \in Tasks \ {t} : /\ pc'[u] = pc[u] /\ orphan'[u] = orphan[u] /\ job'[u] = job[u]
                                /\ existing'[u] = existing[u] /\ handle'[u] = handle[u]
      /\ lock' = IF orphan[t] THEN lock ELSE "free"
  BY <1>1 DEF Leave, FInv, FileTypes
<1>4. path'[id] = x /\ tmp'[id] = NoFile
      /\ \A other \in Ids \ {id} : path'[other] = path[other] /\ tmp'[other] = tmp[other] /\ acked'[other] = acked[other]
  BY <1>1, <1>2 DEF FInv, FileTypes
<1>5. FileTypes'
  <2>1. path' \in [Ids -> 0..MaxSaves] /\ tmp' \in [Ids -> 0..MaxSaves] /\ acked' \in [Ids -> 0..MaxSaves]
    BY <1>1, <1>2 DEF FInv, FileTypes, NoFile
  <2>2. /\ pc' \in [Tasks -> {"idle", "read", "open", "write", "replace"}] /\ orphan' \in [Tasks -> BOOLEAN]
        /\ job' \in [Tasks -> Jobs \cup {NoJob}] /\ existing' \in [Tasks -> Rows \cup {NoRow}]
        /\ handle' \in [Tasks -> 0..MaxSaves]
    BY <1>1, <1>2 DEF Leave, FInv, FileTypes, NoFile
  <2> QED
    BY <1>1, <2>1, <2>2 DEF FInv, FileTypes
<1>6. LockInv'
  BY <1>1, <1>3 DEF FInv, LockInv, Busy
<1>7. InodeInv'
  <2>1. \A other \in Ids, i \in Nat : Refers(other, i)' => Refers(other, i)
    BY <1>1, <1>3, <1>4 DEF Refers, Holds
  <2> QED
    BY <1>1, <1>2, <1>3, <2>1, InodesKept
<1>8. ASSUME id \notin cancelled
      PROVE  /\ RowInv(id) /\ SaveInv(t, id) /\ ~orphan[t]
             /\ \A u \in Tasks : Busy(u) /\ job[u].id = id => u = t
             /\ job[t].save = saves
  BY <1>1, <1>2, <1>8, OnlySave DEF FInv, Undisturbed, RowInv, Busy
<1>9. ASSUME NEW other \in Ids \ cancelled' PROVE RowInv(other)'
  <2>1. CASE other # id
    <3>1. other \in Ids \ cancelled /\ saves' \in Nat /\ saves <= saves' /\ path'[other] = path[other]
          /\ tmp'[other] = tmp[other] /\ acked'[other] = acked[other]
      BY <1>1, <1>2, <1>4, <1>9, <2>1
    <3>2. \A u \in Tasks : pc'[u] # "idle" /\ job'[u].id = other =>
            /\ pc'[u] = pc[u] /\ job'[u] = job[u] /\ existing'[u] = existing[u] /\ handle'[u] = handle[u]
      BY <1>3, <2>1
    <3> QED
      BY <1>1, <3>1, <3>2, RowKept
  <2>2. CASE other = id
    <3>1. content[x].text = "row" /\ content[x].save = saves
      BY <1>1, <1>8, <1>9, <2>2 DEF SaveInv
    <3>2. acked'[id] = saves
      BY <1>1, <1>2, <1>8, <1>9, <2>2 DEF FInv, FileTypes
    <3>3. ~\E u \in Tasks : Busy(u)' /\ (job[u].id = other)'
      BY <1>1, <1>3, <1>8, <1>9, <2>2 DEF Busy
    <3> QED
      BY <1>1, <1>2, <1>4, <2>2, <3>1, <3>2, <3>3 DEF RowInv
  <2> QED
    BY <2>1, <2>2
<1>10. \A other \in Undisturbed \ {id} : SameFile(other)
  BY <1>1, <1>4 DEF SameFile, Undisturbed
<1>11. ASSUME id \in Undisturbed
       PROVE  /\ content[x].text = "row" /\ content[x].row \in Rows
              /\ OnDisk(id).status \in TERMINAL_STATUSES => content[x].row.status = OnDisk(id).status
  BY <1>1, <1>8, <1>11 DEF Undisturbed, SaveInv
<1> QED
  BY <1>1, <1>4, <1>5, <1>6, <1>7, <1>9, <1>10, <1>11 DEF FInv, Undisturbed

\* The inductive invariant, and what a step does to the files that are not disturbed:
\* nothing, but for the rename of a save of one of them.
LEMMA StepKeeps ==
  ASSUME FileConstants, FInv, Next
  PROVE  /\ FInv'
         /\ \/ \A id \in Undisturbed : SameFile(id)
            \/ \E t \in Tasks : Replace(t)
<1>1. ASSUME NEW t \in Tasks, BeginSave(t) \/ ReadRow(t) \/ NothingToWrite(t) \/ ReplaceRaises(t) \/ CancelBeat(t)
      PROVE  FInv' /\ \A id \in Undisturbed : SameFile(id)
  <2>1. path' = path /\ content' = content
    BY <1>1 DEF BeginSave, ReadRow, NothingToWrite, ReplaceRaises, CancelBeat, files
  <2>2. NothingToWrite(t) \/ ReplaceRaises(t) => FInv'
    BY LeaveKeeps DEF NothingToWrite, ReplaceRaises, files, Busy
  <2> QED
    BY <1>1, <2>1, <2>2, BeginKeeps, ReadKeeps, CancelKeeps DEF SameFile
<1>2. CASE Crash
  BY <1>2, CrashKeeps DEF Crash, files, SameFile
<1> QED
  BY <1>1, <1>2, OpenKeeps, WriteKeeps, ReplaceKeeps DEF Next, SaveStep

\* So the invariant holds of every state.
LEMMA FilesInductive == ASSUME FileConstants PROVE Spec => []FInv
<1>1. ASSUME FInv, UNCHANGED vars PROVE FInv'
  BY <1>1 DEF vars, FInv, FileTypes, LockInv, InodeInv, Refers, Busy, Holds, Undisturbed, RowInv,
              SaveInv, OnDisk, Exists, Readable
<1>2. FInv /\ [Next]_vars => FInv'
  BY <1>1, StepKeeps
<1> QED
  BY <1>2, InitFInv, PTL DEF Spec

-----------------------------------------------------------------------------
\* The file store keeps the promise of SnapshotLifecycle across crashes, for every
\* snapshot whose heartbeat is never cancelled, and what it acknowledged stays on disk for
\* every one that no cancelled heartbeat has left a thread behind for: each file is always
\* the whole text of one save, and the status it tells moves as the promise allows.
THEOREM FilesKeepPromise == ASSUME FileConstants PROVE Spec => FilesImplementLifecycle
<1> DEFINE Safe == Ids \ CancelIds
           st == [id \in Safe |-> StatusOnDisk(id)]
<1>1. Init => Promise!LifecycleInit
  BY DEF Init, Promise!LifecycleInit, StatusOnDisk, Exists
<1>2. ASSUME FInv, [Next]_vars PROVE [Promise!LifecycleNext]_st
  <2>1. ASSUME \A id \in Undisturbed : SameFile(id) PROVE UNCHANGED st
    <3>1. ASSUME NEW id \in Safe PROVE StatusOnDisk(id)' = StatusOnDisk(id)
      <4>1. SameFile(id)
        BY <1>2, <2>1 DEF FInv, FileTypes, Undisturbed
      <4> QED
        BY <4>1 DEF StatusOnDisk, SameFile, Exists, Readable
    <3> QED
      BY <3>1
  <2>2. CASE UNCHANGED vars
    BY <2>1, <2>2 DEF vars, SameFile
  <2>3. ASSUME NEW t \in Tasks, Replace(t) PROVE [Promise!LifecycleNext]_st
    <3>4. PICK id : id = job[t].id
      OBVIOUS
    <3> DEFINE row == content[tmp[id]].row
    <3>1. /\ \A other \in Undisturbed \ {id} : SameFile(other)
          /\ id \in Undisturbed =>
               /\ path'[id] = tmp[id] /\ tmp[id] # NoFile /\ content' = content
               /\ content[tmp[id]].text = "row" /\ row \in Rows
               /\ OnDisk(id).status \in TERMINAL_STATUSES => row.status = OnDisk(id).status
      BY <1>2, <2>3, <3>4, ReplaceKeeps
    <3>2. CASE id \notin Safe
      <4>1. ASSUME NEW other \in Safe PROVE StatusOnDisk(other)' = StatusOnDisk(other)
        <5>1. SameFile(other)
          BY <1>2, <3>1, <3>2 DEF FInv, FileTypes, Undisturbed
        <5> QED
          BY <5>1 DEF StatusOnDisk, SameFile, Exists, Readable
      <4> QED
        BY <4>1
    <3>3. CASE id \in Safe
      <4>1. id \in Undisturbed
        BY <1>2, <3>3 DEF FInv, FileTypes, Undisturbed
      <4>2. StatusOnDisk(id)' = row.status /\ row.status \in Statuses
        BY <3>1, <4>1 DEF StatusOnDisk, Exists, Readable, Rows
      <4>3. StatusOnDisk(id) = OnDisk(id).status /\ StatusOnDisk(id) \in Statuses \cup {"absent"}
        <5>1. OnDisk(id) \in Rows \cup {NoRow}
          BY <1>2, <3>3, OnDiskTyped DEF FInv
        <5>2. path[id] # NoFile => Readable(id)
          BY <1>2, <4>1 DEF FInv, RowInv, Readable
        <5> QED
          BY <5>1, <5>2 DEF StatusOnDisk, OnDisk, Exists, Rows, NoRow
      <4>4. ASSUME NEW other \in Safe \ {id} PROVE StatusOnDisk(other)' = StatusOnDisk(other)
        <5>1. SameFile(other)
          BY <1>2, <3>1, <4>4 DEF FInv, FileTypes, Undisturbed
        <5> QED
          BY <5>1 DEF StatusOnDisk, SameFile, Exists, Readable
      <4>5. st' = [st EXCEPT ![id] = row.status]
        BY <3>3, <4>2, <4>4
      <4>6. CASE StatusOnDisk(id) = "absent"
        BY <3>3, <4>2, <4>5, <4>6
        DEF Promise!LifecycleNext, Promise!Create, Promise!Statuses, Promise!TERMINAL_STATUSES,
            Statuses, TERMINAL_STATUSES
      <4>7. CASE StatusOnDisk(id) = "pending"
        <5>1. CASE row.status = "pending"
          BY <3>3, <4>5, <4>7, <5>1
        <5>2. CASE row.status \in TERMINAL_STATUSES
          BY <3>3, <4>5, <4>7, <5>2
          DEF Promise!LifecycleNext, Promise!Settle, Promise!TERMINAL_STATUSES, TERMINAL_STATUSES
        <5> QED
          BY <4>2, <5>1, <5>2 DEF Statuses
      <4>8. CASE StatusOnDisk(id) \in TERMINAL_STATUSES
        BY <3>1, <3>3, <4>1, <4>3, <4>5, <4>8
      <4> QED
        BY <4>3, <4>6, <4>7, <4>8 DEF Statuses
    <3> QED
      BY <3>2, <3>3
  <2> QED
    BY <1>2, <2>1, <2>2, <2>3, StepKeeps
<1>3. FInv => AcknowledgedIsKept
  BY DEF FInv, RowInv, Undisturbed, AcknowledgedIsKept, Exists, Readable
<1> QED
  BY <1>1, <1>2, <1>3, FilesInductive, PTL
  DEF Spec, FilesImplementLifecycle, ImplementsLifecycle, Promise!Lifecycle
================================================================================
