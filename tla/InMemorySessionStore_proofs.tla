---------------------- MODULE InMemorySessionStore_proofs ----------------------
(***************************************************************************)
(* Proofs about the in-memory store, and about what the stores keep of a   *)
(* session.  On one event loop a save is an atomic read-modify-write, for  *)
(* any number of coroutines, streams and ids, and so the store keeps the   *)
(* promise of SnapshotLifecycle.  At the end, about SessionHistory: a      *)
(* conversation that is resumed is the one its client was told of.         *)
(***************************************************************************)
EXTENDS InMemorySessionStore, SessionHistory, FiniteSetTheorems, WellFoundedInduction, TLAPS

\* Every coroutine that uses the store runs on the same event loop.
OneLoop == \A x, y \in Tasks \cup Watchers : LoopOf[x] = LoopOf[y]

\* Whoever is inside a critical section holds the lock of its loop.
LockHeld ==
  /\ \A t \in Tasks : pc[t] # "idle" => lock[LoopOf[t]] = t /\ job[t] \in Jobs
  /\ \A w \in Watchers : wpc[w] = "seeded" => lock[LoopOf[w]] = w

IInv == TypeOK /\ LockHeld /\ ReadStillCurrent

-----------------------------------------------------------------------------
(* The rules of SnapshotRules on typed rows *)

\* apply_save persists a row of the store, and never changes a terminal status
\* (the check _util.py makes before it stamps the row).
LEMMA ApplySaveRows ==
  ASSUME NEW e \in Rows \cup {NoRow}, NEW produced \in SUBSET Rows,
         NEW row \in apply_save(e, produced)
  PROVE  /\ row \in Rows
         /\ e.status \in TERMINAL_STATUSES => row.status = e.status
<1>1. PICK n \in produced : ~Refused(e, n) /\ row = stamp_store_fields(n)
  BY DEF apply_save
<1>2. n \in Rows
  BY <1>1
<1>3. row \in Rows /\ row.status = n.status
  BY <1>1, <1>2 DEF stamp_store_fields, Rows, OwnerChoices
<1>4. e.status \in TERMINAL_STATUSES => n.status = e.status
  BY <1>1 DEF Refused, TerminalFlip
<1> QED
  BY <1>3, <1>4

\* Every mutator returns rows of the store.
LEMMA ProducedRows ==
  ASSUME TypeOK, NEW t \in Tasks, job[t] \in Jobs
  PROVE  Produced(t) \in SUBSET Rows
<1>1. existing[t] \in Rows \cup {NoRow} /\ job[t].row \in Rows /\ job[t].kind \in Mutators
  BY DEF TypeOK, Jobs
<1>2. existing[t].status = "pending" => existing[t] \in Rows
  BY <1>1 DEF NoRow
<1>3. abort_if_pending(existing[t]) \in SUBSET Rows
  BY <1>2 DEF abort_if_pending, Rows, Statuses, TERMINAL_STATUSES
<1>4. BeatIfPending(existing[t], job[t].row.beat) \in SUBSET Rows
  BY <1>1, <1>2 DEF BeatIfPending, Rows
<1>5. UnlessAborted(existing[t], job[t].row) \in SUBSET Rows
  BY <1>1 DEF UnlessAborted
<1> QED
  BY <1>1, <1>3, <1>4, <1>5 DEF Produced, Mutators

\* What notify appends keeps a queue a sequence of statuses and sentinels.
LEMMA AnnouncementSeq ==
  ASSUME NEW s \in Statuses
  PROVE  Announcement(s) \in Seq(Statuses \cup {"end"})
<1> DEFINE T == Statuses \cup {"end"}
<1>1. s \in T /\ "end" \in T
  OBVIOUS
<1> HIDE DEF T
<1>2. <<s, "end">> \in Seq(T) /\ <<s>> \in Seq(T)
  BY <1>1
<1>3. Announcement(s) = <<s, "end">> \/ Announcement(s) = <<s>>
  BY DEF Announcement
<1>4. Announcement(s) \in Seq(T)
  BY <1>2, <1>3
<1> QED
  BY <1>4 DEF T

-----------------------------------------------------------------------------
\* The initial state satisfies the inductive invariant.
LEMMA InitIInv == Init => IInv
<1> SUFFICES ASSUME Init PROVE IInv
  OBVIOUS
<1> USE SavesAssumption, LoopAssumption
<1>1. TypeOK
  BY DEF Init, TypeOK
<1>2. LockHeld /\ ReadStillCurrent
  BY DEF Init, LockHeld, ReadStillCurrent
<1> QED
  BY <1>1, <1>2 DEF IInv

\* Every step keeps the types: a save only ever writes rows of the store, and a
\* stream only ever carries statuses and sentinels.
LEMMA NextTypeOK ==
  ASSUME OneLoop, IInv, Next
  PROVE  TypeOK'
<1> USE SavesAssumption, LoopAssumption DEF IInv, store, taskVars, streams
<1>1. ASSUME NEW t \in Tasks, BeginSave(t) PROVE TypeOK'
  <2>1. job' \in [Tasks -> Jobs \cup {NoJob}] /\ existing' \in [Tasks -> Rows \cup {NoRow}]
    <3>1. PICK kind \in Mutators, id \in Ids, row \in NewRows :
            /\ job' = [job EXCEPT ![t] = [kind |-> kind, id |-> id, row |-> row]]
            /\ existing' = [existing EXCEPT ![t] = snapshots[id]]
      BY <1>1 DEF BeginSave
    <3>2. saves + 1 \in 0..MaxSaves
      BY <1>1 DEF BeginSave, TypeOK
    <3>3. row \in Rows
      BY <3>2 DEF NewRows, Rows, Statuses, TERMINAL_STATUSES
    <3> QED
      BY <3>1, <3>3 DEF Jobs, TypeOK
  <2>3. saves' \in 0..MaxSaves
    BY <1>1 DEF BeginSave, TypeOK
  <2>4. lock' \in [Loops -> Tasks \cup Watchers \cup {"free"}] /\ pc' \in [Tasks -> {"idle", "read", "written"}]
    BY <1>1 DEF BeginSave, TypeOK
  <2> QED
    BY <1>1, <2>1, <2>3, <2>4 DEF BeginSave, TypeOK
<1>2. ASSUME NEW t \in Tasks, WriteRow(t) PROVE TypeOK'
  <2>1. job[t] \in Jobs
    BY <1>2 DEF WriteRow, LockHeld
  <2>2. PICK row \in Persisted(t) : snapshots' = [snapshots EXCEPT ![job[t].id] = row]
    BY <1>2 DEF WriteRow
  <2>3. row \in Rows
    BY <2>1, <2>2, ProducedRows, ApplySaveRows DEF Persisted, TypeOK
  <2>4. snapshots' \in [Ids -> Rows \cup {NoRow}]
    BY <2>2, <2>3 DEF TypeOK
  <2>5. claims' \in [Ids -> Nat]
    BY <1>2, <2>1 DEF WriteRow, TypeOK, Jobs
  <2>6. pc' \in [Tasks -> {"idle", "read", "written"}]
    BY <1>2 DEF WriteRow, TypeOK
  <2> QED
    BY <1>2, <2>4, <2>5, <2>6 DEF WriteRow, TypeOK
<1>3. ASSUME NEW t \in Tasks, NothingToWrite(t) PROVE TypeOK'
  BY <1>3 DEF NothingToWrite, TypeOK
<1>4. ASSUME NEW t \in Tasks, Notify(t) PROVE TypeOK'
  <2>1. job[t] \in Jobs
    BY <1>4 DEF Notify, LockHeld
  <2>2. PICK row \in Persisted(t) :
          queue' = [w \in Watchers |-> IF w \in subs[job[t].id]
                                          THEN queue[w] \o Announcement(row.status) ELSE queue[w]]
    BY <1>4 DEF Notify
  <2>3. row \in Rows
    BY <2>1, <2>2, ProducedRows, ApplySaveRows DEF Persisted, TypeOK
  <2>4. Announcement(row.status) \in Seq(Statuses \cup {"end"})
    BY <2>3, AnnouncementSeq DEF Rows
  <2>5. ASSUME NEW w \in Watchers PROVE queue[w] \o Announcement(row.status) \in Seq(Statuses \cup {"end"})
    BY <2>4 DEF TypeOK
  <2>6. queue' \in [Watchers -> Seq(Statuses \cup {"end"})]
    BY <2>2, <2>5 DEF TypeOK
  <2> QED
    BY <1>4, <2>6 DEF Notify, TypeOK
<1>5. ASSUME NEW w \in Watchers, StreamStep(w) PROVE TypeOK'
  <2>1. CASE Seed(w)
    <3>1. ~Absent(snapshots[watched[w]]) => Announcement(snapshots[watched[w]].status) \in Seq(Statuses \cup {"end"})
      BY AnnouncementSeq DEF TypeOK, Absent, Rows, NoRow
    <3>2. queue' \in [Watchers -> Seq(Statuses \cup {"end"})]
      BY <2>1, <3>1 DEF Seed, TypeOK
    <3> QED
      BY <2>1, <3>2 DEF Seed, TypeOK
  <2>2. CASE Register(w)
    BY <2>2 DEF Register, TypeOK
  <2>3. CASE Yield(w)
    BY <2>3 DEF Yield, TypeOK
  <2>4. CASE StopIteration(w)
    BY <2>4 DEF StopIteration, TypeOK
  <2>5. CASE Aclose(w)
    BY <2>5 DEF Aclose, TypeOK
  <2>6. CASE OnClose(w)
    BY <2>6 DEF OnClose, TypeOK
  <2> QED
    BY <1>5, <2>1, <2>2, <2>3, <2>4, <2>5, <2>6 DEF StreamStep
<1> QED
  BY <1>1, <1>2, <1>3, <1>4, <1>5 DEF Next, TaskStep

\* Holding the lock is exclusive on one loop: while one task is inside its save
\* no other task is, so the row it read cannot change under it.
LEMMA NextLockHeld ==
  ASSUME OneLoop, IInv, Next
  PROVE  LockHeld' /\ ReadStillCurrent'
<1> USE LoopAssumption DEF store, taskVars, streams
<1>0. TypeOK /\ TypeOK' /\ LockHeld /\ ReadStillCurrent
  BY NextTypeOK DEF IInv
<1>1. ASSUME NEW t \in Tasks, BeginSave(t) PROVE LockHeld' /\ ReadStillCurrent'
  <2>1. job'[t] \in Jobs /\ existing'[t] = snapshots[job'[t].id]
    <3>1. PICK kind \in Mutators, id \in Ids, row \in NewRows :
            /\ job' = [job EXCEPT ![t] = [kind |-> kind, id |-> id, row |-> row]]
            /\ existing' = [existing EXCEPT ![t] = snapshots[id]]
      BY <1>1 DEF BeginSave
    <3>2. job'[t].id = id /\ job'[t] # NoJob /\ existing'[t] = snapshots[id]
      BY <1>0, <3>1 DEF TypeOK, NoJob
    <3> QED
      BY <1>0, <3>2 DEF TypeOK
  <2> QED
    BY <1>0, <1>1, <2>1 DEF BeginSave, Unlocked, TypeOK, OneLoop, LockHeld, ReadStillCurrent
<1>2. ASSUME NEW t \in Tasks, WriteRow(t) PROVE LockHeld' /\ ReadStillCurrent'
  <2>1. LockHeld'
    BY <1>0, <1>2 DEF WriteRow, TypeOK, LockHeld
  <2>2. ASSUME NEW u \in Tasks, pc'[u] = "read" PROVE u # t /\ pc[u] = "read"
    BY <1>0, <1>2, <2>2 DEF WriteRow, TypeOK
  <2>3. \A u \in Tasks : pc[u] = "read" => u = t
    BY <1>0, <1>2 DEF WriteRow, OneLoop, LockHeld
  <2>4. ReadStillCurrent'
    BY <2>2, <2>3 DEF ReadStillCurrent
  <2> QED
    BY <2>1, <2>4
<1>3. ASSUME NEW t \in Tasks, NothingToWrite(t) PROVE LockHeld' /\ ReadStillCurrent'
  BY <1>0, <1>3 DEF NothingToWrite, TypeOK, OneLoop, LockHeld, ReadStillCurrent
<1>4. ASSUME NEW t \in Tasks, Notify(t) PROVE LockHeld' /\ ReadStillCurrent'
  BY <1>0, <1>4 DEF Notify, TypeOK, OneLoop, LockHeld, ReadStillCurrent
<1>5. ASSUME NEW w \in Watchers, StreamStep(w) PROVE LockHeld' /\ ReadStillCurrent'
  <2>1. CASE Seed(w)
    BY <1>0, <2>1 DEF Seed, Unlocked, TypeOK, OneLoop, LockHeld, ReadStillCurrent
  <2>2. CASE Register(w)
    BY <1>0, <2>2 DEF Register, TypeOK, OneLoop, LockHeld, ReadStillCurrent
  <2>3. CASE Yield(w) \/ StopIteration(w) \/ Aclose(w) \/ OnClose(w)
    BY <1>0, <2>3 DEF Yield, StopIteration, Aclose, OnClose, TypeOK, LockHeld, ReadStillCurrent
  <2> QED
    BY <1>5, <2>1, <2>2, <2>3 DEF StreamStep
<1> QED
  BY <1>1, <1>2, <1>3, <1>4, <1>5 DEF Next, TaskStep

\* The invariant is inductive: what the theorems below rest on.
LEMMA Inductive == ASSUME OneLoop PROVE Spec => []IInv
<1>1. IInv /\ [Next]_vars => IInv'
  BY NextTypeOK, NextLockHeld DEF IInv, vars, TypeOK, LockHeld, ReadStillCurrent
<1> QED
  BY <1>1, InitIInv, PTL DEF Spec

-----------------------------------------------------------------------------
\* The type invariant, for any number of coroutines on one event loop.
THEOREM TypeCorrect == ASSUME OneLoop PROVE Spec => []TypeOK
<1> QED
  BY Inductive, PTL DEF IInv

\* A save on one event loop is an atomic read-modify-write: whatever other
\* coroutines do, the row a save read is still the row it replaces.
THEOREM SaveIsAtomic == ASSUME OneLoop PROVE Spec => []ReadStillCurrent
<1> QED
  BY Inductive, PTL DEF IInv

-----------------------------------------------------------------------------
(* Aborts *)

\* Of the steps only WriteRow changes a row or answers an abort.
LEMMA OthersKeepRows ==
  ASSUME Next, \A t \in Tasks : ~WriteRow(t)
  PROVE  UNCHANGED <<snapshots, claims>>
<1>1. ASSUME NEW t \in Tasks, BeginSave(t) \/ NothingToWrite(t) \/ Notify(t)
      PROVE  UNCHANGED <<snapshots, claims>>
  BY <1>1 DEF BeginSave, NothingToWrite, Notify
<1>2. ASSUME NEW w \in Watchers, StreamStep(w) PROVE UNCHANGED <<snapshots, claims>>
  BY <1>2 DEF StreamStep, Seed, Register, Yield, StopIteration, Aclose, OnClose, store, taskVars
<1> QED
  BY <1>1, <1>2 DEF Next, TaskStep

\* An abort that answers finds a row nobody was told of before, and leaves it
\* aborted; every other write leaves an aborted row aborted.
LEMMA WriteAnswersOnce ==
  ASSUME IInv, AbortAnswersOnce, NEW t \in Tasks, WriteRow(t)
  PROVE  AbortAnswersOnce'
<1> DEFINE id == job[t].id
<1>1. job[t] \in Jobs /\ existing[t] = snapshots[id] /\ id \in Ids
  BY DEF WriteRow, IInv, LockHeld, ReadStillCurrent, Jobs
<1>2. PICK row \in Persisted(t) : snapshots' = [snapshots EXCEPT ![id] = row]
  BY DEF WriteRow
<1>3. claims' = [claims EXCEPT ![id] = IF Claimed(t) THEN @ + 1 ELSE @]
  BY DEF WriteRow
<1>4. claims \in [Ids -> Nat] /\ snapshots \in [Ids -> Rows \cup {NoRow}]
  BY DEF IInv, TypeOK
<1>5. snapshots'[id] = row /\ \A i \in Ids \ {id} : snapshots'[i] = snapshots[i] /\ claims'[i] = claims[i]
  BY <1>1, <1>2, <1>3, <1>4
<1>6. CASE Claimed(t)
  <2>1. claims[id] = 0 /\ claims'[id] = 1
    BY <1>1, <1>3, <1>4, <1>6 DEF Claimed, AbortAnswersOnce
  <2>2. Produced(t) = {[existing[t] EXCEPT !.status = "aborted"]}
    BY <1>6 DEF Claimed, Produced, abort_if_pending
  <2>3. existing[t] \in Rows
    BY <1>1, <1>4, <1>6 DEF Claimed, NoRow
  <2>4. row = stamp_store_fields([existing[t] EXCEPT !.status = "aborted"])
    BY <1>2, <2>2 DEF Persisted, apply_save
  <2>5. row.status = "aborted"
    BY <2>3, <2>4 DEF stamp_store_fields, Rows
  <2> QED
    BY <1>5, <2>1, <2>5 DEF AbortAnswersOnce
<1>7. CASE ~Claimed(t)
  <2>1. claims' = claims
    BY <1>1, <1>3, <1>4, <1>7
  <2>2. snapshots[id].status \in TERMINAL_STATUSES => row.status = snapshots[id].status
    BY <1>1, <1>2, <1>4, ProducedRows, ApplySaveRows DEF Persisted, IInv
  <2> QED
    BY <1>5, <2>1, <2>2 DEF AbortAnswersOnce, TERMINAL_STATUSES
<1> QED
  BY <1>6, <1>7

\* abort_snapshot answers `pending` to at most one of any number of callers, and
\* from then on the snapshot is aborted, whatever the turn it cancelled still
\* tries to save.
THEOREM AbortTellsOneCaller == ASSUME OneLoop PROVE Spec => []AbortAnswersOnce
<1>1. Init => AbortAnswersOnce
  BY DEF Init, AbortAnswersOnce
<1>2. ASSUME IInv, AbortAnswersOnce, [Next]_vars PROVE AbortAnswersOnce'
  <2>1. CASE UNCHANGED vars
    BY <1>2, <2>1 DEF vars, AbortAnswersOnce
  <2>2. ASSUME NEW t \in Tasks, WriteRow(t) PROVE AbortAnswersOnce'
    BY <1>2, <2>2, WriteAnswersOnce
  <2>3. CASE Next /\ \A t \in Tasks : ~WriteRow(t)
    BY <1>2, <2>3, OthersKeepRows DEF AbortAnswersOnce
  <2> QED
    BY <1>2, <2>1, <2>2, <2>3
<1> QED
  BY <1>1, <1>2, Inductive, PTL DEF Spec

-----------------------------------------------------------------------------
\* The store keeps the promise of SnapshotLifecycle: on one event loop a snapshot
\* is created once, settles at most once, and an aborted, failed or completed run
\* never changes status again.
THEOREM StoreImplementsLifecycle == ASSUME OneLoop PROVE Spec => ImplementsLifecycle
<1> DEFINE st == [id \in Ids |-> snapshots[id].status]
<1>1. Init => Promise!LifecycleInit
  BY DEF Init, Promise!LifecycleInit, NoRow
<1>2. ASSUME IInv, [Next]_vars PROVE [Promise!LifecycleNext]_st
  <2>1. CASE UNCHANGED vars
    BY <2>1 DEF vars
  <2>2. ASSUME NEW t \in Tasks, WriteRow(t) PROVE [Promise!LifecycleNext]_st
    <3>1. job[t] \in Jobs /\ existing[t] = snapshots[job[t].id] /\ job[t].id \in Ids
      BY <1>2, <2>2 DEF WriteRow, IInv, LockHeld, ReadStillCurrent, Jobs
    <3>2. PICK row \in Persisted(t) : snapshots' = [snapshots EXCEPT ![job[t].id] = row]
      BY <2>2 DEF WriteRow
    <3> DEFINE id == job[t].id
    <3>3. existing[t] \in Rows \cup {NoRow}
      BY <1>2 DEF IInv, TypeOK
    <3>4. /\ row \in Rows
          /\ snapshots[id].status \in TERMINAL_STATUSES => row.status = snapshots[id].status
      BY <1>2, <3>1, <3>2, <3>3, ProducedRows, ApplySaveRows DEF Persisted, IInv
    <3>5. row.status \in Statuses /\ snapshots[id].status \in Statuses \cup {"absent"}
      BY <3>1, <3>3, <3>4 DEF Rows, NoRow
    <3>6. st' = [st EXCEPT ![id] = row.status]
      BY <1>2, <3>1, <3>2 DEF IInv, TypeOK
    <3>7. CASE snapshots[id].status = "absent"
      BY <3>1, <3>5, <3>6, <3>7
      DEF Promise!LifecycleNext, Promise!Create, Promise!Statuses, Promise!TERMINAL_STATUSES,
          Statuses, TERMINAL_STATUSES
    <3>8. CASE snapshots[id].status = "pending"
      <4>1. CASE row.status = "pending"
        BY <3>1, <3>6, <3>8, <4>1
      <4>2. CASE row.status \in TERMINAL_STATUSES
        BY <3>1, <3>6, <3>8, <4>2
        DEF Promise!LifecycleNext, Promise!Settle, Promise!TERMINAL_STATUSES, TERMINAL_STATUSES
      <4> QED
        BY <3>5, <4>1, <4>2 DEF Statuses
    <3>9. CASE snapshots[id].status \in TERMINAL_STATUSES
      BY <3>1, <3>4, <3>6, <3>9
    <3> QED
      BY <3>5, <3>7, <3>8, <3>9 DEF Statuses
  <2>3. CASE Next /\ \A t \in Tasks : ~WriteRow(t)
    BY <2>3, OthersKeepRows
  <2> QED
    BY <1>2, <2>1, <2>2, <2>3
<1> QED
  BY <1>1, <1>2, Inductive, PTL DEF Spec, ImplementsLifecycle, Promise!Lifecycle

-----------------------------------------------------------------------------
(* Queues of the status streams *)

Items == Statuses \cup {"end"}

\* What a stream with queue q has before the i-th item; l is the status it yielded last.
Before(q, l, i) == IF i = 1 THEN l ELSE q[i - 1]

\* The last status a stream was given: a sentinel stands behind it, never alone.
Latest(q, l) ==
  IF q = <<>> THEN l
  ELSE IF q[Len(q)] # "end" THEN q[Len(q)]
  ELSE Before(q, l, Len(q))

\* The sentinel is behind the terminal status s it closes the stream on, yielded or not.
EndsBehindTerminal(q, l, s) ==
  \A i \in 1..Len(q) : q[i] = "end" => Before(q, l, i) \in TERMINAL_STATUSES /\ Before(q, l, i) = s

\* The last status of a queue is the one behind which there are only sentinels.
LEMMA LastIsOne ==
  ASSUME NEW q \in Seq(Items), NEW i \in 1..Len(q), NEW c \in 1..Len(q),
         LastStatus(q, i), LastStatus(q, c)
  PROVE  c = i
<1>1. Len(q) \in Nat /\ q[i] # "end" /\ q[c] # "end"
  BY DEF LastStatus
<1>2. ~(c < i)
  BY <1>1 DEF LastStatus
<1>3. ~(i < c)
  BY <1>1 DEF LastStatus
<1> QED
  BY <1>1, <1>2, <1>3

\* Since no sentinel follows a sentinel, that is the last item or the one before it.
LEMMA ToldIsLatest ==
  ASSUME NEW w, queue[w] \in Seq(Items), NEW s, EndsBehindTerminal(queue[w], last[w], s)
  PROVE  Told(w) = Latest(queue[w], last[w])
<1> DEFINE q == queue[w]
           n == Len(q)
<1>1. n \in Nat /\ (q # <<>> => n >= 1) /\ (q = <<>> => n = 0)
  OBVIOUS
<1>2. ASSUME NEW i \in 1..n, LastStatus(q, i) PROVE Told(w) = q[i]
  <2>1. ~ \A k \in 1..n : q[k] = "end"
    BY <1>2 DEF LastStatus
  <2>2. PICK c \in 1..n : c = (CHOOSE k \in 1..n : LastStatus(q, k)) /\ LastStatus(q, c)
    BY <1>2
  <2>3. c = i
    BY <1>2, <2>2, LastIsOne
  <2> QED
    BY <2>1, <2>2, <2>3 DEF Told
<1>3. CASE q = <<>>
  BY <1>1, <1>3 DEF Told, Latest
<1>4. CASE q # <<>> /\ q[n] # "end"
  <2>1. n \in 1..n /\ LastStatus(q, n)
    BY <1>1, <1>4 DEF LastStatus
  <2> QED
    BY <1>2, <1>4, <2>1 DEF Latest
<1>5. CASE q # <<>> /\ q[n] = "end" /\ n = 1
  <2>1. \A i \in 1..Len(q) : q[i] = "end"
    BY <1>5
  <2> QED
    BY <1>5, <2>1 DEF Told, Before, Latest
<1>6. CASE q # <<>> /\ q[n] = "end" /\ n > 1
  <2>1. Before(q, last[w], n) \in TERMINAL_STATUSES /\ Before(q, last[w], n) = q[n - 1]
    BY <1>1, <1>6 DEF EndsBehindTerminal, Before
  <2>2. n - 1 \in 1..n /\ \A j \in ((n - 1) + 1)..n : j = n
    BY <1>1, <1>6
  <2>3. q[n - 1] # "end"
    BY <2>1 DEF TERMINAL_STATUSES
  <2>4. LastStatus(q, n - 1)
    BY <1>6, <2>2, <2>3 DEF LastStatus
  <2>5. Told(w) = q[n - 1]
    BY <1>2, <2>2, <2>4
  <2> QED
    BY <1>6, <2>1, <2>5 DEF Latest
<1>7. q # <<>> => n = 1 \/ n > 1
  <2> HIDE DEF n
  <2> QED
    BY <1>1
<1> QED
  BY <1>3, <1>4, <1>5, <1>6, <1>7

\* A consumer takes the head of its queue: what is left is still in order.
LEMMA ConsumerMoves ==
  ASSUME NEW q \in Seq(Items), q # <<>>, NEW l, NEW s, EndsBehindTerminal(q, l, s),
         NEW m, m = IF Head(q) = "end" THEN l ELSE Head(q)
  PROVE  /\ EndsBehindTerminal(Tail(q), m, s)
         /\ Head(q) # "end" => Latest(Tail(q), m) = Latest(q, l)
         /\ Head(q) = "end" => l \in TERMINAL_STATUSES /\ l = s
<1> DEFINE n == Len(q)
           r == Tail(q)
<1>1. n \in Nat /\ n >= 1 /\ Head(q) = q[1]
  OBVIOUS
<1>2. /\ r \in Seq(Items)
      /\ Len(r) = n - 1
      /\ \A i \in 1..(n - 1) : r[i] = q[i + 1]
  BY <1>1
<1>3. r = <<>> <=> n = 1
  <2>1. r = <<>> <=> Len(r) = 0
    <3> HIDE DEF r
    <3> QED
      BY <1>2
  <2>2. n - 1 = 0 <=> n = 1
    <3> HIDE DEF n
    <3> QED
      BY <1>1
  <2> HIDE DEF r, n
  <2> QED
    BY <1>2, <2>1, <2>2
<1> HIDE DEF n, r
<1>4. \A i \in 1..n : q[i] = "end" => Before(q, l, i) \in TERMINAL_STATUSES /\ Before(q, l, i) = s
  BY DEF EndsBehindTerminal, n
<1>5. ~(n > 1 /\ q[1] = "end" /\ q[2] = "end")
  <2>1. n > 1 => 2 \in 1..n /\ 2 # 1 /\ 2 - 1 = 1
    BY <1>1
  <2>2. (n > 1 /\ q[2] = "end") => Before(q, l, 2) \in TERMINAL_STATUSES /\ Before(q, l, 2) = q[1]
    BY <1>4, <2>1 DEF Before
  <2> QED
    BY <2>2 DEF TERMINAL_STATUSES
<1>6. ASSUME NEW i \in 1..(n - 1), r[i] = "end" PROVE Before(r, m, i) = Before(q, l, i + 1)
  <2>1. i \in Nat /\ i + 1 # 1 /\ (i + 1) - 1 = i /\ i <= n - 1 /\ i >= 1
    BY <1>1
  <2>2. CASE i = 1
    BY <1>1, <1>2, <1>5, <1>6, <2>1, <2>2 DEF Before
  <2>3. CASE i # 1
    <3>1. i - 1 \in 1..(n - 1) /\ (i - 1) + 1 = i
      BY <1>1, <2>1, <2>3
    <3>2. r[i - 1] = q[i]
      BY <1>2, <3>1
    <3> QED
      BY <2>1, <2>3, <3>2 DEF Before
  <2> QED
    BY <2>2, <2>3
<1>7. ASSUME NEW i \in 1..Len(r), r[i] = "end"
      PROVE  Before(r, m, i) \in TERMINAL_STATUSES /\ Before(r, m, i) = s
  <2>1. i \in 1..(n - 1) /\ i + 1 \in 1..n
    BY <1>1, <1>2
  <2>2. q[i + 1] = "end"
    BY <1>2, <1>7, <2>1
  <2>3. Before(r, m, i) = Before(q, l, i + 1)
    BY <1>6, <1>7, <2>1
  <2> QED
    BY <1>4, <2>1, <2>2, <2>3
<1>8. EndsBehindTerminal(r, m, s)
  BY <1>7 DEF EndsBehindTerminal
<1>9. ASSUME Head(q) # "end" PROVE Latest(r, m) = Latest(q, l)
  <2>1. CASE n = 1
    BY <1>1, <1>3, <1>9, <2>1 DEF Latest, n
  <2>2. CASE n # 1
    <3>1. n - 1 \in 1..(n - 1) /\ (n - 1) + 1 = n /\ r # <<>>
      BY <1>1, <1>3, <2>2
    <3>2. r[n - 1] = q[n] /\ Len(r) = n - 1
      BY <1>2, <3>1
    <3>3. q[n] = "end" => Before(r, m, n - 1) = Before(q, l, n)
      <4> SUFFICES ASSUME q[n] = "end" PROVE Before(r, m, n - 1) = Before(q, l, n)
        OBVIOUS
      <4>1. Before(r, m, n - 1) = Before(q, l, (n - 1) + 1)
        BY <1>6, <3>1, <3>2
      <4> QED
        BY <3>1, <4>1
    <3>4. Latest(r, m) = IF q[n] # "end" THEN q[n] ELSE Before(r, m, n - 1)
      BY <3>1, <3>2 DEF Latest
    <3> QED
      BY <3>3, <3>4 DEF Latest, n
  <2> QED
    BY <2>1, <2>2
<1>10. ASSUME Head(q) = "end" PROVE l \in TERMINAL_STATUSES /\ l = s
  <2>1. 1 \in 1..n /\ q[1] = "end"
    BY <1>1, <1>10
  <2> QED
    BY <1>4, <2>1 DEF Before
<1> QED
  BY <1>8, <1>9, <1>10 DEF r

\* What an announcement appends, by its status.
LEMMA AnnouncementItems ==
  ASSUME NEW s \in Statuses, NEW q \in Seq(Items), NEW r, r = q \o Announcement(s)
  PROVE  /\ Len(q) \in Nat /\ r # <<>>
         /\ \A i \in 1..Len(q) : r[i] = q[i]
         /\ r[Len(q) + 1] = s /\ s # "end"
         /\ s \notin TERMINAL_STATUSES => Len(r) = Len(q) + 1
         /\ s \in TERMINAL_STATUSES => Len(r) = Len(q) + 2 /\ r[Len(q) + 2] = "end"
<1>1. s \in Items /\ "end" \in Items /\ s # "end"
  BY DEF Items, Statuses, TERMINAL_STATUSES
<1>2. CASE s \in TERMINAL_STATUSES
  <2>1. Announcement(s) = <<s, "end">>
    BY <1>2 DEF Announcement
  <2>2. <<s, "end">> \in Seq(Items) /\ Len(<<s, "end">>) = 2 /\ <<s, "end">>[1] = s /\ <<s, "end">>[2] = "end"
    BY <1>1
  <2>3. Len(q) \in Nat /\ Len(r) = Len(q) + 2 /\ \A i \in 1..Len(q) : r[i] = q[i]
    BY <1>1, <2>1, <2>2
  <2>4. r[Len(q) + 1] = s /\ r[Len(q) + 2] = "end"
    BY <1>1, <2>1, <2>2
  <2> QED
    BY <1>1, <1>2, <2>3, <2>4
<1>3. CASE s \notin TERMINAL_STATUSES
  <2>1. Announcement(s) = <<s>>
    BY <1>3 DEF Announcement
  <2>2. <<s>> \in Seq(Items) /\ Len(<<s>>) = 1 /\ <<s>>[1] = s
    BY <1>1
  <2>3. Len(q) \in Nat /\ Len(r) = Len(q) + 1 /\ \A i \in 1..Len(q) : r[i] = q[i]
    BY <1>1, <2>1, <2>2
  <2>4. r[Len(q) + 1] = s
    BY <1>1, <2>1, <2>2
  <2> QED
    BY <1>1, <1>3, <2>3, <2>4
<1> QED
  BY <1>2, <1>3

\* A stream that is announced the status of its row has been told the current one.
LEMMA AnnouncementTells ==
  ASSUME NEW s \in Statuses, NEW q \in Seq(Items), NEW l, EndsBehindTerminal(q, l, s)
  PROVE  EndsBehindTerminal(q \o Announcement(s), l, s) /\ Latest(q \o Announcement(s), l) = s
<1> DEFINE r == q \o Announcement(s)
           n == Len(q)
<1>1. /\ n \in Nat /\ r # <<>>
      /\ \A i \in 1..n : r[i] = q[i]
      /\ r[n + 1] = s /\ s # "end"
      /\ s \notin TERMINAL_STATUSES => Len(r) = n + 1
      /\ s \in TERMINAL_STATUSES => Len(r) = n + 2 /\ r[n + 2] = "end"
  BY AnnouncementItems
<1> HIDE DEF n, r
<1>2. Before(r, l, n + 2) = s
  <2>1. n + 2 # 1 /\ (n + 2) - 1 = n + 1
    BY <1>1
  <2> QED
    BY <1>1, <2>1 DEF Before
<1>3. Latest(r, l) = s
  BY <1>1, <1>2 DEF Latest
<1>4. ASSUME NEW i \in 1..Len(r), r[i] = "end"
      PROVE  Before(r, l, i) \in TERMINAL_STATUSES /\ Before(r, l, i) = s
  <2>1. CASE s \in TERMINAL_STATUSES /\ i = n + 2
    BY <1>2, <2>1
  <2>2. CASE i \in 1..n
    <3>1. q[i] = "end"
      BY <1>1, <1>4, <2>2
    <3>2. Before(r, l, i) = Before(q, l, i)
      <4>1. i # 1 => i - 1 \in 1..n
        BY <1>1, <2>2
      <4> QED
        BY <1>1, <4>1 DEF Before
    <3> QED
      BY <2>2, <3>1, <3>2 DEF EndsBehindTerminal, n
  <2>3. i \in 1..n \/ i = n + 1 \/ (i = n + 2 /\ s \in TERMINAL_STATUSES)
    BY <1>1
  <2> QED
    BY <1>1, <1>4, <2>1, <2>2, <2>3
<1>5. EndsBehindTerminal(r, l, s)
  BY <1>4 DEF EndsBehindTerminal
<1> QED
  BY <1>3, <1>5 DEF r

-----------------------------------------------------------------------------
(* Status streams *)

\* A stream is registered for its snapshot alone, and as long as it is open.
Registered(w) ==
  /\ \A id \in Ids : w \in subs[id] => watched[w] = id
  /\ wpc[w] = "open" => w \in subs[watched[w]]

\* No task is between its write to the id and the notification.
Announced(id) == \A t \in Tasks : pc[t] = "written" => job[t].id # id

\* A stream that has its first status, registered or not, has the current one, and
\* one that ended has yielded the terminal status.
Current(w) ==
  /\ wpc[w] \in {"seeded", "open"} /\ ~Absent(snapshots[watched[w]]) /\ Announced(watched[w])
       => Latest(queue[w], last[w]) = snapshots[watched[w]].status
  /\ wpc[w] = "ended" => last[w] \in TERMINAL_STATUSES /\ last[w] = snapshots[watched[w]].status

\* What a task announces is the status it wrote.
WriteAnnounced(t) ==
  pc[t] = "written" => \A row \in Persisted(t) : row.status = snapshots[job[t].id].status

StreamInv(w) ==
  EndsBehindTerminal(queue[w], last[w], snapshots[watched[w]].status) /\ Registered(w) /\ Current(w)

SInv == (\A w \in Watchers : StreamInv(w)) /\ (\A t \in Tasks : WriteAnnounced(t))

\* A mutator returns one row at most, and so does apply_save.
LEMMA OneRowWritten ==
  ASSUME NEW t, job[t].kind \in Mutators, NEW a \in Persisted(t), NEW b \in Persisted(t)
  PROVE  a.status = b.status
<1>1. \A x, y \in Produced(t) : x = y
  <2>1. CASE job[t].kind = "pending"
    BY <2>1 DEF Produced
  <2>2. CASE job[t].kind = "settle"
    BY <2>2 DEF Produced, UnlessAborted
  <2>3. CASE job[t].kind = "abort"
    BY <2>3 DEF Produced, abort_if_pending
  <2>4. CASE job[t].kind = "beat"
    BY <2>4 DEF Produced, BeatIfPending
  <2> QED
    BY <2>1, <2>2, <2>3, <2>4 DEF Mutators
<1> QED
  BY <1>1 DEF Persisted, apply_save

\* A step that leaves a stream alone keeps its invariant, as long as it does not take a
\* terminal status back and announces what it wrote.
LEMMA QuietStream ==
  ASSUME NEW w \in Watchers, StreamInv(w),
         queue'[w] = queue[w], last'[w] = last[w], watched' = watched, wpc'[w] = wpc[w],
         \A id \in Ids : w \in subs'[id] <=> w \in subs[id],
         watched[w] \in Ids,
         snapshots[watched[w]].status \in TERMINAL_STATUSES
           => snapshots'[watched[w]].status = snapshots[watched[w]].status,
         wpc[w] \in {"seeded", "open"} /\ Announced(watched[w])'
           => snapshots'[watched[w]] = snapshots[watched[w]] /\ Announced(watched[w])
  PROVE  StreamInv(w)'
<1>1. EndsBehindTerminal(queue'[w], last'[w], snapshots'[watched[w]].status)
  BY DEF StreamInv, EndsBehindTerminal
<1>2. Registered(w)'
  BY DEF StreamInv, Registered
<1>3. Current(w)'
  BY DEF StreamInv, Current
<1> QED
  BY <1>1, <1>2, <1>3 DEF StreamInv

\* Inside a critical section no other coroutine of the loop is in one.
LEMMA Exclusive ==
  ASSUME OneLoop, TypeOK, LockHeld
  PROVE  /\ \A t, u \in Tasks : pc[t] # "idle" /\ pc[u] # "idle" => t = u
         /\ \A t \in Tasks, w \in Watchers : ~(pc[t] # "idle" /\ wpc[w] = "seeded")
         /\ \A x \in Tasks \cup Watchers, t \in Tasks : Unlocked(x) => pc[t] = "idle"
BY LoopAssumption DEF OneLoop, LockHeld, Unlocked

\* Beginning a save, or leaving it without a row, says nothing to any stream.
LEMMA SaveWithoutWrite ==
  ASSUME OneLoop, IInv, SInv, NEW t \in Tasks, BeginSave(t) \/ NothingToWrite(t)
  PROVE  SInv'
<1>1. TypeOK /\ LockHeld
  BY DEF IInv
<1>2. /\ snapshots' = snapshots /\ subs' = subs /\ wpc' = wpc /\ watched' = watched
      /\ queue' = queue /\ last' = last
      /\ pc[t] # "written" /\ pc'[t] # "written"
      /\ \A u \in Tasks : u # t => pc'[u] = pc[u] /\ job'[u] = job[u] /\ existing'[u] = existing[u]
  BY <1>1 DEF BeginSave, NothingToWrite, TypeOK, streams
<1>3. ASSUME NEW w \in Watchers PROVE StreamInv(w)'
  <2>1. Announced(watched[w])' => Announced(watched[w])
    BY <1>2 DEF Announced
  <2>2. watched[w] \in Ids
    BY <1>1 DEF TypeOK
  <2> QED
    BY <1>2, <2>1, <2>2, QuietStream DEF SInv
<1>4. ASSUME NEW u \in Tasks PROVE WriteAnnounced(u)'
  BY <1>2 DEF SInv, WriteAnnounced, Persisted, Produced
<1> QED
  BY <1>3, <1>4 DEF SInv

\* A write is announced by the task that made it, and takes no terminal status back.
LEMMA WriteThenAnnounce ==
  ASSUME OneLoop, IInv, SInv, NEW t \in Tasks, WriteRow(t)
  PROVE  SInv'
<1>1. TypeOK /\ LockHeld /\ ReadStillCurrent
  BY DEF IInv
<1>2. /\ subs' = subs /\ wpc' = wpc /\ watched' = watched /\ queue' = queue /\ last' = last
      /\ job' = job /\ existing' = existing
      /\ pc[t] = "read" /\ pc' = [pc EXCEPT ![t] = "written"]
  BY DEF WriteRow, streams
<1>3. PICK row \in Persisted(t) : snapshots' = [snapshots EXCEPT ![job[t].id] = row]
  BY DEF WriteRow
<1>4. job[t] \in Jobs /\ job[t].id \in Ids /\ job[t].kind \in Mutators
  BY <1>1, <1>2 DEF LockHeld, Jobs
<1>5. existing[t] = snapshots[job[t].id]
  BY <1>1, <1>2 DEF ReadStillCurrent
<1>6. snapshots[job[t].id].status \in TERMINAL_STATUSES => row.status = snapshots[job[t].id].status
  <2>1. existing[t] \in Rows \cup {NoRow} /\ Produced(t) \in SUBSET Rows
    BY <1>1, <1>4, ProducedRows DEF TypeOK
  <2> QED
    BY <1>5, <2>1, ApplySaveRows DEF Persisted
<1>7. /\ snapshots'[job[t].id] = row
      /\ \A id \in Ids : id # job[t].id => snapshots'[id] = snapshots[id]
      /\ pc'[t] = "written" /\ \A u \in Tasks : u # t => pc'[u] = pc[u]
  BY <1>1, <1>2, <1>3, <1>4 DEF TypeOK
<1>8. ASSUME NEW w \in Watchers PROVE StreamInv(w)'
  <2>1. watched[w] \in Ids
    BY <1>1 DEF TypeOK
  <2>2. Announced(watched[w])' => watched[w] # job[t].id /\ Announced(watched[w])
    BY <1>2, <1>7 DEF Announced
  <2> QED
    BY <1>2, <1>6, <1>7, <2>1, <2>2, QuietStream DEF SInv
<1>9. ASSUME NEW u \in Tasks PROVE WriteAnnounced(u)'
  <2>1. CASE u = t
    <3>1. \A other \in Persisted(t) : other.status = row.status
      BY <1>4, OneRowWritten
    <3>2. Persisted(t)' = Persisted(t)
      BY <1>2 DEF Persisted, Produced
    <3> QED
      BY <1>2, <1>7, <2>1, <3>1, <3>2 DEF WriteAnnounced
  <2>2. CASE u # t
    <3>1. pc'[u] # "written"
      BY <1>1, <1>2, <1>7, <2>2, Exclusive
    <3> QED
      BY <3>1 DEF WriteAnnounced
  <2> QED
    BY <2>1, <2>2
<1> QED
  BY <1>8, <1>9 DEF SInv

\* A notification tells every open stream of the row what was written, and ends the
\* interval in which a stream may be behind.
LEMMA NotifyTells ==
  ASSUME OneLoop, IInv, SInv, NEW t \in Tasks, Notify(t)
  PROVE  SInv'
<1>1. TypeOK /\ LockHeld
  BY DEF IInv
<1>2. /\ snapshots' = snapshots /\ subs' = subs /\ wpc' = wpc /\ watched' = watched /\ last' = last
      /\ pc[t] = "written" /\ pc' = [pc EXCEPT ![t] = "idle"] /\ job' = [job EXCEPT ![t] = NoJob]
  BY DEF Notify
<1>3. job[t] \in Jobs /\ job[t].id \in Ids
  BY <1>1, <1>2 DEF LockHeld, Jobs
<1>4. PICK row \in Persisted(t) :
        queue' = [w \in Watchers |-> IF w \in subs[job[t].id]
                                       THEN queue[w] \o Announcement(row.status) ELSE queue[w]]
  BY DEF Notify
<1>5. row.status = snapshots[job[t].id].status /\ row.status \in Statuses
  <2>1. row.status = snapshots[job[t].id].status
    BY <1>2 DEF SInv, WriteAnnounced
  <2>2. Produced(t) \in SUBSET Rows /\ existing[t] \in Rows \cup {NoRow}
    BY <1>1, <1>3, ProducedRows DEF TypeOK
  <2>3. row \in Rows
    BY <2>2, ApplySaveRows DEF Persisted
  <2> QED
    BY <2>1, <2>3 DEF Rows
<1>6. /\ pc'[t] = "idle" /\ \A u \in Tasks : u # t => pc'[u] = pc[u] /\ job'[u] = job[u]
      /\ \A u \in Tasks : u # t => pc[u] = "idle"
      /\ \A w \in Watchers : wpc[w] # "seeded"
  BY <1>1, <1>2, Exclusive DEF TypeOK
<1>7. ASSUME NEW w \in Watchers PROVE StreamInv(w)'
  <2>1. watched[w] \in Ids /\ StreamInv(w) /\ queue[w] \in Seq(Items)
    BY <1>1 DEF SInv, TypeOK, Items
  <2>2. CASE w \in subs[job[t].id]
    <3>1. watched[w] = job[t].id
      BY <1>3, <2>1, <2>2 DEF StreamInv, Registered
    <3>2. queue'[w] = queue[w] \o Announcement(row.status)
      BY <1>4, <2>2
    <3>3. /\ EndsBehindTerminal(queue'[w], last[w], row.status)
          /\ Latest(queue'[w], last[w]) = row.status
      BY <1>5, <2>1, <3>1, <3>2, AnnouncementTells DEF StreamInv
    <3>4. EndsBehindTerminal(queue'[w], last'[w], snapshots'[watched'[w]].status)
      BY <1>2, <1>5, <3>1, <3>3
    <3>5. Current(w)'
      BY <1>2, <1>5, <2>1, <3>1, <3>3 DEF Current, StreamInv
    <3>6. Registered(w)'
      BY <1>2, <2>1 DEF Registered, StreamInv
    <3> QED
      BY <3>4, <3>5, <3>6 DEF StreamInv
  <2>3. CASE w \notin subs[job[t].id]
    <3>1. queue'[w] = queue[w]
      BY <1>4, <2>3
    <3>2. wpc[w] \in {"seeded", "open"} => watched[w] # job[t].id
      BY <1>6, <2>1, <2>3 DEF StreamInv, Registered
    <3>3. watched[w] # job[t].id => Announced(watched[w])
      BY <1>6 DEF Announced
    <3> QED
      BY <1>2, <2>1, <3>1, <3>2, <3>3, QuietStream
  <2> QED
    BY <2>2, <2>3
<1>8. ASSUME NEW u \in Tasks PROVE WriteAnnounced(u)'
  BY <1>6 DEF WriteAnnounced
<1> QED
  BY <1>7, <1>8 DEF SInv

\* The steps of one stream: it is seeded with the current status under the lock, then
\* registered before anybody can save, and it takes its queue in order.
LEMMA StreamStepsKeep ==
  ASSUME OneLoop, IInv, SInv, NEW w \in Watchers, StreamStep(w)
  PROVE  SInv'
<1>1. TypeOK /\ LockHeld /\ StreamInv(w) /\ watched[w] \in Ids /\ queue[w] \in Seq(Items)
  BY DEF IInv, SInv, TypeOK, Items
<1>2. /\ snapshots' = snapshots /\ watched' = watched
      /\ pc' = pc /\ job' = job /\ existing' = existing
  BY DEF StreamStep, Seed, Register, Yield, StopIteration, Aclose, OnClose, store, taskVars
<1>3. /\ \A v \in Watchers : v # w => queue'[v] = queue[v] /\ last'[v] = last[v] /\ wpc'[v] = wpc[v]
      /\ \A v \in Watchers, id \in Ids : v # w => (v \in subs'[id] <=> v \in subs[id])
  <2>1. CASE Seed(w) \/ Yield(w) \/ StopIteration(w) \/ Aclose(w)
    BY <1>1, <2>1 DEF Seed, Yield, StopIteration, Aclose, TypeOK
  <2>2. CASE Register(w) \/ OnClose(w)
    <3>1. queue' = queue /\ last' = last /\ \A v \in Watchers : v # w => wpc'[v] = wpc[v]
      BY <1>1, <2>2 DEF Register, OnClose, TypeOK
    <3>2. /\ \A id \in Ids : id # watched[w] => subs'[id] = subs[id]
          /\ subs'[watched[w]] \in {subs[watched[w]] \cup {w}, subs[watched[w]] \ {w}}
      BY <1>1, <2>2 DEF Register, OnClose, TypeOK
    <3> QED
      BY <3>1, <3>2
  <2> QED
    BY <2>1, <2>2 DEF StreamStep
<1>4. ASSUME NEW id PROVE Announced(id)' <=> Announced(id)
  BY <1>2 DEF Announced
<1>5. ASSUME NEW u \in Tasks PROVE WriteAnnounced(u)'
  BY <1>2 DEF SInv, WriteAnnounced, Persisted, Produced
<1>6. ASSUME NEW v \in Watchers, v # w PROVE StreamInv(v)'
  <2>1. watched[v] \in Ids /\ StreamInv(v)
    BY <1>1 DEF TypeOK, SInv
  <2> QED
    BY <1>2, <1>3, <1>4, <1>6, <2>1, QuietStream
<1>7. StreamInv(w)'
  <2>1. CASE Seed(w)
    <3> DEFINE s == snapshots[watched[w]].status
    <3>1. /\ queue'[w] = IF Absent(snapshots[watched[w]]) THEN <<>> ELSE Announcement(s)
          /\ wpc'[w] = "seeded" /\ wpc[w] = "idle" /\ subs' = subs /\ last' = last
      BY <1>1, <2>1 DEF Seed, TypeOK
    <3>2. Registered(w)'
      BY <1>1, <1>2, <3>1 DEF StreamInv, Registered
    <3>3. CASE Absent(snapshots[watched[w]])
      <4>1. queue'[w] = <<>>
        BY <3>1, <3>3
      <4>2. EndsBehindTerminal(queue'[w], last'[w], snapshots'[watched'[w]].status)
        BY <4>1 DEF EndsBehindTerminal
      <4>3. Current(w)'
        BY <1>2, <3>1, <3>3 DEF Current
      <4> QED
        BY <3>2, <4>2, <4>3 DEF StreamInv
    <3>4. CASE ~Absent(snapshots[watched[w]])
      <4>1. s \in Statuses
        BY <1>1, <3>4 DEF TypeOK, Rows, NoRow, Absent
      <4>2. queue'[w] = <<>> \o Announcement(s)
        <5>1. Announcement(s) \in Seq(Items)
          BY <4>1, AnnouncementSeq DEF Items
        <5> QED
          BY <3>1, <3>4, <5>1
      <4>3. <<>> \in Seq(Items) /\ EndsBehindTerminal(<<>>, last[w], s)
        BY DEF EndsBehindTerminal
      <4>4. /\ EndsBehindTerminal(queue'[w], last[w], s)
            /\ Latest(queue'[w], last[w]) = s
        <5> DEFINE empty == <<>>
        <5>1. empty \in Seq(Items) /\ EndsBehindTerminal(empty, last[w], s) /\ queue'[w] = empty \o Announcement(s)
          BY <4>2, <4>3
        <5> HIDE DEF empty, s
        <5> QED
          BY <4>1, <5>1, AnnouncementTells
      <4>5. Current(w)'
        BY <1>2, <3>1, <4>4 DEF Current
      <4>6. EndsBehindTerminal(queue'[w], last'[w], snapshots'[watched'[w]].status)
        BY <1>2, <3>1, <4>4
      <4> QED
        BY <3>2, <4>5, <4>6 DEF StreamInv
    <3> QED
      BY <3>3, <3>4
  <2>2. CASE Register(w)
    <3>1. /\ wpc[w] = "seeded" /\ wpc'[w] = "open" /\ queue' = queue /\ last' = last
          /\ w \in subs'[watched[w]]
          /\ \A id \in Ids : id # watched[w] => subs'[id] = subs[id]
      BY <1>1, <2>2 DEF Register, TypeOK
    <3>2. Registered(w)'
      BY <1>1, <1>2, <3>1 DEF StreamInv, Registered
    <3>3. Current(w)'
      BY <1>1, <1>2, <1>4, <3>1 DEF StreamInv, Current
    <3>4. EndsBehindTerminal(queue'[w], last'[w], snapshots'[watched'[w]].status)
      BY <1>1, <1>2, <3>1 DEF StreamInv
    <3> QED
      BY <3>2, <3>3, <3>4 DEF StreamInv
  <2>3. CASE Yield(w) \/ StopIteration(w)
    <3>1. /\ queue[w] # <<>> /\ queue'[w] = Tail(queue[w]) /\ subs' = subs /\ wpc[w] = "open"
          /\ last'[w] = IF Head(queue[w]) = "end" THEN last[w] ELSE Head(queue[w])
          /\ wpc'[w] = IF Head(queue[w]) = "end" THEN "ended" ELSE "open"
      BY <1>1, <2>3 DEF Yield, StopIteration, TypeOK
    <3>2. /\ EndsBehindTerminal(queue'[w], last'[w], snapshots[watched[w]].status)
          /\ Head(queue[w]) # "end" => Latest(queue'[w], last'[w]) = Latest(queue[w], last[w])
          /\ Head(queue[w]) = "end"
               => last[w] \in TERMINAL_STATUSES /\ last[w] = snapshots[watched[w]].status
      BY <1>1, <3>1, ConsumerMoves DEF StreamInv
    <3>3. Registered(w)'
      BY <1>1, <1>2, <3>1 DEF StreamInv, Registered
    <3>4. Current(w)'
      BY <1>1, <1>2, <1>4, <3>1, <3>2 DEF StreamInv, Current
    <3>5. EndsBehindTerminal(queue'[w], last'[w], snapshots'[watched'[w]].status)
      BY <1>2, <3>2
    <3> QED
      BY <3>3, <3>4, <3>5 DEF StreamInv
  <2>4. CASE Aclose(w)
    <3>1. wpc'[w] = "closed" /\ subs' = subs /\ queue' = queue /\ last' = last
      BY <1>1, <2>4 DEF Aclose, TypeOK
    <3>2. EndsBehindTerminal(queue'[w], last'[w], snapshots'[watched'[w]].status)
      BY <1>1, <1>2, <3>1 DEF StreamInv
    <3>3. Registered(w)' /\ Current(w)'
      BY <1>1, <1>2, <3>1 DEF StreamInv, Registered, Current
    <3> QED
      BY <3>2, <3>3 DEF StreamInv
  <2>5. CASE OnClose(w)
    <3>1. /\ wpc'[w] = wpc[w] /\ wpc[w] \in {"ended", "closed"} /\ queue' = queue /\ last' = last
          /\ \A id \in Ids : w \in subs'[id] => w \in subs[id]
      BY <1>1, <2>5 DEF OnClose, TypeOK
    <3>2. EndsBehindTerminal(queue'[w], last'[w], snapshots'[watched'[w]].status)
      BY <1>1, <1>2, <3>1 DEF StreamInv
    <3>3. Registered(w)' /\ Current(w)'
      BY <1>1, <1>2, <3>1 DEF StreamInv, Registered, Current
    <3> QED
      BY <3>2, <3>3 DEF StreamInv
  <2> QED
    BY <2>1, <2>2, <2>3, <2>4, <2>5 DEF StreamStep
<1> QED
  BY <1>5, <1>6, <1>7 DEF SInv

\* Nobody follows a snapshot at the start.
LEMMA InitSInv == Init => SInv
<1> SUFFICES ASSUME Init PROVE SInv
  OBVIOUS
<1>1. ASSUME NEW w \in Watchers PROVE StreamInv(w)
  BY DEF Init, StreamInv, EndsBehindTerminal, Registered, Current
<1>2. \A t \in Tasks : WriteAnnounced(t)
  BY DEF Init, WriteAnnounced
<1> QED
  BY <1>1, <1>2 DEF SInv

\* On one event loop no status is missed between the seed and the registration, an
\* open stream always has the current status of its snapshot, and a stream that ended
\* has yielded the terminal one.
THEOREM StreamHoldsCurrent == ASSUME OneLoop PROVE Spec => []StreamIsCurrent
<1>1. IInv /\ SInv /\ [Next]_vars => SInv'
  <2>1. ASSUME IInv, SInv, UNCHANGED vars PROVE SInv'
    <3>1. ASSUME NEW w \in Watchers PROVE StreamInv(w)'
      <4>1. watched[w] \in Ids /\ StreamInv(w)
        BY <2>1 DEF IInv, TypeOK, SInv
      <4>2. Announced(watched[w])' <=> Announced(watched[w])
        BY <2>1 DEF vars, Announced
      <4> QED
        BY <2>1, <4>1, <4>2, QuietStream DEF vars
    <3>2. ASSUME NEW t \in Tasks PROVE WriteAnnounced(t)'
      BY <2>1 DEF SInv, WriteAnnounced, Persisted, Produced, vars
    <3> QED
      BY <3>1, <3>2 DEF SInv
  <2>2. ASSUME IInv, SInv, Next PROVE SInv'
    BY <2>2, SaveWithoutWrite, WriteThenAnnounce, NotifyTells, StreamStepsKeep DEF Next, TaskStep
  <2> QED
    BY <2>1, <2>2
<1>2. IInv /\ SInv => StreamIsCurrent
  <2> SUFFICES ASSUME IInv, SInv, NEW w \in Watchers
               PROVE  /\ (/\ wpc[w] = "open"
                          /\ ~Absent(snapshots[watched[w]])
                          /\ \A t \in Tasks : pc[t] = "written" => job[t].id # watched[w])
                         => Told(w) = snapshots[watched[w]].status
                      /\ wpc[w] = "ended" => last[w] \in TERMINAL_STATUSES /\ last[w] = snapshots[watched[w]].status
    BY DEF StreamIsCurrent
  <2>1. queue[w] \in Seq(Items) /\ StreamInv(w)
    BY DEF IInv, SInv, TypeOK, Items
  <2>2. Told(w) = Latest(queue[w], last[w])
    BY <2>1, ToldIsLatest DEF StreamInv
  <2> QED
    BY <2>1, <2>2 DEF StreamInv, Current, Announced
<1> QED
  BY <1>1, <1>2, InitSInv, Inductive, PTL DEF Spec

-----------------------------------------------------------------------------
(* SessionHistory: the history of one session, kept in one of two ways.  A    *)
(* store that refuses to choose between branches keeps every row: when a       *)
(* session has one leaf, whatever was told lies on the way back from it.  And  *)
(* a store that prunes, for a client that is alone and sends one input at a    *)
(* time: the newest row and the one behind it are never pruned.                *)

Refuses(s) == s.strict /\ s.cap = 0
Lone(s) == s.cap # 1 /\ s.turns <= 1 /\ \A c, d \in s.clients : c = d

\* What a session lives in is one or the other.
KeptSafe == \A s \in Stores : Refuses(s) \/ Lone(s)

-----------------------------------------------------------------------------
(* Types *)

\* A row or none.
Refs == RowIds \cup {None}
Snapshots == [status : Statuses \cup {"absent"}, parent : Refs, turns : SUBSET RowIds]
Invocations ==
  [at : {"closed", "walking", "running", "recovering"}, way : {"none", "session", "snapshot"},
   cursor : Refs, base : Refs, turns : SUBSET RowIds, good : SUBSET RowIds, index : Nat,
   failed : BOOLEAN, live : Refs]

HistoryTypes ==
  /\ home \in Stores
  /\ rows \in [RowIds -> Snapshots]
  /\ nextId \in 1..(MaxIds + 1)
  /\ pruning \in SUBSET RowIds
  /\ inv \in [Clients -> Invocations]
  /\ handle \in [Clients -> Refs]
  /\ told \in [Clients -> SUBSET RowIds]
  /\ work \in SUBSET [id : RowIds, turns : SUBSET RowIds]

-----------------------------------------------------------------------------
(* The rows *)

\* The turn of the row has ended, and not by an abort.
Ended(row) == row.status \in {"completed", "failed"}
TurnsOf(id) == IF id = None THEN {} ELSE rows[id].turns
NewestId == nextId - 1

\* True of the rows of any session: a parent is older and has ended, what works
\* in the background is not built on, and what is pruned has ended.
TreeFits ==
  /\ \A id \in Present : id < nextId /\ rows[id].parent < id
  /\ \A id \in Present : rows[id].parent \in Present => Ended(rows[rows[id].parent])
  /\ \A w \in work : /\ w.id \in Present /\ w.turns = rows[w.id].turns
                     /\ rows[w.id].status \in {"pending", "aborted"}
  /\ \A id \in pruning : id \in Present /\ Ended(rows[id])

-----------------------------------------------------------------------------
(* A store that refuses to choose *)

\* The rows that descend from r, itself included: nothing of r is lost in them.
Family(r, D) ==
  /\ r \in D /\ D \subseteq Present
  /\ \A x \in D : rows[r].turns \subseteq rows[x].turns /\ (x # r => rows[x].parent \in D)
  /\ \A x \in Present : rows[x].parent \in D => x \in D

\* Whoever walks back from x stays in S until a completed row, which holds T.
Trail(x, S, T) ==
  /\ x \in S /\ S \subseteq Present
  /\ \A y \in S : T \subseteq rows[y].turns /\ (rows[y].status # "completed" => rows[y].parent \in S)

Fresh(i) == i.at = "running" /\ i.index = 0 /\ i.way = "session"

\* An invocation i of a client that was told T, with the handle h of its chat.
KeepsTold(i, T, h) ==
  /\ h # None => h \in Present
  /\ T = {} \/ \E r \in Present : rows[r].status = "completed" /\ rows[r].turns = T
  /\ i.at \in {"running", "recovering"} =>
       /\ i.base # None => i.base \in Present /\ Ended(rows[i.base])
       /\ i.good = i.turns
  /\ i.at = "running" => i.turns = TurnsOf(i.base)
  /\ i.at = "recovering" =>
       /\ i.base # None /\ rows[i.base].status = "failed"
       /\ i.turns = TurnsOf(rows[i.base].parent)
  /\ i.at = "walking" => /\ i.live = None /\ i.cursor \in Present
                         /\ T = {} \/ \E S : Trail(i.cursor, S, T)
  /\ Fresh(i) => T \subseteq i.turns /\ i.live <= i.base

RefusesRows ==
  /\ pruning = {} /\ Present = 1..NewestId
  /\ \A r \in Present : rows[r].status = "completed" => \E D : Family(r, D)

RefusesInv ==
  /\ RefusesRows
  /\ \A c \in Clients : KeepsTold(inv[c], told[c], handle[c])

-----------------------------------------------------------------------------
(* A client that is alone *)

Behind == IF NewestId = None THEN None ELSE rows[NewestId].parent

\* The newest row and what it was built on are there.
EndsKept ==
  /\ NewestId # None => NewestId \in Present
  /\ Behind # None => /\ Behind \in Present /\ rows[Behind].status = "completed"
                      /\ rows[Behind].turns \subseteq rows[NewestId].turns
                      /\ \A x \in Present : rows[x].parent \in Present => rows[rows[x].parent].parent # Behind
  /\ NewestId \notin pruning /\ Behind \notin pruning

\* Its invocation i, what it was told, and the handle of its chat.
FollowsNewest(i, T, h) ==
  /\ T \subseteq TurnsOf(NewestId)
  /\ NewestId # None /\ rows[NewestId].status # "completed" => T \subseteq TurnsOf(Behind)
  /\ h \in {None, NewestId, Behind}
  /\ h # None /\ h = Behind =>
       T \subseteq TurnsOf(Behind) \/ (i.at = "running" /\ i.index = 1 /\ ~i.failed)
  /\ i.at # "recovering" /\ i.index <= 1
  /\ i.at = "running" /\ i.index = 0 =>
       /\ i.base \in {None, NewestId, Behind}
       /\ i.base # None => rows[i.base].status = "completed"
       /\ i.turns = TurnsOf(i.base)
       /\ i.way = "session" => h = None /\ T \subseteq i.turns
       /\ i.way # "session" => h = i.base /\ h # None
  /\ i.at = "running" /\ i.index = 1 => i.base = NewestId
  /\ i.at = "walking" => /\ i.way = "session" /\ i.index = 0 /\ h = None
                         /\ i.cursor = Behind /\ Behind # None
                         /\ T \subseteq TurnsOf(Behind)
  /\ home.strict => (i.at = "walking" => i.live = None) /\ (Fresh(i) => i.live <= i.base)

LoneInv ==
  /\ EndsKept
  /\ \A c \in home.clients : FollowsNewest(inv[c], told[c], handle[c])
  /\ \A c \in Clients \ home.clients : inv[c] = Closed /\ handle[c] = None

HistoryInv ==
  /\ TreeFits
  /\ IF Refuses(home) THEN RefusesInv ELSE LoneInv

-----------------------------------------------------------------------------
(* Numbers *)

\* A nonempty set of numbers up to N has a largest one.
LEMMA MaxIs ==
  ASSUME NEW N \in Nat, NEW S, S \subseteq 0..N, S # {}
  PROVE  Max(S) \in S /\ \A x \in S : x <= Max(S)
<1> DEFINE Below == OpToRel(<, Nat)
           Gaps == {N - x : x \in S}
<1>1. IsWellFoundedOn(Below, Nat)
  BY NatLessThanWellFounded
<1>2. \A a, b \in Nat : <<a, b>> \in Below <=> a < b
  BY DEF OpToRel
<1>3. Gaps \subseteq Nat /\ Gaps # {}
  <2>1. \A x \in S : N - x \in Nat
    OBVIOUS
  <2> QED
    BY <2>1
<1> HIDE DEF Below
<1>4. PICK g \in Gaps : \A h \in Gaps : ~(<<h, g>> \in Below)
  BY <1>1, <1>3, WFMin
<1>5. PICK m \in S : g = N - m
  BY <1>4
<1>6. ASSUME NEW x \in S PROVE x <= m
  <2>1. N - x \in Gaps /\ N - x \in Nat /\ N - m \in Nat
    BY <1>3
  <2>2. ~(N - x < N - m)
    BY <1>2, <1>4, <1>5, <2>1
  <2> QED
    BY <2>1, <2>2
<1>7. \E x \in S : \A y \in S : x >= y
  BY <1>6
<1>8. Max(S) \in S /\ \A y \in S : Max(S) >= y
  BY <1>7 DEF Max
<1> QED
  BY <1>8

\* What holds of 0, and of each number after one it holds of, holds of all to N.
LEMMA UpTo ==
  ASSUME NEW N \in Nat, NEW S, 0 \in S, \A n \in 0..N : n \in S /\ n < N => n + 1 \in S
  PROVE  \A n \in 0..N : n \in S
<1> SUFFICES ASSUME NEW k \in 0..N, k \notin S PROVE FALSE
  OBVIOUS
<1> DEFINE Gaps == {N - n : n \in {m \in 0..N : m \notin S}}
<1>1. Gaps \subseteq 0..N /\ Gaps # {}
  OBVIOUS
<1>2. Max(Gaps) \in Gaps /\ \A x \in Gaps : x <= Max(Gaps)
  BY <1>1, MaxIs
<1>3. PICK m \in 0..N : m \notin S /\ Max(Gaps) = N - m
  BY <1>2
<1>4. m # 0 /\ m - 1 \in 0..N /\ m - 1 < N /\ (m - 1) + 1 = m
  BY <1>3
<1>5. m - 1 \notin S
  BY <1>3, <1>4
<1>6. N - (m - 1) \in Gaps
  BY <1>4, <1>5
<1>7. N - (m - 1) <= N - m
  BY <1>2, <1>3, <1>6
<1> QED
  BY <1>4, <1>7

-----------------------------------------------------------------------------
(* The chain of a row *)

\* The parent of a row that is there.
Above(R, x) ==
  IF x = None THEN None
  ELSE IF R[x].parent = None \/ Absent(R[R[x].parent]) THEN None ELSE R[x].parent

Climbs(f, R, leaf, n) == f = [k \in 0..n |-> IF k = 0 THEN leaf ELSE Above(R, f[k - 1])]

\* The recursive definition of a chain has a solution.
LEMMA ClimbExists ==
  ASSUME NEW R, NEW leaf, NEW N \in Nat
  PROVE  \E f : Climbs(f, R, leaf, N)
<1> DEFINE S == {n \in 0..N : \E f : Climbs(f, R, leaf, n)}
<1>1. 0 \in S
  <2> DEFINE g == [k \in 0..0 |-> leaf]
  <2>1. Climbs(g, R, leaf, 0)
    BY DEF Climbs
  <2> QED
    BY <2>1
<1>2. ASSUME NEW n \in 0..N, n \in S, n < N PROVE n + 1 \in S
  <2>1. PICK f : Climbs(f, R, leaf, n)
    BY <1>2
  <2> DEFINE g == [k \in 0..(n + 1) |-> IF k = n + 1 THEN Above(R, f[n]) ELSE f[k]]
  <2>2. ASSUME NEW k \in 0..(n + 1) PROVE g[k] = IF k = 0 THEN leaf ELSE Above(R, g[k - 1])
    <3>1. CASE k = n + 1
      <4>1. k # 0 /\ k - 1 = n /\ n \in 0..(n + 1) /\ n # n + 1
        BY <3>1
      <4> QED
        BY <3>1, <4>1
    <3>2. CASE k \in 0..n
      <4>1. f[k] = IF k = 0 THEN leaf ELSE Above(R, f[k - 1])
        BY <2>1, <3>2 DEF Climbs
      <4>2. k # n + 1 /\ (k # 0 => k - 1 \in 0..(n + 1) /\ k - 1 # n + 1)
        BY <3>2
      <4> QED
        BY <4>1, <4>2
    <3> QED
      BY <3>1, <3>2
  <2>3. g = [k \in 0..(n + 1) |-> g[k]]
    OBVIOUS
  <2> HIDE DEF g
  <2>4. Climbs(g, R, leaf, n + 1)
    BY <2>2, <2>3 DEF Climbs
  <2> QED
    BY <1>2, <2>4
<1> HIDE DEF S
<1>3. \A n \in 0..N : n \in S
  BY <1>1, <1>2, UpTo
<1> QED
  BY <1>3 DEF S

\* The rows of a chain follow each other.
LEMMA ChainIs ==
  ASSUME MaxIds \in Nat, NEW R, NEW leaf, NEW a, a = Chain(R, leaf)
  PROVE  a[0] = leaf /\ \A k \in 1..MaxIds : a[k] = Above(R, a[k - 1])
<1> DEFINE f == CHOOSE g : Climbs(g, R, leaf, MaxIds)
<1>1. Chain(R, leaf) = f
  BY DEF Chain, Climbs, Above
<1>2. Climbs(f, R, leaf, MaxIds)
  BY ClimbExists
<1> HIDE DEF f
<1>3. f[0] = leaf /\ \A k \in 1..MaxIds : f[k] = Above(R, f[k - 1])
  BY <1>2 DEF Climbs
<1> QED
  BY <1>1, <1>3

\* What is past the cap has a row that is built on it, and when the cap is not 1
\* a row that is built on that one.
LEMMA PastCapIs ==
  ASSUME MaxIds \in Nat, home.cap \in Nat, NEW R, NEW leaf \in RowIds, ~Absent(R[leaf]),
         \A x \in RowIds : ~Absent(R[x]) => R[x].parent \in 0..MaxIds,
         NEW old \in PastCap(R, leaf)
  PROVE  /\ old \in RowIds /\ ~Absent(R[old]) /\ home.cap # 0
         /\ \E p \in RowIds : /\ ~Absent(R[p]) /\ R[p].parent = old
                              /\ home.cap # 1 => \E x \in RowIds : ~Absent(R[x]) /\ R[x].parent = p
<1> PICK a : a = Chain(R, leaf)
  OBVIOUS
<1>1. a[0] = leaf /\ \A k \in 1..MaxIds : a[k] = Above(R, a[k - 1])
  BY ChainIs
<1>2. home.cap # 0 /\ old # None /\ \E n \in home.cap..MaxIds : old = a[n]
  BY DEF PastCap, Cap
<1> DEFINE S == {k \in 0..MaxIds : a[k] # None => a[k] \in RowIds /\ ~Absent(R[a[k]])}
<1>3. 0 \in S
  BY <1>1
<1>4. ASSUME NEW k \in 0..MaxIds, k \in S, k < MaxIds PROVE k + 1 \in S
  <2>1. k + 1 \in 1..MaxIds /\ (k + 1) - 1 = k
    BY <1>4
  <2>2. a[k + 1] = Above(R, a[k])
    BY <1>1, <2>1
  <2>3. CASE a[k + 1] # None
    <3>1. a[k] # None /\ a[k + 1] = R[a[k]].parent /\ ~Absent(R[a[k + 1]])
      BY <2>2, <2>3 DEF Above
    <3>2. R[a[k]].parent \in 0..MaxIds
      BY <1>4, <3>1
    <3> QED
      BY <2>1, <2>3, <3>1, <3>2 DEF RowIds, None
  <2> QED
    BY <2>1, <2>3
<1> HIDE DEF S
<1>5. \A k \in 0..MaxIds : k \in S
  BY <1>3, <1>4, UpTo
<1>6. \A k \in 0..MaxIds : a[k] # None => a[k] \in RowIds /\ ~Absent(R[a[k]])
  BY <1>5 DEF S
<1>7. PICK n \in home.cap..MaxIds : old = a[n]
  BY <1>2
<1>8. n \in 1..MaxIds /\ n - 1 \in 0..MaxIds /\ n \in 0..MaxIds
  BY <1>2
<1>9. a[n - 1] # None /\ R[a[n - 1]].parent = old
  BY <1>1, <1>2, <1>7, <1>8 DEF Above
<1>10. ASSUME home.cap # 1 PROVE \E x \in RowIds : ~Absent(R[x]) /\ R[x].parent = a[n - 1]
  <2>1. n - 1 \in 1..MaxIds /\ (n - 1) - 1 \in 0..MaxIds
    BY <1>2, <1>7, <1>10
  <2>2. a[(n - 1) - 1] # None /\ R[a[(n - 1) - 1]].parent = a[n - 1]
    BY <1>1, <1>9, <2>1 DEF Above
  <2> QED
    BY <1>6, <2>1, <2>2
<1> QED
  BY <1>2, <1>6, <1>7, <1>8, <1>9, <1>10

-----------------------------------------------------------------------------
(* What a step does to the rows *)

\* The rows that were there are as they were, but that one may settle.
Grown ==
  \A x \in Present : /\ x \in Present'
                     /\ rows'[x].parent = rows[x].parent /\ rows'[x].turns = rows[x].turns
                     /\ rows[x].status # "pending" => rows'[x].status = rows[x].status

\* What a save prunes is built on.
LEMMA SavePrunes ==
  ASSUME HistoryAssumption, HistoryTypes, HistoryTypes', TreeFits,
         NEW id \in RowIds, NEW r, Save(id, r), ~Absent(r), r.parent < id, home' = home,
         \A x \in Present : rows[x].parent < x
  PROVE  /\ home.cap = 0 => pruning' = {}
         /\ \A old \in pruning' :
              /\ old \in Present'
              /\ \E p \in Present' : /\ rows'[p].parent = old
                                     /\ home.cap # 1 => \E x \in Present' : rows'[x].parent = p
<1>1. MaxIds \in Nat /\ home.cap \in Nat
  BY DEF HistoryAssumption, HistoryTypes
<1>2. rows' = [rows EXCEPT ![id] = r] /\ pruning' = PastCap(rows', id)
  BY DEF Save
<1>3. rows'[id] = r /\ \A x \in RowIds : x # id => rows'[x] = rows[x]
  BY <1>2 DEF HistoryTypes
<1>4. \A x \in RowIds : ~Absent(rows'[x]) => rows'[x].parent \in 0..MaxIds
  <2>1. \A x \in RowIds : rows'[x].parent \in Refs
    BY DEF HistoryTypes, Snapshots
  <2> QED
    BY <1>1, <2>1 DEF Refs, RowIds, None
<1>5. home.cap = 0 => pruning' = {}
  BY <1>2 DEF PastCap, Cap
<1>6. ASSUME NEW old \in pruning'
      PROVE  /\ old \in Present'
             /\ \E p \in Present' : /\ rows'[p].parent = old
                                    /\ home.cap # 1 => \E x \in Present' : rows'[x].parent = p
  <2>2. ~Absent(rows'[id])
    BY <1>3
  <2>3. old \in PastCap(rows', id)
    BY <1>2, <1>6
  <2>1. /\ old \in RowIds /\ ~Absent(rows'[old])
        /\ \E p \in RowIds : /\ ~Absent(rows'[p]) /\ rows'[p].parent = old
                             /\ home.cap # 1 => \E x \in RowIds : ~Absent(rows'[x]) /\ rows'[x].parent = p
    BY <1>1, <1>4, <2>2, <2>3, PastCapIs
  <2> QED
    BY <2>1 DEF Present
<1> QED
  BY <1>5, <1>6

\* A new row on one that has ended.
LEMMA NewRowFits ==
  ASSUME HistoryAssumption, HistoryTypes, HistoryTypes', TreeFits, home' = home,
         nextId \in RowIds, NEW r, Save(nextId, r), r.status \in Statuses, nextId' = nextId + 1,
         r.parent # None => r.parent \in Present /\ Ended(rows[r.parent]),
         work' = work \/ (r.status = "pending" /\ work' = work \cup {[id |-> nextId, turns |-> r.turns]})
  PROVE  /\ TreeFits' /\ Grown /\ pruning = {}
         /\ nextId \notin Present /\ Present' = Present \cup {nextId} /\ rows'[nextId] = r
         /\ \A x \in Present : rows'[x] = rows[x]
<1>1. /\ rows' = [rows EXCEPT ![nextId] = r] /\ pruning = {}
      /\ nextId \in Nat /\ \A x \in Present : x \in RowIds /\ x \in Nat
  BY DEF Save, StoreIdle, RowIds, Present
<1>2. rows'[nextId] = r /\ \A x \in RowIds : x # nextId => rows'[x] = rows[x]
  BY <1>1 DEF HistoryTypes
<1>3. nextId \notin Present
  BY <1>1 DEF TreeFits
<1>4. ~Absent(r)
  BY DEF Absent, Statuses, TERMINAL_STATUSES
<1>5. Present' = Present \cup {nextId}
  BY <1>2, <1>3, <1>4 DEF Present
<1>6. \A x \in Present : rows'[x] = rows[x]
  BY <1>1, <1>2, <1>3
<1>7. r.parent < nextId
  BY <1>1 DEF TreeFits, None, RowIds
<1>8. \A x \in Present' : x < nextId' /\ rows'[x].parent < x
  <2>1. \A x \in Present : x < nextId /\ rows[x].parent < x
    BY DEF TreeFits
  <2>2. \A x \in Present : x < nextId + 1
    BY <1>1, <2>1
  <2> QED
    BY <1>1, <1>2, <1>5, <1>6, <1>7, <2>1, <2>2
<1>9. \A x \in Present : Ended(rows[x]) => Ended(rows'[x])
  BY <1>6 DEF Ended
<1>10. \A x \in Present' : rows'[x].parent \in Present' => Ended(rows'[rows'[x].parent])
  <2>1. ASSUME NEW x \in Present, rows[x].parent \in Present' PROVE Ended(rows'[rows[x].parent])
    <3>1. rows[x].parent < x /\ x < nextId /\ rows[x].parent \in Nat
      BY <1>1 DEF TreeFits, HistoryTypes, Snapshots, Refs, RowIds, None
    <3>2. rows[x].parent \in Present
      BY <1>1, <1>5, <2>1, <3>1
    <3> QED
      BY <1>9, <3>2 DEF TreeFits
  <2>2. r.parent \in Present' => Ended(rows'[r.parent])
    <3>1. None \notin Present'
      BY DEF Present, RowIds, None
    <3> QED
      BY <1>9, <3>1
  <2> QED
    BY <1>2, <1>5, <1>6, <2>1, <2>2, Zenon
<1>11. \A w \in work' : /\ w.id \in Present' /\ w.turns = rows'[w.id].turns
                        /\ rows'[w.id].status \in {"pending", "aborted"}
  <2>1. \A w \in work : /\ w.id \in Present' /\ w.turns = rows'[w.id].turns
                        /\ rows'[w.id].status \in {"pending", "aborted"}
    BY <1>5, <1>6 DEF TreeFits
  <2> QED
    BY <1>2, <1>5, <2>1
<1>12. \A old \in pruning' : old \in Present' /\ Ended(rows'[old])
  BY <1>4, <1>7, <1>10, SavePrunes DEF TreeFits
<1>13. TreeFits'
  BY <1>8, <1>10, <1>11, <1>12 DEF TreeFits
<1> QED
  BY <1>1, <1>2, <1>3, <1>5, <1>6, <1>13 DEF Grown

\* A pending row gets its last status.
LEMMA SettleFits ==
  ASSUME HistoryAssumption, HistoryTypes, HistoryTypes', TreeFits, home' = home,
         NEW id \in Present, NEW r, Save(id, r), rows[id].status = "pending", r.status \in TERMINAL_STATUSES,
         r.parent = rows[id].parent, r.turns = rows[id].turns, nextId' = nextId, work' \subseteq work,
         r.status # "aborted" => \A w \in work' : w.id # id
  PROVE  /\ TreeFits' /\ Grown /\ pruning = {} /\ Present' = Present /\ rows'[id] = r
         /\ \A x \in Present : x # id => rows'[x] = rows[x]
         /\ \A x \in Present : rows[x].parent # id
<1>1. /\ rows' = [rows EXCEPT ![id] = r] /\ pruning = {}
      /\ id \in RowIds /\ \A x \in Present : x \in RowIds
  BY DEF Save, StoreIdle, Present
<1>2. rows'[id] = r /\ \A x \in RowIds : x # id => rows'[x] = rows[x]
  BY <1>1 DEF HistoryTypes
<1>3. ~Absent(r)
  BY DEF Absent, TERMINAL_STATUSES
<1>4. Present' = Present
  BY <1>1, <1>2, <1>3 DEF Present
<1>5. \A x \in Present : x # id => rows'[x] = rows[x]
  BY <1>1, <1>2
<1>6. \A x \in Present : rows'[x].parent = rows[x].parent /\ rows'[x].turns = rows[x].turns
  BY <1>2, <1>5
<1>7. \A x \in Present : Ended(rows[x]) => x # id /\ Ended(rows'[x])
  BY <1>5 DEF Ended
<1>8. \A x \in Present : rows[x].parent # id
  BY <1>7 DEF TreeFits
<1>9. \A x \in Present' : x < nextId' /\ rows'[x].parent < x
  BY <1>4, <1>6 DEF TreeFits
<1>10. \A x \in Present' : rows'[x].parent \in Present' => Ended(rows'[rows'[x].parent])
  BY <1>4, <1>6, <1>7 DEF TreeFits
<1>11. \A w \in work' : /\ w.id \in Present' /\ w.turns = rows'[w.id].turns
                        /\ rows'[w.id].status \in {"pending", "aborted"}
  <2>1. \A w \in work' : /\ w.id \in Present /\ w.turns = rows[w.id].turns
                          /\ rows[w.id].status \in {"pending", "aborted"}
    BY DEF TreeFits
  <2>2. ASSUME NEW w \in work' PROVE rows'[w.id].status \in {"pending", "aborted"}
    BY <1>2, <1>5, <2>1
  <2> QED
    BY <1>4, <1>6, <2>1, <2>2
<1>12. \A old \in pruning' : old \in Present' /\ Ended(rows'[old])
  <2>1. r.parent < id
    BY DEF TreeFits
  <2> QED
    BY <1>1, <1>3, <1>10, <2>1, SavePrunes DEF TreeFits
<1>13. TreeFits'
  BY <1>9, <1>10, <1>11, <1>12 DEF TreeFits
<1> QED
  BY <1>1, <1>2, <1>4, <1>5, <1>6, <1>8, <1>13 DEF Grown

\* A row past the cap goes.
LEMMA PruneFits ==
  ASSUME HistoryAssumption, HistoryTypes, TreeFits, PruneNext
  PROVE  /\ TreeFits'
         /\ pruning' \subseteq pruning
         /\ \A x \in Present \ pruning : x \in Present' /\ rows'[x] = rows[x]
         /\ \A x \in Present' : x \in Present /\ rows'[x] = rows[x]
<1> DEFINE m == Max(pruning)
<1>1. m \in pruning
  <2>1. pruning \subseteq 0..MaxIds /\ pruning # {} /\ MaxIds \in Nat
    BY DEF PruneNext, HistoryTypes, RowIds, HistoryAssumption
  <2> QED
    BY <2>1, MaxIs
<1>2. /\ rows' = [rows EXCEPT ![m] = NoSnapshot] /\ pruning' = pruning \ {m}
      /\ nextId' = nextId /\ work' = work
  BY DEF PruneNext
<1> HIDE DEF m
<1>3. m \in RowIds /\ Ended(rows[m])
  BY <1>1 DEF HistoryTypes, TreeFits
<1>4. rows'[m] = NoSnapshot /\ \A x \in RowIds : x # m => rows'[x] = rows[x]
  BY <1>2, <1>3 DEF HistoryTypes
<1>5. m \notin Present'
  BY <1>4 DEF Present, Absent, NoSnapshot
<1>6. Present' = Present \ {m} /\ \A x \in Present' : rows'[x] = rows[x]
  BY <1>4, <1>5 DEF Present
<1>7. \A x \in Present' : Ended(rows[x]) => Ended(rows'[x])
  BY <1>6 DEF Ended
<1>8. \A w \in work : w.id # m
  BY <1>3 DEF TreeFits, Ended
<1>9. TreeFits'
  <2>1. \A x \in Present' : x < nextId' /\ rows'[x].parent < x
    BY <1>2, <1>6 DEF TreeFits
  <2>2. \A x \in Present' : rows'[x].parent \in Present' => Ended(rows'[rows'[x].parent])
    BY <1>6, <1>7 DEF TreeFits
  <2>3. \A w \in work' : /\ w.id \in Present' /\ w.turns = rows'[w.id].turns
                         /\ rows'[w.id].status \in {"pending", "aborted"}
    BY <1>2, <1>6, <1>8 DEF TreeFits
  <2>4. \A old \in pruning' : old \in Present' /\ Ended(rows'[old])
    BY <1>2, <1>6, <1>7 DEF TreeFits
  <2> QED
    BY <2>1, <2>2, <2>3, <2>4 DEF TreeFits
<1> QED
  BY <1>1, <1>2, <1>6, <1>9

\* The rows are left alone.
LEMMA SameTree ==
  ASSUME TreeFits, rows' = rows, nextId' = nextId, pruning' \subseteq pruning, work' \subseteq work
  PROVE  TreeFits' /\ Present' = Present
<1>1. Present' = Present
  BY DEF Present
<1> QED
  BY <1>1 DEF TreeFits, Ended

-----------------------------------------------------------------------------
(* Leaves *)

\* None is no row.
LEMMA NoneIsNoRow == None \notin Present
BY DEF Present, RowIds, None

\* The numbers of a row that is there.
LEMMA PresentFits ==
  ASSUME HistoryTypes, TreeFits, NEW x \in Present
  PROVE  /\ x \in RowIds /\ x \in Nat /\ rows[x].parent \in Nat
         /\ rows[x].parent < x /\ x < nextId
<1>1. x \in RowIds /\ x \in Nat
  BY DEF Present, RowIds
<1>2. rows[x].parent \in Nat
  BY <1>1 DEF HistoryTypes, Snapshots, Refs, RowIds, None
<1> QED
  BY <1>1, <1>2 DEF TreeFits

\* Where branches are refused the leaf that is selected is the only one, and what
\* was live is that leaf or nothing.
LEMMA OneLeaf ==
  ASSUME HistoryAssumption, HistoryTypes, home.strict, ~Ambiguous
  PROVE  /\ IF Leaves = {} THEN SelectedLeaf = None ELSE Leaves = {SelectedLeaf}
         /\ Max(CompletedLeaves \cup {None})
              = IF Leaves # {} /\ rows[SelectedLeaf].status = "completed" THEN SelectedLeaf ELSE None
<1>1. MaxIds \in Nat /\ Leaves \subseteq RowIds /\ Leaves \subseteq 0..MaxIds
  BY DEF HistoryAssumption, Leaves, Present, RowIds
<1>2. IsFiniteSet(Leaves) /\ Cardinality(Leaves) \in Nat /\ Cardinality(Leaves) <= 1
  <2>1. IsFiniteSet(1..MaxIds)
    BY <1>1, FS_Interval
  <2>2. IsFiniteSet(Leaves)
    BY <1>1, <2>1, FS_Subset DEF RowIds
  <2>3. Cardinality(Leaves) \in Nat
    BY <2>2, FS_CardinalityType
  <2> QED
    BY <2>2, <2>3 DEF Ambiguous, RejectAmbiguous
<1>3. ASSUME NEW x \in Leaves, NEW y \in Leaves PROVE x = y
  <2>1. SUFFICES ASSUME x # y PROVE FALSE
    OBVIOUS
  <2>2. IsFiniteSet({x}) /\ Cardinality({x}) = 1
    BY FS_Singleton
  <2>3. IsFiniteSet({x} \cup {y}) /\ Cardinality({x} \cup {y}) = Cardinality({x}) + 1
    BY <2>1, <2>2, FS_AddElement
  <2>4. {x} \cup {y} \subseteq Leaves
    OBVIOUS
  <2>5. Cardinality({x} \cup {y}) <= Cardinality(Leaves)
    BY <1>2, <2>4, FS_Subset
  <2>6. Cardinality({x} \cup {y}) = 2
    BY <2>2, <2>3
  <2>7. 2 <= Cardinality(Leaves)
    BY <2>5, <2>6
  <2> QED
    BY <1>2, <2>7
<1>4. CASE Leaves = {}
  <2>1. SelectedLeaf = None /\ CompletedLeaves = {}
    BY <1>4 DEF SelectedLeaf, CompletedLeaves
  <2>2. {None} \subseteq 0..MaxIds /\ {None} # {}
    BY <1>1 DEF None
  <2>3. Max({None}) = None
    BY <1>1, <2>2, MaxIs
  <2>4. CompletedLeaves \cup {None} = {None}
    BY <2>1
  <2> QED
    BY <1>4, <2>1, <2>3, <2>4
<1>5. CASE Leaves # {}
  <2>1. Max(Leaves) \in Leaves
    BY <1>1, <1>5, MaxIs
  <2>2. SelectedLeaf = Max(Leaves) /\ Leaves = {SelectedLeaf}
    BY <1>3, <1>5, <2>1 DEF SelectedLeaf
  <2>3. SelectedLeaf \in 1..MaxIds
    BY <1>1, <2>1, <2>2 DEF RowIds
  <2>4. CASE rows[SelectedLeaf].status = "completed"
    <3>1. CompletedLeaves \cup {None} = {SelectedLeaf, None}
      BY <2>2, <2>4 DEF CompletedLeaves
    <3>2. {SelectedLeaf, None} \subseteq 0..MaxIds
      BY <1>1, <2>3 DEF None
    <3>3. /\ Max({SelectedLeaf, None}) \in {SelectedLeaf, None}
          /\ \A x \in {SelectedLeaf, None} : x <= Max({SelectedLeaf, None})
      BY <1>1, <3>2, MaxIs
    <3>4. Max({SelectedLeaf, None}) = SelectedLeaf
      BY <2>3, <3>3 DEF None
    <3> QED
      BY <1>5, <2>2, <2>4, <3>1, <3>4
  <2>5. CASE rows[SelectedLeaf].status # "completed"
    <3>1. CompletedLeaves \cup {None} = {None}
      BY <2>2, <2>5 DEF CompletedLeaves
    <3>2. {None} \subseteq 0..MaxIds /\ {None} # {}
      BY <1>1 DEF None
    <3>3. Max({None}) = None
      BY <1>1, <3>2, MaxIs
    <3> QED
      BY <1>5, <2>2, <2>5, <3>1, <3>3
  <2> QED
    BY <2>4, <2>5
<1> QED
  BY <1>4, <1>5

\* Every family has the only leaf.
LEMMA FamilyHasLeaf ==
  ASSUME HistoryAssumption, HistoryTypes, TreeFits, NEW r, NEW D, Family(r, D)
  PROVE  \E leaf \in Leaves : leaf \in D
<1>1. MaxIds \in Nat /\ D \subseteq 0..MaxIds /\ D # {} /\ D \subseteq Present
  BY DEF HistoryAssumption, Family, Present, RowIds
<1>2. Max(D) \in D /\ \A x \in D : x <= Max(D)
  BY <1>1, MaxIs
<1>3. ASSUME NEW x \in Present PROVE rows[x].parent # Max(D)
  <2>1. rows[x].parent < x /\ rows[x].parent \in Nat /\ x \in Nat
    BY PresentFits
  <2>2. rows[x].parent \in D => x \in D
    BY DEF Family
  <2> QED
    BY <1>2, <2>1, <2>2
<1>4. Max(D) \in Leaves
  BY <1>1, <1>2, <1>3 DEF Leaves
<1> QED
  BY <1>2, <1>4

\* Reading one row on the way back, for a client that was told T.
LEMMA ReadOnTrail ==
  ASSUME NEW i \in Invocations, NEW id, NEW T,
         id # None => id \in Present,
         T = {} \/ \E S : Trail(id, S, T)
  PROVE  LET j == ReadAncestor(i, id) IN
         /\ j.at \in {"running", "walking"} /\ j.live = i.live /\ j.way = i.way /\ j.index = i.index
         /\ j.at = "running" =>
              /\ j.base = IF id # None /\ rows[id].status = "completed" THEN id ELSE None
              /\ j.turns = TurnsOf(j.base) /\ j.good = j.turns /\ T \subseteq j.turns
         /\ j.at = "walking" => /\ id # None /\ rows[id].status # "completed"
                                /\ T = {} \/ \E S : Trail(j.cursor, S, T)
<1> DEFINE j == ReadAncestor(i, id)
<1>1. \A b : LET k == RunFrom(i, b) IN
             /\ k.at = "running" /\ k.base = b /\ k.turns = TurnsOf(b) /\ k.good = k.turns
             /\ k.live = i.live /\ k.way = i.way /\ k.index = i.index
  BY DEF RunFrom, TurnsOf, Invocations
<1>2. CASE id = None
  <2>1. j = RunFrom(i, None)
    BY <1>2 DEF ReadAncestor
  <2>2. T = {}
    BY <1>2, NoneIsNoRow DEF Trail
  <2> QED
    BY <1>1, <1>2, <2>1, <2>2
<1>3. CASE id # None
  <2>1. id \in Present /\ ~Absent(rows[id])
    BY <1>3 DEF Present
  <2>2. CASE rows[id].status = "completed"
    <3>1. j = RunFrom(i, id)
      BY <1>3, <2>1, <2>2 DEF ReadAncestor
    <3>2. T \subseteq rows[id].turns
      BY DEF Trail
    <3> QED
      BY <1>1, <1>3, <2>2, <3>1, <3>2 DEF TurnsOf
  <2>3. CASE rows[id].status # "completed" /\ rows[id].parent = None
    <3>1. j = RunFrom(i, None)
      BY <1>3, <2>1, <2>3 DEF ReadAncestor
    <3>2. T = {}
      BY <2>3, NoneIsNoRow DEF Trail
    <3> QED
      BY <1>1, <1>3, <2>3, <3>1, <3>2
  <2>4. CASE rows[id].status # "completed" /\ rows[id].parent # None
    <3>1. j = [i EXCEPT !.at = "walking", !.cursor = rows[id].parent]
      BY <1>3, <2>1, <2>4 DEF ReadAncestor
    <3>2. /\ j.at = "walking" /\ j.cursor = rows[id].parent
          /\ j.live = i.live /\ j.way = i.way /\ j.index = i.index
      BY <3>1 DEF Invocations
    <3>3. T = {} \/ \E S : Trail(rows[id].parent, S, T)
      BY <2>4 DEF Trail
    <3> QED
      BY <1>3, <2>4, <3>2, <3>3
  <2> QED
    BY <2>2, <2>3, <2>4
<1> QED
  BY <1>2, <1>3

-----------------------------------------------------------------------------
(* A store that refuses to choose keeps what was told *)

\* All parents are there.
LEMMA ParentsThere ==
  ASSUME HistoryTypes, TreeFits, RefusesRows, NEW x \in Present, rows[x].parent # None
  PROVE  rows[x].parent \in Present
<1>1. rows[x].parent \in Nat /\ rows[x].parent < x /\ x < nextId /\ x \in Nat
  BY PresentFits
<1>2. nextId \in Nat
  BY DEF HistoryTypes
<1> QED
  BY <1>1, <1>2 DEF RefusesRows, NewestId, None

\* A client that does nothing.
LEMMA WaitsOn ==
  ASSUME HistoryTypes, TreeFits, RefusesRows, Grown, NEW c \in Clients,
         KeepsTold(inv[c], told[c], handle[c]),
         inv'[c] = inv[c], told'[c] = told[c], handle'[c] = handle[c]
  PROVE  KeepsTold(inv[c], told[c], handle[c])'
<1> DEFINE i == inv[c]
<1>1. \A x \in Present : /\ x \in Present' /\ rows'[x].parent = rows[x].parent
                         /\ rows'[x].turns = rows[x].turns
                         /\ rows[x].status # "pending" => rows'[x].status = rows[x].status
  BY DEF Grown
<1>2. \A x \in Present : rows[x].status \in {"completed", "failed"} => rows'[x].status = rows[x].status
  BY <1>1
<1>3. handle[c] # None => handle[c] \in Present'
  BY <1>1 DEF KeepsTold
<1>4. told[c] = {} \/ \E r \in Present' : rows'[r].status = "completed" /\ rows'[r].turns = told[c]
  BY <1>1, <1>2 DEF KeepsTold
<1>5. i.at \in {"running", "recovering"} =>
        /\ i.base # None => i.base \in Present' /\ Ended(rows'[i.base])
        /\ i.good = i.turns
  BY <1>1, <1>2 DEF KeepsTold, Ended
<1>6. i.at = "running" => i.turns = IF i.base = None THEN {} ELSE rows'[i.base].turns
  BY <1>1 DEF KeepsTold, TurnsOf
<1>7. i.at = "recovering" =>
        /\ i.base # None /\ rows'[i.base].status = "failed"
        /\ i.turns = IF rows'[i.base].parent = None THEN {} ELSE rows'[rows'[i.base].parent].turns
  <2>1. SUFFICES ASSUME i.at = "recovering"
                 PROVE  /\ i.base # None /\ rows'[i.base].status = "failed"
                        /\ i.turns = IF rows'[i.base].parent = None THEN {} ELSE rows'[rows'[i.base].parent].turns
    OBVIOUS
  <2>2. i.base # None /\ i.base \in Present /\ rows[i.base].status = "failed"
        /\ i.turns = TurnsOf(rows[i.base].parent)
    BY <2>1 DEF KeepsTold
  <2>3. rows'[i.base].parent = rows[i.base].parent /\ rows'[i.base].status = "failed"
    BY <1>1, <1>2, <2>2
  <2>4. rows[i.base].parent # None => rows[i.base].parent \in Present
    BY <2>2, ParentsThere
  <2> QED
    BY <1>1, <2>2, <2>3, <2>4 DEF TurnsOf
<1>8. ASSUME NEW S, Trail(i.cursor, S, told[c])
      PROVE  /\ i.cursor \in S /\ S \subseteq Present'
             /\ \A y \in S : told[c] \subseteq rows'[y].turns
                             /\ (rows'[y].status # "completed" => rows'[y].parent \in S)
  <2>1. /\ i.cursor \in S /\ S \subseteq Present
        /\ \A y \in S : told[c] \subseteq rows[y].turns
                        /\ (rows[y].status # "completed" => rows[y].parent \in S)
    BY <1>8 DEF Trail
  <2> QED
    BY <1>1, <1>2, <2>1
<1>9. i.at = "walking" =>
        /\ i.live = None /\ i.cursor \in Present'
        /\ \/ told[c] = {}
           \/ \E S : /\ i.cursor \in S /\ S \subseteq Present'
                     /\ \A y \in S : told[c] \subseteq rows'[y].turns
                                     /\ (rows'[y].status # "completed" => rows'[y].parent \in S)
  BY <1>1, <1>8 DEF KeepsTold
<1>10. Fresh(i) => told[c] \subseteq i.turns /\ i.live <= i.base
  BY DEF KeepsTold
<1> QED
  BY <1>3, <1>4, <1>5, <1>6, <1>7, <1>9, <1>10 DEF KeepsTold, Fresh, Ended, TurnsOf, Trail

\* One client acts, the rows grow at most.
LEMMA OneClientActs ==
  ASSUME HistoryTypes, HistoryTypes', TreeFits, RefusesInv, RefusesRows', Grown, NEW c \in Clients,
         \A d \in Clients : d # c => /\ inv'[d] = inv[d] /\ told'[d] = told[d] /\ handle'[d] = handle[d],
         KeepsTold(inv[c], told[c], handle[c])'
  PROVE  RefusesInv'
<1>1. ASSUME NEW d \in Clients PROVE KeepsTold(inv[d], told[d], handle[d])'
  <2>1. CASE d = c
    BY <2>1
  <2>2. CASE d # c
    BY <2>2, WaitsOn DEF RefusesInv
  <2> QED
    BY <2>1, <2>2
<1> QED
  BY <1>1 DEF RefusesInv

\* The families, when nothing is written.
LEMMA SameRows ==
  ASSUME RefusesRows, rows' = rows, nextId' = nextId, pruning' = {}
  PROVE  RefusesRows' /\ Grown /\ Present' = Present
<1>1. Present' = Present
  BY DEF Present
<1>2. ASSUME NEW r, NEW D, Family(r, D) PROVE Family(r, D)'
  BY <1>1, <1>2 DEF Family
<1>3. ASSUME NEW r \in Present', rows'[r].status = "completed" PROVE \E D : Family(r, D)'
  BY <1>1, <1>2, <1>3 DEF RefusesRows
<1> QED
  BY <1>1, <1>3 DEF RefusesRows, NewestId, Grown

\* A new row joins the families of the row it is built on.
LEMMA NewRowJoins ==
  ASSUME HistoryAssumption, HistoryTypes, HistoryTypes', TreeFits, RefusesRows, Refuses(home), home' = home,
         nextId \in RowIds, NEW r, Save(nextId, r), r.status \in Statuses, nextId' = nextId + 1,
         r.parent # None => r.parent \in Present /\ Ended(rows[r.parent]),
         work' = work \/ (r.status = "pending" /\ work' = work \cup {[id |-> nextId, turns |-> r.turns]}),
         \A q, D : Family(q, D) /\ rows[q].status = "completed" /\ r.parent \in D
                     => rows[q].turns \subseteq r.turns
  PROVE  RefusesRows'
<1>1. /\ TreeFits' /\ Grown /\ pruning = {}
      /\ nextId \notin Present /\ Present' = Present \cup {nextId} /\ rows'[nextId] = r
      /\ \A x \in Present : rows'[x] = rows[x]
  BY NewRowFits
<1>2. nextId \in Nat /\ nextId \in 1..nextId
  BY DEF RowIds
<1>3. r.parent # nextId
  BY <1>1, <1>2 DEF None
<1>4. pruning' = {}
  <2>1. r.parent < nextId
    BY <1>2 DEF TreeFits, None, RowIds
  <2>2. ~Absent(r)
    BY DEF Absent, Statuses, TERMINAL_STATUSES
  <2>3. \A x \in Present : rows[x].parent < x
    BY DEF TreeFits
  <2>4. home.cap = 0 => pruning' = {}
    BY <2>1, <2>2, <2>3, SavePrunes
  <2> QED
    BY <2>4 DEF Refuses
<1>5. Present' = 1..NewestId'
  BY <1>1, <1>2 DEF RefusesRows, NewestId
<1>6. ASSUME NEW q \in Present', rows'[q].status = "completed" PROVE \E D : Family(q, D)'
  <2>1. CASE q = nextId
    <3>1. \A x \in Present : rows[x].parent # nextId
      BY <1>2, PresentFits
    <3>2. PICK n : n = nextId
      OBVIOUS
    <3>3. Family(q, {n})'
      BY <1>1, <1>3, <2>1, <3>1, <3>2 DEF Family
    <3> QED
      BY <3>3
  <2>2. CASE q \in Present
    <3>1. rows[q].status = "completed"
      BY <1>1, <1>6, <2>2
    <3>2. PICK D : Family(q, D)
      BY <2>2, <3>1 DEF RefusesRows
    <3>3. /\ q \in D /\ D \subseteq Present
          /\ \A x \in D : rows[q].turns \subseteq rows[x].turns /\ (x # q => rows[x].parent \in D)
          /\ \A x \in Present : rows[x].parent \in D => x \in D
      BY <3>2 DEF Family
    <3>4. CASE r.parent \in D
      <4>1. rows[q].turns \subseteq r.turns
        BY <3>1, <3>2, <3>4
      <4>2. \A x \in Present : rows[x].parent # nextId
        BY <1>2, PresentFits
      <4>3. \A x \in D \cup {nextId} : /\ rows'[q].turns \subseteq rows'[x].turns
                                       /\ x # q => rows'[x].parent \in D \cup {nextId}
        BY <1>1, <2>2, <3>3, <3>4, <4>1
      <4>4. \A x \in Present' : rows'[x].parent \in D \cup {nextId} => x \in D \cup {nextId}
        BY <1>1, <3>3, <4>2
      <4>5. PICK E : E = D \cup {nextId}
        OBVIOUS
      <4>6. Family(q, E)'
        BY <1>1, <3>3, <4>3, <4>4, <4>5 DEF Family
      <4> QED
        BY <4>6
    <3>5. CASE r.parent \notin D
      <4>1. \A x \in D : /\ rows'[q].turns \subseteq rows'[x].turns
                         /\ x # q => rows'[x].parent \in D
        BY <1>1, <2>2, <3>3
      <4>2. \A x \in Present' : rows'[x].parent \in D => x \in D
        BY <1>1, <3>3, <3>5
      <4>3. Family(q, D)'
        BY <1>1, <3>3, <4>1, <4>2 DEF Family
      <4> QED
        BY <4>3
    <3> QED
      BY <3>4, <3>5
  <2> QED
    BY <1>1, <1>6, <2>1, <2>2
<1> QED
  BY <1>4, <1>5, <1>6 DEF RefusesRows

\* A row that settles starts a family, or leaves them as they are.
LEMMA SettledStarts ==
  ASSUME HistoryAssumption, HistoryTypes, HistoryTypes', TreeFits, RefusesRows, Refuses(home), home' = home,
         NEW id \in Present, NEW r, Save(id, r), rows[id].status = "pending", r.status \in TERMINAL_STATUSES,
         r.parent = rows[id].parent, r.turns = rows[id].turns, nextId' = nextId, work' \subseteq work,
         r.status # "aborted" => \A w \in work' : w.id # id
  PROVE  RefusesRows'
<1>1. /\ TreeFits' /\ Grown /\ pruning = {} /\ Present' = Present /\ rows'[id] = r
      /\ \A x \in Present : x # id => rows'[x] = rows[x]
      /\ \A x \in Present : rows[x].parent # id
  BY SettleFits
<1>2. \A x \in Present : rows'[x].parent = rows[x].parent /\ rows'[x].turns = rows[x].turns
  BY <1>1
<1>3. pruning' = {}
  <2>1. r.parent < id /\ \A x \in Present : rows[x].parent < x
    BY DEF TreeFits
  <2>2. ~Absent(r) /\ id \in RowIds
    BY DEF Absent, TERMINAL_STATUSES, Present
  <2>3. home.cap = 0 => pruning' = {}
    BY <2>1, <2>2, SavePrunes
  <2> QED
    BY <2>3 DEF Refuses
<1>4. ASSUME NEW q \in Present', rows'[q].status = "completed" PROVE \E D : Family(q, D)'
  <2>1. CASE q = id
    <3>1. Family(q, {id})'
      BY <1>1, <1>2, <2>1 DEF Family
    <3> QED
      BY <3>1
  <2>2. CASE q # id
    <3>1. q \in Present /\ rows[q].status = "completed"
      BY <1>1, <1>4, <2>2
    <3>2. PICK D : Family(q, D)
      BY <3>1 DEF RefusesRows
    <3>3. /\ q \in D /\ D \subseteq Present
          /\ \A x \in D : rows[q].turns \subseteq rows[x].turns /\ (x # q => rows[x].parent \in D)
          /\ \A x \in Present : rows[x].parent \in D => x \in D
      BY <3>2 DEF Family
    <3>4. Family(q, D)'
      <4>1. \A x \in D : rows'[q].turns \subseteq rows'[x].turns /\ (x # q => rows'[x].parent \in D)
        BY <1>2, <3>3
      <4>2. \A x \in Present' : rows'[x].parent \in D => x \in D
        BY <1>1, <1>2, <3>3
      <4> QED
        BY <1>1, <3>3, <4>1, <4>2 DEF Family
    <3> QED
      BY <3>4
  <2> QED
    BY <2>1, <2>2
<1>5. Present' = 1..NewestId'
  BY <1>1 DEF RefusesRows, NewestId
<1> QED
  BY <1>3, <1>4, <1>5 DEF RefusesRows

-----------------------------------------------------------------------------
(* Types *)

\* An invocation that runs from a row is one.
LEMMA RunTypes ==
  ASSUME HistoryTypes, NEW i \in Invocations, NEW id \in Refs
  PROVE  RunFrom(i, id) \in Invocations
<1> DEFINE t == IF id = None THEN {} ELSE rows[id].turns
<1>1. t \in SUBSET RowIds
  BY DEF HistoryTypes, Snapshots, Refs
<1>2. RunFrom(i, id) = [i EXCEPT !.at = "running", !.cursor = None, !.base = id, !.turns = t, !.good = t]
  BY DEF RunFrom
<1>3. None \in Refs
  BY DEF Refs
<1> QED
  BY <1>1, <1>2, <1>3 DEF Invocations

\* So is one that reads an ancestor.
LEMMA ReadTypes ==
  ASSUME HistoryTypes, NEW i \in Invocations, NEW id \in Refs
  PROVE  ReadAncestor(i, id) \in Invocations
<1>1. None \in Refs
  BY DEF Refs
<1>2. RunFrom(i, None) \in Invocations /\ RunFrom(i, id) \in Invocations
  BY <1>1, RunTypes
<1>3. CASE id # None
  <2>1. rows[id].parent \in Refs
    BY <1>3 DEF HistoryTypes, Snapshots, Refs
  <2>2. [i EXCEPT !.at = "walking", !.cursor = rows[id].parent] \in Invocations
    BY <2>1 DEF Invocations
  <2> QED
    BY <1>2, <2>2 DEF ReadAncestor
<1> QED
  BY <1>2, <1>3 DEF ReadAncestor

\* So is one whose turn left a row.
LEMMA GoneOnTypes ==
  ASSUME NEW c, inv[c] \in Invocations, nextId \in RowIds, NEW failed \in BOOLEAN
  PROVE  GoneOn(c, failed) \in Invocations
<1> DEFINE t == inv[c].turns \cup {nextId}
<1>1. t \in SUBSET RowIds /\ nextId \in Refs /\ inv[c].index + 1 \in Nat
  BY DEF Invocations, Refs
<1>2. GoneOn(c, failed) = [inv[c] EXCEPT !.base = nextId, !.turns = t, !.good = t,
                                         !.index = inv[c].index + 1, !.failed = failed]
  BY DEF GoneOn
<1> HIDE DEF t
<1> QED
  BY <1>1, <1>2 DEF Invocations

\* And a closed one.
LEMMA ClosedTypes == Closed \in Invocations
BY DEF Closed, Invocations, Refs, None

\* The leaf selected, and an invocation that opens on the session.
LEMMA OpenTypes ==
  ASSUME HistoryAssumption, HistoryTypes
  PROVE  /\ SelectedLeaf \in Refs
         /\ [Closed EXCEPT !.way = "session", !.live = Max(CompletedLeaves \cup {None})] \in Invocations
<1>1. Max(CompletedLeaves \cup {None}) \in Refs /\ SelectedLeaf \in Refs
  <2>1. MaxIds \in Nat /\ Leaves \subseteq RowIds /\ CompletedLeaves \subseteq RowIds
    BY DEF HistoryAssumption, Leaves, CompletedLeaves, Present
  <2>2. Leaves \subseteq 0..MaxIds /\ CompletedLeaves \cup {None} \subseteq 0..MaxIds
        /\ CompletedLeaves \cup {None} # {}
    BY <2>1 DEF RowIds, None
  <2>3. Max(CompletedLeaves \cup {None}) \in CompletedLeaves \cup {None}
    BY <2>1, <2>2, MaxIs
  <2>4. Leaves # {} => Max(Leaves) \in Leaves
    BY <2>1, <2>2, MaxIs
  <2> QED
    BY <2>1, <2>3, <2>4 DEF SelectedLeaf, Refs
<1> QED
  BY <1>1, ClosedTypes DEF Invocations

\* A save leaves rows, and rows to prune.
LEMMA SaveTypes ==
  ASSUME HistoryAssumption, HistoryTypes, NEW id \in RowIds, NEW r \in Snapshots, Save(id, r),
         ~Absent(r)
  PROVE  rows' \in [RowIds -> Snapshots] /\ pruning' \in SUBSET RowIds
<1>1. rows' = [rows EXCEPT ![id] = r] /\ pruning' = PastCap(rows', id)
  BY DEF Save
<1>2. rows' \in [RowIds -> Snapshots] /\ rows'[id] = r
  BY <1>1 DEF HistoryTypes
<1>3. MaxIds \in Nat /\ home.cap \in Nat
  BY DEF HistoryAssumption, HistoryTypes
<1>4. PICK R : R = rows'
  OBVIOUS
<1>5. \A x \in RowIds : R[x].parent \in 0..MaxIds
  BY <1>2, <1>3, <1>4 DEF Snapshots, Refs, RowIds, None
<1>6. ASSUME NEW old \in PastCap(R, id) PROVE old \in RowIds
  <2>1. ~Absent(R[id])
    BY <1>2, <1>4
  <2> QED
    BY <1>3, <1>5, <1>6, <2>1, PastCapIs
<1> QED
  BY <1>1, <1>2, <1>4, <1>6

\* The next row is one within the bound.
LEMMA CountsOn ==
  ASSUME HistoryAssumption, HistoryTypes, nextId <= MaxIds
  PROVE  nextId \in RowIds /\ nextId + 1 \in 1..(MaxIds + 1)
BY DEF HistoryAssumption, HistoryTypes, RowIds

\* Every step keeps the types.
LEMMA TypesStep ==
  ASSUME HistoryAssumption, HistoryTypes, [HistoryNext]_historyVars
  PROVE  HistoryTypes'
<1>1. home' = home /\ home' \in Stores /\ home.clients \subseteq Clients
  BY DEF HistoryAssumption, HistoryTypes, HistoryNext, historyVars
<1>2. CASE UNCHANGED historyVars
  BY <1>2 DEF historyVars, HistoryTypes
<1>3. ASSUME NEW c \in home.clients, ClientStep(c) PROVE HistoryTypes'
  <2>1. c \in Clients /\ inv[c] \in Invocations /\ handle[c] \in Refs
    BY <1>1 DEF HistoryTypes
  <2>2. ASSUME NEW status \in Statuses, nextId \in RowIds PROVE TurnRow(c, status) \in Snapshots
    BY <2>1, <2>2 DEF TurnRow, Snapshots, Invocations
  <2>3. nextId <= MaxIds => inv[c].turns \cup {nextId} \in SUBSET RowIds /\ nextId \in Refs
    BY <2>1, CountsOn DEF Invocations, Refs
  <2>4. \A status \in Statuses : ~Absent(TurnRow(c, status))
    BY DEF TurnRow, Absent, Statuses, TERMINAL_STATUSES
  <2>5. CASE ResumeBySession(c)
    <3>3. ReadAncestor([Closed EXCEPT !.way = "session", !.live = Max(CompletedLeaves \cup {None})],
                    SelectedLeaf) \in Invocations
      BY OpenTypes, ReadTypes
    <3>4. None \in Refs
      BY DEF Refs
    <3> QED
      BY <1>1, <2>5, <3>3, <3>4 DEF ResumeBySession, HistoryTypes
  <2>6. CASE WalkBack(c)
    <3>1. ReadAncestor(inv[c], inv[c].cursor) \in Invocations
      BY <2>1, ReadTypes DEF Invocations
    <3> QED
      BY <1>1, <2>6, <3>1 DEF WalkBack, HistoryTypes
  <2>7. CASE ResumeBySnapshot(c)
    <3>1. [Closed EXCEPT !.way = "snapshot"] \in Invocations
      BY ClosedTypes DEF Invocations
    <3>2. RunFrom([Closed EXCEPT !.way = "snapshot"], handle[c]) \in Invocations
      BY <2>1, <3>1, RunTypes
    <3> QED
      BY <1>1, <2>7, <3>2 DEF ResumeBySnapshot, HistoryTypes
  <2>8. CASE TurnCompletes(c)
    <3>1. nextId <= MaxIds /\ nextId' = nextId + 1 /\ Save(nextId, TurnRow(c, "completed"))
      BY <2>8 DEF TurnCompletes, CanTurn
    <3>2. nextId \in RowIds /\ nextId' \in 1..(MaxIds + 1)
      BY <3>1, CountsOn
    <3>3. rows' \in [RowIds -> Snapshots] /\ pruning' \in SUBSET RowIds
      BY <2>2, <2>4, <3>1, <3>2, SaveTypes DEF Statuses, TERMINAL_STATUSES
    <3>4. GoneOn(c, FALSE) \in Invocations
      BY <2>1, <3>2, GoneOnTypes
    <3> QED
      BY <1>1, <2>3, <2>8, <3>1, <3>2, <3>3, <3>4 DEF TurnCompletes, HistoryTypes
  <2>9. CASE TurnReportsFailure(c)
    <3>1. nextId <= MaxIds /\ nextId' = nextId + 1 /\ Save(nextId, TurnRow(c, "failed"))
      BY <2>9 DEF TurnReportsFailure, CanTurn
    <3>2. nextId \in RowIds /\ nextId' \in 1..(MaxIds + 1)
      BY <3>1, CountsOn
    <3>3. rows' \in [RowIds -> Snapshots] /\ pruning' \in SUBSET RowIds
      BY <2>2, <2>4, <3>1, <3>2, SaveTypes DEF Statuses, TERMINAL_STATUSES
    <3>4. GoneOn(c, TRUE) \in Invocations
      BY <2>1, <3>2, GoneOnTypes
    <3> QED
      BY <1>1, <2>9, <3>1, <3>2, <3>3, <3>4 DEF TurnReportsFailure, HistoryTypes
  <2>10. CASE TurnRaises(c)
    <3>1. nextId <= MaxIds /\ nextId' = nextId + 1 /\ Save(nextId, TurnRow(c, "failed"))
      BY <2>10 DEF TurnRaises, CanTurn
    <3>2. nextId \in RowIds /\ nextId' \in 1..(MaxIds + 1)
      BY <3>1, CountsOn
    <3>3. rows' \in [RowIds -> Snapshots] /\ pruning' \in SUBSET RowIds
      BY <2>2, <2>4, <3>1, <3>2, SaveTypes DEF Statuses, TERMINAL_STATUSES
    <3>4. [inv[c] EXCEPT !.at = "recovering", !.base = nextId] \in Invocations
      BY <2>1, <2>3, <3>1 DEF Invocations
    <3> QED
      BY <1>1, <2>10, <3>1, <3>2, <3>3, <3>4, ClosedTypes DEF TurnRaises, HistoryTypes
  <2>11. CASE Recover(c)
    <3> DEFINE r == [status |-> "completed", parent |-> inv[c].base, turns |-> inv[c].good]
    <3>1. nextId <= MaxIds /\ nextId' = nextId + 1 /\ Save(nextId, r)
      BY <2>11 DEF Recover
    <3>2. nextId \in RowIds /\ nextId' \in 1..(MaxIds + 1)
      BY <3>1, CountsOn
    <3>3. r \in Snapshots /\ ~Absent(r)
      BY <2>1 DEF Snapshots, Invocations, Absent, Statuses, TERMINAL_STATUSES
    <3> HIDE DEF r
    <3>4. rows' \in [RowIds -> Snapshots] /\ pruning' \in SUBSET RowIds
      BY <3>1, <3>2, <3>3, SaveTypes
    <3> QED
      BY <1>1, <2>11, <3>2, <3>4, ClosedTypes DEF Recover, HistoryTypes
  <2>12. CASE Answer(c)
    <3>1. inv[c].base \in Refs
      BY <2>1 DEF Invocations
    <3> QED
      BY <1>1, <2>12, <3>1, ClosedTypes DEF Answer, HistoryTypes
  <2>13. CASE Detach(c)
    <3>1. nextId <= MaxIds /\ nextId' = nextId + 1 /\ Save(nextId, TurnRow(c, "pending"))
      BY <2>13 DEF Detach, CanTurn
    <3>2. nextId \in RowIds /\ nextId' \in 1..(MaxIds + 1)
      BY <3>1, CountsOn
    <3>3. rows' \in [RowIds -> Snapshots] /\ pruning' \in SUBSET RowIds
      BY <2>2, <2>4, <3>1, <3>2, SaveTypes DEF Statuses
    <3> QED
      BY <1>1, <2>3, <2>13, <3>1, <3>2, <3>3, ClosedTypes DEF Detach, HistoryTypes
  <2> QED
    BY <1>3, <2>5, <2>6, <2>7, <2>8, <2>9, <2>10, <2>11, <2>12, <2>13 DEF ClientStep
<1>4. ASSUME NEW w \in work, Finalize(w) PROVE HistoryTypes'
  <2>1. w.id \in RowIds /\ w.turns \in SUBSET RowIds /\ rows[w.id] \in Snapshots
    BY DEF HistoryTypes
  <2>2. ASSUME NEW status \in {"completed", "failed"}
        PROVE  LET r == [rows[w.id] EXCEPT !.status = status, !.turns = w.turns]
               IN r \in Snapshots /\ ~Absent(r)
    BY <2>1 DEF Snapshots, Absent, Statuses, TERMINAL_STATUSES
  <2>3. rows' \in [RowIds -> Snapshots] /\ pruning' \in SUBSET RowIds
    <3>1. CASE UNCHANGED <<rows, pruning>>
      BY <3>1 DEF HistoryTypes
    <3>2. ASSUME NEW status \in {"completed", "failed"},
                 Save(w.id, [rows[w.id] EXCEPT !.status = status, !.turns = w.turns])
          PROVE  rows' \in [RowIds -> Snapshots] /\ pruning' \in SUBSET RowIds
      BY <2>1, <2>2, <3>2, SaveTypes
    <3> QED
      BY <1>4, <3>1, <3>2 DEF Finalize
  <2> QED
    BY <1>1, <1>4, <2>3 DEF Finalize, HistoryTypes
<1>5. ASSUME NEW id \in RowIds, Abort(id) PROVE HistoryTypes'
  <2> DEFINE r == [rows[id] EXCEPT !.status = "aborted"]
  <2>1. r \in Snapshots /\ ~Absent(r)
    BY DEF HistoryTypes, Snapshots, Absent, Statuses, TERMINAL_STATUSES
  <2>2. Save(id, r)
    BY <1>5 DEF Abort
  <2> HIDE DEF r
  <2>3. rows' \in [RowIds -> Snapshots] /\ pruning' \in SUBSET RowIds
    BY <2>1, <2>2, SaveTypes
  <2> QED
    BY <1>1, <1>5, <2>3 DEF Abort, HistoryTypes
<1>6. CASE PruneNext
  <2>1. NoSnapshot \in Snapshots
    BY DEF NoSnapshot, Snapshots, Refs, None
  <2> QED
    BY <1>1, <1>6, <2>1 DEF PruneNext, HistoryTypes
<1>7. CASE Crash
  BY <1>1, <1>7, ClosedTypes DEF Crash, HistoryTypes, Refs
<1> QED
  BY <1>2, <1>3, <1>4, <1>5, <1>6, <1>7 DEF HistoryNext

-----------------------------------------------------------------------------
(* The steps of a session in a store that refuses to choose *)

\* Reading on a trail keeps what was told.
LEMMA ReadKeeps ==
  ASSUME HistoryTypes, TreeFits, RefusesRows, NEW i \in Invocations, NEW id \in Refs, NEW T, NEW h,
         id # None => id \in Present,
         T = {} \/ \E S : Trail(id, S, T),
         T = {} \/ \E r \in Present : rows[r].status = "completed" /\ rows[r].turns = T,
         h # None => h \in Present,
         i.live = IF id # None /\ rows[id].status = "completed" THEN i.live ELSE None,
         i.live <= id
  PROVE  KeepsTold(ReadAncestor(i, id), T, h)
<1> DEFINE j == ReadAncestor(i, id)
<1>1. /\ j.at \in {"running", "walking"} /\ j.live = i.live /\ j.way = i.way /\ j.index = i.index
      /\ j.at = "running" =>
              /\ j.base = IF id # None /\ rows[id].status = "completed" THEN id ELSE None
              /\ j.turns = TurnsOf(j.base) /\ j.good = j.turns /\ T \subseteq j.turns
      /\ j.at = "walking" => /\ id # None /\ rows[id].status # "completed"
                             /\ T = {} \/ \E S : Trail(j.cursor, S, T)
  BY ReadOnTrail
<1>2. j.at = "walking" => j.cursor \in Present
  <2>1. SUFFICES ASSUME j.at = "walking" PROVE j.cursor \in Present
    OBVIOUS
  <2>2. id \in Present /\ rows[id].status # "completed"
    BY <1>1, <2>1
  <2>3. rows[id].parent # None
    BY <2>1, <2>2 DEF ReadAncestor, RunFrom, Present, Invocations
  <2>4. j.cursor = rows[id].parent
    <3>1. ~Absent(rows[id]) /\ id # None
      BY <2>2, NoneIsNoRow DEF Present
    <3>2. j = [i EXCEPT !.at = "walking", !.cursor = rows[id].parent]
      BY <2>2, <2>3, <3>1 DEF ReadAncestor
    <3> QED
      BY <3>2 DEF Invocations
  <2> QED
    BY <2>2, <2>3, <2>4, ParentsThere
<1>3. j.at = "running" => i.live <= j.base
  BY <1>1 DEF None
<1>4. ASSUME NEW k, k = j PROVE KeepsTold(k, T, h)
  BY <1>1, <1>2, <1>3, <1>4 DEF KeepsTold, Fresh, Ended
<1> QED
  BY <1>4

\* What is kept is kept when the rows stay as they are.
LEMMA KeepsOn ==
  ASSUME rows' = rows, NEW c, KeepsTold(inv'[c], told'[c], handle'[c])
  PROVE  KeepsTold(inv[c], told[c], handle[c])'
<1>1. Present' = Present
  BY DEF Present
<1> QED
  BY <1>1 DEF KeepsTold, Trail, Fresh, Ended, TurnsOf

\* An invocation that goes on from the row of its turn.
LEMMA GoesOn ==
  ASSUME NEW c, inv'[c].at = "running", inv'[c].index # 0, inv'[c].base # None, inv'[c].base \in Present',
         Ended(rows'[inv'[c].base]), inv'[c].turns = rows'[inv'[c].base].turns, inv'[c].good = inv'[c].turns,
         handle'[c] # None => handle'[c] \in Present',
         told'[c] = {} \/ \E r \in Present' : rows'[r].status = "completed" /\ rows'[r].turns = told'[c]
  PROVE  KeepsTold(inv[c], told[c], handle[c])'
BY DEF KeepsTold, Fresh, TurnsOf, Ended

\* The row of a turn joins the families of the row the turn continued.
LEMMA TurnJoins ==
  ASSUME HistoryAssumption, HistoryTypes, HistoryTypes', TreeFits, RefusesInv, Refuses(home), home' = home,
         NEW c \in Clients, inv[c].at = "running", NEW status \in Statuses,
         nextId <= MaxIds, nextId' = nextId + 1, Save(nextId, TurnRow(c, status)),
         work' = work \/ (status = "pending"
                            /\ work' = work \cup {[id |-> nextId, turns |-> inv[c].turns \cup {nextId}]})
  PROVE  /\ TreeFits' /\ RefusesRows' /\ Grown /\ nextId # None
         /\ nextId \notin Present /\ Present' = Present \cup {nextId}
         /\ rows'[nextId] = TurnRow(c, status) /\ \A x \in Present : rows'[x] = rows[x]
<1> DEFINE r == TurnRow(c, status)
<1>1. nextId \in RowIds /\ nextId # None
  BY CountsOn DEF RowIds, None
<1>2. r.status = status /\ r.parent = inv[c].base /\ r.turns = inv[c].turns \cup {nextId}
  BY DEF TurnRow
<1>3. /\ inv[c].base # None => inv[c].base \in Present /\ Ended(rows[inv[c].base])
      /\ inv[c].turns = TurnsOf(inv[c].base)
  BY DEF RefusesInv, KeepsTold
<1>4. RefusesRows
  BY DEF RefusesInv
<1> HIDE DEF r
<1>5. ASSUME NEW q, NEW D, Family(q, D), rows[q].status = "completed", r.parent \in D
      PROVE  rows[q].turns \subseteq r.turns
  <2>1. r.parent \in Present /\ rows[q].turns \subseteq rows[r.parent].turns
    BY <1>5 DEF Family
  <2> QED
    BY <1>2, <1>3, <2>1, NoneIsNoRow DEF TurnsOf
<1>6. Save(nextId, r)
  BY DEF r
<1>7. /\ TreeFits' /\ Grown /\ nextId \notin Present /\ Present' = Present \cup {nextId} /\ rows'[nextId] = r
      /\ \A x \in Present : rows'[x] = rows[x]
  BY <1>1, <1>2, <1>3, <1>6, NewRowFits
<1>8. RefusesRows'
  BY <1>1, <1>2, <1>3, <1>4, <1>5, <1>6, NewRowJoins
<1> QED
  BY <1>1, <1>7, <1>8 DEF r

\* A client's step.
LEMMA RefusesClient ==
  ASSUME HistoryAssumption, HistoryTypes, HistoryTypes', TreeFits, RefusesInv, Refuses(home), home' = home,
         NEW c \in Clients, ClientStep(c)
  PROVE  TreeFits' /\ RefusesInv'
<1> DEFINE i == inv[c]
<1>1. KeepsTold(inv[c], told[c], handle[c]) /\ RefusesRows
  BY DEF RefusesInv
<1>2. inv[c] \in Invocations /\ handle[c] \in Refs
  BY DEF HistoryTypes
<1>3. ASSUME TreeFits', RefusesRows', Grown, KeepsTold(inv[c], told[c], handle[c])',
             \A d \in Clients : d # c => inv'[d] = inv[d] /\ told'[d] = told[d] /\ handle'[d] = handle[d]
      PROVE  TreeFits' /\ RefusesInv'
  BY <1>3, OneClientActs
<1>4. ASSUME rows' = rows, nextId' = nextId, pruning' = pruning, work' = work,
             KeepsTold(inv'[c], told'[c], handle'[c]),
             \A d \in Clients : d # c => inv'[d] = inv[d] /\ told'[d] = told[d] /\ handle'[d] = handle[d]
      PROVE  TreeFits' /\ RefusesInv'
  <2>1. TreeFits' /\ Present' = Present
    BY <1>4, SameTree
  <2>2. RefusesRows' /\ Grown
    BY <1>1, <1>4, SameRows DEF RefusesRows
  <2> QED
    BY <1>3, <1>4, <2>1, <2>2, KeepsOn
<1>5. CASE ResumeBySession(c)
  <2> DEFINE s == [Closed EXCEPT !.way = "session", !.live = Max(CompletedLeaves \cup {None})]
  <2>1. /\ inv'[c] = ReadAncestor(s, SelectedLeaf) /\ handle'[c] = None /\ told'[c] = told[c]
        /\ \A d \in Clients : d # c => inv'[d] = inv[d] /\ told'[d] = told[d] /\ handle'[d] = handle[d]
        /\ ~Ambiguous /\ rows' = rows /\ nextId' = nextId /\ pruning' = pruning /\ work' = work
    BY <1>5 DEF ResumeBySession, HistoryTypes
  <2>2. home.strict
    BY DEF Refuses
  <2>3. /\ IF Leaves = {} THEN SelectedLeaf = None ELSE Leaves = {SelectedLeaf}
        /\ Max(CompletedLeaves \cup {None})
              = IF Leaves # {} /\ rows[SelectedLeaf].status = "completed" THEN SelectedLeaf ELSE None
    BY <2>1, <2>2, OneLeaf
  <2>4. SelectedLeaf # None => SelectedLeaf \in Present
    BY <2>3 DEF Leaves
  <2>5. SelectedLeaf \in Refs /\ s.live \in Refs /\ s \in Invocations
    <3>1. Present \subseteq RowIds
      BY DEF Present
    <3>2. SelectedLeaf \in Refs /\ Max(CompletedLeaves \cup {None}) \in Refs
      BY <2>3, <2>4, <3>1 DEF Refs
    <3> QED
      BY <3>2, ClosedTypes DEF Closed, Invocations
  <2>6. told[c] = {} \/ \E S : Trail(SelectedLeaf, S, told[c])
    <3>1. ASSUME NEW r \in Present, rows[r].status = "completed", rows[r].turns = told[c]
          PROVE  \E S : Trail(SelectedLeaf, S, told[c])
      <4>1. PICK D : Family(r, D)
        BY <1>1, <3>1 DEF RefusesRows
      <4>2. SelectedLeaf \in D
        BY <2>3, <4>1, FamilyHasLeaf
      <4>3. Trail(SelectedLeaf, D, told[c])
        BY <3>1, <4>1, <4>2 DEF Family, Trail
      <4> QED
        BY <4>3
    <3> QED
      BY <1>1, <3>1 DEF KeepsTold
  <2>7. s.live = Max(CompletedLeaves \cup {None})
    BY DEF Closed
  <2> HIDE DEF s
  <2>8. /\ s.live = IF SelectedLeaf # None /\ rows[SelectedLeaf].status = "completed" THEN s.live ELSE None
        /\ s.live <= SelectedLeaf
    BY <2>3, <2>4, <2>5, <2>7 DEF Refs, RowIds, None
  <2>9. told[c] = {} \/ \E r \in Present : rows[r].status = "completed" /\ rows[r].turns = told[c]
    BY <1>1 DEF KeepsTold
  <2>10. KeepsTold(ReadAncestor(s, SelectedLeaf), told[c], None)
    BY <1>1, <2>4, <2>5, <2>6, <2>8, <2>9, ReadKeeps
  <2> QED
    BY <1>4, <2>1, <2>10
<1>6. CASE WalkBack(c)
  <2>1. /\ inv'[c] = ReadAncestor(inv[c], inv[c].cursor) /\ told'[c] = told[c] /\ handle'[c] = handle[c]
        /\ \A d \in Clients : d # c => inv'[d] = inv[d] /\ told'[d] = told[d] /\ handle'[d] = handle[d]
        /\ rows' = rows /\ nextId' = nextId /\ pruning' = pruning /\ work' = work
    BY <1>6 DEF WalkBack, HistoryTypes
  <2>2. /\ inv[c].live = None /\ inv[c].cursor \in Present
        /\ told[c] = {} \/ \E S : Trail(inv[c].cursor, S, told[c])
        /\ told[c] = {} \/ \E r \in Present : rows[r].status = "completed" /\ rows[r].turns = told[c]
        /\ handle[c] # None => handle[c] \in Present
    BY <1>1, <1>6 DEF KeepsTold, WalkBack
  <2>3. inv[c].cursor \in Refs /\ inv[c].live <= inv[c].cursor
    BY <1>2, <2>2 DEF Invocations, Refs, RowIds, None
  <2>4. KeepsTold(ReadAncestor(inv[c], inv[c].cursor), told[c], handle[c])
    BY <1>1, <1>2, <2>2, <2>3, ReadKeeps
  <2> QED
    BY <1>4, <2>1, <2>4
<1>7. CASE ResumeBySnapshot(c)
  <2> DEFINE j == RunFrom([Closed EXCEPT !.way = "snapshot"], handle[c])
  <2>1. /\ inv'[c] = j /\ told'[c] = told[c] /\ handle'[c] = handle[c]
        /\ \A d \in Clients : d # c => inv'[d] = inv[d] /\ told'[d] = told[d] /\ handle'[d] = handle[d]
        /\ rows' = rows /\ nextId' = nextId /\ pruning' = pruning /\ work' = work
        /\ handle[c] # None /\ rows[handle[c]].status = "completed"
    BY <1>7 DEF ResumeBySnapshot, HistoryTypes
  <2>2. /\ j.at = "running" /\ j.base = handle[c] /\ j.turns = TurnsOf(handle[c]) /\ j.good = j.turns
        /\ j.way = "snapshot"
    BY <2>1 DEF RunFrom, TurnsOf, Closed
  <2> HIDE DEF j
  <2>3. KeepsTold(j, told[c], handle[c])
    BY <1>1, <2>1, <2>2 DEF KeepsTold, Fresh, Ended
  <2> QED
    BY <1>4, <2>1, <2>3
<1>8. CASE TurnCompletes(c)
  <2>1. /\ inv'[c] = GoneOn(c, FALSE) /\ told'[c] = inv[c].turns \cup {nextId} /\ handle'[c] = handle[c]
        /\ \A d \in Clients : d # c => inv'[d] = inv[d] /\ told'[d] = told[d] /\ handle'[d] = handle[d]
        /\ inv[c].at = "running" /\ nextId <= MaxIds /\ nextId' = nextId + 1
        /\ Save(nextId, TurnRow(c, "completed")) /\ work' = work
    BY <1>8 DEF TurnCompletes, CanTurn, HistoryTypes
  <2>2. /\ TreeFits' /\ RefusesRows' /\ Grown /\ nextId # None /\ Present' = Present \cup {nextId}
        /\ rows'[nextId] = TurnRow(c, "completed")
    BY <2>1, TurnJoins DEF Statuses, TERMINAL_STATUSES
  <2>3. /\ inv'[c].at = "running" /\ inv'[c].base = nextId /\ inv'[c].turns = inv[c].turns \cup {nextId}
        /\ inv'[c].good = inv'[c].turns /\ inv'[c].index # 0
    BY <1>2, <2>1 DEF GoneOn, Invocations
  <2>4. handle'[c] # None => handle'[c] \in Present'
    BY <1>1, <2>1, <2>2 DEF KeepsTold
  <2>5. rows'[nextId].status = "completed" /\ rows'[nextId].turns = inv[c].turns \cup {nextId}
    BY <2>2 DEF TurnRow
  <2>6. \E r \in Present' : rows'[r].status = "completed" /\ rows'[r].turns = told'[c]
    BY <2>1, <2>2, <2>5
  <2>7. KeepsTold(inv[c], told[c], handle[c])'
    BY <2>2, <2>3, <2>4, <2>5, <2>6, GoesOn DEF Ended
  <2> QED
    BY <1>3, <2>1, <2>2, <2>7
<1>9. CASE TurnReportsFailure(c)
  <2>1. /\ inv'[c] = GoneOn(c, TRUE) /\ told'[c] = told[c] /\ handle'[c] = handle[c]
        /\ \A d \in Clients : d # c => inv'[d] = inv[d] /\ told'[d] = told[d] /\ handle'[d] = handle[d]
        /\ inv[c].at = "running" /\ nextId <= MaxIds /\ nextId' = nextId + 1
        /\ Save(nextId, TurnRow(c, "failed")) /\ work' = work
    BY <1>9 DEF TurnReportsFailure, CanTurn, HistoryTypes
  <2>2. /\ TreeFits' /\ RefusesRows' /\ Grown /\ nextId # None /\ Present' = Present \cup {nextId}
        /\ rows'[nextId] = TurnRow(c, "failed") /\ \A x \in Present : rows'[x] = rows[x]
    BY <2>1, TurnJoins DEF Statuses, TERMINAL_STATUSES
  <2>3. /\ inv'[c].at = "running" /\ inv'[c].base = nextId /\ inv'[c].turns = inv[c].turns \cup {nextId}
        /\ inv'[c].good = inv'[c].turns /\ inv'[c].index # 0
    BY <1>2, <2>1 DEF GoneOn, Invocations
  <2>4. /\ handle'[c] # None => handle'[c] \in Present'
        /\ told'[c] = {} \/ \E r \in Present' : rows'[r].status = "completed" /\ rows'[r].turns = told'[c]
    BY <1>1, <2>1, <2>2 DEF KeepsTold
  <2>5. rows'[nextId].status = "failed" /\ rows'[nextId].turns = inv[c].turns \cup {nextId}
    BY <2>2 DEF TurnRow
  <2>6. KeepsTold(inv[c], told[c], handle[c])'
    BY <2>2, <2>3, <2>4, <2>5, GoesOn DEF Ended
  <2> QED
    BY <1>3, <2>1, <2>2, <2>6
<1>10. CASE TurnRaises(c)
  <2>1. /\ inv'[c] = IF inv[c].index = 0 THEN Closed
                     ELSE [inv[c] EXCEPT !.at = "recovering", !.base = nextId]
        /\ told'[c] = told[c] /\ handle'[c] = handle[c]
        /\ \A d \in Clients : d # c => inv'[d] = inv[d] /\ told'[d] = told[d] /\ handle'[d] = handle[d]
        /\ inv[c].at = "running" /\ nextId <= MaxIds /\ nextId' = nextId + 1
        /\ Save(nextId, TurnRow(c, "failed")) /\ work' = work
    BY <1>10 DEF TurnRaises, CanTurn, HistoryTypes
  <2>2. /\ TreeFits' /\ RefusesRows' /\ Grown /\ nextId # None /\ Present' = Present \cup {nextId}
        /\ rows'[nextId] = TurnRow(c, "failed") /\ \A x \in Present : rows'[x] = rows[x]
    BY <2>1, TurnJoins DEF Statuses, TERMINAL_STATUSES
  <2>3. /\ handle'[c] # None => handle'[c] \in Present'
        /\ told'[c] = {} \/ \E r \in Present' : rows'[r].status = "completed" /\ rows'[r].turns = told'[c]
    BY <1>1, <2>1, <2>2 DEF KeepsTold
  <2>4. KeepsTold(inv[c], told[c], handle[c])'
    <3>1. CASE inv'[c] = Closed
      BY <2>3, <3>1 DEF KeepsTold, Closed, Fresh
    <3>2. CASE inv'[c] = [inv[c] EXCEPT !.at = "recovering", !.base = nextId]
      <4>1. /\ inv'[c].at = "recovering" /\ inv'[c].base = nextId /\ inv'[c].turns = inv[c].turns
            /\ inv'[c].good = inv[c].good
        BY <1>2, <3>2 DEF Invocations
      <4>2. inv[c].good = inv[c].turns /\ inv[c].turns = TurnsOf(inv[c].base)
            /\ (inv[c].base # None => inv[c].base \in Present)
        BY <1>1, <2>1 DEF KeepsTold
      <4>3. inv[c].turns = IF inv[c].base = None THEN {} ELSE rows'[inv[c].base].turns
        BY <2>2, <4>2 DEF TurnsOf
      <4>4. rows'[nextId].status = "failed" /\ rows'[nextId].parent = inv[c].base
        BY <2>2 DEF TurnRow
      <4> QED
        BY <2>2, <2>3, <4>1, <4>2, <4>3, <4>4 DEF KeepsTold, Fresh, Ended, TurnsOf
    <3> QED
      BY <2>1, <3>1, <3>2
  <2> QED
    BY <1>3, <2>1, <2>2, <2>4
<1>11. CASE Recover(c)
  <2> PICK r : r = [status |-> "completed", parent |-> inv[c].base, turns |-> inv[c].good]
    OBVIOUS
  <2>1. /\ inv'[c] = Closed /\ told'[c] = told[c] /\ handle'[c] = handle[c]
        /\ \A d \in Clients : d # c => inv'[d] = inv[d] /\ told'[d] = told[d] /\ handle'[d] = handle[d]
        /\ inv[c].at = "recovering" /\ nextId <= MaxIds /\ nextId' = nextId + 1
        /\ Save(nextId, r) /\ work' = work
    BY <1>11 DEF Recover, HistoryTypes
  <2>2. /\ inv[c].base \in Present /\ rows[inv[c].base].status = "failed"
        /\ inv[c].good = TurnsOf(rows[inv[c].base].parent)
    BY <1>1, <2>1 DEF KeepsTold
  <2>3. r.status = "completed" /\ r.parent = inv[c].base /\ r.turns = inv[c].good
    OBVIOUS
  <2>4. ASSUME NEW q, NEW D, Family(q, D), rows[q].status = "completed", r.parent \in D
        PROVE  rows[q].turns \subseteq r.turns
    <3>1. inv[c].base # q
      BY <2>2, <2>4
    <3>2. rows[inv[c].base].parent \in D /\ D \subseteq Present
      BY <2>3, <2>4, <3>1 DEF Family
    <3>3. rows[q].turns \subseteq rows[rows[inv[c].base].parent].turns
      BY <2>4, <3>2 DEF Family
    <3>4. rows[inv[c].base].parent # None
      BY <3>2, NoneIsNoRow
    <3>5. r.turns = rows[rows[inv[c].base].parent].turns
      BY <2>2, <2>3, <3>4 DEF TurnsOf
    <3> QED
      BY <3>3, <3>5
  <2>5. nextId \in RowIds
    BY <2>1, CountsOn
  <2>6. r.status \in Statuses /\ (r.parent # None => r.parent \in Present /\ Ended(rows[r.parent]))
    BY <2>2, <2>3 DEF Statuses, TERMINAL_STATUSES, Ended
  <2>7. /\ TreeFits' /\ Grown /\ Present' = Present \cup {nextId}
        /\ \A x \in Present : rows'[x] = rows[x]
    BY <2>1, <2>5, <2>6, NewRowFits
  <2>8. RefusesRows'
    BY <1>1, <2>1, <2>4, <2>5, <2>6, NewRowJoins
  <2>9. KeepsTold(inv[c], told[c], handle[c])'
    BY <1>1, <2>1, <2>7 DEF KeepsTold, Closed, Fresh
  <2> QED
    BY <1>3, <2>1, <2>7, <2>8, <2>9
<1>12. CASE Answer(c)
  <2>1. /\ inv'[c] = Closed /\ told'[c] = told[c]
        /\ handle'[c] = IF inv[c].failed THEN handle[c] ELSE inv[c].base
        /\ \A d \in Clients : d # c => inv'[d] = inv[d] /\ told'[d] = told[d] /\ handle'[d] = handle[d]
        /\ rows' = rows /\ nextId' = nextId /\ pruning' = pruning /\ work' = work /\ inv[c].at = "running"
    BY <1>12 DEF Answer, HistoryTypes
  <2>2. KeepsTold(inv'[c], told'[c], handle'[c])
    BY <1>1, <2>1 DEF KeepsTold, Closed, Fresh
  <2> QED
    BY <1>4, <2>1, <2>2
<1>13. CASE Detach(c)
  <2>1. /\ inv'[c] = Closed /\ told'[c] = told[c] /\ handle'[c] = nextId
        /\ \A d \in Clients : d # c => inv'[d] = inv[d] /\ told'[d] = told[d] /\ handle'[d] = handle[d]
        /\ inv[c].at = "running" /\ nextId <= MaxIds /\ nextId' = nextId + 1
        /\ Save(nextId, TurnRow(c, "pending"))
        /\ work' = work \cup {[id |-> nextId, turns |-> inv[c].turns \cup {nextId}]}
    BY <1>13 DEF Detach, CanTurn, HistoryTypes
  <2>2. /\ TreeFits' /\ RefusesRows' /\ Grown /\ nextId # None /\ Present' = Present \cup {nextId}
        /\ \A x \in Present : rows'[x] = rows[x]
    BY <2>1, TurnJoins DEF Statuses
  <2>3. KeepsTold(inv[c], told[c], handle[c])'
    BY <1>1, <2>1, <2>2 DEF KeepsTold, Closed, Fresh
  <2> QED
    BY <1>3, <2>1, <2>2, <2>3
<1> QED
  BY <1>5, <1>6, <1>7, <1>8, <1>9, <1>10, <1>11, <1>12, <1>13 DEF ClientStep

\* What a detached turn leaves when it ends: its row as it was, if aborted, or settled.
LEMMA FinalizeSettles ==
  ASSUME HistoryTypes, TreeFits, NEW w \in work, Finalize(w)
  PROVE  /\ w.id \in Present /\ nextId' = nextId /\ work' \subseteq work
         /\ inv' = inv /\ handle' = handle /\ told' = told
         /\ \A v \in work' : v.id # w.id
         /\ \/ rows' = rows /\ pruning' = pruning
            \/ /\ rows[w.id].status = "pending"
               /\ \E r : /\ Save(w.id, r) /\ r.status \in {"completed", "failed"}
                         /\ r.parent = rows[w.id].parent /\ r.turns = rows[w.id].turns
<1>1. /\ w.id \in Present /\ rows[w.id].status \in {"pending", "aborted"}
      /\ \A v \in work : v.turns = rows[v.id].turns
  BY DEF TreeFits
<1>2. /\ nextId' = nextId /\ work' = work \ {w} /\ inv' = inv /\ handle' = handle /\ told' = told
  BY DEF Finalize
<1>3. ASSUME NEW v \in work, v.id = w.id PROVE v = w
  <2>1. v.turns = w.turns
    BY <1>1, <1>3
  <2>2. v \in [id : RowIds, turns : SUBSET RowIds] /\ w \in [id : RowIds, turns : SUBSET RowIds]
    BY DEF HistoryTypes
  <2> QED
    BY <1>3, <2>1, <2>2
<1>4. CASE rows[w.id].status = "aborted"
  <2>1. rows' = rows /\ pruning' = pruning
    BY <1>4 DEF Finalize
  <2> QED
    BY <1>1, <1>2, <1>3, <2>1
<1>5. CASE rows[w.id].status = "pending"
  <2>1. PICK status \in {"completed", "failed"} :
          Save(w.id, [rows[w.id] EXCEPT !.status = status, !.turns = w.turns])
    BY <1>5 DEF Finalize
  <2> DEFINE r == [rows[w.id] EXCEPT !.status = status, !.turns = w.turns]
  <2>2. rows[w.id] \in Snapshots
    BY <1>1 DEF HistoryTypes, Present
  <2>3. r.status = status /\ r.parent = rows[w.id].parent /\ r.turns = rows[w.id].turns
    BY <1>1, <2>2 DEF Snapshots
  <2>4. Save(w.id, r)
    BY <2>1
  <2>5. \E q : /\ Save(w.id, q) /\ q.status \in {"completed", "failed"}
               /\ q.parent = rows[w.id].parent /\ q.turns = rows[w.id].turns
    BY <2>3, <2>4
  <2> QED
    BY <1>1, <1>2, <1>3, <1>5, <2>5
<1> QED
  BY <1>1, <1>4, <1>5

\* What an abort leaves.
LEMMA AbortSettles ==
  ASSUME HistoryTypes, TreeFits, NEW id \in RowIds, Abort(id)
  PROVE  /\ id \in Present /\ rows[id].status = "pending" /\ nextId' = nextId /\ work' = work
         /\ inv' = inv /\ handle' = handle /\ told' = told
         /\ \E r : /\ Save(id, r) /\ r.status = "aborted"
                   /\ r.parent = rows[id].parent /\ r.turns = rows[id].turns
<1> DEFINE r == [rows[id] EXCEPT !.status = "aborted"]
<1>1. rows[id].status = "pending" /\ Save(id, r)
  BY DEF Abort
<1>2. id \in Present
  BY <1>1 DEF Present, Absent
<1>3. r.status = "aborted" /\ r.parent = rows[id].parent /\ r.turns = rows[id].turns
  BY DEF HistoryTypes, Snapshots
<1>4. \E q : /\ Save(id, q) /\ q.status = "aborted"
             /\ q.parent = rows[id].parent /\ q.turns = rows[id].turns
  BY <1>1, <1>3
<1> QED
  BY <1>1, <1>2, <1>4 DEF Abort

\* No client acts, and the rows grow at most.
LEMMA NoClientActs ==
  ASSUME HistoryTypes, TreeFits, RefusesInv, RefusesRows', Grown,
         inv' = inv, told' = told, handle' = handle
  PROVE  RefusesInv'
<1>1. ASSUME NEW c \in Clients PROVE KeepsTold(inv[c], told[c], handle[c])'
  BY WaitsOn DEF RefusesInv
<1> QED
  BY <1>1 DEF RefusesInv

\* The rest of the steps.
LEMMA RefusesOthers ==
  ASSUME HistoryAssumption, HistoryTypes, HistoryTypes', TreeFits, RefusesInv, Refuses(home), home' = home,
         \/ \E w \in work : Finalize(w)
         \/ \E id \in RowIds : Abort(id)
         \/ PruneNext \/ Crash
  PROVE  TreeFits' /\ RefusesInv'
<1>1. RefusesRows /\ pruning = {}
  BY DEF RefusesInv, RefusesRows
<1>2. ASSUME NEW w \in work, Finalize(w) PROVE TreeFits' /\ RefusesInv'
  <2>1. /\ w.id \in Present /\ nextId' = nextId /\ work' \subseteq work
        /\ inv' = inv /\ handle' = handle /\ told' = told
        /\ \A v \in work' : v.id # w.id
    BY <1>2, FinalizeSettles
  <2>2. CASE rows' = rows /\ pruning' = pruning
    <3>1. TreeFits' /\ RefusesRows' /\ Grown
      BY <1>1, <2>1, <2>2, SameTree, SameRows
    <3> QED
      BY <2>1, <3>1, NoClientActs
  <2>3. ASSUME rows[w.id].status = "pending",
               NEW r, Save(w.id, r), r.status \in {"completed", "failed"},
               r.parent = rows[w.id].parent, r.turns = rows[w.id].turns
        PROVE  TreeFits' /\ RefusesInv'
    <3>1. r.status \in TERMINAL_STATUSES
      BY <2>3 DEF TERMINAL_STATUSES
    <3>2. TreeFits' /\ Grown
      BY <2>1, <2>3, <3>1, SettleFits
    <3>3. RefusesRows'
      BY <1>1, <2>1, <2>3, <3>1, SettledStarts
    <3> QED
      BY <2>1, <3>2, <3>3, NoClientActs
  <2> QED
    BY <1>2, <2>2, <2>3, FinalizeSettles
<1>3. ASSUME NEW id \in RowIds, Abort(id) PROVE TreeFits' /\ RefusesInv'
  <2>1. /\ id \in Present /\ rows[id].status = "pending" /\ nextId' = nextId /\ work' \subseteq work
        /\ inv' = inv /\ handle' = handle /\ told' = told
    BY <1>3, AbortSettles
  <2>2. PICK r : /\ Save(id, r) /\ r.status = "aborted"
                 /\ r.parent = rows[id].parent /\ r.turns = rows[id].turns
    BY <1>3, AbortSettles
  <2>3. r.status \in TERMINAL_STATUSES
    BY <2>2 DEF TERMINAL_STATUSES
  <2>4. TreeFits' /\ Grown
    BY <2>1, <2>2, <2>3, SettleFits
  <2>5. RefusesRows'
    BY <1>1, <2>1, <2>2, <2>3, SettledStarts
  <2> QED
    BY <2>1, <2>4, <2>5, NoClientActs
<1>4. ~PruneNext
  BY <1>1 DEF PruneNext
<1>5. CASE Crash
  <2>1. /\ rows' = rows /\ nextId' = nextId /\ told' = told /\ pruning' = {} /\ work' = {}
        /\ \A c \in Clients : inv'[c] = Closed /\ handle'[c] = None
    BY <1>5 DEF Crash
  <2>2. TreeFits' /\ RefusesRows'
    BY <1>1, <2>1, SameTree, SameRows
  <2>3. ASSUME NEW c \in Clients PROVE KeepsTold(inv[c], told[c], handle[c])'
    <3>1. KeepsTold(inv[c], told[c], handle[c])
      BY DEF RefusesInv
    <3>2. KeepsTold(inv'[c], told'[c], handle'[c])
      BY <2>1, <3>1 DEF KeepsTold, Closed, Fresh
    <3> QED
      BY <2>1, <3>2, KeepsOn
  <2> QED
    BY <2>2, <2>3 DEF RefusesInv
<1> QED
  BY <1>2, <1>3, <1>4, <1>5

-----------------------------------------------------------------------------
(* The steps of a client that is alone *)

\* The newest row and the one behind it, as numbers and as rows.
LEMMA EndsAre ==
  ASSUME HistoryTypes, TreeFits, EndsKept
  PROVE  /\ NewestId \in Nat /\ nextId = NewestId + 1 /\ Behind \in Refs /\ Behind \in Nat
         /\ NewestId = None => Behind = None /\ Present = {}
         /\ NewestId # None => NewestId \in Present /\ Behind < NewestId /\ Behind = rows[NewestId].parent
         /\ Behind # None => Behind \in Present /\ rows[Behind].status = "completed"
         /\ \A x \in Present : x <= NewestId
<1>1. NewestId \in Nat /\ nextId = NewestId + 1
  BY DEF HistoryTypes, NewestId
<1>2. \A x \in Present : x \in Nat /\ x # 0 /\ x <= NewestId
  BY <1>1, PresentFits DEF RowIds, Present
<1>3. CASE NewestId = None
  <2>1. Present = {}
    BY <1>2, <1>3 DEF None
  <2> QED
    BY <1>1, <1>2, <1>3, <2>1 DEF Behind, EndsKept, Refs, None
<1>4. CASE NewestId # None
  <2>1. NewestId \in Present /\ Behind = rows[NewestId].parent
    BY <1>4 DEF EndsKept, Behind
  <2>2. Behind \in Refs /\ Behind \in Nat /\ Behind < NewestId
    BY <2>1, PresentFits DEF HistoryTypes, Snapshots, Present
  <2> QED
    BY <1>1, <1>2, <1>4, <2>1, <2>2 DEF EndsKept
<1> QED
  BY <1>3, <1>4

\* The client goes on when the newest row and the one behind it stay, or settle.
LEMMA FollowsOn ==
  ASSUME HistoryTypes, TreeFits, EndsKept, home' = home, nextId' = nextId,
         \A x \in {NewestId, Behind} \ {None} :
            /\ rows'[x].parent = rows[x].parent /\ rows'[x].turns = rows[x].turns
            /\ rows[x].status # "pending" => rows'[x].status = rows[x].status,
         NEW i, NEW T, NEW h, FollowsNewest(i, T, h)
  PROVE  /\ NewestId' = NewestId /\ Behind' = Behind
         /\ \A c : inv'[c] = i /\ told'[c] = T /\ handle'[c] = h => FollowsNewest(inv[c], told[c], handle[c])'
<1>1. NewestId' = NewestId /\ Behind' = Behind
  BY DEF NewestId, Behind
<1>2. \A x \in {NewestId, Behind, None} : TurnsOf(x) = IF x = None THEN {} ELSE rows'[x].turns
  BY DEF TurnsOf
<1>3. \A x \in {NewestId, Behind} \ {None} : rows[x].status = "completed" => rows'[x].status = "completed"
  OBVIOUS
<1>4. ASSUME NEW c, inv'[c] = i, told'[c] = T, handle'[c] = h
      PROVE  FollowsNewest(inv[c], told[c], handle[c])'
  <2>1. /\ T \subseteq TurnsOf(NewestId)
        /\ NewestId # None /\ rows[NewestId].status # "completed" => T \subseteq TurnsOf(Behind)
    BY DEF FollowsNewest
  <2> QED
    BY <1>1, <1>2, <1>3, <1>4, <2>1 DEF FollowsNewest, Fresh, TurnsOf
<1> QED
  BY <1>1, <1>4

\* What an invocation that is to run a turn holds.
LEMMA TurnStarts ==
  ASSUME HistoryTypes, TreeFits, EndsKept, NEW i, NEW T, NEW h, FollowsNewest(i, T, h),
         i.at = "running", i.index = 0
  PROVE  /\ i.base \in {None, NewestId, Behind}
         /\ i.base # None => i.base \in Present /\ Ended(rows[i.base]) /\ rows[i.base].status = "completed"
         /\ i.turns = TurnsOf(i.base) /\ T \subseteq i.turns
         /\ h \in {None, i.base}
<1>1. \A x \in {NewestId, Behind} : x # None => x \in Present
  BY EndsAre
<1>2. /\ i.base \in {None, NewestId, Behind} /\ i.turns = TurnsOf(i.base) /\ h \in {None, i.base}
      /\ i.base # None => rows[i.base].status = "completed"
  BY DEF FollowsNewest
<1>3. T \subseteq i.turns
  <2>1. CASE i.way = "session"
    BY <2>1 DEF FollowsNewest
  <2>2. CASE i.way # "session"
    <3>1. h = i.base /\ h # None /\ h \in {NewestId, Behind}
      BY <2>2 DEF FollowsNewest
    <3>2. CASE h = Behind
      BY <1>2, <3>1, <3>2 DEF FollowsNewest
    <3>3. CASE h = NewestId
      BY <1>2, <3>1, <3>3 DEF FollowsNewest
    <3> QED
      BY <3>1, <3>2, <3>3
  <2> QED
    BY <2>1, <2>2
<1> QED
  BY <1>1, <1>2, <1>3 DEF Ended

\* The row of a turn becomes the newest; what the turn continued is behind it.
LEMMA EndsMove ==
  ASSUME HistoryAssumption, HistoryTypes, HistoryTypes', TreeFits, EndsKept, Lone(home), home' = home,
         NEW c \in Clients, FollowsNewest(inv[c], told[c], handle[c]),
         inv[c].at = "running", inv[c].index = 0, NEW status \in Statuses,
         nextId <= MaxIds, nextId' = nextId + 1, Save(nextId, TurnRow(c, status)),
         work' = work \/ (status = "pending"
                            /\ work' = work \cup {[id |-> nextId, turns |-> inv[c].turns \cup {nextId}]})
  PROVE  /\ TreeFits' /\ EndsKept' /\ NewestId' = nextId /\ Behind' = inv[c].base
         /\ nextId # None /\ nextId # inv[c].base /\ rows'[nextId].status = status
         /\ TurnsOf(NewestId)' = inv[c].turns \cup {nextId} /\ TurnsOf(Behind)' = inv[c].turns
<1> DEFINE r == TurnRow(c, status)
           b == inv[c].base
<1>1. nextId \in RowIds /\ nextId # None /\ nextId \in Nat
  BY CountsOn DEF RowIds, None
<1>2. r.status = status /\ r.parent = b /\ r.turns = inv[c].turns \cup {nextId}
  BY DEF TurnRow
<1>3. /\ b \in {None, NewestId, Behind} /\ inv[c].turns = TurnsOf(b)
      /\ b # None => b \in Present /\ Ended(rows[b]) /\ rows[b].status = "completed"
  BY TurnStarts
<1> HIDE DEF r, b
<1>4. Save(nextId, r)
  BY DEF r
<1>5. /\ TreeFits' /\ Grown /\ pruning = {} /\ nextId \notin Present /\ Present' = Present \cup {nextId}
      /\ rows'[nextId] = r /\ \A x \in Present : rows'[x] = rows[x]
  BY <1>1, <1>2, <1>3, <1>4, NewRowFits
<1>6. NewestId' = nextId
  BY <1>1 DEF NewestId
<1>7. Behind' = b
  BY <1>1, <1>2, <1>5, <1>6 DEF Behind
<1>8. /\ \A x \in Present : x \in Nat /\ x < nextId /\ rows[x].parent \in Nat /\ rows[x].parent < x
      /\ b # nextId /\ (b # None => b \in Nat /\ b < nextId)
  BY <1>1, <1>3, <1>5, PresentFits
<1>9. ASSUME b # None, NEW x \in Present', rows'[x].parent \in Present'
      PROVE  rows'[rows'[x].parent].parent # b
  <2>1. CASE x = nextId
    <3>1. rows'[x].parent = b /\ b \in Present /\ rows'[b] = rows[b] /\ rows[b].parent < b /\ rows[b].parent \in Nat
      BY <1>2, <1>3, <1>5, <1>8, <1>9, <2>1
    <3> QED
      BY <1>8, <1>9, <3>1
  <2>2. CASE x \in Present
    <3>1. rows'[x] = rows[x] /\ rows[x].parent < x /\ x < nextId /\ x \in Nat /\ rows[x].parent \in Nat
      BY <1>5, <1>8, <2>2
    <3>2. rows[x].parent # nextId
      BY <1>1, <3>1
    <3>3. rows[x].parent \in Present /\ rows'[rows[x].parent] = rows[rows[x].parent]
      BY <1>5, <1>9, <3>1, <3>2
    <3>4. CASE b = Behind
      BY <1>9, <2>2, <3>1, <3>3, <3>4 DEF EndsKept
    <3>5. CASE b = NewestId
      <4>1. rows[rows[x].parent].parent < rows[x].parent /\ rows[rows[x].parent].parent \in Nat
        BY <1>8, <3>3
      <4>2. x <= NewestId /\ NewestId \in Nat
        BY <2>2, EndsAre
      <4> QED
        BY <3>1, <3>3, <3>5, <4>1, <4>2
    <3> QED
      BY <1>3, <1>9, <3>4, <3>5
  <2> QED
    BY <1>5, <1>9, <2>1, <2>2
<1>10. nextId \notin pruning' /\ b \notin pruning'
  <2>1. ~Absent(r) /\ r.parent < nextId /\ \A x \in Present : rows[x].parent < x
    <3>1. ~Absent(r)
      BY <1>2 DEF Absent, Statuses, TERMINAL_STATUSES
    <3>2. r.parent < nextId
      BY <1>1, <1>2, <1>8 DEF None, RowIds
    <3> QED
      BY <1>8, <3>1, <3>2
  <2>2. \A old \in pruning' :
              /\ old \in Present'
              /\ \E p \in Present' : /\ rows'[p].parent = old
                                     /\ home.cap # 1 => \E x \in Present' : rows'[x].parent = p
    BY <1>1, <1>4, <2>1, SavePrunes
  <2>3. ASSUME nextId \in pruning' PROVE FALSE
    <3>1. PICK p \in Present' : rows'[p].parent = nextId
      BY <2>2, <2>3
    <3>2. CASE p = nextId
      BY <1>2, <1>5, <1>8, <3>1, <3>2
    <3>3. CASE p \in Present
      BY <1>1, <1>5, <1>8, <3>1, <3>3
    <3> QED
      BY <1>5, <3>2, <3>3
  <2>4. ASSUME b \in pruning' PROVE FALSE
    <3>1. b \in Present' /\ home.cap # 1
      BY <2>2, <2>4 DEF Lone
    <3>2. PICK p \in Present' : rows'[p].parent = b /\ \E x \in Present' : rows'[x].parent = p
      BY <2>2, <2>4, <3>1
    <3>3. b # None
      BY <1>1, <1>5, <3>1, NoneIsNoRow
    <3> QED
      BY <1>9, <3>2, <3>3
  <2> QED
    BY <2>3, <2>4
<1>11. TurnsOf(NewestId)' = inv[c].turns \cup {nextId}
  BY <1>1, <1>2, <1>5, <1>6 DEF TurnsOf
<1>12. TurnsOf(Behind)' = inv[c].turns
  BY <1>3, <1>5, <1>7 DEF TurnsOf
<1>13. b # None => b \in Present' /\ rows'[b].status = "completed" /\ rows'[b].turns \subseteq rows'[nextId].turns
  BY <1>2, <1>3, <1>5 DEF TurnsOf
<1>14. EndsKept'
  BY <1>1, <1>5, <1>6, <1>7, <1>9, <1>10, <1>13 DEF EndsKept
<1> QED
  BY <1>1, <1>2, <1>5, <1>6, <1>7, <1>8, <1>11, <1>12, <1>14 DEF b

\* What a save of a settled row prunes is neither the newest row nor the one behind it.
LEMMA EndsStay ==
  ASSUME HistoryAssumption, HistoryTypes, HistoryTypes', TreeFits, EndsKept, Lone(home), home' = home,
         NEW id \in Present, NEW r, Save(id, r), rows[id].status = "pending", r.status \in TERMINAL_STATUSES,
         r.parent = rows[id].parent, r.turns = rows[id].turns, nextId' = nextId, work' \subseteq work,
         r.status # "aborted" => \A w \in work' : w.id # id
  PROVE  TreeFits' /\ EndsKept' /\ Grown
<1>1. /\ TreeFits' /\ Grown /\ pruning = {} /\ Present' = Present /\ rows'[id] = r
      /\ \A x \in Present : x # id => rows'[x] = rows[x]
  BY SettleFits
<1>2. \A x \in Present : rows'[x].parent = rows[x].parent /\ rows'[x].turns = rows[x].turns
  BY <1>1
<1>3. /\ NewestId \in Nat
      /\ NewestId # None => NewestId \in Present
      /\ Behind # None => Behind \in Present /\ rows[Behind].status = "completed"
      /\ \A x \in Present : x <= NewestId
  BY EndsAre
<1>4. NewestId' = NewestId /\ Behind' = Behind
  BY <1>2, <1>3 DEF NewestId, Behind
<1>5. \A old \in pruning' :
              /\ old \in Present'
              /\ \E p \in Present' : /\ rows'[p].parent = old
                                     /\ home.cap # 1 => \E x \in Present' : rows'[x].parent = p
  <2>1. ~Absent(r) /\ id \in RowIds
    BY DEF Absent, TERMINAL_STATUSES, Present
  <2>2. r.parent < id /\ \A x \in Present : rows[x].parent < x
    BY PresentFits
  <2> QED
    BY <2>1, <2>2, SavePrunes
<1>6. NewestId \notin pruning'
  <2>1. SUFFICES ASSUME NEW p \in Present, rows[p].parent = NewestId PROVE FALSE
    BY <1>1, <1>2, <1>5
  <2>2. rows[p].parent < p /\ p <= NewestId /\ p \in Nat
    BY <1>3, PresentFits
  <2> QED
    BY <1>3, <2>1, <2>2
<1>7. Behind \notin pruning'
  <2>1. SUFFICES ASSUME Behind \in pruning' PROVE FALSE
    OBVIOUS
  <2>2. Behind \in Present /\ Behind # None /\ home.cap # 1
    BY <1>1, <1>5, <2>1, NoneIsNoRow DEF Lone
  <2>3. PICK p \in Present : rows[p].parent = Behind /\ \E x \in Present : rows[x].parent = p
    BY <1>1, <1>2, <1>5, <2>1, <2>2
  <2> QED
    BY <2>2, <2>3 DEF EndsKept
<1>8. Behind # None => /\ rows'[Behind].status = "completed" /\ rows'[Behind].turns \subseteq rows'[NewestId].turns
                       /\ \A x \in Present : rows'[x].parent \in Present => rows'[rows'[x].parent].parent # Behind
  <2>1. SUFFICES ASSUME Behind # None
                 PROVE  /\ rows'[Behind].status = "completed" /\ rows'[Behind].turns \subseteq rows'[NewestId].turns
                        /\ \A x \in Present : rows'[x].parent \in Present => rows'[rows'[x].parent].parent # Behind
    OBVIOUS
  <2>2. NewestId # None
    BY <2>1, EndsAre
  <2>3. Behind # id
    BY <1>3, <2>1
  <2> QED
    BY <1>1, <1>2, <1>3, <2>1, <2>2, <2>3 DEF EndsKept
<1> QED
  BY <1>1, <1>3, <1>4, <1>6, <1>7, <1>8 DEF EndsKept

\* All clients of the session are the one that acts.
LEMMA AloneActs ==
  ASSUME HistoryTypes, Lone(home), home' = home, LoneInv, EndsKept', NEW c \in home.clients,
         \A d \in Clients : d # c => inv'[d] = inv[d] /\ handle'[d] = handle[d],
         FollowsNewest(inv[c], told[c], handle[c])'
  PROVE  LoneInv'
<1>1. \A d \in home.clients : d = c
  BY DEF Lone
<1>2. \A d \in home.clients : FollowsNewest(inv[d], told[d], handle[d])'
  BY <1>1
<1>3. \A d \in Clients \ home.clients : d # c
  OBVIOUS
<1> QED
  BY <1>2, <1>3 DEF LoneInv

\* The leaf selected is the newest row.
LEMMA NewestIsSelected ==
  ASSUME HistoryAssumption, HistoryTypes, TreeFits, EndsKept
  PROVE  SelectedLeaf = NewestId
<1>1. CASE NewestId = None
  <2>1. Leaves = {}
    BY <1>1, EndsAre DEF Leaves
  <2> QED
    BY <1>1, <2>1 DEF SelectedLeaf
<1>2. CASE NewestId # None
  <2>1. NewestId \in Present /\ NewestId \in Nat /\ \A x \in Present : x <= NewestId
    BY <1>2, EndsAre
  <2>2. ASSUME NEW x \in Present PROVE rows[x].parent # NewestId
    BY <2>1, PresentFits
  <2>3. NewestId \in Leaves
    BY <2>1, <2>2 DEF Leaves
  <2>4. Leaves \subseteq 0..MaxIds /\ MaxIds \in Nat
    BY DEF Leaves, Present, RowIds, HistoryAssumption
  <2>5. Max(Leaves) \in Leaves /\ NewestId <= Max(Leaves)
    BY <2>3, <2>4, MaxIs
  <2>6. Max(Leaves) \in Present
    BY <2>5 DEF Leaves
  <2>7. Max(Leaves) <= NewestId /\ Max(Leaves) \in Nat
    BY <2>1, <2>6, PresentFits
  <2> QED
    BY <2>1, <2>3, <2>5, <2>7 DEF SelectedLeaf
<1> QED
  BY <1>1, <1>2

\* An invocation that goes on from the newest row.
LEMMA AfterTurn ==
  ASSUME NEW c, inv'[c].at = "running", inv'[c].index = 1, inv'[c].base = NewestId',
         told'[c] \subseteq TurnsOf(NewestId)',
         rows'[NewestId'].status = "completed" \/ told'[c] \subseteq TurnsOf(Behind)',
         handle'[c] \in {None, Behind'},
         inv'[c].failed = FALSE \/ told'[c] \subseteq TurnsOf(Behind)'
  PROVE  FollowsNewest(inv[c], told[c], handle[c])'
<1>1. inv'[c].failed = FALSE => ~(inv'[c].failed)
  OBVIOUS
<1> QED
  BY <1>1 DEF FollowsNewest, Fresh

\* An invocation that runs from b.
LEMMA RunIs ==
  ASSUME NEW i \in Invocations, NEW b, NEW j, j = RunFrom(i, b)
  PROVE  /\ j.at = "running" /\ j.base = b /\ j.turns = TurnsOf(b)
         /\ j.live = i.live /\ j.way = i.way /\ j.index = i.index
BY DEF RunFrom, TurnsOf, Invocations

\* A client's step.
LEMMA LoneClient ==
  ASSUME HistoryAssumption, HistoryTypes, HistoryTypes', TreeFits, LoneInv, Lone(home), home' = home,
         NEW c \in home.clients, c \in Clients, ClientStep(c)
  PROVE  TreeFits' /\ LoneInv'
<1>1. FollowsNewest(inv[c], told[c], handle[c]) /\ EndsKept
  BY DEF LoneInv
<1>2. /\ inv[c] \in Invocations /\ handle[c] \in Refs
      /\ home.turns \in Nat /\ home.turns <= 1
  BY DEF HistoryTypes, HistoryAssumption, Lone
<1>3. /\ NewestId \in Nat /\ nextId = NewestId + 1 /\ Behind \in Refs /\ Behind \in Nat
      /\ NewestId = None => Behind = None /\ Present = {}
      /\ NewestId # None => NewestId \in Present /\ Behind < NewestId /\ Behind = rows[NewestId].parent
      /\ Behind # None => Behind \in Present /\ rows[Behind].status = "completed"
  BY <1>1, EndsAre
<1>4. ASSUME TreeFits', EndsKept', FollowsNewest(inv[c], told[c], handle[c])',
             \A d \in Clients : d # c => inv'[d] = inv[d] /\ handle'[d] = handle[d]
      PROVE  TreeFits' /\ LoneInv'
  BY <1>4, AloneActs
<1>5. ASSUME rows' = rows, nextId' = nextId, pruning' = pruning, work' = work,
             FollowsNewest(inv'[c], told'[c], handle'[c]),
             \A d \in Clients : d # c => inv'[d] = inv[d] /\ handle'[d] = handle[d]
      PROVE  TreeFits' /\ LoneInv'
  <2>1. TreeFits' /\ Present' = Present
    BY <1>5, SameTree
  <2>2. EndsKept'
    BY <1>1, <1>5, <2>1 DEF EndsKept, NewestId, Behind
  <2>3. FollowsNewest(inv[c], told[c], handle[c])'
    BY <1>5 DEF FollowsNewest, Fresh, TurnsOf, NewestId, Behind
  <2> QED
    BY <1>4, <1>5, <2>1, <2>2, <2>3
<1>6. CASE ResumeBySession(c)
  <2> DEFINE s == [Closed EXCEPT !.way = "session", !.live = Max(CompletedLeaves \cup {None})]
  <2>1. /\ inv'[c] = ReadAncestor(s, SelectedLeaf) /\ handle'[c] = None /\ told'[c] = told[c]
        /\ \A d \in Clients : d # c => inv'[d] = inv[d] /\ handle'[d] = handle[d]
        /\ ~Ambiguous /\ rows' = rows /\ nextId' = nextId /\ pruning' = pruning /\ work' = work
    BY <1>6 DEF ResumeBySession, HistoryTypes
  <2>2. SelectedLeaf = NewestId
    BY <1>1, NewestIsSelected
  <2>3. home.strict => Max(CompletedLeaves \cup {None})
              = IF Leaves # {} /\ rows[SelectedLeaf].status = "completed" THEN SelectedLeaf ELSE None
    BY <2>1, OneLeaf
  <2>4. s.live = Max(CompletedLeaves \cup {None}) /\ s.index = 0 /\ s.way = "session" /\ s \in Invocations
    BY OpenTypes DEF Closed
  <2> HIDE DEF s
  <2>5. /\ inv'[c].live = s.live /\ inv'[c].index = 0 /\ inv'[c].way = "session"
        /\ inv'[c].at \in {"running", "walking"}
        /\ inv'[c].at = "running" =>
             /\ inv'[c].base = IF NewestId # None /\ rows[NewestId].status = "completed" THEN NewestId ELSE None
             /\ inv'[c].turns = TurnsOf(inv'[c].base)
             /\ NewestId # None => rows[NewestId].status = "completed" \/ Behind = None
        /\ inv'[c].at = "walking" => /\ NewestId # None /\ rows[NewestId].status # "completed"
                                     /\ Behind # None /\ inv'[c].cursor = Behind
    <3>2. CASE NewestId = None
      <4>1. inv'[c] = RunFrom(s, None)
        BY <2>1, <2>2, <3>2 DEF ReadAncestor
      <4>2. /\ inv'[c].at = "running" /\ inv'[c].base = None /\ inv'[c].turns = TurnsOf(None)
            /\ inv'[c].live = s.live /\ inv'[c].way = "session" /\ inv'[c].index = 0
        BY <2>4, <4>1, RunIs
      <4> QED
        BY <3>2, <4>2
    <3>3. CASE NewestId # None /\ rows[NewestId].status = "completed"
      <4>1. ~Absent(rows[NewestId])
        BY <3>3 DEF Absent
      <4>2. inv'[c] = RunFrom(s, NewestId)
        BY <2>1, <2>2, <3>3, <4>1 DEF ReadAncestor
      <4>3. /\ inv'[c].at = "running" /\ inv'[c].base = NewestId /\ inv'[c].turns = TurnsOf(NewestId)
            /\ inv'[c].live = s.live /\ inv'[c].way = "session" /\ inv'[c].index = 0
        BY <2>4, <4>2, RunIs
      <4> QED
        BY <3>3, <4>3
    <3>4. CASE NewestId # None /\ rows[NewestId].status # "completed" /\ Behind = None
      <4>1. ~Absent(rows[NewestId]) /\ rows[NewestId].parent = None
        BY <1>3, <3>4 DEF Present
      <4>2. inv'[c] = RunFrom(s, None)
        BY <2>1, <2>2, <3>4, <4>1 DEF ReadAncestor
      <4>3. /\ inv'[c].at = "running" /\ inv'[c].base = None /\ inv'[c].turns = TurnsOf(None)
            /\ inv'[c].live = s.live /\ inv'[c].way = "session" /\ inv'[c].index = 0
        BY <2>4, <4>2, RunIs
      <4> QED
        BY <3>4, <4>3
    <3>5. CASE NewestId # None /\ rows[NewestId].status # "completed" /\ Behind # None
      <4>1. ~Absent(rows[NewestId]) /\ rows[NewestId].parent = Behind
        BY <1>3, <3>5 DEF Present
      <4>2. inv'[c] = [s EXCEPT !.at = "walking", !.cursor = Behind]
        BY <2>1, <2>2, <3>5, <4>1 DEF ReadAncestor
      <4>3. /\ inv'[c].live = s.live /\ inv'[c].index = s.index /\ inv'[c].way = s.way
            /\ inv'[c].at = "walking" /\ inv'[c].cursor = Behind
        BY <2>4, <4>2 DEF Invocations
      <4> QED
        BY <2>4, <3>5, <4>3
    <3> QED
      BY <3>2, <3>3, <3>4, <3>5
  <2>6. /\ told[c] \subseteq TurnsOf(NewestId)
        /\ NewestId # None /\ rows[NewestId].status # "completed" => told[c] \subseteq TurnsOf(Behind)
    BY <1>1 DEF FollowsNewest
  <2>7. inv'[c].at = "running" => told[c] \subseteq inv'[c].turns
    BY <2>5, <2>6 DEF TurnsOf
  <2>8. home.strict => /\ inv'[c].at = "walking" => inv'[c].live = None
                       /\ inv'[c].at = "running" => inv'[c].live <= inv'[c].base
    BY <1>3, <2>2, <2>3, <2>4, <2>5 DEF None
  <2>9. FollowsNewest(inv'[c], told'[c], handle'[c])
    BY <2>1, <2>5, <2>6, <2>7, <2>8 DEF FollowsNewest, Fresh
  <2> QED
    BY <1>5, <2>1, <2>9
<1>7. CASE WalkBack(c)
  <2>1. /\ inv'[c] = ReadAncestor(inv[c], inv[c].cursor) /\ told'[c] = told[c] /\ handle'[c] = handle[c]
        /\ \A d \in Clients : d # c => inv'[d] = inv[d] /\ handle'[d] = handle[d]
        /\ rows' = rows /\ nextId' = nextId /\ pruning' = pruning /\ work' = work /\ inv[c].at = "walking"
    BY <1>7 DEF WalkBack, HistoryTypes
  <2>2. /\ inv[c].way = "session" /\ handle[c] = None /\ inv[c].cursor = Behind /\ Behind # None
        /\ told[c] \subseteq TurnsOf(Behind) /\ inv[c].index = 0
    BY <1>1, <2>1 DEF FollowsNewest
  <2>3. ~Absent(rows[Behind]) /\ rows[Behind].status = "completed"
    BY <1>3, <2>2 DEF Present
  <2>4. inv'[c] = RunFrom(inv[c], Behind)
    BY <2>1, <2>2, <2>3 DEF ReadAncestor
  <2>5. /\ inv'[c].at = "running" /\ inv'[c].base = Behind /\ inv'[c].turns = TurnsOf(Behind)
        /\ inv'[c].way = "session" /\ inv'[c].live = inv[c].live /\ inv'[c].index = inv[c].index
    BY <1>2, <2>2, <2>4 DEF RunFrom, TurnsOf, Invocations
  <2>6. home.strict => inv'[c].live <= inv'[c].base
    BY <1>1, <1>3, <2>1, <2>5 DEF FollowsNewest, None
  <2>7. FollowsNewest(inv'[c], told'[c], handle'[c])
    BY <1>1, <2>1, <2>2, <2>3, <2>5, <2>6 DEF FollowsNewest, Fresh
  <2> QED
    BY <1>5, <2>1, <2>7
<1>8. CASE ResumeBySnapshot(c)
  <2> DEFINE j == RunFrom([Closed EXCEPT !.way = "snapshot"], handle[c])
  <2>1. /\ inv'[c] = j /\ told'[c] = told[c] /\ handle'[c] = handle[c]
        /\ \A d \in Clients : d # c => inv'[d] = inv[d] /\ handle'[d] = handle[d]
        /\ rows' = rows /\ nextId' = nextId /\ pruning' = pruning /\ work' = work
        /\ handle[c] # None /\ rows[handle[c]].status = "completed" /\ inv[c].at = "closed"
    BY <1>8 DEF ResumeBySnapshot, HistoryTypes
  <2>2. /\ j.at = "running" /\ j.base = handle[c] /\ j.turns = TurnsOf(handle[c])
        /\ j.way = "snapshot" /\ j.index = 0
    BY <2>1 DEF RunFrom, TurnsOf, Closed
  <2> HIDE DEF j
  <2>3. FollowsNewest(j, told[c], handle[c])
    BY <1>1, <2>1, <2>2 DEF FollowsNewest, Fresh
  <2> QED
    BY <1>5, <2>1, <2>3
<1>9. ASSUME NEW outcome, CanTurn(c, outcome)
      PROVE  /\ inv[c].at = "running" /\ inv[c].index = 0 /\ nextId <= MaxIds /\ nextId' = nextId + 1
             /\ told[c] \subseteq inv[c].turns /\ handle[c] \in {None, inv[c].base}
  <2>1. /\ inv[c].at = "running" /\ inv[c].index < home.turns /\ nextId <= MaxIds /\ nextId' = nextId + 1
    BY <1>9 DEF CanTurn, TurnsEach
  <2>2. inv[c].index \in Nat /\ inv[c].index = 0
    BY <1>2, <2>1 DEF Invocations
  <2> QED
    BY <1>1, <2>1, <2>2, TurnStarts
<1>10. CASE TurnCompletes(c)
  <2>1. /\ inv'[c] = GoneOn(c, FALSE) /\ told'[c] = inv[c].turns \cup {nextId} /\ handle'[c] = handle[c]
        /\ \A d \in Clients : d # c => inv'[d] = inv[d] /\ handle'[d] = handle[d]
        /\ CanTurn(c, "completed")
        /\ Save(nextId, TurnRow(c, "completed")) /\ work' = work
    BY <1>10 DEF TurnCompletes, HistoryTypes
  <2>2. /\ inv[c].at = "running" /\ inv[c].index = 0 /\ nextId <= MaxIds /\ nextId' = nextId + 1
        /\ handle[c] \in {None, inv[c].base}
    BY <1>9, <2>1
  <2>3. /\ TreeFits' /\ EndsKept' /\ NewestId' = nextId /\ Behind' = inv[c].base
        /\ nextId # None /\ nextId # inv[c].base /\ rows'[nextId].status = "completed"
        /\ TurnsOf(NewestId)' = inv[c].turns \cup {nextId}
    BY <1>1, <2>1, <2>2, EndsMove DEF Statuses, TERMINAL_STATUSES
  <2>4. /\ inv'[c].at = "running" /\ inv'[c].base = nextId /\ inv'[c].index = 1 /\ inv'[c].failed = FALSE
    BY <1>2, <2>1, <2>2 DEF GoneOn, Invocations
  <2>5. /\ inv'[c].base = NewestId' /\ told'[c] \subseteq TurnsOf(NewestId)'
        /\ rows'[NewestId'].status = "completed" /\ handle'[c] \in {None, Behind'}
    <3>1. inv'[c].base = NewestId' /\ rows'[NewestId'].status = "completed"
      BY <2>3, <2>4
    <3>2. told'[c] \subseteq TurnsOf(NewestId)'
      BY <2>1, <2>3
    <3>3. handle'[c] \in {None, Behind'}
      BY <2>1, <2>2, <2>3
    <3> QED
      BY <3>1, <3>2, <3>3
  <2>6. FollowsNewest(inv[c], told[c], handle[c])'
    BY <2>4, <2>5, AfterTurn
  <2> QED
    BY <1>4, <2>1, <2>3, <2>6
<1>11. CASE TurnReportsFailure(c)
  <2>1. /\ inv'[c] = GoneOn(c, TRUE) /\ told'[c] = told[c] /\ handle'[c] = handle[c]
        /\ \A d \in Clients : d # c => inv'[d] = inv[d] /\ handle'[d] = handle[d]
        /\ CanTurn(c, "reported")
        /\ Save(nextId, TurnRow(c, "failed")) /\ work' = work
    BY <1>11 DEF TurnReportsFailure, HistoryTypes
  <2>2. /\ inv[c].at = "running" /\ inv[c].index = 0 /\ nextId <= MaxIds /\ nextId' = nextId + 1
        /\ told[c] \subseteq inv[c].turns /\ handle[c] \in {None, inv[c].base}
    BY <1>9, <2>1
  <2>3. /\ TreeFits' /\ EndsKept' /\ NewestId' = nextId /\ Behind' = inv[c].base
        /\ nextId # None /\ nextId # inv[c].base /\ rows'[nextId].status = "failed"
        /\ TurnsOf(NewestId)' = inv[c].turns \cup {nextId} /\ TurnsOf(Behind)' = inv[c].turns
    BY <1>1, <2>1, <2>2, EndsMove DEF Statuses, TERMINAL_STATUSES
  <2>4. /\ inv'[c].at = "running" /\ inv'[c].base = nextId /\ inv'[c].index = 1
    BY <1>2, <2>1, <2>2 DEF GoneOn, Invocations
  <2>5. /\ inv'[c].base = NewestId' /\ told'[c] \subseteq TurnsOf(NewestId)'
        /\ told'[c] \subseteq TurnsOf(Behind)' /\ handle'[c] \in {None, Behind'}
    <3>1. inv'[c].base = NewestId'
      BY <2>3, <2>4
    <3>2. told'[c] \subseteq TurnsOf(NewestId)' /\ told'[c] \subseteq TurnsOf(Behind)'
      BY <2>1, <2>2, <2>3
    <3>3. handle'[c] \in {None, Behind'}
      BY <2>1, <2>2, <2>3
    <3> QED
      BY <3>1, <3>2, <3>3
  <2>6. FollowsNewest(inv[c], told[c], handle[c])'
    BY <2>4, <2>5, AfterTurn
  <2> QED
    BY <1>4, <2>1, <2>3, <2>6
<1>12. CASE TurnRaises(c)
  <2>1. /\ inv'[c] = IF inv[c].index = 0 THEN Closed
                     ELSE [inv[c] EXCEPT !.at = "recovering", !.base = nextId]
        /\ told'[c] = told[c] /\ handle'[c] = handle[c]
        /\ \A d \in Clients : d # c => inv'[d] = inv[d] /\ handle'[d] = handle[d]
        /\ CanTurn(c, "raised")
        /\ Save(nextId, TurnRow(c, "failed")) /\ work' = work
    BY <1>12 DEF TurnRaises, HistoryTypes
  <2>2. /\ inv[c].at = "running" /\ inv[c].index = 0 /\ nextId <= MaxIds /\ nextId' = nextId + 1
        /\ told[c] \subseteq inv[c].turns /\ handle[c] \in {None, inv[c].base}
    BY <1>9, <2>1
  <2>3. /\ TreeFits' /\ EndsKept' /\ NewestId' = nextId /\ Behind' = inv[c].base
        /\ nextId # None /\ nextId # inv[c].base /\ rows'[nextId].status = "failed"
        /\ TurnsOf(NewestId)' = inv[c].turns \cup {nextId} /\ TurnsOf(Behind)' = inv[c].turns
    BY <1>1, <2>1, <2>2, EndsMove DEF Statuses, TERMINAL_STATUSES
  <2>4. inv'[c].at = "closed" /\ inv'[c].index = 0
    BY <2>1, <2>2 DEF Closed
  <2>5. FollowsNewest(inv[c], told[c], handle[c])'
    BY <2>1, <2>2, <2>3, <2>4 DEF FollowsNewest, Fresh
  <2> QED
    BY <1>4, <2>1, <2>3, <2>5
<1>13. ~Recover(c)
  BY <1>1 DEF Recover, FollowsNewest
<1>14. CASE Answer(c)
  <2>1. /\ inv'[c] = Closed /\ told'[c] = told[c]
        /\ handle'[c] = IF inv[c].failed THEN handle[c] ELSE inv[c].base
        /\ \A d \in Clients : d # c => inv'[d] = inv[d] /\ handle'[d] = handle[d]
        /\ rows' = rows /\ nextId' = nextId /\ pruning' = pruning /\ work' = work
        /\ inv[c].at = "running" /\ inv[c].index > 0
    BY <1>14 DEF Answer, HistoryTypes
  <2>2. inv[c].index = 1 /\ inv[c].base = NewestId
    <3>1. inv[c].index <= 1 /\ inv[c].index \in Nat
      BY <1>1, <1>2 DEF FollowsNewest, Invocations
    <3>2. inv[c].index = 1
      BY <2>1, <3>1
    <3> QED
      BY <1>1, <2>1, <3>2 DEF FollowsNewest
  <2>3. inv'[c].at = "closed" /\ inv'[c].index = 0
    BY <2>1 DEF Closed
  <2>4. NewestId # None => NewestId # Behind
    BY <1>3
  <2>5. handle'[c] \in {None, NewestId, Behind}
    BY <1>1, <2>1, <2>2 DEF FollowsNewest
  <2>6. handle'[c] # None /\ handle'[c] = Behind => told[c] \subseteq TurnsOf(Behind)
    <3>1. CASE inv[c].failed
      BY <1>1, <2>1, <3>1 DEF FollowsNewest
    <3>2. CASE ~inv[c].failed
      BY <2>1, <2>2, <2>4, <3>2
    <3> QED
      BY <3>1, <3>2
  <2>7. FollowsNewest(inv'[c], told'[c], handle'[c])
    BY <1>1, <2>1, <2>3, <2>5, <2>6 DEF FollowsNewest, Fresh
  <2> QED
    BY <1>5, <2>1, <2>7
<1>15. CASE Detach(c)
  <2>1. /\ inv'[c] = Closed /\ told'[c] = told[c] /\ handle'[c] = nextId
        /\ \A d \in Clients : d # c => inv'[d] = inv[d] /\ handle'[d] = handle[d]
        /\ CanTurn(c, "detached")
        /\ Save(nextId, TurnRow(c, "pending"))
        /\ work' = work \cup {[id |-> nextId, turns |-> inv[c].turns \cup {nextId}]}
    BY <1>15 DEF Detach, HistoryTypes
  <2>2. /\ inv[c].at = "running" /\ inv[c].index = 0 /\ nextId <= MaxIds /\ nextId' = nextId + 1
        /\ told[c] \subseteq inv[c].turns
    BY <1>9, <2>1
  <2>3. /\ TreeFits' /\ EndsKept' /\ NewestId' = nextId /\ Behind' = inv[c].base
        /\ nextId # None /\ nextId # inv[c].base /\ rows'[nextId].status = "pending"
        /\ TurnsOf(NewestId)' = inv[c].turns \cup {nextId} /\ TurnsOf(Behind)' = inv[c].turns
    BY <1>1, <2>1, <2>2, EndsMove DEF Statuses
  <2>4. inv'[c].at = "closed" /\ inv'[c].index = 0
    BY <2>1 DEF Closed
  <2>5. FollowsNewest(inv[c], told[c], handle[c])'
    BY <2>1, <2>2, <2>3, <2>4 DEF FollowsNewest, Fresh
  <2> QED
    BY <1>4, <2>1, <2>3, <2>5
<1> QED
  BY <1>6, <1>7, <1>8, <1>10, <1>11, <1>12, <1>13, <1>14, <1>15 DEF ClientStep

\* The rows settle or are pruned, and no client acts.
LEMMA AloneWaits ==
  ASSUME HistoryTypes, TreeFits, LoneInv, EndsKept', home' = home, nextId' = nextId,
         \A x \in {NewestId, Behind} \ {None} :
            /\ rows'[x].parent = rows[x].parent /\ rows'[x].turns = rows[x].turns
            /\ rows[x].status # "pending" => rows'[x].status = rows[x].status,
         inv' = inv, told' = told, handle' = handle
  PROVE  LoneInv'
<1>1. ASSUME NEW c \in home.clients PROVE FollowsNewest(inv[c], told[c], handle[c])'
  <2>1. FollowsNewest(inv[c], told[c], handle[c]) /\ EndsKept
    BY DEF LoneInv
  <2> QED
    BY <2>1, FollowsOn
<1> QED
  BY <1>1 DEF LoneInv

\* The rest of the steps.
LEMMA LoneOthers ==
  ASSUME HistoryAssumption, HistoryTypes, HistoryTypes', TreeFits, LoneInv, Lone(home), home' = home,
         \/ \E w \in work : Finalize(w)
         \/ \E id \in RowIds : Abort(id)
         \/ PruneNext \/ Crash
  PROVE  TreeFits' /\ LoneInv'
<1>1. EndsKept
  BY DEF LoneInv
<1>2. \A x \in {NewestId, Behind} \ {None} : x \in Present
  BY <1>1, EndsAre
<1>3. ASSUME TreeFits', EndsKept', Grown, nextId' = nextId, inv' = inv, told' = told, handle' = handle
      PROVE  TreeFits' /\ LoneInv'
  <2>1. \A x \in {NewestId, Behind} \ {None} :
            /\ rows'[x].parent = rows[x].parent /\ rows'[x].turns = rows[x].turns
            /\ rows[x].status # "pending" => rows'[x].status = rows[x].status
    BY <1>2, <1>3 DEF Grown
  <2> QED
    BY <1>3, <2>1, AloneWaits
<1>4. ASSUME NEW id \in Present, NEW r, Save(id, r), rows[id].status = "pending",
             r.status \in TERMINAL_STATUSES, r.parent = rows[id].parent, r.turns = rows[id].turns,
             nextId' = nextId, work' \subseteq work, r.status # "aborted" => \A w \in work' : w.id # id,
             inv' = inv, told' = told, handle' = handle
      PROVE  TreeFits' /\ LoneInv'
  <2>1. TreeFits' /\ EndsKept' /\ Grown
    BY <1>1, <1>4, EndsStay
  <2> QED
    BY <1>3, <1>4, <2>1
<1>5. ASSUME NEW w \in work, Finalize(w) PROVE TreeFits' /\ LoneInv'
  <2>1. /\ w.id \in Present /\ nextId' = nextId /\ work' \subseteq work
        /\ inv' = inv /\ handle' = handle /\ told' = told
        /\ \A v \in work' : v.id # w.id
    BY <1>5, FinalizeSettles
  <2>2. CASE rows' = rows /\ pruning' = pruning
    <3>1. TreeFits' /\ Present' = Present
      BY <2>1, <2>2, SameTree
    <3>2. EndsKept'
      BY <1>1, <2>1, <2>2, <3>1 DEF EndsKept, NewestId, Behind
    <3>3. Grown
      BY <2>2, <3>1 DEF Grown
    <3> QED
      BY <1>3, <2>1, <3>1, <3>2, <3>3
  <2>3. ASSUME rows[w.id].status = "pending",
               NEW r, Save(w.id, r), r.status \in {"completed", "failed"},
               r.parent = rows[w.id].parent, r.turns = rows[w.id].turns
        PROVE  TreeFits' /\ LoneInv'
    BY <1>4, <2>1, <2>3 DEF TERMINAL_STATUSES
  <2> QED
    BY <1>5, <2>2, <2>3, FinalizeSettles
<1>6. ASSUME NEW id \in RowIds, Abort(id) PROVE TreeFits' /\ LoneInv'
  <2>1. /\ id \in Present /\ rows[id].status = "pending" /\ nextId' = nextId /\ work' \subseteq work
        /\ inv' = inv /\ handle' = handle /\ told' = told
    BY <1>6, AbortSettles
  <2>2. PICK r : /\ Save(id, r) /\ r.status = "aborted"
                 /\ r.parent = rows[id].parent /\ r.turns = rows[id].turns
    BY <1>6, AbortSettles
  <2>3. r.status \in TERMINAL_STATUSES
    BY <2>2 DEF TERMINAL_STATUSES
  <2> QED
    BY <1>4, <2>1, <2>2, <2>3
<1>7. CASE PruneNext
  <2>1. /\ TreeFits' /\ pruning' \subseteq pruning
        /\ \A x \in Present \ pruning : x \in Present' /\ rows'[x] = rows[x]
        /\ \A x \in Present' : x \in Present /\ rows'[x] = rows[x]
    BY <1>7, PruneFits
  <2>2. nextId' = nextId /\ inv' = inv /\ told' = told /\ handle' = handle
    BY <1>7 DEF PruneNext
  <2>3. \A x \in {NewestId, Behind} \ {None} : x \in Present' /\ rows'[x] = rows[x]
    BY <1>1, <1>2, <2>1 DEF EndsKept
  <2>4. NewestId' = NewestId /\ Behind' = Behind
    BY <2>2, <2>3 DEF NewestId, Behind
  <2>5. Behind # None => NewestId # None
    BY <1>1, EndsAre
  <2>6. Behind # None => \A x \in Present' : rows'[x].parent \in Present' => rows'[rows'[x].parent].parent # Behind
    BY <1>1, <2>1 DEF EndsKept
  <2>7. EndsKept'
    BY <1>1, <2>1, <2>3, <2>4, <2>5, <2>6 DEF EndsKept
  <2> QED
    BY <2>1, <2>2, <2>3, <2>7, AloneWaits
<1>8. CASE Crash
  <2>1. /\ rows' = rows /\ nextId' = nextId /\ told' = told /\ pruning' = {} /\ work' = {}
        /\ \A c \in Clients : inv'[c] = Closed /\ handle'[c] = None
    BY <1>8 DEF Crash
  <2>2. TreeFits' /\ Present' = Present
    BY <2>1, SameTree
  <2>3. EndsKept'
    BY <1>1, <2>1, <2>2 DEF EndsKept, NewestId, Behind
  <2>4. home.clients \subseteq Clients
    BY DEF HistoryTypes, HistoryAssumption
  <2>5. ASSUME NEW c \in home.clients PROVE FollowsNewest(inv[c], told[c], handle[c])'
    <3>1. FollowsNewest(inv[c], told[c], handle[c])
      BY DEF LoneInv
    <3>2. inv'[c].at = "closed" /\ inv'[c].index = 0 /\ handle'[c] = None /\ told'[c] = told[c]
      BY <2>1, <2>4 DEF Closed
    <3> QED
      BY <2>1, <3>1, <3>2 DEF FollowsNewest, Fresh, TurnsOf, NewestId, Behind
  <2> QED
    BY <2>1, <2>2, <2>3, <2>5 DEF LoneInv
<1> QED
  BY <1>5, <1>6, <1>7, <1>8

-----------------------------------------------------------------------------
(* The theorem *)

\* An empty session is as it has to be.
LEMMA HistoryStarts ==
  ASSUME HistoryAssumption, KeptSafe, HistoryInit
  PROVE  HistoryTypes /\ HistoryInv
<1>1. Present = {} /\ NewestId = None /\ Behind = None
  BY DEF HistoryInit, Present, NoSnapshot, Absent, NewestId, Behind, None
<1>2. HistoryTypes
  <2>1. NoSnapshot \in Snapshots /\ None \in Refs /\ 1 \in 1..(MaxIds + 1)
    BY DEF NoSnapshot, Snapshots, Refs, None, HistoryAssumption
  <2> QED
    BY <2>1, ClosedTypes DEF HistoryInit, HistoryTypes
<1>3. TreeFits
  BY <1>1 DEF HistoryInit, TreeFits
<1>4. RefusesInv
  <2>1. Present = 1..NewestId
    BY <1>1 DEF None
  <2>2. \A c \in Clients : KeepsTold(inv[c], told[c], handle[c])
    BY DEF HistoryInit, KeepsTold, Closed, Fresh
  <2> QED
    BY <1>1, <2>1, <2>2 DEF HistoryInit, RefusesInv, RefusesRows
<1>5. LoneInv
  <2>1. EndsKept
    BY <1>1 DEF HistoryInit, EndsKept
  <2>2. home.clients \subseteq Clients
    BY <1>2 DEF HistoryTypes, HistoryAssumption
  <2>3. \A c \in Clients : inv[c] = Closed /\ handle[c] = None /\ told[c] = {}
    BY DEF HistoryInit
  <2>4. \A c \in home.clients : FollowsNewest(inv[c], told[c], handle[c])
    BY <1>1, <2>2, <2>3 DEF FollowsNewest, Closed, Fresh
  <2> QED
    BY <2>1, <2>3, <2>4 DEF LoneInv
<1> QED
  BY <1>2, <1>3, <1>4, <1>5 DEF HistoryInv

\* Every step of a session keeps what the theorem rests on.
LEMMA HistoryStep ==
  ASSUME HistoryAssumption, KeptSafe, HistoryTypes, HistoryInv, [HistoryNext]_historyVars
  PROVE  HistoryTypes' /\ HistoryInv'
<1>1. HistoryTypes'
  BY TypesStep
<1>2. home' = home /\ home \in Stores /\ home.clients \subseteq Clients /\ TreeFits
  BY DEF HistoryAssumption, HistoryTypes, HistoryNext, historyVars, HistoryInv
<1>3. CASE UNCHANGED historyVars
  BY <1>1, <1>3 DEF historyVars, HistoryInv, TreeFits, RefusesInv, RefusesRows, KeepsTold, Family, Trail, LoneInv,
       EndsKept, FollowsNewest, Present, NewestId, Behind, TurnsOf, Fresh, Ended
<1>4. CASE HistoryNext /\ Refuses(home)
  <2>1. RefusesInv
    BY <1>4 DEF HistoryInv
  <2>2. TreeFits' /\ RefusesInv'
    <3>1. ASSUME NEW c \in home.clients, ClientStep(c) PROVE TreeFits' /\ RefusesInv'
      BY <1>1, <1>2, <1>4, <2>1, <3>1, RefusesClient
    <3>2. CASE \/ \E w \in work : Finalize(w)
               \/ \E id \in RowIds : Abort(id)
               \/ PruneNext \/ Crash
      BY <1>1, <1>2, <1>4, <2>1, <3>2, RefusesOthers
    <3> QED
      BY <1>4, <3>1, <3>2 DEF HistoryNext
  <2> QED
    BY <1>1, <1>2, <1>4, <2>2 DEF HistoryInv
<1>5. CASE HistoryNext /\ ~Refuses(home)
  <2>1. LoneInv /\ Lone(home)
    BY <1>2, <1>5 DEF HistoryInv, KeptSafe
  <2>2. TreeFits' /\ LoneInv'
    <3>1. ASSUME NEW c \in home.clients, ClientStep(c) PROVE TreeFits' /\ LoneInv'
      BY <1>1, <1>2, <2>1, <3>1, LoneClient
    <3>2. CASE \/ \E w \in work : Finalize(w)
               \/ \E id \in RowIds : Abort(id)
               \/ PruneNext \/ Crash
      BY <1>1, <1>2, <2>1, <3>2, LoneOthers
    <3> QED
      BY <1>5, <3>1, <3>2 DEF HistoryNext
  <2> QED
    BY <1>1, <1>2, <1>5, <2>2 DEF HistoryInv
<1> QED
  BY <1>3, <1>4, <1>5

\* What is kept says where a resumed conversation stands.
LEMMA HistoryHolds ==
  ASSUME HistoryAssumption, KeptSafe, HistoryTypes, HistoryInv
  PROVE  ResumeFindsConversation
<1>1. home \in Stores /\ TreeFits
  BY DEF HistoryTypes, HistoryInv
<1>2. CASE Refuses(home)
  <2>1. \A c \in Clients : KeepsTold(inv[c], told[c], handle[c])
    BY <1>2 DEF HistoryInv, RefusesInv
  <2>2. \A c \in Clients : JustResumed(c) => told[c] \subseteq inv[c].turns /\ inv[c].live <= inv[c].base
    BY <2>1 DEF KeepsTold, Fresh, JustResumed
  <2>3. \A c \in Clients : handle[c] # None => ~Absent(rows[handle[c]])
    BY <2>1 DEF KeepsTold, Present
  <2>4. \A c \in Clients : inv[c].live <= inv[c].base => inv[c].base >= inv[c].live
    BY DEF HistoryTypes, Invocations, Refs, RowIds, None
  <2> QED
    BY <2>2, <2>3, <2>4 DEF ResumeFindsConversation, ConversationKept, LiveBranchWins, HandleSurvives
<1>3. CASE ~Refuses(home)
  <2>1. /\ EndsKept
        /\ \A c \in home.clients : FollowsNewest(inv[c], told[c], handle[c])
        /\ \A c \in Clients \ home.clients : inv[c] = Closed /\ handle[c] = None
    BY <1>3 DEF HistoryInv, LoneInv
  <2>2. ASSUME NEW c \in Clients
        PROVE  /\ JustResumed(c) => /\ told[c] \subseteq inv[c].turns
                                    /\ home.strict => inv[c].live <= inv[c].base
               /\ handle[c] # None => ~Absent(rows[handle[c]])
    <3>1. CASE c \in home.clients
      <4>1. FollowsNewest(inv[c], told[c], handle[c])
        BY <2>1, <3>1
      <4>2. \A x \in {NewestId, Behind} : x # None => ~Absent(rows[x])
        BY <2>1, <1>1, EndsAre DEF Present
      <4> QED
        BY <4>1, <4>2 DEF FollowsNewest, Fresh, JustResumed
    <3>2. CASE c \notin home.clients
      BY <2>1, <3>2 DEF Closed, JustResumed
    <3> QED
      BY <3>1, <3>2
  <2>3. \A c \in Clients : inv[c].live <= inv[c].base => inv[c].base >= inv[c].live
    BY DEF HistoryTypes, Invocations, Refs, RowIds, None
  <2> QED
    BY <2>2, <2>3 DEF ResumeFindsConversation, ConversationKept, LiveBranchWins, HandleSurvives, RejectAmbiguous
<1> QED
  BY <1>2, <1>3

\* A conversation that is resumed by its session id contains every turn its client
\* was told is completed, is on the live branch where branches are refused, and the
\* row a chat resumes from is never pruned: when the store refuses to choose between
\* branches and prunes nothing, or the client is alone and the store keeps two rows.
THEOREM ResumeFindsConversationHolds ==
  ASSUME KeptSafe
  PROVE  HistorySpec => []ResumeFindsConversation
<1>1. HistoryInit => HistoryTypes /\ HistoryInv
  BY HistoryAssumption, HistoryStarts
<1>2. (HistoryTypes /\ HistoryInv) /\ [HistoryNext]_historyVars => (HistoryTypes /\ HistoryInv)'
  BY HistoryAssumption, HistoryStep
<1>3. HistoryTypes /\ HistoryInv => ResumeFindsConversation
  BY HistoryAssumption, HistoryHolds
<1> QED
  BY <1>1, <1>2, <1>3, PTL DEF HistorySpec
================================================================================
