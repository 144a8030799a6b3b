---------------------- MODULE FirestoreSessionStore_proofs ----------------------
(***************************************************************************)
(* Proofs about the Firestore store, for any number of rows, sessions,     *)
(* parts, aborting coroutines, attempts and saves: a patch leads from the  *)
(* state it was made of to the one it was made for, and one caller at most *)
(* is told that it aborted a turn, whatever other writers commit between   *)
(* the attempts of its transaction.  A row that is spread over a           *)
(* checkpoint, its shards, diffs and a pointer reads back as it was saved, *)
(* where a row keeps its session.  And about its status streams, for any   *)
(* number of subscriptions, event loops and writes: each subscriber hears  *)
(* the row in order and to its end, and no listener is left behind.        *)
(***************************************************************************)
EXTENDS FirestoreSessionStore, FirestoreWatch, FiniteSetTheorems, WellFoundedInduction, TLAPS

-----------------------------------------------------------------------------
(* Patches *)

\* diff_json and apply_json_patch are inverse: a diff row whose parent still
\* holds the state it was made of reads back as the state that was saved.
THEOREM PatchRoundTrip ==
  ASSUME NEW from, NEW to
  PROVE  apply_json_patch(from, diff_json({from}, to)) = to
<1>1. (CHOOSE state \in {from} : TRUE) = from
  OBVIOUS
<1>2. diff_json({from}, to) = [whole |-> FALSE, add |-> to \ from, drop |-> from \ to]
  BY <1>1 DEF diff_json
<1>3. apply_json_patch(from, diff_json({from}, to)) = (from \ (from \ to)) \cup (to \ from)
  BY <1>2 DEF apply_json_patch
<1>4. (from \ (from \ to)) \cup (to \ from) = to
  OBVIOUS
<1> QED
  BY <1>3, <1>4

-----------------------------------------------------------------------------
(* What a committed transaction does to a row *)

\* The statuses a row can have, and the attempts an aborter can have under way.
StatusTyped ==
  \A id \in Ids : /\ docs[id].status \in Statuses \cup {"absent"}
                  /\ Exists(id) <=> docs[id].status # "absent"

Attempt == [pc : {"open"}, id : Ids, tries : Nat, contended : BOOLEAN,
            previous : Statuses \cup {"none"}]
Resting == {[pc |-> "idle"], [pc |-> "done"]}

Typed ==
  /\ DOMAIN docs = Ids
  /\ docs = [id \in Ids |-> docs[id]]
  /\ StatusTyped
  /\ attempts \in [Aborters -> Attempt \cup Resting]
  /\ claims \in [Ids -> Nat]

\* An attempt that has not lost recorded the status its row has.
RecordedStatusHolds ==
  \A c \in Aborters :
    (attempts[c].pc = "open" /\ ~attempts[c].contended /\ Exists(attempts[c].id))
      => attempts[c].previous = docs[attempts[c].id].status

AInv == Typed /\ RecordedStatusHolds /\ AbortAnswersOnce

\* What is written is a checkpoint or a diff.
LEMMA MetaKinds ==
  ASSUME NEW id, NEW existing, NEW next, NEW interval,
         NEW meta \in Metas(id, existing, next, interval)
  PROVE  meta.kind \in {"checkpoint", "diff"}
<1>1. \A i, state : CheckpointMeta(i, state).kind = "checkpoint"
  BY DEF CheckpointMeta
<1>2. \A i, chain, from, state : DiffMeta(i, chain, from, state).kind \in {"checkpoint", "diff"}
  BY <1>1 DEF DiffMeta
<1>3. CASE Exists(id)
  <2>1. meta \in UpsertMeta(id, existing, next)
    BY <1>3 DEF Metas
  <2> QED
    BY <2>1, <1>1, <1>2 DEF UpsertMeta
<1>4. CASE ~Exists(id)
  <2>1. meta \in CreateMeta(id, next, interval)
    BY <1>4 DEF Metas
  <2>2. \A chain : \A m \in DiffOnParent(id, chain, next) : m.kind \in {"checkpoint", "diff"}
    BY <1>2 DEF DiffOnParent
  <2> QED
    BY <2>1, <2>2, <1>1 DEF CreateMeta
<1> QED
  BY <1>3, <1>4

\* A read answers the status the document holds.
LEMMA ReadStatus ==
  ASSUME StatusTyped, NEW id \in Ids, NEW existing \in get_snapshot(id)
  PROVE  existing.status = docs[id].status
<1>1. CASE Exists(id)
  BY <1>1 DEF get_snapshot, RowWith
<1>2. CASE ~Exists(id)
  BY <1>2 DEF get_snapshot, NoRow, StatusTyped
<1> QED
  BY <1>1, <1>2

\* apply_save keeps a terminal status and takes the status from the mutator's row.
LEMMA ApplySaveStatus ==
  ASSUME NEW existing, NEW produced, NEW next \in apply_save(existing, produced)
  PROVE  /\ existing.status \in TERMINAL_STATUSES => next.status = existing.status
         /\ \E made \in produced : next.status = made.status
<1>1. PICK made \in produced : ~Refused(existing, made) /\ next = stamp_store_fields(made)
  BY DEF apply_save
<1>2. next.status = made.status
  BY <1>1 DEF stamp_store_fields
<1> QED
  BY <1>1, <1>2 DEF Refused, TerminalFlip

\* A committed save changes one row; the row keeps a terminal status and else
\* takes one its mutator produced.
LEMMA CommitStatus ==
  ASSUME Typed, NEW id \in Ids, NEW existing \in get_snapshot(id), NEW produced,
         \A made \in produced : made.status \in Statuses,
         Committed(id, existing, produced)
  PROVE  /\ DOMAIN docs' = Ids
         /\ docs' = [i \in Ids |-> docs'[i]]
         /\ StatusTyped'
         /\ \A i \in Ids : i # id => docs'[i] = docs[i]
         /\ docs[id].status \in TERMINAL_STATUSES => docs'[id].status = docs[id].status
         /\ \E made \in produced : docs'[id].status = made.status
<1>1. PICK next \in apply_save(existing, produced), interval \in Intervals :
        \E meta \in Metas(id, existing, next, interval) :
          docs' = [docs EXCEPT ![id] =
            [kind |-> meta.kind, status |-> next.status, owner |-> next.owner,
             parent |-> next.parent, chain |-> meta.chain, patch |-> meta.patch]]
  BY DEF Committed
<1>2. PICK meta \in Metas(id, existing, next, interval) :
          docs' = [docs EXCEPT ![id] =
            [kind |-> meta.kind, status |-> next.status, owner |-> next.owner,
             parent |-> next.parent, chain |-> meta.chain, patch |-> meta.patch]]
  BY <1>1
<1>3. meta.kind \in {"checkpoint", "diff"}
  BY MetaKinds
<1>4. /\ existing.status \in TERMINAL_STATUSES => next.status = existing.status
      /\ \E made \in produced : next.status = made.status
  BY ApplySaveStatus
<1>5. existing.status = docs[id].status
  BY ReadStatus DEF Typed
<1>6. /\ docs'[id].status = next.status
      /\ docs'[id].kind = meta.kind
      /\ DOMAIN docs' = Ids
      /\ docs' = [i \in Ids |-> docs'[i]]
      /\ \A i \in Ids : i # id => docs'[i] = docs[i]
  BY <1>2 DEF Typed
<1>7. next.status \in Statuses
  BY <1>4
<1>8. StatusTyped'
  <2> SUFFICES ASSUME NEW i \in Ids
               PROVE  /\ docs'[i].status \in Statuses \cup {"absent"}
                      /\ docs'[i].kind # "none" <=> docs'[i].status # "absent"
    BY DEF StatusTyped, Exists
  <2>1. CASE i = id
    BY <2>1, <1>3, <1>6, <1>7 DEF Statuses, TERMINAL_STATUSES
  <2>2. CASE i # id
    BY <2>2, <1>6 DEF Typed, StatusTyped, Exists
  <2> QED
    BY <2>1, <2>2
<1> QED
  BY <1>4, <1>5, <1>6, <1>8

-----------------------------------------------------------------------------
(* Attempts under way *)

\* What an attempt reads begins with the document of its row.
LEMMA ReadSetDoc ==
  ASSUME NEW id \in Ids, ReadSet(id)' = ReadSet(id)
  PROVE  docs'[id] = docs[id]
<1> DEFINE chain == docs[id].chain
           rest == IF Exists(id)
                     THEN <<shards[chain.checkpoint],
                            [i \in ToSet(chain.path) \cup {chain.checkpoint} |-> docs[i]],
                            pointers[docs[id].owner]>>
                     ELSE <<>>
<1>1. ReadSet(id) = <<docs[id], rest>>
  BY DEF ReadSet
<1>2. ReadSet(id)' = <<docs'[id], rest'>>
  BY DEF ReadSet
<1> HIDE DEF rest
<1>3. <<docs'[id], rest'>> = <<docs[id], rest>>
  BY <1>1, <1>2
<1> QED
  BY <1>3

\* The attempts that are open and have not lost after another writer's step are
\* those whose row that step left alone.
LEMMA ContendKeeps ==
  ASSUME Typed, NEW others \in SUBSET Aborters
  PROVE  /\ Contend(others) \in [Aborters -> Attempt \cup Resting]
         /\ \A c \in others :
              LET a == Contend(others)[c] IN
              (a.pc = "open" /\ ~a.contended) =>
                 /\ a = attempts[c]
                 /\ docs'[a.id] = docs[a.id]
<1> DEFINE Changed == {id \in Ids : ReadSet(id)' # ReadSet(id)}
           Hit(c) == attempts[c].pc = "open" /\ c \in others /\ attempts[c].id \in Changed
           Lost(c) == [attempts[c] EXCEPT !.contended = TRUE]
<1>1. Contend(others) = [c \in Aborters |-> IF Hit(c) THEN Lost(c) ELSE attempts[c]]
  BY DEF Contend
<1>2. \A c \in Aborters : attempts[c] \in Attempt \cup Resting
  BY DEF Typed
<1>3. \A c \in Aborters : attempts[c].pc = "open" => attempts[c] \in Attempt
  BY <1>2 DEF Resting
<1>4. \A c \in Aborters : Hit(c) => Lost(c) \in Attempt /\ Lost(c).contended
  <2> SUFFICES ASSUME NEW c \in Aborters, Hit(c)
               PROVE  Lost(c) \in Attempt /\ Lost(c).contended
    OBVIOUS
  <2>1. attempts[c] \in Attempt
    BY <1>3
  <2> HIDE DEF Hit
  <2> QED
    BY <2>1 DEF Attempt
<1>5. \A id \in Ids : id \notin Changed => docs'[id] = docs[id]
  BY ReadSetDoc
<1> HIDE DEF Changed, Lost
<1>6. Contend(others) \in [Aborters -> Attempt \cup Resting]
  BY <1>1, <1>2, <1>4
<1>7. ASSUME NEW c \in others, Contend(others)[c].pc = "open", ~Contend(others)[c].contended
      PROVE  /\ Contend(others)[c] = attempts[c]
             /\ docs'[Contend(others)[c].id] = docs[Contend(others)[c].id]
  <2>1. c \in Aborters
    OBVIOUS
  <2>2. ~Hit(c)
    BY <1>1, <1>4, <1>7, <2>1
  <2>3. Contend(others)[c] = attempts[c]
    BY <1>1, <2>1, <2>2
  <2>4. attempts[c].pc = "open" /\ attempts[c].id \in Ids
    BY <1>3, <1>7, <2>1, <2>3 DEF Attempt
  <2>5. attempts[c].id \notin Changed
    BY <2>2, <2>4
  <2> QED
    BY <2>3, <2>4, <2>5, <1>5
<1> QED
  BY <1>6, <1>7

-----------------------------------------------------------------------------
(* The invariant *)

\* No abort has begun and no row exists.
LEMMA InitAInv == Init => AInv
<1> SUFFICES ASSUME Init PROVE AInv
  OBVIOUS
<1>1. Typed
  BY DEF Init, Typed, StatusTyped, Exists, NoDoc, Resting, Statuses, TERMINAL_STATUSES
<1>2. RecordedStatusHolds
  BY DEF Init, RecordedStatusHolds
<1>3. AbortAnswersOnce
  BY DEF Init, AbortAnswersOnce
<1> QED
  BY <1>1, <1>2, <1>3 DEF AInv

\* A committed save that answers no abort: it keeps the status of an aborted row,
\* and the attempts it does not make lose recorded a status that still holds.
LEMMA SaveKeepsAInv ==
  ASSUME AInv, NEW id \in Ids, NEW existing \in get_snapshot(id), NEW produced,
         \A made \in produced : made.status \in Statuses,
         Committed(id, existing, produced),
         attempts' = Contend(Aborters), claims' = claims
  PROVE  AInv'
<1> USE DEF AInv
<1>1. /\ DOMAIN docs' = Ids
      /\ docs' = [i \in Ids |-> docs'[i]]
      /\ StatusTyped'
      /\ \A i \in Ids : i # id => docs'[i] = docs[i]
      /\ docs[id].status \in TERMINAL_STATUSES => docs'[id].status = docs[id].status
  BY CommitStatus
<1>2. /\ attempts' \in [Aborters -> Attempt \cup Resting]
      /\ \A c \in Aborters : (attempts'[c].pc = "open" /\ ~attempts'[c].contended) =>
           attempts'[c] = attempts[c] /\ docs'[attempts'[c].id] = docs[attempts'[c].id]
  BY ContendKeeps
<1>3. Typed'
  BY <1>1, <1>2 DEF Typed
<1>4. RecordedStatusHolds'
  BY <1>2 DEF RecordedStatusHolds, Exists
<1>5. AbortAnswersOnce'
  BY <1>1 DEF AbortAnswersOnce, TERMINAL_STATUSES
<1> QED
  BY <1>3, <1>4, <1>5

\* The attempt that commits the aborted row found it pending, so nobody was
\* answered before; nobody will be after, for the row is aborted now.
LEMMA CommitAbortKeepsAInv ==
  ASSUME AInv, NEW c \in Aborters, CommitAbort(c)
  PROVE  AInv'
<1> USE DEF AInv
<1> DEFINE id == attempts[c].id
<1>1. attempts[c] \in Attempt /\ id \in Ids
  BY DEF CommitAbort, Typed, Attempt, Resting
<1>2. PICK existing \in get_snapshot(id) : Committed(id, existing, abort_if_pending(existing))
  BY DEF CommitAbort
<1>3. existing.status = docs[id].status
  BY <1>1, ReadStatus DEF Typed
<1>4. \A made \in abort_if_pending(existing) : existing.status = "pending" /\ made.status = "aborted"
  BY DEF abort_if_pending, get_snapshot, RowWith, NoRow
<1>5. /\ DOMAIN docs' = Ids
      /\ docs' = [i \in Ids |-> docs'[i]]
      /\ StatusTyped'
      /\ \A i \in Ids : i # id => docs'[i] = docs[i]
      /\ \E made \in abort_if_pending(existing) : docs'[id].status = made.status
  <2>1. \A made \in abort_if_pending(existing) : made.status \in Statuses
    BY <1>4 DEF Statuses, TERMINAL_STATUSES
  <2> QED
    BY <1>1, <1>2, <2>1, CommitStatus
<1>6. docs[id].status = "pending" /\ docs'[id].status = "aborted"
  BY <1>3, <1>4, <1>5
<1>7. attempts' = [Contend(Aborters \ {c}) EXCEPT ![c] = [pc |-> "done"]]
  BY DEF CommitAbort
<1>8. /\ Contend(Aborters \ {c}) \in [Aborters -> Attempt \cup Resting]
      /\ \A d \in Aborters \ {c} :
           LET a == Contend(Aborters \ {c})[d] IN
           (a.pc = "open" /\ ~a.contended) => a = attempts[d] /\ docs'[a.id] = docs[a.id]
  BY ContendKeeps
<1>9. attempts' \in [Aborters -> Attempt \cup Resting]
  BY <1>7, <1>8 DEF Resting
<1>10. claims[id] = 0
  BY <1>1, <1>6 DEF AbortAnswersOnce, Typed
<1>11. claims' \in [Ids -> Nat] /\ claims'[id] <= 1 /\ \A i \in Ids : i # id => claims'[i] = claims[i]
  BY <1>1, <1>10 DEF CommitAbort, Claim, Typed
<1>12. Typed'
  BY <1>5, <1>9, <1>11 DEF Typed
<1>13. RecordedStatusHolds'
  <2> SUFFICES ASSUME NEW d \in Aborters, attempts'[d].pc = "open", ~attempts'[d].contended,
                      docs'[attempts'[d].id].kind # "none"
               PROVE  attempts'[d].previous = docs'[attempts'[d].id].status
    BY DEF RecordedStatusHolds, Exists
  <2>1. d # c
    BY <1>7, <1>8
  <2>2. attempts'[d] = Contend(Aborters \ {c})[d]
    BY <1>7, <1>8, <2>1
  <2>3. attempts'[d] = attempts[d] /\ docs'[attempts'[d].id] = docs[attempts'[d].id]
    BY <1>8, <2>1, <2>2
  <2> QED
    BY <2>3 DEF RecordedStatusHolds, Exists
<1>14. AbortAnswersOnce'
  BY <1>5, <1>6, <1>11 DEF AbortAnswersOnce
<1> QED
  BY <1>12, <1>13, <1>14

\* Steps that leave the documents alone keep the invariant when they keep what an
\* attempt recorded true and answer nobody.
LEMMA AttemptKeepsAInv ==
  ASSUME AInv, docs' = docs, claims' = claims,
         attempts' \in [Aborters -> Attempt \cup Resting],
         \A c \in Aborters : attempts'[c] # attempts[c] /\ attempts'[c].pc = "open" /\ Exists(attempts'[c].id)
                               => attempts'[c].previous = docs[attempts'[c].id].status
  PROVE  AInv'
<1>1. Typed'
  BY DEF AInv, Typed, StatusTyped, Exists
<1>2. RecordedStatusHolds'
  BY DEF AInv, RecordedStatusHolds, Exists
<1>3. AbortAnswersOnce'
  BY DEF AInv, AbortAnswersOnce
<1> QED
  BY <1>1, <1>2, <1>3 DEF AInv

\* Every step keeps the invariant.
LEMMA NextAInv == AInv /\ [Next]_vars => AInv'
<1> SUFFICES ASSUME AInv, [Next]_vars PROVE AInv'
  OBVIOUS
<1>t. \A c \in Aborters : attempts[c].pc = "open" => attempts[c] \in Attempt /\ attempts[c].id \in Ids
  BY DEF AInv, Typed, Attempt, Resting
<1>r. \A id, statuses : \A made \in NewRows(id, statuses) : made.status \in statuses
  BY DEF NewRows
<1>1. ASSUME NEW id \in Ids, SaveTurn(id) PROVE AInv'
  <2>1. PICK existing \in get_snapshot(id), made \in NewRows(id, {"completed"}) :
          Committed(id, existing, UnlessAborted(existing, made))
    BY <1>1 DEF SaveTurn
  <2>2. \A snap \in UnlessAborted(existing, made) : snap.status \in Statuses
    BY <1>r DEF UnlessAborted, Statuses, TERMINAL_STATUSES
  <2> QED
    BY <1>1, <2>1, <2>2, SaveKeepsAInv DEF SaveTurn
<1>2. ASSUME NEW id \in Ids, SavePending(id) PROVE AInv'
  <2>1. PICK existing \in get_snapshot(id), made \in NewRows(id, {"pending"}) :
          Committed(id, existing, {made})
    BY <1>2 DEF SavePending
  <2>2. \A snap \in {made} : snap.status \in Statuses
    BY <1>r DEF Statuses
  <2> QED
    BY <1>2, <2>1, <2>2, SaveKeepsAInv DEF SavePending
<1>3. ASSUME NEW id \in Ids, Heartbeat(id) PROVE AInv'
  <2>1. PICK existing \in get_snapshot(id) : Committed(id, existing, {existing})
    BY <1>3 DEF Heartbeat
  <2>2. \A snap \in {existing} : snap.status \in Statuses
    BY <1>3, ReadStatus DEF Heartbeat, AInv, Typed, Statuses
  <2> QED
    BY <1>3, <2>1, <2>2, SaveKeepsAInv DEF Heartbeat
<1>4. ASSUME NEW c \in Aborters, NEW id \in Ids, BeginAbort(c, id) PROVE AInv'
  <2> DEFINE new == [pc |-> "open", id |-> id, tries |-> 1, contended |-> FALSE,
                     previous |-> Recorded(id, "none")]
  <2>1. Recorded(id, "none") \in Statuses \cup {"none"}
    BY DEF Recorded, Exists, AInv, Typed, StatusTyped
  <2>2. attempts' = [attempts EXCEPT ![c] = new]
    BY <1>4 DEF BeginAbort
  <2>3. new \in Attempt
    BY <2>1 DEF Attempt
  <2>4. attempts' \in [Aborters -> Attempt \cup Resting]
    BY <2>2, <2>3 DEF AInv, Typed
  <2>5. Exists(id) => new.previous = docs[id].status
    BY DEF Recorded
  <2>6. \A d \in Aborters : attempts'[d] # attempts[d] => attempts'[d] = new
    BY <2>2 DEF AInv, Typed
  <2> QED
    BY <1>4, <2>4, <2>5, <2>6, AttemptKeepsAInv DEF BeginAbort, documents
<1>5. ASSUME NEW c \in Aborters, RetryAbort(c) PROVE AInv'
  <2> DEFINE a == attempts[c]
             new == [a EXCEPT !.tries = @ + 1, !.contended = FALSE,
                              !.previous = Recorded(a.id, @)]
  <2>1. a \in Attempt /\ a.id \in Ids
    BY <1>5, <1>t DEF RetryAbort
  <2>2. Recorded(a.id, a.previous) \in Statuses \cup {"none"}
    BY <2>1 DEF Recorded, Exists, AInv, Typed, StatusTyped, Attempt
  <2>3. attempts' = [attempts EXCEPT ![c] = new]
    BY <1>5, <2>1 DEF RetryAbort, AInv, Typed
  <2>4. /\ new \in Attempt
        /\ new.id = a.id
        /\ new.previous = Recorded(a.id, a.previous)
    <3>1. ASSUME NEW x \in Attempt, NEW p \in Statuses \cup {"none"}
          PROVE  /\ [x EXCEPT !.tries = @ + 1, !.contended = FALSE, !.previous = p] \in Attempt
                 /\ [x EXCEPT !.tries = @ + 1, !.contended = FALSE, !.previous = p].id = x.id
                 /\ [x EXCEPT !.tries = @ + 1, !.contended = FALSE, !.previous = p].previous = p
      <4> DEFINE x1 == [x EXCEPT !.tries = @ + 1]
                 x2 == [x1 EXCEPT !.contended = FALSE]
                 x3 == [x2 EXCEPT !.previous = p]
      <4>1. x1 \in Attempt /\ x1.id = x.id
        BY DEF Attempt
      <4>2. x2 \in Attempt /\ x2.id = x1.id
        <5> HIDE DEF x1
        <5> QED
          BY <4>1 DEF Attempt
      <4>3. x3 \in Attempt /\ x3.id = x2.id /\ x3.previous = p
        <5> HIDE DEF x2
        <5> QED
          BY <4>2 DEF Attempt
      <4>4. x3 = [x EXCEPT !.tries = @ + 1, !.contended = FALSE, !.previous = p]
        BY DEF Attempt
      <4> QED
        BY <4>1, <4>2, <4>3, <4>4
    <3>2. new = [a EXCEPT !.tries = @ + 1, !.contended = FALSE, !.previous = Recorded(a.id, a.previous)]
      BY <2>1 DEF Attempt
    <3> QED
      BY <2>1, <2>2, <3>1, <3>2
  <2>5. attempts' \in [Aborters -> Attempt \cup Resting]
    BY <2>3, <2>4 DEF AInv, Typed
  <2>6. \A d \in Aborters : attempts'[d] # attempts[d] => attempts'[d] = new
    BY <2>3 DEF AInv, Typed
  <2>7. Exists(new.id) => new.previous = docs[new.id].status
    BY <2>4 DEF Recorded
  <2> QED
    BY <1>5, <2>5, <2>6, <2>7, AttemptKeepsAInv DEF RetryAbort, documents
<1>6. ASSUME NEW c \in Aborters, GiveUpAbort(c) PROVE AInv'
  <2>1. attempts' \in [Aborters -> Attempt \cup Resting]
    BY <1>6 DEF GiveUpAbort, AInv, Typed, Resting
  <2>2. \A d \in Aborters : attempts'[d] # attempts[d] => attempts'[d].pc = "done"
    BY <1>6 DEF GiveUpAbort, AInv, Typed
  <2> QED
    BY <1>6, <2>1, <2>2, AttemptKeepsAInv DEF GiveUpAbort, documents
<1>7. ASSUME NEW c \in Aborters, CommitAbort(c) PROVE AInv'
  BY <1>7, CommitAbortKeepsAInv
<1>8. ASSUME NEW c \in Aborters, SkipAbort(c) PROVE AInv'
  <2>1. attempts[c].previous # "pending" \/ ~Exists(attempts[c].id)
    BY <1>8 DEF SkipAbort, AInv, RecordedStatusHolds
  <2>2. claims' = claims
    BY <1>8, <2>1 DEF SkipAbort, Claim, AInv, Typed
  <2>3. attempts' \in [Aborters -> Attempt \cup Resting]
    BY <1>8 DEF SkipAbort, AInv, Typed, Resting
  <2>4. \A d \in Aborters : attempts'[d] # attempts[d] => attempts'[d].pc = "done"
    BY <1>8 DEF SkipAbort, AInv, Typed
  <2> QED
    BY <1>8, <2>2, <2>3, <2>4, AttemptKeepsAInv DEF SkipAbort, documents
<1>9. ASSUME NEW s \in Sessions, DeleteSession(s) PROVE AInv'
  <2> DEFINE gone == {id \in Ids : docs[id].owner = s}
  <2>1. /\ docs' = [id \in Ids |-> IF id \in gone THEN NoDoc ELSE docs[id]]
        /\ claims' = [id \in Ids |-> IF id \in gone THEN 0 ELSE claims[id]]
        /\ attempts' = Contend(Aborters)
    BY <1>9 DEF DeleteSession
  <2> HIDE DEF gone
  <2>2. NoDoc.status = "absent" /\ NoDoc.kind = "none"
    BY DEF NoDoc
  <2>3. StatusTyped'
    BY <2>1, <2>2 DEF AInv, Typed, StatusTyped, Exists
  <2>4. /\ attempts' \in [Aborters -> Attempt \cup Resting]
        /\ \A c \in Aborters : (attempts'[c].pc = "open" /\ ~attempts'[c].contended) =>
             attempts'[c] = attempts[c] /\ docs'[attempts'[c].id] = docs[attempts'[c].id]
    BY <2>1, ContendKeeps DEF AInv
  <2>5. claims' \in [Ids -> Nat]
    BY <2>1 DEF AInv, Typed
  <2>6. Typed'
    BY <2>1, <2>3, <2>4, <2>5 DEF Typed
  <2>7. RecordedStatusHolds'
    BY <2>4 DEF AInv, RecordedStatusHolds, Exists
  <2>8. AbortAnswersOnce'
    BY <2>1 DEF AInv, AbortAnswersOnce
  <2> QED
    BY <2>6, <2>7, <2>8 DEF AInv
<1>10. ASSUME NEW s \in Sessions, LosePointer(s) PROVE AInv'
  <2>1. /\ docs' = docs
        /\ claims' = claims
        /\ attempts' = Contend(Aborters)
    BY <1>10 DEF LosePointer
  <2>2. /\ attempts' \in [Aborters -> Attempt \cup Resting]
        /\ \A c \in Aborters : (attempts'[c].pc = "open" /\ ~attempts'[c].contended) =>
             attempts'[c] = attempts[c]
    BY <2>1, ContendKeeps DEF AInv
  <2>3. Typed'
    BY <2>1, <2>2 DEF AInv, Typed, StatusTyped, Exists
  <2>4. RecordedStatusHolds'
    BY <2>1, <2>2 DEF AInv, RecordedStatusHolds, Exists
  <2>5. AbortAnswersOnce'
    BY <2>1 DEF AInv, AbortAnswersOnce
  <2> QED
    BY <2>3, <2>4, <2>5 DEF AInv
<1>11. CASE UNCHANGED vars
  BY <1>11 DEF vars, AInv, Typed, StatusTyped, Exists, RecordedStatusHolds, AbortAnswersOnce
<1> QED
  BY <1>1, <1>2, <1>3, <1>4, <1>5, <1>6, <1>7, <1>8, <1>9, <1>10, <1>11 DEF Next

-----------------------------------------------------------------------------
\* Of the callers that abort one row one at most is answered `pending`, and the
\* row is then aborted: for any number of aborters, attempts, saves, interval
\* and document size.
THEOREM AbortTellsOneCaller == Spec => []AbortAnswersOnce
<1>1. AInv => AbortAnswersOnce
  BY DEF AInv
<1> QED
  BY InitAInv, NextAInv, <1>1, PTL DEF Spec

-----------------------------------------------------------------------------
(* The lifecycle of a row *)

\* A committed save creates its row, settles it or leaves its status, and no other row's.
LEMMA CommitMapsToLifecycle ==
  ASSUME Typed, NEW id \in Ids, NEW existing \in get_snapshot(id), NEW produced,
         \A made \in produced : made.status \in Statuses,
         Committed(id, existing, produced)
  PROVE  [Promise!LifecycleNext]_StatusOfDocs
<1> DEFINE st == [i \in Ids |-> docs[i].status]
<1>1. /\ \A i \in Ids : i # id => docs'[i] = docs[i]
      /\ docs[id].status \in TERMINAL_STATUSES => docs'[id].status = docs[id].status
      /\ docs'[id].status \in Statuses
  BY CommitStatus
<1>2. st' = [st EXCEPT ![id] = docs'[id].status]
  BY <1>1
<1>3. docs[id].status \in Statuses \cup {"absent"}
  BY DEF Typed, StatusTyped
<1>4. CASE docs[id].status = "absent"
  <2>1. Promise!Create(id)
    BY <1>1, <1>2, <1>4
    DEF Promise!Create, StatusOfDocs, Promise!Statuses, Promise!TERMINAL_STATUSES, Statuses, TERMINAL_STATUSES
  <2> QED
    BY <2>1 DEF Promise!LifecycleNext
<1>5. CASE docs[id].status = "pending" /\ docs'[id].status # "pending"
  <2>1. docs'[id].status \in TERMINAL_STATUSES
    BY <1>1, <1>5 DEF Statuses
  <2>2. Promise!Settle(id)
    BY <2>1, <1>2, <1>5 DEF Promise!Settle, StatusOfDocs, Promise!TERMINAL_STATUSES, TERMINAL_STATUSES
  <2> QED
    BY <2>2 DEF Promise!LifecycleNext
<1>6. CASE docs'[id].status = docs[id].status
  <2>1. st' = st
    BY <1>1, <1>6
  <2> QED
    BY <2>1 DEF StatusOfDocs
<1> QED
  BY <1>1, <1>3, <1>4, <1>5, <1>6 DEF Statuses

\* A row that is saved, rewritten, retried and aborted by any number of callers, with
\* any intervals, keeps the promise of SnapshotLifecycle as long as its session is there.
THEOREM RowsKeepTheLifecycle == Spec => ImplementsLifecycle
<1> DEFINE Deleted == \E s \in Sessions : Forgotten(s)
<1>1. Init => Promise!LifecycleInit
  BY DEF Init, Promise!LifecycleInit, StatusOfDocs, NoDoc
<1>2. ASSUME AInv, [Next]_vars PROVE [Promise!LifecycleNext \/ Deleted]_StatusOfDocs
  <2> SUFFICES ASSUME docs' # docs PROVE [Promise!LifecycleNext]_StatusOfDocs \/ Deleted
    BY DEF StatusOfDocs
  <2>r. \A id, statuses : \A made \in NewRows(id, statuses) : made.status \in statuses
    BY DEF NewRows
  <2>t. Typed
    BY <1>2 DEF AInv
  <2>1. ASSUME NEW id \in Ids, SaveTurn(id) PROVE [Promise!LifecycleNext]_StatusOfDocs
    <3>1. PICK existing \in get_snapshot(id), made \in NewRows(id, {"completed"}) :
            Committed(id, existing, UnlessAborted(existing, made))
      BY <2>1 DEF SaveTurn
    <3>2. \A snap \in UnlessAborted(existing, made) : snap.status \in Statuses
      BY <2>r DEF UnlessAborted, Statuses, TERMINAL_STATUSES
    <3> QED
      BY <2>t, <3>1, <3>2, CommitMapsToLifecycle
  <2>2. ASSUME NEW id \in Ids, SavePending(id) PROVE [Promise!LifecycleNext]_StatusOfDocs
    <3>1. PICK existing \in get_snapshot(id), made \in NewRows(id, {"pending"}) :
            Committed(id, existing, {made})
      BY <2>2 DEF SavePending
    <3>2. \A snap \in {made} : snap.status \in Statuses
      BY <2>r DEF Statuses
    <3> QED
      BY <2>t, <3>1, <3>2, CommitMapsToLifecycle
  <2>3. ASSUME NEW id \in Ids, Heartbeat(id) PROVE [Promise!LifecycleNext]_StatusOfDocs
    <3>1. PICK existing \in get_snapshot(id) : Committed(id, existing, {existing})
      BY <2>3 DEF Heartbeat
    <3>2. \A snap \in {existing} : snap.status \in Statuses
      BY <2>3, <2>t, ReadStatus DEF Heartbeat, Typed, Statuses
    <3> QED
      BY <2>t, <3>1, <3>2, CommitMapsToLifecycle
  <2>4. ASSUME NEW c \in Aborters, CommitAbort(c) PROVE [Promise!LifecycleNext]_StatusOfDocs
    <3> DEFINE id == attempts[c].id
    <3>1. id \in Ids
      BY <2>4, <2>t DEF CommitAbort, Typed, Attempt, Resting
    <3>2. PICK existing \in get_snapshot(id) : Committed(id, existing, abort_if_pending(existing))
      BY <2>4 DEF CommitAbort
    <3>3. \A made \in abort_if_pending(existing) : made.status \in Statuses
      BY DEF abort_if_pending, get_snapshot, RowWith, NoRow, Statuses, TERMINAL_STATUSES
    <3> QED
      BY <2>t, <3>1, <3>2, <3>3, CommitMapsToLifecycle
  <2>5. ASSUME NEW s \in Sessions, DeleteSession(s) PROVE Deleted
    <3>1. docs' = [id \in Ids |-> IF id \in {i \in Ids : docs[i].owner = s} THEN NoDoc ELSE docs[id]]
      BY <2>5 DEF DeleteSession
    <3>2. Forgotten(s)
      BY <3>1 DEF Forgotten, StatusOfDocs, NoDoc
    <3> QED
      BY <3>2
  <2>6. ASSUME NEW c \in Aborters,
               \/ \E id \in Ids : BeginAbort(c, id)
               \/ RetryAbort(c) \/ GiveUpAbort(c) \/ SkipAbort(c)
        PROVE  FALSE
    BY <2>6 DEF BeginAbort, RetryAbort, GiveUpAbort, SkipAbort, documents
  <2>7. ASSUME NEW s \in Sessions, LosePointer(s) PROVE FALSE
    BY <2>7 DEF LosePointer
  <2>8. ASSUME UNCHANGED vars PROVE FALSE
    BY <2>8 DEF vars
  <2> QED
    BY <1>2, <2>1, <2>2, <2>3, <2>4, <2>5, <2>6, <2>7, <2>8 DEF Next
<1> QED
  BY <1>1, <1>2, InitAInv, NextAInv, PTL DEF Spec, ImplementsLifecycle

-----------------------------------------------------------------------------
(* The rows stay whole *)

\* A nonempty set of numbers has a least one.
Below == OpToRel(<, Nat)

LEMMA LeastOf == ASSUME NEW S, S \subseteq Nat, S # {} PROVE \E m \in S : \A n \in S : m <= n
<1>1. IsWellFoundedOn(Below, Nat)
  BY NatLessThanWellFounded DEF Below
<1>2. \A a, b \in Nat : <<a, b>> \in Below <=> a < b
  BY DEF Below, OpToRel
<1>3. \E m \in S : \A n \in S : ~(<<n, m>> \in Below)
  BY <1>1, WFMin
<1>4. PICK m \in S : \A n \in S : ~(<<n, m>> \in Below)
  BY <1>3
<1>5. ASSUME NEW n \in S PROVE m <= n
  <2>1. <<n, m>> \in Below <=> n < m
    BY <1>2, Zenon
  <2> QED
    BY <1>4, <2>1
<1> QED
  BY <1>5

\* What holds of 0, and of each number after one it holds of, holds of all to N.
LEMMA UpTo ==
  ASSUME NEW N \in Nat, NEW S, 0 \in S, \A n \in 0..N : n \in S /\ n < N => n + 1 \in S
  PROVE  \A n \in 0..N : n \in S
<1> SUFFICES ASSUME NEW k \in 0..N, k \notin S PROVE FALSE
  OBVIOUS
<1> DEFINE Bad == {n \in 0..N : n \notin S}
<1>1. Bad \subseteq Nat /\ Bad # {}
  OBVIOUS
<1>2. PICK m \in Bad : \A n \in Bad : m <= n
  BY <1>1, LeastOf
<1>3. m \in 1..N
  OBVIOUS
<1>4. m - 1 \in S
  <2>1. m - 1 \in 0..N /\ m - 1 \notin Bad
    BY <1>2, <1>3
  <2> QED
    BY <2>1
<1>5. (m - 1) + 1 = m /\ m - 1 \in 0..N /\ m - 1 < N
  BY <1>3
<1> QED
  BY <1>2, <1>4, <1>5

\* The largest of the numbers up to the one that is in.
LEMMA LargestIs ==
  ASSUME NEW n \in Nat, NEW s, s \subseteq 1..n, n \in s
  PROVE  Max(s) = n
<1>1. n \in s /\ \A y \in s : n >= y
  OBVIOUS
<1>2. ASSUME NEW x \in s, \A y \in s : x >= y PROVE x = n
  BY <1>1, <1>2
<1> QED
  BY <1>1, <1>2 DEF Max

-----------------------------------------------------------------------------
(* FoldLeft of AfterSegment: what reading along a chain computes.  It is     *)
(* defined by a recursion over the sets of positions, which has a solution.  *)

Fold(base, p) == FoldLeft(AfterSegment, base, p)

\* f is the value of the fold on each set of positions.
Folds(f, base, p, n) ==
  f = [s \in SUBSET (1..n) |->
         IF s = {} THEN base ELSE AfterSegment(f[s \ {Max(s)}], p[Max(s)])]

\* The fold is the value of such a function on all positions.
LEMMA FoldIs ==
  ASSUME NEW base, NEW p, NEW n \in Nat, DOMAIN p = 1..n
  PROVE  Fold(base, p) = (CHOOSE f : Folds(f, base, p, n))[1..n]
BY DEF Fold, FoldLeft, MapThenFoldSet, Folds

\* There is one, for sequences of any length.
LEMMA FoldExists ==
  ASSUME NEW base, NEW p, NEW N \in Nat
  PROVE  \A n \in 0..N : \E f : Folds(f, base, p, n)
<1> DEFINE S == {n \in 0..N : \E f : Folds(f, base, p, n)}
<1>1. 0 \in S
  <2> DEFINE g == [s \in SUBSET (1..0) |-> base]
  <2>1. \A s \in SUBSET (1..0) : s = {}
    OBVIOUS
  <2>2. Folds(g, base, p, 0)
    BY <2>1 DEF Folds
  <2> QED
    BY <2>2
<1>2. ASSUME NEW n \in 0..N, n \in S, n < N PROVE n + 1 \in S
  <2>1. PICK f : Folds(f, base, p, n)
    BY <1>2
  <2> DEFINE m == n + 1
             g == [s \in SUBSET (1..m) |->
                     IF m \in s THEN AfterSegment(f[s \ {m}], p[m]) ELSE f[s]]
  <2>2. ASSUME NEW s \in SUBSET (1..m)
        PROVE  g[s] = IF s = {} THEN base ELSE AfterSegment(g[s \ {Max(s)}], p[Max(s)])
    <3>1. CASE m \in s
      <4>1. Max(s) = m
        <5>1. m \in Nat /\ s \subseteq 1..m
          OBVIOUS
        <5> HIDE DEF m
        <5> QED
          BY <3>1, <5>1, LargestIs
      <4>2. s \ {m} \in SUBSET (1..n) /\ s \ {m} \in SUBSET (1..m) /\ m \notin s \ {m}
        OBVIOUS
      <4>3. g[s \ {m}] = f[s \ {m}]
        BY <4>2
      <4>4. g[s] = AfterSegment(f[s \ {m}], p[m])
        BY <3>1
      <4> QED
        BY <3>1, <4>1, <4>3, <4>4
    <3>2. CASE m \notin s
      <4>1. s \in SUBSET (1..n)
        BY <3>2
      <4>2. g[s] = f[s]
        BY <3>2
      <4>3. f[s] = IF s = {} THEN base ELSE AfterSegment(f[s \ {Max(s)}], p[Max(s)])
        BY <2>1, <4>1 DEF Folds
      <4>4. s \ {Max(s)} \in SUBSET (1..m) /\ m \notin s \ {Max(s)}
        BY <3>2
      <4>5. g[s \ {Max(s)}] = f[s \ {Max(s)}]
        BY <4>4
      <4> QED
        BY <4>2, <4>3, <4>5
    <3> QED
      BY <3>1, <3>2
  <2>3. Folds(g, base, p, m)
    <3>1. g = [s \in SUBSET (1..m) |-> g[s]]
      OBVIOUS
    <3> HIDE DEF g
    <3> QED
      BY <2>2, <3>1 DEF Folds
  <2>4. m \in 0..N
    BY <1>2
  <2> HIDE DEF g
  <2> QED
    BY <2>3, <2>4
<1> HIDE DEF S
<1>3. \A n \in 0..N : n \in S
  BY <1>1, <1>2, UpTo
<1> QED
  BY <1>3 DEF S

\* A fold passes through one value after each element.
LEMMA FoldTrace ==
  ASSUME NEW base, NEW p, NEW n \in Nat, DOMAIN p = 1..n
  PROVE  \E v : /\ v[0] = base
                /\ \A k \in 1..n : v[k] = AfterSegment(v[k - 1], p[k])
                /\ v[n] = Fold(base, p)
<1> DEFINE f == CHOOSE g : Folds(g, base, p, n)
           v == [k \in 0..n |-> f[1..k]]
<1>1. Folds(f, base, p, n)
  <2>1. n \in 0..n
    OBVIOUS
  <2>2. \E g : Folds(g, base, p, n)
    BY <2>1, FoldExists
  <2> QED
    BY <2>2
<1>2. v[n] = Fold(base, p)
  BY FoldIs
<1> HIDE DEF f
<1>3. ASSUME NEW s \in SUBSET (1..n)
      PROVE  f[s] = IF s = {} THEN base ELSE AfterSegment(f[s \ {Max(s)}], p[Max(s)])
  BY <1>1 DEF Folds
<1>4. v[0] = base
  <2>1. 1..0 = {} /\ {} \in SUBSET (1..n)
    OBVIOUS
  <2>2. f[{}] = base
    BY <1>3, <2>1
  <2> QED
    BY <2>1, <2>2
<1>5. ASSUME NEW k \in 1..n PROVE v[k] = AfterSegment(v[k - 1], p[k])
  <2>1. 1..k \in SUBSET (1..n) /\ 1..k # {} /\ (1..k) \ {k} = 1..(k - 1)
    OBVIOUS
  <2>2. Max(1..k) = k
    BY LargestIs
  <2>3. f[1..k] = AfterSegment(f[1..(k - 1)], p[k])
    BY <1>3, <2>1, <2>2
  <2> QED
    BY <2>3
<1> QED
  BY <1>2, <1>4, <1>5

\* What one more element adds.
LEMMA FoldAppends ==
  ASSUME NEW base, NEW p \in Seq(Ids), NEW x \in Ids
  PROVE  Fold(base, Append(p, x))
           = AfterSegment(Fold(base, p), x)
<1> DEFINE n == Len(p)
           q == Append(p, x)
<1>1. /\ n \in Nat /\ DOMAIN p = 1..n /\ DOMAIN q = 1..(n + 1)
      /\ q[n + 1] = x /\ \A k \in 1..n : q[k] = p[k]
  OBVIOUS
<1> HIDE DEF n, q
<1>2. PICK v : /\ v[0] = base
               /\ \A k \in 1..n : v[k] = AfterSegment(v[k - 1], p[k])
               /\ v[n] = Fold(base, p)
  BY <1>1, FoldTrace, Zenon
<1>3. PICK w : /\ w[0] = base
               /\ \A k \in 1..(n + 1) : w[k] = AfterSegment(w[k - 1], q[k])
               /\ w[n + 1] = Fold(base, q)
  <2>1. n + 1 \in Nat
    BY <1>1
  <2> QED
    BY <1>1, <2>1, FoldTrace, Zenon
<1> DEFINE S == {k \in 0..n : v[k] = w[k]}
<1>4. \A k \in 0..n : k \in S
  <2>1. 0 \in S
    BY <1>1, <1>2, <1>3
  <2>2. ASSUME NEW k \in 0..n, k \in S, k < n PROVE k + 1 \in S
    <3>1. k + 1 \in 1..n /\ k + 1 \in 1..(n + 1) /\ (k + 1) - 1 = k /\ k + 1 \in 0..n
      BY <1>1, <2>2
    <3>2. v[k + 1] = AfterSegment(v[k], p[k + 1])
      BY <1>2, <3>1
    <3>3. w[k + 1] = AfterSegment(w[k], q[k + 1])
      BY <1>3, <3>1
    <3> QED
      BY <1>1, <2>2, <3>1, <3>2, <3>3
  <2> HIDE DEF S
  <2> QED
    BY <1>1, <2>1, <2>2, UpTo
<1>5. n \in S /\ n + 1 \in 1..(n + 1) /\ (n + 1) - 1 = n
  <2>1. n \in 0..n /\ n + 1 \in 1..(n + 1) /\ (n + 1) - 1 = n
    BY <1>1
  <2> QED
    BY <1>4, <2>1
<1>6. w[n + 1] = AfterSegment(w[n], q[n + 1])
  BY <1>3, <1>5
<1>7. v[n] = w[n]
  BY <1>5
<1> QED
  BY <1>1, <1>2, <1>3, <1>6, <1>7 DEF q

\* A chain without diffs adds nothing.
LEMMA FoldOfNone ==
  ASSUME NEW base
  PROVE  Fold(base, << >>) = base
<1>1. DOMAIN << >> = 1..0
  OBVIOUS
<1>2. 0 \in Nat
  OBVIOUS
<1>3. \E v : /\ v[0] = base
             /\ \A k \in 1..0 : v[k] = AfterSegment(v[k - 1], << >>[k])
             /\ v[0] = Fold(base, << >>)
  BY <1>1, <1>2, FoldTrace, Zenon
<1> QED
  BY <1>3

\* Patches, and chains of documents, as they are written.
Patches == [whole : BOOLEAN, add : SUBSET Parts, drop : SUBSET Parts]
Chains == [checkpoint : Ids \cup {NoId}, count : Nat, path : Seq(Ids)]
InSomeInterval(path) == \E interval \in Intervals : Len(path) < interval

\* A document as one of the stores wrote it.
DocFits(id) ==
  /\ docs[id] = NoDoc \/ docs[id].kind \in {"checkpoint", "diff"}
  /\ docs[id].kind # "none" => docs[id].owner \in Sessions
  /\ docs[id].parent \in Ids \cup {NoId}
  /\ docs[id].chain \in Chains
  /\ docs[id].patch \in Patches
  /\ ~PatchTooLarge(docs[id].patch)
  /\ InSomeInterval(docs[id].chain.path)
  /\ docs[id].kind = "checkpoint" =>
       /\ docs[id].chain.checkpoint = id
       /\ docs[id].chain.path = <<>>
       /\ docs[id].chain.count \in 1..MaxShards

\* The shards of a checkpoint, and no others.
ShardsFit(id) ==
  /\ shards[id] = [i \in ShardIndexes |-> shards[id][i]]
  /\ \A i \in ShardIndexes :
       shards[id][i] # NoChunk <=> docs[id].kind = "checkpoint" /\ i < docs[id].chain.count

\* The chain a pointer repeats.
PointerFits(s) ==
  /\ pointers[s].chain \in Chains
  /\ InSomeInterval(pointers[s].chain.path)

\* True of the documents of all sessions.
DocsInv ==
  /\ shards = [id \in Ids |-> shards[id]]
  /\ pointers = [s \in Sessions |-> pointers[s]]
  /\ \A id \in Ids : DocFits(id) /\ ShardsFit(id)
  /\ \A s \in Sessions : PointerFits(s)

\* A row of a session that never lost its pointer: a checkpoint holds its state,
\* and a diff follows its parent and was made from what the parent holds.
Whole(id) ==
  /\ saved[id] = RowWith(id, saved[id].state)
  /\ saved[id].state \in SUBSET Parts
  /\ newest[docs[id].owner] # NoId
  /\ docs[id].kind = "checkpoint" =>
       /\ docs[id].chain.count = ShardCount(saved[id].state)
       /\ \A i \in 0..(docs[id].chain.count - 1) :
            shards[id][i] = [of |-> saved[id].state, count |-> docs[id].chain.count]
  /\ docs[id].kind = "diff" =>
       LET p == docs[id].parent IN
       /\ p \in Ids \ {id}
       /\ Exists(p)
       /\ docs[p].owner = docs[id].owner
       /\ docs[id].chain = [docs[p].chain EXCEPT !.path = Append(@, id)]
       /\ docs[id].patch = diff_json({saved[p].state}, saved[id].state)

\* The pointer names the row created last, and nothing is built on that row.
Current(s) ==
  LET id == newest[s] IN
  IF id = NoId THEN pointers[s] = NoPointer
  ELSE /\ id \in Ids
       /\ docs[id].owner = s
       /\ pointers[s] = [current |-> id, chain |-> docs[id].chain]
       /\ \A c \in Ids : docs[c].kind = "diff" /\ docs[c].owner = s => docs[c].parent # id

\* What the documents have to do with the rows that were saved.
RowsInv ==
  /\ saved = [id \in Ids |-> saved[id]]
  /\ newest = [s \in Sessions |-> newest[s]]
  /\ intact \subseteq Sessions
  /\ \A id \in Ids : ~Exists(id) => saved[id] = NoRow
  /\ \A id \in Ids : Exists(id) => saved[id].owner = docs[id].owner
  /\ \A id \in Ids : docs[id].owner \in intact => Whole(id)
  /\ \A s \in intact : Current(s)

-----------------------------------------------------------------------------
(* What fits *)

\* Division by the size of a shard.
LEMMA DivideGrows ==
  ASSUME NEW a \in Nat, NEW b \in Nat, a <= b, NEW s \in Nat \ {0}
  PROVE  a \div s \in Nat /\ b \div s \in Nat /\ a \div s <= b \div s
OBVIOUS

\* What fills a shard takes one at least.
LEMMA DivideOne ==
  ASSUME NEW a \in Nat, NEW s \in Nat \ {0}, s <= a
  PROVE  a \div s \in Nat \ {0}
OBVIOUS

\* Every state takes a shard, and none takes more than the largest.
LEMMA ShardCounts ==
  ASSUME NEW state \in SUBSET Parts
  PROVE  ShardCount(state) \in 1..MaxShards
<1> DEFINE c == Cardinality(state)
           d == Cardinality(Parts)
<1>1. IsFiniteSet(Parts) /\ ShardSize \in Nat \ {0}
  BY FirestoreAssumption
<1>2. c \in Nat /\ d \in Nat /\ c <= d /\ IsFiniteSet(state)
  BY <1>1, FS_Subset, FS_CardinalityType
<1>3. (state = {} <=> c = 0) /\ (Parts = {} <=> d = 0)
  BY <1>1, <1>2, FS_EmptySet
<1> HIDE DEF c, d
<1>4. /\ ShardCount(state) = IF state = {} THEN 1 ELSE (c + ShardSize - 1) \div ShardSize
      /\ MaxShards = IF Parts = {} THEN 1 ELSE (d + ShardSize - 1) \div ShardSize
  BY DEF ShardCount, MaxShards, c, d
<1>5. Parts # {} => (d + ShardSize - 1) \div ShardSize \in Nat \ {0}
  <2> HAVE Parts # {}
  <2>1. d + ShardSize - 1 \in Nat /\ ShardSize <= d + ShardSize - 1
    BY <1>1, <1>2, <1>3
  <2> QED
    BY <1>1, <2>1, DivideOne
<1>6. state # {} => /\ (c + ShardSize - 1) \div ShardSize \in Nat \ {0}
                    /\ (c + ShardSize - 1) \div ShardSize <= (d + ShardSize - 1) \div ShardSize
  <2> HAVE state # {}
  <2>1. /\ c + ShardSize - 1 \in Nat /\ d + ShardSize - 1 \in Nat
        /\ ShardSize <= c + ShardSize - 1 /\ c + ShardSize - 1 <= d + ShardSize - 1
    BY <1>1, <1>2, <1>3
  <2> QED
    BY <1>1, <2>1, DivideOne, DivideGrows
<1>7. state # {} => Parts # {}
  OBVIOUS
<1> DEFINE x == (c + ShardSize - 1) \div ShardSize
           y == (d + ShardSize - 1) \div ShardSize
<1> HIDE DEF x, y
<1>8. /\ ShardCount(state) = IF state = {} THEN 1 ELSE x
      /\ MaxShards = IF Parts = {} THEN 1 ELSE y
      /\ Parts # {} => y \in Nat \ {0}
      /\ state # {} => x \in Nat \ {0} /\ x <= y
  BY <1>4, <1>5, <1>6 DEF x, y
<1>9. CASE state = {}
  BY <1>8, <1>9
<1>10. CASE state # {}
  <2>1. ShardCount(state) = x /\ MaxShards = y /\ x \in Nat \ {0} /\ y \in Nat \ {0} /\ x <= y
    BY <1>7, <1>8, <1>10
  <2> QED
    BY <2>1
<1> QED
  BY <1>9, <1>10

\* What a document that is not there holds.
LEMMA NoneFits ==
  /\ NoChain \in Chains
  /\ NoPatch \in Patches
  /\ ~PatchTooLarge(NoPatch)
  /\ InSomeInterval(<< >>)
<1>1. NoChain \in Chains
  BY DEF NoChain, Chains
<1>2. NoPatch \in Patches
  BY DEF NoPatch, Patches
<1>3. ~PatchTooLarge(NoPatch)
  <2>1. Cardinality({}) = 0
    BY FS_EmptySet
  <2> QED
    BY <2>1, FirestoreAssumption DEF PatchTooLarge, NoPatch
<1>4. InSomeInterval(<< >>)
  <2>1. PICK interval \in Intervals : interval \in Nat \ {0}
    BY FirestoreAssumption
  <2>2. Len(<< >>) = 0
    OBVIOUS
  <2>3. Len(<< >>) < interval
    BY <2>1, <2>2
  <2> QED
    BY <2>3 DEF InSomeInterval
<1> QED
  BY <1>1, <1>2, <1>3, <1>4

\* A value the reading of a chain passes through.
LEMMA SegmentTyped ==
  ASSUME DocsInv, NEW value \in SUBSET (SUBSET Parts), NEW id \in Ids
  PROVE  AfterSegment(value, id) \in SUBSET (SUBSET Parts)
<1>1. docs[id].patch \in Patches
  BY DEF DocsInv, DocFits
<1>2. ASSUME NEW state \in SUBSET Parts
      PROVE  apply_json_patch(state, docs[id].patch) \in SUBSET Parts
  BY <1>1 DEF apply_json_patch, Patches
<1> QED
  BY <1>2 DEF AfterSegment

\* So is the value at the end of a chain.
LEMMA FoldTyped ==
  ASSUME DocsInv, NEW base \in SUBSET (SUBSET Parts), NEW p \in Seq(Ids)
  PROVE  Fold(base, p) \in SUBSET (SUBSET Parts)
<1> DEFINE n == Len(p)
<1>1. n \in Nat /\ DOMAIN p = 1..n /\ \A k \in 1..n : p[k] \in Ids
  OBVIOUS
<1> HIDE DEF n
<1>2. PICK v : /\ v[0] = base
               /\ \A k \in 1..n : v[k] = AfterSegment(v[k - 1], p[k])
               /\ v[n] = Fold(base, p)
  BY <1>1, FoldTrace, Zenon
<1> DEFINE S == {k \in 0..n : v[k] \in SUBSET (SUBSET Parts)}
<1>3. 0 \in S
  BY <1>1, <1>2
<1>4. ASSUME NEW k \in 0..n, k \in S, k < n PROVE k + 1 \in S
  <2>1. k + 1 \in 1..n /\ (k + 1) - 1 = k /\ k + 1 \in 0..n
    BY <1>1, <1>4
  <2>2. v[k + 1] = AfterSegment(v[k], p[k + 1]) /\ p[k + 1] \in Ids
    BY <1>1, <1>2, <2>1
  <2>3. v[k + 1] \in SUBSET (SUBSET Parts)
    BY <1>4, <2>2, SegmentTyped
  <2> QED
    BY <2>1, <2>3
<1> HIDE DEF S
<1>5. \A k \in 0..n : k \in S
  BY <1>1, <1>3, <1>4, UpTo
<1>6. n \in S
  BY <1>1, <1>5
<1> QED
  BY <1>2, <1>6 DEF S

\* What a chain reads as is a state.
LEMMA ReadTyped ==
  ASSUME DocsInv, NEW chain \in Chains, NEW id
  PROVE  _reconstruct_from(chain, id) \in SUBSET (SUBSET Parts)
<1>1. Stitched(chain) \in SUBSET (SUBSET Parts)
  BY DEF Stitched
<1>2. chain.path \in Seq(Ids)
  BY DEF Chains
<1> QED
  BY <1>1, <1>2, FoldTyped DEF _reconstruct_from, Fold

\* A row that is there reads as one, with the fields of its document.
LEMMA RowsRead ==
  ASSUME Typed, DocsInv, NEW id \in Ids, Exists(id), NEW existing \in get_snapshot(id)
  PROVE  /\ existing \in Rows
         /\ existing.owner = docs[id].owner
         /\ existing = RowWith(id, existing.state)
         /\ existing.status = docs[id].status
<1>1. docs[id].chain \in Chains /\ docs[id].owner \in Sessions /\ docs[id].parent \in Ids \cup {NoId}
  BY DEF DocsInv, DocFits, Exists
<1>2. docs[id].status \in Statuses
  BY DEF Typed, StatusTyped
<1>3. PICK state \in _reconstruct(id) : existing = RowWith(id, state)
  BY DEF get_snapshot
<1>4. state \in SUBSET Parts
  BY <1>1, <1>3, ReadTyped DEF _reconstruct
<1> QED
  BY <1>1, <1>2, <1>3, <1>4 DEF RowWith, Rows

-----------------------------------------------------------------------------
(* What is written fits *)

\* What is written is within the limits.
MetaFits(id, meta, state) ==
  /\ meta.kind \in {"checkpoint", "diff"}
  /\ meta.chain \in Chains
  /\ meta.patch \in Patches
  /\ ~PatchTooLarge(meta.patch)
  /\ InSomeInterval(meta.chain.path)
  /\ meta.kind = "checkpoint" =>
       meta.chain = [checkpoint |-> id, count |-> ShardCount(state), path |-> << >>]

\* A checkpoint is written within the limits.
LEMMA CheckpointFits ==
  ASSUME NEW id \in Ids, NEW state \in SUBSET Parts
  PROVE  MetaFits(id, CheckpointMeta(id, state), state)
<1>1. ShardCount(state) \in Nat
  BY ShardCounts
<1>2. CheckpointMeta(id, state).chain \in Chains
  BY <1>1 DEF CheckpointMeta, Chains
<1> QED
  BY <1>2, NoneFits DEF CheckpointMeta, MetaFits

\* So is a diff, or the checkpoint a large one turns into.
LEMMA DiffFits ==
  ASSUME NEW id \in Ids, NEW chain \in Chains, InSomeInterval(chain.path),
         NEW from \in SUBSET (SUBSET Parts), NEW state \in SUBSET Parts
  PROVE  MetaFits(id, DiffMeta(id, chain, from, state), state)
<1> DEFINE patch == diff_json(from, state)
<1>1. patch \in Patches
  <2>1. CASE from = {}
    BY <2>1 DEF diff_json, Patches
  <2>2. CASE from # {}
    <3> DEFINE base == CHOOSE s \in from : TRUE
    <3>1. base \in SUBSET Parts
      BY <2>2
    <3>2. patch = [whole |-> FALSE, add |-> state \ base, drop |-> base \ state]
      BY <2>2 DEF diff_json
    <3> HIDE DEF base, patch
    <3> QED
      BY <3>1, <3>2 DEF Patches
  <2> QED
    BY <2>1, <2>2
<1> HIDE DEF patch
<1>2. DiffMeta(id, chain, from, state) =
        IF PatchTooLarge(patch) THEN CheckpointMeta(id, state)
        ELSE [kind |-> "diff", chain |-> chain, patch |-> patch]
  BY DEF DiffMeta, patch
<1>3. CASE PatchTooLarge(patch)
  BY <1>2, <1>3, CheckpointFits
<1>4. CASE ~PatchTooLarge(patch)
  BY <1>1, <1>2, <1>4 DEF MetaFits
<1> QED
  BY <1>3, <1>4

\* Whatever a save writes: a checkpoint never turns into a diff.
LEMMA MetasFit ==
  ASSUME DocsInv, NEW id \in Ids, NEW existing, NEW next \in Rows, next.owner \in Sessions,
         NEW interval \in Intervals, NEW meta \in Metas(id, existing, next, interval)
  PROVE  /\ MetaFits(id, meta, next.state)
         /\ docs[id].kind = "checkpoint" => meta.kind = "checkpoint"
<1>1. next.state \in SUBSET Parts /\ next.parent \in Ids \cup {NoId}
  BY DEF Rows
<1>2. \A i \in Ids : /\ docs[i].chain \in Chains /\ InSomeInterval(docs[i].chain.path)
                     /\ docs[i].parent \in Ids \cup {NoId}
  BY DEF DocsInv, DocFits
<1>3. CASE Exists(id)
  <2> DEFINE parent == docs[id].parent
             parentExists == parent # NoId /\ Exists(parent)
             from == IF parentExists THEN _reconstruct(parent) ELSE {}
  <2>1. meta \in UpsertMeta(id, existing, next)
    BY <1>3 DEF Metas
  <2>2. from \in SUBSET (SUBSET Parts)
    <3>1. CASE parentExists
      <4>1. parent \in Ids
        BY <1>2, <3>1
      <4> QED
        BY <1>2, <3>1, <4>1, ReadTyped DEF _reconstruct
    <3> QED
      BY <3>1
  <2> HIDE DEF from
  <2>3. \/ docs[id].kind = "checkpoint" /\ meta = CheckpointMeta(id, next.state)
        \/ docs[id].kind # "checkpoint" /\ meta = DiffMeta(id, docs[id].chain, from, next.state)
    BY <2>1 DEF UpsertMeta, from
  <2>4. MetaFits(id, CheckpointMeta(id, next.state), next.state)
    BY <1>1, CheckpointFits
  <2>5. MetaFits(id, DiffMeta(id, docs[id].chain, from, next.state), next.state)
    BY <1>1, <1>2, <2>2, DiffFits
  <2> QED
    BY <2>3, <2>4, <2>5 DEF CheckpointMeta
<1>4. CASE ~Exists(id)
  <2> DEFINE chains == ParentChain(next.parent, next.owner)
  <2>1. meta \in CreateMeta(id, next, interval)
    BY <1>4 DEF Metas
  <2>2. \A chain \in chains : chain \in Chains
    BY <1>1, <1>2 DEF ParentChain, DocsInv, PointerFits
  <2>3. MetaFits(id, CheckpointMeta(id, next.state), next.state)
    BY <1>1, CheckpointFits
  <2>4. ASSUME NEW chain \in chains, ~SegmentFull(chain, interval), meta \in DiffOnParent(id, chain, next)
        PROVE  MetaFits(id, meta, next.state)
    <3> DEFINE from == _reconstruct_from(chain, next.parent)
               grown == [chain EXCEPT !.path = Append(@, id)]
    <3>1. chain \in Chains /\ from \in SUBSET (SUBSET Parts) /\ {} \in SUBSET (SUBSET Parts)
      BY <2>2, <2>4, ReadTyped
    <3>2. grown \in Chains /\ grown.path = Append(chain.path, id) /\ chain.path \in Seq(Ids)
      BY <3>1 DEF Chains
    <3>3. InSomeInterval(grown.path)
      <4>1. Len(Append(chain.path, id)) = Len(chain.path) + 1 /\ Len(chain.path) \in Nat
        BY <3>2
      <4>2. ~(Len(chain.path) + 1 >= interval)
        BY <2>4 DEF SegmentFull
      <4>3. interval \in Nat
        BY FirestoreAssumption
      <4>4. Len(grown.path) < interval
        BY <3>2, <4>1, <4>2, <4>3
      <4> QED
        BY <4>4 DEF InSomeInterval
    <3>4. \/ meta = DiffMeta(id, grown, {}, next.state)
          \/ meta = DiffMeta(id, grown, from, next.state)
      BY <2>4 DEF DiffOnParent
    <3> HIDE DEF grown, from
    <3>5. /\ MetaFits(id, DiffMeta(id, grown, {}, next.state), next.state)
          /\ MetaFits(id, DiffMeta(id, grown, from, next.state), next.state)
      BY <1>1, <3>1, <3>2, <3>3, DiffFits
    <3> QED
      BY <3>4, <3>5
  <2> HIDE DEF chains
  <2>5. MetaFits(id, meta, next.state)
    <3>1. CASE \A chain \in chains : SegmentFull(chain, interval)
      BY <2>1, <2>3, <3>1 DEF CreateMeta, chains
    <3>2. CASE ~\A chain \in chains : SegmentFull(chain, interval)
      <4>1. PICK chain \in chains : meta \in DiffOnParent(id, chain, next)
        BY <2>1, <3>2 DEF CreateMeta, chains
      <4>2. \A c, d \in chains : c = d
        BY <1>1 DEF chains, ParentChain
      <4>3. ~SegmentFull(chain, interval)
        BY <3>2, <4>2
      <4> QED
        BY <2>4, <4>1, <4>3
    <3> QED
      BY <3>1, <3>2
  <2> QED
    BY <1>4, <2>5 DEF Exists
<1> QED
  BY <1>3, <1>4

\* One committed row, as Committed writes it.
CommitsOne(id, existing, next, meta) ==
  /\ docs' = [docs EXCEPT ![id] =
       [kind |-> meta.kind, status |-> next.status, owner |-> next.owner,
        parent |-> next.parent, chain |-> meta.chain, patch |-> meta.patch]]
  /\ shards' = [shards EXCEPT ![id] = _write_shards(id, meta, next.state)]
  /\ pointers' = IF PointerMoves(id, next)
       THEN [pointers EXCEPT ![next.owner] = [current |-> id, chain |-> meta.chain]]
       ELSE pointers
  /\ saved' = [saved EXCEPT ![id] = next]
  /\ newest' = IF Exists(id) THEN newest ELSE [newest EXCEPT ![next.owner] = id]

\* The rows a save commits belong to a session.
LEMMA CommitPicks ==
  ASSUME Typed, DocsInv, NEW id \in Ids, NEW existing \in get_snapshot(id),
         NEW produced \in SUBSET Rows, Committed(id, existing, produced),
         \A made \in produced : made.owner \in Sessions \/ made.owner = NoSession
  PROVE  \E made \in produced, interval \in Intervals, next \in Rows :
           /\ ~Refused(existing, made)
           /\ next = stamp_store_fields(made)
           /\ next.owner \in Sessions
           /\ next.state = made.state /\ next.parent = made.parent
           /\ next.status = made.status /\ next.session = made.session
           /\ \E meta \in Metas(id, existing, next, interval) : CommitsOne(id, existing, next, meta)
<1>1. PICK next \in apply_save(existing, produced), interval \in Intervals :
        \E meta \in Metas(id, existing, next, interval) : CommitsOne(id, existing, next, meta)
  BY DEF Committed, CommitsOne
<1>2. PICK made \in produced : ~Refused(existing, made) /\ next = stamp_store_fields(made)
  BY <1>1 DEF apply_save
<1>3. made \in Rows /\ made.session \in Sessions
  BY DEF Rows
<1>4. /\ next \in Rows /\ next.owner \in Sessions
      /\ next.state = made.state /\ next.parent = made.parent
      /\ next.status = made.status /\ next.session = made.session
  BY <1>2, <1>3 DEF stamp_store_fields, Rows
<1> QED
  BY <1>1, <1>2, <1>4

\* The documents of a committed row, and of all others, are as they must be.
LEMMA CommitDocs ==
  ASSUME Typed, DocsInv, NEW id \in Ids, NEW existing, NEW next \in Rows, next.owner \in Sessions,
         NEW interval \in Intervals, NEW meta \in Metas(id, existing, next, interval),
         CommitsOne(id, existing, next, meta)
  PROVE  DocsInv'
<1>1. /\ MetaFits(id, meta, next.state)
      /\ docs[id].kind = "checkpoint" => meta.kind = "checkpoint"
  BY MetasFit
<1>2. next.state \in SUBSET Parts /\ next.parent \in Ids \cup {NoId}
  BY DEF Rows
<1>3. ShardCount(next.state) \in 1..MaxShards
  BY <1>2, ShardCounts
<1>4. /\ docs'[id] = [kind |-> meta.kind, status |-> next.status, owner |-> next.owner,
                      parent |-> next.parent, chain |-> meta.chain, patch |-> meta.patch]
      /\ \A i \in Ids : i # id => docs'[i] = docs[i]
  BY DEF CommitsOne, Typed
<1>5. /\ shards' = [i \in Ids |-> shards'[i]]
      /\ shards'[id] = _write_shards(id, meta, next.state)
      /\ \A i \in Ids : i # id => shards'[i] = shards[i]
  BY DEF CommitsOne, DocsInv
<1>6. /\ pointers' = [s \in Sessions |-> pointers'[s]]
      /\ \A s \in Sessions : pointers'[s] \in {pointers[s], [current |-> id, chain |-> meta.chain]}
  BY DEF CommitsOne, DocsInv
<1>7. \A i \in Ids : DocFits(i)'
  <2> SUFFICES ASSUME NEW i \in Ids PROVE DocFits(i)'
    OBVIOUS
  <2>1. CASE i = id
    <3>1. DocFits(id)'
      <4>1. docs'[id].kind = "checkpoint" => docs'[id].chain.count \in 1..MaxShards
        BY <1>1, <1>3, <1>4 DEF MetaFits
      <4>2. PatchTooLarge(docs[id].patch)' = PatchTooLarge(meta.patch)
        BY <1>4 DEF PatchTooLarge
      <4>3. InSomeInterval(docs[id].chain.path)' = InSomeInterval(meta.chain.path)
        BY <1>4 DEF InSomeInterval
      <4> QED
        BY <1>1, <1>2, <1>4, <4>1, <4>2, <4>3 DEF MetaFits, DocFits
    <3> QED
      BY <2>1, <3>1
  <2>2. CASE i # id
    <3>1. docs'[i] = docs[i]
      BY <1>4, <2>2
    <3>2. DocFits(i)
      BY DEF DocsInv
    <3> QED
      BY <3>1, <3>2 DEF DocFits, PatchTooLarge, InSomeInterval
  <2> QED
    BY <2>1, <2>2
<1>8. \A i \in Ids : ShardsFit(i)'
  <2> SUFFICES ASSUME NEW i \in Ids PROVE ShardsFit(i)'
    OBVIOUS
  <2>1. CASE i # id
    <3>1. docs'[i] = docs[i] /\ shards'[i] = shards[i] /\ ShardsFit(i)
      BY <1>4, <1>5, <2>1 DEF DocsInv
    <3> QED
      BY <3>1 DEF ShardsFit
  <2>2. CASE i = id
    <3> DEFINE old == IF docs[id].kind = "checkpoint" THEN docs[id].chain.count ELSE 0
    <3>1. shards'[id] = [n \in ShardIndexes |->
              IF meta.kind # "checkpoint" THEN shards[id][n]
              ELSE IF n < meta.chain.count THEN [of |-> next.state, count |-> meta.chain.count]
              ELSE IF n < old THEN NoChunk
              ELSE shards[id][n]]
      BY <1>5 DEF _write_shards
    <3>2. docs'[id].kind = meta.kind /\ docs'[id].chain = meta.chain
      BY <1>4
    <3>3. \A n \in ShardIndexes :
            shards[id][n] # NoChunk <=> docs[id].kind = "checkpoint" /\ n < docs[id].chain.count
      BY DEF DocsInv, ShardsFit
    <3>4. CASE meta.kind = "checkpoint"
      <4>1. meta.chain.count \in 1..MaxShards
        BY <1>1, <1>3, <3>4 DEF MetaFits
      <4>2. [of |-> next.state, count |-> meta.chain.count] # NoChunk
        BY <4>1 DEF NoChunk
      <4>3. \A n \in ShardIndexes : ~(n < old) => shards[id][n] = NoChunk
        BY <3>3
      <4> HIDE DEF old
      <4>4. \A n \in ShardIndexes : shards'[id][n] # NoChunk <=> n < meta.chain.count
        BY <3>1, <3>4, <4>2, <4>3
      <4>5. shards'[id] = [n \in ShardIndexes |-> shards'[id][n]]
        BY <3>1
      <4> QED
        BY <2>2, <3>2, <3>4, <4>4, <4>5 DEF ShardsFit
    <3>5. CASE meta.kind # "checkpoint"
      <4>1. shards'[id] = [n \in ShardIndexes |-> shards[id][n]]
        BY <3>1, <3>5
      <4>2. \A n \in ShardIndexes : shards'[id][n] = NoChunk
        BY <1>1, <3>3, <3>5, <4>1
      <4>3. shards'[id] = [n \in ShardIndexes |-> shards'[id][n]]
        BY <4>1
      <4> QED
        BY <2>2, <3>2, <3>5, <4>2, <4>3 DEF ShardsFit
    <3> QED
      BY <3>4, <3>5
  <2> QED
    BY <2>1, <2>2
<1>9. \A s \in Sessions : PointerFits(s)'
  <2> SUFFICES ASSUME NEW s \in Sessions PROVE PointerFits(s)'
    OBVIOUS
  <2>1. pointers'[s].chain \in {pointers[s].chain, meta.chain}
    BY <1>6
  <2>2. pointers[s].chain \in Chains /\ InSomeInterval(pointers[s].chain.path)
    BY DEF DocsInv, PointerFits
  <2> QED
    BY <1>1, <2>1, <2>2 DEF PointerFits, MetaFits, InSomeInterval
<1> QED
  BY <1>5, <1>6, <1>7, <1>8, <1>9 DEF DocsInv

\* A save keeps all documents within the limits.
LEMMA CommittedDocs ==
  ASSUME Typed, DocsInv, NEW id \in Ids, NEW existing \in get_snapshot(id),
         NEW produced \in SUBSET Rows, Committed(id, existing, produced)
  PROVE  DocsInv'
<1>1. \A made \in produced : made.owner \in Sessions \/ made.owner = NoSession
  BY DEF Rows
<1>2. PICK made \in produced, interval \in Intervals, next \in Rows :
        /\ next.owner \in Sessions
        /\ \E meta \in Metas(id, existing, next, interval) : CommitsOne(id, existing, next, meta)
  BY <1>1, CommitPicks
<1> QED
  BY <1>2, CommitDocs

-----------------------------------------------------------------------------
(* What the steps hand to a save *)

\* The rows that are handed to a save.
LEMMA TurnProduces ==
  ASSUME NEW id \in Ids, NEW existing, NEW statuses \in SUBSET Statuses, NEW made \in NewRows(id, statuses)
  PROVE  made \in Rows /\ UnlessAborted(existing, made) \in SUBSET Rows
<1>1. \A session \in Sessions : NamedOwner(id, session) \in Sessions \cup {NoSession}
  BY DEF NamedOwner
<1>2. \A state \in States : state \in SUBSET Parts
  BY FirestoreAssumption
<1>3. made \in Rows
  BY <1>1, <1>2 DEF NewRows, Rows
<1> QED
  BY <1>3 DEF UnlessAborted

\* The row an abort writes.
LEMMA AbortProduces ==
  ASSUME Typed, DocsInv, NEW id \in Ids, NEW existing \in get_snapshot(id)
  PROVE  abort_if_pending(existing) \in SUBSET Rows
<1>1. CASE Exists(id)
  <2>1. existing \in Rows
    BY <1>1, RowsRead
  <2> QED
    BY <2>1 DEF abort_if_pending, Rows, Statuses, TERMINAL_STATUSES
<1>2. CASE ~Exists(id)
  BY <1>2 DEF abort_if_pending, get_snapshot, NoRow
<1> QED
  BY <1>1, <1>2

\* There are no documents.
LEMMA InitDocs == Init => DocsInv
<1> SUFFICES ASSUME Init PROVE DocsInv
  OBVIOUS
<1>1. \A id \in Ids : DocFits(id)
  BY NoneFits DEF Init, DocFits, NoDoc, NoChain
<1>2. \A id \in Ids : ShardsFit(id)
  BY DEF Init, ShardsFit, NoDoc
<1>3. \A s \in Sessions : PointerFits(s)
  BY NoneFits DEF Init, PointerFits, NoPointer, NoChain
<1> QED
  BY <1>1, <1>2, <1>3 DEF Init, DocsInv

\* Deleted documents are as those that never were.
LEMMA DeleteDocs ==
  ASSUME Typed, DocsInv, NEW s \in Sessions, DeleteSession(s)
  PROVE  DocsInv'
<1> DEFINE gone == {id \in Ids : docs[id].owner = s}
<1>1. /\ docs' = [id \in Ids |-> IF id \in gone THEN NoDoc ELSE docs[id]]
      /\ shards' = [id \in Ids |-> IF id \in gone THEN [i \in ShardIndexes |-> NoChunk] ELSE shards[id]]
      /\ pointers' = [pointers EXCEPT ![s] = NoPointer]
  BY DEF DeleteSession
<1> HIDE DEF gone
<1>2. \A id \in Ids : DocFits(id)'
  <2> SUFFICES ASSUME NEW id \in Ids PROVE DocFits(id)'
    OBVIOUS
  <2>1. CASE id \in gone
    <3>1. docs'[id] = NoDoc
      BY <1>1, <2>1
    <3> QED
      BY <3>1, NoneFits DEF DocFits, NoDoc, NoChain, PatchTooLarge, InSomeInterval
  <2>2. CASE id \notin gone
    <3>1. docs'[id] = docs[id] /\ DocFits(id)
      BY <1>1, <2>2 DEF DocsInv
    <3> QED
      BY <3>1 DEF DocFits, PatchTooLarge, InSomeInterval
  <2> QED
    BY <2>1, <2>2
<1>3. \A id \in Ids : ShardsFit(id)'
  <2> SUFFICES ASSUME NEW id \in Ids PROVE ShardsFit(id)'
    OBVIOUS
  <2>1. CASE id \in gone
    BY <1>1, <2>1 DEF ShardsFit, NoDoc
  <2>2. CASE id \notin gone
    <3>1. docs'[id] = docs[id] /\ shards'[id] = shards[id] /\ ShardsFit(id)
      BY <1>1, <2>2 DEF DocsInv
    <3> QED
      BY <3>1 DEF ShardsFit
  <2> QED
    BY <2>1, <2>2
<1>4. \A t \in Sessions : PointerFits(t)'
  <2> SUFFICES ASSUME NEW t \in Sessions PROVE PointerFits(t)'
    OBVIOUS
  <2>1. pointers'[t] \in {pointers[t], NoPointer} /\ PointerFits(t)
    BY <1>1 DEF DocsInv
  <2> QED
    BY <2>1, NoneFits DEF PointerFits, NoPointer, NoChain, InSomeInterval
<1>5. shards' = [id \in Ids |-> shards'[id]] /\ pointers' = [t \in Sessions |-> pointers'[t]]
  BY <1>1 DEF DocsInv
<1> QED
  BY <1>2, <1>3, <1>4, <1>5 DEF DocsInv

\* A pointer that is gone fits.
LEMMA LoseDocs ==
  ASSUME DocsInv, NEW s \in Sessions, LosePointer(s)
  PROVE  DocsInv'
<1>1. docs' = docs /\ shards' = shards /\ pointers' = [pointers EXCEPT ![s] = NoPointer]
  BY DEF LosePointer
<1>2. \A id \in Ids : DocFits(id)' /\ ShardsFit(id)'
  BY <1>1 DEF DocsInv, DocFits, ShardsFit, PatchTooLarge, InSomeInterval
<1>3. \A t \in Sessions : PointerFits(t)'
  <2> SUFFICES ASSUME NEW t \in Sessions PROVE PointerFits(t)'
    OBVIOUS
  <2>1. pointers'[t] \in {pointers[t], NoPointer} /\ PointerFits(t)
    BY <1>1 DEF DocsInv
  <2> QED
    BY <2>1, NoneFits DEF PointerFits, NoPointer, NoChain, InSomeInterval
<1> QED
  BY <1>1, <1>2, <1>3 DEF DocsInv

\* A step of an abort that writes nothing.
LEMMA SameDocs ==
  ASSUME DocsInv, UNCHANGED documents
  PROVE  DocsInv'
BY DEF DocsInv, documents, DocFits, ShardsFit, PointerFits, PatchTooLarge, InSomeInterval

\* The documents fit after every step.
LEMMA NextDocs ==
  ASSUME AInv, DocsInv, [Next]_vars
  PROVE  DocsInv'
<1>1. Typed
  BY DEF AInv
<1>2. ASSUME NEW id \in Ids, SaveTurn(id) PROVE DocsInv'
  <2>1. PICK existing \in get_snapshot(id), made \in NewRows(id, {"completed"}) :
          Committed(id, existing, UnlessAborted(existing, made))
    BY <1>2 DEF SaveTurn
  <2>2. UnlessAborted(existing, made) \in SUBSET Rows
    BY TurnProduces DEF Statuses, TERMINAL_STATUSES
  <2> QED
    BY <1>1, <2>1, <2>2, CommittedDocs
<1>3. ASSUME NEW id \in Ids, SavePending(id) PROVE DocsInv'
  <2>1. PICK existing \in get_snapshot(id), made \in NewRows(id, {"pending"}) :
          Committed(id, existing, {made})
    BY <1>3 DEF SavePending
  <2>2. {made} \in SUBSET Rows
    BY TurnProduces DEF Statuses, TERMINAL_STATUSES
  <2> QED
    BY <1>1, <2>1, <2>2, CommittedDocs
<1>4. ASSUME NEW id \in Ids, Heartbeat(id) PROVE DocsInv'
  <2>1. PICK existing \in get_snapshot(id) : Committed(id, existing, {existing})
    BY <1>4 DEF Heartbeat
  <2>2. Exists(id)
    BY <1>1, <1>4 DEF Heartbeat, Typed, StatusTyped
  <2>3. {existing} \in SUBSET Rows
    BY <1>1, <2>2, RowsRead
  <2> QED
    BY <1>1, <2>1, <2>3, CommittedDocs
<1>5. ASSUME NEW c \in Aborters, CommitAbort(c) PROVE DocsInv'
  <2>1. attempts[c].id \in Ids
    BY <1>1, <1>5 DEF CommitAbort, Typed, Attempt, Resting
  <2>2. PICK existing \in get_snapshot(attempts[c].id) :
          Committed(attempts[c].id, existing, abort_if_pending(existing))
    BY <1>5 DEF CommitAbort
  <2>3. abort_if_pending(existing) \in SUBSET Rows
    BY <1>1, <2>1, AbortProduces
  <2> QED
    BY <1>1, <2>1, <2>2, <2>3, CommittedDocs
<1>6. ASSUME NEW c \in Aborters,
             \/ \E id \in Ids : BeginAbort(c, id)
             \/ RetryAbort(c) \/ GiveUpAbort(c) \/ SkipAbort(c)
      PROVE  DocsInv'
  BY <1>6, SameDocs DEF BeginAbort, RetryAbort, GiveUpAbort, SkipAbort
<1>7. ASSUME NEW s \in Sessions, DeleteSession(s) \/ LosePointer(s) PROVE DocsInv'
  BY <1>1, <1>7, DeleteDocs, LoseDocs
<1>8. CASE UNCHANGED vars
  BY <1>8, SameDocs DEF vars, documents
<1> QED
  BY <1>2, <1>3, <1>4, <1>5, <1>6, <1>7, <1>8 DEF Next

\* What is true in every state.
Invariants == Typed /\ DocsInv /\ RowsInv

\* A document belongs to a session as long as it exists.
LEMMA OwnerTells ==
  ASSUME DocsInv, NEW id \in Ids
  PROVE  /\ Exists(id) <=> docs[id].owner \in Sessions
         /\ ~Exists(id) => docs[id] = NoDoc /\ docs[id].owner = NoSession
<1>1. docs[id] = NoDoc \/ docs[id].kind \in {"checkpoint", "diff"}
  BY DEF DocsInv, DocFits
<1>2. docs[id].kind # "none" => docs[id].owner \in Sessions
  BY DEF DocsInv, DocFits
<1>3. NoDoc.kind = "none" /\ NoDoc.owner = NoSession /\ NoSession \notin Sessions
  BY FirestoreAssumption DEF NoDoc
<1> QED
  BY <1>1, <1>2, <1>3 DEF Exists

-----------------------------------------------------------------------------
(* What is read *)

\* A checkpoint reads as the state it was cut from.
LEMMA CheckpointReads ==
  ASSUME DocsInv, RowsInv, NEW id \in Ids, docs[id].owner \in intact, docs[id].kind = "checkpoint"
  PROVE  _reconstruct(id) = {saved[id].state}
<1> DEFINE chain == docs[id].chain
           state == saved[id].state
<1>1. chain.checkpoint = id /\ chain.path = << >> /\ chain.count \in 1..MaxShards
  BY DEF DocsInv, DocFits
<1>2. /\ state \in SUBSET Parts
      /\ \A i \in 0..(chain.count - 1) : shards[id][i] = [of |-> state, count |-> chain.count]
  BY DEF RowsInv, Whole
<1> HIDE DEF chain, state
<1>3. 0 \in 0..(chain.count - 1)
  BY <1>1, ShardCounts DEF MaxShards
<1>4. ASSUME NEW other \in SUBSET Parts,
             \A i \in 0..(chain.count - 1) :
               shards[chain.checkpoint][i] = [of |-> other, count |-> chain.count]
      PROVE  other = state
  <2>1. [of |-> other, count |-> chain.count] = [of |-> state, count |-> chain.count]
    BY <1>1, <1>2, <1>3, <1>4
  <2>2. [of |-> other, count |-> chain.count].of = [of |-> state, count |-> chain.count].of
    BY <2>1
  <2> QED
    BY <2>2
<1>5. Stitched(chain) = {state}
  BY <1>1, <1>2, <1>4 DEF Stitched
<1>6. Target(chain) = id
  BY <1>1 DEF Target
<1>7. Fold(Stitched(chain), chain.path) = {state}
  BY <1>1, <1>5, FoldOfNone
<1> QED
  BY <1>6, <1>7 DEF _reconstruct, _reconstruct_from, Fold, chain, state

\* A diff reads as the state it was made for when its parent does.
LEMMA DiffReads ==
  ASSUME DocsInv, RowsInv, NEW id \in Ids, docs[id].owner \in intact, docs[id].kind = "diff",
         _reconstruct(docs[id].parent) = {saved[docs[id].parent].state}
  PROVE  _reconstruct(id) = {saved[id].state}
<1> DEFINE p == docs[id].parent
           chain == docs[id].chain
           above == docs[p].chain
<1>1. /\ p \in Ids
      /\ chain = [above EXCEPT !.path = Append(@, id)]
      /\ docs[id].patch = diff_json({saved[p].state}, saved[id].state)
  BY DEF RowsInv, Whole
<1>2. above \in Chains
  BY <1>1 DEF DocsInv, DocFits
<1> HIDE DEF p, chain, above
<1>3. /\ above.path \in Seq(Ids)
      /\ chain.checkpoint = above.checkpoint /\ chain.count = above.count
      /\ chain.path = Append(above.path, id)
  BY <1>1, <1>2 DEF Chains
<1>4. Stitched(chain) = Stitched(above)
  BY <1>3 DEF Stitched
<1>5. Target(chain) = id
  <2>1. Append(above.path, id) # << >> /\ Last(Append(above.path, id)) = id
    BY <1>3 DEF Last
  <2> QED
    BY <1>3, <2>1 DEF Target
<1>6. Fold(Stitched(above), above.path) = {saved[p].state}
  <2>1. _reconstruct_from(above, p) = {saved[p].state}
    BY DEF _reconstruct, p, above
  <2> QED
    BY <2>1 DEF _reconstruct_from, Fold
<1>7. Fold(Stitched(chain), chain.path) = AfterSegment({saved[p].state}, id)
  <2>1. Fold(Stitched(above), Append(above.path, id))
          = AfterSegment(Fold(Stitched(above), above.path), id)
    BY <1>3, FoldAppends
  <2> QED
    BY <1>3, <1>4, <1>6, <2>1
<1>8. AfterSegment({saved[p].state}, id) = {apply_json_patch(saved[p].state, docs[id].patch)}
  BY DEF AfterSegment
<1>9. apply_json_patch(saved[p].state, docs[id].patch) = saved[id].state
  BY <1>1, PatchRoundTrip
<1> QED
  BY <1>5, <1>7, <1>8, <1>9 DEF _reconstruct, _reconstruct_from, Fold, chain

\* Every row of a session that never lost its pointer reads as it was saved:
\* along its chain, which is one shorter for its parent.
LEMMA WholeReads ==
  ASSUME DocsInv, RowsInv, NEW id \in Ids, docs[id].owner \in intact
  PROVE  /\ _reconstruct(id) = {saved[id].state}
         /\ get_snapshot(id) = {saved[id]}
<1> DEFINE Reads(i) == _reconstruct(i) = {saved[i].state}
           Length(i) == Len(docs[i].chain.path)
           Mine == {i \in Ids : docs[i].owner \in intact}
           Bad == {i \in Mine : ~Reads(i)}
           Lengths == {Length(i) : i \in Bad}
<1>1. \A i \in Mine : Exists(i) /\ Length(i) \in Nat
  <2>1. intact \subseteq Sessions
    BY DEF RowsInv
  <2>2. \A i \in Mine : docs[i].chain.path \in Seq(Ids)
    BY DEF DocsInv, DocFits, Chains
  <2> QED
    BY <2>1, <2>2, OwnerTells
<1>2. Bad = {}
  <2> SUFFICES ASSUME Bad # {} PROVE FALSE
    OBVIOUS
  <2>1. Lengths \subseteq Nat /\ Lengths # {}
    BY <1>1
  <2>2. PICK m \in Lengths : \A n \in Lengths : m <= n
    BY <2>1, LeastOf
  <2>3. PICK i \in Bad : m = Length(i)
    BY <2>2
  <2>4. i \in Ids /\ docs[i].owner \in intact /\ ~Reads(i)
    OBVIOUS
  <2>5. docs[i].kind \in {"checkpoint", "diff"}
    BY <1>1, <2>4 DEF DocsInv, DocFits, Exists, NoDoc
  <2>6. docs[i].kind = "diff"
    BY <2>4, <2>5, CheckpointReads
  <2> DEFINE p == docs[i].parent
  <2>7. /\ p \in Ids /\ docs[p].owner = docs[i].owner
        /\ docs[i].chain = [docs[p].chain EXCEPT !.path = Append(@, i)]
    BY <2>4, <2>6 DEF RowsInv, Whole
  <2>8. Length(p) \in Nat /\ Length(i) = Length(p) + 1
    <3>1. docs[p].chain \in Chains
      BY <2>7 DEF DocsInv, DocFits
    <3> QED
      BY <2>4, <2>7, <3>1 DEF Chains
  <2>9. p \in Bad
    BY <2>4, <2>6, <2>7, DiffReads
  <2> HIDE DEF p, Length, Bad
  <2>10. Length(p) \in Lengths
    BY <2>9
  <2>11. m <= Length(p)
    BY <2>2, <2>10
  <2> QED
    BY <2>3, <2>8, <2>11
<1>3. _reconstruct(id) = {saved[id].state}
  BY <1>2
<1>4. Exists(id)
  BY <1>1
<1>5. saved[id] = RowWith(id, saved[id].state)
  BY DEF RowsInv, Whole
<1> HIDE DEF Bad
<1>6. get_snapshot(id) = {RowWith(id, saved[id].state)}
  BY <1>3, <1>4 DEF get_snapshot
<1> QED
  BY <1>3, <1>5, <1>6

\* The invariant says what the run checks.
LEMMA InvariantsSay ==
  ASSUME Invariants
  PROVE  RowsAreWhole
<1> USE DEF Invariants
<1>1. intact \subseteq Sessions /\ NoSession \notin Sessions
  BY FirestoreAssumption DEF RowsInv
<1>2. DocumentsBounded
  BY DEF DocsInv, DocFits, ShardsFit, InSomeInterval, DocumentsBounded
<1>3. ASSUME NEW id \in Ids, saved[id].owner \in intact \cup {NoSession}
      PROVE  get_snapshot(id) = {saved[id]}
  <2>1. CASE Exists(id)
    <3>1. docs[id].owner = saved[id].owner /\ docs[id].owner \in Sessions
      BY <2>1, OwnerTells DEF RowsInv
    <3> QED
      BY <1>1, <1>3, <3>1, WholeReads
  <2>2. CASE ~Exists(id)
    BY <2>2 DEF RowsInv, get_snapshot
  <2> QED
    BY <2>1, <2>2
<1>4. ASSUME NEW s \in intact
      PROVE  get_session(s) = {IF newest[s] = NoId THEN NoRow ELSE saved[newest[s]]}
  <2>1. CASE newest[s] = NoId
    <3>1. pointers[s] = NoPointer
      BY <2>1 DEF RowsInv, Current
    <3> QED
      BY <2>1, <3>1 DEF get_session
  <2>2. CASE newest[s] # NoId
    <3> DEFINE id == newest[s]
    <3>1. id \in Ids /\ docs[id].owner = s /\ pointers[s] = [current |-> id, chain |-> docs[id].chain]
      BY <2>2 DEF RowsInv, Current
    <3>2. Exists(id)
      BY <1>1, <3>1, OwnerTells
    <3>3. pointers[s] # NoPointer /\ pointers[s].current = id /\ pointers[s].chain = docs[id].chain
      <4>1. NoPointer.current = NoId /\ id # NoId
        BY <2>2 DEF NoPointer
      <4> QED
        BY <3>1, <4>1
    <3>4. _reconstruct(id) = {saved[id].state}
      BY <3>1, WholeReads
    <3>5. saved[id] = RowWith(id, saved[id].state)
      BY <3>1 DEF RowsInv, Whole
    <3> HIDE DEF id
    <3>6. {state \in _reconstruct_from(docs[id].chain, id) : OwnedBy(s, id)} = {saved[id].state}
      BY <3>1, <3>4 DEF _reconstruct, OwnedBy
    <3>7. get_session(s) = {RowWith(id, state) : state \in {saved[id].state}}
      BY <3>2, <3>3, <3>6 DEF get_session
    <3>8. get_session(s) = {RowWith(id, saved[id].state)}
      BY <3>7
    <3> QED
      BY <2>2, <3>5, <3>8 DEF id
  <2> QED
    BY <2>1, <2>2
<1> QED
  BY <1>2, <1>3, <1>4 DEF ReadsBack, RowsAreWhole

\* What a save hands over is of the session the row has, or says whose it is.
OwnersHold(id, produced) ==
  \A made \in produced :
    \/ made.owner = NoSession /\ docs[id].owner \in {NoSession, made.session}
    \/ made.owner = made.session

\* A row that is there is not handed to another session.
LEMMA CommitPicksOwn ==
  ASSUME Typed, DocsInv, NEW id \in Ids, NEW existing \in get_snapshot(id),
         NEW produced \in SUBSET Rows, OwnersHold(id, produced), Committed(id, existing, produced)
  PROVE  \E interval \in Intervals, next \in Rows :
           /\ next.owner = next.session
           /\ docs[id].owner \in {NoSession, next.owner}
           /\ \E meta \in Metas(id, existing, next, interval) : CommitsOne(id, existing, next, meta)
<1>1. \A made \in produced : made.session \in Sessions /\ (made.owner \in Sessions \/ made.owner = NoSession)
  BY DEF Rows
<1>2. PICK made \in produced, interval \in Intervals, next \in Rows :
           /\ ~Refused(existing, made)
           /\ next = stamp_store_fields(made)
           /\ next.owner \in Sessions
           /\ next.session = made.session
           /\ \E meta \in Metas(id, existing, next, interval) : CommitsOne(id, existing, next, meta)
  BY <1>1, CommitPicks
<1>3. made.session \in Sessions /\ NoSession \notin Sessions
  BY <1>1, FirestoreAssumption
<1>4. CASE made.owner = NoSession /\ docs[id].owner \in {NoSession, made.session}
  <2>1. next.owner = made.session
    BY <1>1, <1>2, <1>4 DEF stamp_store_fields, Rows
  <2> QED
    BY <1>2, <1>4, <2>1
<1>5. CASE made.owner = made.session
  <2>1. next.owner = made.session
    BY <1>2, <1>3, <1>5 DEF stamp_store_fields
  <2>2. CASE Exists(id)
    <3>1. existing.owner = docs[id].owner /\ existing.status = docs[id].status
      BY <2>2, RowsRead
    <3>2. docs[id].status # "absent" /\ docs[id].owner \in Sessions
      BY <2>2, OwnerTells DEF Typed, StatusTyped
    <3>3. existing.owner = made.owner
      BY <1>2, <1>3, <1>5, <3>1, <3>2 DEF Refused, ForeignSession, Absent
    <3> QED
      BY <1>2, <1>5, <2>1, <3>1, <3>3
  <2>3. CASE ~Exists(id)
    BY <1>2, <2>1, <2>3, OwnerTells
  <2> QED
    BY <2>2, <2>3
<1> QED
  BY <1>4, <1>5 DEF OwnersHold

-----------------------------------------------------------------------------
(* What the save of a row of an intact session writes *)

\* A rewritten row keeps its parent; its documents stay what they were, or its
\* session is at it and nothing is built on it.
Rewrites(id, next, meta) ==
  /\ docs[id].parent = next.parent
  /\ \/ /\ next.state = saved[id].state
        /\ meta.kind = docs[id].kind /\ meta.chain = docs[id].chain
        /\ meta.kind = "diff" => meta.patch = docs[id].patch
     \/ /\ newest[next.owner] = id
        /\ docs[id].kind = "checkpoint" => meta.kind = "checkpoint"
        /\ meta.kind = "diff" =>
             /\ meta.chain = docs[id].chain
             /\ meta.patch = diff_json({saved[next.parent].state}, next.state)

\* A new row is whole in itself, or a diff on the row it names as its parent.
Extends(id, next, meta) ==
  meta.kind = "diff" =>
    LET p == next.parent IN
    /\ p \in Ids \ {id}
    /\ Exists(p)
    /\ docs[p].owner = next.owner
    /\ meta.chain = [docs[p].chain EXCEPT !.path = Append(@, id)]
    /\ meta.patch = diff_json({saved[p].state}, next.state)

\* A diff, or the checkpoint written when it is too large.
LEMMA DiffMetaIs ==
  ASSUME NEW id, NEW chain, NEW from, NEW state
  PROVE  LET meta == DiffMeta(id, chain, from, state)
             patch == diff_json(from, state) IN
         /\ meta.kind \in {"checkpoint", "diff"}
         /\ PatchTooLarge(patch) => meta = CheckpointMeta(id, state)
         /\ meta.kind = "diff" => meta.chain = chain /\ meta.patch = patch /\ ~PatchTooLarge(patch)
         /\ ~PatchTooLarge(patch) => meta.kind = "diff"
BY DEF DiffMeta, CheckpointMeta

\* The save of a row that is there.
LEMMA UpsertWrites ==
  ASSUME Invariants, NEW id \in Ids, Exists(id), NEW existing \in get_snapshot(id),
         NEW next \in Rows, next.owner \in intact, docs[id].owner = next.owner,
         NEW meta \in UpsertMeta(id, existing, next)
  PROVE  Rewrites(id, next, meta)
<1> USE DEF Invariants
<1> DEFINE s == next.owner
           parent == docs[id].parent
           parentExists == parent # NoId /\ Exists(parent)
           from == IF parentExists THEN _reconstruct(parent) ELSE {}
<1>1. existing = saved[id] /\ existing = RowWith(id, saved[id].state)
  <2>1. get_snapshot(id) = {saved[id]}
    BY WholeReads
  <2> QED
    BY <2>1 DEF RowsInv, Whole
<1>2. existing.parent = parent
  BY <1>1 DEF RowWith
<1>3. /\ existing.parent = next.parent
      /\ ~InteriorRewrite(id, existing, next)
      /\ docs[id].kind = "checkpoint" => meta = CheckpointMeta(id, next.state)
      /\ docs[id].kind # "checkpoint" =>
           /\ ~(parentExists /\ (from = {} \/ docs[parent].owner # next.owner))
           /\ meta = DiffMeta(id, docs[id].chain, from, next.state)
  BY DEF UpsertMeta
<1>4. Whole(id)
  BY DEF RowsInv
<1>5. newest[s] # NoId /\ pointers[s] # NoPointer /\ pointers[s].current = newest[s]
  <2>1. newest[s] # NoId
    BY <1>4 DEF Whole
  <2>2. pointers[s] = [current |-> newest[s], chain |-> docs[newest[s]].chain]
    BY <2>1 DEF RowsInv, Current
  <2> QED
    BY <2>1, <2>2 DEF NoPointer
<1>6. next.state = saved[id].state \/ newest[s] = id
  BY <1>1, <1>3, <1>5 DEF InteriorRewrite
<1>7. CASE docs[id].kind = "checkpoint"
  <2>1. meta = CheckpointMeta(id, next.state)
    BY <1>3, <1>7
  <2>2. /\ docs[id].chain \in Chains /\ docs[id].chain.checkpoint = id /\ docs[id].chain.path = << >>
        /\ docs[id].chain.count = ShardCount(saved[id].state)
    BY <1>4, <1>7 DEF DocsInv, DocFits, Whole
  <2>3. docs[id].chain = [checkpoint |-> id, count |-> ShardCount(saved[id].state), path |-> << >>]
    BY <2>2 DEF Chains
  <2>4. CASE next.state = saved[id].state
    BY <1>2, <1>3, <1>7, <2>1, <2>3, <2>4 DEF Rewrites, CheckpointMeta
  <2>5. CASE newest[s] = id
    BY <1>2, <1>3, <1>7, <2>1, <2>5 DEF Rewrites, CheckpointMeta
  <2> QED
    BY <1>6, <2>4, <2>5
<1>8. CASE docs[id].kind # "checkpoint"
  <2>1. docs[id].kind = "diff"
    BY <1>8 DEF DocsInv, DocFits, Exists, NoDoc
  <2>2. /\ parent \in Ids /\ Exists(parent) /\ docs[parent].owner = docs[id].owner
        /\ docs[id].patch = diff_json({saved[parent].state}, saved[id].state)
    BY <1>4, <2>1 DEF Whole
  <2>3. from = {saved[parent].state}
    <3>1. parent # NoId
      BY <2>2, FirestoreAssumption DEF NoId
    <3>2. _reconstruct(parent) = {saved[parent].state}
      BY <2>2, WholeReads
    <3> QED
      BY <2>2, <3>1, <3>2
  <2> HIDE DEF from
  <2>4. meta = DiffMeta(id, docs[id].chain, {saved[parent].state}, next.state)
    BY <1>3, <1>8, <2>3
  <2>5. ~PatchTooLarge(docs[id].patch)
    BY DEF DocsInv, DocFits
  <2>6. CASE next.state = saved[id].state
    <3>1. meta.kind = "diff" /\ meta.chain = docs[id].chain /\ meta.patch = docs[id].patch
      BY <2>2, <2>4, <2>5, <2>6, DiffMetaIs
    <3> QED
      BY <1>2, <1>3, <2>1, <2>6, <3>1 DEF Rewrites
  <2>7. CASE newest[s] = id
    <3>1. meta.kind = "diff" => /\ meta.chain = docs[id].chain
                                /\ meta.patch = diff_json({saved[parent].state}, next.state)
      BY <2>4, DiffMetaIs
    <3> QED
      BY <1>2, <1>3, <1>8, <2>7, <3>1 DEF Rewrites
  <2> QED
    BY <1>6, <2>6, <2>7
<1> QED
  BY <1>7, <1>8

\* The save of a new row.
LEMMA CreateWrites ==
  ASSUME Invariants, NEW id \in Ids, ~Exists(id), NEW next \in Rows, next.owner \in intact,
         NEW interval, NEW meta \in CreateMeta(id, next, interval)
  PROVE  Extends(id, next, meta)
<1> USE DEF Invariants
<1> DEFINE s == next.owner
           p == next.parent
           chains == ParentChain(p, s)
<1>1. s \in Sessions /\ p \in Ids \cup {NoId} /\ NoId \notin Ids
  BY FirestoreAssumption DEF Rows, RowsInv, NoId
<1>2. ASSUME NEW chain \in chains
      PROVE  p \in Ids /\ Exists(p) /\ chain = docs[p].chain
  <2>1. CASE p # NoId /\ pointers[s].current = p
    <3>1. chain = pointers[s].chain
      BY <2>1 DEF ParentChain
    <3>2. newest[s] # NoId
      <4>1. newest[s] = NoId => pointers[s] = NoPointer
        BY DEF RowsInv, Current
      <4>2. pointers[s] # NoPointer
        BY <2>1 DEF NoPointer
      <4> QED
        BY <4>1, <4>2
    <3>3. /\ newest[s] \in Ids /\ docs[newest[s]].owner = s
          /\ pointers[s] = [current |-> newest[s], chain |-> docs[newest[s]].chain]
      BY <3>2 DEF RowsInv, Current
    <3>4. newest[s] = p
      BY <2>1, <3>3
    <3> QED
      BY <1>1, <3>1, <3>3, <3>4, OwnerTells
  <2>2. CASE ~(p # NoId /\ pointers[s].current = p)
    BY <1>1, <2>2 DEF ParentChain
  <2> QED
    BY <2>1, <2>2
<1> HIDE DEF chains
<1>3. CASE meta = CheckpointMeta(id, next.state)
  BY <1>3 DEF Extends, CheckpointMeta
<1>4. CASE meta # CheckpointMeta(id, next.state)
  <2>1. PICK chain \in chains : meta \in DiffOnParent(id, chain, next)
    BY <1>4 DEF CreateMeta, chains
  <2> DEFINE from == _reconstruct_from(chain, p)
             grown == [chain EXCEPT !.path = Append(@, id)]
  <2>2. p \in Ids /\ Exists(p) /\ chain = docs[p].chain
    BY <1>2
  <2>3. /\ ~(from = {} \/ docs[p].owner # s)
        /\ meta = DiffMeta(id, grown, from, next.state)
    BY <2>1, <2>2 DEF DiffOnParent
  <2>4. from = {saved[p].state}
    <3>1. _reconstruct(p) = {saved[p].state}
      BY <2>2, <2>3, WholeReads
    <3> QED
      BY <2>2, <3>1 DEF _reconstruct
  <2> HIDE DEF from, grown
  <2>5. meta.kind = "diff" => meta.chain = grown /\ meta.patch = diff_json({saved[p].state}, next.state)
    BY <2>3, <2>4, DiffMetaIs
  <2>6. p # id
    BY <2>2
  <2> QED
    BY <2>2, <2>3, <2>5, <2>6 DEF Extends, grown
<1> QED
  BY <1>3, <1>4

-----------------------------------------------------------------------------
(* A committed row leaves every row whole *)

\* In sessions that are intact: the row itself is whole, nothing that is built on
\* it moves, and the pointer names the row created last.
LEMMA CommitRows ==
  ASSUME Invariants, DocsInv', NEW id \in Ids, NEW existing \in get_snapshot(id),
         NEW next \in Rows, next.owner = next.session, docs[id].owner \in {NoSession, next.owner},
         NEW interval \in Intervals, NEW meta \in Metas(id, existing, next, interval),
         CommitsOne(id, existing, next, meta), intact' = intact
  PROVE  RowsInv'
<1> USE DEF Invariants
<1> DEFINE s == next.owner
<1>1. /\ s \in Sessions /\ next.state \in SUBSET Parts /\ id # NoId
      /\ intact \subseteq Sessions /\ NoSession \notin Sessions /\ NoId \notin Ids
  BY FirestoreAssumption DEF Rows, RowsInv, NoId
<1>2. /\ docs'[id] = [kind |-> meta.kind, status |-> next.status, owner |-> s,
                      parent |-> next.parent, chain |-> meta.chain, patch |-> meta.patch]
      /\ \A i \in Ids : i # id => docs'[i] = docs[i]
  BY DEF CommitsOne, Typed
<1>3. /\ shards'[id] = _write_shards(id, meta, next.state)
      /\ \A i \in Ids : i # id => shards'[i] = shards[i]
  BY DEF CommitsOne, DocsInv
<1>4. /\ saved' = [i \in Ids |-> saved'[i]]
      /\ saved'[id] = next
      /\ \A i \in Ids : i # id => saved'[i] = saved[i]
  BY DEF CommitsOne, RowsInv
<1>5. /\ newest' = [t \in Sessions |-> newest'[t]]
      /\ \A t \in Sessions : t # s => newest'[t] = newest[t]
      /\ Exists(id) => newest'[s] = newest[s]
      /\ ~Exists(id) => newest'[s] = id
  BY <1>1 DEF CommitsOne, RowsInv
<1>6. /\ \A t \in Sessions : t # s => pointers'[t] = pointers[t]
      /\ PointerMoves(id, next) => pointers'[s] = [current |-> id, chain |-> meta.chain]
      /\ ~PointerMoves(id, next) => pointers'[s] = pointers[s]
  BY <1>1 DEF CommitsOne, DocsInv
<1>7. /\ MetaFits(id, meta, next.state)
      /\ docs[id].kind = "checkpoint" => meta.kind = "checkpoint"
  BY <1>1, MetasFit
<1>8. docs'[id].kind # "none" /\ docs'[id].owner = s
  BY <1>1, <1>2, <1>7 DEF MetaFits
<1>9. /\ Exists(id)' /\ \A i \in Ids : i # id => (Exists(i)' <=> Exists(i))
  BY <1>2, <1>7 DEF Exists, MetaFits
\* The ghosts of rows that are not there, and of owners.
<1>10. /\ \A i \in Ids : ~Exists(i)' => saved'[i] = NoRow
       /\ \A i \in Ids : Exists(i)' => saved'[i].owner = docs'[i].owner
  BY <1>2, <1>4, <1>9 DEF RowsInv
<1>11. s \in intact => /\ Exists(id) => Rewrites(id, next, meta)
                       /\ ~Exists(id) => Extends(id, next, meta)
  <2> SUFFICES ASSUME s \in intact
               PROVE  /\ Exists(id) => Rewrites(id, next, meta)
                      /\ ~Exists(id) => Extends(id, next, meta)
    OBVIOUS
  <2>1. ASSUME Exists(id) PROVE Rewrites(id, next, meta)
    <3>1. docs[id].owner = s
      BY <1>1, <2>1, OwnerTells
    <3>2. meta \in UpsertMeta(id, existing, next)
      BY <2>1 DEF Metas
    <3> QED
      BY <2>1, <3>1, <3>2, UpsertWrites
  <2>2. ASSUME ~Exists(id) PROVE Extends(id, next, meta)
    <3>1. meta \in CreateMeta(id, next, interval)
      BY <2>2 DEF Metas
    <3> QED
      BY <2>2, <3>1, CreateWrites
  <2> QED
    BY <2>1, <2>2
<1>12. Exists(id) => docs[id].owner = s
  BY <1>1, OwnerTells
<1>13. s \in intact => newest'[s] # NoId
  <2>1. CASE Exists(id)
    <3>1. s \in intact => Whole(id)
      BY <1>12, <2>1 DEF RowsInv
    <3> QED
      BY <1>5, <1>12, <2>1, <3>1 DEF Whole
  <2>2. CASE ~Exists(id)
    BY <1>1, <1>5, <2>2
  <2> QED
    BY <2>1, <2>2
\* The row itself, in a session that is intact.
<1>14. ASSUME s \in intact PROVE Whole(id)'
  <2>1. saved'[id] = RowWith(id, saved[id].state)'
    BY <1>2, <1>4 DEF RowWith, Rows
  <2>2. saved'[id].state \in SUBSET Parts
    BY <1>1, <1>4
  <2>3. newest'[docs'[id].owner] # NoId
    BY <1>2, <1>13, <1>14
  <2>4. ASSUME meta.kind = "checkpoint"
        PROVE  /\ docs'[id].chain.count = ShardCount(saved'[id].state)
               /\ \A i \in 0..(docs'[id].chain.count - 1) :
                    shards'[id][i] = [of |-> saved'[id].state, count |-> docs'[id].chain.count]
    <3>1. meta.chain.count = ShardCount(next.state)
      BY <1>7, <2>4 DEF MetaFits
    <3>2. \A i \in 0..(meta.chain.count - 1) : i \in ShardIndexes /\ i < meta.chain.count
      <4>1. meta.chain.count \in 1..MaxShards
        BY <1>1, <3>1, ShardCounts
      <4>2. MaxShards \in Nat /\ meta.chain.count \in Nat /\ meta.chain.count <= MaxShards
        <5>1. MaxShards \in 1..MaxShards
          BY ShardCounts DEF MaxShards
        <5> QED
          BY <4>1, <5>1
      <4> HIDE DEF MaxShards
      <4> QED
        BY <4>2 DEF ShardIndexes
    <3>3. \A i \in 0..(meta.chain.count - 1) :
            shards'[id][i] = [of |-> next.state, count |-> meta.chain.count]
      BY <1>3, <2>4, <3>2 DEF _write_shards
    <3> QED
      BY <1>2, <1>4, <3>1, <3>3
  <2>5. ASSUME meta.kind = "diff"
        PROVE  /\ next.parent \in Ids \ {id}
               /\ Exists(next.parent)
               /\ docs[next.parent].owner = s
               /\ meta.chain = [docs[next.parent].chain EXCEPT !.path = Append(@, id)]
               /\ meta.patch = diff_json({saved[next.parent].state}, next.state)
    <3>1. CASE Exists(id)
      <4>1. Rewrites(id, next, meta) /\ docs[id].owner = s
        BY <1>11, <1>12, <1>14, <3>1
      <4>2. docs[id].kind = "diff" /\ docs[id].parent = next.parent
        BY <2>5, <3>1, <4>1 DEF Rewrites, DocsInv, DocFits, Exists, NoDoc
      <4>3. Whole(id)
        BY <1>14, <4>1 DEF RowsInv
      <4> QED
        BY <2>5, <4>1, <4>2, <4>3 DEF Rewrites, Whole
    <3>2. CASE ~Exists(id)
      BY <1>11, <1>14, <2>5, <3>2 DEF Extends
    <3> QED
      BY <3>1, <3>2
  <2> DEFINE p == docs'[id].parent
  <2>6. p = next.parent /\ docs'[id].chain = meta.chain /\ docs'[id].patch = meta.patch
        /\ docs'[id].kind = meta.kind /\ docs'[id].owner = s
    BY <1>2
  <2> HIDE DEF p
  <2>7. ASSUME meta.kind = "diff"
        PROVE  /\ p \in Ids \ {id}
               /\ docs'[p].kind # "none"
               /\ docs'[p].owner = docs'[id].owner
               /\ docs'[id].chain = [docs'[p].chain EXCEPT !.path = Append(@, id)]
               /\ docs'[id].patch = diff_json({saved'[p].state}, saved'[id].state)
    <3>1. docs'[p] = docs[p] /\ saved'[p] = saved[p] /\ p \in Ids \ {id}
      BY <1>2, <1>4, <2>5, <2>6, <2>7
    <3>2. docs[p].kind # "none"
      BY <2>5, <2>6, <2>7 DEF Exists
    <3> QED
      BY <1>4, <2>5, <2>6, <2>7, <3>1, <3>2
  <2>8. docs'[id].parent = p
    BY DEF p
  <2> QED
    BY <2>1, <2>2, <2>3, <2>4, <2>6, <2>7, <2>8, Zenon DEF Whole, Exists
\* The others, whose parent it may be.
<1>15. ASSUME NEW i \in Ids, i # id, docs'[i].owner \in intact PROVE Whole(i)'
  <2> DEFINE t == docs[i].owner
             p == docs[i].parent
  <2>1. docs'[i] = docs[i] /\ shards'[i] = shards[i] /\ saved'[i] = saved[i]
    BY <1>2, <1>3, <1>4, <1>15
  <2>2. Whole(i) /\ t \in Sessions
    BY <1>1, <1>15, <2>1 DEF RowsInv
  <2>3. newest'[t] # NoId
    BY <1>5, <1>13, <1>15, <2>1, <2>2 DEF Whole
  <2>4. ASSUME docs[i].kind = "diff"
        PROVE  /\ docs'[p].owner = t
               /\ docs'[p].chain = docs[p].chain
               /\ docs'[p].kind # "none"
               /\ saved'[p].state = saved[p].state
    <3>1. p \in Ids \ {i} /\ Exists(p) /\ docs[p].owner = t
      BY <2>2, <2>4 DEF Whole
    <3>2. CASE p # id
      BY <1>2, <1>4, <3>1, <3>2 DEF Exists
    <3>3. CASE p = id
      <4>1. t = s /\ s \in intact
        BY <1>12, <1>15, <2>1, <3>1, <3>3
      <4>2. Rewrites(id, next, meta)
        BY <1>11, <3>1, <3>3, <4>1
      <4>3. newest[s] # id
        BY <1>1, <2>4, <3>3, <4>1 DEF RowsInv, Current
      <4>4. next.state = saved[id].state /\ meta.chain = docs[id].chain
        BY <4>2, <4>3 DEF Rewrites
      <4>5. docs'[id].owner = s /\ docs'[id].chain = meta.chain /\ docs'[id].kind # "none"
        BY <1>2, <1>8
      <4>6. saved'[id].state = next.state
        BY <1>4
      <4> HIDE DEF s
      <4> QED
        BY <3>3, <4>1, <4>4, <4>5, <4>6
    <3> QED
      BY <3>2, <3>3
  <2>5. saved'[i] = RowWith(i, saved[i].state)'
    BY <2>1, <2>2 DEF RowWith, Whole
  <2> HIDE DEF t
  <2>6. docs[i].owner = t
    BY DEF t
  <2> QED
    BY <2>1, <2>2, <2>3, <2>4, <2>5, <2>6, ZenonT(60) DEF Whole, Exists
<1>16. ASSUME NEW i \in Ids, docs'[i].owner \in intact PROVE Whole(i)'
  <2>1. CASE i = id
    <3>1. s \in intact
      BY <1>8, <1>16, <2>1
    <3> QED
      BY <1>14, <2>1, <3>1, Zenon
  <2>2. CASE i # id
    BY <1>15, <1>16, <2>2
  <2> QED
    BY <2>1, <2>2
\* Where the sessions are.
<1>17. ASSUME NEW t \in intact, t # s PROVE Current(t)'
  <2> DEFINE n == newest[t]
  <2>1. newest'[t] = n /\ pointers'[t] = pointers[t] /\ Current(t)
    BY <1>1, <1>5, <1>6, <1>17 DEF RowsInv
  <2>2. CASE n = NoId
    BY <2>1, <2>2 DEF Current
  <2>3. CASE n # NoId
    <3>1. /\ n \in Ids /\ docs[n].owner = t
          /\ pointers[t] = [current |-> n, chain |-> docs[n].chain]
          /\ \A c \in Ids : docs[c].kind = "diff" /\ docs[c].owner = t => docs[c].parent # n
      BY <2>1, <2>3 DEF Current
    <3>2. n # id
      BY <1>1, <1>17, <3>1
    <3>3. docs'[n] = docs[n]
      BY <1>2, <3>1, <3>2
    <3>4. \A c \in Ids : docs'[c].kind = "diff" /\ docs'[c].owner = t => docs'[c].parent # n
      BY <1>2, <1>8, <1>17, <3>1
    <3> QED
      BY <2>1, <2>3, <3>1, <3>3, <3>4 DEF Current
  <2> QED
    BY <2>2, <2>3
<1>18. ASSUME s \in intact PROVE Current(s)'
  <2>1. CASE Exists(id)
    <3> DEFINE n == newest[s]
    <3>1. n # NoId /\ newest'[s] = n
      BY <1>5, <1>13, <1>18, <2>1
    <3>2. /\ n \in Ids /\ docs[n].owner = s
          /\ pointers[s] = [current |-> n, chain |-> docs[n].chain]
          /\ \A c \in Ids : docs[c].kind = "diff" /\ docs[c].owner = s => docs[c].parent # n
      BY <1>18, <3>1 DEF RowsInv, Current
    <3>3. Rewrites(id, next, meta) /\ docs[id].owner = s
      BY <1>11, <1>12, <1>18, <2>1
    <3>4. docs'[n].owner = s
      BY <1>2, <1>8, <3>2
    <3>5. pointers'[s] = [current |-> n, chain |-> docs'[n].chain]
      <4>1. pointers[s] # NoPointer /\ pointers[s].current = n
        BY <3>1, <3>2 DEF NoPointer
      <4>2. CASE n = id
        BY <1>2, <1>6, <4>1, <4>2 DEF PointerMoves
      <4>3. CASE n # id
        BY <1>2, <1>6, <2>1, <3>2, <4>1, <4>3 DEF PointerMoves
      <4> QED
        BY <4>2, <4>3
    <3>6. \A c \in Ids : docs'[c].kind = "diff" /\ docs'[c].owner = s => docs'[c].parent # n
      <4> SUFFICES ASSUME NEW c \in Ids, docs'[c].kind = "diff", docs'[c].owner = s
                   PROVE  docs'[c].parent # n
        OBVIOUS
      <4>1. CASE c # id
        BY <1>2, <3>2, <4>1
      <4>2. CASE c = id
        <5>1. docs[id].kind = "diff" /\ docs'[id].parent = docs[id].parent
          BY <1>2, <1>7, <2>1, <3>3, <4>2 DEF Rewrites, DocsInv, DocFits, Exists, NoDoc
        <5> QED
          BY <3>2, <3>3, <4>2, <5>1
      <4> QED
        BY <4>1, <4>2
    <3> QED
      BY <3>1, <3>2, <3>4, <3>5, <3>6 DEF Current
  <2>2. CASE ~Exists(id)
    <3>1. newest'[s] = id /\ pointers'[s] = [current |-> id, chain |-> docs'[id].chain]
      BY <1>2, <1>5, <1>6, <2>2 DEF PointerMoves
    <3>2. \A c \in Ids : docs'[c].kind = "diff" /\ docs'[c].owner = s => docs'[c].parent # id
      <4> SUFFICES ASSUME NEW c \in Ids, docs'[c].kind = "diff", docs'[c].owner = s
                   PROVE  docs'[c].parent # id
        OBVIOUS
      <4>1. CASE c # id
        <5>1. docs'[c] = docs[c]
          BY <1>2, <4>1
        <5>2. Whole(c)
          BY <1>18, <5>1 DEF RowsInv
        <5> QED
          BY <2>2, <5>1, <5>2 DEF Whole
      <4>2. CASE c = id
        BY <1>2, <1>11, <1>18, <2>2, <4>2 DEF Extends
      <4> QED
        BY <4>1, <4>2
    <3>3. docs'[id].owner = s
      BY <1>8
    <3> QED
      BY <1>1, <3>1, <3>2, <3>3 DEF Current
  <2> QED
    BY <2>1, <2>2
<1>19. \A t \in intact : Current(t)'
  BY <1>17, <1>18
<1> QED
  BY <1>1, <1>4, <1>5, <1>10, <1>16, <1>19 DEF RowsInv

\* A save leaves every row whole.
LEMMA CommittedRows ==
  ASSUME Invariants, NEW id \in Ids, NEW existing \in get_snapshot(id),
         NEW produced \in SUBSET Rows, OwnersHold(id, produced),
         Committed(id, existing, produced), intact' = intact
  PROVE  RowsInv'
<1>1. DocsInv'
  BY CommittedDocs DEF Invariants
<1>2. PICK interval \in Intervals, next \in Rows :
           /\ next.owner = next.session
           /\ docs[id].owner \in {NoSession, next.owner}
           /\ \E meta \in Metas(id, existing, next, interval) : CommitsOne(id, existing, next, meta)
  BY CommitPicksOwn DEF Invariants
<1> QED
  BY <1>1, <1>2, CommitRows

\* There are no rows.
LEMMA InitRows == Init => RowsInv
<1> SUFFICES ASSUME Init PROVE RowsInv
  OBVIOUS
<1>1. /\ \A id \in Ids : docs[id] = NoDoc /\ saved[id] = NoRow
      /\ \A s \in Sessions : newest[s] = NoId /\ pointers[s] = NoPointer
      /\ intact = Sessions
      /\ saved = [id \in Ids |-> saved[id]] /\ newest = [s \in Sessions |-> newest[s]]
  BY DEF Init
<1>2. NoDoc.kind = "none" /\ NoDoc.owner = NoSession /\ NoSession \notin Sessions
  BY FirestoreAssumption DEF NoDoc
<1> QED
  BY <1>1, <1>2 DEF RowsInv, Current, Exists

\* A deleted session is as good as new, and the others do not notice.
LEMMA DeleteRows ==
  ASSUME Invariants, NEW s \in Sessions, DeleteSession(s)
  PROVE  RowsInv'
<1> USE DEF Invariants
<1> DEFINE gone == {id \in Ids : docs[id].owner = s}
<1>1. /\ \A id \in Ids : id \in gone => docs'[id] = NoDoc /\ saved'[id] = NoRow
      /\ \A id \in Ids : id \notin gone =>
           docs'[id] = docs[id] /\ saved'[id] = saved[id] /\ shards'[id] = shards[id]
      /\ saved' = [id \in Ids |-> saved'[id]]
  BY DEF DeleteSession
<1>2. /\ pointers'[s] = NoPointer /\ newest'[s] = NoId
      /\ \A t \in Sessions : t # s => pointers'[t] = pointers[t] /\ newest'[t] = newest[t]
      /\ newest' = [t \in Sessions |-> newest'[t]]
      /\ intact' = intact \cup {s}
  BY DEF DeleteSession, DocsInv, RowsInv
<1>3. NoDoc.kind = "none" /\ NoDoc.owner = NoSession /\ NoSession \notin Sessions
  BY FirestoreAssumption DEF NoDoc
<1>4. intact \subseteq Sessions /\ intact' \subseteq Sessions
  BY <1>2 DEF RowsInv
<1>5. \A id \in Ids : id \in gone <=> docs[id].owner = s
  OBVIOUS
<1> HIDE DEF gone
<1>6. /\ \A id \in Ids : ~Exists(id)' => saved'[id] = NoRow
      /\ \A id \in Ids : Exists(id)' => saved'[id].owner = docs'[id].owner
  BY <1>1, <1>3 DEF Exists, RowsInv
<1>7. ASSUME NEW id \in Ids, docs'[id].owner \in intact' PROVE Whole(id)'
  <2> DEFINE t == docs[id].owner
             p == docs[id].parent
  <2>1. id \notin gone
    BY <1>1, <1>3, <1>4, <1>7
  <2>2. docs'[id] = docs[id] /\ saved'[id] = saved[id] /\ shards'[id] = shards[id]
    BY <1>1, <2>1
  <2>3. t # s /\ t \in intact /\ t \in Sessions
    BY <1>2, <1>4, <1>5, <1>7, <2>1, <2>2
  <2>4. Whole(id) /\ newest'[t] = newest[t]
    BY <1>2, <2>3 DEF RowsInv
  <2>5. ASSUME docs[id].kind = "diff"
        PROVE  docs'[p] = docs[p] /\ saved'[p] = saved[p]
    <3>1. p \in Ids /\ docs[p].owner = t
      BY <2>4, <2>5 DEF Whole
    <3> QED
      BY <1>1, <1>5, <2>3, <3>1
  <2>6. saved'[id] = RowWith(id, saved[id].state)'
    BY <2>2, <2>4 DEF RowWith, Whole
  <2> QED
    BY <2>2, <2>4, <2>5, <2>6, ZenonT(60) DEF Whole, Exists
<1>8. ASSUME NEW t \in intact' PROVE Current(t)'
  <2>1. CASE t = s
    BY <1>2, <2>1 DEF Current
  <2>2. CASE t # s
    <3> DEFINE n == newest[t]
    <3>1. Current(t) /\ newest'[t] = n /\ pointers'[t] = pointers[t] /\ t \in Sessions
      BY <1>2, <1>4, <1>8, <2>2 DEF RowsInv
    <3>2. CASE n = NoId
      BY <3>1, <3>2 DEF Current
    <3>3. CASE n # NoId
      <4>1. /\ n \in Ids /\ docs[n].owner = t
            /\ pointers[t] = [current |-> n, chain |-> docs[n].chain]
            /\ \A c \in Ids : docs[c].kind = "diff" /\ docs[c].owner = t => docs[c].parent # n
        BY <3>1, <3>3 DEF Current
      <4>2. docs'[n] = docs[n]
        BY <1>1, <1>5, <2>2, <4>1
      <4>3. \A c \in Ids : docs'[c].kind = "diff" /\ docs'[c].owner = t => docs'[c].parent # n
        BY <1>1, <1>3, <4>1
      <4> QED
        BY <3>1, <3>3, <4>1, <4>2, <4>3 DEF Current
    <3> QED
      BY <3>2, <3>3
  <2> QED
    BY <2>1, <2>2
<1> QED
  BY <1>1, <1>2, <1>4, <1>6, <1>7, <1>8 DEF RowsInv

\* A session that loses its pointer is not spoken of any more.
LEMMA LoseRows ==
  ASSUME Invariants, NEW s \in Sessions, LosePointer(s)
  PROVE  RowsInv'
<1> USE DEF Invariants
<1>1. /\ docs' = docs /\ shards' = shards /\ saved' = saved /\ newest' = newest
      /\ intact' = intact \ {s}
      /\ \A t \in Sessions : t # s => pointers'[t] = pointers[t]
  BY DEF LosePointer, DocsInv
<1>2. \A id \in Ids : Whole(id)' <=> Whole(id)
  BY <1>1 DEF Whole, Exists, RowWith
<1>3. \A t \in intact' : Current(t)'
  BY <1>1 DEF RowsInv, Current
<1> QED
  BY <1>1, <1>2, <1>3 DEF RowsInv, Exists

\* A step of an abort that writes nothing.
LEMMA SameRows ==
  ASSUME RowsInv, UNCHANGED <<documents, ghosts>>
  PROVE  RowsInv'
<1>1. /\ docs' = docs /\ shards' = shards /\ pointers' = pointers
      /\ saved' = saved /\ newest' = newest /\ intact' = intact
  BY DEF documents, ghosts
<1>2. \A id \in Ids : Whole(id)' <=> Whole(id)
  BY <1>1 DEF Whole, Exists, RowWith
<1>3. \A s \in intact : Current(s)' <=> Current(s)
  BY <1>1 DEF Current
<1> QED
  BY <1>1, <1>2, <1>3 DEF RowsInv, Exists

\* The rows are whole after every step.
LEMMA NextRows ==
  ASSUME ~CallersShareIds, AInv, DocsInv, RowsInv, [Next]_vars
  PROVE  RowsInv'
<1>1. Invariants
  BY DEF AInv, Invariants
<1>2. ASSUME NEW id \in Ids, NEW statuses \in SUBSET Statuses, NEW made \in NewRows(id, statuses)
      PROVE  OwnersHold(id, {made})
  BY DEF OwnersHold, NewRows, NamedOwner
<1>3. \A id \in Ids : \A existing \in get_snapshot(id) :
        Exists(id) => existing \in Rows /\ existing.owner = existing.session
  BY <1>1, RowsRead DEF Invariants, RowWith
<1>4. ASSUME NEW id \in Ids, SaveTurn(id) PROVE RowsInv'
  <2>1. PICK existing \in get_snapshot(id), made \in NewRows(id, {"completed"}) :
          Committed(id, existing, UnlessAborted(existing, made))
    BY <1>4 DEF SaveTurn
  <2>2. {"completed"} \in SUBSET Statuses
    BY DEF Statuses, TERMINAL_STATUSES
  <2>3. UnlessAborted(existing, made) \in SUBSET Rows
    BY <2>2, TurnProduces
  <2>4. OwnersHold(id, UnlessAborted(existing, made))
    BY <1>2, <2>2 DEF OwnersHold, UnlessAborted
  <2> QED
    BY <1>1, <1>4, <2>1, <2>3, <2>4, CommittedRows DEF SaveTurn
<1>5. ASSUME NEW id \in Ids, SavePending(id) PROVE RowsInv'
  <2>1. PICK existing \in get_snapshot(id), made \in NewRows(id, {"pending"}) :
          Committed(id, existing, {made})
    BY <1>5 DEF SavePending
  <2>2. {"pending"} \in SUBSET Statuses
    BY DEF Statuses
  <2>3. {made} \in SUBSET Rows
    BY <2>2, TurnProduces
  <2> QED
    BY <1>1, <1>2, <1>5, <2>1, <2>2, <2>3, CommittedRows DEF SavePending
<1>6. ASSUME NEW id \in Ids, Heartbeat(id) PROVE RowsInv'
  <2>1. PICK existing \in get_snapshot(id) : Committed(id, existing, {existing})
    BY <1>6 DEF Heartbeat
  <2>2. Exists(id)
    BY <1>1, <1>6 DEF Heartbeat, Invariants, Typed, StatusTyped
  <2>3. {existing} \in SUBSET Rows /\ OwnersHold(id, {existing})
    BY <1>3, <2>2 DEF OwnersHold
  <2> QED
    BY <1>1, <1>6, <2>1, <2>3, CommittedRows DEF Heartbeat
<1>7. ASSUME NEW c \in Aborters, CommitAbort(c) PROVE RowsInv'
  <2> DEFINE id == attempts[c].id
  <2>1. id \in Ids
    BY <1>1, <1>7 DEF CommitAbort, Invariants, Typed, Attempt, Resting
  <2>2. PICK existing \in get_snapshot(id) : Committed(id, existing, abort_if_pending(existing))
    BY <1>7 DEF CommitAbort
  <2> HIDE DEF id
  <2>3. abort_if_pending(existing) \in SUBSET Rows
    BY <1>1, <2>1, AbortProduces DEF Invariants
  <2>4. OwnersHold(id, abort_if_pending(existing))
    <3>1. CASE Exists(id)
      <4>1. existing \in Rows /\ existing.owner = existing.session
        BY <1>3, <2>1, <2>2, <3>1
      <4>2. \A made \in abort_if_pending(existing) : made.owner = made.session
        BY <4>1 DEF abort_if_pending, Rows
      <4> QED
        BY <4>2 DEF OwnersHold
    <3>2. CASE ~Exists(id)
      BY <3>2 DEF abort_if_pending, get_snapshot, NoRow, OwnersHold
    <3> QED
      BY <3>1, <3>2
  <2>5. intact' = intact
    BY <1>7 DEF CommitAbort
  <2> QED
    BY <1>1, <2>1, <2>2, <2>3, <2>4, <2>5, CommittedRows
<1>8. ASSUME NEW c \in Aborters,
             \/ \E id \in Ids : BeginAbort(c, id)
             \/ RetryAbort(c) \/ GiveUpAbort(c) \/ SkipAbort(c)
      PROVE  RowsInv'
  <2>1. UNCHANGED <<documents, ghosts>>
    BY <1>8 DEF BeginAbort, RetryAbort, GiveUpAbort, SkipAbort
  <2> QED
    BY <2>1, SameRows
<1>9. ASSUME NEW s \in Sessions, DeleteSession(s) \/ LosePointer(s) PROVE RowsInv'
  BY <1>1, <1>9, DeleteRows, LoseRows
<1>10. CASE UNCHANGED vars
  <2>1. UNCHANGED <<documents, ghosts>>
    BY <1>10 DEF vars, documents, ghosts
  <2> QED
    BY <2>1, SameRows
<1> QED
  BY <1>4, <1>5, <1>6, <1>7, <1>8, <1>9, <1>10 DEF Next

\* Whatever was saved, rewritten, branched or deleted since, a read by id answers
\* the row as its last save acknowledged it and a read by session the row created
\* last, in every session that never lost its pointer document alone; and no
\* document, chain or set of shards outgrows its bounds.
THEOREM RowsAreWholeHolds ==
  ASSUME ~CallersShareIds
  PROVE  Spec => []RowsAreWhole
<1>1. Init => AInv /\ DocsInv /\ RowsInv
  BY InitAInv, InitDocs, InitRows
<1>2. AInv /\ DocsInv /\ RowsInv /\ [Next]_vars => (AInv /\ DocsInv /\ RowsInv)'
  BY NextAInv, NextDocs, NextRows
<1>3. AInv /\ DocsInv /\ RowsInv => RowsAreWhole
  BY InvariantsSay DEF AInv, Invariants
<1> QED
  BY <1>1, <1>2, <1>3, PTL DEF Spec

-----------------------------------------------------------------------------
(* The status streams: what is true of one subscription, and of close() *)

Marks == {"pending", "completed", End}
Waits == {"absent", "new", "asked", "locked", "refused"}
Attaching == {"attached", "checking"}
SubTypes ==
  [at : Waits \cup Attaching \cup {"undoing", "open", "closing", "ended"},
   watch : BOOLEAN, runs : BOOLEAN, closed : BOOLEAN, stop : BOOLEAN,
   wants : SUBSET {"task", "consumer"}, tearing : {"no", "task", "consumer"},
   last : {"none", "pending", "completed"}, posted : Seq(Marks), heard : Nat,
   queue : Seq(Marks), got : Seq(Marks), hook : BOOLEAN]

WatchTypes ==
  /\ crowd \in Crowds
  /\ sub \in [Subscribers -> SubTypes]
  /\ row \in {"none", "pending", "completed"} /\ edition \in Nat /\ shut \in BOOLEAN
  /\ bag \in [StoreLoops -> SUBSET Subscribers]
  /\ closer \in [step : {"never", "idle", "next", "mark", "wake", "done"}, loop : StoreLoops \cup {"none"},
                 left : SUBSET StoreLoops, subs : SUBSET Subscribers]

\* A sequence that tells some statuses and then nothing but that it is over.
Tells(w, told) ==
  /\ Len(told) <= Len(w)
  /\ \A k \in 1..Len(w) : w[k] = IF k <= Len(told) THEN told[k] ELSE End

Unwatched(r) == ~r.watch /\ ~r.runs /\ r.posted = <<>>

\* What was got and what waits: statuses, the last one `last`; once an end is among it,
\* nothing can be told any more, because the subscription is closed or has no watch.
WordInv(r, w, over) ==
  \E told \in Tellings :
    /\ Tells(w, told)
    /\ r.last = IF told = <<>> THEN "none" ELSE told[Len(told)]
    /\ Len(told) < Len(w) => (r.closed \/ Unwatched(r)) /\ (over \/ r.last = "completed")

\* One subscription; over: the store was closed.
SubInv(r, over) ==
  /\ r.at \in Waits \cup Attaching =>
       r.queue = <<>> /\ r.got = <<>> /\ r.wants = {} /\ r.tearing = "no" /\ r.last = "none"
  /\ r.at \in Waits => Unwatched(r)
  /\ r.at = "undoing" => over /\ r.closed /\ r.wants = {} /\ r.tearing = "no" /\ (r.runs => r.stop)
  /\ r.runs /\ ~r.stop => r.watch \/ r.at = "attached"
  /\ \A k \in 1..Len(r.posted) : r.posted[k] = End => over /\ r.closed
  /\ \A k \in 1..Len(r.got) : r.got[k] = End => k = Len(r.got) /\ r.at \in {"closing", "ended"}
  /\ WordInv(r, r.got \o r.queue, over)
  /\ r.last = "completed" => r.closed

\* The listener, if there is one, belongs to a step that will look at it again or stop it.
Settled(r) == r.runs => r.at \in {"attached", "checking", "undoing"} \/ r.stop

\* Where the listener of a subscription is kept, so that somebody will stop it.
Kept(s) ==
  /\ Settled(sub[s]) \/ (closer.step # "done" /\ (s \in bag[SubLoop[s]] \/ s \in closer.subs))
  /\ sub[s].at \in Attaching /\ ~shut => s \in bag[SubLoop[s]]
  /\ sub[s].at \in Attaching \cup {"locked"} => SubLoop[s] \notin dead
  /\ s \notin crowd.callers => sub[s].at = "absent"
  /\ \A l \in StoreLoops : s \in bag[l] \cup closer.subs => sub[s].at \notin Waits

\* close() goes from loop to loop, and the bags behind it stay empty.
CloserInv ==
  /\ closer.step \in {"never", "idle"} <=> ~shut
  /\ shut => \A s \in crowd.callers : SubLoop[s] \in closer.left \/ bag[SubLoop[s]] = {}
  /\ closer.step \in {"never", "idle", "next", "done"} => closer.subs = {}
  /\ closer.step = "done" => closer.left = {}
  /\ closer.step = "wake" => \A s \in closer.subs : sub[s].closed /\ Settled(sub[s])

WatchInv == WatchTypes /\ CloserInv /\ \A s \in Subscribers : SubInv(sub[s], shut) /\ Kept(s)

-----------------------------------------------------------------------------
\* The marks of a queue.
LEMMA EndMark == End \in Marks /\ <<End>> \in Seq(Marks) /\ "pending" \in Marks /\ "completed" \in Marks
BY DEF Marks

\* A queue that grows makes the whole word grow.
LEMMA Grown ==
  ASSUME NEW g \in Seq(Marks), NEW q \in Seq(Marks), NEW x \in Marks
  PROVE  /\ g \o Append(q, x) = Append(g \o q, x)
         /\ Append(q, x) \in Seq(Marks) /\ g \o q \in Seq(Marks) /\ Append(g \o q, x) \in Seq(Marks)
BY SMT

\* What was got is where the word begins.
LEMMA Leads ==
  ASSUME NEW g \in Seq(Marks), NEW q \in Seq(Marks)
  PROVE  /\ g \o q \in Seq(Marks) /\ Len(g) \in Nat /\ Len(g) <= Len(g \o q)
         /\ \A k \in 1..Len(g) : g[k] = (g \o q)[k]
OBVIOUS

\* A mark that goes from the queue to the consumer leaves the word as it is.
LEMMA Moved ==
  ASSUME NEW g \in Seq(Marks), NEW q \in Seq(Marks), q # <<>>
  PROVE  Append(g, Head(q)) \o Tail(q) = g \o q
<1>1. Append(g, Head(q)) \o Tail(q) \in Seq(Marks) /\ g \o q \in Seq(Marks) /\ Len(q) > 0
  BY SMT
<1>2. Len(Append(g, Head(q)) \o Tail(q)) = Len(g) + Len(q) /\ Len(g \o q) = Len(g) + Len(q)
  BY <1>1, SMT
<1>3. ASSUME NEW k \in 1..Len(g \o q)
      PROVE  (Append(g, Head(q)) \o Tail(q))[k] = (g \o q)[k]
  <2>1. CASE k <= Len(g)
    BY <2>1, <1>1, <1>2, SMT
  <2>2. CASE k = Len(g) + 1
    BY <2>2, <1>1, <1>2, SMT
  <2>3. CASE k > Len(g) + 1
    BY <2>3, <1>1, <1>2, SMT
  <2> QED
    BY <2>1, <2>2, <2>3, <1>1, SMT
<1> QED
  BY <1>1, <1>2, <1>3, SMT

\* One end more.
LEMMA OneEnd ==
  ASSUME NEW w \in Seq(Marks), NEW told \in Tellings, Tells(w, told)
  PROVE  Tells(Append(w, End), told) /\ Len(told) < Len(Append(w, End))
<1>1. Len(told) \in Nat
  BY DEF Tellings
<1> QED
  BY <1>1 DEF Tells, Marks

\* A status more than what was told, while no end is in the way.
LEMMA OneStatus ==
  ASSUME NEW w \in Seq(Marks), NEW told \in Tellings, Tells(w, told), Len(told) = Len(w),
         NEW status \in {"pending", "completed"},
         told = <<>> \/ (told = <<"pending">> /\ status = "completed")
  PROVE  \E more \in Tellings :
           /\ Tells(Append(w, status), more) /\ Len(more) = Len(Append(w, status))
           /\ more # <<>> /\ more[Len(more)] = status
<1>1. /\ Len(Append(w, status)) = Len(w) + 1 /\ Append(w, status)[Len(w) + 1] = status
      /\ \A k \in 1..Len(w) : Append(w, status)[k] = w[k]
  BY DEF Marks
<1>2. CASE told = <<>>
  <2>1. Len(w) = 0
    BY <1>2
  <2>2. Tells(Append(w, status), <<status>>)
    BY <1>1, <2>1 DEF Tells
  <2>3. <<status>> \in Tellings
    BY DEF Tellings
  <2> QED
    BY <1>1, <2>1, <2>2, <2>3
<1>3. CASE told = <<"pending">> /\ status = "completed"
  <2>1. Len(w) = 1 /\ w[1] = "pending"
    BY <1>3 DEF Tells
  <2>2. Tells(Append(w, status), <<"pending", "completed">>)
    BY <1>1, <1>3, <2>1 DEF Tells
  <2>3. <<"pending", "completed">> \in Tellings
    BY DEF Tellings
  <2> QED
    BY <1>1, <1>3, <2>1, <2>2, <2>3
<1> QED
  BY <1>2, <1>3

-----------------------------------------------------------------------------
\* A step that queues nothing keeps the word, as long as a closed subscription stays so.
LEMMA WordKept ==
  ASSUME NEW r, NEW q, NEW w, NEW over, NEW later, WordInv(r, w, over),
         q.last = r.last, over => later, r.closed \/ Unwatched(r) => q.closed \/ Unwatched(q)
  PROVE  WordInv(q, w, later)
BY DEF WordInv

\* A step of one subscription.
LEMMA OneMoves ==
  ASSUME WatchInv, NEW s \in Subscribers, NEW q \in SubTypes, sub' = [sub EXCEPT ![s] = q],
         UNCHANGED <<crowd, row, edition, shut, closer, bag, dead>>,
         SubInv(q, shut), sub[s].closed => q.closed, Settled(sub[s]) => Settled(q),
         q.at \in Attaching => sub[s].at \in Attaching,
         q.at = "locked" => SubLoop[s] \notin dead,
         sub[s].at = "absent" => q.at = "absent",
         q.at \in Waits => sub[s].at \in Waits
  PROVE  WatchInv'
<1>1. sub' \in [Subscribers -> SubTypes] /\ sub'[s] = q /\ \A u \in Subscribers \ {s} : sub'[u] = sub[u]
  BY DEF WatchInv, WatchTypes
<1>2. WatchTypes'
  BY <1>1 DEF WatchInv, WatchTypes
<1>3. CloserInv'
  BY <1>1 DEF WatchInv, WatchTypes, CloserInv
<1>4. ASSUME NEW u \in Subscribers PROVE SubInv(sub[u], shut)' /\ Kept(u)'
  <2>1. CASE u = s
    BY <2>1, <1>1 DEF WatchInv, Kept, Attaching, Waits
  <2>2. CASE u # s
    <3>1. SubInv(sub[u], shut) /\ sub'[u] = sub[u]
      BY <2>2, <1>1 DEF WatchInv
    <3>2. SubInv(sub[u], shut)'
      BY <3>1
    <3> QED
      BY <3>1, <3>2 DEF WatchInv, Kept
  <2> QED
    BY <2>1, <2>2
<1> QED
  BY <1>2, <1>3, <1>4 DEF WatchInv

\* on_snapshot_status_change is called.
LEMMA AskKeeps == ASSUME WatchInv, NEW s \in Subscribers, Ask(s), UNCHANGED crowd PROVE WatchInv'
<1> DEFINE q == [sub[s] EXCEPT !.at = IF shut THEN "refused" ELSE "asked"]
<1>1. sub[s] \in SubTypes /\ SubInv(sub[s], shut) /\ sub[s].at = "new" /\ sub' = [sub EXCEPT ![s] = q]
      /\ UNCHANGED <<crowd, row, edition, shut, closer, bag, dead>>
  BY DEF Ask, WatchInv, WatchTypes
<1>2. q \in SubTypes /\ q.at \in {"refused", "asked"} /\ q = [sub[s] EXCEPT !.at = q.at]
  BY <1>1 DEF SubTypes, Waits
<1> HIDE DEF q
<1>3. SubInv(q, shut)
  <2>1. WordInv(q, q.got \o q.queue, shut)
    BY <1>1, <1>2, WordKept DEF SubInv, SubTypes, Unwatched
  <2> QED
    BY <1>1, <1>2, <2>1 DEF SubInv, SubTypes, Unwatched, Waits, Attaching
<1> QED
  BY <1>1, <1>2, <1>3, OneMoves DEF Settled, Attaching, SubTypes, Waits

\* It gets the lock of its loop, or an end at once.
LEMMA TakeLockKeeps == ASSUME WatchInv, NEW s \in Subscribers, TakeLock(s), UNCHANGED crowd PROVE WatchInv'
<1>1. sub[s] \in SubTypes /\ SubInv(sub[s], shut) /\ sub[s].at = "asked" /\ shut \in BOOLEAN
      /\ UNCHANGED <<crowd, row, edition, shut, closer, bag, dead>> /\ SubLoop[s] \notin dead
  BY DEF TakeLock, WatchInv, WatchTypes, Runs, Alive
<1>2. CASE ~shut
  <2> DEFINE q == [sub[s] EXCEPT !.at = "locked"]
  <2>1. q \in SubTypes /\ q.at = "locked" /\ q = [sub[s] EXCEPT !.at = q.at] /\ sub' = [sub EXCEPT ![s] = q]
    BY <1>1, <1>2 DEF SubTypes, Waits, TakeLock
  <2> HIDE DEF q
  <2>2. SubInv(q, shut)
    <3>1. WordInv(q, q.got \o q.queue, shut)
      BY <1>1, <2>1, WordKept DEF SubInv, SubTypes, Unwatched
    <3> QED
      BY <1>1, <2>1, <3>1 DEF SubInv, SubTypes, Unwatched, Waits, Attaching
  <2> QED
    BY <1>1, <2>1, <2>2, OneMoves DEF Settled, Attaching, SubTypes, Waits
<1>3. CASE shut
  <2> DEFINE q == [sub[s] EXCEPT !.at = "open", !.queue = <<End>>]
  <2>1. q \in SubTypes /\ sub' = [sub EXCEPT ![s] = q] /\ q.at = "open" /\ q.queue = <<End>>
        /\ q = [sub[s] EXCEPT !.at = q.at, !.queue = q.queue]
    <3>1. sub' = [sub EXCEPT ![s] = q]
      BY <1>1, <1>3 DEF TakeLock
    <3>2. q \in SubTypes
      BY <1>1, EndMark DEF SubTypes
    <3> QED
      BY <3>1, <3>2, <1>1 DEF SubTypes
  <2> HIDE DEF q
  <2>2. sub[s].got = <<>> /\ sub[s].last = "none" /\ Unwatched(sub[s])
    BY <1>1 DEF SubInv, Waits
  <2>3. WordInv(q, q.got \o q.queue, shut)
    <3>1. q.got = <<>> /\ q.queue = <<End>> /\ q.last = "none" /\ Unwatched(q)
      BY <1>1, <2>1, <2>2 DEF SubTypes, Unwatched
    <3>2. <<>> \o <<End>> = <<End>> /\ Len(<<End>>) = 1
      OBVIOUS
    <3>3. Tells(<<End>>, <<>>) /\ <<>> \in Tellings
      BY DEF Tells, Tellings
    <3> QED
      BY <1>3, <3>1, <3>2, <3>3 DEF WordInv
  <2>4. SubInv(q, shut)
    BY <1>1, <2>1, <2>2, <2>3, ZenonT(60) DEF SubInv, SubTypes, Unwatched, Waits, Attaching
  <2> QED
    BY <1>1, <2>1, <2>2, <2>4, OneMoves DEF Settled, SubTypes, Attaching, Unwatched, Waits
<1> QED
  BY <1>1, <1>2, <1>3

\* sub.watch is set, the listener runs already.
LEMMA AssignKeeps == ASSUME WatchInv, NEW s \in Subscribers, Assign(s), UNCHANGED crowd PROVE WatchInv'
<1> DEFINE q == [sub[s] EXCEPT !.at = "checking", !.watch = TRUE]
<1>1. sub[s] \in SubTypes /\ SubInv(sub[s], shut) /\ sub[s].at = "attached" /\ sub' = [sub EXCEPT ![s] = q]
      /\ UNCHANGED <<crowd, row, edition, shut, closer, bag, dead>>
  BY DEF Assign, WatchInv, WatchTypes
<1>2. q \in SubTypes /\ q.at = "checking" /\ q.watch /\ q.queue = <<>> /\ q.got = <<>>
      /\ q = [sub[s] EXCEPT !.at = q.at, !.watch = q.watch] /\ sub[s].queue = <<>> /\ sub[s].got = <<>>
      /\ q.last = "none" /\ sub[s].last = "none"
  BY <1>1 DEF SubTypes, Attaching, SubInv
<1> HIDE DEF q
<1>3. WordInv(q, q.got \o q.queue, shut)
  <2>1. q.got \o q.queue = <<>> /\ Tells(<<>>, <<>>) /\ <<>> \in Tellings
    BY <1>2 DEF Tells, Tellings
  <2> QED
    BY <1>2, <2>1 DEF WordInv
<1>4. /\ q.runs = sub[s].runs /\ q.posted = sub[s].posted /\ q.closed = sub[s].closed /\ q.stop = sub[s].stop
      /\ q.wants = {} /\ q.tearing = "no"
  BY <1>1, <1>2 DEF SubTypes, SubInv, Attaching
<1>5. SubInv(q, shut)
  BY <1>1, <1>2, <1>3, <1>4 DEF SubInv, Waits, Attaching
<1> QED
  BY <1>1, <1>2, <1>4, <1>5, OneMoves DEF Settled, Attaching, Waits

\* The attach that met a close is undone and the stream gets its end.
LEMMA UndoneKeeps == ASSUME WatchInv, NEW s \in Subscribers, Undone(s), UNCHANGED crowd PROVE WatchInv'
<1> DEFINE q == [sub[s] EXCEPT !.at = "open", !.queue = Append(@, End)]
<1>1. sub[s] \in SubTypes /\ SubInv(sub[s], shut) /\ sub[s].at = "undoing" /\ sub' = [sub EXCEPT ![s] = q]
      /\ UNCHANGED <<crowd, row, edition, shut, closer, bag, dead>> /\ ~sub[s].stop
  BY DEF Undone, WatchInv, WatchTypes
<1>2. q \in SubTypes
  <2>1. Append(sub[s].queue, End) \in Seq(Marks)
    BY <1>1, EndMark DEF SubTypes
  <2> QED
    BY <1>1, <2>1 DEF SubTypes
<1>3. /\ q.queue = Append(sub[s].queue, End) /\ q.at = "open" /\ q.got = sub[s].got /\ q.last = sub[s].last
      /\ q.runs = sub[s].runs /\ q.posted = sub[s].posted /\ q.closed = sub[s].closed /\ q.stop = sub[s].stop
      /\ q.watch = sub[s].watch /\ q.wants = sub[s].wants /\ q.tearing = sub[s].tearing
  BY <1>1 DEF SubTypes
<1> HIDE DEF q
<1>4. shut /\ q.closed /\ ~q.runs
  BY <1>1, <1>3 DEF SubInv
<1>5. WordInv(q, q.got \o q.queue, shut)
  <2> DEFINE w == sub[s].got \o sub[s].queue
  <2>1. w \in Seq(Marks) /\ q.got \o q.queue = Append(w, End)
    <3>1. sub[s].got \in Seq(Marks) /\ sub[s].queue \in Seq(Marks)
      BY <1>1 DEF SubTypes
    <3>2. sub[s].got \o Append(sub[s].queue, End) = Append(w, End) /\ w \in Seq(Marks)
      BY <3>1, EndMark, Grown
    <3> QED
      BY <1>3, <3>2
  <2>2. PICK told \in Tellings : Tells(w, told) /\ sub[s].last = IF told = <<>> THEN "none" ELSE told[Len(told)]
    BY <1>1 DEF SubInv, WordInv
  <2> HIDE DEF w
  <2> QED
    BY <1>3, <1>4, <2>1, <2>2, OneEnd DEF WordInv
<1>6. SubInv(q, shut)
  BY <1>1, <1>3, <1>4, <1>5 DEF SubInv, Waits, Attaching
<1> QED
  BY <1>1, <1>2, <1>3, <1>4, <1>6, OneMoves DEF Settled, Attaching, Waits

\* A thread stops the listener.
LEMMA UnsubscribeKeeps == ASSUME WatchInv, NEW s \in Subscribers, Unsubscribe(s), UNCHANGED crowd PROVE WatchInv'
<1> DEFINE q == [sub[s] EXCEPT !.stop = FALSE, !.runs = FALSE]
<1>1. sub[s] \in SubTypes /\ SubInv(sub[s], shut) /\ sub' = [sub EXCEPT ![s] = q]
      /\ UNCHANGED <<crowd, row, edition, shut, closer, bag, dead>>
      /\ (sub[s].at = "locked" => SubLoop[s] \notin dead)
  BY DEF Unsubscribe, WatchInv, WatchTypes, Kept
<1>2. /\ q \in SubTypes /\ q.queue = sub[s].queue /\ q.at = sub[s].at /\ q.got = sub[s].got /\ q.last = sub[s].last
      /\ ~q.runs /\ ~q.stop /\ q.posted = sub[s].posted /\ q.closed = sub[s].closed
      /\ q.watch = sub[s].watch /\ q.wants = sub[s].wants /\ q.tearing = sub[s].tearing
  BY <1>1 DEF SubTypes
<1> HIDE DEF q
<1>3. WordInv(q, q.got \o q.queue, shut)
  BY <1>1, <1>2, WordKept DEF SubInv, Unwatched
<1>4. SubInv(q, shut)
  BY <1>1, <1>2, <1>3 DEF SubInv, Unwatched
<1> QED
  BY <1>1, <1>2, <1>4, OneMoves DEF Settled, Waits

\* The listener posts a status; it never posts an end.
LEMMA HearKeeps == ASSUME WatchInv, NEW s \in Subscribers, Hear(s), UNCHANGED crowd PROVE WatchInv'
<1> DEFINE q == [sub[s] EXCEPT !.heard = edition, !.posted = IF Alive(s) THEN Append(@, row) ELSE @]
<1>1. sub[s] \in SubTypes /\ SubInv(sub[s], shut) /\ sub' = [sub EXCEPT ![s] = q]
      /\ UNCHANGED <<crowd, row, edition, shut, closer, bag, dead>>
      /\ (sub[s].at = "locked" => SubLoop[s] \notin dead) /\ sub[s].runs /\ row \in {"pending", "completed"}
  BY DEF Hear, WatchInv, WatchTypes, Kept
<1>2. /\ Append(sub[s].posted, row) \in Seq(Marks)
      /\ \A k \in 1..Len(sub[s].posted) : sub[s].posted[k] = End => shut /\ sub[s].closed
      /\ \A k \in 1..Len(Append(sub[s].posted, row)) : Append(sub[s].posted, row)[k] = End => shut /\ sub[s].closed
  <2>1. sub[s].posted \in Seq(Marks) /\ row \in Marks /\ row # End
    BY <1>1 DEF SubTypes, Marks, End
  <2>2. \A k \in 1..Len(sub[s].posted) : sub[s].posted[k] = End => shut /\ sub[s].closed
    BY <1>1 DEF SubInv
  <2> QED
    BY <2>1, <2>2
<1>3. /\ q \in SubTypes /\ q.queue = sub[s].queue /\ q.at = sub[s].at /\ q.got = sub[s].got /\ q.last = sub[s].last
      /\ q.runs = sub[s].runs /\ q.stop = sub[s].stop /\ q.closed = sub[s].closed
      /\ q.watch = sub[s].watch /\ q.wants = sub[s].wants /\ q.tearing = sub[s].tearing
      /\ q.posted \in {sub[s].posted, Append(sub[s].posted, row)}
  <2>1. q \in SubTypes
    BY <1>1, <1>2 DEF SubTypes, WatchInv, WatchTypes
  <2> QED
    BY <1>1, <2>1, ZenonT(60) DEF SubTypes
<1> HIDE DEF q
<1>4. WordInv(q, q.got \o q.queue, shut)
  BY <1>1, <1>3, WordKept DEF SubInv, Unwatched
<1>5. \A k \in 1..Len(q.posted) : q.posted[k] = End => shut /\ q.closed
  BY <1>2, <1>3
<1>6. SubInv(q, shut)
  BY <1>1, <1>3, <1>4, <1>5 DEF SubInv, Unwatched
<1> QED
  BY <1>1, <1>3, <1>6, OneMoves DEF Settled, Waits

\* What deliver makes of a callback.
LEMMA DeliveredWord ==
  ASSUME NEW r \in SubTypes, NEW over \in BOOLEAN, WordInv(r, r.got \o r.queue, over), ~Unwatched(r),
         r.last = "completed" => r.closed, NEW status \in Marks, status = End => over /\ r.closed
  PROVE  LET d == Delivered(r, status) IN
         /\ WordInv(d, r.got \o d.queue, over) /\ d.queue \in Seq(Marks)
         /\ d.last \in {"none", "pending", "completed"} /\ (d.last = "completed" => d.closed)
<1> DEFINE d == Delivered(r, status)
           w == r.got \o r.queue
<1>1. r.got \in Seq(Marks) /\ r.queue \in Seq(Marks) /\ w \in Seq(Marks) /\ r.last \in {"none", "pending", "completed"}
  BY DEF SubTypes
<1>2a. WordInv(r, w, over)
  OBVIOUS
<1> HIDE DEF d, w
<1>2. PICK told \in Tellings :
        /\ Tells(w, told) /\ r.last = IF told = <<>> THEN "none" ELSE told[Len(told)]
        /\ Len(told) < Len(w) => r.closed /\ (over \/ r.last = "completed")
  BY <1>2a DEF WordInv
<1>3. CASE status = End
  <2>1. /\ d.queue = Append(r.queue, End) /\ d.last = r.last /\ d.closed = r.closed
        /\ d.watch = r.watch /\ d.runs = r.runs /\ d.posted = r.posted
    BY <1>3 DEF d, Delivered, SubTypes
  <2>2. r.got \o d.queue = Append(w, End) /\ d.queue \in Seq(Marks)
    <3>1. r.got \o Append(r.queue, End) = Append(w, End) /\ Append(r.queue, End) \in Seq(Marks)
      BY <1>1, <1>3, Grown, ZenonT(60) DEF w
    <3> QED
      BY <2>1, <3>1
  <2>3. WordInv(d, Append(w, End), over)
    BY <1>1, <1>2, <1>3, <2>1, OneEnd DEF WordInv
  <2> QED
    BY <1>1, <2>1, <2>2, <2>3 DEF d
<1>4. CASE status # End /\ (r.closed \/ r.last = status)
  <2>1. d = r
    BY <1>4 DEF d, Delivered
  <2> QED
    BY <1>1, <1>2a, <2>1 DEF d, w
<1>5. CASE status # End /\ ~r.closed /\ r.last # status
  <2>1. Len(told) = Len(w) /\ r.last # "completed" /\ status \in {"pending", "completed"}
    <3>1. Len(told) \in Nat /\ Len(w) \in Nat
      BY <1>1 DEF Tellings
    <3> QED
      BY <1>1, <1>2, <1>5, <3>1 DEF Tells, Marks
  <2>2. told = <<>> \/ (told = <<"pending">> /\ status = "completed")
    <3>1. CASE told \in {<<>>, <<"pending">>}
      BY <1>2, <1>5, <2>1, <3>1
    <3>2. CASE told \in {<<"completed">>, <<"pending", "completed">>}
      BY <1>2, <2>1, <3>2
    <3> QED
      BY <3>1, <3>2 DEF Tellings
  <2>3. PICK more \in Tellings :
          /\ Tells(Append(w, status), more) /\ Len(more) = Len(Append(w, status))
          /\ more # <<>> /\ more[Len(more)] = status
    BY <1>1, <1>2, <2>1, <2>2, OneStatus
  <2>4. r.got \o Append(r.queue, status) = Append(w, status) /\ Append(r.queue, status) \in Seq(Marks)
        /\ Append(w, status) \in Seq(Marks)
    BY <1>1, Grown, ZenonT(60) DEF w
  <2>5. CASE status = "pending"
    <3>1. d.queue = Append(r.queue, status) /\ d.last = status
      BY <1>5, <2>5 DEF d, Delivered, SubTypes, Terminal
    <3>2. r.got \o d.queue = Append(w, status)
      BY <2>4, <3>1
    <3>3. WordInv(d, Append(w, status), over)
      BY <2>3, <2>5, <3>1 DEF WordInv
    <3> QED
      BY <2>4, <2>5, <3>1, <3>2, <3>3 DEF d
  <2>6. CASE status = "completed"
    <3>1. d.queue = r.queue \o <<status, End>> /\ d.last = status /\ d.closed
      BY <1>5, <2>6 DEF d, Delivered, SubTypes, Terminal
    <3>2. r.queue \o <<status, End>> = Append(Append(r.queue, status), End)
      BY <1>1, <2>4, EndMark
    <3>3. r.got \o d.queue = Append(Append(w, status), End) /\ d.queue \in Seq(Marks)
      <4>1. /\ r.got \o Append(Append(r.queue, status), End) = Append(r.got \o Append(r.queue, status), End)
            /\ Append(Append(r.queue, status), End) \in Seq(Marks)
        BY <1>1, <2>4, EndMark, Grown, ZenonT(60)
      <4> QED
        BY <2>4, <3>1, <3>2, <4>1
    <3>4. Tells(Append(Append(w, status), End), more)
      BY <2>3, <2>4, OneEnd
    <3>5. WordInv(d, Append(Append(w, status), End), over)
      BY <2>3, <2>6, <3>1, <3>4 DEF WordInv
    <3> QED
      BY <2>6, <3>1, <3>3, <3>5 DEF d
  <2> QED
    BY <2>1, <2>5, <2>6
<1> QED
  BY <1>3, <1>4, <1>5

\* deliver changes nothing else of the subscription, and nothing reopens it.
LEMMA DeliveredFields ==
  ASSUME NEW r \in SubTypes, NEW status
  PROVE  LET d == Delivered(r, status) IN
         /\ d = [r EXCEPT !.queue = d.queue, !.last = d.last, !.closed = d.closed, !.wants = d.wants]
         /\ d.wants \in SUBSET {"task", "consumer"} /\ d.closed \in BOOLEAN
         /\ (r.closed => d.closed /\ d.wants = r.wants)
BY ZenonT(60) DEF SubTypes, Delivered

\* A callback runs on the loop.
LEMMA DeliverKeeps == ASSUME WatchInv, NEW s \in Subscribers, Deliver(s), UNCHANGED crowd PROVE WatchInv'
<1> DEFINE r == sub[s]
           d == Delivered(r, Head(r.posted))
           q == [d EXCEPT !.posted = Tail(@)]
<1>0. sub' = [sub EXCEPT ![s] = q]
  BY DEF Deliver
<1>1. r \in SubTypes /\ SubInv(r, shut) /\ sub' = [sub EXCEPT ![s] = q] /\ r.posted # <<>> /\ shut \in BOOLEAN
      /\ UNCHANGED <<crowd, row, edition, shut, closer, bag, dead>>
  BY <1>0 DEF Deliver, WatchInv, WatchTypes
<1>2. r.at \in {"undoing", "open", "closing", "ended"} /\ ~Unwatched(r)
  BY <1>1 DEF Deliver, Runs, Busy, SubInv, SubTypes, Attaching, Waits, Unwatched
<1>3. /\ r.posted \in Seq(Marks) /\ Head(r.posted) \in Marks /\ Tail(r.posted) \in Seq(Marks)
      /\ Head(r.posted) = End => shut /\ r.closed
      /\ \A k \in 1..Len(Tail(r.posted)) : Tail(r.posted)[k] = End => shut /\ r.closed
  <2>1. r.posted \in Seq(Marks)
    BY <1>1 DEF SubTypes
  <2>2. \A k \in 1..Len(r.posted) : r.posted[k] = End => shut /\ r.closed
    BY <1>1 DEF SubInv
  <2> HIDE DEF r
  <2> QED
    BY <1>1, <2>1, <2>2
<1> HIDE DEF r
<1>4. /\ WordInv(d, r.got \o d.queue, shut) /\ d.queue \in Seq(Marks)
      /\ d.last \in {"none", "pending", "completed"} /\ (d.last = "completed" => d.closed)
  BY <1>1, <1>2, <1>3, DeliveredWord DEF SubInv
<1>5. /\ d = [r EXCEPT !.queue = d.queue, !.last = d.last, !.closed = d.closed, !.wants = d.wants]
      /\ d.wants \in SUBSET {"task", "consumer"} /\ d.closed \in BOOLEAN
      /\ (r.closed => d.closed /\ d.wants = r.wants)
  BY <1>1, DeliveredFields
<1>6. d \in SubTypes /\ d.posted = r.posted
  <2> HIDE DEF d
  <2> QED
    BY <1>1, <1>4, <1>5 DEF SubTypes
<1> HIDE DEF d
<1>7. q \in SubTypes
  BY <1>3, <1>6 DEF SubTypes
<1>8. /\ q.queue = d.queue /\ q.at = r.at /\ q.got = r.got /\ q.last = d.last
      /\ q.runs = r.runs /\ q.stop = r.stop /\ q.closed = d.closed
      /\ q.watch = r.watch /\ q.wants = d.wants /\ q.tearing = r.tearing /\ q.posted = Tail(r.posted)
      /\ d.runs = r.runs /\ d.watch = r.watch
  BY <1>1, <1>5, <1>6 DEF SubTypes
<1> HIDE DEF q
<1>9. WordInv(q, q.got \o q.queue, shut)
  <2>1. ~Unwatched(d)
    BY <1>1, <1>6 DEF Unwatched
  <2> QED
    BY <1>4, <1>8, <2>1, WordKept
<1>10. SubInv(q, shut)
  BY <1>1, <1>2, <1>3, <1>4, <1>5, <1>8, <1>9 DEF SubInv, Waits, Attaching
<1> QED
  BY <1>1, <1>2, <1>5, <1>7, <1>8, <1>10, OneMoves DEF Settled, Attaching, r, Waits

\* The consumer leaves its loop.
LEMMA LeaveKeeps == ASSUME WatchInv, NEW s \in Subscribers, Leave(s), UNCHANGED crowd PROVE WatchInv'
<1> DEFINE q == [sub[s] EXCEPT !.at = "closing", !.wants = @ \cup {"consumer"}]
<1>1. sub[s] \in SubTypes /\ SubInv(sub[s], shut) /\ sub' = [sub EXCEPT ![s] = q] /\ sub[s].at = "open"
      /\ UNCHANGED <<crowd, row, edition, shut, closer, bag, dead>>
  BY DEF Leave, WatchInv, WatchTypes
<1>2. /\ q \in SubTypes /\ q.queue = sub[s].queue /\ q.at = "closing" /\ q.got = sub[s].got /\ q.last = sub[s].last
      /\ q.runs = sub[s].runs /\ q.stop = sub[s].stop /\ q.posted = sub[s].posted /\ q.closed = sub[s].closed
      /\ q.watch = sub[s].watch /\ q.tearing = sub[s].tearing
  BY <1>1 DEF SubTypes
<1> HIDE DEF q
<1>3. WordInv(q, q.got \o q.queue, shut)
  BY <1>1, <1>2, WordKept DEF SubInv, Unwatched
<1>4. SubInv(q, shut)
  BY <1>1, <1>2, <1>3 DEF SubInv, Attaching, Waits
<1> QED
  BY <1>1, <1>2, <1>4, OneMoves DEF Settled, Attaching, Waits

\* The teardown is over.
LEMMA TornDownKeeps == ASSUME WatchInv, NEW s \in Subscribers, TornDown(s), UNCHANGED crowd PROVE WatchInv'
<1> DEFINE q == [sub[s] EXCEPT !.tearing = "no", !.at = IF sub[s].tearing = "consumer" THEN "ended" ELSE @]
<1>1. sub[s] \in SubTypes /\ SubInv(sub[s], shut) /\ sub[s].tearing # "no"
      /\ UNCHANGED <<crowd, row, edition, shut, closer, bag, dead>>
      /\ sub' = [sub EXCEPT ![s].tearing = "no", ![s].at = IF sub[s].tearing = "consumer" THEN "ended" ELSE @]
  BY DEF TornDown, WatchInv, WatchTypes
<1>2. sub[s].at \in {"open", "closing", "ended"}
  BY <1>1 DEF SubInv, SubTypes, Attaching, Waits
<1>3. sub' = [sub EXCEPT ![s] = q]
  BY <1>1, <1>2 DEF SubTypes, WatchInv, WatchTypes
<1>4. /\ q \in SubTypes /\ q.queue = sub[s].queue /\ q.at \in {"ended", sub[s].at} /\ q.got = sub[s].got
      /\ q.last = sub[s].last /\ q.wants = sub[s].wants
      /\ q.runs = sub[s].runs /\ q.stop = sub[s].stop /\ q.posted = sub[s].posted /\ q.closed = sub[s].closed
      /\ q.watch = sub[s].watch
  BY <1>1 DEF SubTypes
<1> HIDE DEF q
<1>5. WordInv(q, q.got \o q.queue, shut)
  BY <1>1, <1>4, WordKept DEF SubInv, Unwatched
<1>6. SubInv(q, shut)
  BY <1>1, <1>2, <1>4, <1>5 DEF SubInv, Attaching, Waits
<1> QED
  BY <1>1, <1>2, <1>3, <1>4, <1>6, OneMoves DEF Settled, Attaching, Waits

\* The consumer takes a mark; after an end it is done.
LEMMA TakeKeeps == ASSUME WatchInv, NEW s \in Subscribers, Take(s), UNCHANGED crowd PROVE WatchInv'
<1> DEFINE r == sub[s]
<1>1. r \in SubTypes /\ SubInv(r, shut) /\ r.at = "open" /\ r.queue # <<>>
      /\ UNCHANGED <<crowd, row, edition, shut, closer, bag, dead>>
  BY DEF Take, WatchInv, WatchTypes
<1>2. PICK q :
        /\ sub' = [sub EXCEPT ![s] = q]
        /\ q.queue = Tail(r.queue) /\ q.got = Append(r.got, Head(r.queue)) /\ q.last = r.last
        /\ q.runs = r.runs /\ q.stop = r.stop /\ q.posted = r.posted /\ q.closed = r.closed
        /\ q.watch = r.watch /\ q.tearing = r.tearing
        /\ q.wants \in SUBSET {"task", "consumer"}
        /\ q.at \in {"open", "closing", "ended"} /\ (Head(r.queue) = End => q.at \in {"closing", "ended"})
        /\ q = [r EXCEPT !.at = q.at, !.queue = q.queue, !.got = q.got, !.wants = q.wants]
  <2> DEFINE took == [r EXCEPT !.queue = Tail(@), !.got = Append(@, Head(r.queue))]
             q == IF Head(r.queue) # End THEN took
                  ELSE IF took.hook THEN [took EXCEPT !.at = "closing", !.wants = @ \cup {"consumer"}]
                  ELSE [took EXCEPT !.at = "ended"]
  <2>1. sub' = [sub EXCEPT ![s] = q]
    BY DEF Take
  <2>2. /\ q.queue = Tail(r.queue) /\ q.got = Append(r.got, Head(r.queue)) /\ q.last = r.last
        /\ q.runs = r.runs /\ q.stop = r.stop /\ q.posted = r.posted /\ q.closed = r.closed
        /\ q.watch = r.watch /\ q.tearing = r.tearing
        /\ q.wants \in SUBSET {"task", "consumer"}
        /\ q.at \in {"open", "closing", "ended"} /\ (Head(r.queue) = End => q.at \in {"closing", "ended"})
        /\ q = [r EXCEPT !.at = q.at, !.queue = q.queue, !.got = q.got, !.wants = q.wants]
    <3> HIDE DEF r
    <3> QED
      BY <1>1, ZenonT(60) DEF SubTypes
  <2> QED
    BY <2>1, <2>2, ZenonT(60)
<1>3. /\ r.got \in Seq(Marks) /\ r.queue \in Seq(Marks) /\ Head(r.queue) \in Marks /\ Tail(r.queue) \in Seq(Marks)
      /\ Append(r.got, Head(r.queue)) \in Seq(Marks)
  <2>1. r.got \in Seq(Marks) /\ r.queue \in Seq(Marks)
    BY <1>1 DEF SubTypes
  <2> QED
    BY <1>1, <2>1
<1> HIDE DEF r
<1>4. q \in SubTypes
  BY <1>1, <1>2, <1>3 DEF SubTypes
<1>5. q.got \o q.queue = r.got \o r.queue
  <2>1. Append(r.got, Head(r.queue)) \o Tail(r.queue) = r.got \o r.queue
    BY <1>1, <1>3, Moved
  <2> QED
    BY <1>2, <2>1
<1>6. WordInv(q, q.got \o q.queue, shut)
  <2>1. WordInv(r, r.got \o r.queue, shut) /\ (r.closed \/ Unwatched(r) => q.closed \/ Unwatched(q))
    BY <1>1, <1>2 DEF SubInv, Unwatched
  <2>2. WordInv(q, r.got \o r.queue, shut)
    BY <1>2, <2>1, WordKept
  <2> QED
    BY <1>5, <2>2
<1>7. \A k \in 1..Len(q.got) : q.got[k] = End => k = Len(q.got) /\ q.at \in {"closing", "ended"}
  <2>1. \A k \in 1..Len(r.got) : r.got[k] # End
    BY <1>1 DEF SubInv
  <2> QED
    BY <1>2, <1>3, <2>1
<1>8. SubInv(q, shut)
  BY <1>1, <1>2, <1>6, <1>7 DEF SubInv, Attaching, Waits
<1> QED
  BY <1>1, <1>2, <1>4, <1>8, OneMoves DEF Settled, Attaching, r, Waits

-----------------------------------------------------------------------------
\* A step of one subscription that may change the bags, and prunes those of ended loops.
LEMMA SubsMove ==
  ASSUME WatchInv, NEW s \in Subscribers, UNCHANGED <<crowd, row, edition, shut, closer, dead>>,
         sub' \in [Subscribers -> SubTypes], bag' \in [StoreLoops -> SUBSET Subscribers],
         \A u \in Subscribers \ {s} :
           /\ SubInv(sub'[u], shut) /\ sub'[u].at = sub[u].at
           /\ sub[u].closed => sub'[u].closed
           /\ Settled(sub[u]) => Settled(sub'[u])
           /\ u \in bag[SubLoop[u]] =>
                u \in bag'[SubLoop[u]] \/ (SubLoop[u] \in dead /\ Settled(sub'[u]))
         , \A l \in StoreLoops : bag'[l] \ {s} \subseteq bag[l] /\ (shut => bag'[l] \subseteq bag[l]),
         SubInv(sub'[s], shut), sub[s].closed => sub'[s].closed, Settled(sub'[s]),
         sub'[s].at \in Attaching /\ ~shut => s \in bag'[SubLoop[s]],
         sub'[s].at \in Attaching \cup {"locked"} => SubLoop[s] \notin dead,
         sub[s].at = "absent" => sub'[s].at = "absent",
         sub'[s].at \in Waits => \A l \in StoreLoops : s \notin bag'[l] \cup closer.subs
  PROVE  WatchInv'
<1>1. WatchTypes'
  BY DEF WatchInv, WatchTypes
<1>2. CloserInv'
  <2>1. \A c \in crowd.callers : c \in Subscribers /\ SubLoop[c] \in StoreLoops
    BY WatchAssumption DEF WatchInv, WatchTypes
  <2>2. shut => \A c \in crowd.callers : SubLoop[c] \in closer.left \/ bag'[SubLoop[c]] = {}
    BY <2>1 DEF WatchInv, CloserInv
  <2>3. closer.step = "wake" => \A u \in closer.subs : sub'[u].closed /\ Settled(sub'[u])
    BY DEF WatchInv, CloserInv, WatchTypes
  <2> QED
    BY <2>2, <2>3 DEF WatchInv, CloserInv
<1>3. ASSUME NEW u \in Subscribers PROVE SubInv(sub[u], shut)' /\ Kept(u)'
  <2>1. CASE u = s
    BY <2>1 DEF WatchInv, Kept
  <2>2. CASE u # s
    <3>1. /\ SubInv(sub'[u], shut) /\ sub'[u].at = sub[u].at /\ (Settled(sub[u]) => Settled(sub'[u]))
          /\ u \in bag[SubLoop[u]] => u \in bag'[SubLoop[u]] \/ (SubLoop[u] \in dead /\ Settled(sub'[u]))
      BY <2>2
    <3>2. \A l \in StoreLoops : u \in bag'[l] => u \in bag[l]
      BY <2>2
    <3>3. Kept(u)
      BY DEF WatchInv
    <3>4. Kept(u)'
      BY <3>1, <3>2, <3>3 DEF Kept
    <3> QED
      BY <3>1, <3>4
  <2> QED
    BY <2>1, <2>2
<1> QED
  BY <1>1, <1>2, <1>3 DEF WatchInv

\* Of a loop that ended no subscription is on its way, so nothing it had is lost.
LEMMA PrunedSub ==
  ASSUME WatchInv, NEW u \in Subscribers
  PROVE  LET p == Pruned(sub)[u] IN
         /\ p \in SubTypes /\ SubInv(p, shut) /\ p.at = sub[u].at
         /\ sub[u].closed => p.closed
         /\ Settled(sub[u]) => Settled(p)
         /\ SubLoop[u] \in dead /\ u \in bag[SubLoop[u]] => Settled(p)
         /\ SubLoop[u] \notin dead => p = sub[u]
<1> DEFINE r == sub[u]
           p == Pruned(sub)[u]
<1>1. r \in SubTypes /\ SubInv(r, shut) /\ (r.at \in Attaching => SubLoop[u] \notin dead)
  BY DEF WatchInv, WatchTypes, Kept
<1>2. p = IF SubLoop[u] \in dead /\ u \in bag[SubLoop[u]]
          THEN [r EXCEPT !.closed = TRUE, !.watch = FALSE, !.runs = r.runs /\ ~r.watch] ELSE r
  BY <1>1 DEF Pruned
<1> HIDE DEF p, r
<1>3. CASE p = r /\ ~(SubLoop[u] \in dead /\ u \in bag[SubLoop[u]])
  BY <1>1, <1>3 DEF p, r
<1>4. CASE SubLoop[u] \in dead /\ p = [r EXCEPT !.closed = TRUE, !.watch = FALSE, !.runs = r.runs /\ ~r.watch]
  <2>1. /\ p.queue = r.queue /\ p.got = r.got /\ p.wants = r.wants /\ p.tearing = r.tearing
        /\ p.last = r.last /\ p.at = r.at /\ p.posted = r.posted /\ p.stop = r.stop /\ p.closed /\ ~p.watch
        /\ p.runs = (r.runs /\ ~r.watch) /\ p \in SubTypes
    BY <1>1, <1>4 DEF SubTypes
  <2>2. WordInv(p, p.got \o p.queue, shut)
    BY <1>1, <2>1, WordKept DEF SubInv
  <2>3. SubInv(p, shut) /\ Settled(p)
    BY <1>1, <1>4, <2>1, <2>2 DEF SubInv, Settled, Unwatched, Attaching
  <2> QED
    BY <1>4, <2>1, <2>3 DEF p, r
<1> QED
  BY <1>2, <1>3, <1>4

\* The watch is taken: whoever listens still is stopped, or looks at it again.
LEMMA TakenSub ==
  ASSUME NEW r \in SubTypes, NEW over, SubInv(r, over)
  PROVE  LET p == Taken(r) IN
         /\ p \in SubTypes /\ SubInv(p, over) /\ Settled(p) /\ p.closed
         /\ p.at = r.at /\ p.wants = r.wants /\ p.tearing = r.tearing /\ p.queue = r.queue /\ p.got = r.got
         /\ p.last = r.last /\ (r.runs = p.runs)
<1> DEFINE p == Taken(r)
<1>1. /\ p.queue = r.queue /\ p.got = r.got /\ p.wants = r.wants /\ p.tearing = r.tearing
      /\ p.last = r.last /\ p.at = r.at /\ p.posted = r.posted /\ p.stop = (r.stop \/ r.watch) /\ p.closed /\ ~p.watch
      /\ p.runs = r.runs /\ p \in SubTypes
  BY DEF SubTypes, Taken
<1> HIDE DEF p
<1>2. WordInv(p, p.got \o p.queue, over)
  BY <1>1, WordKept DEF SubInv
<1>3. SubInv(p, over) /\ Settled(p)
  BY <1>1, <1>2 DEF SubInv, Settled, Unwatched
<1> QED
  BY <1>1, <1>3 DEF p


\* The second look at _closed, after the attach.
LEMMA ServeKeeps == ASSUME WatchInv, NEW s \in Subscribers, Serve(s), UNCHANGED crowd PROVE WatchInv'
<1>1. sub[s] \in SubTypes /\ SubInv(sub[s], shut) /\ sub[s].at = "checking"
      /\ UNCHANGED <<crowd, row, edition, shut, closer, dead>> /\ SubLoop[s] \in StoreLoops
      /\ sub \in [Subscribers -> SubTypes] /\ bag \in [StoreLoops -> SUBSET Subscribers]
  BY WatchAssumption DEF Serve, WatchInv, WatchTypes
<1>2. CASE ~shut
  <2> DEFINE q == [sub[s] EXCEPT !.at = "open", !.hook = TRUE]
  <2>1. /\ sub' = [sub EXCEPT ![s] = q] /\ bag' = bag
        /\ q \in SubTypes /\ q.at = "open" /\ q.queue = sub[s].queue /\ q.got = sub[s].got /\ q.last = sub[s].last
        /\ q.wants = sub[s].wants /\ q.tearing = sub[s].tearing /\ q.watch = sub[s].watch
        /\ q.runs = sub[s].runs /\ q.stop = sub[s].stop /\ q.posted = sub[s].posted /\ q.closed = sub[s].closed
    BY <1>1, <1>2 DEF SubTypes, Serve
  <2> HIDE DEF q
  <2>2. WordInv(q, q.got \o q.queue, shut)
    BY <1>1, <2>1, WordKept DEF SubInv, Unwatched
  <2>3. SubInv(q, shut)
    BY <1>1, <2>1, <2>2 DEF SubInv, Waits, Attaching
  <2>4. s \in bag[SubLoop[s]] /\ closer.step # "done" /\ (\A l \in StoreLoops : s \in bag[l] \cup closer.subs => sub[s].at \notin Waits)
    BY <1>1, <1>2 DEF WatchInv, CloserInv, Kept, Attaching
  <2>5. sub' \in [Subscribers -> SubTypes] /\ sub'[s] = q /\ \A u \in Subscribers \ {s} : sub'[u] = sub[u]
    BY <1>1, <2>1
  <2>6. WatchTypes' /\ CloserInv'
    BY <1>1, <1>2, <2>1, <2>5 DEF WatchInv, WatchTypes, CloserInv
  <2>7. ASSUME NEW u \in Subscribers PROVE SubInv(sub[u], shut)' /\ Kept(u)'
    <3>1. CASE u = s
      BY <1>1, <2>1, <2>3, <2>4, <2>5, <3>1 DEF WatchInv, Kept, Attaching, Waits
    <3>2. CASE u # s
      <4>1. SubInv(sub[u], shut) /\ sub'[u] = sub[u]
        BY <2>5, <3>2 DEF WatchInv
      <4>2. SubInv(sub[u], shut)'
        BY <1>1, <4>1
      <4> QED
        BY <1>1, <2>1, <4>1, <4>2 DEF WatchInv, Kept
    <3> QED
      BY <3>1, <3>2
  <2> QED
    BY <2>6, <2>7 DEF WatchInv
<1>3. CASE shut
  <2> DEFINE p == Taken(sub[s])
             q == [p EXCEPT !.at = "undoing"]
  <2>1. /\ p \in SubTypes /\ SubInv(p, shut) /\ Settled(p) /\ p.closed
        /\ p.at = sub[s].at /\ p.wants = {} /\ p.tearing = "no"
    BY <1>1, TakenSub DEF SubInv, Attaching
  <2>2. /\ sub' = [sub EXCEPT ![s] = q] /\ bag' = [bag EXCEPT ![SubLoop[s]] = @ \ {s}]
    BY <1>3 DEF Serve
  <2>2a. p.runs => p.stop
    <3>1. sub[s].runs /\ ~sub[s].stop => sub[s].watch
      BY <1>1 DEF SubInv
    <3> QED
      BY <1>1, <3>1 DEF SubTypes, Taken
  <2> HIDE DEF p
  <2>3. /\ q \in SubTypes /\ q.at = "undoing" /\ q.queue = p.queue /\ q.got = p.got /\ q.last = p.last
        /\ q.wants = p.wants /\ q.tearing = p.tearing /\ q.watch = p.watch
        /\ q.runs = p.runs /\ q.stop = p.stop /\ q.posted = p.posted /\ q.closed = p.closed
    BY <2>1 DEF SubTypes
  <2> HIDE DEF q
  <2>4. WordInv(q, q.got \o q.queue, shut)
    <3>1. WordInv(p, p.got \o p.queue, shut) /\ p.closed /\ q.closed /\ q.last = p.last
      BY <2>1, <2>3 DEF SubInv
    <3>2. WordInv(q, p.got \o p.queue, shut)
      BY <3>1, WordKept
    <3> QED
      BY <2>3, <3>2
  <2>5. SubInv(q, shut) /\ Settled(q)
    <3>1. \A k \in 1..Len(q.posted) : q.posted[k] = End => shut /\ q.closed
      BY <1>3, <2>1, <2>3
    <3>2. \A k \in 1..Len(q.got) : q.got[k] = End => k = Len(q.got) /\ q.at \in {"closing", "ended"}
      BY <1>1, <2>1, <2>3 DEF SubInv
    <3>3. Settled(q) /\ (q.runs => q.stop)
      BY <2>2a, <2>3 DEF Settled
    <3> QED
      BY <1>3, <2>1, <2>3, <2>4, <3>1, <3>2, <3>3 DEF SubInv, Waits, Attaching
  <2>6. /\ sub' \in [Subscribers -> SubTypes] /\ bag' \in [StoreLoops -> SUBSET Subscribers]
        /\ sub'[s] = q /\ \A u \in Subscribers \ {s} : sub'[u] = sub[u]
        /\ \A l \in StoreLoops : bag'[l] \subseteq bag[l] /\ bag[l] \ {s} \subseteq bag'[l]
    BY <1>1, <2>2, <2>3
  <2>7. \A u \in Subscribers \ {s} :
           /\ SubInv(sub'[u], shut) /\ sub'[u].at = sub[u].at
           /\ sub[u].closed => sub'[u].closed
           /\ Settled(sub[u]) => Settled(sub'[u])
           /\ u \in bag[SubLoop[u]] =>
                u \in bag'[SubLoop[u]] \/ (SubLoop[u] \in dead /\ Settled(sub'[u]))
    BY <2>6, WatchAssumption DEF WatchInv
  <2> QED
    BY <1>1, <1>3, <2>1, <2>3, <2>5, <2>6, <2>7, SubsMove DEF Attaching, Waits
<1> QED
  BY <1>1, <1>2, <1>3 DEF WatchInv, WatchTypes

\* The attach, which prunes the subscriptions of ended loops first.
LEMMA AttachKeeps == ASSUME WatchInv, NEW s \in Subscribers, Attach(s), UNCHANGED crowd PROVE WatchInv'
<1>1. sub[s] \in SubTypes /\ SubInv(sub[s], shut) /\ sub[s].at = "locked"
      /\ UNCHANGED <<crowd, row, edition, shut, closer, dead>> /\ SubLoop[s] \in StoreLoops /\ SubLoop[s] \notin dead
      /\ sub \in [Subscribers -> SubTypes] /\ bag \in [StoreLoops -> SUBSET Subscribers]
      /\ (\A l \in StoreLoops : s \notin bag[l] \cup closer.subs)
  BY WatchAssumption DEF Attach, WatchInv, WatchTypes, Kept, Waits
<1>2. Pruned(sub)[s] = sub[s] /\ Pruned(sub) \in [Subscribers -> SubTypes]
  <2>1. \A u \in Subscribers : Pruned(sub)[u] \in SubTypes
    BY PrunedSub
  <2>2. Pruned(sub)[s] = sub[s]
    BY <1>1, PrunedSub
  <2> QED
    BY <2>1, <2>2 DEF Pruned
<1>3. /\ sub[s].queue = <<>> /\ sub[s].got = <<>> /\ sub[s].wants = {} /\ sub[s].tearing = "no" /\ sub[s].last = "none"
      /\ ~sub[s].watch /\ ~sub[s].runs /\ sub[s].posted = <<>>
  BY <1>1 DEF SubInv, Waits, Unwatched
<1>4. \A r : r.got = <<>> /\ r.queue = <<>> /\ r.last = "none" => WordInv(r, r.got \o r.queue, shut)
  <2>1. <<>> \o <<>> = <<>> /\ Tells(<<>>, <<>>) /\ <<>> \in Tellings
    BY DEF Tells, Tellings
  <2> QED
    BY <2>1 DEF WordInv
<1>5. CASE shut
  <2> DEFINE q == [sub[s] EXCEPT !.at = "refused"]
  <2>1. /\ sub' = [Pruned(sub) EXCEPT ![s] = q] /\ bag' = BagsOf(bag)
        /\ q \in SubTypes /\ q.at = "refused" /\ q.queue = <<>> /\ q.got = <<>> /\ q.last = "none"
        /\ q.wants = {} /\ q.tearing = "no" /\ ~q.watch /\ ~q.runs /\ q.posted = <<>> /\ q.closed = sub[s].closed
    <3>1. sub' = [Pruned(sub) EXCEPT ![s].at = "refused"] /\ bag' = BagsOf(bag)
      BY <1>5 DEF Attach
    <3>2. [Pruned(sub) EXCEPT ![s].at = "refused"] = [Pruned(sub) EXCEPT ![s] = q]
      BY <1>1, <1>2 DEF SubTypes
    <3>3. q \in SubTypes
      BY <1>1 DEF SubTypes, Waits
    <3> QED
      BY <1>1, <1>3, <3>1, <3>2, <3>3 DEF SubTypes
  <2> HIDE DEF q
  <2>2. SubInv(q, shut) /\ Settled(q)
    <3>1. \A k \in 1..Len(<<>>) : FALSE
      OBVIOUS
    <3>2. WordInv(q, q.got \o q.queue, shut)
      BY <1>4, <2>1
    <3> QED
      BY <2>1, <3>1, <3>2 DEF SubInv, Settled, Waits, Attaching, Unwatched
  <2>3. /\ sub' \in [Subscribers -> SubTypes] /\ bag' \in [StoreLoops -> SUBSET Subscribers]
        /\ sub'[s] = q /\ \A u \in Subscribers \ {s} : sub'[u] = Pruned(sub)[u]
        /\ \A l \in StoreLoops : bag'[l] \subseteq bag[l] /\ (l \notin dead => bag'[l] = bag[l])
    BY <1>1, <1>2, <2>1 DEF BagsOf
  <2>4. \A u \in Subscribers \ {s} :
           /\ SubInv(sub'[u], shut) /\ sub'[u].at = sub[u].at
           /\ sub[u].closed => sub'[u].closed
           /\ Settled(sub[u]) => Settled(sub'[u])
           /\ u \in bag[SubLoop[u]] =>
                u \in bag'[SubLoop[u]] \/ (SubLoop[u] \in dead /\ Settled(sub'[u]))
    BY <2>3, PrunedSub, WatchAssumption
  <2> QED
    BY <1>1, <1>5, <2>1, <2>2, <2>3, <2>4, SubsMove, ZenonT(60) DEF Attaching
<1>6. CASE ~shut
  <2> DEFINE q == [sub[s] EXCEPT !.at = "attached", !.runs = TRUE]
  <2>1. /\ sub' = [Pruned(sub) EXCEPT ![s] = q] /\ bag' = BagsOf([bag EXCEPT ![SubLoop[s]] = @ \cup {s}])
        /\ q \in SubTypes /\ q.at = "attached" /\ q.queue = <<>> /\ q.got = <<>> /\ q.last = "none"
        /\ q.wants = {} /\ q.tearing = "no" /\ ~q.watch /\ q.runs /\ q.posted = <<>> /\ q.closed = sub[s].closed
    <3>1. sub' = [Pruned(sub) EXCEPT ![s].at = "attached", ![s].runs = TRUE]
      BY <1>6 DEF Attach
    <3>2. [Pruned(sub) EXCEPT ![s].at = "attached", ![s].runs = TRUE] = [Pruned(sub) EXCEPT ![s] = q]
      BY <1>1, <1>2, ZenonT(60) DEF SubTypes
    <3>3. bag' = BagsOf([bag EXCEPT ![SubLoop[s]] = @ \cup {s}])
      BY <1>6 DEF Attach
    <3>4. q \in SubTypes
      BY <1>1 DEF SubTypes, Attaching
    <3> QED
      BY <1>1, <1>3, <3>1, <3>2, <3>3, <3>4 DEF SubTypes
  <2> HIDE DEF q
  <2>2. SubInv(q, shut) /\ Settled(q)
    <3>1. \A k \in 1..Len(<<>>) : FALSE
      OBVIOUS
    <3>2. WordInv(q, q.got \o q.queue, shut)
      BY <1>4, <2>1
    <3> QED
      BY <2>1, <3>1, <3>2 DEF SubInv, Settled, Waits, Attaching, Unwatched
  <2>3. /\ sub' \in [Subscribers -> SubTypes] /\ bag' \in [StoreLoops -> SUBSET Subscribers]
        /\ sub'[s] = q /\ \A u \in Subscribers \ {s} : sub'[u] = Pruned(sub)[u]
        /\ \A l \in StoreLoops : bag'[l] \ {s} \subseteq bag[l] /\ (l \notin dead => bag[l] \subseteq bag'[l])
        /\ s \in bag'[SubLoop[s]]
    <3> DEFINE b == [bag EXCEPT ![SubLoop[s]] = @ \cup {s}]
    <3>1. /\ b \in [StoreLoops -> SUBSET Subscribers] /\ s \in b[SubLoop[s]]
          /\ \A l \in StoreLoops : b[l] \ {s} \subseteq bag[l] /\ bag[l] \subseteq b[l]
      BY <1>1
    <3>2. bag' = BagsOf(b)
      BY <2>1
    <3> HIDE DEF b
    <3> QED
      BY <1>1, <1>2, <2>1, <3>1, <3>2 DEF BagsOf
  <2>4. \A u \in Subscribers \ {s} :
           /\ SubInv(sub'[u], shut) /\ sub'[u].at = sub[u].at
           /\ sub[u].closed => sub'[u].closed
           /\ Settled(sub[u]) => Settled(sub'[u])
           /\ u \in bag[SubLoop[u]] =>
                u \in bag'[SubLoop[u]] \/ (SubLoop[u] \in dead /\ Settled(sub'[u]))
    BY <2>3, PrunedSub, WatchAssumption
  <2> QED
    <3>1. /\ sub'[s].closed = sub[s].closed /\ sub'[s].at = "attached" /\ SubInv(sub'[s], shut) /\ Settled(sub'[s])
          /\ sub'[s].at \notin Waits /\ sub[s].at # "absent"
          /\ \A l \in StoreLoops : bag'[l] \ {s} \subseteq bag[l] /\ (shut => bag'[l] \subseteq bag[l])
      BY <1>1, <1>6, <2>1, <2>2, <2>3 DEF Waits
    <3> QED
      BY <1>1, <2>3, <2>4, <3>1, SubsMove
<1> QED
  BY <1>1, <1>5, <1>6 DEF WatchInv, WatchTypes

\* The teardown takes the watch and its place in the bag.
LEMMA TeardownKeeps ==
  ASSUME WatchInv, NEW s \in Subscribers, NEW who \in sub[s].wants, Teardown(s, who), UNCHANGED crowd
  PROVE  WatchInv'
<1> DEFINE r == Pruned(sub)[s]
           p == Taken(r)
           q == [p EXCEPT !.wants = @ \ {who}, !.tearing = who]
<1>1. sub[s] \in SubTypes /\ SubInv(sub[s], shut) /\ shut \in BOOLEAN
      /\ UNCHANGED <<crowd, row, edition, shut, closer, dead>> /\ SubLoop[s] \in StoreLoops /\ SubLoop[s] \notin dead
      /\ sub \in [Subscribers -> SubTypes] /\ bag \in [StoreLoops -> SUBSET Subscribers]
      /\ sub' = [Pruned(sub) EXCEPT ![s] = q] /\ bag' = BagsOf([bag EXCEPT ![SubLoop[s]] = @ \ {s}])
  BY WatchAssumption DEF Teardown, WatchInv, WatchTypes, Runs, Alive
<1>2. r = sub[s] /\ Pruned(sub) \in [Subscribers -> SubTypes]
  <2>1. \A u \in Subscribers : Pruned(sub)[u] \in SubTypes
    BY PrunedSub
  <2>2. r = sub[s]
    BY <1>1, PrunedSub
  <2> QED
    BY <2>1, <2>2 DEF Pruned
<1> HIDE DEF r
<1>3. /\ p \in SubTypes /\ SubInv(p, shut) /\ Settled(p) /\ p.closed /\ p.at = sub[s].at /\ p.wants = sub[s].wants
      /\ sub[s].at \in {"open", "closing", "ended"} /\ who \in {"task", "consumer"}
  <2>1. sub[s].at \in {"open", "closing", "ended"} /\ who \in {"task", "consumer"}
    BY <1>1 DEF SubInv, SubTypes, Attaching, Waits
  <2> QED
    BY <1>1, <1>2, <2>1, TakenSub
<1> HIDE DEF p
<1>4. /\ q \in SubTypes /\ q.at = p.at /\ q.queue = p.queue /\ q.got = p.got /\ q.last = p.last
      /\ q.watch = p.watch /\ q.runs = p.runs /\ q.stop = p.stop /\ q.posted = p.posted /\ q.closed = p.closed
  BY <1>3 DEF SubTypes
<1> HIDE DEF q
<1>5. WordInv(q, q.got \o q.queue, shut)
  <2>1. WordInv(p, p.got \o p.queue, shut) /\ p.closed /\ q.closed /\ q.last = p.last
    BY <1>3, <1>4 DEF SubInv
  <2>2. WordInv(q, p.got \o p.queue, shut)
    BY <2>1, WordKept
  <2> QED
    BY <1>4, <2>2
<1>6. SubInv(q, shut) /\ Settled(q)
  BY <1>3, <1>4, <1>5 DEF SubInv, Settled, Waits, Attaching
<1>7. /\ sub' \in [Subscribers -> SubTypes] /\ bag' \in [StoreLoops -> SUBSET Subscribers]
      /\ sub'[s] = q /\ \A u \in Subscribers \ {s} : sub'[u] = Pruned(sub)[u]
      /\ \A l \in StoreLoops : bag'[l] \subseteq bag[l] /\ (l \notin dead => bag[l] \ {s} \subseteq bag'[l])
  <2> DEFINE b == [bag EXCEPT ![SubLoop[s]] = @ \ {s}]
  <2>1. /\ b \in [StoreLoops -> SUBSET Subscribers]
        /\ \A l \in StoreLoops : bag[l] \ {s} \subseteq b[l] /\ b[l] \subseteq bag[l]
    BY <1>1
  <2>2. bag' = BagsOf(b)
    BY <1>1
  <2> HIDE DEF b
  <2> QED
    BY <1>1, <1>2, <1>4, <2>1, <2>2 DEF BagsOf
<1>8. \A u \in Subscribers \ {s} :
         /\ SubInv(sub'[u], shut) /\ sub'[u].at = sub[u].at
         /\ sub[u].closed => sub'[u].closed
         /\ Settled(sub[u]) => Settled(sub'[u])
         /\ u \in bag[SubLoop[u]] =>
              u \in bag'[SubLoop[u]] \/ (SubLoop[u] \in dead /\ Settled(sub'[u]))
  BY <1>7, PrunedSub, WatchAssumption
<1> QED
  BY <1>1, <1>3, <1>4, <1>6, <1>7, <1>8, SubsMove, ZenonT(60) DEF Attaching, Waits


-----------------------------------------------------------------------------
\* A store that closes only widens what a subscription may be told.
LEMMA Closes == ASSUME NEW r, SubInv(r, FALSE) PROVE SubInv(r, TRUE)
<1>1. WordInv(r, r.got \o r.queue, TRUE)
  BY DEF SubInv, WordInv
<1> QED
  BY <1>1 DEF SubInv

\* close() shuts the store: every loop of a caller is still before it.
LEMMA BeginCloseKeeps == ASSUME WatchInv, BeginClose, UNCHANGED crowd PROVE WatchInv'
<1>1. /\ closer.step = "idle" /\ shut' = TRUE /\ UNCHANGED <<crowd, row, edition, bag, dead, sub>>
      /\ closer' = [closer EXCEPT !.step = "next", !.left = {SubLoop[s] : s \in crowd.callers}]
  BY DEF BeginClose
<1>2. shut = FALSE /\ closer.subs = {}
  BY <1>1 DEF WatchInv, WatchTypes, CloserInv
<1>3. /\ closer'.step = "next" /\ closer'.left = {SubLoop[s] : s \in crowd.callers} /\ closer'.subs = {}
      /\ closer'.loop = closer.loop
  BY <1>1, <1>2 DEF WatchInv, WatchTypes
<1>4. closer'.left \subseteq StoreLoops
  BY <1>3, WatchAssumption DEF WatchInv, WatchTypes
<1>5. WatchTypes'
  BY <1>1, <1>3, <1>4 DEF WatchInv, WatchTypes
<1>6. CloserInv'
  BY <1>1, <1>3 DEF CloserInv
<1>7. ASSUME NEW u \in Subscribers PROVE SubInv(sub[u], shut)' /\ Kept(u)'
  <2>1. SubInv(sub[u], TRUE)
    BY <1>2, Closes DEF WatchInv
  <2>2. SubInv(sub[u], shut)'
    BY <1>1, <2>1
  <2> QED
    BY <1>1, <1>2, <1>3, <2>2 DEF WatchInv, Kept
<1> QED
  BY <1>5, <1>6, <1>7 DEF WatchInv

\* What was in the bag of the loop is now in the hands of close().
LEMMA ClearBagKeeps ==
  ASSUME WatchInv, NEW l \in StoreLoops, ClearBag(l), UNCHANGED crowd PROVE WatchInv'
<1>1. /\ closer.step = "next" /\ l \in closer.left /\ UNCHANGED <<crowd, row, edition, shut, dead, sub>>
      /\ closer' = [step |-> "mark", loop |-> l, left |-> closer.left \ {l}, subs |-> bag[l]]
      /\ bag' = [bag EXCEPT ![l] = {}]
  BY DEF ClearBag
<1>2. shut /\ closer.subs = {}
  BY <1>1 DEF WatchInv, WatchTypes, CloserInv
<1>3. WatchTypes'
  BY <1>1 DEF WatchInv, WatchTypes
<1>4. \A k \in StoreLoops : bag'[k] = IF k = l THEN {} ELSE bag[k]
  BY <1>1 DEF WatchInv, WatchTypes
<1>5. CloserInv'
  <2>1. \A c \in crowd.callers : SubLoop[c] \in StoreLoops
    BY WatchAssumption DEF WatchInv, WatchTypes
  <2> QED
    BY <1>1, <1>2, <1>4, <2>1 DEF WatchInv, CloserInv
<1>6. ASSUME NEW u \in Subscribers PROVE SubInv(sub[u], shut)' /\ Kept(u)'
  <2>1. SubInv(sub[u], shut) /\ Kept(u) /\ SubLoop[u] \in StoreLoops
    BY WatchAssumption DEF WatchInv
  <2>2. Kept(u)'
    BY <1>1, <1>2, <1>4, <2>1 DEF Kept
  <2> QED
    BY <1>1, <2>1, <2>2
<1> QED
  BY <1>3, <1>5, <1>6 DEF WatchInv

\* Their watches go to threads that stop them.
LEMMA MarkSubsKeeps == ASSUME WatchInv, MarkSubs, UNCHANGED crowd PROVE WatchInv'
<1>1. /\ closer.step = "mark" /\ UNCHANGED <<crowd, row, edition, shut, bag, dead>>
      /\ closer' = [closer EXCEPT !.step = "wake"]
      /\ sub' = [s \in Subscribers |-> IF s \in closer.subs THEN Taken(sub[s]) ELSE sub[s]]
  BY DEF MarkSubs
<1>2. closer'.step = "wake" /\ closer'.subs = closer.subs /\ closer'.left = closer.left /\ closer'.loop = closer.loop
  BY <1>1 DEF WatchInv, WatchTypes
<1>3. ASSUME NEW u \in Subscribers
      PROVE  /\ sub'[u] \in SubTypes /\ SubInv(sub'[u], shut) /\ sub'[u].at = sub[u].at
             /\ u \in closer.subs => sub'[u].closed /\ Settled(sub'[u])
             /\ u \notin closer.subs => sub'[u] = sub[u]
  <2>1. sub[u] \in SubTypes /\ SubInv(sub[u], shut)
    BY DEF WatchInv, WatchTypes
  <2> QED
    BY <1>1, <2>1, TakenSub
<1>4. WatchTypes'
  <2>1. sub' \in [Subscribers -> SubTypes]
    BY <1>1, <1>3
  <2>2. closer' \in [step : {"never", "idle", "next", "mark", "wake", "done"}, loop : StoreLoops \cup {"none"},
                     left : SUBSET StoreLoops, subs : SUBSET Subscribers]
    BY <1>1 DEF WatchInv, WatchTypes
  <2> QED
    BY <1>1, <2>1, <2>2 DEF WatchInv, WatchTypes
<1>5. CloserInv'
  <2>1. \A u \in closer.subs : sub'[u].closed /\ Settled(sub'[u])
    BY <1>3 DEF WatchInv, WatchTypes
  <2> QED
    BY <1>1, <1>2, <2>1 DEF WatchInv, CloserInv
<1>6. ASSUME NEW u \in Subscribers PROVE SubInv(sub[u], shut)' /\ Kept(u)'
  <2>1. SubInv(sub'[u], shut')
    BY <1>1, <1>3
  <2>2. Kept(u)
    BY DEF WatchInv
  <2>3. CASE u \in closer.subs
    BY <1>1, <1>2, <1>3, <2>2, <2>3 DEF Kept
  <2>4. CASE u \notin closer.subs
    BY <1>1, <1>2, <1>3, <2>2, <2>4 DEF Kept
  <2>5. Kept(u)'
    BY <2>3, <2>4
  <2> QED
    BY <2>1, <2>5
<1> QED
  BY <1>4, <1>5, <1>6 DEF WatchInv

\* close() posts the ends; when no loop is left it has been everywhere.
LEMMA WakeKeeps == ASSUME WatchInv, Wake, UNCHANGED crowd PROVE WatchInv'
<1>1. /\ closer.step = "wake" /\ UNCHANGED <<crowd, row, edition, shut, bag, dead>>
      /\ closer' = [closer EXCEPT !.step = IF closer.left = {} THEN "done" ELSE "next", !.subs = {}]
      /\ sub' = [s \in Subscribers |->
                   IF s \in closer.subs /\ Alive(s)
                   THEN [sub[s] EXCEPT !.posted = Append(@, End)] ELSE sub[s]]
  BY DEF Wake
<1>2. /\ closer'.step = IF closer.left = {} THEN "done" ELSE "next"
      /\ closer'.subs = {} /\ closer'.left = closer.left /\ closer'.loop = closer.loop
  BY <1>1 DEF WatchInv, WatchTypes
<1>3. shut /\ \A u \in closer.subs : sub[u].closed /\ Settled(sub[u])
  BY <1>1 DEF WatchInv, WatchTypes, CloserInv
<1>4. ASSUME NEW u \in Subscribers
      PROVE  sub'[u] \in SubTypes /\ SubInv(sub'[u], shut) /\ sub'[u].at = sub[u].at /\ Settled(sub'[u]) = Settled(sub[u])
  <2> DEFINE r == sub[u]
             q == sub'[u]
  <2>1. /\ r \in SubTypes /\ SubInv(r, shut)
        /\ u \in closer.subs => r.closed /\ r.at \notin Waits
    BY <1>3, WatchAssumption DEF WatchInv, WatchTypes, Kept
  <2>2. q = r \/ (u \in closer.subs /\ q = [r EXCEPT !.posted = Append(r.posted, End)])
    BY <1>1, <2>1
  <2> HIDE DEF r, q
  <2>3. CASE q = r
    BY <2>1, <2>3 DEF r, q
  <2>4. CASE u \in closer.subs /\ q = [r EXCEPT !.posted = Append(r.posted, End)]
    <3>1. /\ Append(r.posted, End) \in Seq(Marks)
          /\ \A k \in 1..Len(Append(r.posted, End)) : Append(r.posted, End)[k] = End => shut /\ r.closed
      <4>1. r.posted \in Seq(Marks)
        BY <2>1 DEF SubTypes
      <4> QED
        BY <1>3, <2>1, <2>4, <4>1, EndMark
    <3>2. /\ q \in SubTypes /\ q.at = r.at /\ q.queue = r.queue /\ q.got = r.got /\ q.last = r.last
          /\ q.wants = r.wants /\ q.tearing = r.tearing /\ q.watch = r.watch /\ q.posted = Append(r.posted, End)
          /\ q.runs = r.runs /\ q.stop = r.stop /\ q.closed = r.closed
      BY <2>1, <2>4, <3>1 DEF SubTypes
    <3>3. WordInv(q, q.got \o q.queue, shut)
      <4>1. WordInv(r, r.got \o r.queue, shut) /\ q.closed
        BY <2>1, <2>4, <3>2 DEF SubInv
      <4>2. WordInv(q, r.got \o r.queue, shut)
        BY <3>2, <4>1, WordKept
      <4> QED
        BY <3>2, <4>2
    <3>4. SubInv(q, shut)
      BY <2>1, <2>4, <3>1, <3>2, <3>3 DEF SubInv
    <3> QED
      BY <3>2, <3>4 DEF Settled, r, q
  <2> QED
    BY <2>2, <2>3, <2>4
<1>5. WatchTypes'
  <2>1. sub' \in [Subscribers -> SubTypes]
    BY <1>1, <1>4
  <2>2. closer' \in [step : {"never", "idle", "next", "mark", "wake", "done"}, loop : StoreLoops \cup {"none"},
                     left : SUBSET StoreLoops, subs : SUBSET Subscribers]
    BY <1>1 DEF WatchInv, WatchTypes
  <2> QED
    BY <1>1, <2>1, <2>2 DEF WatchInv, WatchTypes
<1>6. CloserInv'
  BY <1>1, <1>2, <1>3 DEF WatchInv, CloserInv
<1>7. ASSUME NEW u \in Subscribers PROVE SubInv(sub[u], shut)' /\ Kept(u)'
  <2>1. SubInv(sub'[u], shut')
    BY <1>1, <1>4
  <2>2. Kept(u) /\ SubLoop[u] \in StoreLoops
    BY WatchAssumption DEF WatchInv
  <2>3. Settled(sub'[u]) \/ (closer'.step # "done" /\ u \in bag'[SubLoop[u]])
    <3>1. CASE Settled(sub[u])
      BY <1>4, <3>1
    <3>2. CASE ~Settled(sub[u])
      <4>1. u \in bag[SubLoop[u]]
        BY <1>3, <2>2, <3>2 DEF Kept
      <4>2. u \in crowd.callers
        BY <2>2, <3>2 DEF WatchInv, Kept, SubInv, Settled, Waits, Unwatched
      <4>3. SubLoop[u] \in closer.left
        BY <1>3, <4>1, <4>2 DEF WatchInv, CloserInv
      <4> QED
        BY <1>1, <1>2, <4>1, <4>3
    <3> QED
      BY <3>1, <3>2
  <2>4. Kept(u)'
    BY <1>1, <1>2, <1>4, <2>2, <2>3 DEF Kept
  <2> QED
    BY <2>1, <2>4
<1> QED
  BY <1>5, <1>6, <1>7 DEF WatchInv

\* The row is written by somebody.
LEMMA WriteKeeps ==
  ASSUME WatchInv, NEW status \in {"none", "pending", "completed"}, Write(status), UNCHANGED crowd
  PROVE  WatchInv'
<1>1. UNCHANGED <<crowd, shut, closer, bag, dead, sub>> /\ row' = status /\ edition' = edition + 1
  BY DEF Write
<1>2. WatchTypes' /\ CloserInv'
  BY <1>1 DEF WatchInv, WatchTypes, CloserInv
<1>3. ASSUME NEW u \in Subscribers PROVE SubInv(sub[u], shut)' /\ Kept(u)'
  <2>1. SubInv(sub[u], shut) /\ Kept(u)
    BY DEF WatchInv
  <2> QED
    BY <1>1, <2>1 DEF Kept
<1> QED
  BY <1>2, <1>3 DEF WatchInv

\* A loop ends, with no attach under way on it.
LEMMA LoopEndsKeeps ==
  ASSUME WatchInv, NEW l \in Cells, LoopEnds(l), UNCHANGED crowd PROVE WatchInv'
<1>1. UNCHANGED <<crowd, shut, closer, bag, row, edition, sub>> /\ dead' = dead \cup {l} /\ ~Busy(l)
  BY DEF LoopEnds
<1>2. WatchTypes' /\ CloserInv'
  BY <1>1 DEF WatchInv, WatchTypes, CloserInv
<1>3. ASSUME NEW u \in Subscribers PROVE SubInv(sub[u], shut)' /\ Kept(u)'
  <2>1. SubInv(sub[u], shut) /\ Kept(u)
    BY DEF WatchInv
  <2>2. sub[u].at \in Attaching \cup {"locked"} => SubLoop[u] # l
    BY <1>1 DEF Busy, Attaching
  <2> QED
    BY <1>1, <2>1, <2>2 DEF Kept
<1> QED
  BY <1>2, <1>3 DEF WatchInv

-----------------------------------------------------------------------------
\* Every step keeps the invariant.
LEMMA WatchStep == ASSUME WatchInv, [WatchNext]_watchVars PROVE WatchInv'
<1>1. CASE UNCHANGED watchVars
  <2>1. WatchTypes' /\ CloserInv'
    BY <1>1 DEF WatchInv, WatchTypes, CloserInv, watchVars
  <2>2. ASSUME NEW u \in Subscribers PROVE SubInv(sub[u], shut)' /\ Kept(u)'
    <3>1. SubInv(sub[u], shut) /\ Kept(u) /\ UNCHANGED <<crowd, shut, closer, bag, dead, sub>>
      BY <1>1 DEF WatchInv, watchVars
    <3> QED
      BY <3>1 DEF Kept
  <2> QED
    BY <2>1, <2>2 DEF WatchInv
<1>2. CASE UNCHANGED crowd /\ WatchSystem
  BY <1>2, TakeLockKeeps, AttachKeeps, AssignKeeps, ServeKeeps, UndoneKeeps, UnsubscribeKeeps, HearKeeps,
     DeliverKeeps, TakeKeeps, TornDownKeeps, TeardownKeeps, ClearBagKeeps, MarkSubsKeeps, WakeKeeps
     DEF WatchSystem
<1>3. ASSUME NEW s \in Subscribers, UNCHANGED crowd, Ask(s) \/ Leave(s) \/ Hear(s) PROVE WatchInv'
  BY <1>3, AskKeeps, LeaveKeeps, HearKeeps
<1>4. CASE UNCHANGED crowd /\ BeginClose
  BY <1>4, BeginCloseKeeps
<1>5. ASSUME NEW status \in {"none", "pending", "completed"}, UNCHANGED crowd, Write(status) PROVE WatchInv'
  BY <1>5, WriteKeeps
<1>6. ASSUME NEW l \in Cells, UNCHANGED crowd, LoopEnds(l) PROVE WatchInv'
  BY <1>6, LoopEndsKeeps
<1> QED
  BY <1>1, <1>2, <1>3, <1>4, <1>5, <1>6 DEF WatchNext

\* It holds at the start.
LEMMA WatchStarts == ASSUME crowd \in Crowds, WatchInit PROVE WatchInv
<1>1. crowd.callers \subseteq Subscribers /\ crowd.closes \in BOOLEAN
  BY WatchAssumption
<1>2. ASSUME NEW u \in Subscribers
      PROVE  sub[u] \in SubTypes /\ SubInv(sub[u], shut) /\ Kept(u)
  <2> DEFINE r == sub[u]
  <2>1. /\ r.at = (IF u \in crowd.callers THEN "new" ELSE "absent") /\ ~r.watch /\ ~r.runs /\ ~r.closed /\ ~r.stop
        /\ r.wants = {} /\ r.tearing = "no" /\ r.last = "none" /\ r.posted = <<>> /\ r.heard = 0
        /\ r.queue = <<>> /\ r.got = <<>> /\ ~r.hook /\ r \in SubTypes
    <3>1. r = [NewSub EXCEPT !.at = IF u \in crowd.callers THEN "new" ELSE "absent"]
      BY DEF WatchInit
    <3>2. <<>> \in Seq(Marks)
      OBVIOUS
    <3> HIDE DEF r
    <3>3. /\ r.at = (IF u \in crowd.callers THEN "new" ELSE "absent") /\ ~r.watch /\ ~r.runs /\ ~r.closed /\ ~r.stop
          /\ r.wants = {} /\ r.tearing = "no" /\ r.last = "none" /\ r.posted = <<>> /\ r.heard = 0
          /\ r.queue = <<>> /\ r.got = <<>> /\ ~r.hook
      BY <3>1 DEF NewSub
    <3>4. r \in SubTypes
      BY <3>1, <3>2 DEF NewSub, SubTypes, Waits
    <3> QED
      BY <3>3, <3>4
  <2>2. /\ bag = [l \in StoreLoops |-> {}] /\ closer.subs = {} /\ dead = {}
    BY DEF WatchInit
  <2>3. Kept(u)
    BY <2>1, <2>2 DEF Kept, Settled, Attaching
  <2> HIDE DEF r
  <2>4. WordInv(r, r.got \o r.queue, shut)
    <3>1. <<>> \o <<>> = <<>> /\ Tells(<<>>, <<>>) /\ <<>> \in Tellings
      BY DEF Tells, Tellings
    <3> QED
      BY <2>1, <3>1 DEF WordInv
  <2>5. SubInv(r, shut)
    <3>1. \A k \in 1..Len(<<>>) : FALSE
      OBVIOUS
    <3> QED
      BY <2>1, <2>4, <3>1 DEF SubInv, Waits, Attaching, Unwatched
  <2> QED
    BY <2>1, <2>3, <2>5 DEF r
<1>3. WatchTypes
  <2>1. sub \in [Subscribers -> SubTypes]
    BY <1>2 DEF WatchInit
  <2> QED
    BY <2>1 DEF WatchInit, WatchTypes
<1>4. CloserInv
  BY <1>1 DEF WatchInit, CloserInv
<1> QED
  BY <1>2, <1>3, <1>4 DEF WatchInv

\* The consumer's part of the word: some of the statuses, or all of them and one end.
LEMMA GotInOrder ==
  ASSUME NEW r \in SubTypes, NEW over, SubInv(r, over)
  PROVE  \E told \in Tellings :
           \/ r.got = told
           \/ r.got = Append(told, End) /\ (over \/ (told # <<>> /\ told[Len(told)] \in Terminal))
<1> DEFINE w == r.got \o r.queue
<1>1. /\ r.got \in Seq(Marks) /\ w \in Seq(Marks) /\ Len(r.got) \in Nat
      /\ Len(r.got) <= Len(w) /\ \A k \in 1..Len(r.got) : r.got[k] = w[k]
  <2>1. r.got \in Seq(Marks) /\ r.queue \in Seq(Marks)
    BY DEF SubTypes
  <2> QED
    BY <2>1, Leads
<1>2. PICK told \in Tellings :
        /\ Tells(w, told) /\ r.last = IF told = <<>> THEN "none" ELSE told[Len(told)]
        /\ Len(told) < Len(w) => over \/ r.last = "completed"
  BY DEF SubInv, WordInv
<1>3. \A k \in 1..Len(r.got) : r.got[k] = End => k = Len(r.got)
  BY DEF SubInv
<1> HIDE DEF w
<1>4. Len(told) \in 0..2 /\ \A k \in 1..Len(told) : told[k] # End
  BY DEF Tellings, End
<1>5. \A k \in 1..Len(r.got) : r.got[k] = IF k <= Len(told) THEN told[k] ELSE End
  BY <1>1, <1>2 DEF Tells
<1>6. CASE Len(r.got) <= Len(told)
  <2>1. \A k \in 1..Len(r.got) : r.got[k] = told[k]
    BY <1>4, <1>5, <1>6
  <2>2. r.got \in Tellings
    <3>1. CASE Len(r.got) = 0
      <4>1. r.got = <<>>
        BY <1>1, <3>1
      <4> QED
        BY <4>1 DEF Tellings
    <3>2. CASE Len(r.got) = 1
      <4>1. r.got = <<told[1]>> /\ told \in {<<"pending">>, <<"completed">>, <<"pending", "completed">>}
        BY <1>1, <1>6, <2>1, <3>2 DEF Tellings
      <4> QED
        BY <4>1 DEF Tellings
    <3>3. CASE Len(r.got) = 2
      <4>1. told = <<"pending", "completed">>
        <5>1. Len(<<>>) = 0 /\ Len(<<"pending">>) = 1 /\ Len(<<"completed">>) = 1
          OBVIOUS
        <5> QED
          BY <1>4, <1>6, <3>3, <5>1 DEF Tellings
      <4>2. r.got[1] = "pending" /\ r.got[2] = "completed"
        BY <2>1, <3>3, <4>1
      <4>3. r.got = <<"pending", "completed">>
        BY <1>1, <3>3, <4>2
      <4> QED
        BY <4>3 DEF Tellings
    <3>4. Len(r.got) \in 0..2
      <4>1. Len(r.got) \in Nat /\ Len(told) \in 0..2 /\ Len(r.got) <= Len(told)
        BY <1>1, <1>4, <1>6
      <4>2. \A n \in Nat : \A m \in 0..2 : n <= m => n \in 0..2
        BY SMT
      <4> QED
        BY <4>1, <4>2, Zenon
    <3> QED
      BY <3>1, <3>2, <3>3, <3>4
  <2> QED
    BY <2>2
<1>7. CASE Len(r.got) > Len(told)
  <2>1. Len(r.got) = Len(told) + 1
    BY <1>1, <1>3, <1>4, <1>5, <1>7
  <2>2. told \in Seq(Marks)
    <3>1. <<>> \in Seq(Marks) /\ <<"pending">> \in Seq(Marks) /\ <<"completed">> \in Seq(Marks)
          /\ <<"pending", "completed">> \in Seq(Marks)
      BY EndMark
    <3> QED
      BY <3>1 DEF Tellings
  <2>3. r.got = Append(told, End)
    BY <1>1, <1>4, <1>5, <2>1, <2>2
  <2>4. over \/ (told # <<>> /\ told[Len(told)] = "completed")
    BY <1>1, <1>2, <1>4, <1>7
  <2> QED
    BY <2>3, <2>4 DEF Terminal
<1> QED
  BY <1>1, <1>4, <1>6, <1>7

\* Whatever the number of subscriptions, loops and writes, and wherever close() falls in:
\* a subscriber hears each status once, in order, a terminal one last, and no listener of
\* the Firestore SDK is left behind that nobody will stop.
THEOREM WatchersHearTheRowHolds == WatchSpec => []WatchersHearTheRow
<1>1. crowd \in Crowds /\ WatchInit => WatchInv
  BY WatchStarts
<1>2. WatchInv /\ [WatchNext]_watchVars => WatchInv'
  BY WatchStep
<1>3. WatchInv => WatchersHearTheRow
  <2>1. ASSUME WatchInv, NEW s \in Subscribers
        PROVE  \E told \in Tellings :
                 \/ sub[s].got = told
                 \/ /\ sub[s].got = Append(told, End)
                    /\ shut \/ (told # <<>> /\ told[Len(told)] \in Terminal)
    BY <2>1, GotInOrder DEF WatchInv, WatchTypes
  <2>2. ASSUME WatchInv, NEW s \in Subscribers, sub[s].runs
        PROVE  \/ sub[s].at \in {"attached", "checking", "undoing"} \/ sub[s].stop
               \/ closer.step # "done" /\ (s \in bag[SubLoop[s]] \/ s \in closer.subs)
    BY <2>2 DEF WatchInv, Kept, Settled
  <2> QED
    BY <2>1, <2>2 DEF WatchersHearTheRow, StatusesInOrder, NoWatchLeaks
<1> QED
  BY <1>1, <1>2, <1>3, PTL DEF WatchSpec
===============================================================================
