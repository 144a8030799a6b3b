-------------------------- MODULE FirestoreSessionStore --------------------------
(***************************************************************************)
(* FirestoreSessionStore: a snapshot row is spread over documents.  Its    *)
(* state is either written in full, cut into shard documents (a            *)
(* checkpoint), or as a JSON patch on the row before it (a diff); a diff   *)
(* row names the checkpoint its chain starts at and the diffs in between.  *)
(* One pointer document per session names the current row and repeats its  *)
(* chain.                                                                  *)
(*                                                                         *)
(* A save reads and writes all of it in one Firestore transaction.  An     *)
(* attempt that loses against another writer runs again; all it leaves     *)
(* behind is what its mutator recorded, and only abort's mutator records.  *)
(* So a save is one step here, and an abort is several.                    *)
(*                                                                         *)
(* A session state is the set of its parts; a patch adds and drops parts.  *)
(***************************************************************************)
EXTENDS SnapshotRules, SequencesExt

CONSTANTS
  Ids,             \* snapshot ids
  Sessions,        \* session ids
  Parts,           \* parts a session state is made of
  States,          \* session states that are saved
  Aborters,        \* coroutines that abort
  Intervals,       \* checkpoint_interval of each store object that shares the documents
  ShardSize,       \* parts that fit one document
  MaxAttempts,     \* transaction_max_attempts
  CallersShareIds, \* may a row without top-level session id be saved under a foreign id
  MaxSaves,        \* bound on the saves of one behaviour
  AbortWindow      \* rows are saved pending, and aborts go on, among that many first saves

ASSUME FirestoreAssumption ==
  /\ Intervals \subseteq Nat \ {0} /\ Intervals # {}
  /\ ShardSize \in Nat \ {0}
  /\ MaxAttempts \in Nat \ {0}
  /\ MaxSaves \in Nat
  /\ AbortWindow \in Nat
  /\ CallersShareIds \in BOOLEAN
  /\ IsFiniteSet(Parts)
  /\ States \subseteq SUBSET Parts
  /\ "none" \notin Ids
  /\ NoSession \notin Sessions

VARIABLES
  docs,      \* the snapshot documents
  shards,    \* the shard documents of each checkpoint
  pointers,  \* the pointer document of each session
  attempts,  \* the abort each aborter has under way
  saved,     \* the row of each id as its last save acknowledged it
  newest,    \* the row created last in each session
  intact,    \* the sessions that never lost their pointer document alone
  claims,    \* aborts that answered `pending`, per id
  saves      \* saves so far

documents == <<docs, shards, pointers>>
ghosts == <<saved, newest, intact>>
vars == <<docs, shards, pointers, attempts, saved, newest, intact, claims, saves>>

NoId == "none"

-----------------------------------------------------------------------------
(* Documents *)

\* _write_shards: a state fills at least one shard.
ShardCount(state) ==
  IF state = {} THEN 1 ELSE (Cardinality(state) + ShardSize - 1) \div ShardSize

MaxShards == ShardCount(Parts)
ShardIndexes == 0..(MaxShards - 1)

\* A chunk is a part of the JSON text of a state: only all of them decode.
NoChunk == [of |-> {}, count |-> 0]
NoPatch == [whole |-> FALSE, add |-> {}, drop |-> {}]
NoChain == [checkpoint |-> NoId, count |-> 0, path |-> <<>>]
NoDoc == [kind |-> "none", status |-> "absent", owner |-> NoSession, parent |-> NoId,
          chain |-> NoChain, patch |-> NoPatch]

NoPointer == [current |-> NoId, chain |-> NoChain]

Exists(id) == docs[id].kind # "none"

\* What a caller sees of a row.
Rows == [status : Statuses, owner : Sessions \cup {NoSession}, session : Sessions,
         parent : Ids \cup {NoId}, state : SUBSET Parts]
NoRow == [status |-> "absent", owner |-> NoSession, session |-> NoSession,
          parent |-> NoId, state |-> {}]

-----------------------------------------------------------------------------
(* Patches.  `from` is the set of the states to start from: {} for None. *)

diff_json(from, to) ==
  IF from = {}
    THEN [whole |-> TRUE, add |-> to, drop |-> {}]
    ELSE LET base == CHOOSE state \in from : TRUE
         IN [whole |-> FALSE, add |-> to \ base, drop |-> base \ to]

\* Lenient: what is not there cannot be dropped and what is there is replaced.
apply_json_patch(state, patch) ==
  IF patch.whole THEN patch.add ELSE (state \ patch.drop) \cup patch.add

PatchTooLarge(patch) == Cardinality(patch.add) + Cardinality(patch.drop) > ShardSize

-----------------------------------------------------------------------------
(* Reading.  The value of a chain is {state}, or {} when the read raises     *)
(* DATA_LOSS.                                                                *)

\* _stitch: every shard the chain counts is there and together they decode.
Stitched(chain) ==
  {state \in SUBSET Parts : \A i \in 0..(chain.count - 1) :
     shards[chain.checkpoint][i] = [of |-> state, count |-> chain.count]}

\* The snapshot a chain ends at.
Target(chain) == IF chain.path = <<>> THEN chain.checkpoint ELSE Last(chain.path)

\* A diff document without a patch, or a missing one inside the chain, is DATA_LOSS.
AfterSegment(value, id) ==
  IF docs[id].kind = "diff" THEN {apply_json_patch(state, docs[id].patch) : state \in value} ELSE {}

_reconstruct_from(chain, id) ==
  IF Target(chain) = id THEN FoldLeft(AfterSegment, Stitched(chain), chain.path) ELSE {}

\* Of a document that exists.
_reconstruct(id) == _reconstruct_from(docs[id].chain, id)

RowWith(id, state) ==
  [status |-> docs[id].status, owner |-> docs[id].owner, session |-> docs[id].owner,
   parent |-> docs[id].parent, state |-> state]

\* get_snapshot by id: {NoRow} for None, {} when it raises.
get_snapshot(id) ==
  IF Exists(id) THEN {RowWith(id, state) : state \in _reconstruct(id)} ELSE {NoRow}

\* get_snapshot by session, from the chain the pointer repeats.
OwnedBy(session, id) == docs[id].owner = session

get_session(session) ==
  LET pointer == pointers[session] IN
  IF pointer = NoPointer \/ ~Exists(pointer.current)
    THEN {NoRow}
    ELSE {RowWith(pointer.current, state) : state \in
            {s \in _reconstruct_from(pointer.chain, pointer.current) :
               OwnedBy(session, pointer.current)}}

-----------------------------------------------------------------------------
(* Writing.  A meta is [kind, chain, patch]; a set of metas is empty when the *)
(* save raises.                                                               *)

CheckpointMeta(id, state) ==
  [kind |-> "checkpoint", patch |-> NoPatch,
   chain |-> [checkpoint |-> id, count |-> ShardCount(state), path |-> <<>>]]

\* A diff unless its patch does not fit one document.
DiffMeta(id, chain, from, state) ==
  LET patch == diff_json(from, state)
  IN IF PatchTooLarge(patch)
       THEN CheckpointMeta(id, state)
       ELSE [kind |-> "diff", chain |-> chain, patch |-> patch]

\* Fault: the pointer is not looked at.
NeverInterior(id, existing, next) == FALSE

\* Only the current row of a session may have its state rewritten.
InteriorRewrite(id, existing, next) ==
  /\ existing.state # next.state
  /\ pointers[next.owner] # NoPointer
  /\ pointers[next.owner].current # id

\* Rewriting the row of an existing document.
UpsertMeta(id, existing, next) ==
  LET parent == docs[id].parent
      parentExists == parent # NoId /\ Exists(parent)
      from == IF parentExists THEN _reconstruct(parent) ELSE {}
  IN
  IF \/ existing.parent # next.parent
     \/ InteriorRewrite(id, existing, next)
    THEN {}
  ELSE IF docs[id].kind = "checkpoint"
    THEN {CheckpointMeta(id, next.state)}
  ELSE IF parentExists /\ (from = {} \/ docs[parent].owner # next.owner)
    THEN {}
    ELSE {DiffMeta(id, docs[id].chain, from, next.state)}

\* _load_parent_chain_meta: from the pointer when it is the parent, else from
\* the parent's document; the set is empty when there is none.
ParentChain(parent, session) ==
  IF parent # NoId /\ pointers[session].current = parent
    THEN {pointers[session].chain}
    ELSE {docs[id].chain : id \in {i \in {parent} \ {NoId} : Exists(i)}}

\* One more diff would make the segment longer than the interval allows.
SegmentFull(chain, interval) == Len(chain.path) + 1 >= interval

\* A diff on a parent of the same session; a parent that reads as missing is
\* patched from nothing.
DiffOnParent(id, chain, next) ==
  LET from == _reconstruct_from(chain, next.parent)
      grown == [chain EXCEPT !.path = Append(@, id)]
  IN IF ~Exists(next.parent) THEN {DiffMeta(id, grown, {}, next.state)}
     ELSE IF from = {} \/ docs[next.parent].owner # next.owner THEN {}
     ELSE {DiffMeta(id, grown, from, next.state)}

\* A new row: a checkpoint at a root, behind an unknown parent and when the
\* segment of the parent is full; else a diff.
CreateMeta(id, next, interval) ==
  LET chains == ParentChain(next.parent, next.owner)
  IN IF \A chain \in chains : SegmentFull(chain, interval)
       THEN {CheckpointMeta(id, next.state)}
       ELSE UNION {DiffOnParent(id, chain, next) : chain \in chains}

Metas(id, existing, next, interval) ==
  IF Exists(id) THEN UpsertMeta(id, existing, next) ELSE CreateMeta(id, next, interval)

\* _write_shards: write the chunks, delete the surplus of the old checkpoint.
_write_shards(id, meta, state) ==
  LET old == IF docs[id].kind = "checkpoint" THEN docs[id].chain.count ELSE 0
  IN [i \in ShardIndexes |->
        IF meta.kind # "checkpoint" THEN shards[id][i]
        ELSE IF i < meta.chain.count THEN [of |-> state, count |-> meta.chain.count]
        ELSE IF i < old THEN NoChunk
        ELSE shards[id][i]]

\* _update_pointer_in_transaction: a new row, a missing pointer, the current row.
PointerMoves(id, next) ==
  \/ ~Exists(id)
  \/ pointers[next.owner] = NoPointer
  \/ pointers[next.owner].current = id

\* What an attempt reads; it loses when any of it changes before its commit.
ReadSet(id) ==
  LET chain == docs[id].chain IN
  <<docs[id],
    IF Exists(id) THEN <<shards[chain.checkpoint], [i \in ToSet(chain.path) \cup {chain.checkpoint} |-> docs[i]],
                         pointers[docs[id].owner]>>
                  ELSE <<>> >>

\* The attempts on other ids that lose against this step.
Contend(others) ==
  LET Changed == {id \in Ids : ReadSet(id)' # ReadSet(id)}
  IN [c \in Aborters |->
        IF attempts[c].pc = "open" /\ c \in others /\ attempts[c].id \in Changed
          THEN [attempts[c] EXCEPT !.contended = TRUE] ELSE attempts[c]]

\* The transaction of save_snapshot commits one of the rows the mutator made of
\* the row it read.
Committed(id, existing, produced) ==
  \E next \in apply_save(existing, produced), interval \in Intervals :
    \E meta \in Metas(id, existing, next, interval) :
      /\ docs' = [docs EXCEPT ![id] =
           [kind |-> meta.kind, status |-> next.status, owner |-> next.owner,
            parent |-> next.parent, chain |-> meta.chain, patch |-> meta.patch]]
      /\ shards' = [shards EXCEPT ![id] = _write_shards(id, meta, next.state)]
      /\ pointers' = IF PointerMoves(id, next)
           THEN [pointers EXCEPT ![next.owner] = [current |-> id, chain |-> meta.chain]]
           ELSE pointers
      /\ saved' = [saved EXCEPT ![id] = next]
      /\ newest' = IF Exists(id) THEN newest ELSE [newest EXCEPT ![next.owner] = id]

-----------------------------------------------------------------------------
Init ==
  /\ docs = [id \in Ids |-> NoDoc]
  /\ shards = [id \in Ids |-> [i \in ShardIndexes |-> NoChunk]]
  /\ pointers = [s \in Sessions |-> NoPointer]
  /\ attempts = [c \in Aborters |-> [pc |-> "idle"]]
  /\ saved = [id \in Ids |-> NoRow]
  /\ newest = [s \in Sessions |-> NoId]
  /\ intact = Sessions
  /\ claims = [id \in Ids |-> 0]
  /\ saves = 0
-----------------------------------------------------------------------------
(* save_snapshot *)

\* The top-level session id of a row: the runtime leaves it out.  A caller may
\* name it; that makes a difference under an id of another session alone.  Ids are
\* unique across sessions for the runtime, and for all callers unless CallersShareIds.
NamedOwner(id, session) ==
  IF docs[id].owner \in {NoSession, session} \/ CallersShareIds THEN NoSession ELSE session

\* The rows a caller may hand to a save of this id.
NewRows(id, statuses) ==
  {[status |-> status, owner |-> NamedOwner(id, session), session |-> session,
    parent |-> parent, state |-> state] :
     status \in statuses, session \in Sessions, parent \in (Ids \ {id}) \cup {NoId}, state \in States}

\* Bounds: an abort under way is over before the saves leave its window.
MaySave ==
  /\ saves < MaxSaves
  /\ saves >= AbortWindow => \A c \in Aborters : attempts[c].pc # "open"

\* The turn-end save.
SaveTurn(id) ==
  /\ MaySave
  /\ \E existing \in get_snapshot(id), row \in NewRows(id, {"completed"}) :
       Committed(id, existing, UnlessAborted(existing, row))
  /\ saves' = saves + 1
  /\ attempts' = Contend(Aborters)
  /\ UNCHANGED <<intact, claims>>

\* The save of a detached turn, whatever the row holds.
SavePending(id) ==
  /\ MaySave
  /\ saves < AbortWindow
  /\ \E existing \in get_snapshot(id), row \in NewRows(id, {"pending"}) :
       Committed(id, existing, {row})
  /\ saves' = saves + 1
  /\ attempts' = Contend(Aborters)
  /\ UNCHANGED <<intact, claims>>

\* A beat changes the time stamp alone, and rewrites the documents for it.
Heartbeat(id) ==
  /\ docs[id].status = "pending"
  /\ \E existing \in get_snapshot(id) : Committed(id, existing, {existing})
  /\ attempts' = Contend(Aborters)
  /\ UNCHANGED <<intact, claims, saves>>

-----------------------------------------------------------------------------
(* abort_snapshot_in_store: save_snapshot with the recording mutator *)

\* _AbortRecorder: a missing row leaves what an earlier attempt recorded.
Recorded(id, previous) == IF Exists(id) THEN docs[id].status ELSE previous

BeginAbort(c, id) ==
  /\ attempts[c].pc = "idle"
  /\ saves <= AbortWindow
  /\ get_snapshot(id) # {}
  /\ attempts' = [attempts EXCEPT ![c] =
       [pc |-> "open", id |-> id, tries |-> 1, contended |-> FALSE,
        previous |-> Recorded(id, "none")]]
  /\ UNCHANGED <<documents, ghosts, claims, saves>>

\* Fault: the recorder keeps its first observation.
RetryAbortKeepsFirst(c) ==
  /\ attempts[c].pc = "open"
  /\ attempts[c].contended
  /\ attempts[c].tries < MaxAttempts
  /\ attempts' = [attempts EXCEPT ![c].tries = @ + 1, ![c].contended = FALSE]
  /\ UNCHANGED <<documents, ghosts, claims, saves>>

\* The attempt lost: read again.
RetryAbort(c) ==
  /\ attempts[c].pc = "open"
  /\ attempts[c].contended
  /\ attempts[c].tries < MaxAttempts
  /\ get_snapshot(attempts[c].id) # {}
  /\ attempts' = [attempts EXCEPT ![c].tries = @ + 1, ![c].contended = FALSE,
                                  ![c].previous = Recorded(attempts[c].id, @)]
  /\ UNCHANGED <<documents, ghosts, claims, saves>>

\* The last attempt lost: ABORTED is raised, nobody is answered.
GiveUpAbort(c) ==
  /\ attempts[c].pc = "open"
  /\ attempts[c].contended
  /\ attempts[c].tries = MaxAttempts
  /\ attempts' = [attempts EXCEPT ![c] = [pc |-> "done"]]
  /\ UNCHANGED <<documents, ghosts, claims, saves>>

\* The answer of an abort of a row that is still there.
Claim(c) ==
  LET id == attempts[c].id
  IN [claims EXCEPT ![id] = IF attempts[c].previous = "pending" /\ Exists(id) THEN @ + 1 ELSE @]

\* The attempt commits the aborted row.
CommitAbort(c) ==
  /\ attempts[c].pc = "open"
  /\ ~attempts[c].contended
  /\ LET id == attempts[c].id IN
     \E existing \in get_snapshot(id) : Committed(id, existing, abort_if_pending(existing))
  /\ claims' = Claim(c)
  /\ attempts' = [Contend(Aborters \ {c}) EXCEPT ![c] = [pc |-> "done"]]
  /\ UNCHANGED <<intact, saves>>

\* The row is missing or settled: nothing to write.
SkipAbort(c) ==
  /\ attempts[c].pc = "open"
  /\ ~attempts[c].contended
  /\ docs[attempts[c].id].status # "pending"
  /\ claims' = Claim(c)
  /\ attempts' = [attempts EXCEPT ![c] = [pc |-> "done"]]
  /\ UNCHANGED <<documents, ghosts, saves>>

-----------------------------------------------------------------------------
(* What else happens to the documents *)

\* All documents of a session are deleted.
DeleteSession(s) ==
  LET gone == {id \in Ids : docs[id].owner = s} IN
  /\ gone # {}
  /\ docs' = [id \in Ids |-> IF id \in gone THEN NoDoc ELSE docs[id]]
  /\ shards' = [id \in Ids |-> IF id \in gone THEN [i \in ShardIndexes |-> NoChunk] ELSE shards[id]]
  /\ pointers' = [pointers EXCEPT ![s] = NoPointer]
  /\ saved' = [id \in Ids |-> IF id \in gone THEN NoRow ELSE saved[id]]
  /\ newest' = [newest EXCEPT ![s] = NoId]
  /\ intact' = intact \cup {s}
  /\ claims' = [id \in Ids |-> IF id \in gone THEN 0 ELSE claims[id]]
  /\ attempts' = Contend(Aborters)
  /\ UNCHANGED saves

\* The pointer document expires or is deleted on its own.
LosePointer(s) ==
  /\ pointers[s] # NoPointer
  /\ pointers' = [pointers EXCEPT ![s] = NoPointer]
  /\ intact' = intact \ {s}
  /\ UNCHANGED <<docs, shards, saved, newest, claims, saves>>
  /\ attempts' = Contend(Aborters)

-----------------------------------------------------------------------------
Next ==
  \/ \E id \in Ids : SaveTurn(id) \/ SavePending(id) \/ Heartbeat(id)
  \/ \E c \in Aborters : \/ \E id \in Ids : BeginAbort(c, id)
                         \/ RetryAbort(c) \/ GiveUpAbort(c) \/ CommitAbort(c) \/ SkipAbort(c)
  \/ \E s \in Sessions : DeleteSession(s) \/ LosePointer(s)

Spec == Init /\ [][Next]_vars

-----------------------------------------------------------------------------
(* Properties *)

\* The spread-out rows read like rows of one table: whatever was saved, rewritten,
\* branched or deleted since, a read by id answers the row as its last save
\* acknowledged it, a read by session the row created last, and neither raises
\* DATA_LOSS.  Sessions that lost their pointer document alone are left out.
ReadsBack ==
  /\ \A id \in Ids : saved[id].owner \in intact \cup {NoSession} => get_snapshot(id) = {saved[id]}
  /\ \A s \in intact : get_session(s) = {IF newest[s] = NoId THEN NoRow ELSE saved[newest[s]]}

\* No document grows past what one document holds, no chain is longer than the
\* largest interval of the stores that write it, and no shard outlives the
\* checkpoint it was cut from.
DocumentsBounded ==
  \A id \in Ids :
    /\ ~PatchTooLarge(docs[id].patch)
    /\ \E interval \in Intervals : Len(docs[id].chain.path) < interval
    /\ \A i \in ShardIndexes :
         shards[id][i] # NoChunk <=> docs[id].kind = "checkpoint" /\ i < docs[id].chain.count

\* However a row is spread over documents, it stays whole and within their limits.
RowsAreWhole == ReadsBack /\ DocumentsBounded

\* Of the aborts of one row one at most is answered `pending`, and it is the one
\* that aborted it, however often attempts lose and run again.
AbortAnswersOnce ==
  \A id \in Ids : /\ claims[id] <= 1
                  /\ claims[id] = 1 => docs[id].status = "aborted"
\* However a row is spread, rewritten and retried, its status is created once, settles
\* at most once and is terminal from then on, until its session is deleted.
StatusOfDocs == [id \in Ids |-> docs[id].status]
Promise == INSTANCE SnapshotLifecycle WITH status <- StatusOfDocs

Forgotten(s) == StatusOfDocs' = [id \in Ids |-> IF docs[id].owner = s THEN "absent" ELSE docs[id].status]

ImplementsLifecycle ==
  /\ Promise!LifecycleInit
  /\ [][Promise!LifecycleNext \/ \E s \in Sessions : Forgotten(s)]_StatusOfDocs
===============================================================================
