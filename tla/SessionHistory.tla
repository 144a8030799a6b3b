----------------------------- MODULE SessionHistory -----------------------------
(***************************************************************************)
(* The history of one session: the tree of its snapshots, how an           *)
(* invocation picks the row it continues from (load_session, select_leaf,  *)
(* walk_back_to_resumable), the rows its turns leave (AgentRuntime has the *)
(* details of one invocation), and the pruning of FileSessionStore.        *)
(*                                                                         *)
(* A client holds one chat.  It resumes by the chat's snapshot id, or      *)
(* opens a new chat on the session id.  Each store call is atomic, except  *)
(* that pruning deletes file after file and the process may crash between  *)
(* two of them.                                                            *)
(*                                                                         *)
(* Rows are numbered in the order of their created_at, and the state of a  *)
(* row is the set of turns it contains; a turn is named by the row it was  *)
(* first saved in.                                                         *)
(***************************************************************************)
EXTENDS SnapshotRules, Integers, Sequences, FiniteSets, FiniteSetsExt

CONSTANTS
  Clients,          \* clients of the session
  Stores,           \* the stores it may live in: see `home`
  Ways,             \* how clients resume: "session", "snapshot"
  Outcomes,         \* how turns end: "completed", "reported", "raised", "detached"
  MaxIds,           \* bound on the snapshots of a behaviour
  MaxCrashes        \* bound on process crashes

ASSUME HistoryAssumption ==
  /\ {MaxIds, MaxCrashes} \subseteq Nat
  /\ Stores \subseteq [cap : Nat, strict : BOOLEAN, clients : SUBSET Clients, turns : Nat]
  /\ Ways \subseteq {"session", "snapshot"}
  /\ Outcomes \subseteq {"completed", "reported", "raised", "detached"}

None == 0
RowIds == 1..MaxIds

VARIABLES
  home,     \* the store: max_persisted_chain_length (0 when unset), reject_ambiguous_session,
            \* the clients the session has, and the turns of one invocation
            \* (AgentChat sends one input at a time); never changes
  rows,     \* the snapshots of the session
  nextId,   \* the next row
  pruning,  \* rows the save in progress still has to delete
  inv,      \* the invocation of each client
  handle,   \* the snapshot id each client's chat resumes from
  told,     \* the turns of the last row each client saw completed by a turnEnd
  work,     \* detached turns still running: [id, turns]
  crashes   \* process crashes

historyVars == <<home, rows, nextId, pruning, inv, handle, told, work, crashes>>

Cap == home.cap
RejectAmbiguous == home.strict
TurnsEach == home.turns

NoSnapshot == [status |-> "absent", parent |-> None, turns |-> {}]
Closed == [at |-> "closed", way |-> "none", cursor |-> None, base |-> None, turns |-> {},
           good |-> {}, index |-> 0, failed |-> FALSE, live |-> None]

HistoryInit ==
  /\ home \in Stores
  /\ rows = [id \in RowIds |-> NoSnapshot]
  /\ nextId = 1
  /\ pruning = {}
  /\ inv = [c \in Clients |-> Closed]
  /\ handle = [c \in Clients |-> None]
  /\ told = [c \in Clients |-> {}]
  /\ work = {}
  /\ crashes = 0

Present == {id \in RowIds : ~Absent(rows[id])}

\* A leaf is a snapshot no other snapshot names as a parent.
Leaves == Present \ {rows[id].parent : id \in Present}

\* The store's lock is free.
StoreIdle == pruning = {}

-----------------------------------------------------------------------------
(* Resuming *)

\* The invocation continues the row id, or starts an empty conversation.
RunFrom(i, id) ==
  LET turns == IF id = None THEN {} ELSE rows[id].turns
  IN [i EXCEPT !.at = "running", !.cursor = None, !.base = id, !.turns = turns, !.good = turns]

\* walk_back_to_resumable reads the row id: stop at a completed row or at the
\* end of the chain, or go on to its parent.
ReadAncestor(i, id) ==
  IF id = None \/ Absent(rows[id]) THEN RunFrom(i, None)
  ELSE IF rows[id].status = "completed" THEN RunFrom(i, id)
  ELSE IF rows[id].parent = None THEN RunFrom(i, None)
  ELSE [i EXCEPT !.at = "walking", !.cursor = rows[id].parent]

CompletedLeaves == {id \in Leaves : rows[id].status = "completed"}

\* Fault: the strict option is ignored.
AmbiguousNever == FALSE

\* select_leaf_snapshot refuses to choose between branches.
Ambiguous == RejectAmbiguous /\ Cardinality(Leaves) > 1

\* select_leaf: the most recently created leaf wins.
SelectedLeaf == IF Leaves = {} THEN None ELSE Max(Leaves)

\* A new chat on the session id: look up the leaf, then walk back from it.
ResumeBySession(c) ==
  /\ inv[c].at = "closed" /\ "session" \in Ways
  /\ StoreIdle
  /\ handle' = [handle EXCEPT ![c] = None]
  /\ ~Ambiguous
  /\ inv' = [inv EXCEPT ![c] =
       ReadAncestor([Closed EXCEPT !.way = "session", !.live = Max(CompletedLeaves \cup {None})],
                    SelectedLeaf)]
  /\ UNCHANGED <<rows, nextId, pruning, told, work, crashes>>

\* One more hop of walk_back_to_resumable.
WalkBack(c) ==
  /\ inv[c].at = "walking"
  /\ StoreIdle
  /\ inv' = [inv EXCEPT ![c] = ReadAncestor(@, inv[c].cursor)]
  /\ UNCHANGED <<rows, nextId, pruning, handle, told, work, crashes>>

\* The chat's next turn names its snapshot: that very row must be completed.
ResumeBySnapshot(c) ==
  /\ inv[c].at = "closed" /\ "snapshot" \in Ways
  /\ StoreIdle
  /\ handle[c] # None /\ rows[handle[c]].status = "completed"
  /\ inv' = [inv EXCEPT ![c] = RunFrom([Closed EXCEPT !.way = "snapshot"], handle[c])]
  /\ UNCHANGED <<rows, nextId, pruning, handle, told, work, crashes>>

-----------------------------------------------------------------------------
(* Saving and pruning *)

\* ancestor[n]: the n-th row of the chain of leaf in R, None past its end.
Chain(R, leaf) ==
  LET ancestor[n \in 0..MaxIds] ==
        IF n = 0 THEN leaf
        ELSE IF ancestor[n - 1] = None THEN None
        ELSE LET parent == R[ancestor[n - 1]].parent
             IN IF parent = None \/ Absent(R[parent]) THEN None ELSE parent
  IN ancestor

\* prune_chain_sync: the rows of the chain past the cap.
PastCap(R, leaf) ==
  IF Cap = 0 THEN {} ELSE {Chain(R, leaf)[n] : n \in Cap..MaxIds} \ {None}

\* save_snapshot writes one row, then prunes its chain.
Save(id, row) ==
  /\ StoreIdle
  /\ rows' = [rows EXCEPT ![id] = row]
  /\ pruning' = PastCap(rows', id)

\* The newest goes first; a row is newer than its parent.
PruneNext ==
  /\ pruning # {}
  /\ rows' = [rows EXCEPT ![Max(pruning)] = NoSnapshot]
  /\ pruning' = pruning \ {Max(pruning)}
  /\ UNCHANGED <<nextId, inv, handle, told, work, crashes>>

-----------------------------------------------------------------------------
(* Turns *)

CanTurn(c, outcome) ==
  /\ inv[c].at = "running" /\ outcome \in Outcomes
  /\ inv[c].index < TurnsEach
  /\ nextId <= MaxIds
  /\ nextId' = nextId + 1

\* The row of the turn that just ran, on top of the last one.
TurnRow(c, status) ==
  [status |-> status, parent |-> inv[c].base, turns |-> inv[c].turns \cup {nextId}]

\* The loop goes on from that row.
GoneOn(c, failed) ==
  LET turns == inv[c].turns \cup {nextId}
  IN [inv[c] EXCEPT !.base = nextId, !.turns = turns, !.good = turns, !.index = inv[c].index + 1,
                    !.failed = failed]

TurnCompletes(c) ==
  /\ CanTurn(c, "completed")
  /\ Save(nextId, TurnRow(c, "completed"))
  /\ inv' = [inv EXCEPT ![c] = GoneOn(c, FALSE)]
  /\ told' = [told EXCEPT ![c] = inv[c].turns \cup {nextId}]
  /\ UNCHANGED <<handle, work, crashes>>

\* The handler returns `failed`: the row is a failed one, the loop goes on.
TurnReportsFailure(c) ==
  /\ CanTurn(c, "reported")
  /\ Save(nextId, TurnRow(c, "failed"))
  /\ inv' = [inv EXCEPT ![c] = GoneOn(c, TRUE)]
  /\ UNCHANGED <<handle, told, work, crashes>>

\* The handler raises: a failed row; a turn before it makes a recovery row due.
\* The output is a failed one, which the chat does not resume from.
TurnRaises(c) ==
  /\ CanTurn(c, "raised")
  /\ Save(nextId, TurnRow(c, "failed"))
  /\ inv' = [inv EXCEPT ![c] = IF inv[c].index = 0 THEN Closed
                               ELSE [inv[c] EXCEPT !.at = "recovering", !.base = nextId]]
  /\ UNCHANGED <<handle, told, work, crashes>>

\* ensure_recovery_snapshot: the last good state as a row of its own.
Recover(c) ==
  /\ inv[c].at = "recovering"
  /\ nextId <= MaxIds /\ nextId' = nextId + 1
  /\ Save(nextId, [status |-> "completed", parent |-> inv[c].base, turns |-> inv[c].good])
  /\ inv' = [inv EXCEPT ![c] = Closed]
  /\ UNCHANGED <<handle, told, work, crashes>>

\* The client ends its stream: the output names the last row, and the chat
\* resumes from it unless the last turn failed.
Answer(c) ==
  /\ inv[c].at = "running" /\ inv[c].index > 0
  /\ handle' = [handle EXCEPT ![c] = IF inv[c].failed THEN @ ELSE inv[c].base]
  /\ inv' = [inv EXCEPT ![c] = Closed]
  /\ UNCHANGED <<rows, nextId, pruning, told, work, crashes>>

\* The client detaches: a pending row, and the turn goes on in the background.
Detach(c) ==
  /\ CanTurn(c, "detached")
  /\ Save(nextId, TurnRow(c, "pending"))
  /\ work' = work \cup {[id |-> nextId, turns |-> inv[c].turns \cup {nextId}]}
  /\ handle' = [handle EXCEPT ![c] = nextId]
  /\ inv' = [inv EXCEPT ![c] = Closed]
  /\ UNCHANGED <<told, crashes>>

\* finalize_detach; an aborted row is left alone.
Finalize(w) ==
  /\ w \in work
  /\ StoreIdle
  /\ \E status \in {"completed", "failed"} :
       IF rows[w.id].status = "aborted"
         THEN UNCHANGED <<rows, pruning>>
         ELSE Save(w.id, [rows[w.id] EXCEPT !.status = status, !.turns = w.turns])
  /\ work' = work \ {w}
  /\ UNCHANGED <<nextId, inv, handle, told, crashes>>

\* Anyone aborts a pending row.
Abort(id) ==
  /\ rows[id].status = "pending"
  /\ Save(id, [rows[id] EXCEPT !.status = "aborted"])
  /\ UNCHANGED <<nextId, inv, handle, told, work, crashes>>

\* The process dies, and the clients' chats with it.
Crash ==
  /\ crashes < MaxCrashes
  /\ crashes' = crashes + 1
  /\ pruning' = {}
  /\ inv' = [c \in Clients |-> Closed]
  /\ handle' = [c \in Clients |-> None]
  /\ work' = {}
  /\ UNCHANGED <<rows, nextId, told>>

-----------------------------------------------------------------------------
ClientStep(c) ==
  \/ ResumeBySession(c) \/ WalkBack(c) \/ ResumeBySnapshot(c)
  \/ TurnCompletes(c) \/ TurnReportsFailure(c) \/ TurnRaises(c) \/ Recover(c)
  \/ Answer(c) \/ Detach(c)

HistoryNext ==
  /\ \/ \E c \in home.clients : ClientStep(c)
     \/ \E w \in work : Finalize(w)
     \/ \E id \in RowIds : Abort(id)
     \/ PruneNext \/ Crash
  /\ UNCHANGED home

HistorySpec == HistoryInit /\ [][HistoryNext]_historyVars

-----------------------------------------------------------------------------
(* Properties *)

JustResumed(c) == inv[c].at = "running" /\ inv[c].index = 0 /\ inv[c].way = "session"

\* "Resuming and continuing still work": a conversation resumed by its session id
\* contains every turn its client was told is completed, whatever failed, was
\* detached, aborted, pruned or interrupted by a crash in between.
ConversationKept == \A c \in Clients : JustResumed(c) => told[c] \subseteq inv[c].turns

\* The snapshot a chat resumes from is not pruned under it, whatever turns fail
\* or detach.
HandleSurvives ==
  \A c \in Clients : (inv[c].at = "closed" /\ handle[c] # None) => ~Absent(rows[handle[c]])

\* "a sibling left behind by an aborted/failed turn never shadows the live one":
\* resuming by session id never goes back behind a branch that ended completed.
\* (Only a store that rejects ambiguous sessions keeps this.)
LiveBranchWins ==
  RejectAmbiguous => \A c \in Clients : JustResumed(c) => inv[c].base >= inv[c].live

\* Resuming by session id finds the conversation that its clients know, the live
\* branch of it, and the handle of a chat names a row that is there.
ResumeFindsConversation == ConversationKept /\ LiveBranchWins /\ HandleSurvives
===============================================================================
