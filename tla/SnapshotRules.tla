----------------------------- MODULE SnapshotRules -----------------------------
(***************************************************************************)
(* The rules every session store applies to a snapshot row, and the        *)
(* mutators the agent runtime hands to save_snapshot.                      *)
(*                                                                         *)
(* A row is a record with at least the fields                              *)
(*   status   a member of Statuses, or "absent" for an id nobody wrote     *)
(*   owner    the top-level session_id, or NoSession                       *)
(*   session  the session_id inside the state, or NoSession                *)
(* A mutator returns a set: {} is the None that skips the save, {row} the  *)
(* row to persist.                                                         *)
(***************************************************************************)
EXTENDS Naturals

NoSession == "nosession"

\* The persisted statuses; `expired` is computed on read and never stored.
TERMINAL_STATUSES == {"completed", "failed", "aborted"}
Statuses == {"pending"} \cup TERMINAL_STATUSES

Absent(row) == row.status = "absent"

\* What apply_save refuses: handing a row to another session, or changing the
\* status of a row that is already terminal.
ForeignSession(existing, next) ==
  /\ ~Absent(existing)
  /\ existing.owner # NoSession
  /\ next.owner # NoSession
  /\ existing.owner # next.owner

\* Fault: only `completed` absorbs.
TerminalFlipCompletedOnly(existing, next) ==
  existing.status = "completed" /\ next.status # existing.status

TerminalFlip(existing, next) ==
  /\ existing.status \in TERMINAL_STATUSES
  /\ next.status # existing.status

Refused(existing, next) ==
  ForeignSession(existing, next) \/ TerminalFlip(existing, next)

\* The store mirrors a missing top-level session id from the state.
stamp_store_fields(row) ==
  IF row.owner = NoSession THEN [row EXCEPT !.owner = row.session] ELSE row

\* apply_save on the rows a mutator returned: the set of rows to persist.  Empty
\* when the save is skipped or refused; WasRefused tells the two apart.
apply_save(existing, produced) ==
  {stamp_store_fields(next) : next \in {n \in produced : ~Refused(existing, n)}}

WasRefused(existing, produced) == \E n \in produced : Refused(existing, n)

\* Mutator of the turn-end, recovery and detached-finalize saves.
UnlessAborted(existing, snap) == IF existing.status = "aborted" THEN {} ELSE {snap}

\* Mutator of abort.
abort_if_pending(existing) ==
  IF existing.status = "pending" THEN {[existing EXCEPT !.status = "aborted"]} ELSE {}

\* Mutator of the heartbeat, for rows that carry a beat.
BeatIfPending(existing, now) ==
  IF existing.status = "pending" THEN {[existing EXCEPT !.beat = now]} ELSE {}
===============================================================================
