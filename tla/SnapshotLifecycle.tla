--------------------------- MODULE SnapshotLifecycle ---------------------------
(***************************************************************************)
(* What a session store promises about the status of its snapshots: an id  *)
(* is written for the first time with any status, a pending row may settle *)
(* once, and a settled row keeps its status for ever.                      *)
(***************************************************************************)
EXTENDS SnapshotRules

CONSTANT Ids

VARIABLE status

LifecycleInit == status = [id \in Ids |-> "absent"]

\* The first save under an id.
Create(id) ==
  /\ status[id] = "absent"
  /\ \E s \in Statuses : status' = [status EXCEPT ![id] = s]

\* A running turn completes, fails or is aborted.
Settle(id) ==
  /\ status[id] = "pending"
  /\ \E s \in TERMINAL_STATUSES : status' = [status EXCEPT ![id] = s]

LifecycleNext == \E id \in Ids : Create(id) \/ Settle(id)

Lifecycle == LifecycleInit /\ [][LifecycleNext]_status
===============================================================================
