------------------------ MODULE MCFirestoreSessionStore ------------------------
(* Instances of FirestoreSessionStore for TLC. *)
EXTENDS FirestoreSessionStore

CONSTANTS p1, p2

\* One part is a small patch, two are too large for one document.
Growing == {{}, {p1}, {p1, p2}}

Symmetric == Permutations(Ids) \cup Permutations(Sessions)
===============================================================================
