---------------------------- MODULE MCSessionStores ----------------------------
(* The stores of one process, in memory or in files, and the status streams of the  *)
(* one in Firestore, each behaviour one of them.                               *)
EXTENDS InMemorySessionStore, FirestoreWatch, TLC

CONSTANTS t1, t2, w1, loopA, f1, f2,
          FileIds, Writers, CancelIds, MaxFileSaves, MaxCrashes

VARIABLES
  part,      \* the store of this behaviour; never changes
  path, tmp, content, fileLock, filePc, orphan, fileJob, fileExisting, handle,
  fileSaves, crashes, acked, cancelled

File == INSTANCE FileSessionStore
          WITH Ids <- FileIds, Tasks <- Writers, MaxSaves <- MaxFileSaves, lock <- fileLock,
               pc <- filePc, job <- fileJob, existing <- fileExisting, saves <- fileSaves

fileVars == <<path, tmp, content, fileLock, filePc, orphan, fileJob, fileExisting, handle,
              fileSaves, crashes, acked, cancelled>>

StoresInit ==
  /\ part \in {"memory", "file", "watch"}
  /\ Init /\ File!Init
  /\ crowd \in (IF part = "watch" THEN Crowds ELSE {CHOOSE c \in Crowds : TRUE}) /\ WatchInit

StoresNext ==
  /\ \/ part = "memory" /\ Next /\ UNCHANGED <<fileVars, watchVars>>
     \/ part = "file" /\ File!Next /\ UNCHANGED <<vars, watchVars>>
     \/ part = "watch" /\ WatchNext /\ UNCHANGED <<vars, fileVars>>
  /\ UNCHANGED part

StoresSpec ==
  /\ StoresInit /\ [][StoresNext]_<<part, vars, fileVars, watchVars>>
  /\ Fairness /\ WF_watchVars(part = "watch" /\ WatchSystem /\ UNCHANGED crowd)

\* The files follow the promise of the stores, and a save into them that returned is kept,
\* across crashes and while heartbeats are cancelled.
FilesImplementLifecycle == File!FilesImplementLifecycle

\* What the file store's atomic_write says of itself: no reader meets half a file.
FilesAreWhole == File!AtomicWrite

\* Status streams end: in memory, and over a watch.
StreamsEnd == StreamEnds /\ WatchersAreTold

\* Every coroutine on one event loop.
OneLoop == [x \in Tasks \cup Watchers |-> loopA]

\* Subscribers of Firestore: one while the row passes two statuses; two of one loop; one
\* after a cell of a notebook left another behind.
MCSubLoop == ("s1" :> "app") @@ ("s2" :> "app") @@ ("s3" :> "cell")
MCCrowds == {[callers |-> {"s1"}, spare |-> 2, closes |-> TRUE], [callers |-> {"s1", "s2"}, spare |-> 0, closes |-> TRUE],
             [callers |-> {"s1", "s3"}, spare |-> 0, closes |-> FALSE]}
===============================================================================
