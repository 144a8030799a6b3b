\* In memory: one event loop, two saving coroutines, one stream.  In files: two
\* coroutines, a crash at any moment, a heartbeat of one snapshot cancelled.  Over Firestore: three
\* crowds of subscribers, close() at any moment, a loop that ends.
CONSTANTS
  Ids = {i1}
  Sessions = {s1, s2}
  Loops = {loopA}
  t1 = t1
  t2 = t2
  w1 = w1
  loopA = loopA
  Tasks = {t1, t2}
  Watchers = {w1}
  LoopOf <- OneLoop
  MaxSaves = 4
  f1 = f1
  f2 = f2
  Writers = {f1, f2}
  FileIds = {i1, i2}
  CancelIds = {i2}
  MaxFileSaves = 4
  MaxCrashes = 1
  Subscribers = {"s1", "s2", "s3"}
  Crowds <- MCCrowds
  StoreLoops = {"app", "cell"}
  SubLoop <- MCSubLoop
  Cells = {"cell"}
SPECIFICATION StoresSpec
CHECK_DEADLOCK FALSE
INVARIANTS ReadStillCurrent AbortAnswersOnce StreamIsCurrent WatchersHearTheRow
PROPERTIES ImplementsLifecycle FilesImplementLifecycle StreamsEnd
