\* A heartbeat cancelled while its thread writes.
CONSTANTS
  Ids = {i1}
  Sessions = {s1, s2}
  Loops = {loopA}
  t1 = t1
  t2 = t2
  w1 = w1
  loopA = loopA
  Tasks = {t1, t2}
  Watchers = {w1}
  LoopOf <- OneLoop
  MaxSaves = 0
  f1 = f1
  f2 = f2
  Writers = {f1, f2}
  FileIds = {i1}
  CancelIds = {i1}
  MaxFileSaves = 3
  MaxCrashes = 0
  Subscribers = {"s1", "s2", "s3"}
  Crowds <- MCCrowds
  StoreLoops = {"app", "cell"}
  SubLoop <- MCSubLoop
  Cells = {"cell"}
SPECIFICATION StoresSpec
CHECK_DEADLOCK FALSE
INVARIANTS FilesAreWhole
