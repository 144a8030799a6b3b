\* A detach while the turn-end save is in flight.
CONSTANTS
  StoreKinds = {"suspending"}
  Resumed = TRUE
  InputKinds = {"message", "detach", "detachMessage"}
  MaxInputs = 2
  MaxMutations = 1
  MaxBeats = 0
  MaxStoreFailures = 0
  MaxIds = 7
SPECIFICATION Spec
CHECK_DEADLOCK FALSE
INVARIANTS DetachAnswers
