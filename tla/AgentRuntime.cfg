\* Every kind of store; a conversation that is resumed.
CONSTANTS
  StoreKinds = {"none", "immediate", "suspending"}
  Resumed = TRUE
  InputKinds = {"message", "detach", "detachMessage"}
  MaxInputs = 2
  MaxMutations = 1
  MaxBeats = 0
  MaxStoreFailures = 1
  MaxIds = 7
SPECIFICATION Spec
CHECK_DEADLOCK FALSE
INVARIANTS AnswersAreDurable FailureResumesLastGood HistoryIsAChain DetachedRowTellsTheWork AbortHolds
