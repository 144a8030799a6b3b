\* Progress with and without a store that answers at once.
CONSTANTS
  StoreKinds = {"none", "immediate"}
  Resumed = TRUE
  InputKinds = {"message", "detachMessage"}
  MaxInputs = 2
  MaxMutations = 0
  MaxBeats = 1
  MaxStoreFailures = 0
  MaxIds = 7
SPECIFICATION FairSpec
CHECK_DEADLOCK FALSE
PROPERTIES RunsSettle
