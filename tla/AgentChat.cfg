SPECIFICATION Spec
CONSTANTS
  Modes = {"server", "client"}
  Streams = {"whole"}
  Ends = {"stop", "interrupted", "failed", "aborted", "raised"}
  MaxTurns = 2
  MaxSteps = 2
  MaxLag = 0
  MaxReopens = 1
INVARIANTS CopiesAgree LostTurnsUndone
PROPERTY TurnsSettle
CHECK_DEADLOCK FALSE
