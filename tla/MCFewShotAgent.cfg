\* A prompt with a list of example messages.
CONSTANTS
  t = t
  ghost = ghost
  Tools = {t}
  Ghost = ghost
  MaxTurns = 2
  Habits = {}
  MaxCalls = 3
  MaxRequests = 3
  MaxParallel = 2
  PauseSites <- MCPauseSites
  MaxPauses = 2
  Orders <- MCOrders
  Registered <- MCRegistered
  Catalog <- MCCatalog
  MaxAsked = 0
  PromptShapes <- FewShot
  MaxSaid = 9
  ToolInputs = {"x", "y"}
  Refs = {"r0", "r1"}
  Folder <- MCFolder
  HttpRequests = {"q1", "q2"}
  Sites <- MCSites
  MaxFrames = 1
  None = None
  Threads = {"a", "b"}
  Sinks = {"traces", "logs"}
  QueueSize = 1
  BatchSize = 2
  MaxRecords = 3
  Spans = {1, 2}
  Parent <- MCParent
  Runs <- MCRuns
  MaxPending = 2
SPECIFICATION AppSpec
CHECK_DEADLOCK FALSE
INVARIANTS ConversationOnly
