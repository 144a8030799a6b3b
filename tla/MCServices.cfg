SPECIFICATION Spec
CONSTANTS
  None = None
  Tasks = {"app1", "app2", "dev"}
  Loops = {"appLoop", "devLoop"}
  LoopOf <- MCLoopOf
  MaxVersion = 1
  MaxDrops = 1
  Keeps = TRUE
  Plugins = {"early", "late"}
  Early = {"early"}
  PluginOf <- MCPluginOf
  InitGives <- MCInitGives
  Resolvable <- MCResolvable
  Own <- MCOwn
  LazyNames = {"prompt"}
  DapNames = {"remote"}
  Plans <- MCPlans
  Runs = {"r1", "r2"}
  Agents = {"r2"}
  MaxInputs = 1
  Loads <- MCLoads
  MaxStreamed = 3
  MaxSent = 2
  MaxGivenUp = 1
  Absent = Absent
  Shops = {"googleai", "vertexai", "openai", "ollama", "anthropic", "bedrock"}
  MaxChanges = 1
  Jobs <- MCJobs
  MaxFailures = 1
  MaxRestarts = 1
  BatchRequests <- MCBatchRequests
  Limit = 2
  ChunkSize = 2
  Settings <- MCSettings
  MaxEvents = 1
  Genkits = {"g1"}
  Processes <- MCProcesses
  MaxSignals = 2
INVARIANTS AnswersAreComplete InvalidationTakesEffect DevUiSeesTheRun StreamIsWhole AdvertisedResolves JobsAreAccounted CallsAreAccounted FilesTellWhoServes
PROPERTIES EveryWaitEnds
CHECK_DEADLOCK FALSE
