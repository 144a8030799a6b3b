SPECIFICATION Spec
CONSTANTS
  Documents <- MCDocuments
  Items <- MCItems
  FormatAnswers <- MCAnswers
  SurfaceReplies <- MCSurfaceReplies
  Modes = {"off", "warn", "strict"}
  Replies <- MCReplies
  Options <- MCOptions
  Nil = Nil
  Callers = {"call1", "call2"}
  GeminiPlugins <- MCGeminiPlugins
  Asks <- MCAsks
  MultiRegions = {"us", "eu"}
  Cacheable = {"flash", "flash 3"}
  Unset = Unset
  Models <- MCModels
  Wishes <- MCWishes
  Pasts <- MCPasts
  Reasoning = {"o3"}
  MaxRounds = 2
  NoSchema = NoSchema
  Vendors = {"openai", "anthropic", "bedrock", "ollama", "gemini"}
  ToolInputs <- MCToolInputs
  Definitions <- MCDefinitions
  Uses <- MCUses
  Rounds <- MCRounds
  MaxRetries = 1
  MaxModels = 1
  MaxTurns = 3
  MaxCalls = 2
  MaxChunks = 2
  c1 = c1
  c2 = c2
  Clients = {c1, c2}
  Stores <- StrictOrPruned
  Ways = {"session", "snapshot"}
  Outcomes = {"completed", "reported", "raised", "detached"}
  MaxIds = 4
  MaxCrashes = 1
INVARIANTS CopyFollows ItemsArrive StreamTellsTheMessage HistoryReplays InjectionsInOrder ProvidersAreAskedRight ResumeFindsConversation
CHECK_DEADLOCK FALSE
