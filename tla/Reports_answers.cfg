SPECIFICATION Spec
CONSTANTS
  Parts = {"anthropic", "copilot", "google", "keyed", "collection", "usage", "count", "sync", "live"}
  Off = Off
  None = None
  Call = {c1, c2}
  Token = {t1, t2}
  BackoffBase = 1
  CooldownMax = 3
  RetryAfter = {0, 2}
  Document <- AnthropicDocument
  MacOS = TRUE
  Secret = {"s1", "s2"}
  Enterprise = {"host"}
  PatFiles <- CopilotPatFiles
  AuthFiles <- CopilotAuthFiles
  UsageReports <- CopilotReports
  BudgetPages <- CopilotBudgets
  Snapshots <- CopilotSnapshots
  MaxPages = 2
  Months = 2
  Setup <- GoogleSetup
  Unloaded = Unloaded
  Torn = Torn
  Concurrency = 2
  Skew = 0
  Lives = {0}
  GoogleAnswers <- GoogleAnswer
  MaxClock = 1
  MaxRuns = 1
  Provider <- KeyedProvider
  World <- KeyedWorld
  NoAnswer = NoAnswer
  KeyedAnswers <- KeyedAnswer
  MaxBudgets = 2
  KeyedEdits = 2
  Machine = {"a", "b"}
  SyncSession = {"s"}
  Damaged = Damaged
  MaxTokens = 1
  SyncEdits = 2
  MaxCopies = 2
  View = {v1, v2}
  Session = {s1, s2}
  Home = "home"
  EventDelays = 1
  MountDelays = 1
  MaxChanges = 1
  MaxResources = 2
  Failed = Failed
  Ids = {"a", "b", "c"}
  Keeps = {"b"}
  Special = {"c"}
  Setting <- CollectionSetting
  Selection = {{"a"}, {}}
  Window = {"d", "w", "v"}
  Result <- CollectionResult
  Rejected = Rejected
  NoSelection = NoSelection
  AutoDetected = AutoDetected
  c1 = c1
  c2 = c2
  t1 = t1
  t2 = t2
  v1 = v1
  v2 = v2
  s1 = s1
  s2 = s2
SYMMETRY Alike
INVARIANTS OwnAccount AvailableIsAnswered CollectionAccounts CopiesCollapse UsageIsWhole OwnCountedOnce PanelRestsCurrent
PROPERTIES LeavesEndpointAlone CopilotAsForetold EachCountedOnce
CHECK_DEADLOCK FALSE
