SPECIFICATION Spec
CONSTANTS
  Process = {1, 2}
  Key = {k1, k2}
  Absent = Absent
  Damaged = Damaged
  None = None
  MaxReads = 2
  MaxFaults = 2
  Parts = {"identity", "apikeys", "estimates", "pricing", "budgets", "setup", "helper"}
  Off = Off
  Provider = {openai, kimi}
  ApiValue = {v1}
  Pass = {pass1, pass2}
  Caller = {c1, c2}
  Ops = {"init", "unlock", "save", "delete", "change"}
  MaxSalts = 2
  Recording = {r1, r2, r3}
  RollingWindow <- RollingWindows
  Longest = 2
  Cap = 2
  Day = 2
  DayLimit = 2
  MaxNow = 2
  MaxEstimateFaults = 1
  PricingProcess = {1}
  Bundled <- BundledPrices
  Selections = {"auto", "bundled"}
  Losable = {"state", "snapshot"}
  MaxAge = 0
  MinInterval = 1
  MaxClock = 1
  MaxVersion = 2
  MaxPricingFaults = 1
  MaxRequests = 3
  Limit = 2
  Editor = {"e1", "e2"}
  RuleId = {"r1"}
  RuleSetting <- BudgetRules
  UsageWindow = {"day"}
  BudgetProvider = {"p"}
  BudgetModel = {"m"}
  BudgetUsage <- BudgetUsages
  MaxRuleEdits = 2
  MaxFetches = 1
  MaxChanges = 1
  MaxBudgetFaults = 1
  Globals <- GlobalDirs
  Workspace = "w"
  Settings <- SettingNames
  Defaults <- DefaultValues
  Disabled <- DisabledValues
  Sections <- SectionsTried
  Answers <- AnswersTried
  InitialFiles <- FilesTried
  MaxFileEdits = 1
  NoFile = NoFile
  Nothing = Nothing
  Empty = Empty
  Broken = Broken
  NoObject = NoObject
  NoUsage = NoUsage
  NoSection = NoSection
  NotObject = NotObject
  AutoProviders = AutoProviders
  Nobody = Nobody
  NoPlan = NoPlan
INVARIANTS OneKey Acknowledged SerialIsExact StampIsTrue BudgetsAreTrue LoadIsExpected SetupKeepsSettings
PROPERTIES ServesInTurn WorkEnds
CHECK_DEADLOCK FALSE
