SPECIFICATION MCSpec
CONSTANTS
  Loops = {l1}
  Flows = {g1, g2}
  Paths = {"p", "q"}
  AgentRetries = 1
  MaxCommitTries = 1
  MaxAgentCrashes = 1
  RunCapacity = 4
  MaxRuns = 9
  Evaluations = {x1, x2}
  MaxCount = 2
  MaxEvalRetries = 1
  MaxModules = 2
  TaskNames = {"a", "b"}
  MaxSubmits = 3
  Callers = {k1, k2}
  Prompts <- MCPrompts
  Unseen = 1
  MaxBudget = 540
  MaxAttempts = 2
  MaxTokens = 4
  MaxRequests = 2
  Minute = 2
  MaxCalls = 3
  RoutedTasks = {"r1"}
  TokenEstimates = {0, 50000, 100000}
  DescriptionSizes = {49, 500}
  KeywordCounts = {0, 6}
  MaxTierFailures = 2
  MaxTotalFailures = 5
  MaxRoutes = 2
  MaxFailures = 6
  Deployments = {d1}
  Steps <- MCPlan
  MinDuration = 3
  Interval = 2
  Healths <- MCHealths
  Baselines <- MCMeasured
  DefaultBaseline <- MCDefault
  Sigma = 2
  Multiplier = 2
  AlwaysAsk = FALSE
  None = None
  Slots = {s1, s2}
  Keys = {"a", "b"}
  Backends <- MCBackends
  RateLimit = 2
  Window = 4
  MaxArrivals = 4
  MaxNow = 8
  SpecClients = {v1, v2}
  DraftShapes <- MCDraftShapes
  MaxSpecs = 2
  MaxParses = 2
  BusCalls = {b1, b2}
  Listeners = {u1, u2, u3}
  QueueGroup = {u2, u3}
  MaxAckPending = 2
  MessageTypes = {"escalation"}
  MaxBusMessages = 3
  MaxBusFaults = 1
  MaxAsked = 1
  MaxConnects = 2
INVARIANTS
  DeploymentsAreEarned
  WorkIsKept
  ReportsAreTrue
  PlansCanFinish
  SpendIsAccounted
  RoutesFollowDifficulty
  LimitsAndRetriesHold
  SpecsStayWhole
  AcksAreEarned
PROPERTIES
  DeliverySteps
  DeliveryEnds
CHECK_DEADLOCK FALSE
