SPECIFICATION MCSpec
CONSTANTS
    Clients = {c1}
    Allocators = {w1}
    Amounts <- MCAmounts
    Budgets = {10, 20}
    Alert = 8000
    Restrict = 9500
    Halt = 10000
    MaxCalls = 3
    MaxCrashes = 2
    Bus = Bus
    Monitor = Monitor
    None = None
    Agents = {a1, a2}
    WatchedTasks = {t1, t2, t3}
    TokenCounts = {0, 3}
    Unit = 100
    SpinRetries = 2
    MaxStreaks = 2
    MaxEvents = 4
    MaxRestarts = 1
INVARIANTS
    BudgetLevelsHold
    AgentsAreJudgedFairly
PROPERTIES
    BudgetStepsAreAllowed
    CallsReturn
