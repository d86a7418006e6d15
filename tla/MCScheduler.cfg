SPECIFICATION SteadyOrCrashSpec
CONSTANTS
    a = a
    b = b
    None = None
    Instances = {i1, i2}
    Tasks = {a, b}
    Deps <- MCChain
    Priority <- MCChainPriority
    MaxRetries = 2
    MaxCrashes = 1
SYMMETRY InstanceSymmetry
INVARIANTS
    OneAgentPerTask
    DependenciesFirst
CHECK_DEADLOCK FALSE
