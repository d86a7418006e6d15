SPECIFICATION PromptSpec
CONSTANTS
    a = a
    b = b
    None = None
    Instances = {i1, i2}
    Tasks = {a, b}
    Deps <- MCChain
    Priority <- MCChainPriority
    MaxRetries = 1
    MaxCrashes = 0
PROPERTIES
    CompletedIsTerminal
CHECK_DEADLOCK FALSE
