SPECIFICATION ReliableSpec
CONSTANTS
    c1 = c1
    c2 = c2
    Consumers = {c1}
    Operators = {o1}
    BatchSize = 2
    MaxLen = 3
    MaxRetries <- MCDefaultRetries
    MaxTracked = 10
    MaxMessages = 3
    MaxFaults = 0
PROPERTY FailedMessagesAreSettled
CHECK_DEADLOCK FALSE
