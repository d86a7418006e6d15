SPECIFICATION ReliableSpec
CONSTANTS
    Clients = {c1}
    Allocators = {}
    Amounts <- MCAmounts
    Budgets = {20}
    Alert = 8000
    Restrict = 9500
    Halt = 10000
    MaxCalls = 3
    MaxCrashes = 0
    Bus = Bus
    Monitor = Monitor
    None = None
PROPERTIES
    HaltIsAnnounced
