SPECIFICATION FairSpec
CONSTANTS
    Workers = {w1, w2}
    Proposals = {p1, p2}
    Fields = {"remaining", "tasks"}
    Remaining = "remaining"
    MutationLists <- MCOddLists
    CheckpointInterval = 2
    None = None
PROPERTIES
    RequestsEnd
    ImplementsAbstract
CHECK_DEADLOCK FALSE
