SPECIFICATION Spec
CONSTANTS
    Workers = {w1, w2}
    Proposals = {p1, p2, p3}
    Fields = {"remaining", "tasks"}
    Remaining = "remaining"
    MutationLists <- MCMutationLists
    CheckpointInterval = 2
    None = None
SYMMETRY Symmetry
INVARIANTS
    OverdraftsAreRefused
    NoLostUpdate
    AcceptedExactlyOnce
    CheckpointsAgreeWithReplay
    CacheHoldsACommittedState
    EventsAreTrue
PROPERTIES
    HistoryIsFinal
CHECK_DEADLOCK FALSE
