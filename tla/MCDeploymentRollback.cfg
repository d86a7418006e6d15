SPECIFICATION Spec
CONSTANTS
    Deployments = {d1}
    Steps <- MCSteps
    MinDuration = 3
    Interval = 2
    Healths <- MCHealths
    Baselines <- MCBaselines
    DefaultBaseline <- MCDefault
    Sigma = 2
    Multiplier = 2
    AlwaysAsk = FALSE
    None = None
INVARIANTS
    RollbackIsHonoured
