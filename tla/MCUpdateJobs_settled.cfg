SPECIFICATION Spec
CONSTANTS
    w1 = w1
    w2 = w2
    Workers = {w1, w2}
    None = None
    Kinds = {"full"}
    FnTimeout = 1
    LeaseTTL = 2
    ClaimMaxAge = 1
    MissingMaxAge = 2
    MaxDeployAge = 2
    VerifyBudget = 1
    TokenTTL = 3
    MaxAttempts = 2
    ReplyLoss = TRUE
    MaxClock = 3
    FaultHorizon = 3
CHECK_DEADLOCK FALSE
PROPERTY SettledIsFinal
