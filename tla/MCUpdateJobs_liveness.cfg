SPECIFICATION FairSpec
CONSTANTS
    w1 = w1
    w2 = w2
    Workers = {w1}
    None = None
    Kinds = {"full", "body", "mcp"}
    FnTimeout = 1
    LeaseTTL = 2
    ClaimMaxAge = 1
    MissingMaxAge = 2
    MaxDeployAge = 2
    VerifyBudget = 1
    TokenTTL = 2
    MaxAttempts = 2
    ReplyLoss = FALSE
    MaxClock = 3
    FaultHorizon = 1
CHECK_DEADLOCK FALSE
INVARIANT NoDuplicateRunner
PROPERTY EventuallySettled
