SPECIFICATION LiveSpec
CONSTANTS
    w1 = w1
    Workers = {w1}
    None = None
    MaxTransitions = 6
    MaxAttempts = 2
    ConsentAge = 1
    CreateAge = 2
    AssumeAge = 3
    DeployAge = 4
    MaxClock = 4
    MaxRetries = 1
    MaxFaults = 1
INVARIANT
    TypeOK
PROPERTY
    ProvisionSettles
CHECK_DEADLOCK FALSE
