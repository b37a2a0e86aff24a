SPECIFICATION Spec
CONSTANTS
    w1 = w1
    w2 = w2
    Workers = {w1, w2}
    None = None
    MaxTransitions = 6
    MaxAttempts = 2
    ConsentAge = 1
    CreateAge = 1
    AssumeAge = 1
    DeployAge = 1
    MaxClock = 1
    MaxRetries = 1
    MaxFaults = 1
INVARIANTS
    PhasesInOrder
    EntersOnlyValidated
    NothingTwice
    InstanceAgrees
PROPERTY
    ConsentSpent
SYMMETRY WorkerSymmetry
CHECK_DEADLOCK FALSE
