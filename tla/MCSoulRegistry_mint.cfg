SPECIFICATION Spec
CONSTANTS
    a1 = a1
    a2 = a2
    w1 = w1
    s1 = s1
    Zero = Zero
    Agents = {a1, a2}
    Wallets = {w1}
    Signers = {s1}
    Window = 1
    Fees = {0, 1, 2}
    Deadlines = {1, 2}
    MaxTime = 3
    MaxNonce = 0
    MaxTransfers = 0
    MaxBalance = 4
INVARIANTS
    FeesBacked
PROPERTIES
    BurnIsFinal
CHECK_DEADLOCK FALSE
