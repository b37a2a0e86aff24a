SPECIFICATION Spec
CONSTANTS
    a1 = a1
    w1 = w1
    w2 = w2
    s1 = s1
    Zero = Zero
    Agents = {a1}
    Wallets = {w1, w2}
    Signers = {}
    Window = 1
    Fees = {}
    Deadlines = {2}
    MaxTime = 3
    MaxNonce = 1
    MaxTransfers = 2
    MaxBalance = 0
INVARIANTS
    WalletIsHolder
    NoReplay
PROPERTIES
    SoulboundByConsent
    PauseFreezesSouls
SYMMETRY WalletSymmetry
CHECK_DEADLOCK FALSE
