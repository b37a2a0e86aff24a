\* Voice, SMS and job debits under a changing overage policy and month, rows that expire; no budget sets.
CONSTANTS
  v1 = v1  v2 = v2  j1 = j1  j2 = j2  s1 = s1  d1 = d1
  Debits = {v1, v2, j1, j2, s1}
  Kind <- CallKind
  Target <- CallTarget
  Cost <- MeteredCost
  Policies = {TRUE, FALSE}
  Sets = {}
  Portal = {}
  Amounts = {}
  Purchases = {1}
  Credits <- OneCredit
  Hooks = {h1, h2}
  MaxMonth = 2
  Grant <- TwoMonths
  StoreErrors = FALSE
  MaxCrashes = 0
SYMMETRY MeteredSymmetry
SPECIFICATION Spec
INVARIANTS TypeOK ChargedOnce UsedIsLedger IncludedIsPurchased
CHECK_DEADLOCK FALSE
