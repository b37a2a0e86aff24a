\* Two purchases under redelivery and crashes, with a store that may fail.
CONSTANTS
  v1 = v1  v2 = v2  j1 = j1  j2 = j2  s1 = s1  d1 = d1
  Debits = {d1}
  Kind <- CallKind
  Target <- CallTarget
  Cost <- StrictCost
  Policies = {FALSE}
  Sets = {}
  Portal = {}
  Amounts = {}
  Purchases = {1, 2}
  Credits <- TwoCredits
  Hooks = {h1, h2}
  MaxMonth = 1
  Grant <- OneMonth
  StoreErrors = TRUE
  MaxCrashes = 2
SPECIFICATION LiveSpec
PROPERTY PaidIsCredited
CHECK_DEADLOCK FALSE
