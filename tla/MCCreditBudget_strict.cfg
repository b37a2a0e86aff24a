\* Overage not allowed; a portal budget change and a purchase, redelivered and interrupted, race three debits.
CONSTANTS
  v1 = v1  v2 = v2  j1 = j1  j2 = j2  s1 = s1  d1 = d1
  Debits = {d1, j1, j2}
  Kind <- CallKind
  Target <- CallTarget
  Cost <- StrictCost
  Policies = {FALSE}
  Sets = {e1}
  Portal = {e1}
  Amounts = {0, 1, 3}
  Purchases = {1}
  Credits <- OneCredit
  Hooks = {h1, h2}
  MaxMonth = 1
  Grant <- OneMonth
  StoreErrors = FALSE
  MaxCrashes = 2
SPECIFICATION LiveSpec
INVARIANTS WithinBudget CreditsNeedPayment
PROPERTIES PaidIsCredited
CHECK_DEADLOCK FALSE
