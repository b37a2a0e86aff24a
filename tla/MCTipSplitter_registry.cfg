\* Two hosts, two tokens, three wallets: every order of owner calls on hosts, allowlist and limits.
CONSTANTS
  Zero = Zero
  Wallets = {w1, w2, w3}
  Tokens = {t1, t2}
  Contracts = {t1, t2}
  Registries = {}
  HostIds = {h1, h2}
  Amounts = {}
  Fees = {0}
  Limits = {99, 100, 20000}
  MaxBatch = 0
  InflowCap = 0
SPECIFICATION Spec
SYMMETRY WalletSymmetry
INVARIANTS AllowlistConsistent LesserWalletIsNoHost LimitsAdmitATip
