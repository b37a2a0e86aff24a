\* One host, ETH and a token: single, batch and agent tips, withdrawals, sweeps and donations.
CONSTANTS
  Zero = Zero
  Wallets = {w1, w2}
  Tokens = {t1}
  Contracts = {t1, r1}
  Registries = {r1, r2}
  HostIds = {h1}
  Amounts = {10001, 20002}
  Fees = {500, 501}
  Limits = {}
  MaxBatch = 2
  InflowCap = 20002
SPECIFICATION Spec
SYMMETRY WalletSymmetry
INVARIANTS TypeOK Solvent TotalIsSumOfPending
PROPERTIES OutflowIsOwedOrStray
