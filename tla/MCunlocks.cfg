\* Two wallets, two requests at a time, three units of time.
CONSTANTS
  w1 = w1  w2 = w2  r1 = r1  r2 = r2
  Nobody = Nobody
  Wallets = {w1, w2}
  Requests = {r1, r2}
  PerWallet = 1  WalletWindow = 2
  PerHour = 2  Hour = 1  PerDay = 3  Day = 3
  Reserve = 1  Refresh = 2
  MaxTime = 3  MaxCredit = 1  MaxDebt = 1
SPECIFICATION Spec
INVARIANTS
  WalletShareHolds CeilingsHold
PROPERTY GuardCatchesUp
SYMMETRY Alike
CHECK_DEADLOCK FALSE
