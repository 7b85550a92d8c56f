SPECIFICATION Spec
CONSTANTS
  Requests = {r1, r2, r3}
  Wallet = w1
  Fee = 2
  WalletOf <- WalletOfAll
  FeeOf <- FeeOfAll
  Limits <- Configurations
  Funds = 6
  AtOnce = 2
  MaxFaults = 1
SYMMETRY RequestSymmetry
INVARIANTS QuotaOverrunBounded DayOverrunBounded BudgetOverrunBounded PostedIsKept
CHECK_DEADLOCK FALSE
