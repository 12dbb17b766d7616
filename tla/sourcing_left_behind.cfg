SPECIFICATION Spec
CONSTANTS
  w1 = w1
  m1 = m1
  NoWithdrawal = NoWithdrawal
  NoGrant = NoGrant
  Withdrawals = {w1}
  ManualGrants = {}
  Rental = TRUE
  FallbackToBurn = TRUE
  Topup = TRUE
  LookupLimit = 2
  FailureLimit = 1
  CanLosePower = FALSE
  MaxGrants = 1
  MaxFaults = 1
INVARIANTS
  NothingLeftBehind
