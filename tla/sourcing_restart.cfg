SPECIFICATION Spec
CONSTANTS
  w1 = w1
  m1 = m1
  NoWithdrawal = NoWithdrawal
  NoGrant = NoGrant
  Withdrawals = {w1}
  ManualGrants = {m1}
  Rental = TRUE
  FallbackToBurn = TRUE
  Topup = TRUE
  LookupLimit = 2
  FailureLimit = 1
  CanLosePower = TRUE
  MaxGrants = 1
  MaxFaults = 1
INVARIANTS
  TypeOK
  PaidOnce
  BurnIsLast
