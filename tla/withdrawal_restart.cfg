SPECIFICATION Spec
CONSTANTS
  a1 = a1
  a2 = a2
  NumRows = 2
  Addresses = {a1}
  From <- FromShared
  Amount <- OneEach
  Funds <- FundsTwo
  DailyLimit = 2
  LookupLimit = 1
  DriftAddresses = {}
  HostClockAhead = FALSE
  CanLosePower = FALSE
  MaxCrashes = 1
  MaxErrors = 1
INVARIANTS TypeOK AtMostOneBroadcast RefusedUntouched FailedIsAbsent ConfirmedIsPaid OneAcquiring ExclusiveUntilRestart
PROPERTIES ClaimAfterRecovery
