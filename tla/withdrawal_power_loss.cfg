SPECIFICATION FairSpec
CONSTANTS
  a1 = a1
  a2 = a2
  NumRows = 1
  Addresses = {a1}
  From <- FromShared
  Amount <- OneEach
  Funds <- FundsTwo
  DailyLimit = 1
  LookupLimit = 2
  DriftAddresses = {a1}
  HostClockAhead = FALSE
  CanLosePower = TRUE
  MaxCrashes = 2
  MaxErrors = 1
INVARIANTS AttemptDurable IInv
PROPERTIES SpentStaysSpent KeepsPromise AttemptDecided
