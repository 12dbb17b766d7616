SPECIFICATION Spec
CONSTANTS
  p1 = p1
  p2 = p2
  c1 = c1
  c2 = c2
  w1 = w1
  w2 = w2
  NumEvents = 2
  Pairs = {p1, p2}
  NoPair = NoPair
  Consumers = {c1}
  ConsumerOf <- SameConsumer
  OrderPairs = {p1}
  Workers = {w1, w2}
  MaxAttempts = 2
  MaxStamp = 1
  MaxCrashes = 1
  MaxErrors = 1
  MaxEdits = 0
  MaxRetries = 1
SYMMETRY WorkerSymmetry
INVARIANTS
  TypeOK
  OnePerPair
  PostsBounded
  ClaimHeld
  IInv
PROPERTIES
  InOrder
CHECK_DEADLOCK FALSE
