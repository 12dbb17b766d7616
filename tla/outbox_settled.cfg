SPECIFICATION FairSpec
CONSTANTS
  p1 = p1
  p2 = p2
  c1 = c1
  c2 = c2
  w1 = w1
  w2 = w2
  NumEvents = 2
  Pairs = {p1}
  NoPair = NoPair
  Consumers = {c1}
  ConsumerOf <- SameConsumer
  OrderPairs = {p1}
  Workers = {w1, w2}
  MaxAttempts = 2
  MaxStamp = 0
  MaxCrashes = 1
  MaxErrors = 0
  MaxEdits = 2
  MaxRetries = 0
PROPERTIES
  EventSettled
  QueuedThroughDisable
CHECK_DEADLOCK FALSE
