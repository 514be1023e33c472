SPECIFICATION FairSpec
CONSTANTS
  Deliveries = {d1}
  Workers = {w1, w2}
  NoWorker = NoWorker
  Window = 3
  LeaseTicks = 1
  MaxDelay = 2
  BatchSize = 1
  Concurrency = 1
  MaxAttempts = 4
  MaxReplays = 1
INVARIANTS
  ReplaySendsOnce
PROPERTIES
  DeliverySettles
  ImplementsAttemptLog
CHECK_DEADLOCK FALSE
