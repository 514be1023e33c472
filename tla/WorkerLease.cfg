SPECIFICATION FairSpec
CONSTANTS
  Workers = {w1, w2}
  Jobs = {ingest}
  NoWorker = NoWorker
  LeaseTicks = 1
  MaxAttempts = 3
INVARIANTS
  CursorChain
PROPERTIES
  DeadOwnerIsReplaced
  ImplementsAtomicPass
CHECK_DEADLOCK FALSE
