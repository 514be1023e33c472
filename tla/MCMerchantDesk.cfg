SPECIFICATION MCSpec
CONSTANTS
  Operators = {alice, bob}
  Ids = {1, 2, 3}
  WalkIds = {1, 2, 3}
  PackIds = {1, 2}
  Times = {1, 2}
  PageLimit = 1
  MaxVersion = 4
  MaxPacks = 1
  Posters = {p1, p2}
  Sources <- MCSources
  Contents <- MCContents
  Plans <- MCPlans
  Observed = {3}
  MaxSlot = 2
  MaxTime = 2
  MaxExports = 1
  MaxRows = 2
  None = None
  Secrets = {s1, s2, s3}
  NoSecret = NoSecret
  Sends = {n1, n2}
INVARIANTS
  WalkListsAll
  PackIsOneMoment
  BookedAsTold
  DeliveredIsApplied
PROPERTIES
  DecidedAsSeen
SYMMETRY Symmetry
CHECK_DEADLOCK FALSE
