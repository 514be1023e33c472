CONSTANTS
  Targets = {t1, t2}
  Refreshers = {k1, k2}
  Nobody = Nobody
  Contents = {1, 2, 3}
  ParseOf <- TwoAlike
  ClassOf <- ThirdFails
  MissingLimit = 2
  SlotGap = 1
  MaxSlot = 1
  MaxListings = 2
SPECIFICATION FairSpec
INVARIANTS
  FinalizedIsBacked
PROPERTIES
  EventSettles
  ImplementsEvidence
CHECK_DEADLOCK FALSE
