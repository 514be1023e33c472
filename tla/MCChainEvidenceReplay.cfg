CONSTANTS
  Targets = {t1}
  Refreshers = {k1}
  Nobody = Nobody
  Contents = {1}
  ParseOf <- TwoAlike
  ClassOf <- ThirdFails
  MissingLimit = 2
  SlotGap = 1
  MaxSlot = 1
  MaxListings = 2
SPECIFICATION Spec
PROPERTIES
  QuarantinedIsNotConfirmed
CHECK_DEADLOCK FALSE
