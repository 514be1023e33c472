SPECIFICATION ConsensusFairSpec
CONSTANTS
  Verifiers = {v1, v2}
  Providers = {primary, secondary}
  Primary = primary
  Versions = {one, two, foreign}
  Foreign = foreign
  MaxFaults = 2
PROPERTIES
  VerdictIsForGood
  
CHECK_DEADLOCK FALSE
