CONSTANTS
  Requests = {1, 2, 3, 4}
  Keys = {1, 2}
  KeyOf <- TwoKeys
  DigestOf <- TwoBodies
  None = 0
SPECIFICATION FairSpec
PROPERTIES
  KeyIsAnswered
  ImplementsOneAnswer
CHECK_DEADLOCK FALSE
