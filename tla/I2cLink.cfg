SPECIFICATION Spec
CONSTANTS
  Modulus = 3
  MaxWindows = 4
  MaxTransfers = 5
  MaxFaults = 1
PROPERTIES
  FeedSpec
  LossHasCause
CHECK_DEADLOCK FALSE
