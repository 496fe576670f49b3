SPECIFICATION Spec
CONSTANTS
  Addresses = {1, 2}
  UnderReset = TRUE
  Variants = 2
  Retries = 2
  MaxSessions = 2
  MaxAccesses = 3
  MaxFaults = 2
PROPERTIES
  ReadIsRight
  WriteIsDone
CHECK_DEADLOCK FALSE
