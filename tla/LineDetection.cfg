SPECIFICATION Spec
CONSTANTS
  Loads <- MCLoads
  Wired = 2
  DiagExport = FALSE
  InitialLine = 0
  PowerMin = 12
  CurrentFloor = 1
  Ratio <- MCRatio
  Interval = 2
  MaxFrames = 13
  MaxChanges = 2
  MaxEvents = 2
INVARIANTS
  AveragesOfOneLine
PROPERTIES
  ConfirmedOnWiredLine
  ConfirmationIsEarned
  RebootKeepsAssignment
CHECK_DEADLOCK FALSE
