SPECIFICATION Spec
CONSTANTS
  Timeout = 2
  MinWindow = 1
  MaxWindow = 2
  JournalLimit = 96
  BucketTicks = 1
  Buckets = 2
  PeakTicks = 2
  AnalysisTicks = 3
  DayTicks = 5
  Wrap = 32
  MaxNow = 7
  MaxFaults = 1
  MaxReboots = 1
INVARIANTS
  TypeOK
  AveragesAreWhole
  MaximumIsOfItsDay
PROPERTIES
  ShownIsFresh
  DropsOnlyBehindStale
