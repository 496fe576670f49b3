SPECIFICATION Spec
CONSTANTS
  DayTicks = 3
  PreMidnight = 1
  MaxSampleGap = 2
  MaxPass = 1
  MaxNow = 7
  MaxReboots = 1
INVARIANTS
  TypeOK
  EnergyIsOfItsDay
  BookedOnce
  EnergyIsKept
