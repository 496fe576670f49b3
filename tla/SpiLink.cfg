\* Frames of two scans, restarts at any time.  The ADC stops at the bound.
SPECIFICATION LinkSpec
CONSTANTS
  Cap = 2
  Scans = 2
  MaxTicks = 9
  MaxFaults = 2
INVARIANTS
  WindowHasNoHole
CHECK_DEADLOCK FALSE
