\* The ring of two of the firmware, frames of two scans: up to four frames, so the
\* ring fills, wraps and overflows.  The ADC stops at the bound on scans.
SPECIFICATION FairSpec
CONSTANTS
  Cap = 2
  Scans = 2
  MaxTicks = 9
  MaxFaults = 2
INVARIANTS
  TypeOK
  BuildIsPrivate
  HeadIsSent
  WireIsWhole
PROPERTIES
  FlagsAreQueued
  FramesLeave
  FifoSpec
CHECK_DEADLOCK FALSE
