\* Two slots and frames, a journal of two windows, recovery on the first rejected
\* frame, a SAMD reset whenever the minimum interval allows one.
SPECIFICATION Spec
CONSTANTS
  N = 2
  JournalCap = 2
  StreakLimit = 1
  ResetAfter = 1
  HasResetPin = TRUE
INVARIANTS
  TypeOK
  NoUseAfterFree
  FramesAreOwned
  SlotAccounting
  ExclusiveReset
PROPERTIES
  StopIsFinal
  JournalNotLost
