\* One slot, one frame, one rejected frame asks for recovery, no reset pin: the
\* smallest pipeline in which every wait, failure and lost slot still occurs.
SPECIFICATION FairSpec
CONSTANTS
  N = 1
  JournalCap = 1
  StreakLimit = 1
  ResetAfter = 1
  HasResetPin = FALSE
PROPERTIES
  SilenceIsAnswered
  StoppedTasksLeave
