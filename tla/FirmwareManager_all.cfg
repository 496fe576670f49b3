\* Two rows of two pages, two presses of a button beside the automatic update,
\* one reboot, one misread block.  Nothing happens once no button is pressed.
SPECIFICATION FairSpec
CONSTANTS
  P = 4
  RowPages = 2
  ExternalPages = 3
  Configs <- MCConfigs
  MaxActions = 2
  MaxReboots = 1
  MaxMisreads = 1
INVARIANTS
  TypeOK
  VerifiedIsSnapshot
  BackupIsNotManaged
  RuntimeStaysOff
PROPERTIES
  RunsOnlyWholeImage
  ActionsEnd
CHECK_DEADLOCK FALSE
