\* What README.md says of the stored image, against a backup after a failed flash.
SPECIFICATION Spec
CONSTANTS
  P = 2
  RowPages = 1
  ExternalPages = 1
  Configs <- MCConfigs
  MaxActions = 2
  MaxReboots = 0
  MaxMisreads = 0
INVARIANTS
  StoredIsOriginal
CHECK_DEADLOCK FALSE
