\* What README.md says of the stored image, against an unread second pass.
SPECIFICATION Spec
CONSTANTS
  P = 2
  RowPages = 1
  ExternalPages = 1
  Configs <- MCConfigs
  MaxActions = 1
  MaxReboots = 1
  MaxMisreads = 1
INVARIANTS
  StoredIsVerified
CHECK_DEADLOCK FALSE
