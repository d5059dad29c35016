SPECIFICATION LockSpec
CONSTANTS
  Servers = {s1, s2, s3}
  Restores = {r1}
  Modes = {TRUE, FALSE}
  NoFile = NoFile
INVARIANTS
  LockTypeOK
  HolderHasFile
PROPERTIES
  ImplementsStorageLock
  RefusalJustified
CHECK_DEADLOCK FALSE
