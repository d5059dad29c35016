SPECIFICATION LockSpec
CONSTANTS
  Servers = {s1, s2, s3}
  Restores = {r1}
  Modes = {FALSE}
  NoFile = NoFile
INVARIANT
  MutualExclusion
CHECK_DEADLOCK FALSE
