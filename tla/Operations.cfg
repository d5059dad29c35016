CONSTANTS
  Pids = {p1, p2, p3}
  Operators = {admin}
  Commands = {"start", "stop", "stop --force", "restart", "update", "backup", "restore"}
  MaxCommands = 4
  MaxDeaths = 2
  MaxRestores = 2
INVARIANTS  ServesOneStorage
PROPERTIES ImplementsStorageLock CommandsEnd
SPECIFICATION Spec
CHECK_DEADLOCK FALSE
