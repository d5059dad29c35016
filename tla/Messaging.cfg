SPECIFICATION Spec
CONSTANTS
  a = a
  b = b
  c = c
  g = g
  o1 = o1
  o2 = o2
  Agents = {a, b}
  Orgs = {o1, o2}
  OrgOf <- TwoOrgs
  Group = g
  Creator = a
  k1 = k1
  k2 = k2
  t1 = t1
  Keys = {k1, k2}
  NoKey = NoKey
  Contents = {t1}
  Ids = {1, 2, 3}
  Budget <- BudgetOfA
  NoLimit = NoLimit
  Hour = 1
  Limit = 1
  Threads = {1}
  Requests <- SomeRequests
  Readers = {a}
  OrgCommands <- SomeCommands
  Views <- SomeViews
  MaxClock = 2
  MaxChanges = 1
INVARIANTS
  NotificationsAgree
  MarkIsForLast
  HourlyBudget
  PagesComplete
PROPERTIES
  ImplementsMailbox
  RetryNeverRefused
CHECK_DEADLOCK FALSE
