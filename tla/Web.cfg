CONSTANTS
  Orgs = {acme, beta}
  Threads = {t1, t2}
  MaxSessions = 1
  SessionTTL = 1
  MaxAttempts = 2
  Lockout = 2
  CacheTTL = 1
  MaxClock = 2
  MaxRequests = 4
  MaxRestarts = 1
  MaxChanges = 1
SYMMETRY Symmetry
INVARIANTS SessionsBounded LoggedOutForEver CachedAnswersAreRecent
SPECIFICATION Spec
CHECK_DEADLOCK FALSE
