CONSTANTS
  Orgs = {"acme", "beta"}
  Names = {"alice", "bob", "acme_humain", "beta_humain"}
  WebLocal = "_web_local"
  Passwords = {"p1", "p2"}
  Token = "token"
  Max = 1
  Window = 1
  TTL = 1
  CacheSize = 2
  Threads = {t1, t2}
  Founder = "acme"
  Agent = "alice"
  FirstPassword = "p1"
  MaxRequests = 3
  MaxClock = 2
  MaxCrashes = 1
  HumanOf <- MCHumanOf
  Requests <- MCRequests
SYMMETRY Symmetry
INVARIANTS PassedWasValid FailuresBounded HumanOfOrg AuditOfCommitted
SPECIFICATION Spec
CHECK_DEADLOCK FALSE
