SPECIFICATION FairSpec
CONSTANTS
  Conns = {c1, c2, c3}
  Workers = {w1, w2}
  Signals = {s1, s2}
  Main = Main
  Quit = Quit
  NoConn = NoConn
INVARIANTS NoQueueing LockOutlivesListener
PROPERTIES RefusedOnlyWhenFull NobodyWaitsForEver StopEnds
\* A server that has stopped takes no step.
CHECK_DEADLOCK FALSE
