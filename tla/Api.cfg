SPECIFICATION Spec
CONSTANT
  Transports = {"unix", "tcp"}
INVARIANTS
  ClientCallsAccepted
  ChangesAudited
  ChangesEntitled
