SPECIFICATION Spec
CONSTANT
  Transports = {"unix", "tcp"}
INVARIANT EscalationNeverRaises
