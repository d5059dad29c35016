SPECIFICATION Spec
CONSTANTS
  a1 = a1
  a2 = a2
  a3 = a3
  o1 = o1
  o2 = o2
  None = None
  Agents = {a1, a2, a3}
  Orgs = {o1}
  OrgOf <- OneOrg
  TaskIds = {t1, t2}
  ClientKeys = {k1}
  Limits = {}
  Policies <- OpenPolicy
  Managed = {}
  MaxDependencyDepth = 1
  MaxDelegations = 1
SYMMETRY AllSymmetry
INVARIANTS
  TypeOK
  GateByApproval
CHECK_DEADLOCK FALSE
