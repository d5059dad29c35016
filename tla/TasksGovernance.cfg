SPECIFICATION Spec
CONSTANTS
  a1 = a1
  a2 = a2
  a3 = a3
  o1 = o1
  o2 = o2
  None = None
  Agents = {a1, a2, a3}
  Orgs = {o1, o2}
  OrgOf <- TwoOrgs
  TaskIds = {t1, t2}
  ClientKeys = {}
  Limits = {1}
  Policies <- MixedPolicies
  Managed = {a2}
  MaxDependencyDepth = 0
  MaxDelegations = 0
SYMMETRY TaskSymmetry
PROPERTIES
  ImplementsLifecycle
  BudgetRespected
  CrossOrgByPolicy
  WorkReachesActiveAccount
CHECK_DEADLOCK FALSE
