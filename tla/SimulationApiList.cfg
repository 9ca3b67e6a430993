SPECIFICATION Spec

CONSTANTS
  c1 = c1
  c2 = c2
  c3 = c3
  freeKey = freeKey
  bigKey = bigKey
  alice = alice
  bob = bob
  home = home
  Call = {c1, c2}
  Request <- ReadRequest
  ApiKey = {freeKey, bigKey}
  OwnerOf <- MCOwnerOf
  PlanOf <- MCPlanOf
  Ip = {home}
  IpLimit = 3
  PlanLimit <- MCLimit
  MaxRenewals = 0
  MaxRevoked = 1

CHECK_DEADLOCK FALSE

PROPERTY ListIsOwnHistory
