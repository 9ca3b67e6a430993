SPECIFICATION FairSpec

CONSTANTS
  c1 = c1
  c2 = c2
  c3 = c3
  freeKey = freeKey
  bigKey = bigKey
  alice = alice
  bob = bob
  home = home
  Call = {c1, c2}
  Request <- MCRequest
  ApiKey = {freeKey, bigKey}
  OwnerOf <- MCOwnerOf
  PlanOf <- MCPlanOf
  Ip = {home}
  IpLimit = 1
  PlanLimit <- MCLimit
  MaxRenewals = 1
  MaxRevoked = 1

CHECK_DEADLOCK FALSE

INVARIANT ApiInv
INVARIANT RefusedLeavesNothing
INVARIANT RepliesAgree
INVARIANT DBErrorNeverFailsCaller
PROPERTY AnswerIsReadable
PROPERTY PlansAreCharged
PROPERTY EveryCallAnswered
