SPECIFICATION FairSpec

CONSTANTS
  q1 = q1
  q2 = q2
  q3 = q3
  s1 = s1
  s2 = s2
  s3 = s3
  alice = alice
  ip1 = ip1
  ip2 = ip2
  Request = {q1, q2, q3}
  Store = {s1, s2, s3}
  Caller <- MCCaller
  Plan = {"free", "pro", "trial"}
  Key = {alice, ip1, ip2}
  NoOwner = NoOwner
  planLimits <- MCLimits

CHECK_DEADLOCK FALSE

INVARIANT LimiterInv
INVARIANT MapExclusive
INVARIANT OneStorePerPlan
PROPERTY QuotaIsKept
PROPERTY EveryRequestDecided
