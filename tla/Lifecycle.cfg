SPECIFICATION FairSpec

CONSTANTS
  r1 = r1
  r2 = r2
  Request = {r1, r2}
  ForkTimeout = 1
  Margin = 2
  ReadTimeout = 2
  LookupTimeout = 1
  Grace = 2
  Fresh = 1
  QueryTime = 1
  RedisTime = 1
  MaxTokens = 1
  MaxSignals = 2

CHECK_DEADLOCK FALSE

INVARIANT LifecycleInv
INVARIANT HandlersHaveTheirGrace
INVARIANT StopsInTime
INVARIANT AnswersInTime
PROPERTY SignalEndsProcess
