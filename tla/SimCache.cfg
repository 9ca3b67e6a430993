SPECIFICATION FairSpec

CONSTANTS
  c1 = c1
  c2 = c2
  transfer = transfer
  garbled = garbled
  Call = {c1, c2}
  Tx <- MCTx
  Undecodable <- MCUndecodable
  Reverting <- MCReverting
  Request <- MCRequest
  MaxGas = 2
  MaxHead = 2
  FinalizedTTLSecs = 0
  PendingTTLSecs = 2

CHECK_DEADLOCK FALSE

INVARIANT CacheInv
INVARIANT PinnedReplies
INVARIANT LatestPartsAdvance
INVARIANT AlchemyIsLastResort
INVARIANT ReplyInv
PROPERTY Memoised
PROPERTY EveryCallEnds
