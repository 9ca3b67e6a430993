SPECIFICATION Spec

CONSTANTS
  c1 = c1
  transfer = transfer
  garbled = garbled
  Call = {c1}
  Tx <- MCTx
  Undecodable <- MCUndecodable
  Reverting <- MCReverting
  Request <- PinnedRequest
  MaxGas = 2
  MaxHead = 2
  FinalizedTTLSecs = 0
  PendingTTLSecs = 2

CHECK_DEADLOCK FALSE

INVARIANT CachedResultIsTheChains
