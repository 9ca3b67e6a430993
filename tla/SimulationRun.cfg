SPECIFICATION Spec

CONSTANTS
  user = user
  coin = coin
  pool = pool
  Sender = user
  Coin = {coin}
  Contract = {coin, pool}
  TxValue = {0, 160}
  Value = {0, 60}
  TransferAmount <- MCTransfer
  ApproveAmount <- MCApprove
  MaxSteps = 4
  NativeDecimals = 2
  CoinDecimals = 2
  MaxUint256 <- MCMax
  HighNativeThreshold = 100

CHECK_DEADLOCK FALSE

INVARIANT RunInv
INVARIANT NativeIsBalanceChange
INVARIANT CoinChangesAddUp
INVARIANT HumanAmountsReadBack
INVARIANT GraveIsCritical
INVARIANT CriticalHasReason
INVARIANT ReentryIsFlagged
INVARIANT ItemLossIsFlagged
INVARIANT HighLossIsFlagged
