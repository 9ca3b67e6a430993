SPECIFICATION Spec

CONSTANTS
  user = user
  coin = coin
  pool = pool
  Sender = user
  Coin = {coin}
  Contract = {coin, pool}
  TxValue = {0, 160}
  Value = {0, 60}
  TransferAmount <- MCTransfer
  ApproveAmount <- MCApprove
  MaxSteps = 3
  NativeDecimals = 2
  CoinDecimals = 2
  MaxUint256 <- MCMax
  HighNativeThreshold = 100

CHECK_DEADLOCK FALSE

INVARIANT NativeChangesAreTransfers
