SPECIFICATION FairSpec

CONSTANTS
  c1 = c1
  c2 = c2
  usdc = usdc
  odd = odd
  sender = sender
  receiver = receiver
  Call = {c1, c2}
  Token = {usdc, odd}
  Addr = {sender, receiver}
  Moves <- MCMoves
  Symbol <- MCSymbol
  Decimals <- MCDecimals

CHECK_DEADLOCK FALSE

INVARIANT TokenInv
INVARIANT MetaIsOfItsToken
INVARIANT SameUnit
INVARIANT OneChangePerDelta
PROPERTY EveryDecodeEnds
