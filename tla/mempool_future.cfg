CONSTANTS
  a = a
  b = b
  c = c
  d = d
  w = w
  x = x
  y = y
  z = z
  old = old
  other = other
  a0 = a0
  a1 = a1
  b0 = b0
  c0 = c0
  d0 = d0
  y0 = y0
  NoTx = NoTx
  Tx = {a, b, c, d, w, x, y, z}
  Coinbase = {c}
  Outpoint = {old, other, a0, a1, b0, c0, d0, y0}
  Source <- MCSource
  Spends <- MCSpends
  Size <- MCSize
  Fee <- MCFee
  Replaceable = {a}
  NonStandard = {y}
  Blocks <- MCBlocks
  Prioritisable = {b}
  MaxDelta = 1
  MaxHeight = 4
  MaxTime = 0
  CoinbaseMaturity = 2
  MaxFutureBlockTime = 1
  LimitAncestors = 2
  LimitAncestorSize = 4
  LimitDescendants = 2
  LimitDescendantSize = 4
  MinRelayTxFee = 1
  IncrementalRelayFee = 1
  MaxMempool = 3
  MaxDisconnectedPool = 3
SPECIFICATION Spec
INVARIANT
  NextBlockMayInclude
CHECK_DEADLOCK FALSE
