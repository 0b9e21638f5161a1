\* Words of seven bits, numbers of nine digits.  Rendering ends: no deadlock.
CONSTANTS
  ByteBits = 7
  WordBytes = 1
  Txs <- MCTxs
  Multiplier = 3
  Decimals = 2
  Ticker <- MCTicker
  MAINNET = 5
  TESTNET = 1
  AmountSize = 10
  FeeSize = 8
  NonceSize = 3
  NetworkSize = 3
  DataSize = 10
  TmpSize = 11
  SelectorLength = 2
SPECIFICATION FairSpec
INVARIANTS
  TypeOK
  StringsContained
  DivisionExact
  AmountExact
  FeeExact
  NonceExact
  NetworkAndDataExact
  RefusedOnlyIfTooLong
PROPERTIES
  Renders
CHECK_DEADLOCK FALSE
