SPECIFICATION FairSpec
CONSTANTS
  Tx <- ClockTx
  Body <- ClockBody
  Blocks <- ClockBlocks
  Heights = {1, 2}
  Stamps = {1}
  TX_UNCONFIRMED = 9
  TX_MAX_LOCK_HEIGHT = 10
  TX_MIN_OUTPUT_AMOUNT = 1
  GAP_LIMIT <- MCGap
  OutOfOrder = TRUE
  FILTER_GAP = 1
  MaxNow = 11
INVARIANTS
  TotalsAgree
  BalanceIsUtxos
  GapFull
PROPERTIES
  RemovalEnds
