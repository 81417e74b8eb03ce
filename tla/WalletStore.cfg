SPECIFICATION StoreSpec
CONSTANTS
  Tx <- StoreTx
  Body <- StoreBody
  Blocks <- StoreBlocks
  Heights = {1}
  Stamps = {1}
  TX_UNCONFIRMED = 9
  TX_MAX_LOCK_HEIGHT = 10
  TX_MIN_OUTPUT_AMOUNT = 1
  GAP_LIMIT <- MCGap
  OutOfOrder = FALSE
  FILTER_GAP = 1
  MaxNow = 10
  MaxQueue = 2
INVARIANTS
  StoreAgrees
