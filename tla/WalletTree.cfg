SPECIFICATION Spec
CONSTANTS
  Tx <- TreeTx
  Body <- TreeBody
  Blocks <- TreeBlocks
  Heights = {1, 2}
  Stamps = {1}
  TX_UNCONFIRMED = 9
  TX_MAX_LOCK_HEIGHT = 10
  TX_MIN_OUTPUT_AMOUNT = 1
  GAP_LIMIT <- MCGap
  OutOfOrder = FALSE
  FILTER_GAP = 0
  MaxNow = 10
INVARIANTS
  TypeOK
  OldestFirst
  NoDangling
  ConflictFree
  HistoryComplete
  NoUnderflow
PROPERTIES
  LedgerSpec
