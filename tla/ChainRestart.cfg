SPECIFICATION Spec
CONSTANTS
  Block <- LineBlock
  NoBlock = "none"
  Parent <- LineParent
  Height <- LineHeight
  Lineage <- LineLineage
  Checkpoints = {"a0", "a2"}
  Birth = "a0"
  BLOCK_DIFFICULTY_INTERVAL = 2
  Tx <- LineTx
  TxsOf <- LineTxs
  TX_UNCONFIRMED = 9
  Peer = {p}
  NoPeer = NoPeer
  Claims = {5}
  NODE_LAG = 10
  Reused = FALSE
  MaxQueue = 1
  MaxRescans = 1
  MaxRestarts = 1
INVARIANTS
  Verifiable
  NextNotWaiting
  MainConfirmed
  DiskFromTransition
