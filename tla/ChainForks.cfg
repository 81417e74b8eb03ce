SPECIFICATION Spec
CONSTANTS
  Block <- ForkBlock
  NoBlock = "none"
  Parent <- ForkParent
  Height <- ForkHeight
  Lineage <- ForkLineage
  Checkpoints = {"a0"}
  Birth = "a0"
  BLOCK_DIFFICULTY_INTERVAL = 2
  Tx <- ForkTx
  TxsOf <- ForkTxs
  TX_UNCONFIRMED = 9
  Peer = {p, q}
  NoPeer = NoPeer
  Claims = {3}
  NODE_LAG = 10
  Reused = FALSE
  MaxQueue = 1
  MaxRescans = 0
  MaxRestarts = 0
INVARIANTS
  TypeOK
  BestChain
  OrphansWait
  ForksMeet
PROPERTIES
  ClientSpec
SYMMETRY PeerSymmetry
