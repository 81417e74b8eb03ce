SPECIFICATION Spec
CONSTANTS
  p1 = p1
  p2 = p2
  t1 = t1
  t2 = t2
  Peer = {p1, p2}
  NoPeer = NoPeer
  Tx = {t1}
  Inputs <- NoInputs
  Held = {}
  maxConnectCount = 2
  MAX_CONNECT_FAILURES = 2
  Behind = TRUE
  MaxOpened = 3
INVARIANTS
  TypeOK
  WaitingOwned
  RelaysConnected
SYMMETRY PeerSymmetry
CHECK_DEADLOCK FALSE
