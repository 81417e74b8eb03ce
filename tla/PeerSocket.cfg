SPECIFICATION FairSpec
CONSTANTS
  p = p
  q = q
  NoPeer = NoPeer
  Peer = {p, q}
  Fd = {0, 1}
  maxConnectCount = 2
  MAX_CONNECT_FAILURES = 2
INVARIANTS
  TypeOK
  DescriptorsAccounted
PROPERTIES
  ConnectionStops
CHECK_DEADLOCK FALSE
