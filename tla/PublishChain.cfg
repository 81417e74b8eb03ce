SPECIFICATION Spec
CONSTANTS
  p1 = p1
  p2 = p2
  t1 = t1
  t2 = t2
  Peer = {p1}
  NoPeer = NoPeer
  Tx = {t1, t2}
  Inputs <- Chained
  Held = {}
  maxConnectCount = 1
  MAX_CONNECT_FAILURES = 2
  Behind = TRUE
  MaxOpened = 3
INVARIANTS
  AnswersTrue
PROPERTIES
  PublicationKept
  AnsweredOutsideSync
CHECK_DEADLOCK FALSE
