SPECIFICATION FairSpec
CONSTANTS
  Producers = {t1, t2}
  Consumers = {c1, c2}
  p1 = p1
  p2 = p2
  Packets <- MCPackets
  PktSize <- MCPktSize
  NULL = NULL
INVARIANTS
  ListWellFormed
  Owned
  CountersExact
  NoLostWakeup
PROPERTIES
  FifoSpec
  ParkedIsServed
CHECK_DEADLOCK FALSE
