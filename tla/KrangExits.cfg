CONSTANTS
  quotes = quotes
  replies = replies
  ltc = ltc
  etc = etc
  Partitions <- Both
  KindsOf <- BothKinds
  Contracts = {ltc, etc}
  Dbs = {ltc}
  MaxQueue = 1
  MaxMessages = 2
  MaxFailures = 1
  MaxSends = 1
  BatchMax = 1
SPECIFICATION FairSpec
INVARIANT NothingLostOnTheWay
INVARIANT RequestsInOrder
INVARIANT ProducerOutlivesKrang
PROPERTY ImplementsRowStore
PROPERTY InterruptEnds
PROPERTY ReadIsHandled
CHECK_DEADLOCK FALSE
