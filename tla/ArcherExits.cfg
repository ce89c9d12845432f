CONSTANTS
  Partitions = {"requests"}
  KindsOf <- RequestKinds
  Exchanges = {"okex", "bitfinex"}
  Supported = {"okex", "bitfinex"}
  MaxQueue = 1
  MaxMessages = 4
  MaxFailures = 1
SPECIFICATION FairSpec
INVARIANT RequestsFinished
PROPERTY InterruptEnds
PROPERTY HandedOver
CHECK_DEADLOCK FALSE
