CONSTANTS
  ltc = ltc
  etc = etc
  Symbols <- OneContract
  Follows <- OneFollowed
  LossStep = 1
  Ticks <- TradeTicks1
  MaxOrders = 2
  MaxEntries = 1
  MaxRuns = 1
  InitialLots <- StartAny
  OrdersRest = FALSE
  LossyTids <- AllTids
  MaxLost = 1
SPECIFICATION Spec
INVARIANT TypeOK
INVARIANT VersionsInOrder
INVARIANT StaleIsRefreshed
