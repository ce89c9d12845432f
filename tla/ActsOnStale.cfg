CONSTANTS
  ltc = ltc
  etc = etc
  Symbols <- OneContract
  Follows <- OneFollowed
  LossStep = 1
  Ticks <- TradeTicks1
  MaxOrders = 2
  MaxEntries = 1
  MaxRuns = 1
  InitialLots <- StartFlat
  OrdersRest = FALSE
  LossyTids <- AllTids
  MaxLost = 0
SPECIFICATION Spec
PROPERTY ActsOnLatestPosition
