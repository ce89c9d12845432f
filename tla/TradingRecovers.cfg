CONSTANTS
  ltc = ltc
  etc = etc
  Symbols <- OneContract
  Follows <- OneFollowed
  LossStep = 1
  Ticks <- BuyTicks1
  MaxOrders = 2
  MaxEntries = 1
  MaxRuns = 1
  InitialLots <- StartAny
  OrdersRest = FALSE
  LossyTids <- OrderTid
  MaxLost = 1
SPECIFICATION FairSpec
PROPERTY PositionRecovers
