CONSTANTS
  ltc = ltc
  etc = etc
  Symbols <- OneContract
  Follows <- OneFollowed
  LossStep = 1
  Ticks <- BuyTicks1
  MaxOrders = 2
  MaxEntries = 1
  MaxRuns = 2
  InitialLots <- StartFlat
  OrdersRest = TRUE
  LossyTids <- AllTids
  MaxLost = 0
SPECIFICATION Spec
INVARIANT RepliesInIssueOrder
INVARIANT AtMostOnce
PROPERTY ImplementsPositionFeed
PROPERTY ClearedOnlyIfExecuted
