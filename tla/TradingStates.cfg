CONSTANTS
  ltc = ltc
  etc = etc
  Symbols <- TwoContracts
  Follows <- TwoFollowed
  LossStep = 1
  Ticks <- StateTicks2
  MaxOrders = 2
  MaxEntries = 2
  MaxRuns = 1
  InitialLots <- StartLong
  OrdersRest = FALSE
  LossyTids <- AllTids
  MaxLost = 0
SPECIFICATION Spec
PROPERTY OrderDiscipline
