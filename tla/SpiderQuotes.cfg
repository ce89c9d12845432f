CONSTANTS
  Feeds = {"ltc"}
  Channels <- TickerAndCandles
  MaxConns = 2
  MaxPushes = 2
  MaxFaults = 1
  MaxQueue = 1
  MaxFailures = 1
SPECIFICATION FairSpec
INVARIANT TypeOK
INVARIANT InConnectionOrder
INVARIANT NoEmptyTicker
INVARIANT AllChannelsOrNone
PROPERTY InterruptEnds
PROPERTY LinkIsReplaced
PROPERTY OldOnesEnd
CHECK_DEADLOCK FALSE
