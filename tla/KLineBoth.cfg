CONSTANTS
  Kinds <- Both
  Seg <- BothSeg
  Fast = 2
  Slow = 3
  MaxLen = 3
  Closes <- BothCloses
  Start <- NewYear
  Step = 300
  End <- EndBoth
  klParams <- BothParams
SPECIFICATION Spec
INVARIANT LinesAligned
INVARIANT SlopesDefined
INVARIANT RisenIsAbove
INVARIANT SameCandles
INVARIANT BuysRise
PROPERTY SteadyWithinCandle
