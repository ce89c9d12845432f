CONSTANTS
  Kinds <- Both
  Seg <- BothSeg
  Fast = 1
  Slow = 2
  MaxLen = 2
  Closes <- BothCloses
  Start <- NewYear
  Step = 300
  End <- EndBoth
  klParams <- BothParams
SPECIFICATION Spec
INVARIANT FiveMinutesOnly
