CONSTANTS
  Days = 2
  MaxMessages = 2
  MaxStarts = 2
  Failures <- Writes
  ReplayDays <- TwoDays
  Cap = 1
  MaxReplays = 1
SPECIFICATION FairSpec
PROPERTY StorageStops
PROPERTY ReplayEnds
CHECK_DEADLOCK FALSE
