CONSTANTS
  Days = 2
  MaxMessages = 4
  MaxStarts = 3
  Failures <- WriteAndSwitch
  ReplayDays <- AnyOrder
  Cap = 1
  MaxReplays = 1
SPECIFICATION Spec
INVARIANT TypeOK
INVARIANT NoHoles
INVARIANT RecordedInOrder
INVARIANT OneUncounted
INVARIANT WritesToday
INVARIANT OnlyTheTailIsCut
PROPERTY ImplementsTape
CHECK_DEADLOCK FALSE
