SPECIFICATION FairSpec
CONSTANTS
  Size = 7
  HeadSize = 1
  Requests = {1, 2, 4}
  MaxFrames = 5
CHECK_DEADLOCK FALSE
INVARIANTS
  TypeOK
  GrantIsFree
  NoLostWakeup
  AvailableHonest
PROPERTIES
  KeepsFifo
  WriterServed
  WakeupReturns
