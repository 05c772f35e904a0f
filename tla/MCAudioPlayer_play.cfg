SPECIFICATION FairSpec
CONSTANTS
  RawSize = 2
  RenderSize = 2
  MaxFed = 4
  MaxCalls = 3
  Faults = {"create", "decode", "open", "resample", "write"}
CHECK_DEADLOCK FALSE
INVARIANTS
  PlayerTypeOK
  NoThreadOutlives
  PlayedInOrder
PROPERTIES
  PlayerCallsReturn
