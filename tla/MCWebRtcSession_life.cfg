SPECIFICATION Spec
CONSTANTS
  MaxAttempts = 2
  MaxFlaps = 1
  MaxTries = 2
  Faults = {"media", "start", "peer", "stream", "stop", "update", "send"}
CHECK_DEADLOCK FALSE
INVARIANTS
  RtcTypeOK
  HandleIsLive
  NothingOutlives
  MediaOutlivesSession
  EventsInOrder
  WaitsAreAnswered
  ChannelConfigured
