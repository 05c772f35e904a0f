SPECIFICATION Spec
CONSTANTS
    QueueDepth = 3
    AlertIds = {a1, a2, a3}
    NoAlert = none
    RadarPresent = TRUE
    MaxArming = 1
    MaxScans = 1
    MaxFlaps = 1
    Enabled = {}
    PromptExit = TRUE
CHECK_DEADLOCK FALSE
INVARIANT NimbleDownInSession
