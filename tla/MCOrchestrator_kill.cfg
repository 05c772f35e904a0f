SPECIFICATION Spec
CONSTANTS
    QueueDepth = 2
    AlertIds = {a1, a2, a3}
    NoAlert = none
    RadarPresent = TRUE
    MaxArming = 1
    MaxScans = 1
    MaxFlaps = 0
    Enabled = {"kill"}
    PromptExit = TRUE
CHECK_DEADLOCK FALSE
PROPERTY KillSwitchArms
