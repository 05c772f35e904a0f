SPECIFICATION FairSpec
CONSTANTS
    QueueDepth = 2
    AlertIds = {a1, a2, a3}
    NoAlert = none
    RadarPresent = TRUE
    MaxArming = 1
    MaxScans = 1
    MaxFlaps = 1
    Enabled = {"ble", "silentnd", "mic"}
    PromptExit = TRUE
CHECK_DEADLOCK FALSE
PROPERTIES
    TransientEnds
    WifiIsNoticed
    SleepGetsArmed
