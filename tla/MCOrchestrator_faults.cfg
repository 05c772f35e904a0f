SPECIFICATION Spec
CONSTANTS
    QueueDepth = 2
    AlertIds = {a1, a2, a3}
    NoAlert = none
    RadarPresent = FALSE
    MaxArming = 1
    MaxScans = 1
    MaxFlaps = 1
    Enabled = {"drop", "create", "ble", "csi", "rtc", "silentnd", "mic", "fatal", "power", "nvs"}
    PromptExit = FALSE
CHECK_DEADLOCK FALSE
INVARIANTS
    HandleHasTask
PROPERTIES
    KeepsPolicy
    DisarmedByOwner
