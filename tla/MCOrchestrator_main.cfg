SPECIFICATION Spec
CONSTANTS
    QueueDepth = 2
    AlertIds = {a1, a2, a3}
    NoAlert = none
    RadarPresent = TRUE
    MaxArming = 1
    MaxScans = 2
    MaxFlaps = 1
    Enabled = {"mic", "kill"}
    PromptExit = FALSE
CHECK_DEADLOCK FALSE
INVARIANTS
    TypeOK
    NeverBlind
    VigilanteMuteMatches
    DispatchAnsweredOnce
    WifiAgrees
    NimbleDownWithoutFlaps
PROPERTIES
    KeepsPolicy
    
