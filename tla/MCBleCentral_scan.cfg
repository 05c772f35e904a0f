SPECIFICATION FairBleSpec
CONSTANTS
    Overlap = FALSE
    CancelReports = {TRUE, FALSE}
    CanFail = TRUE
    SlowDeinit = TRUE
INVARIANTS
    BleTypeOK
    SignalsOutliveTask
    ScannerIdleAtVerdict
PROPERTIES
    VerdictHonest
    AnsweredOnce
    DroppedOnlyByStop
    RequestEnds
    OperationsEnd
