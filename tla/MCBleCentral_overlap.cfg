\* One loss of WiFi after another: the callers work side by side.
SPECIFICATION BleSpec
CONSTANTS
    Overlap = TRUE
    CancelReports = {FALSE}
    CanFail = FALSE
    SlowDeinit = TRUE
INVARIANTS
    SignalsOutliveTask
\* A caller whose signal another one has taken waits for its timeout, which the
\* model does not let expire.
CHECK_DEADLOCK FALSE
