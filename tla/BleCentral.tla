------------------------------ MODULE BleCentral ------------------------------
(***************************************************************************)
(* The BLE identity scan: the persistent smart BLE task of                 *)
(* ble/ble_device_control.c, the NimBLE host that calls back into it, and  *)
(* the tasks that prepare, ask, stop and release it:                       *)
(*   orch  the orchestrator (stop on a loss of WiFi, release before sleep, *)
(*         request of a validation)                                        *)
(*   prep  orchestrator_ble_prepare_task                                   *)
(*   rel   orchestrator_ble_release_task                                   *)
(*                                                                         *)
(* They share flags without a lock and four binary semaphores, here the    *)
(* Booleans startSig, idleSig and scanDone and the resources that hold     *)
(* them.  Only the identity mode of the smart task is modelled: nothing in *)
(* the firmware starts its discovery mode.  A caller is the list of steps  *)
(* it still has to do; a step is what lies between two points at which     *)
(* another task may change what it reads.                                  *)
(*                                                                         *)
(* Timeouts are long against steps: one expires only when what it waits    *)
(* for cannot come without another timeout or the end of the scan window.  *)
(***************************************************************************)
EXTENDS Naturals, Sequences

CONSTANTS
    Overlap,        \* WiFi is lost: callers run while others do
    CancelReports,  \* whether NimBLE reports the end of a cancelled discovery
    CanFail,        \* BLE operations fail
    SlowDeinit      \* NimBLE goes down slower than a task that is awake blocks

ASSUME BleAssumption ==
    /\ Overlap \in BOOLEAN /\ CanFail \in BOOLEAN /\ SlowDeinit \in BOOLEAN
    /\ CancelReports \subseteq BOOLEAN /\ CancelReports # {}

Callers == {"orch", "prep", "rel"}

VARIABLES
    todo,           \* what each caller still has to do
    smart,          \* where the smart BLE task is; "none" without a handle
    saw,            \* its local copy of the record
    startSig,       \* smart_task_start_signal
    idleSig,        \* smart_task_idle_signal
    scanDone,       \* scan_complete_semaphore
    resources,      \* the semaphores exist, ble_runtime_resources_ready
    initialized,    \* module_initialized
    stopping,       \* module_stopping
    enabled,        \* smart_discovery_enabled
    running,        \* smart_discovery_running
    scanning,       \* scanning_active
    shutdown,       \* smart_task_shutdown_requested
    present,        \* identity_validation_state.present
    owned,          \* the central role is owned
    stack,          \* the NimBLE host
    gap,            \* GAP discovery in the stack
    callback,       \* what the host task is about to do in a GAP callback
    ready,          \* BLE_READY has been posted and not been used
    lost,           \* WiFi was lost while somebody worked who still does
    answer          \* what became of the last request

signals  == <<startSig, idleSig, scanDone, resources>>
flags    == <<initialized, stopping, enabled, running, scanning, shutdown>>
hostVars == <<stack, gap, callback>>
bleVars  == <<todo, smart, saw, signals, flags, present, owned, hostVars, ready, lost, answer>>

-----------------------------------------------------------------------------
(* What the callers do, as lists of steps.                                 *)

\* ble_device_cancel_scan_and_wait
CancelScan == <<"cancel", "ack">>

\* ble_device_stop_smart_task
StopSmartTask == <<"stopSmart">> \o CancelScan \o <<"wake", "waitIdle">>

\* ble_device_control_stop
ControlStop == <<"stop">> \o CancelScan \o StopSmartTask \o <<"stopped">>

\* ble_device_full_release with ble_device_stop_persistent_tasks
FullRelease == <<"release">> \o ControlStop \o <<"shutdown">> \o CancelScan
                 \o <<"askExit", "waitExit", "deinit", "delete">>

\* ble_device_prepare_for_identity_scan
PrepareScan == <<"check", "cancelAny", "ack">>

\* orchestrator_ble_prepare_task
PrepareTask == FullRelease \o <<"boot", "sync", "start">> \o PrepareScan \o <<"ready">>

\* ble_device_start_identity_validation
StartValidation == PrepareScan \o <<"request">>

StepNames == {"cancel", "ack", "stopSmart", "wake", "waitIdle", "stop", "stopped",
              "release", "shutdown", "askExit", "waitExit", "deinit", "delete",
              "boot", "sync", "start", "check", "cancelAny", "ready", "request"}

\* What is left of s behind the first step x.
Behind(s, x) ==
    SubSeq(s, (CHOOSE i \in 1..Len(s) : s[i] = x /\ \A j \in 1..(i - 1) : s[j] # x) + 1,
           Len(s))

At(c, x) == todo[c] # <<>> /\ Head(todo[c]) = x
Continue(c) == todo' = [todo EXCEPT ![c] = Tail(@)]
SkipBehind(c, x) == todo' = [todo EXCEPT ![c] = Behind(@, x)]

\* A caller that fails ends its work; the prepare task first releases what it
\* has built.  It reports BLE_BUSY or BLE_RELEASE_FAILED.
GiveUp(c) == todo' = [todo EXCEPT ![c] = <<>>]
CleanUp(c) == todo' = [todo EXCEPT ![c] = IF c = "prep" THEN FullRelease ELSE <<>>]

HandleNull == smart \in {"none", "left"}

BleTypeOK ==
    /\ todo \in [Callers -> Seq(StepNames)]
    /\ smart \in {"none", "wait", "woken", "run", "begin", "go", "scan", "look", "second",
                  "judge", "disown", "exit", "idling", "leaving", "left"}
    /\ \A b \in {saw, startSig, idleSig, scanDone, resources, initialized, stopping,
                 enabled, running, scanning, shutdown, present, owned, ready, lost} : b \in BOOLEAN
    /\ stack \in {"off", "starting", "synced"}
    /\ gap \in {"idle", "active", "cancelling"}
    /\ callback \in {"none", "match", "complete"}
    /\ answer \in {"none", "asked", "dropped", "PRESENT", "REJECTED", "BUSY"}

BleInit ==
    /\ todo = [c \in Callers |-> <<>>] /\ smart = "none" /\ saw = FALSE
    /\ startSig = FALSE /\ idleSig = FALSE /\ scanDone = FALSE /\ resources = FALSE
    /\ initialized = FALSE /\ stopping = FALSE /\ enabled = FALSE /\ running = FALSE
    /\ scanning = FALSE /\ shutdown = FALSE /\ present = FALSE /\ owned = FALSE
    /\ stack = "off" /\ gap = "idle" /\ callback = "none"
    /\ ready = FALSE /\ lost = FALSE /\ answer = "none"

-----------------------------------------------------------------------------
(* The orchestrator starts its operations.                                 *)

Quiet == \A c \in Callers : todo[c] = <<>>

Starts(c, steps) ==
    /\ todo[c] = <<>> /\ todo' = [todo EXCEPT ![c] = steps] /\ ready' = FALSE
    /\ UNCHANGED <<smart, saw, signals, flags, present, owned, hostVars, answer>>

\* A loss of WiFi interrupts whoever works, and lets the orchestrator go on
\* without waiting for them.  Otherwise it starts nothing before the last
\* operation has ended.
LosesWifi ==
    /\ Quiet \/ Overlap
    /\ Starts("orch", StopSmartTask \o ControlStop) /\ lost' = ~Quiet

GoesOn(c, steps) ==
    /\ todo["orch"] = <<>> /\ (Quiet \/ lost)
    /\ Starts(c, steps) /\ lost' = (lost /\ ~Quiet)

FallsAsleep == GoesOn("orch", FullRelease)
Prepares == GoesOn("prep", PrepareTask)
Releases == GoesOn("rel", FullRelease)
Validates == ready /\ GoesOn("orch", StartValidation)

-----------------------------------------------------------------------------
(* The steps of the callers.                                               *)

\* ble_gap_disc_cancel succeeds unless discovery is idle.
DiscoveryCancelled == gap' \in {IF r THEN "cancelling" ELSE "idle" : r \in CancelReports}

\* Who stops looks at scanning_active first; who prepares a scan also asks the
\* stack.
MustCancel(c) == scanning \/ (At(c, "cancelAny") /\ gap # "idle")

Cancel(c) ==
    /\ At(c, "cancel") \/ At(c, "cancelAny")
    /\ \/ /\ ~MustCancel(c)
          /\ SkipBehind(c, "ack") /\ UNCHANGED <<scanDone, scanning, gap>>
       \/ /\ MustCancel(c) /\ gap # "idle" /\ DiscoveryCancelled
          /\ scanDone' = FALSE /\ Continue(c) /\ UNCHANGED scanning
       \/ /\ MustCancel(c) /\ gap = "idle"
          /\ scanDone' = resources /\ scanning' = FALSE /\ SkipBehind(c, "ack")
          /\ UNCHANGED gap
    /\ UNCHANGED <<smart, saw, startSig, idleSig, resources, initialized, stopping, enabled,
                   running, shutdown, present, owned, stack, callback, ready, lost, answer>>

\* The caller takes the signal of DISC_COMPLETE, or finds the scanner idle
\* after a second and gives the signal itself.
Ack(c) ==
    /\ At(c, "ack") /\ Continue(c)
    /\ \/ scanDone /\ scanDone' = FALSE
       \/ ~scanDone /\ gap = "idle" /\ callback # "complete" /\ scanDone' = resources
    /\ scanning' = FALSE
    /\ UNCHANGED <<smart, saw, startSig, idleSig, resources, initialized, stopping, enabled,
                   running, shutdown, present, owned, hostVars, ready, lost, answer>>

\* ble_device_stop_smart_task up to its cancellation of the scan.
StopSmart(c) ==
    /\ At(c, "stopSmart")
    /\ IF HandleNull \/ (~running /\ ~enabled)
       THEN SkipBehind(c, "waitIdle") /\ UNCHANGED enabled
       ELSE Continue(c) /\ enabled' = FALSE
    /\ UNCHANGED <<smart, saw, signals, initialized, stopping, running, scanning, shutdown,
                   present, owned, hostVars, ready, lost, answer>>

Wake(c) ==
    /\ At(c, "wake") /\ Continue(c) /\ startSig' = resources
    /\ UNCHANGED <<smart, saw, idleSig, scanDone, resources, flags, present, owned, hostVars,
                   ready, lost, answer>>

\* The smart task waits for its scan to end, which nobody can hasten.
SmartIsLate == smart = "scan" /\ ~scanDone

WaitIdle(c) ==
    /\ At(c, "waitIdle") /\ Continue(c)
    /\ \/ idleSig /\ idleSig' = FALSE
       \/ ~idleSig /\ (SmartIsLate \/ ~resources) /\ UNCHANGED idleSig
    /\ running' = FALSE /\ enabled' = FALSE
    /\ UNCHANGED <<smart, saw, startSig, scanDone, resources, initialized, stopping,
                   scanning, shutdown, present, owned, hostVars, ready, lost, answer>>

\* ble_device_control_stop before and after it stops the smart task.
StopBegins(c) ==
    /\ At(c, "stop")
    /\ IF initialized \/ running \/ scanning
       THEN Continue(c) /\ stopping' = TRUE /\ enabled' = FALSE
       ELSE SkipBehind(c, "stopped") /\ UNCHANGED <<stopping, enabled>>
    /\ UNCHANGED <<smart, saw, signals, initialized, running, scanning, shutdown, present,
                   owned, hostVars, ready, lost, answer>>

StopEnds(c) ==
    /\ At(c, "stopped") /\ Continue(c)
    /\ initialized' = FALSE /\ stopping' = FALSE /\ owned' = FALSE
    /\ scanning' = FALSE /\ enabled' = FALSE /\ running' = FALSE
    /\ UNCHANGED <<smart, saw, signals, shutdown, present, hostVars, ready, lost, answer>>

\* ble_device_full_release_already_off
AlreadyOff ==
    /\ ~resources /\ HandleNull /\ ~initialized /\ ~enabled /\ ~running /\ ~scanning
    /\ stack = "off" /\ ~owned

ReleaseBegins(c) ==
    /\ At(c, "release")
    /\ IF AlreadyOff
       THEN SkipBehind(c, "delete") /\ stopping' = FALSE /\ shutdown' = FALSE
       ELSE Continue(c) /\ UNCHANGED <<stopping, shutdown>>
    /\ UNCHANGED <<smart, saw, signals, initialized, enabled, running, scanning, present,
                   owned, hostVars, ready, lost, answer>>

\* ble_device_stop_persistent_tasks
RequestsShutdown(c) ==
    /\ At(c, "shutdown") /\ Continue(c)
    /\ stopping' = TRUE /\ enabled' = FALSE /\ shutdown' = TRUE
    /\ UNCHANGED <<smart, saw, signals, initialized, running, scanning, present, owned,
                   hostVars, ready, lost, answer>>

AskExit(c) ==
    /\ At(c, "askExit")
    /\ IF HandleNull THEN SkipBehind(c, "waitExit") /\ UNCHANGED signals
       ELSE /\ Continue(c) /\ idleSig' = FALSE /\ startSig' = resources
            /\ UNCHANGED <<scanDone, resources>>
    /\ UNCHANGED <<smart, saw, flags, present, owned, hostVars, ready, lost, answer>>

WaitExitIgnoresTimeout(c) ==
    /\ At(c, "waitExit") /\ Continue(c)
    /\ \/ idleSig /\ idleSig' = FALSE
       \/ ~idleSig /\ (SmartIsLate \/ ~resources) /\ UNCHANGED idleSig
    /\ UNCHANGED <<smart, saw, startSig, scanDone, resources, flags, present, owned, hostVars,
                   ready, lost, answer>>

\* A signal is taken for the exit of the task; a timeout fails the release.
WaitExit(c) ==
    /\ At(c, "waitExit")
    /\ \/ idleSig /\ idleSig' = FALSE /\ Continue(c) /\ UNCHANGED stopping
       \/ /\ ~idleSig /\ (SmartIsLate \/ ~resources)
          /\ GiveUp(c) /\ stopping' = FALSE /\ UNCHANGED idleSig
    /\ UNCHANGED <<smart, saw, startSig, scanDone, resources, initialized, enabled, running,
                   scanning, shutdown, present, owned, hostVars, ready, lost, answer>>

\* The smart task blocks on a semaphore, or is gone.
SmartSettled ==
    \/ smart = "none" \/ (smart = "wait" /\ ~startSig) \/ (smart = "scan" /\ ~scanDone)

\* ble_common_deinit: the host task finishes its callback and stops.
Deinit(c) ==
    /\ At(c, "deinit") /\ callback = "none"
    /\ SlowDeinit => SmartSettled
    /\ owned' = FALSE /\ UNCHANGED callback
    /\ \/ Continue(c) /\ stack' = "off" /\ gap' = "idle" /\ UNCHANGED stopping
       \/ /\ CanFail /\ stack # "off"
          /\ GiveUp(c) /\ stopping' = FALSE /\ gap' = "idle" /\ UNCHANGED stack
    /\ UNCHANGED <<smart, saw, signals, initialized, enabled, running, scanning, shutdown,
                   present, ready, lost, answer>>

\* The end of ble_device_full_release, ble_device_runtime_resources_delete.
Delete(c) ==
    /\ At(c, "delete") /\ Continue(c)
    /\ initialized' = FALSE /\ stopping' = FALSE /\ enabled' = FALSE /\ running' = FALSE
    /\ scanning' = FALSE /\ shutdown' = FALSE
    /\ startSig' = FALSE /\ idleSig' = FALSE /\ scanDone' = FALSE /\ resources' = FALSE
    /\ UNCHANGED <<smart, saw, present, owned, hostVars, ready, lost, answer>>

\* ble_common_ensure_ready starts the host and waits until it is synced.
Boot(c) ==
    /\ At(c, "boot") /\ Continue(c)
    /\ stack' = IF stack = "off" THEN "starting" ELSE stack
    /\ UNCHANGED <<smart, saw, signals, flags, present, owned, gap, callback, ready, lost, answer>>

Sync(c) ==
    /\ At(c, "sync")
    /\ \/ stack = "synced" /\ Continue(c)
       \/ stack # "synced" /\ (CanFail \/ stack = "off") /\ CleanUp(c)
    /\ UNCHANGED <<smart, saw, signals, flags, present, owned, hostVars, ready, lost, answer>>

\* ble_device_control_start with ble_device_runtime_resources_init.
ControlStart(c) ==
    /\ At(c, "start")
    /\ \/ /\ initialized \/ stack # "synced"
          /\ IF initialized /\ (owned \/ stack = "synced")
             THEN Continue(c) /\ owned' = TRUE ELSE CleanUp(c) /\ UNCHANGED owned
          /\ UNCHANGED <<smart, signals, flags>>
       \/ /\ ~initialized /\ stack = "synced"
          /\ Continue(c) /\ owned' = TRUE /\ initialized' = TRUE
          /\ stopping' = FALSE /\ enabled' = FALSE /\ running' = FALSE /\ scanning' = FALSE
          /\ IF resources THEN UNCHANGED <<smart, signals, shutdown>>
             ELSE /\ resources' = TRUE /\ shutdown' = FALSE
                  /\ startSig' = FALSE /\ scanDone' = FALSE /\ idleSig' = TRUE
                  /\ smart' = IF HandleNull THEN "wait" ELSE smart
       \/ /\ ~initialized /\ stack = "synced" /\ CanFail
          /\ CleanUp(c) /\ owned' = FALSE
          /\ stopping' = FALSE /\ enabled' = FALSE /\ running' = FALSE /\ scanning' = FALSE
          /\ UNCHANGED <<smart, signals, initialized, shutdown>>
    /\ UNCHANGED <<saw, present, hostVars, ready, lost, answer>>

\* The conditions that both the preparation and the request check.
Servable ==
    /\ initialized /\ ~stopping /\ owned /\ ~HandleNull /\ resources
    /\ ~running /\ ~enabled

Check(c) ==
    /\ At(c, "check")
    /\ IF Servable THEN Continue(c) ELSE CleanUp(c)
    /\ UNCHANGED <<smart, saw, signals, flags, present, owned, hostVars, ready, lost, answer>>

\* The scanner is idle: BLE_READY is posted.
PostsReady(c) ==
    /\ At(c, "ready")
    /\ IF ~scanning /\ gap = "idle" THEN Continue(c) /\ ready' = TRUE /\ scanDone' = FALSE
       ELSE CleanUp(c) /\ UNCHANGED <<ready, scanDone>>
    /\ UNCHANGED <<smart, saw, startSig, idleSig, resources, flags, present, owned,
                   hostVars, lost, answer>>

RequestDrainsLast(c) ==
    /\ At(c, "request") /\ Continue(c)
    /\ IF ~scanning /\ gap = "idle"
       THEN /\ present' = FALSE /\ idleSig' = FALSE /\ scanDone' = FALSE
            /\ enabled' = TRUE /\ running' = TRUE /\ startSig' = FALSE
            /\ answer' = "asked"
       ELSE UNCHANGED <<present, idleSig, scanDone, enabled, running, startSig, answer>>
    /\ UNCHANGED <<smart, saw, resources, initialized, stopping, scanning, shutdown, owned,
                   hostVars, ready, lost>>

RequestForgetsEnabled(c) ==
    /\ At(c, "request") /\ Continue(c)
    /\ IF ~scanning /\ gap = "idle"
       THEN /\ present' = FALSE /\ idleSig' = FALSE /\ scanDone' = FALSE
            /\ running' = TRUE /\ startSig' = TRUE /\ answer' = "asked"
       ELSE UNCHANGED <<present, idleSig, scanDone, running, startSig, answer>>
    /\ UNCHANGED <<smart, saw, resources, initialized, stopping, enabled, scanning, shutdown,
                   owned, hostVars, ready, lost>>

\* A refused request is answered by BLE_BUSY at once.
Request(c) ==
    /\ At(c, "request") /\ Continue(c)
    /\ IF ~scanning /\ gap = "idle"
       THEN /\ present' = FALSE /\ idleSig' = FALSE /\ scanDone' = FALSE
            /\ enabled' = TRUE /\ running' = TRUE /\ startSig' = TRUE
            /\ answer' = "asked"
       ELSE UNCHANGED <<present, idleSig, scanDone, enabled, running, startSig, answer>>
    /\ UNCHANGED <<smart, saw, resources, initialized, stopping, scanning, shutdown, owned,
                   hostVars, ready, lost>>

CallerStep(c) ==
    \/ Cancel(c) \/ Ack(c) \/ StopSmart(c) \/ Wake(c) \/ WaitIdle(c)
    \/ StopBegins(c) \/ StopEnds(c)
    \/ ReleaseBegins(c) \/ RequestsShutdown(c) \/ AskExit(c) \/ WaitExit(c)
    \/ Deinit(c) \/ Delete(c)
    \/ Boot(c) \/ Sync(c) \/ ControlStart(c) \/ Check(c) \/ PostsReady(c) \/ Request(c)

-----------------------------------------------------------------------------
(* The smart BLE task.                                                     *)

smartFrame == <<todo, resources, initialized, stopping, shutdown, stack, callback, ready, lost>>

\* It takes the start signal, and every other one that has come meanwhile.
SmartWakes ==
    /\ smart = "wait" /\ startSig /\ startSig' = FALSE /\ smart' = "woken"
    /\ UNCHANGED <<smartFrame, saw, idleSig, scanDone, enabled, running, scanning, present,
                   owned, gap, answer>>

SmartDecidesBlindly ==
    /\ smart = "woken"
    /\ \/ shutdown /\ smart' = "leaving" /\ UNCHANGED running
       \/ ~shutdown /\ running' = TRUE /\ smart' = "run"
    /\ UNCHANGED <<smartFrame, saw, startSig, idleSig, scanDone, enabled, scanning, present,
                   owned, gap, answer>>

\* A wake-up is a request to exit, a request that has been taken back, or a
\* request to scan.
SmartDecides ==
    /\ smart = "woken"
    /\ \/ /\ shutdown /\ smart' = "leaving" /\ UNCHANGED running
          /\ answer' = IF answer = "asked" THEN "dropped" ELSE answer
       \/ /\ ~shutdown /\ (~initialized \/ stopping \/ ~enabled)
          /\ running' = FALSE /\ smart' = "idling"
          /\ answer' = IF answer = "asked" THEN "dropped" ELSE answer
       \/ /\ ~shutdown /\ initialized /\ ~stopping /\ enabled
          /\ running' = TRUE /\ smart' = "run" /\ UNCHANGED answer
    /\ UNCHANGED <<smartFrame, saw, startSig, idleSig, scanDone, enabled, scanning, present,
                   owned, gap>>

\* ble_device_run_identity_validation, from here to SmartDisowns.
SmartResets ==
    /\ smart = "run" /\ smart' = "begin" /\ present' = FALSE /\ scanDone' = FALSE
    /\ UNCHANGED <<smartFrame, saw, startSig, idleSig, enabled, running, scanning, owned,
                   gap, answer>>

\* ble_device_start_identity_scan checks, and then starts.
SmartBegins ==
    /\ smart = "begin"
    /\ IF initialized /\ ~stopping /\ ~scanning
       THEN smart' = "go" /\ UNCHANGED answer
       ELSE smart' = "disown" /\ answer' = "BUSY"
    /\ UNCHANGED <<smartFrame, saw, startSig, idleSig, scanDone, enabled, running, scanning,
                   present, owned, gap>>

SmartScans ==
    /\ smart = "go"
    /\ \/ /\ stack = "synced" /\ gap = "idle"
          /\ smart' = "scan" /\ scanning' = TRUE /\ gap' = "active" /\ UNCHANGED answer
       \/ /\ CanFail \/ stack # "synced" \/ gap # "idle"
          /\ smart' = "disown" /\ scanning' = FALSE /\ answer' = "BUSY" /\ UNCHANGED gap
    /\ UNCHANGED <<smartFrame, saw, startSig, idleSig, scanDone, enabled, running, present,
                   owned>>

SmartScanEnds ==
    /\ smart = "scan" /\ scanDone /\ scanDone' = FALSE /\ smart' = "look"
    /\ UNCHANGED <<smartFrame, saw, startSig, idleSig, enabled, running, scanning, present,
                   owned, gap, answer>>

SmartTimesOutAbsent ==
    /\ smart = "scan" /\ ~scanDone /\ gap = "idle" /\ callback = "none"
    /\ smart' = "judge" /\ saw' = FALSE
    /\ scanning' = FALSE /\ scanDone' = (scanning /\ resources)
    /\ UNCHANGED <<smartFrame, startSig, idleSig, enabled, running, present, owned, gap,
                   answer>>

\* Its signal went to another waiter: the wait ends a second after the window.
SmartTimesOut ==
    /\ smart = "scan" /\ ~scanDone /\ gap = "idle" /\ callback = "none"
    /\ smart' = "judge" /\ saw' = present
    /\ scanning' = FALSE /\ scanDone' = (scanning /\ resources)
    /\ UNCHANGED <<smartFrame, startSig, idleSig, enabled, running, present, owned, gap,
                   answer>>

SmartLooksOnce ==
    /\ smart = "look" /\ saw' = present /\ smart' = "judge"
    /\ scanning' = IF present /\ gap = "idle" THEN FALSE ELSE scanning
    /\ UNCHANGED <<smartFrame, startSig, idleSig, scanDone, enabled, running, present,
                   owned, gap, answer>>

\* With a match it was the early exit that woke the task: the discovery may
\* still be going down.
SmartLooks ==
    /\ smart = "look" /\ saw' = present
    /\ smart' = IF present /\ gap # "idle" THEN "second" ELSE "judge"
    /\ scanning' = IF present /\ gap = "idle" THEN FALSE ELSE scanning
    /\ UNCHANGED <<smartFrame, startSig, idleSig, scanDone, enabled, running, present,
                   owned, gap, answer>>

SmartSecondWait ==
    /\ smart = "second" /\ scanning' = FALSE /\ smart' = "judge"
    /\ \/ scanDone /\ scanDone' = FALSE
       \/ ~scanDone /\ gap = "idle" /\ callback = "none" /\ UNCHANGED scanDone
    /\ UNCHANGED <<smartFrame, saw, startSig, idleSig, enabled, running, present, owned, gap,
                   answer>>

SmartJudgesAbsent ==
    /\ smart = "judge" /\ smart' = "disown"
    /\ answer' = IF saw THEN "PRESENT" ELSE "ABSENT"
    /\ UNCHANGED <<smartFrame, saw, startSig, idleSig, scanDone, enabled, running, scanning,
                   present, owned, gap>>

SmartJudges ==
    /\ smart = "judge" /\ smart' = "disown"
    /\ answer' = IF saw THEN "PRESENT" ELSE "REJECTED"
    /\ UNCHANGED <<smartFrame, saw, startSig, idleSig, scanDone, enabled, running, scanning,
                   present, owned, gap>>

\* ble_common_release
SmartDisowns ==
    /\ smart = "disown" /\ smart' = "exit" /\ owned' = FALSE
    /\ UNCHANGED <<smartFrame, saw, startSig, idleSig, scanDone, enabled, running, scanning,
                   present, gap, answer>>

SmartFinishes ==
    /\ smart = "exit" /\ smart' = "idling" /\ running' = FALSE /\ enabled' = FALSE
    /\ UNCHANGED <<smartFrame, saw, startSig, idleSig, scanDone, scanning, present, owned,
                   gap, answer>>

SmartIdles ==
    /\ smart = "idling" /\ smart' = "wait" /\ idleSig' = resources
    /\ UNCHANGED <<smartFrame, saw, startSig, scanDone, enabled, running, scanning, present,
                   owned, gap, answer>>

\* It clears its handle and then gives the idle signal.
SmartLeaves ==
    /\ smart = "leaving" /\ smart' = "left" /\ running' = FALSE /\ enabled' = FALSE
    /\ UNCHANGED <<smartFrame, saw, startSig, idleSig, scanDone, scanning, present, owned,
                   gap, answer>>

SmartGoneSilently ==
    /\ smart = "left" /\ smart' = "none"
    /\ UNCHANGED <<smartFrame, saw, startSig, idleSig, scanDone, enabled, running, scanning,
                   present, owned, gap, answer>>

SmartGone ==
    /\ smart = "left" /\ smart' = "none" /\ idleSig' = resources
    /\ UNCHANGED <<smartFrame, saw, startSig, scanDone, enabled, running, scanning, present,
                   owned, gap, answer>>

SmartStep ==
    \/ SmartWakes \/ SmartDecides \/ SmartResets \/ SmartBegins \/ SmartScans
    \/ SmartScanEnds \/ SmartTimesOut \/ SmartLooks \/ SmartSecondWait \/ SmartJudges
    \/ SmartDisowns \/ SmartFinishes \/ SmartIdles \/ SmartLeaves \/ SmartGone

-----------------------------------------------------------------------------
(* The NimBLE host task and ble_gap_identity_validation_event_handler.     *)

hostFrame == <<todo, smart, saw, startSig, idleSig, resources, initialized, stopping,
               enabled, running, shutdown, owned, ready, lost, answer>>

HostSyncs ==
    /\ stack = "starting" /\ stack' = "synced"
    /\ UNCHANGED <<hostFrame, scanDone, scanning, present, gap, callback>>

\* The phone of the owner is seen.  The first match cancels the discovery.
HostMatches ==
    /\ gap = "active" /\ callback = "none"
    /\ present' = TRUE /\ callback' = IF present THEN "none" ELSE "match"
    /\ UNCHANGED <<hostFrame, scanDone, scanning, stack, gap>>

\* ble_identity_validation_cancel_scan_early
HostCancels ==
    /\ callback = "match" /\ callback' = "none"
    /\ \/ gap # "idle" /\ DiscoveryCancelled /\ scanDone' = resources /\ UNCHANGED scanning
       \/ gap = "idle" /\ scanning' = FALSE /\ scanDone' = resources /\ UNCHANGED gap
    /\ UNCHANGED <<hostFrame, present, stack>>

\* The window of the discovery closes, or its cancellation is done.
HostEndsDiscovery ==
    /\ gap \in {"active", "cancelling"} /\ callback = "none"
    /\ gap' = "idle" /\ callback' = "complete"
    /\ UNCHANGED <<hostFrame, scanDone, scanning, present, stack>>

\* BLE_GAP_EVENT_DISC_COMPLETE
HostCompletes ==
    /\ callback = "complete" /\ callback' = "none"
    /\ scanning' = FALSE /\ scanDone' = resources
    /\ UNCHANGED <<hostFrame, present, stack, gap>>

HostStep == HostSyncs \/ HostCancels \/ HostEndsDiscovery \/ HostCompletes

BleNext ==
    \/ LosesWifi \/ FallsAsleep \/ Prepares \/ Releases \/ Validates
    \/ \E c \in Callers : CallerStep(c)
    \/ SmartStep \/ HostStep \/ HostMatches

BleSpec == BleInit /\ [][BleNext]_bleVars

\* Every task is scheduled; the controller ends a discovery window.
BleFairness ==
    /\ \A c \in Callers : WF_bleVars(CallerStep(c))
    /\ WF_bleVars(SmartStep) /\ WF_bleVars(HostStep)

FairBleSpec == BleSpec /\ BleFairness

-----------------------------------------------------------------------------
(* Properties.                                                             *)

\* Nobody deletes the semaphores under the smart task: while it lives, they
\* exist.  The idle signal of a pause must not pass for the one of its exit.
SignalsOutliveTask == smart # "none" => resources

\* The scanner is off when the verdict leaves, however the early exit, the end
\* of the window and a stop share the one completion signal: the stack may go
\* down and the radio may be used for audio.
ScannerIdleAtVerdict == smart = "disown" => gap = "idle"

\* A phone seen in the window of a request is never reported as absent, and
\* one that was not seen is never reported as present.
VerdictHonest ==
    [][smart = "judge" /\ smart' = "disown" => (saw <=> present)]_bleVars

\* A verdict answers a request: no wake-up meant to stop the task makes it scan.
AnsweredOnce ==
    [][answer' # answer /\ answer' \in {"PRESENT", "REJECTED", "BUSY"} => answer = "asked"]_bleVars

\* A request is dropped only while somebody stops the module.
DroppedOnlyByStop ==
    [][answer' = "dropped" /\ answer = "asked" => \E c \in Callers : todo[c] # <<>>]_bleVars

\* Every request that was accepted is answered or taken back.
RequestEnds == (answer = "asked") ~> (answer # "asked")

\* Stop, release and preparation end: no handshake with the smart task loses
\* its signal, so that a caller waits in vain only for a scan that runs.
OperationsEnd == \A c \in Callers : (todo[c] # <<>>) ~> (todo[c] = <<>>)
=============================================================================
