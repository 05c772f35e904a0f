---------------------------- MODULE Orchestrator ----------------------------
(***************************************************************************)
(* The startup orchestrator of the Dr. SimiBot firmware: one FreeRTOS task *)
(* that takes events from a bounded queue and drives the state machine of  *)
(* core/orchestrator_fsm.c, and the short-lived tasks and timers           *)
(* (core/orchestrator_tasks.c) that it starts and that post their result   *)
(* back to the same queue.                                                 *)
(*                                                                         *)
(* One action of the orchestrator handles one event: the handler, the      *)
(* entry actions of every state it enters and the events these post.  The  *)
(* other actions are single steps of the tasks, of the timers, of the BLE  *)
(* and WebRTC stacks and of the WiFi driver; they interleave freely.       *)
(*                                                                         *)
(* The LCD is left out, and with it the two events that only redraw it     *)
(* (IDLE_ALERT_START and IDLE_ALERT_END) and the arrival greeting.         *)
(* AUTO_SLEEPING is entered and left inside one handler and is never seen. *)
(***************************************************************************)
EXTENDS Naturals, Sequences, FiniteSets

CONSTANTS
    QueueDepth,    \* ORCHESTRATOR_QUEUE_DEPTH
    AlertIds,      \* identities of alerts: (timestamp_ms, corr_drop) pairs
    NoAlert,       \* the pair (0, 0.0f) left by reset_alert_context
    RadarPresent,  \* g_hardware_radar_present
    MaxArming,     \* bound on cooldown tasks between their check and the arming
    MaxScans,      \* bound on discovery scans that overlap
    MaxFlaps,      \* bound on the losses of WiFi
    Enabled,       \* the optional behaviours of the surroundings, see Optional
    PromptExit     \* a task that posted clears its handle before the next event

(* Behaviours of the surroundings that a configuration may switch on:      *)
(*   drop      a post to a full queue gives up                             *)
(*   create    the creation of a task or of a timer fails                  *)
(*   ble       a BLE operation fails                                       *)
(*   csi       the start of the CSI capture fails                          *)
(*   rtc       start_webrtc or the audio build-up fails                    *)
(*   silentnd  the discovery scan ends without posting                     *)
(*   mic       mute requests, by the user or after three idle minutes      *)
(*   fatal     the API rejects the key while a session opens               *)
(*   power     the supply is cut at any moment                             *)
(*   kill      the user holds the kill switch                              *)
(*   nvs       the op_mode key cannot be written or read                   *)
Optional == {"drop", "create", "ble", "csi", "rtc", "silentnd", "mic",
             "fatal", "power", "kill", "nvs"}

ASSUME ConstantsAssumption ==
    /\ QueueDepth \in Nat \ {0}
    /\ IsFiniteSet(AlertIds)
    /\ NoAlert \notin AlertIds
    /\ RadarPresent \in BOOLEAN
    /\ MaxArming \in Nat
    /\ MaxScans \in Nat \ {0}
    /\ MaxFlaps \in Nat
    /\ Enabled \subseteq Optional
    /\ PromptExit \in BOOLEAN

States == {"WAIT_WIFI", "SLEEP", "PREPARING_BLE", "VALIDATING_IDENTITY",
           "RELEASING_BLE", "NET_DISCOVERY_SCAN", "DISPATCHING_ALERT",
           "IGNITING", "ACTIVE", "STOPPING_WEBRTC",
           "TEARING_DOWN_UI_FOR_SCAN", "AUTO_ARM_BLE_SCANNING", "FATAL_ERROR"}

Events == {"WIFI_CONNECTED", "WIFI_DISCONNECTED", "MOTION_DETECTED",
           "BLE_READY", "BLE_BUSY", "IDENTITY_PRESENT", "IDENTITY_REJECTED",
           "BLE_RELEASE_COMPLETE", "BLE_RELEASE_FAILED", "WEBRTC_CONNECTED",
           "WEBRTC_DISCONNECTED", "WEBRTC_API_ERROR", "WEBRTC_STOPPED",
           "NETDISCOVERY_COMPLETE", "NETDISCOVERY_TIMEOUT",
           "AUTO_SLEEP_TIMEOUT", "ALERT_DISPATCH_COMPLETE",
           "ALERT_DISPATCH_FAILED", "MIC_MUTED", "MIC_UNMUTED", "RAM_FREED",
           "FATAL_ERROR"}

SessionModes == {"FRIENDLY", "VIGILANTE"}
BootModes    == {"DIRECTO", "CENTINELA"}

VARIABLES
    state,              \* orchestrator_state_t of the orchestrator task
    queue,              \* s_orchestrator_event_queue
    alertTs,            \* s_alert_timestamp_ms with s_alert_corr_drop
    alertPending,       \* s_alert_dispatch_pending
    alertHandle,        \* s_alert_dispatch_task_handle is not NULL
    pendingMode,        \* s_pending_webrtc_mode
    ignitionMode,       \* s_ignition_webrtc_mode
    activeMode,         \* s_active_webrtc_mode
    releaseToSleep,     \* s_ble_release_to_sleep
    teardownUiPending,  \* s_teardown_ui_pending
    muted,              \* s_is_muted
    idleTimer,          \* the 14 minute timer of mute_handler.c runs
    vigMute,            \* s_vigilante_mic_muted of media_sys.c
    bootMode,           \* g_boot_operation_mode
    nvsMode,            \* the op_mode key of the NVS partition
    radar,              \* the radar interrupt is armed (one shot)
    csi,                \* CSI capture is on
    cooldown,           \* the cooldown task of the current generation
    cooldownOpen,       \* s_sleep_motion_allowed_ms lies in the future
    arming,             \* cooldown tasks past their last generation check
    ble,                \* the NimBLE stack and the scanner module
    validation,         \* the identity scan of the smart BLE task
    prepTask,           \* orchestrator_ble_prepare_task
    relTask,            \* orchestrator_ble_release_task
    stopTask,           \* orchestrator_webrtc_stop_task
    alertTasks,         \* primary orchestrator_alert_dispatch_task instances
    rtc,                \* the WebRTC session
    ndScans,            \* one-shot discovery scans that have not ended
    ndTimer,            \* s_nd_timeout_timer runs
    ramTimer,           \* s_ram_guillotine_timer runs
    rebootTimer,        \* the fatal error timer runs
    killing,            \* the kill switch has written NVS and will restart
    wifi,               \* the station is associated
    flaps               \* losses of WiFi so far

alertVars   == <<alertTs, alertPending, alertHandle, pendingMode>>
modeVars    == <<ignitionMode, activeMode>>
muteVars    == <<muted, idleTimer, vigMute>>
bootVars    == <<bootMode, nvsMode>>
sensorVars  == <<radar, csi, cooldown, cooldownOpen, arming>>
bleVars     == <<ble, validation, prepTask, relTask>>
rtcVars     == <<rtc, stopTask>>
ndVars      == <<ndScans, ndTimer>>
timerVars   == <<ramTimer, rebootTimer, killing>>
wifiVars    == <<wifi, flaps>>

\* What the orchestrator task alone writes, besides its state and its queue.
ownVars == <<alertVars, modeVars, releaseToSleep, teardownUiPending, muteVars,
             bootVars>>

vars == <<state, queue, ownVars, sensorVars, bleVars, rtcVars, alertTasks,
          ndVars, timerVars, wifiVars>>

AlertRefs == AlertIds \cup {NoAlert}

\* orchestrator_event_msg_t: an event, and the alert that it reports on.
Messages == [type : Events, ts : AlertRefs]

QueueOK(q) == q \in Seq(Messages) /\ Len(q) <= QueueDepth

AlertTasks == [ts : AlertRefs, phase : {"sending", "posted"}]

CountersOK == arming \in 0..MaxArming /\ ndScans \in 0..MaxScans /\ flaps \in 0..MaxFlaps

FlagsOK ==
    /\ alertPending \in BOOLEAN /\ alertHandle \in BOOLEAN
    /\ releaseToSleep \in BOOLEAN /\ teardownUiPending \in BOOLEAN
    /\ muted \in BOOLEAN /\ idleTimer \in BOOLEAN /\ vigMute \in BOOLEAN
    /\ radar \in BOOLEAN /\ csi \in BOOLEAN /\ cooldownOpen \in BOOLEAN
    /\ ndTimer \in BOOLEAN /\ ramTimer \in BOOLEAN /\ rebootTimer \in BOOLEAN
    /\ killing \in BOOLEAN /\ wifi \in BOOLEAN

PhasesOK ==
    /\ state \in States
    /\ alertTs \in AlertRefs /\ alertTasks \subseteq AlertTasks
    /\ pendingMode \in SessionModes /\ ignitionMode \in SessionModes
    /\ activeMode \in SessionModes
    /\ bootMode \in BootModes /\ nvsMode \in BootModes
    /\ cooldown \in {"none", "quiet", "warm"}
    /\ ble \in {"off", "host", "ready"}
    /\ validation \in {"idle", "requested", "scanning"}
    /\ prepTask \in {"none", "preclean", "bringup", "check", "ready", "busy", "posted"}
    /\ relTask \in {"none", "running", "complete", "failed", "posted"}
    /\ stopTask \in {"none", "running", "stopped", "posted"}
    /\ rtc \in {"off", "opening", "live", "lost"}

\* The variables range over the types of the C code, and every bound is kept.
TypeOK == QueueOK(queue) /\ CountersOK /\ FlagsOK /\ PhasesOK

-----------------------------------------------------------------------------
(* What may fail, and the op_mode key of the NVS partition.                *)

\* Whether the optional failure f may happen.
MayFail(f) == f \in Enabled

\* What an attempt that f may spoil can leave.
Attempt(f, success, failure) ==
    {success} \cup (IF MayFail(f) THEN {failure} ELSE {})

\* nvs_set_operation_mode: what the key may hold afterwards.  The function
\* returns nothing, so no caller learns of a failure.
Written(m) == Attempt("nvs", m, nvsMode)

\* nvs_get_operation_mode where the key holds m: a failed read is DIRECTO.
ModeRead(m) == Attempt("nvs", m, "DIRECTO")

-----------------------------------------------------------------------------
(* Power-up.  app_main reads the boot mode before it creates the task.     *)

InitWith(m) ==
    /\ state = "WAIT_WIFI" /\ queue = <<>>
    /\ alertTs = NoAlert /\ alertPending = FALSE /\ alertHandle = FALSE
    /\ pendingMode = "FRIENDLY" /\ ignitionMode = "FRIENDLY"
    /\ activeMode = "FRIENDLY"
    /\ releaseToSleep = FALSE /\ teardownUiPending = FALSE
    /\ muted = FALSE /\ idleTimer = FALSE /\ vigMute = FALSE
    /\ nvsMode = m /\ bootMode \in ModeRead(m)
    /\ radar = FALSE /\ csi = FALSE
    /\ cooldown = "none" /\ cooldownOpen = FALSE /\ arming = 0
    /\ ble = "off" /\ validation = "idle"
    /\ prepTask = "none" /\ relTask = "none" /\ stopTask = "none"
    /\ alertTasks = {} /\ rtc = "off"
    /\ ndScans = 0 /\ ndTimer = FALSE
    /\ ramTimer = FALSE /\ rebootTimer = FALSE /\ killing = FALSE
    /\ wifi = FALSE /\ flaps = 0

\* A fresh flash has no op_mode key, which reads as DIRECTO.
Init == \E m \in BootModes : InitWith(m)

\* esp_restart or a power cycle: only the NVS partition survives.
Reboot(m) ==
    /\ state' = "WAIT_WIFI" /\ queue' = <<>>
    /\ alertTs' = NoAlert /\ alertPending' = FALSE /\ alertHandle' = FALSE
    /\ pendingMode' = "FRIENDLY" /\ ignitionMode' = "FRIENDLY"
    /\ activeMode' = "FRIENDLY"
    /\ releaseToSleep' = FALSE /\ teardownUiPending' = FALSE
    /\ muted' = FALSE /\ idleTimer' = FALSE /\ vigMute' = FALSE
    /\ nvsMode' = m /\ bootMode' \in ModeRead(m)
    /\ radar' = FALSE /\ csi' = FALSE
    /\ cooldown' = "none" /\ cooldownOpen' = FALSE /\ arming' = 0
    /\ ble' = "off" /\ validation' = "idle"
    /\ prepTask' = "none" /\ relTask' = "none" /\ stopTask' = "none"
    /\ alertTasks' = {} /\ rtc' = "off"
    /\ ndScans' = 0 /\ ndTimer' = FALSE
    /\ ramTimer' = FALSE /\ rebootTimer' = FALSE /\ killing' = FALSE
    /\ wifi' = FALSE /\ UNCHANGED flaps

-----------------------------------------------------------------------------
(* The event queue.                                                        *)

Event(e) == [type |-> e, ts |-> NoAlert]

PostsUnbounded(q, ev) == {Append(q, ev)}

\* The queues a post by a task, a timer or an interrupt may leave: a full
\* queue makes the poster wait, or give up after its timeout.
Posts(q, ev) ==
    IF Len(q) < QueueDepth THEN {Append(q, ev)}
    ELSE IF "drop" \in Enabled THEN {q} ELSE {}

\* The same for a post made while the orchestrator runs a handler: nobody
\* else takes events, so a queue that others fill meanwhile drops the event.
SelfPosts(q, ev) ==
    (IF Len(q) < QueueDepth THEN {Append(q, ev)} ELSE {q})
        \cup (IF "drop" \in Enabled THEN {q} ELSE {})

\* The orchestrator takes an event of type e from the head of the queue.
Arrives(e) ==
    /\ queue # <<>>
    /\ Head(queue).type = e
    /\ PromptExit =>
         /\ "posted" \notin {prepTask, relTask, stopTask}
         /\ \A t \in alertTasks : t.phase # "posted"

-----------------------------------------------------------------------------
(* The BLE stack, as the orchestrator and its tasks drive it.  "host" is   *)
(* NimBLE without an idle scanner that holds the central role, "ready" has *)
(* one.  The smart BLE task runs one identity scan on request.             *)

\* The queues an aborted scan may leave: a scan that runs posts the verdict
\* it has, a request not yet picked up dies without a word.
ScanAborts(q) ==
    IF validation = "scanning"
    THEN UNION {Posts(q, Event(v)) : v \in {"IDENTITY_PRESENT", "IDENTITY_REJECTED"}}
    ELSE {q}

\* The same while the orchestrator itself waits for the scan to end.
ScanAbortsSelf(q) ==
    IF validation = "scanning"
    THEN UNION {SelfPosts(q, Event(v)) : v \in {"IDENTITY_PRESENT", "IDENTITY_REJECTED"}}
    ELSE {q}

\* ble_device_control_stop
BleAfterStop == IF ble = "ready" THEN "host" ELSE ble

BleAfterReleaseHostStays(ok) == IF ok THEN "host" ELSE BleAfterStop

\* ble_device_full_release with result ok.
BleAfterRelease(ok) == IF ok THEN "off" ELSE BleAfterStop

-----------------------------------------------------------------------------
(* orchestrator_enter_state.  Every Enter operator takes the queue without *)
(* the event being handled and says what becomes of state, queue and all   *)
(* devices and tasks; of ownVars it sets what its comment names and leaves *)
(* the rest to the handler.                                                *)

SensorsOff ==
    /\ radar' = FALSE /\ csi' = FALSE
    /\ cooldown' = "none" /\ cooldownOpen' = FALSE   \* the generation moves on
    /\ UNCHANGED arming

ResetAlertContextKeepsTs ==
    /\ alertTs' = alertTs /\ alertPending' = FALSE /\ alertHandle' = FALSE
    /\ pendingMode' = "FRIENDLY"

\* reset_alert_context
ResetAlertContext ==
    /\ alertTs' = NoAlert /\ alertPending' = FALSE /\ alertHandle' = FALSE
    /\ pendingMode' = "FRIENDLY"

ResetVigilanteContextKeepsActive ==
    activeMode' = activeMode /\ ignitionMode' = "FRIENDLY"

\* reset_vigilante_runtime_context
ResetVigilanteContext == activeMode' = "FRIENDLY" /\ ignitionMode' = "FRIENDLY"

SetVigilanteMuteLatches(m) == vigMute' = (vigMute \/ m)

\* media_sys_set_vigilante_mute
SetVigilanteMute(m) == vigMute' = m

SetOperationModeNvsOnly(m) == nvsMode' \in Written(m) /\ UNCHANGED bootMode

\* nvs_set_operation_mode, then the copy of the mode in RAM, whether or not
\* the key was written.
SetOperationMode(m) == nvsMode' \in Written(m) /\ bootMode' = m

\* orchestrator_start_ble_prepare
StartBlePrepare(q) ==
    \/ /\ prepTask' = IF prepTask = "none" THEN "preclean" ELSE prepTask
       /\ queue' = q
    \/ /\ prepTask = "none" /\ MayFail("create")
       /\ UNCHANGED prepTask /\ queue' \in SelfPosts(q, Event("BLE_BUSY"))

\* orchestrator_start_identity_validation
StartIdentityValidation(q) ==
    IF ble = "ready" /\ validation = "idle"
    THEN validation' = "requested" /\ queue' = q
    ELSE validation' = validation /\ queue' \in SelfPosts(q, Event("BLE_BUSY"))

\* Sets alertVars, modeVars, releaseToSleep and muted.
EnterWaitWifi(q) ==
    /\ state' = "WAIT_WIFI"
    /\ SensorsOff /\ ResetAlertContext /\ ResetVigilanteContext
    /\ releaseToSleep' = FALSE /\ muted' = FALSE
    /\ rtc' = "off"                                     \* stop_webrtc
    /\ queue' \in ScanAbortsSelf(q)                     \* ble_device_control_stop
    /\ validation' = "idle" /\ ble' = BleAfterStop
    /\ UNCHANGED <<prepTask, relTask, stopTask, alertTasks, ndVars, timerVars, wifiVars>>

\* Sets everything: a session in Vigilante mode ends in a restart.
EnterSleep(q) ==
    IF activeMode = "VIGILANTE" THEN \E n \in Written("CENTINELA") : Reboot(n)
    ELSE
    /\ state' = "SLEEP"
    /\ ResetAlertContext /\ ResetVigilanteContext
    /\ releaseToSleep' = FALSE /\ muted' = FALSE /\ SetVigilanteMute(FALSE)
    /\ radar' = FALSE /\ csi' = FALSE /\ UNCHANGED arming
    /\ cooldown' \in Attempt("create", "quiet", "none")  \* schedule_sleep_csi_start
    /\ cooldownOpen' = TRUE
    /\ ble' \in Attempt("ble", BleAfterRelease(TRUE), BleAfterRelease(FALSE))
    /\ queue' \in ScanAbortsSelf(q) /\ validation' = "idle"
    /\ UNCHANGED <<teardownUiPending, idleTimer, bootVars, prepTask, relTask,
                   rtcVars, alertTasks, ndVars, timerVars, wifiVars>>

\* Leaves ownVars to the handler.
EnterPreparingBle(q) ==
    /\ state' = "PREPARING_BLE" /\ SensorsOff
    /\ StartBlePrepare(q)
    /\ UNCHANGED <<ble, validation, relTask, rtcVars, alertTasks, ndVars,
                   timerVars, wifiVars>>

\* Leaves ownVars to the handler.
EnterValidatingIdentity(q) ==
    /\ state' = "VALIDATING_IDENTITY" /\ SensorsOff
    /\ StartIdentityValidation(q)
    /\ UNCHANGED <<ble, prepTask, relTask, rtcVars, alertTasks, ndVars,
                   timerVars, wifiVars>>

\* Leaves ownVars to the handler.
EnterReleasingBle(q) ==
    /\ state' = "RELEASING_BLE" /\ SensorsOff
    /\ \/ /\ relTask' = IF relTask = "none" THEN "running" ELSE relTask
          /\ queue' = q
       \/ /\ relTask = "none" /\ MayFail("create")
          /\ UNCHANGED relTask /\ queue' \in SelfPosts(q, Event("BLE_RELEASE_FAILED"))
    /\ UNCHANGED <<ble, validation, prepTask, rtcVars, alertTasks, ndVars,
                   timerVars, wifiVars>>

\* Leaves ownVars to the handler.  Without a scan task no timer is armed, and
\* the timer itself may be missing.
EnterNetDiscoveryScan(q) ==
    /\ state' = "NET_DISCOVERY_SCAN" /\ SensorsOff /\ queue' = q
    /\ \/ /\ ndScans' = IF ndScans < MaxScans THEN ndScans + 1 ELSE ndScans
          /\ ndTimer' \in Attempt("create", TRUE, ndTimer)
       \/ MayFail("create") /\ UNCHANGED ndVars
    /\ UNCHANGED <<bleVars, rtcVars, alertTasks, timerVars, wifiVars>>

\* The alert is pending here; sets alertHandle, leaves the rest of ownVars.
EnterDispatchingAlert(q) ==
    /\ state' = "DISPATCHING_ALERT" /\ SensorsOff
    /\ \/ /\ ~alertHandle /\ alertHandle' = TRUE /\ queue' = q
          /\ alertTasks' = alertTasks \cup {[ts |-> alertTs, phase |-> "sending"]}
       \/ /\ alertHandle \/ MayFail("create")
          /\ queue' \in SelfPosts(q, [type |-> "ALERT_DISPATCH_FAILED", ts |-> alertTs])
          /\ UNCHANGED <<alertTasks, alertHandle>>
    /\ UNCHANGED <<bleVars, rtcVars, ndVars, timerVars, wifiVars>>

\* Sets modeVars, muted and idleTimer, leaves ndVars to the handler.  The mode
\* is kept for a later ignition when the audio runtime is not ready.
EnterIgniting(q, mode) ==
    /\ state' = "IGNITING" /\ SensorsOff
    /\ muted' = FALSE /\ idleTimer' = FALSE /\ activeMode' = mode
    /\ \/ /\ MayFail("rtc")
          /\ queue' \in SelfPosts(q, Event("WEBRTC_DISCONNECTED"))
          /\ ignitionMode' = mode /\ UNCHANGED rtc
       \/ /\ MayFail("rtc") \/ ~wifi
          /\ \E e \in {"WEBRTC_API_ERROR", "WEBRTC_DISCONNECTED"} :
               queue' \in SelfPosts(q, Event(e))
          /\ ignitionMode' = "FRIENDLY"
          /\ rtc' \in IF wifi THEN {rtc, "off"} ELSE {rtc}
       \/ /\ wifi
          /\ queue' = q /\ ignitionMode' = "FRIENDLY" /\ rtc' = "opening"
    /\ UNCHANGED <<bleVars, stopTask, alertTasks, timerVars, wifiVars>>

\* Leaves ownVars to the handler.
EnterActive(q) ==
    /\ state' = "ACTIVE" /\ queue' = q
    /\ cooldown' = "none" /\ cooldownOpen' = FALSE /\ UNCHANGED arming
    /\ IF activeMode = "VIGILANTE"
       THEN /\ UNCHANGED radar
            /\ csi' \in Attempt("csi", TRUE, csi)
       ELSE radar' = FALSE /\ csi' = FALSE
    /\ UNCHANGED <<bleVars, rtcVars, alertTasks, ndVars, timerVars, wifiVars>>

\* AUTO_SLEEPING and then STOPPING_WEBRTC.  Sets vigMute.
EnterStoppingWebrtc(q) ==
    /\ state' = "STOPPING_WEBRTC" /\ SensorsOff /\ SetVigilanteMute(FALSE)
    /\ \/ /\ stopTask' = IF stopTask = "none" THEN "running" ELSE stopTask
          /\ queue' = q
       \/ /\ stopTask = "none" /\ MayFail("create")
          /\ UNCHANGED stopTask /\ queue' \in SelfPosts(q, Event("WEBRTC_STOPPED"))
    /\ UNCHANGED <<bleVars, rtc, alertTasks, ndVars, timerVars, wifiVars>>

\* Leaves ownVars to the handler.
EnterTearingDownUi(q) ==
    /\ state' = "TEARING_DOWN_UI_FOR_SCAN" /\ queue' = q
    /\ radar' = FALSE /\ csi' = FALSE /\ UNCHANGED <<cooldown, cooldownOpen, arming>>
    /\ ramTimer' \in Attempt("create", TRUE, FALSE)
    /\ UNCHANGED <<bleVars, rtcVars, alertTasks, ndVars, rebootTimer, killing, wifiVars>>

\* Leaves ownVars to the handler.
EnterAutoArm(q) ==
    /\ state' = "AUTO_ARM_BLE_SCANNING" /\ StartBlePrepare(q)
    /\ UNCHANGED <<sensorVars, ble, validation, relTask, rtcVars, alertTasks,
                   ndVars, timerVars, wifiVars>>

-----------------------------------------------------------------------------
(* The event handlers of app_startup_orchestrator_task.                    *)

WifiStatesNoIgniting == States \ {"WAIT_WIFI", "TEARING_DOWN_UI_FOR_SCAN",
                                  "AUTO_ARM_BLE_SCANNING", "FATAL_ERROR", "IGNITING"}

\* The states in which the loss of WiFi leads back to WAIT_WIFI.
WifiStates == States \ {"WAIT_WIFI", "TEARING_DOWN_UI_FOR_SCAN",
                        "AUTO_ARM_BLE_SCANNING", "FATAL_ERROR"}

OnWifiDisconnected ==
    /\ state \in WifiStates /\ Arrives("WIFI_DISCONNECTED")
    /\ EnterWaitWifi(Tail(queue))
    /\ UNCHANGED <<teardownUiPending, idleTimer, vigMute, bootVars>>

OnWifiConnected ==
    /\ state = "WAIT_WIFI" /\ Arrives("WIFI_CONNECTED")
    /\ \/ /\ bootMode = "DIRECTO"
          /\ EnterPreparingBle(Tail(queue)) /\ UNCHANGED ownVars
       \/ /\ bootMode = "CENTINELA"
          /\ EnterSleep(Tail(queue))

\* The alerts some part of the system still refers to.
AlertsInUse == {alertTs} \cup {t.ts : t \in alertTasks}
                 \cup {queue[i].ts : i \in 1..Len(queue)}

\* Times differ: a new alert has an identity nothing else refers to.  AlertIds
\* bounds how many are alive at once.
FreshAlert == CHOOSE a \in AlertIds : a \notin AlertsInUse
CanAlert   == \E a \in AlertIds : a \notin AlertsInUse

OnMotionInSleep ==
    /\ state = "SLEEP" /\ Arrives("MOTION_DETECTED")
    /\ ~cooldownOpen /\ CanAlert
    /\ alertTs' = FreshAlert /\ alertPending' = FALSE /\ pendingMode' = "FRIENDLY"
    /\ releaseToSleep' = FALSE
    /\ EnterPreparingBle(Tail(queue))
    /\ UNCHANGED <<alertHandle, modeVars, teardownUiPending, muteVars, bootVars>>

OnBleReady ==
    /\ state = "PREPARING_BLE" /\ Arrives("BLE_READY")
    /\ EnterValidatingIdentity(Tail(queue))
    /\ UNCHANGED ownVars

OnBleBusyPreparing ==
    /\ state = "PREPARING_BLE" /\ Arrives("BLE_BUSY")
    /\ EnterSleep(Tail(queue))

OnIdentityPresent ==
    /\ state = "VALIDATING_IDENTITY" /\ Arrives("IDENTITY_PRESENT")
    /\ IF bootMode = "CENTINELA" THEN SetOperationMode("DIRECTO")
                                 ELSE UNCHANGED bootVars
    /\ SetVigilanteMute(FALSE) /\ alertPending' = FALSE
    /\ pendingMode' = "FRIENDLY" /\ ignitionMode' = "FRIENDLY"
    /\ releaseToSleep' = FALSE
    /\ EnterReleasingBle(Tail(queue))
    /\ UNCHANGED <<alertTs, alertHandle, activeMode, teardownUiPending, muted, idleTimer>>

OnIdentityRejected ==
    /\ state = "VALIDATING_IDENTITY" /\ Arrives("IDENTITY_REJECTED")
    /\ IF alertTs = NoAlert THEN CanAlert /\ alertTs' = FreshAlert
                            ELSE UNCHANGED alertTs
    /\ alertPending' = TRUE /\ pendingMode' = "VIGILANTE"
    /\ releaseToSleep' = FALSE /\ SetVigilanteMute(TRUE)
    /\ EnterReleasingBle(Tail(queue))
    /\ UNCHANGED <<alertHandle, modeVars, teardownUiPending, muted, idleTimer, bootVars>>

OnBleBusyValidating ==
    /\ state = "VALIDATING_IDENTITY" /\ Arrives("BLE_BUSY")
    /\ ResetAlertContext /\ releaseToSleep' = TRUE
    /\ EnterReleasingBle(Tail(queue))
    /\ UNCHANGED <<modeVars, teardownUiPending, muteVars, bootVars>>

OnBleReleaseCompleteNoDispatch ==
    /\ state = "RELEASING_BLE" /\ Arrives("BLE_RELEASE_COMPLETE")
    /\ \/ /\ releaseToSleep
          /\ EnterSleep(Tail(queue))
       \/ /\ ~releaseToSleep
          /\ ignitionMode' = pendingMode
          /\ EnterNetDiscoveryScan(Tail(queue))
          /\ UNCHANGED <<alertVars, activeMode, releaseToSleep, teardownUiPending,
                         muteVars, bootVars>>

OnBleReleaseComplete ==
    /\ state = "RELEASING_BLE" /\ Arrives("BLE_RELEASE_COMPLETE")
    /\ \/ /\ releaseToSleep
          /\ EnterSleep(Tail(queue))
       \/ /\ ~releaseToSleep /\ alertPending
          /\ EnterDispatchingAlert(Tail(queue))
          /\ UNCHANGED <<alertTs, alertPending, pendingMode, modeVars, releaseToSleep,
                         teardownUiPending, muteVars, bootVars>>
       \/ /\ ~releaseToSleep /\ ~alertPending
          /\ ignitionMode' = pendingMode
          /\ EnterNetDiscoveryScan(Tail(queue))
          /\ UNCHANGED <<alertVars, activeMode, releaseToSleep, teardownUiPending,
                         muteVars, bootVars>>

OnBleReleaseFailed ==
    /\ state = "RELEASING_BLE" /\ Arrives("BLE_RELEASE_FAILED")
    /\ EnterSleep(Tail(queue))

\* A completed scan also stops the timer.
OnNetDiscoveryEnds ==
    /\ state = "NET_DISCOVERY_SCAN"
    /\ \/ Arrives("NETDISCOVERY_COMPLETE") /\ ndTimer' = FALSE
       \/ Arrives("NETDISCOVERY_TIMEOUT") /\ UNCHANGED ndTimer
    /\ EnterIgniting(Tail(queue), ignitionMode)
    /\ UNCHANGED <<alertVars, releaseToSleep, teardownUiPending, vigMute, bootVars,
                   ndScans>>

\* orchestrator_alert_result_matches
AlertResultMatches(ev) == ev.ts = alertTs

AlertResults == {"ALERT_DISPATCH_COMPLETE", "ALERT_DISPATCH_FAILED"}

OnAlertResult ==
    /\ state = "DISPATCHING_ALERT" /\ \E e \in AlertResults : Arrives(e)
    /\ AlertResultMatches(Head(queue))
    /\ ResetAlertContext
    /\ EnterIgniting(Tail(queue), pendingMode)
    /\ UNCHANGED <<releaseToSleep, teardownUiPending, vigMute, bootVars, ndVars>>

OnWebrtcConnected ==
    /\ state = "IGNITING" /\ Arrives("WEBRTC_CONNECTED")
    /\ EnterActive(Tail(queue))
    /\ UNCHANGED ownVars

OnWebrtcDropped ==
    /\ state \in {"IGNITING", "ACTIVE"}
    /\ \E e \in {"WEBRTC_DISCONNECTED", "WEBRTC_API_ERROR"} : Arrives(e)
    /\ EnterStoppingWebrtc(Tail(queue))
    /\ UNCHANGED <<alertVars, modeVars, releaseToSleep, teardownUiPending, muted,
                   idleTimer, bootVars>>

\* The microphone follows the request, and so does the idle timer.
SetMute(m) ==
    /\ muted' = m /\ idleTimer' = m
    /\ UNCHANGED <<state, alertVars, modeVars, releaseToSleep, teardownUiPending,
                   vigMute, bootVars, sensorVars, bleVars, rtcVars, alertTasks,
                   ndVars, timerVars, wifiVars>>

OnMicRequest ==
    /\ state = "ACTIVE"
    /\ \/ Arrives("MIC_MUTED") /\ SetMute(TRUE)
       \/ Arrives("MIC_UNMUTED") /\ SetMute(FALSE)
    /\ queue' = Tail(queue)

\* Three quiet minutes mute a friendly session.
IdleAutoMute ==
    /\ state = "ACTIVE" /\ queue = <<>> /\ activeMode = "FRIENDLY" /\ ~muted
    /\ "mic" \in Enabled
    /\ SetMute(TRUE) /\ UNCHANGED queue

OnAutoSleepTimeoutAnyMode ==
    /\ state = "ACTIVE" /\ Arrives("AUTO_SLEEP_TIMEOUT")
    /\ teardownUiPending' = TRUE
    /\ EnterStoppingWebrtc(Tail(queue))
    /\ UNCHANGED <<alertVars, modeVars, releaseToSleep, muted, idleTimer, bootVars>>

OnAutoSleepTimeout ==
    /\ state = "ACTIVE" /\ activeMode = "FRIENDLY" /\ Arrives("AUTO_SLEEP_TIMEOUT")
    /\ teardownUiPending' = TRUE
    /\ EnterStoppingWebrtc(Tail(queue))
    /\ UNCHANGED <<alertVars, modeVars, releaseToSleep, muted, idleTimer, bootVars>>

\* orchestrator_poll_vigilante_monitor reports a timeout or an empty room.
VigilanteEnds ==
    /\ state = "ACTIVE" /\ queue = <<>> /\ activeMode = "VIGILANTE"
    /\ ResetAlertContext
    /\ EnterStoppingWebrtc(queue)
    /\ UNCHANGED <<modeVars, releaseToSleep, teardownUiPending, muted, idleTimer, bootVars>>

OnWebrtcStopped ==
    /\ state = "STOPPING_WEBRTC" /\ Arrives("WEBRTC_STOPPED")
    /\ \/ /\ teardownUiPending
          /\ teardownUiPending' = FALSE
          /\ EnterTearingDownUi(Tail(queue))
          /\ UNCHANGED <<alertVars, modeVars, releaseToSleep, muteVars, bootVars>>
       \/ /\ ~teardownUiPending
          /\ EnterSleep(Tail(queue))

OnRamFreed ==
    /\ state = "TEARING_DOWN_UI_FOR_SCAN" /\ Arrives("RAM_FREED")
    /\ EnterAutoArm(Tail(queue))
    /\ UNCHANGED ownVars

\* The headless identity scan that decides the next boot.
OnBleReadyAutoArm ==
    /\ state = "AUTO_ARM_BLE_SCANNING" /\ Arrives("BLE_READY")
    /\ StartIdentityValidation(Tail(queue))
    /\ UNCHANGED <<state, ownVars, sensorVars, ble, prepTask, relTask, rtcVars,
                   alertTasks, ndVars, timerVars, wifiVars>>

\* The restart follows the write of the verdict by 200 ms, in which the kill
\* switch may still write.
OnAutoArmVerdict ==
    /\ state = "AUTO_ARM_BLE_SCANNING"
    /\ \/ Arrives("IDENTITY_PRESENT")
          /\ \/ \E n \in Written("DIRECTO") : Reboot(n)
             \/ "kill" \in Enabled /\ ~killing /\ Reboot("CENTINELA")
       \/ /\ Arrives("IDENTITY_REJECTED") \/ Arrives("BLE_BUSY")
          /\ \E n \in Written("CENTINELA") : Reboot(n)

\* The intercept that every state has, and the teardown it leads to.  The
\* media system goes down; the WebRTC session itself is not closed.
OnFatalError ==
    /\ Arrives("FATAL_ERROR")
    /\ state' = "FATAL_ERROR" /\ queue' = Tail(queue)
    /\ radar' = FALSE /\ csi' = FALSE /\ UNCHANGED <<cooldown, cooldownOpen, arming>>
    /\ rebootTimer' \in Attempt("create", TRUE, rebootTimer)
    /\ UNCHANGED <<ownVars, bleVars, rtcVars, alertTasks, ndVars, ramTimer, killing,
                   wifiVars>>

\* What a state reacts to.  Everything else is dropped, and so is motion while
\* the cooldown lasts, a timeout of a Vigilante session, and the result of an
\* alert other than the pending one.
Handled(s) ==
    (IF s \in WifiStates THEN {"WIFI_DISCONNECTED"} ELSE {}) \cup {"FATAL_ERROR"} \cup
    CASE s = "WAIT_WIFI"           -> {"WIFI_CONNECTED"}
      [] s = "SLEEP"               -> IF cooldownOpen THEN {} ELSE {"MOTION_DETECTED"}
      [] s = "PREPARING_BLE"       -> {"BLE_READY", "BLE_BUSY"}
      [] s = "VALIDATING_IDENTITY" -> {"IDENTITY_PRESENT", "IDENTITY_REJECTED", "BLE_BUSY"}
      [] s = "RELEASING_BLE"       -> {"BLE_RELEASE_COMPLETE", "BLE_RELEASE_FAILED"}
      [] s = "NET_DISCOVERY_SCAN"  -> {"NETDISCOVERY_COMPLETE", "NETDISCOVERY_TIMEOUT"}
      [] s = "DISPATCHING_ALERT"   -> AlertResults
      [] s = "IGNITING"            -> {"WEBRTC_CONNECTED", "WEBRTC_DISCONNECTED", "WEBRTC_API_ERROR"}
      [] s = "ACTIVE"              -> {"WEBRTC_DISCONNECTED", "WEBRTC_API_ERROR", "MIC_MUTED", "MIC_UNMUTED"}
                                        \cup IF activeMode = "FRIENDLY" THEN {"AUTO_SLEEP_TIMEOUT"} ELSE {}
      [] s = "STOPPING_WEBRTC"     -> {"WEBRTC_STOPPED"}
      [] s = "TEARING_DOWN_UI_FOR_SCAN" -> {"RAM_FREED"}
      [] s = "AUTO_ARM_BLE_SCANNING" -> {"BLE_READY", "BLE_BUSY", "IDENTITY_PRESENT", "IDENTITY_REJECTED"}
      [] OTHER                     -> {}

\* orchestrator_ignore_event
IgnoreEvent ==
    /\ queue # <<>> /\ Arrives(Head(queue).type)
    /\ \/ Head(queue).type \notin Handled(state)
       \/ Head(queue).type \in AlertResults /\ ~AlertResultMatches(Head(queue))
    /\ queue' = Tail(queue)
    /\ UNCHANGED <<state, ownVars, sensorVars, bleVars, rtcVars, alertTasks,
                   ndVars, timerVars, wifiVars>>

OrchestratorStep ==
    \/ OnWifiDisconnected \/ OnWifiConnected \/ OnMotionInSleep
    \/ OnBleReady \/ OnBleBusyPreparing
    \/ OnIdentityPresent \/ OnIdentityRejected \/ OnBleBusyValidating
    \/ OnBleReleaseComplete \/ OnBleReleaseFailed
    \/ OnNetDiscoveryEnds \/ OnAlertResult
    \/ OnWebrtcConnected \/ OnWebrtcDropped
    \/ OnMicRequest \/ OnAutoSleepTimeout
    \/ OnWebrtcStopped \/ OnRamFreed \/ OnBleReadyAutoArm \/ OnAutoArmVerdict
    \/ OnFatalError \/ IgnoreEvent

-----------------------------------------------------------------------------
(* The short-lived tasks.  A task posts its result, then clears its handle *)
(* and ends; until then a second start is refused.                         *)

\* What the steps of the tasks never touch.
taskFrame == <<state, ownVars, alertTasks, ndVars, timerVars, wifiVars>>

\* orchestrator_ble_prepare_task: release whatever is left, then boot the host
\* and the scanner, then check that the scanner is idle.
PrepPreclean ==
    /\ prepTask = "preclean"
    /\ queue' \in ScanAborts(queue) /\ validation' = "idle"
    /\ \/ ble' = BleAfterRelease(TRUE) /\ prepTask' = "bringup"
       \/ MayFail("ble") /\ ble' = BleAfterRelease(FALSE) /\ prepTask' = "busy"
    /\ UNCHANGED <<taskFrame, sensorVars, relTask, rtcVars>>

PrepBringUp ==
    /\ prepTask = "bringup"
    /\ \/ prepTask' = "check" /\ ble' = "ready" /\ UNCHANGED <<validation, queue>>
       \/ /\ MayFail("ble")
          /\ prepTask' = "busy" /\ ble' \in {"off", BleAfterStop}
          /\ queue' \in ScanAborts(queue) /\ validation' = "idle"
    /\ UNCHANGED <<taskFrame, sensorVars, relTask, rtcVars>>

PrepCheck ==
    /\ prepTask = "check"
    /\ \/ /\ ble = "ready" /\ validation = "idle"
          /\ prepTask' = "ready" /\ UNCHANGED <<ble, validation, queue>>
       \/ /\ ble # "ready" \/ validation # "idle" \/ MayFail("ble")
          /\ prepTask' = "busy"
          /\ ble' \in Attempt("ble", BleAfterRelease(TRUE), BleAfterRelease(FALSE))
          /\ queue' \in ScanAborts(queue) /\ validation' = "idle"
    /\ UNCHANGED <<taskFrame, sensorVars, relTask, rtcVars>>

PrepPostsReadyOnly ==
    /\ prepTask = "ready" /\ queue' \in Posts(queue, Event("BLE_READY"))
    /\ prepTask' = "posted"
    /\ UNCHANGED <<taskFrame, sensorVars, ble, validation, relTask, rtcVars>>

PrepPosts ==
    /\ \/ prepTask = "ready" /\ queue' \in Posts(queue, Event("BLE_READY"))
       \/ prepTask = "busy"  /\ queue' \in Posts(queue, Event("BLE_BUSY"))
    /\ prepTask' = "posted"
    /\ UNCHANGED <<taskFrame, sensorVars, ble, validation, relTask, rtcVars>>

PrepEnds ==
    /\ prepTask = "posted" /\ prepTask' = "none"
    /\ UNCHANGED <<taskFrame, queue, sensorVars, ble, validation, relTask, rtcVars>>

\* orchestrator_ble_release_task
RelReleases ==
    /\ relTask = "running"
    /\ queue' \in ScanAborts(queue) /\ validation' = "idle"
    /\ \/ ble' = BleAfterRelease(TRUE) /\ relTask' = "complete"
       \/ MayFail("ble") /\ ble' = BleAfterRelease(FALSE) /\ relTask' = "failed"
    /\ UNCHANGED <<taskFrame, sensorVars, prepTask, rtcVars>>

RelPosts ==
    /\ \/ relTask = "complete" /\ queue' \in Posts(queue, Event("BLE_RELEASE_COMPLETE"))
       \/ relTask = "failed" /\ queue' \in Posts(queue, Event("BLE_RELEASE_FAILED"))
    /\ relTask' = "posted"
    /\ UNCHANGED <<taskFrame, sensorVars, ble, validation, prepTask, rtcVars>>

RelEnds ==
    /\ relTask = "posted" /\ relTask' = "none"
    /\ UNCHANGED <<taskFrame, queue, sensorVars, ble, validation, prepTask, rtcVars>>

\* orchestrator_webrtc_stop_task; stop_webrtc tears the media down as well.
StopCloses ==
    /\ stopTask = "running" /\ stopTask' = "stopped" /\ rtc' = "off"
    /\ UNCHANGED <<taskFrame, queue, sensorVars, bleVars>>

StopPosts ==
    /\ stopTask = "stopped" /\ stopTask' = "posted"
    /\ queue' \in Posts(queue, Event("WEBRTC_STOPPED"))
    /\ UNCHANGED <<taskFrame, sensorVars, bleVars, rtc>>

StopEnds ==
    /\ stopTask = "posted" /\ stopTask' = "none"
    /\ UNCHANGED <<taskFrame, queue, sensorVars, bleVars, rtc>>

\* orchestrator_alert_dispatch_task, the primary alert: the handle it clears
\* may by then belong to a later task.
AlertPosts(t) ==
    /\ t.phase = "sending"
    /\ \E e \in AlertResults : queue' \in Posts(queue, [type |-> e, ts |-> t.ts])
    /\ alertTasks' = (alertTasks \ {t}) \cup {[t EXCEPT !.phase = "posted"]}
    /\ UNCHANGED <<state, ownVars, sensorVars, bleVars, rtcVars, ndVars, timerVars,
                   wifiVars>>

AlertEndsKeepsHandle(t) ==
    /\ t.phase = "posted" /\ alertTasks' = alertTasks \ {t}
    /\ UNCHANGED <<state, queue, ownVars, sensorVars, bleVars, rtcVars, ndVars,
                   timerVars, wifiVars>>

AlertEnds(t) ==
    /\ t.phase = "posted" /\ alertHandle' = FALSE
    /\ alertTasks' = alertTasks \ {t}
    /\ UNCHANGED <<state, queue, alertTs, alertPending, pendingMode, modeVars,
                   releaseToSleep, teardownUiPending, muteVars, bootVars, sensorVars,
                   bleVars, rtcVars, ndVars, timerVars, wifiVars>>

\* orchestrator_sleep_csi_cooldown_task: it compares its generation after the
\* first and after the second delay, and arms after the second comparison.
CooldownShows ==
    /\ cooldown = "quiet" /\ cooldown' = "warm"
    /\ UNCHANGED <<taskFrame, queue, radar, csi, cooldownOpen, arming, bleVars, rtcVars>>

CooldownChecksInTime ==
    /\ cooldown = "warm" /\ cooldownOpen /\ arming < MaxArming
    /\ cooldown' = "none" /\ arming' = arming + 1
    /\ UNCHANGED <<taskFrame, queue, radar, csi, cooldownOpen, bleVars, rtcVars>>

CooldownChecks ==
    /\ cooldown = "warm" /\ arming < MaxArming
    /\ cooldown' = "none" /\ arming' = arming + 1
    /\ UNCHANGED <<taskFrame, queue, radar, csi, cooldownOpen, bleVars, rtcVars>>

CooldownArmsKeepsQuiet ==
    /\ arming > 0 /\ arming' = arming - 1
    /\ IF RadarPresent THEN radar' = TRUE /\ UNCHANGED csi
       ELSE UNCHANGED radar /\ csi' \in Attempt("csi", TRUE, csi)
    /\ UNCHANGED <<taskFrame, queue, cooldown, cooldownOpen, bleVars, rtcVars>>

CooldownArms ==
    /\ arming > 0 /\ arming' = arming - 1
    /\ cooldownOpen' = FALSE
    /\ IF RadarPresent THEN radar' = TRUE /\ UNCHANGED csi
       ELSE UNCHANGED radar /\ csi' \in Attempt("csi", TRUE, csi)
    /\ UNCHANGED <<taskFrame, queue, cooldown, bleVars, rtcVars>>

\* orchestrator_sleep_cooldown_active turns false by the clock alone.
CooldownElapses ==
    /\ cooldownOpen /\ cooldown # "quiet" /\ cooldownOpen' = FALSE
    /\ UNCHANGED <<taskFrame, queue, radar, csi, cooldown, arming, bleVars, rtcVars>>

-----------------------------------------------------------------------------
(* Timers, interrupts and the other producers of events.                   *)

\* The identity scan of the smart BLE task.
ScanStarts ==
    /\ validation = "requested" /\ validation' = "scanning"
    /\ UNCHANGED <<taskFrame, queue, sensorVars, ble, prepTask, relTask, rtcVars>>

ScanEnds ==
    /\ validation = "scanning" /\ validation' = "idle"
    /\ \/ \E v \in {"IDENTITY_PRESENT", "IDENTITY_REJECTED"} :
            queue' \in Posts(queue, Event(v))
       \/ MayFail("ble") /\ queue' \in Posts(queue, Event("BLE_BUSY"))
    /\ ble' = BleAfterStop
    /\ UNCHANGED <<taskFrame, sensorVars, prepTask, relTask, rtcVars>>

\* The radar interrupt is one shot; CSI reports every onset of motion.
MotionSensed ==
    /\ \/ radar /\ radar' = FALSE /\ UNCHANGED csi
       \/ csi /\ UNCHANGED <<radar, csi>>
    /\ queue' \in Posts(queue, Event("MOTION_DETECTED"))
    /\ UNCHANGED <<taskFrame, cooldown, cooldownOpen, arming, bleVars, rtcVars>>

\* Events of the current session generation.
RtcConnects ==
    /\ rtc = "opening" /\ rtc' = "live"
    /\ queue' \in Posts(queue, Event("WEBRTC_CONNECTED"))
    /\ UNCHANGED <<taskFrame, sensorVars, bleVars, stopTask>>

RtcDrops ==
    /\ rtc \in {"opening", "live"} /\ rtc' = "lost"
    /\ queue' \in Posts(queue, Event("WEBRTC_DISCONNECTED"))
    /\ UNCHANGED <<taskFrame, sensorVars, bleVars, stopTask>>

ApiRejects ==
    /\ "fatal" \in Enabled /\ rtc = "opening"
    /\ queue' \in Posts(queue, Event("FATAL_ERROR"))
    /\ rtc' = "lost"
    /\ UNCHANGED <<taskFrame, sensorVars, bleVars, stopTask>>

NdTimerFires ==
    /\ ndTimer /\ ndTimer' = FALSE
    /\ queue' \in Posts(queue, Event("NETDISCOVERY_TIMEOUT"))
    /\ UNCHANGED <<state, ownVars, sensorVars, bleVars, rtcVars, alertTasks, ndScans,
                   timerVars, wifiVars>>

NdScanEnds ==
    /\ ndScans > 0 /\ ndScans' = ndScans - 1
    /\ \/ queue' \in Posts(queue, Event("NETDISCOVERY_COMPLETE"))
       \/ "silentnd" \in Enabled /\ UNCHANGED queue
    /\ UNCHANGED <<state, ownVars, sensorVars, bleVars, rtcVars, alertTasks, ndTimer,
                   timerVars, wifiVars>>

RamTimerFires ==
    /\ ramTimer /\ ramTimer' = FALSE
    /\ queue' \in Posts(queue, Event("RAM_FREED"))
    /\ UNCHANGED <<state, ownVars, sensorVars, bleVars, rtcVars, alertTasks, ndVars,
                   rebootTimer, killing, wifiVars>>

\* fatal_error_timer_cb
RebootTimerFires == rebootTimer /\ Reboot(nvsMode)

\* The 14 minutes of a muted session are over.
IdleTimerFires ==
    /\ idleTimer /\ idleTimer' = FALSE
    /\ queue' \in Posts(queue, Event("AUTO_SLEEP_TIMEOUT"))
    /\ UNCHANGED <<state, alertVars, modeVars, releaseToSleep, teardownUiPending, muted,
                   vigMute, bootVars, sensorVars, bleVars, rtcVars, alertTasks, ndVars,
                   timerVars, wifiVars>>

\* The mute button, the IR remote and the Lua rules ask for a state of the mic.
MicRequested ==
    /\ "mic" \in Enabled /\ state = "ACTIVE"
    /\ \E e \in {"MIC_MUTED", "MIC_UNMUTED"} : queue' \in Posts(queue, Event(e))
    /\ UNCHANGED <<taskFrame, sensorVars, bleVars, rtcVars>>

WifiConnectsWhenAwaited ==
    /\ ~wifi /\ wifi' = TRUE
    /\ queue' \in IF state = "WAIT_WIFI" THEN Posts(queue, Event("WIFI_CONNECTED"))
                                         ELSE {queue}
    /\ UNCHANGED <<state, ownVars, sensorVars, bleVars, rtcVars, alertTasks, ndVars,
                   timerVars, flaps>>

\* network_event_handler
WifiConnects ==
    /\ ~wifi /\ wifi' = TRUE
    /\ queue' \in Posts(queue, Event("WIFI_CONNECTED"))
    /\ UNCHANGED <<state, ownVars, sensorVars, bleVars, rtcVars, alertTasks, ndVars,
                   timerVars, flaps>>

WifiDisconnects ==
    /\ wifi /\ flaps < MaxFlaps /\ wifi' = FALSE /\ flaps' = flaps + 1
    /\ queue' \in Posts(queue, Event("WIFI_DISCONNECTED"))
    /\ UNCHANGED <<state, ownVars, sensorVars, bleVars, rtcVars, alertTasks, ndVars,
                   timerVars>>

\* kill_switch_long_press_cb: the restart follows the write by 100 ms.
KillSwitchWrites ==
    /\ "kill" \in Enabled /\ ~killing /\ killing' = TRUE
    /\ nvsMode' \in Written("CENTINELA")
    /\ UNCHANGED <<state, queue, alertVars, modeVars, releaseToSleep, teardownUiPending,
                   muteVars, bootMode, sensorVars, bleVars, rtcVars, alertTasks, ndVars,
                   ramTimer, rebootTimer, wifiVars>>

KillSwitchRestarts == killing /\ Reboot(nvsMode)

PowerCycle == "power" \in Enabled /\ Reboot(nvsMode)

PrepTaskStep == PrepPreclean \/ PrepBringUp \/ PrepCheck \/ PrepPosts \/ PrepEnds
RelTaskStep  == RelReleases \/ RelPosts \/ RelEnds
StopTaskStep == StopCloses \/ StopPosts \/ StopEnds
AlertTaskStep == \E t \in alertTasks : AlertPosts(t) \/ AlertEnds(t)
CooldownTaskStep == CooldownShows \/ CooldownChecks \/ CooldownArms
ScanTaskStep == ScanStarts \/ ScanEnds
TimerStep == NdTimerFires \/ RamTimerFires \/ RebootTimerFires \/ IdleTimerFires

Next ==
    \/ OrchestratorStep \/ IdleAutoMute \/ VigilanteEnds
    \/ PrepTaskStep \/ RelTaskStep \/ StopTaskStep \/ AlertTaskStep
    \/ CooldownTaskStep \/ CooldownElapses \/ ScanTaskStep \/ TimerStep
    \/ NdScanEnds \/ MotionSensed \/ RtcConnects \/ RtcDrops \/ ApiRejects
    \/ MicRequested \/ WifiConnects \/ WifiDisconnects
    \/ KillSwitchWrites \/ KillSwitchRestarts \/ PowerCycle

Spec == Init /\ [][Next]_vars

\* Every task gets processor time, armed timers fire, the WiFi driver keeps
\* trying, and the WebRTC stack and the BLE scan end what they began.
Fairness ==
    /\ WF_vars(OrchestratorStep)
    /\ WF_vars(PrepTaskStep) /\ WF_vars(RelTaskStep) /\ WF_vars(StopTaskStep)
    /\ WF_vars(AlertTaskStep) /\ WF_vars(CooldownTaskStep)
    /\ WF_vars(ScanTaskStep)
    /\ WF_vars(NdTimerFires) /\ WF_vars(RamTimerFires) /\ WF_vars(RebootTimerFires)
    /\ WF_vars(WifiConnects)

FairSpec == Spec /\ Fairness

-----------------------------------------------------------------------------
(* Properties.                                                             *)

MotionQueued == \E i \in 1..Len(queue) : queue[i].type = "MOTION_DETECTED"

\* A sleeping device watches: once no cooldown task is on its way to arming,
\* the one-shot radar (or the CSI capture) is on, or the motion it saw waits
\* in the queue.  Cancelled generations, one-shot interrupts and motion that
\* is ignored during the cooldown all threaten it.
NeverBlind ==
    (state = "SLEEP" /\ cooldown = "none" /\ arming = 0)
        => (radar \/ csi \/ MotionQueued)

\* While a session opens or runs, the audio path drops the microphone exactly
\* when the session is a Vigilante one (media_sys_set_vigilante_mute).
VigilanteMuteMatches ==
    state \in {"IGNITING", "ACTIVE"} => (vigMute <=> activeMode = "VIGILANTE")

\* While an alert is dispatched, its result is on its way exactly once: either
\* the task with this alert still sends, or one queued result carries it.  A
\* task orphaned by a WiFi loss can neither answer for it nor hide it.
DispatchAnsweredOnce ==
    state = "DISPATCHING_ALERT" =>
        Cardinality({i \in 1..Len(queue) : queue[i].ts = alertTs})
          + Cardinality({t \in alertTasks : t.ts = alertTs /\ t.phase = "sending"}) = 1

\* An alert handle that is set has a task alive that will clear it, also when
\* a WiFi loss has orphaned a task and a later alert has taken the handle: the
\* next alert is never refused for ever.
HandleHasTask == alertHandle => alertTasks # {}

\* With no WiFi event in the queue the orchestrator waits for WiFi exactly when
\* the station is down.  The headless states and the fatal one, which end in
\* a restart, do not follow WiFi.
WifiAgrees ==
    (\A i \in 1..Len(queue) : queue[i].type \notin {"WIFI_CONNECTED", "WIFI_DISCONNECTED"})
        => (state \in WifiStates \cup {"WAIT_WIFI"} => (wifi <=> state # "WAIT_WIFI"))

\* A Vigilante session that closes leaves the device armed: whatever mute
\* requests, timers and stale results did during the session, no headless
\* identity scan follows it and no other mode is booted.  The loss of WiFi and
\* a fatal error end the closing without a verdict, and this supposes that the
\* flash and the supply hold.
WatchEndsArmed ==
    [][state = "STOPPING_WEBRTC" /\ activeMode = "VIGILANTE" /\ state' # "STOPPING_WEBRTC"
        => \/ nvsMode' = "CENTINELA" /\ bootMode' = "CENTINELA" /\ state' = "WAIT_WIFI"
           \/ flaps' > 0 \/ state' = "FATAL_ERROR" \/ killing
           \/ MayFail("nvs") \/ "power" \in Enabled]_vars

\* The verdict that the phone of the owner is near is being handled.
OwnerRecognised ==
    /\ state \in {"VALIDATING_IDENTITY", "AUTO_ARM_BLE_SCANNING"}
    /\ queue # <<>> /\ Head(queue).type = "IDENTITY_PRESENT"

\* An armed device is disarmed by its owner alone, across restarts, power cuts
\* and writes to flash that fail: what fails leaves the copy in flash armed,
\* and the only other way to boot disarmed is a key that cannot be read.
DisarmedByOwner ==
    [][bootMode = "CENTINELA" /\ bootMode' = "DIRECTO"
        => OwnerRecognised \/ (MayFail("nvs") /\ nvsMode' = "CENTINELA")]_vars

\* While a session opens or runs, the NimBLE stack is down.
NimbleDownInSession == state \in {"IGNITING", "ACTIVE"} => ble = "off"

\* As long as WiFi has not been lost, that holds: RELEASING_BLE tears the stack
\* down and no task is left that brings it up again.
NimbleDownWithoutFlaps == flaps = 0 => NimbleDownInSession

\* The phase of the session policy that each state of the orchestrator is in.
PolicyPhase ==
    CASE state \in {"WAIT_WIFI", "SLEEP"} -> "idle"
      [] state \in {"PREPARING_BLE", "VALIDATING_IDENTITY"} -> "verify"
      [] state = "RELEASING_BLE" -> IF releaseToSleep THEN "failed"
                                    ELSE IF alertPending THEN "intruder" ELSE "owner"
      [] state = "NET_DISCOVERY_SCAN" -> "owner"
      [] state = "DISPATCHING_ALERT" -> "intruder"
      [] state \in {"IGNITING", "ACTIVE"} -> "session"
      [] state = "STOPPING_WEBRTC" -> "closing"
      [] state \in {"TEARING_DOWN_UI_FOR_SCAN", "AUTO_ARM_BLE_SCANNING"} -> "rearm"
      [] OTHER -> "fatal"

PolicyMode ==
    IF state \in {"IGNITING", "ACTIVE", "STOPPING_WEBRTC"} THEN activeMode ELSE "none"

Policy == INSTANCE SessionPolicy
            WITH phase <- PolicyPhase, mode <- PolicyMode, nvs <- nvsMode

\* The orchestrator keeps the session policy.
KeepsPolicy == Policy!PolicySpec

\* The sensor is armed by the cooldown task of a sleeping device only: a stale
\* instance aborts.
ArmsOnlyAsleep == [][~radar /\ radar' => state = "SLEEP"]_vars

\* The restart that the kill switch asked for boots the device armed.
KillSwitchArms == [][killing /\ ~killing' => nvsMode' = "CENTINELA"]_vars

\* An unauthorized access that was registered is dispatched; only the loss of
\* WiFi or a restart may drop it.
IntruderReported ==
    [][alertPending /\ ~alertPending' => state = "DISPATCHING_ALERT" \/ state' = "WAIT_WIFI"]_vars

\* Every state that waits for a task or a timer is left again, as long as WiFi
\* is not lost.
Transient == {"PREPARING_BLE", "VALIDATING_IDENTITY", "RELEASING_BLE",
              "NET_DISCOVERY_SCAN", "DISPATCHING_ALERT", "STOPPING_WEBRTC",
              "TEARING_DOWN_UI_FOR_SCAN", "AUTO_ARM_BLE_SCANNING"}
TransientEnds == \A s \in Transient : (state = s) ~> (state # s \/ flaps > 0)

\* Once WiFi stays up, the orchestrator does not stay in WAIT_WIFI.
WifiIsNoticed == (<>[]wifi) => []<>(state # "WAIT_WIFI")

\* A sleeping device gets its sensor armed, or is no longer asleep.
SleepGetsArmed == state = "SLEEP" ~> (radar \/ csi \/ MotionQueued \/ state # "SLEEP")
=============================================================================
