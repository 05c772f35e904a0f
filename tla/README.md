# Verification of the Dr. SimiBot firmware

The firmware (`src/solutions/openai_demo/main` and some of `src/components`) makes an ESP32-S3 box a voice assistant and
a guard: it sleeps behind a radar (or WiFi CSI) sensor, wakes on motion, looks
for the owner's phone over BLE, and opens a WebRTC session with OpenAI, either a
friendly one or a *Vigilante* one that watches an intruder and reports it.

The C code is small tasks that talk through bounded FreeRTOS queues, binary
semaphores, one-shot timers and shared flags. Nothing in it is computed that is
hard; what is hard is the order in which things happen. This directory holds
TLA+ modules of that control structure, TLC configurations that check them on
small instances, and proofs, checked by TLAPS, for every value of the constants.

Paths below are relative to `src/solutions/openai_demo/main` unless they start with `src/`.

## 1. The system

### Components

| component | source | state it keeps | operations | speaks to |
|---|---|---|---|---|
| orchestrator | `core/orchestrator_fsm.c`, `core/orchestrator_tasks.c`, `core/orchestrator_helpers.c` | the FSM state, pending alert, ignition and active mode, release-to-sleep and teardown flags, microphone flag, cooldown generation, task handles and timers | one handler per event and state, entry actions, BLE prepare and release tasks, WebRTC stop task, alert task, CSI cooldown task | everyone, through one queue of 8 events |
| boot mode and kill switch | `hardware/kill_switch.c`, `config/nvs_setup.c` | `op_mode` in NVS, its copy in RAM | set, get, long press | orchestrator (shared key), restart |
| app_main and network events | `core/main.c`, `core/common.h` | `network_is_connected` | boot routing, WiFi events | orchestrator queue |
| radar and CSI sensing | `hardware/radar.c`, `sensing/csi_handler.c`, `sensing/csi_dsp.c`, `sensing/ei_inference.cpp` | armed interrupt, debounce, capture flag, DSP windows | arm, disarm, ISR, DSP task | orchestrator queue |
| Vigilante monitor | `core/orchestrator_vigilante.c` | three 32-bit clocks | start, poll, motion | orchestrator |
| BLE identity scan | `ble/ble_device_control.c`, `ble/ble_common.c` | owner of the central role, flags `running/enabled/stopping/scanning_active`, five semaphores, a worker queue of 8, host generations | prepare, validate, stop, release, GAP callbacks, control worker | NimBLE, orchestrator queue |
| WebRTC session | `webrtc/webrtc.c`, `webrtc/openai_signaling.c`, `src/components/esp_webrtc/src/esp_webrtc.c` | handle, generation, session flags, tool calls; the session object with its peer and sender threads | start, stop, data channel messages, events; open, start, stop, close | orchestrator queue, media, Lua |
| mute handler | `audio/mute_handler.c`, `webrtc/lua_mic_bindings.c` | shadow of the microphone flag, event queue of 4, idle timer | button ISR, mute task, requests of Lua and IR | orchestrator queue |
| media system | `audio/media_sys.c` | players, capture, Vigilante microphone guard | build-up, teardown, capture read | WebRTC, orchestrator |
| alert dispatcher | `alert/alert_dispatcher.c` | one HTTP request | dispatch | orchestrator (through a task) |
| network discovery | `src/components/net_discovery/` | a one-shot task and a results table | one-shot scan, summary | orchestrator queue |
| media queues | `src/components/media_lib_sal/port/data_queue.c`, `src/components/media_lib_sal/port/msg_q.c` | a byte ring with blocking readers and writers | get/send buffer, read/peek/release, wakeup, consume all | audio threads |
| audio player | `src/components/av_render/src/av_render.c` | a decoder and a render thread, each with a message queue and a data queue; `api_lock`, an event group | add stream, add data, reset, close | WebRTC session, media system, codec |
| Lua runtime, HTTP worker | `core/esp_claw_init.c`, `openai/*.c` | request queues, one virtual machine | submit, run, cancel | WebRTC tool calls |
| configuration, provisioning | `config/config_manager.c`, `ble/ble_config.c` | NVS keys | one write per request | boot |
| user interface | `ui/*.c` | LVGL objects | rendering | none that matters here |
| infrared, sensor dock | `hardware/ir_sniffer.c`, `hardware/ir_action_map.c`, `core/sensor_dock.c`, `hardware/aht30.c` | pulse buffers | decode, read | mute handler, Lua |
| vendored code | the rest of `src/components/` | drivers, board support, fonts | | |

### What makes it hard

* **Events outlive their cause.** Every task and timer posts to the same queue
  and is never cancelled when WiFi is lost; the handler must tell a stale
  `BLE_READY`, `WEBRTC_STOPPED`, `NETDISCOVERY_COMPLETE` or alert result from the
  one it waits for. Only the alert result carries an identity.
* **Two-step tasks.** A task posts its result and clears its handle afterwards;
  it checks a generation and then acts.
* **Posts may be lost** after 200 ms against a full queue; interrupts lose them
  at once.
* **Shared state without a lock**: the Vigilante microphone guard, `op_mode`, the
  one-shot radar interrupt, the mute shadow.
* **Partial failure**: any creation of a task or a timer, every BLE operation,
  the WebRTC build-up and the CSI start can fail, each with its own fallback.
* **Threads that outlive what they use**: a session, its media system and the
  player are freed by whoever stops them; four kinds of threads have to be out by
  then, and a loss of WiFi makes a second task stop what the first is stopping.
* **Restarts** are part of normal operation: a Vigilante session and the headless
  scan end in `esp_restart`; the kill switch and the power cord may come in
  between.

`PROJECT.json` lists each hazard at the line where it bites.

### What each component owes

* Orchestrator: a session opens only after an identity verdict, in the mode that
  verdict decides; the microphone is cut exactly in Vigilante mode; a sleeping
  device watches; a state that waits for something is left; NimBLE is down while
  a session runs; the next boot is armed exactly when it should be.
* BLE scan: every request that is accepted is answered once; nobody frees a
  semaphore that another task waits on; the host is down after a release.
* WebRTC: an event of an earlier session never ends a later one; whoever finds a
  handle may use it; nobody goes on using a session that was freed; starting and
  stopping return; an open data channel gets configured.
* Mute handler: the microphone follows the last request.
* Media queue: frames come out whole and in the order they went in; a buffer that
  is handed out is free; a waiting reader or writer is woken.
* Audio player: a packet is played once and in order; a reset joins the threads
  whose memory it frees, and returns.

## 2. Modules

| module | what it is | code |
|---|---|---|
| `Orchestrator` | the orchestrator task, the tasks and timers it starts, and its surroundings as nondeterministic producers of events | `core/orchestrator_*.c`, the entry points of the components it calls |
| `SessionPolicy` | the abstract promise: identify, decide, report, open, close, choose the next boot | the event handlers as a whole |
| `MCOrchestrator` | instances of `Orchestrator` for TLC | |
| `BleCentral` | the smart BLE task, the NimBLE host, and the three tasks that prepare, ask, stop and release them | `ble/ble_device_control.c`, `ble/ble_common.c`, the callers in `core/orchestrator_*.c` |
| `MCBleCentral` | instances of `BleCentral` for TLC | |
| `WebRtcSession` | sessions from verdict to end: the orchestrator, the stop task, and per session `pc_task`, `pc_send` and the `session.update` task | `webrtc/webrtc.c`, `esp_webrtc.c`, `audio/media_sys.c`, the callers in `core/orchestrator_*.c` |
| `MCWebRtcSession` | its instance for TLC | |
| `FrameFifo` | the abstract promise of a data queue: a FIFO of whole frames | `data_queue.h` |
| `DataQueue` | the byte ring, its locks and event bits | `data_queue.c` |
| `MCDataQueue` | its instance for TLC | |
| `AudioPlayer` | decoder and render thread and their two callers | `av_render.c` |
| `MCAudioPlayer` | its instance for TLC | |
| `Orchestrator_proofs` | type correctness | |
| `OrchestratorSession_proofs` | the inductive invariant of a session; `Orchestrator` implements `SessionPolicy` | |
| `OrchestratorSafety_proofs` | who disarms the device; the alert handle | |
| `OrchestratorQueue_proofs` | motion, WiFi, alerts, NimBLE and the end of a watch: what the orchestrator may conclude from its queue | |
| `BleCentral_proofs` | type correctness, and the identity scan while WiFi stays up | |
| `DataQueue_proofs` | ring invariant, free grants, no lost wake-up | |
| `WebRtcSession_proofs` | type correctness, handles, threads, media and events of sessions | |
| `AudioPlayer_proofs` | type correctness; a reset joins its threads; the order of the packets | |

### How `Orchestrator` corresponds to the code

One action of the orchestrator takes one event from the head of the queue and
does all that `app_startup_orchestrator_task` does before it takes the next: the
handler and the entry actions of every state entered on the way
(`orchestrator_enter_state`, here the `Enter...` operators), with the events
these post themselves. `AUTO_SLEEPING` is entered and left inside one handler and
so is never seen. The other actions are the steps of other tasks that the
orchestrator can observe: `Prep...`, `Rel...`, `Stop...`, `Alert...` and
`Cooldown...` for the tasks of `orchestrator_tasks.c` (each has a step that posts
and a later one that clears its handle), timers, interrupts, the smart BLE task,
WebRTC events, the WiFi driver, the kill switch and the power supply.

* `alertTs` stands for `(s_alert_timestamp_ms, s_alert_corr_drop)`, which
  identifies an alert. `FreshAlert` picks an identity nothing refers to, because
  times differ.
* The cooldown generation is represented by `cooldown`: cancelling the
  generation makes it `"none"`. A task that has passed its last check is counted
  in `arming` and cannot be cancelled any more.
* A post (`Posts`) appends, or waits for room (the action is disabled), or, with
  `"drop"` enabled, gives up. A post from inside a handler (`SelfPosts`) cannot
  wait for the orchestrator itself, so a queue that is full drops it.
* An aborted identity scan posts the verdict it has (`ScanAborts`); a request not
  yet picked up dies silently.
* `Reboot` is `esp_restart` and the power cut: only `nvsMode` survives.
* `nvs_set_operation_mode` returns nothing: with `"nvs"` enabled the key may keep what
  it held (`Written`) while the copy in RAM changes all the same
  (`SetOperationMode`), and a key that cannot be read counts as `DIRECTO`
  (`ModeRead`).
* Each optional failure is a member of `Enabled`, so that a configuration says
  which failures a property is claimed under.

Left out of `Orchestrator`: the LCD and the two events that only redraw it, the arrival greeting,
AHT30 polling, the reinforcement alerts (they post nothing and change no state
of the machine), and `init_nvs`, which erases a damaged partition at start-up
(`config/nvs_setup.c:52-62`) and with it `op_mode`. The 200 ms between the
write of the headless verdict and the restart are one step, except that the kill
switch may write in them. The end of a Vigilante session (`VigilanteEnds`) is
nondeterministic. The radar debounce is not modelled.

### How `BleCentral` corresponds to the code

`Orchestrator` sees an identity scan as a request and a verdict; `BleCentral` is
what happens in between. The smart task is a program counter, `smart`, one action
per stretch of code between two points at which another task may change what it
reads. The three callers run straight code full of calls, so each is the list
`todo[c]` of the steps it still has to do, built from the functions it calls
(`FullRelease` contains `ControlStop`, which contains `StopSmartTask`, which
contains `CancelScan`); an early return skips to the end of its function.

* A binary semaphore is a Boolean: giving it twice is giving it once. Giving a
  semaphore that has been deleted leaves no token (`startSig' = resources`).
* A wait with a timeout ends without its signal only if no other step can bring
  the signal: the smart task is inside its 15 s window and nobody can shorten it,
  or the scanner is idle and no callback is pending. Every timeout of this code
  is long against the steps it guards.
* `CancelReports` says whether NimBLE reports `DISC_COMPLETE` for a discovery
  that was cancelled. The code is written for both, and so is the run.
* `Overlap` says whether the orchestrator goes on while a caller still works, as
  it does after a loss of WiFi (`orchestrator_enter_state` leaves the task of the
  abandoned state running). Without it one caller works at a time.
* `SlowDeinit`: bringing NimBLE down takes longer than a task that is awake needs
  to block again. The code needs this: the one idle signal reports both a pause
  and the exit of the smart task, so a token given between the drain and the
  wait of `ble_device_stop_persistent_tasks` passes for the exit, and only the
  time NimBLE takes keeps the semaphores alive until the task has really gone.

Left out: the control worker and its queue, the discovery mode of the smart task
(`ble_device_start_smart_task` has no caller), the loading of profiles, the
provisioning service, a `ble_gap_disc_cancel` that fails on an active scanner.

### How `DataQueue` corresponds to the code

Every section under `q->lock` is one action. A wait is three: the event bit is
seen (`...Wakes`), cleared (`...Clears`) and the lock taken again
(`...Resumes`), because `_WAIT_BITS` clears after it has waited and the other side
may run in between. `write_lock` is held from `data_queue_get_buffer` to
`data_queue_send_buffer`, so all writers are one program counter. `mem` holds, at
the offset of a header, the length and the number of the frame; the payload is
not modelled. `Attempt` is the body of the loop of `data_queue_get_buffer`,
with its return to 0 and the note in `fill_end`. `Fifo` reads the ring as
`FrameFifo`: the frames from `rp` on, the one in the reader's hands apart.
`data_queue_wakeup` waits for a count of users that falls to zero only when the
holder of a buffer gives it back, so the fairness says that writers do.

### How `WebRtcSession` corresponds to the code

The orchestrator and the stop task run straight code: each is the list
`call[t].todo` of the steps it still has to do (`StartSteps`, `StopSteps`,
`CloseSteps`), and so is `pc_task` inside a callback (`ses[s].todo`). Sections under
`g_webrtc_mutex` are one step. Sessions are numbered by the attempt that opened
them and never reused, so a thread that goes on using a freed session is visible:
`life = "freed"` while its `peer` is `"loop"` or its `sender` is alive.

* The events `WEBRTC_CONNECTED` (`"ready"`), `WEBRTC_DISCONNECTED` (`"down"`) and
  `WEBRTC_STOPPED` go through `inbox`. A verdict and a loss of WiFi are handled in
  the step in which they happen (`Ignites`, `LosesWifi`): the former only with
  an empty queue, the latter at any time, which covers every place it could have
  had in the queue.
* A callback reads the generation and compares it with the current one
  (`check_...`), and acts in a later step: what happens in between is the point.
* `Sendable` keeps the two tests of the code apart: `webrtc_send_json` asks
  `rtc_handle`, which may be a freed session (set at `esp_webrtc.c:263`, never reset), and
  `esp_webrtc_send_custom_data` asks the right one.
* `start_stream` is two steps, as another thread sees it: `send_going` is set
  (`StreamStarts`), and then `pc_send` is created, or `send_going` is cleared because
  that failed (`SenderSpawns`).
* `schedule_session_update` may be refused the mutex or the task; the generation it
  registered is then forgotten and nobody tries again (`CallbackSchedules`, fault
  `"update"`).
* `mishaps` is a history variable. It names five ways the code leaves open, and
  a property that does not survive one of them says so in its first line; TLC
  shows that each exemption is needed.
  - `"overlap"`: WiFi is lost while the stop task works. `stop_webrtc`, called by the
    orchestrator, finds no handle and tears the media system down under the
    session that is closing; or the stop task takes the *next* session, while the
    orchestrator is still inside `esp_webrtc_start`.
  - `"unstopped"`: the stop task cannot be created. `WEBRTC_STOPPED` is posted at
    once (`orchestrator_tasks.c:365`) with the session still up, whose
    `WEBRTC_DISCONNECTED` may then end the session that follows.
  - `"late"`: the peer connects after `stop_stream` and before `pc_task` is joined;
    `pc_send` is created in a session about to be freed (`esp_webrtc.c:290-294`).
  - `"race"`: `pc_task` and the closing thread both find `send_going` set
    (`esp_webrtc.c:171`) and wait for one exit bit.
  - `"stillborn"`: the closing thread finds `send_going` set before `pc_send` has been
    created, and the creation fails (`esp_webrtc.c:155-160`): nobody will set the bit it
    waits for.

Left out: tool calls and their results, the response state machine, automatic
muting, signaling messages, video. Mutexes are assumed to be obtained (the code
treats a timeout like a stale generation), but for the one of
`schedule_session_update`. There the registration of a generation, the creation of its
task and the reset after a failed creation are one step.

### How `AudioPlayer` corresponds to the code

The data queues are those of `DataQueue`, here as sequences of packets with a
bound on their number. `render_thread` is `Poll` (take a message, break on
`CLOSE`), `Read` (blocks on an empty queue), the body of the thread (`Decode`,
`Forward`, `Pass` for `adec_body`, `Play` for `a_render_body`), `Release`, `Leave`
(`res->thread = NULL`) and `Report` (throw away what is queued, set the exit
bit); the order of the last two against `Tell`, `Wake` and `Join` of
`av_render_reset` is what the properties are about. A frame in work stays at the head
of its queue until it is released.

* `Put` happens without `api_lock`, as in `av_render_add_audio_data`, which gives
  the lock back before it queues the packet.
* `Decode` creates `ARender` with the first frame of a stream, without any lock;
  `"lazy"` in `mishaps` says that a reset had already looked for the thread.
* Every call on the way to the codec may fail (`Faults`): `adec_decode`, getting the codec
  ready for the first frame (its format, the resampler, the codec itself), the
  resampler, and the write. The threads ignore the error and go on, so the packet is
  gone (`Drops`); a failure to open also leaves `audio_packet_reached` false, so the next
  packet tries again. The history variable `lost` keeps which packets of the stream
  went this way, and `PlayedInOrder` says that all others, and only they, are played.
* What a thread does to memory that has been freed is not modelled: `Next` and the
  fairness are guarded by `Sound`, so the model stops there, and `NoThreadOutlives`
  says when that can happen.
* `SizesAssumption` asks for room for a dummy and a frame in the queue of
  `ARender`. With room for one frame only TLC finds a reset that never returns:
  its dummy lands in the queue of a thread that has just left and blocks the
  decoder that still passes a frame. The firmware gives that queue 200 KB.

Left out: video (no session here carries any), pause, flush and resume, pools,
end of stream, decoding without a thread. One packet is one frame before and after the
resampler. `audio_drop_before_render` never drops, since `media_sys.c:232` does not allow it.

## 3. Runs

| run | expects | what it shows |
|---|---|---|
| `orch_main` | pass | with a radar, a loss of WiFi, microphone requests and the kill switch: a sleeping device is never blind, the microphone guard matches the mode, a dispatched alert is answered exactly once, WiFi and the state agree, a Vigilante session that closes leaves the device armed, NimBLE is down in a session that saw no WiFi loss, and the session policy is kept |
| `orch_faults` | pass | without a radar and with the failures of `Enabled` switched on (dropped posts, failed creations, BLE, CSI, WebRTC and API failures, silent discovery, flash that is neither written nor read, power cuts): the session policy is kept, an armed device is disarmed by its owner alone, an alert handle has its task |
| `orch_live` | pass | under fairness every waiting state ends unless WiFi is lost, a WiFi that stays is noticed, a sleeping device gets its sensor armed |
| `orch_arming` | violation | the cooldown task of an abandoned sleep arms the radar outside SLEEP |
| `orch_kill` | violation | a verdict handled between the kill switch's write and its restart overwrites `CENTINELA` |
| `orch_nimble` | violation | after a WiFi flap the earlier prepare task brings NimBLE up during the next session |
| `orch_alert` | violation | `BLE_RELEASE_FAILED` after a rejection drops the pending alert |
| `ble_scan` | pass | for every order of one caller, the smart task and the host, with BLE failures: the semaphores outlive the smart task, the scanner is off when the verdict leaves, the verdict is true, a request is answered once and dropped only by a stop, and every operation ends |
| `ble_overlap` | violation | after a loss of WiFi the release on the way to SLEEP overlaps the prepare task and deletes the semaphores of the smart task it has just started |
| `data_queue` | pass | a writer, a reader and a task that gives the queue up, in every order: the ring implements `FrameFifo`, a grant is free, no wake-up is lost, `data_queue_get_available` never promises too much, a waiting writer is served and `data_queue_wakeup` returns |
| `rtc_life` | pass | two sessions, a loss of WiFi and the failures of `AllFaults`: the handle in use is alive, a freed session leaves no thread, the media system lasts as long as the session, an event acts on the session it is about, joins are answered, an open channel is configured unless its update gave up or could not be scheduled; each outside the mishaps named above |
| `audio_play` | pass | two callers and two threads over full queues: a reset leaves no thread behind (unless `"lazy"`), the packets that no failing call threw away are played once and in order, every call returns |

The five violations are disagreements between the code and what its comments,
its log messages or the repository's `README.md` say; `PROJECT.json` quotes the
sentences under `findings`.

### Bounds

* `QueueDepth` is 2 (3 in `orch_nimble`) for the 8 of the firmware. Two slots
  are the least in which an event overtaken by another, a full queue and a stale
  event in front of a fresh one all occur; with 1 there is no order.
* Three alert identities: one pending, one carried by an orphaned task, one in
  the queue.
* `MaxArming = 1`: a second cooldown task between check and arming would need two
  sleeps inside a few instructions.
* `MaxScans` 1 or 2: two discovery scans overlap after a WiFi flap.
* `MaxFlaps = 1`: one loss of WiFi leaves one generation of stale tasks and
  events; it is counted over restarts, only to bound the run.
* `BleCentral` has no counters and needs no bound.
* `DataQueue`: 7 bytes, headers of 1, requests of 1, 2 and 4, 5 frames. Frames of
  2, 3 and 5 bytes in a ring of 7 meet every offset, fill the ring, leave gaps at
  its end and wait for room; 5 frames go round the ring more than once.
* `WebRtcSession`: `MaxAttempts = 2`, `MaxFlaps = 1`, `MaxTries = 2` (8 in the
  firmware): everything here that goes wrong is the rest of one session meeting
  the next, and one loss of WiFi makes two tasks stop the same session.
* `AudioPlayer`: queues of two, 4 packets, 3 calls: stream, reset, stream, or both
  callers resetting one stream; full queues and a dummy in front of a packet occur.
* `PromptExit` (`orch_live` and the violation runs): a task that posted
  clears its handle before the orchestrator takes the next event. In the code
  these are two adjacent statements; without the assumption a refused second start
  makes `PREPARING_BLE` wait for ever (listed as a hazard). The safety runs and
  every proof do without it.

`CHECK_DEADLOCK FALSE` in the runs of `Orchestrator`: the system can really stop,
for instance in `IGNITING`, which has no timeout when WebRTC stays silent. In
`rtc_life`, `data_queue` and `audio_play` the calls are bounded and the system ends. In
`ble_overlap` a caller whose signal another has taken waits for a timeout that the
model does not let expire. `ble_scan` checks for deadlock.

### Fairness

Weak fairness of the orchestrator task, of the tasks it starts and of the smart
BLE task (FreeRTOS schedules them, they do not wait for each other for ever), of
the discovery, RAM and restart timers (one-shot timers that fire), and of the WiFi
driver (it retries without limit). None for what nothing in the code makes
happen: motion, WebRTC answers, the end of a discovery scan (its timer covers
it), the idle timer, the user. In `BleCentral`: each caller, the smart task and the
host are scheduled, and the controller ends a discovery window; no phone has to
be seen. In `DataQueue`: threads run, the reader keeps reading, and a writer sends
or gives back what it was given; nobody has to start writing or to give the
queue up. In `AudioPlayer`: a caller inside a call and both threads run; nobody
has to call. `WebRtcSession` states no fairness: its state space is too large for
TLC's liveness checking, so that its waits end is stated as an invariant,
`WaitsAreAnswered`: whoever waits finds the other side running or its exit reported.

## 4. Proofs

Every theorem holds for every value of the constants that the named assumptions
of its module allow; where it needs more, its statement says so. TLC checked
each inductive invariant on the runs before it was proved.

**Type correctness and the session** (`Orchestrator_proofs`,
`OrchestratorSession_proofs`, `OrchestratorSafety_proofs`), for every queue depth,
every finite set of alerts, every bound and every choice of failures, from
`ConstantsAssumption` alone.

* `TypeCorrect`: `Spec => []TypeOK`. One step per action; a lemma says that a
  post keeps the queue within its bound and typed.
* `SessionSafe`: `Spec => []SessionInv`. `VigilanteMuteMatches` is not inductive:
  the guard is set when the verdict arrives, three states before the session
  opens, and the mode travels through `pendingMode`, `ignitionMode` and
  `activeMode`. `SessionInv` adds `VerdictPending` (the pending mode is Vigilante
  exactly when an alert is pending, which happens only between the verdict and
  the dispatch, with the guard on) and `ActiveModeHeld` (outside a session the
  active mode is friendly). `MuteMatches` follows.
* `PolicyKept`: `Spec => Policy!PolicySpec`, by `SessionInv`: every action maps to
  an action of `SessionPolicy` or to a stutter. This is the claim that matters
  most, since it says what the device does to its owner and to an intruder
  whatever fails.
* `OwnerDisarms` (`DisarmedByOwner`): an armed device comes to be disarmed only by the
  verdict that its owner is near, or by a key that is still armed and cannot be read.
  Invariant: a device that is armed in RAM is armed in flash, so that neither a
  failing write nor a restart disarms it; the one action that changes the copy in
  RAM without a restart handles that verdict.
* `HandleKept`: an alert handle that is set has a live task.

**What the orchestrator may conclude from its queue** (`OrchestratorQueue_proofs`).
The invariants speak of what is in the queue and who will still post; a step
takes the head off and appends at most a few events, so each proof starts from
what that does to the quantity it counts.

* `MotionIsNoticed` (`NeverBlind`), if `SensorsWork`: no post is given up, every task
  can be created, and CSI starts if there is no radar. `NeverBlind` is false
  without: a cooldown task that cannot be created arms nothing. Invariant: motion
  is ignored no longer than there is a task that will arm the sensor.
* `WifiFollowed` (`WifiAgrees`), if no post is given up. Invariant (`Reads`): the WiFi
  events in the queue alternate, the first one contradicts what the orchestrator
  believes, and the last one says where the WiFi is.
* `DispatchAnswered` (`DispatchAnsweredOnce`), if no post is given up. Invariant: of the
  task that sends an alert and the results that name it in the queue there is
  exactly one while that alert is being dispatched, and none before.
* `NimbleDown` (`NimbleDownWithoutFlaps`), unconditional. Invariant: as long as WiFi
  has not been lost there is one token between the prepare task, the scan, the
  release task and their answers in the queue, and the state says who has it;
  a state that needs NimBLE down is entered by the answer of the release.
* `WatchArms` (`WatchEndsArmed`): a Vigilante session that closes ends in an armed boot,
  unless WiFi is lost, a fatal error or the kill switch cuts it short; `"nvs"` and
  `"power"` are excluded. Invariant (`ClosingInv`): unless WiFi was lost, the flag that leads to
  the headless scan is up only while a friendly session closes, and the reboot timer
  runs only in `FATAL_ERROR`. It rests on the one of `NimbleDown`, which excludes stale results.

**The data queue** (`DataQueue_proofs`), for every size of ring and header, every
set of requests and every number of frames: `TypeCorrect`, `GrantsAreFree`,
`WakeupsArrive`, `AvailableIsHonest` and `FifoKept`. None of them is inductive: that positions
stay in the ring when a frame is consumed depends on the length found in memory,
so `IInv` says that the live bytes are tiled by frames (`Tiles`), that `filled`
counts them, and that nobody waits without his bit unless there is nothing for
him.

`FifoKept` is `Spec => Fifo!Spec`, the refinement of `FrameFifo`. The mapping reads the
ring with a recursive function that goes from header to header. `Unfold` shows that
this function exists (no frame reaches beyond the ring, `Stored`, so every step
leads further) and obeys its equation; what it yields follows by induction over the
distance to the end of the ring, which is stated for sets of naturals (`Backwards`)
since the provers cannot use the library's induction rules. The tiles give one or two
runs of headers (`TilesAreRuns`); memory that agrees on a run holds the same frames
(`SameRun`), and a frame written behind a run is appended (`LongerRun`). Then each
section under the lock is a step: looking for room, also when the ring starts again at
0, changes no frame (`AttemptFrames`), sending is `Put`, reading is `Take`, unlocking is
`Release`, and throwing everything away is `Drain`.

**WebRTC sessions** (`WebRtcSession_proofs`), for every number of attempts, of
losses of WiFi and of tries, and every set of faults. The lists of steps are
replaced by what matters of them: the next step, the last one, and whether
`pc_task` is still to be joined. On top of that the invariants are built in
layers, each inductive given those before it:

1. `TypeInv`, with the possible lists of steps: `TypeCorrect`.
2. `UseInv`: which session each caller works on, and when there is a handle:
   `HandleLives`. It was while proving this that `HandleIsLive` was found to hold only
   because two attempts are too few: after an overlap a late `WEBRTC_STOPPED` can
   end a session nobody has stopped, and the handle is then that of an earlier
   attempt. The property now exempts those two mishaps by name.
3. `Owned`: a session that is allocated is in use or being closed, with the media
   system it was given: `MediaOutlives`.
4. `Untouched` (a session not yet started has nothing), `Joined` (a `pc_task` that runs
   has somebody to wait for it), `Heard` (the queue speaks only of the attempt under
   way): `EventsOrdered`.
5. `Begun` and `Waiting` (`pc_send` starts once and reports its exit when it leaves;
   who waits for it has found it running, or is about to see it created): `WaitsAnswered`.
6. `Attended` (a sender told to leave has somebody waiting for it): `NothingLeft`.
7. `GenInv`: an attempt begins at most three generations and a loss of WiFi one (`Room`:
   what is still due when a generation begins is counted down by it), so the current
   generation has a task slot for every value of the bounds; and of the sessions only the
   one in use, or the one being started, has the current generation (`Young`). On it rests
   `ConfInv`, that the registered task is of the current generation and still at work, and
   that an open channel is looked after unless its update has given up or could not be
   scheduled: `ChannelsConfigured`.

**The identity scan** (`BleCentral_proofs`). `TypeCorrect` is unconditional. The others,
`SignalsOutlive`, `ScannerIdle`, `Honest`, `OnceAnswered` and `DroppedByStop`, hold if
`~Overlap` (without it they are false: run `ble_overlap`) and `SlowDeinit`, which only
the step `Deinit` needs; it is an assumption about time that the code makes
without saying so (section 2). The lists of steps are replaced by the next step
and what can stand in front of it (`Listed`, `Follows`), and one invariant, `Sound`,
carries all five: one caller works (`Alone`), what he may rely on at each of his
steps (`Place`), what flags and smart task say about each other (`Module`), what
the host and the scan say about each other (`Radio`), and that a request which is
being taken back has somebody working until it is gone (`Backed`).

**The audio player** (`AudioPlayer_proofs`), for every size of the queues that
`SizesAssumption` allows: `TypeCorrect`, `NoneOutlives` and `InOrderAlways`. Invariant: each thread keeps a
handshake with the holder of `api_lock` (`Shaken`): it has been told, and then has the
message, or leaves, or has reported, exactly once; or it has not been told and
works or does not exist. Where the holder is in his work says which threads he
has told (`AboutAdec`, `AboutRender`); the case in which the first frame creates
`ARender` behind his back is kept apart (`Lazy`).
For `InOrderAlways` a second invariant (`FlowInv`) rests on the first one: no queue holds
a number that has not been fed; while nobody resets, frames wait only for an `ARender`
that is there, so that `Adec` overtakes none by writing a frame itself; and whenever the
lock is free the queues in a row, with the packet the feeder still has in his hands at
their end, are what is left of earlier streams followed by the packets of this one but
those in `lost`. A step
of a thread moves a packet from one queue to the one in front of it, which
changes nothing in that row (`Passed`), or drops a dummy or a packet that a failing call has
thrown away, which leaves the rest in order (`LeftOut`, `Thrown`).

Only model-checked are the properties that need fairness (`TransientEnds`,
`WifiIsNoticed`, `SleepGetsArmed`, `RequestEnds`, `OperationsEnd`, `WriterServed`,
`WakeupReturns`, `PlayerCallsReturn`): liveness under fairness is out of reach of the
provers used.

## 5. Plan

1. Done: `Orchestrator`, `SessionPolicy`, `BleCentral`, `DataQueue`, `FrameFifo`,
   `WebRtcSession`, `AudioPlayer`, and the proofs above.
2. `MicControl`: the microphone flag of the orchestrator against its shadow in
   `mute_handler.c`, with Lua, infrared and the tool that mutes after an answer.
   First a document has to say what a press means after somebody else has muted.
3. The request queues of the Lua virtual machine and of the HTTP worker.

## 6. Not modelled

* The response state machine and the tool calls of `webrtc.c` (about 2500 of its
  3600 lines): building and parsing of JSON messages around one flag per
  response. The hazards they add (a result sent to the next session, a mute that
  comes too late) are listed.
* `core/esp_claw_init.c`, `openai/*.c`: request queues of one worker each; planned.
* `config/*.c`, `ble/ble_config.c`: one write per request, no protocol.
* `ui/*.c`: drawing. `hardware/ir_*.c`, `hardware/aht30.c`, `core/sensor_dock.c`,
  `sensing/csi_dsp.c`, `sensing/ei_inference.cpp`: pulse decoding, sensor reads and
  numeric code.
* `src/components/codec_board`, `esp-bsp`, `esp_capture`, `webrtc_utils`, and the
  protocol parsers of `net_discovery`: drivers, board support, capture and pure functions
  over packets. They and the user interface are most of the lines of the
  repository; what can be said about the order of events lies in the files the
  modules name.
