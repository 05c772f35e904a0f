------------------------ MODULE OrchestratorQueue_proofs ------------------------
(***************************************************************************)
(* What the orchestrator may conclude from its queue: where the WiFi is,   *)
(* that an alert is answered once, that motion is noticed, that the BLE    *)
(* stack is down, and that a Vigilante session closes into an armed        *)
(* device.  The proofs share what one step does to the queue.              *)
(***************************************************************************)
EXTENDS OrchestratorSession_proofs, FiniteSetTheorems

USE DEF alertVars, modeVars, muteVars, bootVars, sensorVars, bleVars, rtcVars,
        ndVars, timerVars, wifiVars, ownVars, vars, taskFrame

-----------------------------------------------------------------------------
(* Queues and the types of their events.                                   *)

NoneOf(q, T) == \A i \in 1..Len(q) : q[i].type \notin T

AtMostOneOf(q, T) ==
    \A i, j \in 1..Len(q) : q[i].type \in T /\ q[j].type \in T => i = j

\* A post of a plain event of a type in T, or no post at all.
Adds(q, r, T) == r = q \/ \E e \in T : r = Append(q, Event(e))

LEMMA PostsAdd ==
    ASSUME NEW q, NEW T, NEW e \in T, NEW r \in Posts(q, Event(e)) \cup SelfPosts(q, Event(e))
    PROVE  Adds(q, r, T)
  BY DEF Posts, SelfPosts, Adds

LEMMA ScanAbortsAdd ==
    ASSUME NEW q, NEW r \in ScanAborts(q) \cup ScanAbortsSelf(q)
    PROVE  Adds(q, r, {"IDENTITY_PRESENT", "IDENTITY_REJECTED"})
  <1> DEFINE V == {"IDENTITY_PRESENT", "IDENTITY_REJECTED"}
  <1>1. CASE r = q
    BY <1>1 DEF Adds
  <1>2. CASE r # q
    <2>1. PICK v \in V : r \in Posts(q, Event(v)) \cup SelfPosts(q, Event(v))
      BY <1>2 DEF ScanAborts, ScanAbortsSelf
    <2> QED BY <2>1, PostsAdd
  <1> QED BY <1>1, <1>2

LEMMA AddsMore ==
    ASSUME NEW q, NEW r, NEW S, NEW T, Adds(q, r, S), S \subseteq T
    PROVE  Adds(q, r, T)
  BY DEF Adds

\* The positions of a queue that grew.
LEMMA Appended ==
    ASSUME NEW q, QueueOK(q), NEW m
    PROVE  /\ Len(q) \in Nat /\ Len(Append(q, m)) = Len(q) + 1
           /\ \A i \in 1..Len(q) : Append(q, m)[i] = q[i]
           /\ Append(q, m)[Len(q) + 1] = m
  <1>1. q \in Seq(Messages)
    BY DEF QueueOK
  <1> QED BY <1>1

\* The positions of a queue that lost its head.
LEMMA Taken ==
    ASSUME NEW q, QueueOK(q), q # <<>>
    PROVE  /\ Len(q) \in Nat \ {0} /\ Len(Tail(q)) = Len(q) - 1
           /\ Head(q) = q[1] /\ \A i \in 1..(Len(q) - 1) : Tail(q)[i] = q[i + 1]
           /\ QueueOK(Tail(q))
  <1>1. q \in Seq(Messages) /\ Len(q) <= QueueDepth /\ QueueDepth \in Nat
    BY ConstantsAssumption DEF ConstantsAssumption, QueueOK
  <1>2. /\ Tail(q) \in Seq(Messages) /\ Len(Tail(q)) = Len(q) - 1 /\ Len(q) \in Nat \ {0}
        /\ Head(q) = q[1] /\ \A i \in 1..(Len(q) - 1) : Tail(q)[i] = q[i + 1]
    BY <1>1
  <1> QED BY <1>1, <1>2 DEF QueueOK

LEMMA AppendedTypes ==
    ASSUME NEW q, QueueOK(q), NEW m, NEW T
    PROVE  /\ NoneOf(q, T) /\ m.type \notin T => NoneOf(Append(q, m), T)
           /\ NoneOf(q, T) => AtMostOneOf(Append(q, m), T)
           /\ AtMostOneOf(q, T) /\ m.type \notin T => AtMostOneOf(Append(q, m), T)
  BY Appended DEF NoneOf, AtMostOneOf

LEMMA AddedTypes ==
    ASSUME NEW q, QueueOK(q), NEW r, NEW S, Adds(q, r, S), NEW T
    PROVE  /\ NoneOf(q, T) /\ S \cap T = {} => NoneOf(r, T)
           /\ NoneOf(q, T) => AtMostOneOf(r, T)
           /\ AtMostOneOf(q, T) /\ S \cap T = {} => AtMostOneOf(r, T)
  <1>1. CASE r = q
    BY <1>1 DEF NoneOf, AtMostOneOf
  <1>2. CASE r # q
    <2>1. PICK e \in S : r = Append(q, Event(e))
      BY <1>2 DEF Adds
    <2>2. Event(e).type = e
      BY DEF Event
    <2> QED BY <2>1, <2>2, AppendedTypes
  <1> QED BY <1>1, <1>2

LEMMA TakenTypes ==
    ASSUME QueueOK(queue), NEW e, Arrives(e), NEW T
    PROVE  /\ NoneOf(queue, T) => e \notin T /\ NoneOf(Tail(queue), T)
           /\ AtMostOneOf(queue, T) => AtMostOneOf(Tail(queue), T)
           /\ AtMostOneOf(queue, T) /\ e \in T => NoneOf(Tail(queue), T)
  <1>1. queue # <<>> /\ queue[1].type = e
    BY Taken DEF Arrives
  <1>2. NoneOf(queue, T) => e \notin T /\ NoneOf(Tail(queue), T)
    BY <1>1, Taken DEF NoneOf
  <1>3. AtMostOneOf(queue, T) => AtMostOneOf(Tail(queue), T)
    <2> SUFFICES ASSUME AtMostOneOf(queue, T), NEW i \in 1..Len(Tail(queue)),
                        NEW j \in 1..Len(Tail(queue)),
                        Tail(queue)[i].type \in T, Tail(queue)[j].type \in T
                 PROVE  i = j
      BY DEF AtMostOneOf
    <2>1. /\ i + 1 \in 1..Len(queue) /\ j + 1 \in 1..Len(queue)
          /\ queue[i + 1].type \in T /\ queue[j + 1].type \in T
      BY <1>1, Taken
    <2>2. i + 1 = j + 1
      BY <2>1 DEF AtMostOneOf
    <2> QED BY <2>2
  <1>4. AtMostOneOf(queue, T) /\ e \in T => NoneOf(Tail(queue), T)
    <2> SUFFICES ASSUME AtMostOneOf(queue, T), e \in T, NEW i \in 1..Len(Tail(queue)),
                        Tail(queue)[i].type \in T
                 PROVE  FALSE
      BY DEF NoneOf
    <2>1. i + 1 \in 1..Len(queue) /\ 1 \in 1..Len(queue) /\ queue[i + 1].type \in T
      BY <1>1, Taken
    <2>2. i + 1 = 1
      BY <1>1, <2>1 DEF AtMostOneOf
    <2> QED BY <2>2
  <1> QED BY <1>2, <1>3, <1>4

-----------------------------------------------------------------------------
(* What the steps post.                                                    *)

\* The results of the identity scan and of the BLE tasks.
Answers  == {"BLE_READY", "BLE_BUSY", "IDENTITY_PRESENT", "IDENTITY_REJECTED"}
Releases == {"BLE_RELEASE_COMPLETE", "BLE_RELEASE_FAILED"}
BleEvents == Answers \cup Releases

WifiEvents == {"WIFI_CONNECTED", "WIFI_DISCONNECTED"}

\* What neither the BLE tasks nor the alert tasks nor the WiFi driver posts.
PlainEvents == Events \ (BleEvents \cup WifiEvents \cup AlertResults)

\* The steps that concern neither the BLE stack nor an alert nor WiFi.
PlainStep ==
    \/ StopTaskStep \/ CooldownTaskStep \/ CooldownElapses
    \/ NdTimerFires \/ RamTimerFires \/ IdleTimerFires \/ NdScanEnds \/ MotionSensed
    \/ RtcConnects \/ RtcDrops \/ ApiRejects \/ MicRequested \/ KillSwitchWrites

BleTaskStep == PrepTaskStep \/ RelTaskStep \/ ScanTaskStep

LEMMA StepsSplit ==
    Next => OrchestratorStep \/ IdleAutoMute \/ VigilanteEnds \/ PlainStep
            \/ BleTaskStep \/ AlertTaskStep \/ WifiConnects \/ WifiDisconnects
            \/ RestartStep
  BY NextSplits DEF OtherStep, PlainStep, BleTaskStep

LEMMA PlainAdds ==
    PlainStep => /\ Adds(queue, queue', PlainEvents)
                 /\ UNCHANGED <<state, alertVars, bleVars, alertTasks, wifiVars>>
  <1> SUFFICES ASSUME PlainStep
               PROVE  /\ Adds(queue, queue', PlainEvents)
                      /\ UNCHANGED <<state, alertVars, bleVars, alertTasks, wifiVars>>
    OBVIOUS
  <1> DEFINE Silent == queue' = queue
             Loud == \E e \in PlainEvents : queue' \in Posts(queue, Event(e))
             Frame == UNCHANGED <<state, alertVars, bleVars, alertTasks, wifiVars>>
  <1>1. /\ "WEBRTC_STOPPED" \in PlainEvents /\ "NETDISCOVERY_TIMEOUT" \in PlainEvents
        /\ "RAM_FREED" \in PlainEvents /\ "AUTO_SLEEP_TIMEOUT" \in PlainEvents
        /\ "NETDISCOVERY_COMPLETE" \in PlainEvents /\ "MOTION_DETECTED" \in PlainEvents
        /\ "WEBRTC_CONNECTED" \in PlainEvents /\ "WEBRTC_DISCONNECTED" \in PlainEvents
        /\ "FATAL_ERROR" \in PlainEvents /\ "MIC_MUTED" \in PlainEvents
        /\ "MIC_UNMUTED" \in PlainEvents
    BY DEF PlainEvents, Events, BleEvents, Answers, Releases, WifiEvents, AlertResults
  <1>2. CASE StopTaskStep
    <2>1. (Silent \/ Loud) /\ Frame
      BY <1>1, <1>2 DEF StopTaskStep, StopCloses, StopPosts, StopEnds
    <2> QED BY <2>1, PostsAdd DEF Adds
  <1>3. CASE CooldownTaskStep \/ CooldownElapses
    <2>1. Silent /\ Frame
      BY <1>3 DEF CooldownTaskStep, CooldownShows, CooldownChecks, CooldownArms,
            CooldownElapses
    <2> QED BY <2>1 DEF Adds
  <1>4. CASE NdTimerFires \/ RamTimerFires \/ IdleTimerFires \/ NdScanEnds \/ MotionSensed
    <2>1. (Silent \/ Loud) /\ Frame
      BY <1>1, <1>4 DEF NdTimerFires, RamTimerFires, IdleTimerFires, NdScanEnds, MotionSensed
    <2> QED BY <2>1, PostsAdd DEF Adds
  <1>5. CASE RtcConnects \/ RtcDrops \/ ApiRejects \/ MicRequested
    <2>1. Loud /\ Frame
      BY <1>1, <1>5 DEF RtcConnects, RtcDrops, ApiRejects, MicRequested
    <2> QED BY <2>1, PostsAdd DEF Adds
  <1>6. CASE KillSwitchWrites
    <2>1. Silent /\ Frame
      BY <1>6 DEF KillSwitchWrites
    <2> QED BY <2>1 DEF Adds
  <1> QED BY <1>2, <1>3, <1>4, <1>5, <1>6 DEF PlainStep

LEMMA BleTasksAdd ==
    BleTaskStep => Adds(queue, queue', BleEvents) /\ UNCHANGED <<taskFrame, sensorVars>>
  <1> SUFFICES ASSUME BleTaskStep
               PROVE  Adds(queue, queue', BleEvents) /\ UNCHANGED <<taskFrame, sensorVars>>
    OBVIOUS
  <1> DEFINE Silent == queue' = queue
             Loud == \E e \in BleEvents : queue' \in Posts(queue, Event(e))
             Aborts == queue' \in ScanAborts(queue)
             Frame == UNCHANGED <<taskFrame, sensorVars>>
  <1>1. /\ "BLE_READY" \in BleEvents /\ "BLE_BUSY" \in BleEvents
        /\ "IDENTITY_PRESENT" \in BleEvents /\ "IDENTITY_REJECTED" \in BleEvents
        /\ "BLE_RELEASE_COMPLETE" \in BleEvents /\ "BLE_RELEASE_FAILED" \in BleEvents
    BY DEF BleEvents, Answers, Releases
  <1>2. Silent \/ Loud \/ Aborts => Adds(queue, queue', BleEvents)
    <2>1. Silent => Adds(queue, queue', BleEvents)
      BY DEF Adds
    <2>2. Loud => Adds(queue, queue', BleEvents)
      BY PostsAdd
    <2>3. Aborts => Adds(queue, queue', BleEvents)
      BY <1>1, ScanAbortsAdd, AddsMore
    <2> QED BY <2>1, <2>2, <2>3
  <1>3. CASE PrepTaskStep
    <2>1. (Silent \/ Loud \/ Aborts) /\ Frame
      BY <1>1, <1>3 DEF PrepTaskStep, PrepPreclean, PrepBringUp, PrepCheck, PrepPosts, PrepEnds
    <2> QED BY <2>1, <1>2
  <1>4. CASE RelTaskStep
    <2>1. (Silent \/ Loud \/ Aborts) /\ Frame
      BY <1>1, <1>4 DEF RelTaskStep, RelReleases, RelPosts, RelEnds
    <2> QED BY <2>1, <1>2
  <1>5. CASE ScanTaskStep
    <2>1. (Silent \/ Loud) /\ Frame
      BY <1>1, <1>5 DEF ScanTaskStep, ScanStarts, ScanEnds
    <2> QED BY <2>1, <1>2
  <1> QED BY <1>3, <1>4, <1>5 DEF BleTaskStep

\* What the orchestrator itself may post while it handles an event.
OwnEvents == PlainEvents \cup BleEvents

\* Taking an event, and possibly posting one.
Takes == queue # <<>> /\ Adds(Tail(queue), queue', OwnEvents)

Restarted == \E m : Reboot(m)

LEMMA SleepTakes ==
    ASSUME NEW q, EnterSleep(q)
    PROVE  Restarted \/ Adds(q, queue', OwnEvents)
  <1>1. CASE activeMode = "VIGILANTE"
    BY <1>1 DEF EnterSleep, Restarted
  <1>2. CASE activeMode # "VIGILANTE"
    <2>1. queue' \in ScanAbortsSelf(q)
      BY <1>2 DEF EnterSleep
    <2>2. {"IDENTITY_PRESENT", "IDENTITY_REJECTED"} \subseteq OwnEvents
      BY DEF OwnEvents, BleEvents, Answers
    <2> QED BY <2>1, <2>2, ScanAbortsAdd, AddsMore
  <1> QED BY <1>1, <1>2

LEMMA OrchestratorTakes ==
    OrchestratorStep =>
        \/ Restarted \/ Takes
        \/ OnBleReleaseComplete /\ ~releaseToSleep /\ alertPending
  <1> SUFFICES ASSUME OrchestratorStep
               PROVE  \/ Restarted \/ Takes
                      \/ OnBleReleaseComplete /\ ~releaseToSleep /\ alertPending
    OBVIOUS
  <1> DEFINE Silent == queue' = Tail(queue)
             Loud == \E e \in OwnEvents : queue' \in SelfPosts(Tail(queue), Event(e))
             Aborts == queue' \in ScanAbortsSelf(Tail(queue))
  <1>a. /\ "BLE_BUSY" \in OwnEvents /\ "BLE_RELEASE_FAILED" \in OwnEvents
        /\ "WEBRTC_DISCONNECTED" \in OwnEvents /\ "WEBRTC_API_ERROR" \in OwnEvents
        /\ "WEBRTC_STOPPED" \in OwnEvents
        /\ {"IDENTITY_PRESENT", "IDENTITY_REJECTED"} \subseteq OwnEvents
    BY DEF OwnEvents, PlainEvents, Events, BleEvents, Answers, Releases, WifiEvents, AlertResults
  <1>b. queue # <<>> /\ (Silent \/ Loud \/ Aborts) => Takes
    <2>1. Silent => Adds(Tail(queue), queue', OwnEvents)
      BY DEF Adds
    <2>2. Loud => Adds(Tail(queue), queue', OwnEvents)
      BY PostsAdd
    <2>3. Aborts => Adds(Tail(queue), queue', OwnEvents)
      BY <1>a, ScanAbortsAdd, AddsMore
    <2> QED BY <2>1, <2>2, <2>3 DEF Takes
  <1>c. queue # <<>> /\ EnterSleep(Tail(queue)) => Restarted \/ Takes
    BY SleepTakes DEF Takes
  <1> HIDE DEF Silent, Loud, Aborts
  <1>1. CASE OnWifiDisconnected
    <2>1. queue # <<>> /\ (Silent \/ Loud \/ Aborts)
      BY <1>1, <1>a DEF Silent, Loud, Aborts, Arrives, OnWifiDisconnected, EnterWaitWifi
    <2> QED BY <2>1, <1>b
  <1>2. CASE OnWifiConnected
    <2>1. CASE EnterSleep(Tail(queue))
      BY <1>2, <2>1, <1>c DEF OnWifiConnected, Arrives
    <2>2. CASE ~EnterSleep(Tail(queue))
      <3>1. queue # <<>> /\ (Silent \/ Loud)
        BY <1>2, <2>2, <1>a
        DEF Silent, Loud, OnWifiConnected, Arrives, EnterPreparingBle, StartBlePrepare
      <3> QED BY <3>1, <1>b
    <2> QED BY <2>1, <2>2
  <1>3. CASE OnMotionInSleep
    <2>1. queue # <<>> /\ (Silent \/ Loud \/ Aborts)
      BY <1>3, <1>a DEF Silent, Loud, Aborts, Arrives, OnMotionInSleep, EnterPreparingBle, StartBlePrepare
    <2> QED BY <2>1, <1>b
  <1>4. CASE OnBleReady
    <2>1. queue # <<>> /\ (Silent \/ Loud \/ Aborts)
      BY <1>4, <1>a DEF Silent, Loud, Aborts, Arrives, OnBleReady, EnterValidatingIdentity, StartIdentityValidation
    <2> QED BY <2>1, <1>b
  <1>5. CASE OnBleBusyPreparing
    BY <1>5, <1>c DEF Arrives, OnBleBusyPreparing
  <1>6. CASE OnIdentityPresent
    <2>1. queue # <<>> /\ (Silent \/ Loud \/ Aborts)
      BY <1>6, <1>a DEF Silent, Loud, Aborts, Arrives, OnIdentityPresent, EnterReleasingBle
    <2> QED BY <2>1, <1>b
  <1>7. CASE OnIdentityRejected
    <2>1. queue # <<>> /\ (Silent \/ Loud \/ Aborts)
      BY <1>7, <1>a DEF Silent, Loud, Aborts, Arrives, OnIdentityRejected, EnterReleasingBle
    <2> QED BY <2>1, <1>b
  <1>8. CASE OnBleBusyValidating
    <2>1. queue # <<>> /\ (Silent \/ Loud \/ Aborts)
      BY <1>8, <1>a DEF Silent, Loud, Aborts, Arrives, OnBleBusyValidating, EnterReleasingBle
    <2> QED BY <2>1, <1>b
  <1>9. CASE OnBleReleaseComplete
    <2>1. queue # <<>>
      BY <1>9 DEF OnBleReleaseComplete, Arrives
    <2>2. CASE releaseToSleep
      BY <1>9, <2>1, <2>2, <1>c DEF OnBleReleaseComplete
    <2>3. CASE ~releaseToSleep /\ ~alertPending
      <3>1. Silent
        BY <1>9, <2>3 DEF Silent, OnBleReleaseComplete, EnterNetDiscoveryScan
      <3> QED BY <2>1, <3>1, <1>b
    <2> QED BY <1>9, <2>2, <2>3
  <1>10. CASE OnBleReleaseFailed
    BY <1>10, <1>c DEF Arrives, OnBleReleaseFailed
  <1>11. CASE OnNetDiscoveryEnds
    <2>1. queue # <<>> /\ (Silent \/ Loud \/ Aborts)
      BY <1>11, <1>a DEF Silent, Loud, Aborts, Arrives, OnNetDiscoveryEnds, EnterIgniting
    <2> QED BY <2>1, <1>b
  <1>12. CASE OnAlertResult
    <2>1. queue # <<>> /\ (Silent \/ Loud \/ Aborts)
      BY <1>12, <1>a DEF Silent, Loud, Aborts, Arrives, OnAlertResult, EnterIgniting
    <2> QED BY <2>1, <1>b
  <1>13. CASE OnWebrtcConnected
    <2>1. queue # <<>> /\ (Silent \/ Loud \/ Aborts)
      BY <1>13, <1>a DEF Silent, Loud, Aborts, Arrives, OnWebrtcConnected, EnterActive
    <2> QED BY <2>1, <1>b
  <1>14. CASE OnWebrtcDropped
    <2>1. queue # <<>> /\ (Silent \/ Loud \/ Aborts)
      BY <1>14, <1>a DEF Silent, Loud, Aborts, Arrives, OnWebrtcDropped, EnterStoppingWebrtc
    <2> QED BY <2>1, <1>b
  <1>15. CASE OnMicRequest
    <2>1. queue # <<>> /\ (Silent \/ Loud \/ Aborts)
      BY <1>15, <1>a DEF Silent, Loud, Aborts, Arrives, OnMicRequest, SetMute
    <2> QED BY <2>1, <1>b
  <1>16. CASE OnAutoSleepTimeout
    <2>1. queue # <<>> /\ (Silent \/ Loud \/ Aborts)
      BY <1>16, <1>a DEF Silent, Loud, Aborts, Arrives, OnAutoSleepTimeout, EnterStoppingWebrtc
    <2> QED BY <2>1, <1>b
  <1>17. CASE OnWebrtcStopped
    <2>1. queue # <<>>
      BY <1>17 DEF OnWebrtcStopped, Arrives
    <2>2. CASE teardownUiPending
      <3>1. Silent
        BY <1>17, <2>2 DEF Silent, OnWebrtcStopped, EnterTearingDownUi
      <3> QED BY <2>1, <3>1, <1>b
    <2>3. CASE ~teardownUiPending
      BY <1>17, <2>1, <2>3, <1>c DEF OnWebrtcStopped
    <2> QED BY <2>2, <2>3
  <1>18. CASE OnRamFreed
    <2>1. queue # <<>> /\ (Silent \/ Loud \/ Aborts)
      BY <1>18, <1>a DEF Silent, Loud, Aborts, Arrives, OnRamFreed, EnterAutoArm, StartBlePrepare
    <2> QED BY <2>1, <1>b
  <1>19. CASE OnBleReadyAutoArm
    <2>1. queue # <<>> /\ (Silent \/ Loud \/ Aborts)
      BY <1>19, <1>a DEF Silent, Loud, Aborts, Arrives, OnBleReadyAutoArm, StartIdentityValidation
    <2> QED BY <2>1, <1>b
  <1>20. CASE OnAutoArmVerdict
    BY <1>20 DEF OnAutoArmVerdict, Restarted
  <1>21. CASE OnFatalError
    <2>1. queue # <<>> /\ (Silent \/ Loud \/ Aborts)
      BY <1>21, <1>a DEF Silent, Loud, Aborts, Arrives, OnFatalError
    <2> QED BY <2>1, <1>b
  <1>22. CASE IgnoreEvent
    <2>1. queue # <<>> /\ (Silent \/ Loud \/ Aborts)
      BY <1>22, <1>a DEF Silent, Loud, Aborts, Arrives, IgnoreEvent
    <2> QED BY <2>1, <1>b
  <1> QED
    BY <1>1, <1>2, <1>3, <1>4, <1>5, <1>6, <1>7, <1>8, <1>9, <1>10, <1>11, <1>12,
       <1>13, <1>14, <1>15, <1>16, <1>17, <1>18, <1>19, <1>20, <1>21, <1>22
    DEF OrchestratorStep

-----------------------------------------------------------------------------
(* Motion is noticed.                                                      *)

\* No post is given up, no cooldown task is missing, and the sensor that the
\* device has can be started.  Without one of these NeverBlind fails.
SensorsWork ==
    /\ "drop" \notin Enabled /\ "create" \notin Enabled
    /\ RadarPresent \/ "csi" \notin Enabled

\* Motion is ignored while the cooldown lasts, so the cooldown may not last
\* longer than the task that will arm the sensor again.
CooldownHasTask ==
    state = "SLEEP" /\ cooldownOpen => cooldown # "none" \/ arming > 0

WatchInv == CooldownHasTask /\ NeverBlind

LEMMA AwakeWatches == ASSUME state' # "SLEEP" PROVE WatchInv'
  BY DEF WatchInv, CooldownHasTask, NeverBlind

LEMMA SleepWatches == ASSUME SensorsWork, NEW q, EnterSleep(q) PROVE WatchInv'
  <1>1. CASE activeMode = "VIGILANTE"
    BY <1>1, AwakeWatches DEF EnterSleep, Reboot
  <1>2. CASE activeMode # "VIGILANTE"
    <2>1. cooldown' = "quiet"
      BY <1>2 DEF EnterSleep, SensorsWork, Attempt, MayFail
    <2> QED BY <2>1 DEF WatchInv, CooldownHasTask, NeverBlind
  <1> QED BY <1>1, <1>2

LEMMA OrchestratorWatches ==
    ASSUME SensorsWork, TypeOK, WatchInv, OrchestratorStep \/ IdleAutoMute \/ VigilanteEnds
    PROVE  WatchInv'
  <1>1. CASE OnWifiDisconnected
    BY <1>1, AwakeWatches DEF OnWifiDisconnected, EnterWaitWifi
  <1>2. CASE OnWifiConnected
    BY <1>2, AwakeWatches, SleepWatches DEF OnWifiConnected, EnterPreparingBle
  <1>3. CASE OnMotionInSleep
    BY <1>3, AwakeWatches DEF OnMotionInSleep, EnterPreparingBle
  <1>4. CASE OnBleReady
    BY <1>4, AwakeWatches DEF OnBleReady, EnterValidatingIdentity
  <1>5. CASE OnBleBusyPreparing
    BY <1>5, AwakeWatches, SleepWatches DEF OnBleBusyPreparing
  <1>6. CASE OnIdentityPresent
    BY <1>6, AwakeWatches DEF OnIdentityPresent, EnterReleasingBle
  <1>7. CASE OnIdentityRejected
    BY <1>7, AwakeWatches DEF OnIdentityRejected, EnterReleasingBle
  <1>8. CASE OnBleBusyValidating
    BY <1>8, AwakeWatches DEF OnBleBusyValidating, EnterReleasingBle
  <1>9. CASE OnBleReleaseComplete
    BY <1>9, AwakeWatches, SleepWatches DEF OnBleReleaseComplete, EnterDispatchingAlert,
          EnterNetDiscoveryScan
  <1>10. CASE OnBleReleaseFailed
    BY <1>10, AwakeWatches, SleepWatches DEF OnBleReleaseFailed
  <1>11. CASE OnNetDiscoveryEnds
    BY <1>11, AwakeWatches DEF OnNetDiscoveryEnds, EnterIgniting
  <1>12. CASE OnAlertResult
    BY <1>12, AwakeWatches DEF OnAlertResult, EnterIgniting
  <1>13. CASE OnWebrtcConnected
    BY <1>13, AwakeWatches DEF OnWebrtcConnected, EnterActive
  <1>14. CASE OnWebrtcDropped
    BY <1>14, AwakeWatches DEF OnWebrtcDropped, EnterStoppingWebrtc
  <1>15. CASE OnMicRequest
    BY <1>15, AwakeWatches DEF OnMicRequest, SetMute
  <1>16. CASE OnAutoSleepTimeout
    BY <1>16, AwakeWatches DEF OnAutoSleepTimeout, EnterStoppingWebrtc
  <1>17. CASE OnWebrtcStopped
    BY <1>17, AwakeWatches, SleepWatches DEF OnWebrtcStopped, EnterTearingDownUi
  <1>18. CASE OnRamFreed
    BY <1>18, AwakeWatches DEF OnRamFreed, EnterAutoArm
  <1>19. CASE OnBleReadyAutoArm
    BY <1>19, AwakeWatches DEF OnBleReadyAutoArm
  <1>20. CASE OnAutoArmVerdict
    BY <1>20, AwakeWatches DEF OnAutoArmVerdict, Reboot
  <1>21. CASE OnFatalError
    BY <1>21, AwakeWatches DEF OnFatalError
  <1>22. CASE IgnoreEvent
    <2>1. /\ queue # <<>> /\ queue' = Tail(queue) /\ Arrives(Head(queue).type)
          /\ UNCHANGED <<state, sensorVars>>
      BY <1>22 DEF IgnoreEvent
    <2>2. CooldownHasTask'
      BY <2>1 DEF WatchInv, CooldownHasTask
    <2>3. CASE state # "SLEEP" \/ radar \/ csi \/ cooldown # "none" \/ arming # 0
      BY <2>1, <2>2, <2>3 DEF WatchInv, NeverBlind
    <2>4. CASE state = "SLEEP" /\ MotionQueued /\ cooldown = "none" /\ arming = 0
      <3>1. ~cooldownOpen
        BY <2>4 DEF WatchInv, CooldownHasTask
      <3>2. Head(queue).type # "MOTION_DETECTED"
        BY <1>22, <2>4, <3>1 DEF IgnoreEvent, Handled, AlertResults
      <3>3. PICK k \in 1..Len(queue) : queue[k].type = "MOTION_DETECTED"
        BY <2>4 DEF MotionQueued
      <3>4. QueueOK(queue)
        BY DEF TypeOK
      <3>5. k # 1 /\ Head(queue) = queue[1]
        BY <2>1, <3>2, <3>3, <3>4, Taken
      <3>6. k - 1 \in 1..Len(Tail(queue)) /\ Tail(queue)[k - 1] = queue[k]
        BY <2>1, <3>4, <3>5, Taken
      <3>7. MotionQueued'
        BY <2>1, <3>3, <3>6 DEF MotionQueued
      <3> QED BY <2>2, <3>7 DEF WatchInv, NeverBlind
    <2> QED BY <2>3, <2>4 DEF WatchInv, NeverBlind
  <1>23. CASE IdleAutoMute
    BY <1>23, AwakeWatches DEF IdleAutoMute, SetMute
  <1>24. CASE VigilanteEnds
    BY <1>24, AwakeWatches DEF VigilanteEnds, EnterStoppingWebrtc
  <1> QED
    BY <1>1, <1>2, <1>3, <1>4, <1>5, <1>6, <1>7, <1>8, <1>9, <1>10, <1>11, <1>12,
       <1>13, <1>14, <1>15, <1>16, <1>17, <1>18, <1>19, <1>20, <1>21, <1>22, <1>23, <1>24
    DEF OrchestratorStep

\* Motion that waits in the queue still waits after a post.
LEMMA MotionWaits ==
    ASSUME QueueOK(queue), MotionQueued, NEW m, queue' = queue \/ queue' = Append(queue, m)
    PROVE  MotionQueued'
  <1>1. CASE queue' = queue
    BY <1>1 DEF MotionQueued
  <1>2. CASE queue' = Append(queue, m)
    <2>1. PICK k \in 1..Len(queue) : queue[k].type = "MOTION_DETECTED"
      BY DEF MotionQueued
    <2>2. k \in 1..Len(Append(queue, m)) /\ Append(queue, m)[k] = queue[k]
      BY Appended
    <2> QED BY <1>2, <2>1, <2>2 DEF MotionQueued
  <1> QED BY <1>1, <1>2

\* A step that leaves the state and the sensors alone and may post.
LEMMA BystanderWatches ==
    ASSUME TypeOK, WatchInv, NEW T, Adds(queue, queue', T), UNCHANGED <<state, sensorVars>>
    PROVE  WatchInv'
  <1>1. QueueOK(queue)
    BY DEF TypeOK
  <1>2. PICK m : queue' = queue \/ queue' = Append(queue, m)
    BY DEF Adds
  <1>3. MotionQueued => MotionQueued'
    BY <1>1, <1>2, MotionWaits
  <1> QED BY <1>3 DEF WatchInv, CooldownHasTask, NeverBlind

LEMMA SensorStepWatches ==
    ASSUME SensorsWork, TypeOK, WatchInv,
           CooldownTaskStep \/ CooldownElapses \/ MotionSensed
    PROVE  WatchInv'
  <1> USE DEF WatchInv, CooldownHasTask, NeverBlind
  <1>1. arming \in Nat
    BY ConstantsAssumption DEF ConstantsAssumption, TypeOK, CountersOK
  <1>2. CASE CooldownShows
    BY <1>2 DEF CooldownShows
  <1>3. CASE CooldownChecks
    BY <1>1, <1>3 DEF CooldownChecks
  <1>4. CASE CooldownArms
    <2>1. (radar \/ csi)' /\ ~cooldownOpen'
      BY <1>4 DEF CooldownArms, SensorsWork, Attempt, MayFail
    <2> QED BY <2>1
  <1>5. CASE CooldownElapses
    <2>1. UNCHANGED <<state, queue, radar, csi, cooldown, arming>> /\ ~cooldownOpen'
      BY <1>5 DEF CooldownElapses
    <2>2. MotionQueued' <=> MotionQueued
      BY <2>1 DEF MotionQueued
    <2> QED BY <2>1, <2>2
  <1>6. CASE MotionSensed
    <2>1. QueueOK(queue)
      BY DEF TypeOK
    <2>2. /\ queue' = Append(queue, Event("MOTION_DETECTED"))
          /\ UNCHANGED <<state, cooldown, cooldownOpen, arming>>
      BY <1>6 DEF MotionSensed, Posts, SensorsWork
    <2>3. Len(queue) + 1 \in 1..Len(queue') /\ queue'[Len(queue) + 1] = Event("MOTION_DETECTED")
      BY <2>1, <2>2, Appended
    <2>4. MotionQueued'
      BY <2>3 DEF MotionQueued, Event
    <2> QED BY <2>2, <2>4
  <1> QED BY <1>2, <1>3, <1>4, <1>5, <1>6 DEF CooldownTaskStep

\* A sleeping device watches: once no cooldown task is on its way to arming,
\* its sensor is on or the motion it saw waits in the queue.
THEOREM MotionIsNoticed == ASSUME SensorsWork PROVE Spec => []NeverBlind
  <1>1. Init => WatchInv
    BY DEF Init, InitWith, WatchInv, CooldownHasTask, NeverBlind
  <1>2. TypeOK /\ WatchInv /\ [Next]_vars => WatchInv'
    <2> SUFFICES ASSUME TypeOK, WatchInv, [Next]_vars PROVE WatchInv'
      OBVIOUS
    <2>1. CASE OrchestratorStep \/ IdleAutoMute \/ VigilanteEnds
      BY <2>1, OrchestratorWatches
    <2>2. CASE CooldownTaskStep \/ CooldownElapses \/ MotionSensed
      BY <2>2, SensorStepWatches
    <2>3. CASE PlainStep /\ UNCHANGED sensorVars
      BY <2>3, PlainAdds, BystanderWatches
    <2>4. CASE BleTaskStep
      BY <2>4, BleTasksAdd, BystanderWatches
    <2>5. CASE AlertTaskStep
      <3>1. UNCHANGED <<state, sensorVars>>
        BY <2>5 DEF AlertTaskStep, AlertPosts, AlertEnds
      <3>2. PICK m : queue' = queue \/ queue' = Append(queue, m)
        BY <2>5 DEF AlertTaskStep, AlertPosts, AlertEnds, Posts
      <3>3. MotionQueued => MotionQueued'
        BY <3>2, MotionWaits DEF TypeOK
      <3> QED BY <3>1, <3>3 DEF WatchInv, CooldownHasTask, NeverBlind
    <2>6. CASE WifiConnects \/ WifiDisconnects
      <3>1. UNCHANGED <<state, sensorVars>> /\ Adds(queue, queue', WifiEvents)
        BY <2>6, PostsAdd DEF WifiConnects, WifiDisconnects, WifiEvents
      <3> QED BY <3>1, BystanderWatches
    <2>7. CASE RestartStep
      BY <2>7, RestartReboots, AwakeWatches DEF Reboot
    <2>8. CASE UNCHANGED vars
      <3>1. Adds(queue, queue', {}) /\ UNCHANGED <<state, sensorVars>>
        BY <2>8 DEF Adds
      <3> QED BY <3>1, BystanderWatches
    <2>9. PlainStep => CooldownTaskStep \/ CooldownElapses \/ MotionSensed \/ UNCHANGED sensorVars
      BY DEF PlainStep, StopTaskStep, StopCloses, StopPosts, StopEnds, NdTimerFires,
             RamTimerFires, IdleTimerFires, NdScanEnds, RtcConnects, RtcDrops, ApiRejects,
             MicRequested, KillSwitchWrites
    <2> QED BY <2>1, <2>2, <2>3, <2>4, <2>5, <2>6, <2>7, <2>8, <2>9, StepsSplit
  <1>3. WatchInv => NeverBlind
    BY DEF WatchInv
  <1> QED BY <1>1, <1>2, <1>3, TypeCorrect, PTL DEF Spec

-----------------------------------------------------------------------------
(* Where the WiFi is.                                                      *)

IsWifi(q, i) == q[i].type \in WifiEvents

\* Whoever thinks that WiFi is `old', and reads the events of q, ends up with
\* `new' and is told nothing that he knows already: the first event contradicts
\* old, each event contradicts the one before it, and the last one says new.
Reads(q, old, new) ==
    /\ \A i \in 1..Len(q) :
         IsWifi(q, i) /\ (\A k \in 1..(i - 1) : ~IsWifi(q, k))
            => (q[i].type = "WIFI_CONNECTED" <=> ~old)
    /\ \A i \in 1..Len(q) :
         IsWifi(q, i) /\ (\A k \in (i + 1)..Len(q) : ~IsWifi(q, k))
            => (q[i].type = "WIFI_CONNECTED" <=> new)
    /\ \A i, j \in 1..Len(q) :
         i < j /\ IsWifi(q, i) /\ IsWifi(q, j) /\ (\A k \in (i + 1)..(j - 1) : ~IsWifi(q, k))
            => (q[i].type = "WIFI_CONNECTED" <=> q[j].type # "WIFI_CONNECTED")
    /\ NoneOf(q, WifiEvents) => (old <=> new)

Follows == WifiStates \cup {"WAIT_WIFI"}

\* The orchestrator, once it has read its queue, will be where the WiFi is.
WifiInv == state \in Follows => Reads(queue, state # "WAIT_WIFI", wifi)

LEMMA ReadsNothing == ASSUME NEW w PROVE Reads(<<>>, w, w)
  BY DEF Reads

LEMMA ReadsAppended ==
    ASSUME NEW q, QueueOK(q), NEW old, NEW new, Reads(q, old, new), NEW m, m.type \notin WifiEvents
    PROVE  Reads(Append(q, m), old, new)
  <1> DEFINE r == Append(q, m)
             n == Len(q)
  <1>1. n \in Nat /\ Len(r) = n + 1 /\ (\A i \in 1..n : r[i] = q[i]) /\ r[n + 1] = m
    BY Appended
  <1> HIDE DEF r, n
  <1>2. ~IsWifi(r, n + 1) /\ \A i \in 1..n : IsWifi(r, i) <=> IsWifi(q, i)
    BY <1>1 DEF IsWifi
  <1>3. ASSUME NEW i \in 1..Len(r), IsWifi(r, i) PROVE i \in 1..n
    BY <1>1, <1>2, <1>3
  <1>4. ASSUME NEW i \in 1..Len(r), IsWifi(r, i), \A k \in 1..(i - 1) : ~IsWifi(r, k)
        PROVE  r[i].type = "WIFI_CONNECTED" <=> ~old
    <2>1. i \in 1..n /\ \A k \in 1..(i - 1) : ~IsWifi(q, k)
      BY <1>1, <1>2, <1>3, <1>4
    <2> QED BY <1>1, <1>2, <1>4, <2>1 DEF Reads, n
  <1>5. ASSUME NEW i \in 1..Len(r), IsWifi(r, i), \A k \in (i + 1)..Len(r) : ~IsWifi(r, k)
        PROVE  r[i].type = "WIFI_CONNECTED" <=> new
    <2>1. i \in 1..n /\ \A k \in (i + 1)..n : ~IsWifi(q, k)
      BY <1>1, <1>2, <1>3, <1>5
    <2> QED BY <1>1, <1>2, <1>5, <2>1 DEF Reads, n
  <1>6. ASSUME NEW i \in 1..Len(r), NEW j \in 1..Len(r), i < j, IsWifi(r, i), IsWifi(r, j),
               \A k \in (i + 1)..(j - 1) : ~IsWifi(r, k)
        PROVE  r[i].type = "WIFI_CONNECTED" <=> r[j].type # "WIFI_CONNECTED"
    <2>1. i \in 1..n /\ j \in 1..n /\ \A k \in (i + 1)..(j - 1) : ~IsWifi(q, k)
      BY <1>1, <1>2, <1>3, <1>6
    <2> QED BY <1>1, <1>2, <1>6, <2>1 DEF Reads, n
  <1>7. ASSUME NoneOf(r, WifiEvents) PROVE old <=> new
    <2>1. NoneOf(q, WifiEvents)
      BY <1>1, <1>7 DEF NoneOf, n
    <2> QED BY <2>1 DEF Reads
  <1> QED BY <1>4, <1>5, <1>6, <1>7 DEF Reads, r

LEMMA ReadsNews ==
    ASSUME NEW q, QueueOK(q), NEW old, NEW new, Reads(q, old, new), NEW m,
           m.type \in WifiEvents, m.type = "WIFI_CONNECTED" <=> ~new, new \in BOOLEAN
    PROVE  Reads(Append(q, m), old, ~new)
  <1> DEFINE r == Append(q, m)
             n == Len(q)
  <1>1. n \in Nat /\ Len(r) = n + 1 /\ (\A i \in 1..n : r[i] = q[i]) /\ r[n + 1] = m
    BY Appended
  <1> HIDE DEF r, n
  <1>2. IsWifi(r, n + 1) /\ \A i \in 1..n : IsWifi(r, i) <=> IsWifi(q, i)
    BY <1>1 DEF IsWifi
  <1>3. ASSUME NEW i \in 1..Len(r), i # n + 1 PROVE i \in 1..n
    BY <1>1, <1>3
  <1>4. ASSUME NEW i \in 1..Len(r), IsWifi(r, i), \A k \in 1..(i - 1) : ~IsWifi(r, k)
        PROVE  r[i].type = "WIFI_CONNECTED" <=> ~old
    <2>1. CASE i = n + 1
      <3>1. \A k \in 1..n : ~IsWifi(q, k)
        BY <1>1, <1>2, <1>4, <2>1
      <3>2. NoneOf(q, WifiEvents)
        BY <3>1 DEF NoneOf, IsWifi, n
      <3>3. old <=> new
        BY <3>2 DEF Reads
      <3> QED BY <1>1, <2>1, <3>3
    <2>2. CASE i # n + 1
      <3>1. i \in 1..n /\ \A k \in 1..(i - 1) : ~IsWifi(q, k)
        BY <1>1, <1>2, <1>3, <1>4, <2>2
      <3> QED BY <1>1, <1>2, <1>4, <3>1 DEF Reads, n
    <2> QED BY <2>1, <2>2
  <1>5. ASSUME NEW i \in 1..Len(r), IsWifi(r, i), \A k \in (i + 1)..Len(r) : ~IsWifi(r, k)
        PROVE  r[i].type = "WIFI_CONNECTED" <=> ~new
    <2>1. i = n + 1
      BY <1>1, <1>2, <1>5
    <2> QED BY <1>1, <2>1
  <1>6. ASSUME NEW i \in 1..Len(r), NEW j \in 1..Len(r), i < j, IsWifi(r, i), IsWifi(r, j),
               \A k \in (i + 1)..(j - 1) : ~IsWifi(r, k)
        PROVE  r[i].type = "WIFI_CONNECTED" <=> r[j].type # "WIFI_CONNECTED"
    <2>1. i \in 1..n
      BY <1>1, <1>6
    <2>2. CASE j = n + 1
      <3>1. \A k \in (i + 1)..n : ~IsWifi(q, k)
        BY <1>1, <1>2, <1>6, <2>1, <2>2
      <3>2. r[i].type = "WIFI_CONNECTED" <=> new
        BY <1>1, <1>2, <1>6, <2>1, <3>1 DEF Reads, n
      <3> QED BY <1>1, <2>2, <3>2
    <2>3. CASE j # n + 1
      <3>1. j \in 1..n /\ \A k \in (i + 1)..(j - 1) : ~IsWifi(q, k)
        BY <1>1, <1>2, <1>3, <1>6, <2>1, <2>3
      <3> QED BY <1>1, <1>2, <1>6, <2>1, <3>1 DEF Reads, n
    <2> QED BY <2>2, <2>3
  <1>7. ~NoneOf(r, WifiEvents)
    BY <1>1, <1>2 DEF NoneOf, IsWifi
  <1> QED BY <1>4, <1>5, <1>6, <1>7 DEF Reads, r

LEMMA ReadsTail ==
    ASSUME NEW q, QueueOK(q), q # <<>>, NEW old, NEW new, Reads(q, old, new),
           q[1].type \notin WifiEvents
    PROVE  Reads(Tail(q), old, new)
  <1> DEFINE r == Tail(q)
             n == Len(q)
  <1>1. n \in Nat \ {0} /\ Len(r) = n - 1 /\ \A i \in 1..(n - 1) : r[i] = q[i + 1]
    BY Taken
  <1> HIDE DEF r, n
  <1>2. /\ ~IsWifi(q, 1)
        /\ \A i \in 1..(n - 1) : i + 1 \in 1..n /\ (IsWifi(r, i) <=> IsWifi(q, i + 1))
    BY <1>1 DEF IsWifi
  <1>3. ASSUME NEW k \in 2..n PROVE k - 1 \in 1..(n - 1) /\ (IsWifi(r, k - 1) <=> IsWifi(q, k))
    BY <1>1, <1>2, <1>3
  <1>4. ASSUME NEW i \in 1..Len(r), IsWifi(r, i), \A k \in 1..(i - 1) : ~IsWifi(r, k)
        PROVE  r[i].type = "WIFI_CONNECTED" <=> ~old
    <2>1. IsWifi(q, i + 1) /\ i + 1 \in 1..n
      BY <1>1, <1>2, <1>4
    <2>2. ASSUME NEW k \in 1..(i + 1 - 1) PROVE ~IsWifi(q, k)
      <3>1. CASE k = 1
        BY <3>1, <1>2
      <3>2. CASE k # 1
        <4>1. k \in 2..n /\ k - 1 \in 1..(i - 1)
          BY <1>1, <2>1, <3>2
        <4> QED BY <4>1, <1>3, <1>4
      <3> QED BY <3>1, <3>2
    <2> QED BY <1>1, <2>1, <2>2 DEF Reads, n
  <1>5. ASSUME NEW i \in 1..Len(r), IsWifi(r, i), \A k \in (i + 1)..Len(r) : ~IsWifi(r, k)
        PROVE  r[i].type = "WIFI_CONNECTED" <=> new
    <2>1. IsWifi(q, i + 1) /\ i + 1 \in 1..n
      BY <1>1, <1>2, <1>5
    <2>2. ASSUME NEW k \in (i + 1 + 1)..n PROVE ~IsWifi(q, k)
      <3>1. k \in 2..n /\ k - 1 \in (i + 1)..Len(r)
        BY <1>1, <2>1
      <3> QED BY <3>1, <1>3, <1>5
    <2> QED BY <1>1, <2>1, <2>2 DEF Reads, n
  <1>6. ASSUME NEW i \in 1..Len(r), NEW j \in 1..Len(r), i < j, IsWifi(r, i), IsWifi(r, j),
               \A k \in (i + 1)..(j - 1) : ~IsWifi(r, k)
        PROVE  r[i].type = "WIFI_CONNECTED" <=> r[j].type # "WIFI_CONNECTED"
    <2>1. /\ IsWifi(q, i + 1) /\ i + 1 \in 1..n /\ i + 1 < j + 1
          /\ IsWifi(q, j + 1) /\ j + 1 \in 1..n
      BY <1>1, <1>2, <1>6
    <2>2. ASSUME NEW k \in (i + 1 + 1)..(j + 1 - 1) PROVE ~IsWifi(q, k)
      <3>1. k \in 2..n /\ k - 1 \in (i + 1)..(j - 1)
        BY <1>1, <2>1
      <3> QED BY <3>1, <1>3, <1>6
    <2>3. q[i + 1].type = "WIFI_CONNECTED" <=> q[j + 1].type # "WIFI_CONNECTED"
      BY <2>1, <2>2 DEF Reads, n
    <2> QED BY <1>1, <2>1, <2>3
  <1>7. ASSUME NoneOf(r, WifiEvents) PROVE old <=> new
    <2>1. ASSUME NEW k \in 1..n PROVE ~IsWifi(q, k)
      <3>1. CASE k = 1
        BY <3>1, <1>2
      <3>2. CASE k # 1
        <4>1. k \in 2..n /\ k - 1 \in 1..Len(r)
          BY <1>1, <3>2
        <4> QED BY <4>1, <1>3, <1>7 DEF NoneOf, IsWifi
      <3> QED BY <3>1, <3>2
    <2>2. NoneOf(q, WifiEvents)
      BY <2>1 DEF NoneOf, IsWifi, n
    <2> QED BY <2>2 DEF Reads
  <1> QED BY <1>4, <1>5, <1>6, <1>7 DEF Reads, r

LEMMA ReadsHead ==
    ASSUME NEW q, QueueOK(q), q # <<>>, NEW old, NEW new, Reads(q, old, new),
           q[1].type \in WifiEvents, old \in BOOLEAN
    PROVE  (q[1].type = "WIFI_CONNECTED" <=> ~old) /\ Reads(Tail(q), ~old, new)
  <1> DEFINE r == Tail(q)
             n == Len(q)
  <1>1. n \in Nat \ {0} /\ Len(r) = n - 1 /\ \A i \in 1..(n - 1) : r[i] = q[i + 1]
    BY Taken
  <1> HIDE DEF r, n
  <1>2. /\ IsWifi(q, 1) /\ 1 \in 1..n
        /\ \A i \in 1..(n - 1) : i + 1 \in 1..n /\ (IsWifi(r, i) <=> IsWifi(q, i + 1))
    BY <1>1 DEF IsWifi
  <1>3. ASSUME NEW k \in 2..n PROVE k - 1 \in 1..(n - 1) /\ (IsWifi(r, k - 1) <=> IsWifi(q, k))
    BY <1>1, <1>2, <1>3
  <1>0. q[1].type = "WIFI_CONNECTED" <=> ~old
    <2>1. \A k \in 1..(1 - 1) : ~IsWifi(q, k)
      OBVIOUS
    <2> QED BY <1>2, <2>1 DEF Reads, n
  <1>4. ASSUME NEW i \in 1..Len(r), IsWifi(r, i), \A k \in 1..(i - 1) : ~IsWifi(r, k)
        PROVE  r[i].type = "WIFI_CONNECTED" <=> old
    <2>1. IsWifi(q, i + 1) /\ i + 1 \in 1..n /\ 1 < i + 1
      BY <1>1, <1>2, <1>4
    <2>2. ASSUME NEW k \in (1 + 1)..(i + 1 - 1) PROVE ~IsWifi(q, k)
      <3>1. k \in 2..n /\ k - 1 \in 1..(i - 1)
        BY <1>1, <2>1
      <3> QED BY <3>1, <1>3, <1>4
    <2>3. q[1].type = "WIFI_CONNECTED" <=> q[i + 1].type # "WIFI_CONNECTED"
      BY <1>2, <2>1, <2>2 DEF Reads, n
    <2> QED BY <1>0, <1>1, <2>1, <2>3
  <1>5. ASSUME NEW i \in 1..Len(r), IsWifi(r, i), \A k \in (i + 1)..Len(r) : ~IsWifi(r, k)
        PROVE  r[i].type = "WIFI_CONNECTED" <=> new
    <2>1. IsWifi(q, i + 1) /\ i + 1 \in 1..n
      BY <1>1, <1>2, <1>5
    <2>2. ASSUME NEW k \in (i + 1 + 1)..n PROVE ~IsWifi(q, k)
      <3>1. k \in 2..n /\ k - 1 \in (i + 1)..Len(r)
        BY <1>1, <2>1
      <3> QED BY <3>1, <1>3, <1>5
    <2> QED BY <1>1, <2>1, <2>2 DEF Reads, n
  <1>6. ASSUME NEW i \in 1..Len(r), NEW j \in 1..Len(r), i < j, IsWifi(r, i), IsWifi(r, j),
               \A k \in (i + 1)..(j - 1) : ~IsWifi(r, k)
        PROVE  r[i].type = "WIFI_CONNECTED" <=> r[j].type # "WIFI_CONNECTED"
    <2>1. /\ IsWifi(q, i + 1) /\ i + 1 \in 1..n /\ i + 1 < j + 1
          /\ IsWifi(q, j + 1) /\ j + 1 \in 1..n
      BY <1>1, <1>2, <1>6
    <2>2. ASSUME NEW k \in (i + 1 + 1)..(j + 1 - 1) PROVE ~IsWifi(q, k)
      <3>1. k \in 2..n /\ k - 1 \in (i + 1)..(j - 1)
        BY <1>1, <2>1
      <3> QED BY <3>1, <1>3, <1>6
    <2>3. q[i + 1].type = "WIFI_CONNECTED" <=> q[j + 1].type # "WIFI_CONNECTED"
      BY <2>1, <2>2 DEF Reads, n
    <2> QED BY <1>1, <2>1, <2>3
  <1>7. ASSUME NoneOf(r, WifiEvents) PROVE ~old <=> new
    <2>1. ASSUME NEW k \in (1 + 1)..n PROVE ~IsWifi(q, k)
      <3>1. k \in 2..n /\ k - 1 \in 1..Len(r)
        BY <1>1
      <3> QED BY <3>1, <1>3, <1>7 DEF NoneOf, IsWifi
    <2>2. q[1].type = "WIFI_CONNECTED" <=> new
      BY <1>2, <2>1 DEF Reads, n
    <2> QED BY <2>2, <1>0
  <1> QED BY <1>0, <1>4, <1>5, <1>6, <1>7 DEF Reads, r

\* Taking an event, and possibly posting one that is not about WiFi.
TakesAny ==
    /\ queue # <<>>
    /\ \/ queue' = Tail(queue)
       \/ \E m : m.type \notin WifiEvents /\ queue' = Append(Tail(queue), m)

LEMMA OwnEventsNoWifi == OwnEvents \cap WifiEvents = {} /\ BleEvents \cap WifiEvents = {}
  BY DEF OwnEvents, PlainEvents, BleEvents, Answers, Releases, WifiEvents

LEMMA OrchestratorTakesAny == OrchestratorStep => Restarted \/ TakesAny
  <1> SUFFICES ASSUME OrchestratorStep PROVE Restarted \/ TakesAny
    OBVIOUS
  <1>1. CASE Takes
    <2>1. CASE queue' = Tail(queue)
      BY <1>1, <2>1 DEF Takes, TakesAny
    <2>2. CASE queue' # Tail(queue)
      <3>1. PICK e \in OwnEvents : queue' = Append(Tail(queue), Event(e))
        BY <1>1, <2>2 DEF Takes, Adds
      <3>2. Event(e).type \notin WifiEvents
        BY OwnEventsNoWifi DEF Event
      <3> QED BY <1>1, <3>1, <3>2 DEF Takes, TakesAny
    <2> QED BY <2>1, <2>2
  <1>2. CASE OnBleReleaseComplete /\ ~releaseToSleep /\ alertPending
    <2>1. queue # <<>> /\ EnterDispatchingAlert(Tail(queue))
      BY <1>2 DEF OnBleReleaseComplete, Arrives
    <2>2. CASE queue' = Tail(queue)
      BY <2>1, <2>2 DEF TakesAny
    <2>3. CASE queue' # Tail(queue)
      <3> DEFINE m == [type |-> "ALERT_DISPATCH_FAILED", ts |-> alertTs]
      <3>1. queue' = Append(Tail(queue), m)
        BY <2>1, <2>3 DEF EnterDispatchingAlert, SelfPosts
      <3>2. m.type \notin WifiEvents
        BY DEF WifiEvents
      <3> QED BY <2>1, <3>1, <3>2 DEF TakesAny
    <2> QED BY <2>2, <2>3
  <1> QED BY <1>1, <1>2, OrchestratorTakes

LEMMA WifiInvReads ==
    ASSUME WifiInv, state \in Follows, NEW old, old <=> state # "WAIT_WIFI",
           NEW new, new <=> wifi
    PROVE  Reads(queue, old, new)
  BY DEF WifiInv, Reads

LEMMA ReadsWifiInv ==
    ASSUME state' \in Follows =>
             \E old, new : /\ Reads(queue', old, new)
                           /\ old <=> state' # "WAIT_WIFI"
                           /\ new <=> wifi'
    PROVE  WifiInv'
  BY DEF WifiInv, Reads, NoneOf, IsWifi

LEMMA RestartedWifi == ASSUME Restarted PROVE WifiInv'
  <1>1. queue' = <<>> /\ state' = "WAIT_WIFI" /\ wifi' = FALSE
    BY DEF Restarted, Reboot
  <1>2. Reads(queue', FALSE, FALSE)
    BY <1>1, ReadsNothing
  <1> QED BY <1>1, <1>2, ReadsWifiInv

\* The orchestrator takes an event that is not about WiFi.
LEMMA OtherEventWifi ==
    ASSUME TypeOK, WifiInv, TakesAny, Head(queue).type \notin WifiEvents, wifi' = wifi,
           state' \in Follows => state \in Follows /\ (state = "WAIT_WIFI" <=> state' = "WAIT_WIFI")
    PROVE  WifiInv'
  <1> SUFFICES ASSUME state' \in Follows
               PROVE  \E old, new : /\ Reads(queue', old, new)
                                    /\ old <=> state' # "WAIT_WIFI"
                                    /\ new <=> wifi'
    BY ReadsWifiInv
  <1> DEFINE old == state # "WAIT_WIFI"
             new == wifi = TRUE
  <1>1. Reads(queue, old, new)
    BY WifiInvReads DEF TypeOK, FlagsOK
  <1>2. QueueOK(queue) /\ queue # <<>> /\ queue[1].type \notin WifiEvents /\ QueueOK(Tail(queue))
    BY Taken DEF TypeOK, TakesAny
  <1> HIDE DEF old, new
  <1>3. Reads(Tail(queue), old, new)
    BY <1>1, <1>2, ReadsTail
  <1>4. Reads(queue', old, new)
    BY <1>2, <1>3, ReadsAppended DEF TakesAny
  <1>5. (old <=> state' # "WAIT_WIFI") /\ (new <=> wifi')
    BY DEF old, new, TypeOK, FlagsOK
  <1> QED BY <1>4, <1>5

\* The orchestrator takes an event about WiFi: in a state that follows WiFi it is
\* news, so the event is handled.
LEMMA WifiEventWifi ==
    ASSUME TypeOK, WifiInv, TakesAny, Head(queue).type \in WifiEvents, wifi' = wifi,
           state' \in Follows =>
             /\ state \in Follows
             /\ (Head(queue).type = "WIFI_CONNECTED" <=> state = "WAIT_WIFI")
                  => (state = "WAIT_WIFI" <=> state' # "WAIT_WIFI")
    PROVE  WifiInv'
  <1> SUFFICES ASSUME state' \in Follows
               PROVE  \E old, new : /\ Reads(queue', old, new)
                                    /\ old <=> state' # "WAIT_WIFI"
                                    /\ new <=> wifi'
    BY ReadsWifiInv
  <1> DEFINE old == state # "WAIT_WIFI"
             new == wifi = TRUE
             now == ~old
  <1>1. Reads(queue, old, new)
    BY WifiInvReads DEF TypeOK, FlagsOK
  <1>2. /\ QueueOK(queue) /\ queue # <<>> /\ queue[1] = Head(queue)
        /\ QueueOK(Tail(queue)) /\ old \in BOOLEAN
    BY Taken DEF TypeOK, TakesAny
  <1>5. new <=> wifi'
    BY DEF new, TypeOK, FlagsOK
  <1> HIDE DEF old, new
  <1>3. /\ Head(queue).type = "WIFI_CONNECTED" <=> ~old
        /\ Reads(Tail(queue), ~old, new)
    BY <1>1, <1>2, ReadsHead
  <1>6. now <=> state' # "WAIT_WIFI"
    BY <1>3 DEF old
  <1> HIDE DEF now
  <1>4. Reads(queue', now, new)
    BY <1>2, <1>3, ReadsAppended DEF TakesAny, now
  <1> QED BY <1>4, <1>5, <1>6

LEMMA OrchestratorWifi ==
    ASSUME TypeOK, SessionInv, WifiInv, OrchestratorStep
    PROVE  WifiInv'
  <1>r. CASE Restarted
    BY <1>r, RestartedWifi
  <1>s. ASSUME NEW q, EnterSleep(q), activeMode # "VIGILANTE"
        PROVE  state' = "SLEEP" /\ wifi' = wifi
    BY <1>s DEF EnterSleep
  <1>v. ASSUME NEW q, EnterSleep(q), activeMode = "VIGILANTE"
        PROVE  Restarted
    BY <1>v DEF EnterSleep, Restarted
  <1> SUFFICES ASSUME TakesAny, ~Restarted PROVE WifiInv'
    BY <1>r, OrchestratorTakesAny
  <1> USE DEF Follows, WifiStates, States
  <1>1. CASE OnWifiDisconnected
    <2>1. /\ Head(queue).type \in WifiEvents /\ wifi' = wifi
          /\ state \in Follows /\ state # "WAIT_WIFI" /\ state' = "WAIT_WIFI"
      BY <1>1 DEF Arrives, WifiEvents, OnWifiDisconnected, EnterWaitWifi
    <2> QED BY <2>1, WifiEventWifi
  <1>2. CASE OnWifiConnected
    <2>1. Head(queue).type \in WifiEvents /\ state = "WAIT_WIFI"
      BY <1>2 DEF Arrives, WifiEvents, OnWifiConnected
    <2>2. state' \in {"SLEEP", "PREPARING_BLE"} /\ wifi' = wifi
      <3>1. CASE EnterSleep(Tail(queue))
        BY <3>1, <1>s, <1>v
      <3>2. CASE ~EnterSleep(Tail(queue))
        BY <1>2, <3>2 DEF OnWifiConnected, EnterPreparingBle
      <3> QED BY <3>1, <3>2
    <2> QED BY <2>1, <2>2, WifiEventWifi
  <1>3. CASE OnMotionInSleep
    <2>1. /\ Head(queue).type \notin WifiEvents /\ wifi' = wifi
          /\ state' \in Follows => state \in Follows
          /\ state # "WAIT_WIFI" /\ state' # "WAIT_WIFI"
      BY <1>3 DEF Arrives, WifiEvents, OnMotionInSleep, EnterPreparingBle
    <2> QED BY <2>1, OtherEventWifi
  <1>4. CASE OnBleReady
    <2>1. /\ Head(queue).type \notin WifiEvents /\ wifi' = wifi
          /\ state' \in Follows => state \in Follows
          /\ state # "WAIT_WIFI" /\ state' # "WAIT_WIFI"
      BY <1>4 DEF Arrives, WifiEvents, OnBleReady, EnterValidatingIdentity
    <2> QED BY <2>1, OtherEventWifi
  <1>5. CASE OnBleBusyPreparing
    <2>1. /\ EnterSleep(Tail(queue)) /\ Head(queue).type \notin WifiEvents
          /\ state \in Follows /\ state # "WAIT_WIFI"
      BY <1>5 DEF Arrives, WifiEvents, OnBleBusyPreparing
    <2>2. state' = "SLEEP" /\ wifi' = wifi
      BY <2>1, <1>s, <1>v
    <2> QED BY <2>1, <2>2, OtherEventWifi
  <1>6. CASE OnIdentityPresent
    <2>1. /\ Head(queue).type \notin WifiEvents /\ wifi' = wifi
          /\ state' \in Follows => state \in Follows
          /\ state # "WAIT_WIFI" /\ state' # "WAIT_WIFI"
      BY <1>6 DEF Arrives, WifiEvents, OnIdentityPresent, EnterReleasingBle
    <2> QED BY <2>1, OtherEventWifi
  <1>7. CASE OnIdentityRejected
    <2>1. /\ Head(queue).type \notin WifiEvents /\ wifi' = wifi
          /\ state' \in Follows => state \in Follows
          /\ state # "WAIT_WIFI" /\ state' # "WAIT_WIFI"
      BY <1>7 DEF Arrives, WifiEvents, OnIdentityRejected, EnterReleasingBle
    <2> QED BY <2>1, OtherEventWifi
  <1>8. CASE OnBleBusyValidating
    <2>1. /\ Head(queue).type \notin WifiEvents /\ wifi' = wifi
          /\ state' \in Follows => state \in Follows
          /\ state # "WAIT_WIFI" /\ state' # "WAIT_WIFI"
      BY <1>8 DEF Arrives, WifiEvents, OnBleBusyValidating, EnterReleasingBle
    <2> QED BY <2>1, OtherEventWifi
  <1>9. CASE OnBleReleaseComplete
    <2>1. state = "RELEASING_BLE" /\ Head(queue).type \notin WifiEvents
      BY <1>9 DEF OnBleReleaseComplete, Arrives, WifiEvents
    <2>2. state' \in {"SLEEP", "DISPATCHING_ALERT", "NET_DISCOVERY_SCAN"} /\ wifi' = wifi
      <3>1. CASE EnterSleep(Tail(queue))
        BY <3>1, <1>s, <1>v
      <3>2. CASE ~EnterSleep(Tail(queue))
        BY <1>9, <3>2 DEF OnBleReleaseComplete, EnterDispatchingAlert, EnterNetDiscoveryScan
      <3> QED BY <3>1, <3>2
    <2> QED BY <2>1, <2>2, OtherEventWifi
  <1>10. CASE OnBleReleaseFailed
    <2>1. /\ EnterSleep(Tail(queue)) /\ Head(queue).type \notin WifiEvents
          /\ state \in Follows /\ state # "WAIT_WIFI"
      BY <1>10 DEF Arrives, WifiEvents, OnBleReleaseFailed
    <2>2. state' = "SLEEP" /\ wifi' = wifi
      BY <2>1, <1>s, <1>v
    <2> QED BY <2>1, <2>2, OtherEventWifi
  <1>11. CASE OnNetDiscoveryEnds
    <2>1. /\ Head(queue).type \notin WifiEvents /\ wifi' = wifi
          /\ state' \in Follows => state \in Follows
          /\ state # "WAIT_WIFI" /\ state' # "WAIT_WIFI"
      BY <1>11 DEF Arrives, WifiEvents, OnNetDiscoveryEnds, EnterIgniting
    <2> QED BY <2>1, OtherEventWifi
  <1>12. CASE OnAlertResult
    <2>1. /\ Head(queue).type \notin WifiEvents /\ wifi' = wifi
          /\ state' \in Follows => state \in Follows
          /\ state # "WAIT_WIFI" /\ state' # "WAIT_WIFI"
      BY <1>12 DEF Arrives, WifiEvents, OnAlertResult, EnterIgniting, AlertResults
    <2> QED BY <2>1, OtherEventWifi
  <1>13. CASE OnWebrtcConnected
    <2>1. /\ Head(queue).type \notin WifiEvents /\ wifi' = wifi
          /\ state' \in Follows => state \in Follows
          /\ state # "WAIT_WIFI" /\ state' # "WAIT_WIFI"
      BY <1>13 DEF Arrives, WifiEvents, OnWebrtcConnected, EnterActive
    <2> QED BY <2>1, OtherEventWifi
  <1>14. CASE OnWebrtcDropped
    <2>1. /\ Head(queue).type \notin WifiEvents /\ wifi' = wifi
          /\ state' \in Follows => state \in Follows
          /\ state # "WAIT_WIFI" /\ state' # "WAIT_WIFI"
      BY <1>14 DEF Arrives, WifiEvents, OnWebrtcDropped, EnterStoppingWebrtc
    <2> QED BY <2>1, OtherEventWifi
  <1>15. CASE OnMicRequest
    <2>1. /\ Head(queue).type \notin WifiEvents /\ wifi' = wifi
          /\ state' \in Follows => state \in Follows
          /\ state # "WAIT_WIFI" /\ state' # "WAIT_WIFI"
      BY <1>15 DEF Arrives, WifiEvents, OnMicRequest, SetMute
    <2> QED BY <2>1, OtherEventWifi
  <1>16. CASE OnAutoSleepTimeout
    <2>1. /\ Head(queue).type \notin WifiEvents /\ wifi' = wifi
          /\ state' \in Follows => state \in Follows
          /\ state # "WAIT_WIFI" /\ state' # "WAIT_WIFI"
      BY <1>16 DEF Arrives, WifiEvents, OnAutoSleepTimeout, EnterStoppingWebrtc
    <2> QED BY <2>1, OtherEventWifi
  <1>17. CASE OnWebrtcStopped
    <2>1. state = "STOPPING_WEBRTC" /\ Head(queue).type \notin WifiEvents
      BY <1>17 DEF OnWebrtcStopped, Arrives, WifiEvents
    <2>2. state' \in {"SLEEP", "TEARING_DOWN_UI_FOR_SCAN"} /\ wifi' = wifi
      <3>1. CASE EnterSleep(Tail(queue))
        BY <3>1, <1>s, <1>v
      <3>2. CASE ~EnterSleep(Tail(queue))
        BY <1>17, <3>2 DEF OnWebrtcStopped, EnterTearingDownUi
      <3> QED BY <3>1, <3>2
    <2> QED BY <2>1, <2>2, OtherEventWifi
  <1>18. CASE OnRamFreed
    <2>1. /\ Head(queue).type \notin WifiEvents /\ wifi' = wifi
          /\ state' \in Follows => state \in Follows
          /\ state # "WAIT_WIFI" /\ state' # "WAIT_WIFI"
      BY <1>18 DEF Arrives, WifiEvents, OnRamFreed, EnterAutoArm
    <2> QED BY <2>1, OtherEventWifi
  <1>19. CASE OnBleReadyAutoArm
    <2>1. /\ Head(queue).type \notin WifiEvents /\ wifi' = wifi
          /\ state' \in Follows => state \in Follows
          /\ state # "WAIT_WIFI" /\ state' # "WAIT_WIFI"
      BY <1>19 DEF Arrives, WifiEvents, OnBleReadyAutoArm
    <2> QED BY <2>1, OtherEventWifi
  <1>20. CASE OnAutoArmVerdict
    BY <1>20 DEF OnAutoArmVerdict, Restarted
  <1>21. CASE OnFatalError
    <2>1. /\ Head(queue).type \notin WifiEvents /\ wifi' = wifi
          /\ state' \notin Follows
      BY <1>21 DEF Arrives, WifiEvents, OnFatalError
    <2> QED BY <2>1, OtherEventWifi
  <1>22. CASE IgnoreEvent
    <2>1. UNCHANGED <<state, wifi>>
      BY <1>22 DEF IgnoreEvent
    <2>2. CASE Head(queue).type \notin WifiEvents
      BY <2>1, <2>2, OtherEventWifi
    <2>3. CASE Head(queue).type \in WifiEvents
      <3>1. Head(queue).type \notin Handled(state)
        BY <1>22, <2>3 DEF IgnoreEvent, WifiEvents, AlertResults
      <3>2. state \in WifiStates => "WIFI_DISCONNECTED" \in Handled(state)
        BY DEF Handled
      <3>3. state = "WAIT_WIFI" => "WIFI_CONNECTED" \in Handled(state)
        BY DEF Handled
      <3>4. state \in Follows =>
              ~(Head(queue).type = "WIFI_CONNECTED" <=> state = "WAIT_WIFI")
        BY <2>3, <3>1, <3>2, <3>3 DEF WifiEvents
      <3> QED BY <2>1, <2>3, <3>4, WifiEventWifi
    <2> QED BY <2>2, <2>3
  <1> QED
    BY <1>1, <1>2, <1>3, <1>4, <1>5, <1>6, <1>7, <1>8, <1>9, <1>10, <1>11, <1>12,
       <1>13, <1>14, <1>15, <1>16, <1>17, <1>18, <1>19, <1>20, <1>21, <1>22
    DEF OrchestratorStep

\* Everybody else may post what is not about WiFi.
LEMMA BystanderWifi ==
    ASSUME TypeOK, WifiInv, UNCHANGED <<state, wifi>>,
           queue' = queue \/ \E m : m.type \notin WifiEvents /\ queue' = Append(queue, m)
    PROVE  WifiInv'
  <1> SUFFICES ASSUME state' \in Follows
               PROVE  \E old, new : /\ Reads(queue', old, new)
                                    /\ old <=> state' # "WAIT_WIFI"
                                    /\ new <=> wifi'
    BY ReadsWifiInv
  <1> DEFINE old == state # "WAIT_WIFI"
             new == wifi = TRUE
  <1>1. Reads(queue, old, new)
    BY WifiInvReads DEF TypeOK, FlagsOK
  <1>2. (old <=> state' # "WAIT_WIFI") /\ (new <=> wifi')
    BY DEF TypeOK, FlagsOK
  <1> HIDE DEF old, new
  <1>3. Reads(queue', old, new)
    BY <1>1, ReadsAppended DEF TypeOK
  <1> QED BY <1>2, <1>3

LEMMA AddsNoWifi ==
    ASSUME NEW T, T \cap WifiEvents = {}, Adds(queue, queue', T)
    PROVE  queue' = queue \/ \E m : m.type \notin WifiEvents /\ queue' = Append(queue, m)
  <1>1. CASE queue' # queue
    <2>1. PICK e \in T : queue' = Append(queue, Event(e))
      BY <1>1 DEF Adds
    <2>2. Event(e).type \notin WifiEvents
      BY DEF Event
    <2> QED BY <2>1, <2>2
  <1> QED BY <1>1

\* The driver reports each change of the link.
LEMMA DriverWifi ==
    ASSUME "drop" \notin Enabled, TypeOK, WifiInv, WifiConnects \/ WifiDisconnects
    PROVE  WifiInv'
  <1> SUFFICES ASSUME state' \in Follows
               PROVE  \E old, new : /\ Reads(queue', old, new)
                                    /\ old <=> state' # "WAIT_WIFI"
                                    /\ new <=> wifi'
    BY ReadsWifiInv
  <1> DEFINE old == state # "WAIT_WIFI"
             new == wifi = TRUE
  <1>1. PICK m : /\ queue' = Append(queue, m) /\ m.type \in WifiEvents
                 /\ m.type = "WIFI_CONNECTED" <=> ~new
                 /\ ~new <=> wifi'
    BY DEF WifiConnects, WifiDisconnects, Posts, Event, WifiEvents, TypeOK, FlagsOK
  <1>2. state' = state
    BY DEF WifiConnects, WifiDisconnects
  <1>3. Reads(queue, old, new)
    BY <1>2, WifiInvReads DEF TypeOK, FlagsOK
  <1>4. new \in BOOLEAN /\ (old <=> state' # "WAIT_WIFI")
    BY <1>2
  <1> HIDE DEF old, new
  <1>5. Reads(queue', old, ~new)
    BY <1>1, <1>3, <1>4, ReadsNews DEF TypeOK
  <1> QED BY <1>1, <1>4, <1>5

\* With no WiFi event in the queue, the orchestrator waits for WiFi exactly when
\* the station is down, as long as no event is dropped.
THEOREM WifiFollowed == ASSUME "drop" \notin Enabled PROVE Spec => []WifiAgrees
  <1>1. Init => WifiInv
    <2> SUFFICES ASSUME Init PROVE Reads(queue, state # "WAIT_WIFI", wifi)
      BY DEF WifiInv
    <2> QED BY DEF Init, InitWith, Reads
  <1>2. TypeOK /\ SessionInv /\ WifiInv /\ [Next]_vars => WifiInv'
    <2> SUFFICES ASSUME TypeOK, SessionInv, WifiInv, [Next]_vars PROVE WifiInv'
      OBVIOUS
    <2>1. CASE OrchestratorStep
      BY <2>1, OrchestratorWifi
    <2>2. CASE IdleAutoMute
      <3>1. UNCHANGED <<state, wifi, queue>>
        BY <2>2 DEF IdleAutoMute, SetMute
      <3> QED BY <3>1, BystanderWifi
    <2>3. CASE VigilanteEnds
      <3>1. /\ state = "ACTIVE" /\ state' = "STOPPING_WEBRTC" /\ wifi' = wifi
            /\ queue' = queue \/ queue' \in SelfPosts(queue, Event("WEBRTC_STOPPED"))
        BY <2>3 DEF VigilanteEnds, EnterStoppingWebrtc
      <3>2. queue' = queue \/ \E m : m.type \notin WifiEvents /\ queue' = Append(queue, m)
        BY <3>1 DEF SelfPosts, Event, WifiEvents
      <3> SUFFICES \E old, new : /\ Reads(queue', old, new)
                                 /\ old <=> state' # "WAIT_WIFI"
                                 /\ new <=> wifi'
        BY ReadsWifiInv
      <3>3. wifi \in BOOLEAN /\ state \in Follows
        BY <3>1 DEF TypeOK, FlagsOK, Follows, WifiStates, States
      <3>4. Reads(queue, TRUE, wifi)
        BY <3>1, <3>3, WifiInvReads
      <3>5. Reads(queue', TRUE, wifi)
        BY <3>2, <3>4, ReadsAppended DEF TypeOK
      <3> QED BY <3>1, <3>3, <3>5
    <2>4. CASE PlainStep
      <3>1. PlainEvents \cap WifiEvents = {}
        BY DEF PlainEvents
      <3> QED BY <2>4, <3>1, PlainAdds, AddsNoWifi, BystanderWifi
    <2>5. CASE BleTaskStep
      BY <2>5, BleTasksAdd, OwnEventsNoWifi, AddsNoWifi, BystanderWifi
    <2>6. CASE AlertTaskStep
      <3>1. /\ UNCHANGED <<state, wifi>>
            /\ queue' = queue \/ \E m : m.type \notin WifiEvents /\ queue' = Append(queue, m)
        BY <2>6 DEF AlertTaskStep, AlertPosts, AlertEnds, Posts, WifiEvents, AlertResults
      <3> QED BY <3>1, BystanderWifi
    <2>7. CASE WifiConnects \/ WifiDisconnects
      BY <2>7, DriverWifi
    <2>8. CASE RestartStep
      BY <2>8, RestartReboots, RestartedWifi DEF Restarted
    <2>9. CASE UNCHANGED vars
      BY <2>9, BystanderWifi
    <2> QED BY <2>1, <2>2, <2>3, <2>4, <2>5, <2>6, <2>7, <2>8, <2>9, StepsSplit
  <1>3. WifiInv => WifiAgrees
    BY DEF WifiInv, Reads, WifiAgrees, Follows, NoneOf, WifiEvents
  <1> QED BY <1>1, <1>2, <1>3, TypeCorrect, SessionSafe, PTL DEF Spec

-----------------------------------------------------------------------------
(* An alert is answered once.                                              *)

Untold(q, a) == \A i \in 1..Len(q) : q[i].ts # a

ToldOnce(q, a) ==
    \E i \in 1..Len(q) : q[i].ts = a /\ \A j \in 1..Len(q) : q[j].ts = a => j = i

Sends(a) == [ts |-> a, phase |-> "sending"]

\* Only results carry the identity of an alert; nobody speaks of the pending
\* alert before it is dispatched; from then on its task or its result does.
ResultsNameAlerts ==
    \A i \in 1..Len(queue) : queue[i].ts # NoAlert => queue[i].type \in AlertResults

PendingIsNamed == alertPending => alertTs # NoAlert

UnheardBefore ==
    state \notin {"DISPATCHING_ALERT", "FATAL_ERROR"} /\ alertTs # NoAlert
        => Sends(alertTs) \notin alertTasks /\ Untold(queue, alertTs)

OneAnswer ==
    state = "DISPATCHING_ALERT" =>
        \/ Sends(alertTs) \in alertTasks /\ Untold(queue, alertTs)
        \/ Sends(alertTs) \notin alertTasks /\ ToldOnce(queue, alertTs)

DispatchInv == ResultsNameAlerts /\ PendingIsNamed /\ UnheardBefore /\ OneAnswer

LEMMA ToldAppended ==
    ASSUME NEW q, QueueOK(q), NEW m, NEW a
    PROVE  /\ Untold(q, a) /\ m.ts # a => Untold(Append(q, m), a)
           /\ ToldOnce(q, a) /\ m.ts # a => ToldOnce(Append(q, m), a)
           /\ Untold(q, a) /\ m.ts = a => ToldOnce(Append(q, m), a)
  <1> DEFINE r == Append(q, m)
             n == Len(q)
  <1>1. n \in Nat /\ Len(r) = n + 1 /\ (\A i \in 1..n : r[i] = q[i]) /\ r[n + 1] = m
    BY Appended
  <1> HIDE DEF r, n
  <1>2. Untold(q, a) /\ m.ts # a => Untold(r, a)
    BY <1>1 DEF Untold, n
  <1>3. ASSUME ToldOnce(q, a), m.ts # a PROVE ToldOnce(r, a)
    <2>1. PICK i \in 1..n : q[i].ts = a /\ \A j \in 1..n : q[j].ts = a => j = i
      BY <1>3 DEF ToldOnce, n
    <2>2. i \in 1..Len(r) /\ r[i].ts = a
      BY <1>1, <2>1
    <2>3. ASSUME NEW j \in 1..Len(r), r[j].ts = a PROVE j = i
      <3>1. j \in 1..n
        BY <1>1, <1>3, <2>3
      <3> QED BY <1>1, <2>1, <2>3, <3>1
    <2> QED BY <2>2, <2>3 DEF ToldOnce
  <1>4. ASSUME Untold(q, a), m.ts = a PROVE ToldOnce(r, a)
    <2>1. n + 1 \in 1..Len(r) /\ r[n + 1].ts = a
      BY <1>1, <1>4
    <2>2. ASSUME NEW j \in 1..Len(r), r[j].ts = a PROVE j = n + 1
      BY <1>1, <1>4, <2>2 DEF Untold, n
    <2> QED BY <2>1, <2>2 DEF ToldOnce
  <1> QED BY <1>2, <1>3, <1>4 DEF r

LEMMA ToldTaken ==
    ASSUME NEW q, QueueOK(q), q # <<>>, NEW a
    PROVE  /\ Untold(q, a) => Untold(Tail(q), a)
           /\ ToldOnce(q, a) /\ Head(q).ts # a => ToldOnce(Tail(q), a)
  <1> DEFINE r == Tail(q)
             n == Len(q)
  <1>1. /\ n \in Nat \ {0} /\ Len(r) = n - 1 /\ Head(q) = q[1]
        /\ \A i \in 1..(n - 1) : r[i] = q[i + 1]
    BY Taken
  <1> HIDE DEF r, n
  <1>2. Untold(q, a) => Untold(r, a)
    BY <1>1 DEF Untold, n
  <1>3. ASSUME ToldOnce(q, a), Head(q).ts # a PROVE ToldOnce(r, a)
    <2>1. PICK i \in 1..n : q[i].ts = a /\ \A j \in 1..n : q[j].ts = a => j = i
      BY <1>3 DEF ToldOnce, n
    <2>2. i # 1
      BY <1>1, <1>3, <2>1
    <2>3. i - 1 \in 1..Len(r) /\ r[i - 1] = q[i]
      BY <1>1, <2>1, <2>2
    <2>4. ASSUME NEW j \in 1..Len(r), r[j].ts = a PROVE j = i - 1
      <3>1. j + 1 \in 1..n /\ q[j + 1].ts = a
        BY <1>1, <2>4
      <3>2. j + 1 = i
        BY <2>1, <3>1
      <3> QED BY <1>1, <3>2
    <2> QED BY <2>1, <2>3, <2>4 DEF ToldOnce
  <1> QED BY <1>2, <1>3 DEF r

LEMMA NamesAppended ==
    ASSUME NEW q, QueueOK(q), NEW m, m.ts # NoAlert => m.type \in AlertResults,
           \A i \in 1..Len(q) : q[i].ts # NoAlert => q[i].type \in AlertResults
    PROVE  \A i \in 1..Len(Append(q, m)) :
             Append(q, m)[i].ts # NoAlert => Append(q, m)[i].type \in AlertResults
  <1> DEFINE r == Append(q, m)
             n == Len(q)
  <1>1. n \in Nat /\ Len(r) = n + 1 /\ (\A i \in 1..n : r[i] = q[i]) /\ r[n + 1] = m
    BY Appended
  <1> HIDE DEF r, n
  <1>2. \A i \in 1..Len(r) : i = n + 1 \/ i \in 1..n
    BY <1>1
  <1>3. \A i \in 1..Len(r) : r[i].ts # NoAlert => r[i].type \in AlertResults
    BY <1>1, <1>2 DEF n
  <1> QED BY <1>3 DEF r

LEMMA NamesTaken ==
    ASSUME TypeOK, queue # <<>>, ResultsNameAlerts
    PROVE  \A i \in 1..Len(Tail(queue)) :
             Tail(queue)[i].ts # NoAlert => Tail(queue)[i].type \in AlertResults
  <1>1. /\ Len(queue) \in Nat \ {0} /\ Len(Tail(queue)) = Len(queue) - 1
        /\ \A i \in 1..(Len(queue) - 1) : Tail(queue)[i] = queue[i + 1]
    BY Taken DEF TypeOK
  <1>2. ASSUME NEW i \in 1..Len(Tail(queue))
        PROVE  i + 1 \in 1..Len(queue) /\ Tail(queue)[i] = queue[i + 1]
    BY <1>1
  <1> QED BY <1>2 DEF ResultsNameAlerts

\* What a plain post leaves of what a queue tells.
LEMMA ToldAdded ==
    ASSUME NEW q, QueueOK(q), NEW r, NEW T, Adds(q, r, T),
           \A i \in 1..Len(q) : q[i].ts # NoAlert => q[i].type \in AlertResults
    PROVE  /\ \A i \in 1..Len(r) : r[i].ts # NoAlert => r[i].type \in AlertResults
           /\ \A a : a # NoAlert /\ Untold(q, a) => Untold(r, a)
           /\ \A a : a # NoAlert /\ ToldOnce(q, a) => ToldOnce(r, a)
  <1>1. CASE r = q
    BY <1>1
  <1>2. CASE r # q
    <2>1. PICK e \in T : r = Append(q, Event(e))
      BY <1>2 DEF Adds
    <2>2. Event(e).ts = NoAlert
      BY DEF Event
    <2> QED BY <2>1, <2>2, ToldAppended, NamesAppended
  <1> QED BY <1>1, <1>2

LEMMA RestartedDispatch == ASSUME Restarted PROVE DispatchInv'
  BY DEF Restarted, Reboot, DispatchInv, ResultsNameAlerts, PendingIsNamed, UnheardBefore,
         OneAnswer

\* The orchestrator takes an event outside DISPATCHING_ALERT: it keeps the pending
\* alert, forgets it, or names one that nothing speaks of.
LEMMA OtherEventDispatch ==
    ASSUME TypeOK, DispatchInv, Takes, UNCHANGED alertTasks, state' # "DISPATCHING_ALERT",
           \/ state' = "FATAL_ERROR"
           \/ alertTs' = NoAlert
           \/ alertTs' = alertTs /\ state \notin {"DISPATCHING_ALERT", "FATAL_ERROR"}
           \/ alertTs' \notin AlertsInUse,
           alertPending' => alertTs' # NoAlert
    PROVE  DispatchInv'
  <1>1. /\ QueueOK(queue) /\ queue # <<>> /\ QueueOK(Tail(queue))
        /\ Adds(Tail(queue), queue', OwnEvents)
    BY Taken DEF TypeOK, Takes
  <1>2. \A i \in 1..Len(Tail(queue)) :
          Tail(queue)[i].ts # NoAlert => Tail(queue)[i].type \in AlertResults
    BY <1>1, NamesTaken DEF DispatchInv
  <1>3. ResultsNameAlerts'
    BY <1>1, <1>2, ToldAdded DEF ResultsNameAlerts
  <1>4. ASSUME NEW a, a # NoAlert, Untold(queue, a) PROVE Untold(queue', a)
    BY <1>1, <1>2, <1>4, ToldTaken, ToldAdded
  <1>5. alertTs' \notin AlertsInUse => Untold(queue, alertTs') /\ Sends(alertTs') \notin alertTasks
    <2> SUFFICES ASSUME alertTs' \notin AlertsInUse
                 PROVE  Untold(queue, alertTs') /\ Sends(alertTs') \notin alertTasks
      OBVIOUS
    <2>1. Untold(queue, alertTs')
      BY DEF AlertsInUse, Untold
    <2>2. Sends(alertTs').ts = alertTs'
      BY DEF Sends
    <2> QED BY <2>1, <2>2 DEF AlertsInUse
  <1>6. UnheardBefore'
    <2> SUFFICES ASSUME state' # "FATAL_ERROR", alertTs' # NoAlert
                 PROVE  Sends(alertTs') \notin alertTasks' /\ Untold(queue', alertTs')
      BY DEF UnheardBefore
    <2>1. Sends(alertTs') \notin alertTasks /\ Untold(queue, alertTs')
      BY <1>5 DEF DispatchInv, UnheardBefore
    <2> QED BY <1>4, <2>1
  <1> QED BY <1>3, <1>6 DEF DispatchInv, PendingIsNamed, OneAnswer

LEMMA SleepForgetsAlert ==
    ASSUME NEW q, EnterSleep(q), activeMode # "VIGILANTE"
    PROVE  state' = "SLEEP" /\ alertTs' = NoAlert /\ ~alertPending' /\ alertTasks' = alertTasks
  BY DEF EnterSleep, ResetAlertContext

LEMMA FreshIsFree ==
    ASSUME CanAlert PROVE FreshAlert \notin AlertsInUse /\ FreshAlert # NoAlert
  <1>1. FreshAlert \in AlertIds /\ FreshAlert \notin AlertsInUse
    BY DEF CanAlert, FreshAlert
  <1> QED BY <1>1, ConstantsAssumption DEF ConstantsAssumption

\* The entry of DISPATCHING_ALERT starts the task, or answers for it.
LEMMA DispatchStarts ==
    ASSUME "drop" \notin Enabled, TypeOK, SessionInv, DispatchInv,
           OnBleReleaseComplete, ~releaseToSleep, alertPending
    PROVE  DispatchInv'
  <1>1. /\ queue # <<>> /\ EnterDispatchingAlert(Tail(queue)) /\ state = "RELEASING_BLE"
        /\ UNCHANGED <<alertTs, alertPending>> /\ state' = "DISPATCHING_ALERT"
    BY DEF OnBleReleaseComplete, Arrives, EnterDispatchingAlert
  <1>2. /\ QueueOK(Tail(queue)) /\ Len(Tail(queue)) < QueueDepth
        /\ \A i \in 1..Len(Tail(queue)) :
             Tail(queue)[i].ts # NoAlert => Tail(queue)[i].type \in AlertResults
    <2>1. QueueOK(queue) /\ QueueDepth \in Nat
      BY ConstantsAssumption DEF ConstantsAssumption, TypeOK
    <2>2. Len(queue) <= QueueDepth
      BY <2>1 DEF QueueOK
    <2> QED BY <1>1, <2>1, <2>2, Taken, NamesTaken DEF DispatchInv
  <1>3. alertTs # NoAlert /\ Sends(alertTs) \notin alertTasks /\ Untold(queue, alertTs)
    BY <1>1 DEF DispatchInv, PendingIsNamed, UnheardBefore
  <1>4. Untold(Tail(queue), alertTs)
    BY <1>1, <1>3, ToldTaken DEF TypeOK
  <1>5. PendingIsNamed' /\ UnheardBefore'
    BY <1>1, <1>3 DEF PendingIsNamed, UnheardBefore
  <1>6. CASE /\ queue' = Tail(queue)
             /\ alertTasks' = alertTasks \cup {Sends(alertTs)}
    BY <1>1, <1>2, <1>4, <1>5, <1>6 DEF DispatchInv, ResultsNameAlerts, OneAnswer
  <1>7. CASE /\ queue' \in SelfPosts(Tail(queue), [type |-> "ALERT_DISPATCH_FAILED", ts |-> alertTs])
             /\ alertTasks' = alertTasks
    <2> DEFINE m == [type |-> "ALERT_DISPATCH_FAILED", ts |-> alertTs]
    <2>1. queue' = Append(Tail(queue), m)
      BY <1>2, <1>7 DEF SelfPosts
    <2>2. m.ts = alertTs /\ m.type \in AlertResults
      BY DEF AlertResults
    <2> HIDE DEF m
    <2>3. ToldOnce(queue', alertTs)
      BY <1>2, <1>4, <2>1, <2>2, ToldAppended
    <2>4. ResultsNameAlerts'
      BY <1>2, <2>1, <2>2, NamesAppended DEF ResultsNameAlerts
    <2> QED BY <1>1, <1>3, <1>5, <1>7, <2>3, <2>4 DEF DispatchInv, OneAnswer
  <1> QED BY <1>1, <1>6, <1>7 DEF EnterDispatchingAlert, Sends

\* In DISPATCHING_ALERT an event that is ignored is no answer to the alert.
LEMMA IgnoredDispatch ==
    ASSUME TypeOK, SessionInv, DispatchInv, IgnoreEvent
    PROVE  DispatchInv'
  <1>1. /\ queue # <<>> /\ queue' = Tail(queue)
        /\ UNCHANGED <<state, alertTs, alertPending, alertTasks>>
    BY DEF IgnoreEvent
  <1>2. QueueOK(queue) /\ Len(queue) \in Nat \ {0} /\ Head(queue) = queue[1]
    BY <1>1, Taken DEF TypeOK
  <1>3. ResultsNameAlerts'
    BY <1>1, NamesTaken DEF DispatchInv, ResultsNameAlerts
  <1>4. UnheardBefore' /\ PendingIsNamed'
    BY <1>1, <1>2, ToldTaken DEF DispatchInv, UnheardBefore, PendingIsNamed
  <1>5. ASSUME state = "DISPATCHING_ALERT" PROVE OneAnswer'
    <2>1. alertTs # NoAlert
      BY <1>5 DEF SessionInv, VerdictPending, DispatchInv, PendingIsNamed
    <2>2. Head(queue).ts # alertTs
      <3> SUFFICES ASSUME Head(queue).ts = alertTs PROVE FALSE
        OBVIOUS
      <3>1. Head(queue).type \in AlertResults
        BY <1>2, <2>1 DEF DispatchInv, ResultsNameAlerts
      <3>2. AlertResults \subseteq Handled(state)
        BY <1>5 DEF Handled
      <3> QED BY <3>1, <3>2 DEF IgnoreEvent, AlertResultMatches
    <2> QED BY <1>1, <1>2, <1>5, <2>2, ToldTaken DEF DispatchInv, OneAnswer
  <1> QED BY <1>1, <1>3, <1>4, <1>5 DEF DispatchInv, OneAnswer

LEMMA OrchestratorDispatch ==
    ASSUME "drop" \notin Enabled, TypeOK, SessionInv, DispatchInv, OrchestratorStep
    PROVE  DispatchInv'
  <1>r. CASE Restarted
    BY <1>r, RestartedDispatch
  <1>d. CASE OnBleReleaseComplete /\ ~releaseToSleep /\ alertPending
    BY <1>d, DispatchStarts
  <1> SUFFICES ASSUME Takes, ~Restarted, ~(OnBleReleaseComplete /\ ~releaseToSleep /\ alertPending)
               PROVE  DispatchInv'
    BY <1>r, <1>d, OrchestratorTakes
  <1>z. ASSUME NEW q, EnterSleep(q) PROVE DispatchInv'
    <2>1. activeMode # "VIGILANTE"
      BY <1>z DEF EnterSleep, Restarted
    <2> QED BY <1>z, <2>1, SleepForgetsAlert, OtherEventDispatch
  <1>p. alertPending => alertTs # NoAlert
    BY DEF DispatchInv, PendingIsNamed
  <1>1. CASE OnWifiDisconnected
    BY <1>1, <1>p, OtherEventDispatch DEF OnWifiDisconnected, EnterWaitWifi, ResetAlertContext
  <1>2. CASE OnWifiConnected
    BY <1>2, <1>p, <1>z, OtherEventDispatch DEF OnWifiConnected, EnterPreparingBle
  <1>3. CASE OnMotionInSleep
    BY <1>3, FreshIsFree, OtherEventDispatch DEF OnMotionInSleep, EnterPreparingBle
  <1>4. CASE OnBleReady
    BY <1>4, <1>p, OtherEventDispatch DEF OnBleReady, EnterValidatingIdentity
  <1>5. CASE OnBleBusyPreparing
    BY <1>5, <1>z DEF OnBleBusyPreparing
  <1>6. CASE OnIdentityPresent
    BY <1>6, <1>p, OtherEventDispatch DEF OnIdentityPresent, EnterReleasingBle
  <1>7. CASE OnIdentityRejected
    BY <1>7, FreshIsFree, OtherEventDispatch DEF OnIdentityRejected, EnterReleasingBle
  <1>8. CASE OnBleBusyValidating
    BY <1>8, <1>p, OtherEventDispatch DEF OnBleBusyValidating, EnterReleasingBle, ResetAlertContext
  <1>9. CASE OnBleReleaseComplete
    <2>1. CASE releaseToSleep
      BY <1>9, <2>1, <1>z DEF OnBleReleaseComplete
    <2>2. CASE ~releaseToSleep /\ ~alertPending
      <3>1. /\ state = "RELEASING_BLE" /\ state' = "NET_DISCOVERY_SCAN"
            /\ UNCHANGED <<alertTs, alertPending, alertTasks>>
        BY <1>9, <2>2 DEF OnBleReleaseComplete, EnterNetDiscoveryScan
      <3> QED BY <1>p, <3>1, OtherEventDispatch
    <2> QED BY <1>9, <2>1, <2>2
  <1>10. CASE OnBleReleaseFailed
    BY <1>10, <1>z DEF OnBleReleaseFailed
  <1>11. CASE OnNetDiscoveryEnds
    BY <1>11, <1>p, OtherEventDispatch DEF OnNetDiscoveryEnds, EnterIgniting
  <1>12. CASE OnAlertResult
    BY <1>12, <1>p, OtherEventDispatch DEF OnAlertResult, EnterIgniting, ResetAlertContext
  <1>13. CASE OnWebrtcConnected
    BY <1>13, <1>p, OtherEventDispatch DEF OnWebrtcConnected, EnterActive
  <1>14. CASE OnWebrtcDropped
    BY <1>14, <1>p, OtherEventDispatch DEF OnWebrtcDropped, EnterStoppingWebrtc
  <1>15. CASE OnMicRequest
    BY <1>15, <1>p, OtherEventDispatch DEF OnMicRequest, SetMute
  <1>16. CASE OnAutoSleepTimeout
    BY <1>16, <1>p, OtherEventDispatch DEF OnAutoSleepTimeout, EnterStoppingWebrtc
  <1>17. CASE OnWebrtcStopped
    <2>1. CASE teardownUiPending
      <3>1. /\ state = "STOPPING_WEBRTC" /\ state' = "TEARING_DOWN_UI_FOR_SCAN"
            /\ UNCHANGED <<alertTs, alertPending, alertTasks>>
        BY <1>17, <2>1 DEF OnWebrtcStopped, EnterTearingDownUi
      <3> QED BY <1>p, <3>1, OtherEventDispatch
    <2>2. CASE ~teardownUiPending
      BY <1>17, <2>2, <1>z DEF OnWebrtcStopped
    <2> QED BY <2>1, <2>2
  <1>18. CASE OnRamFreed
    BY <1>18, <1>p, OtherEventDispatch DEF OnRamFreed, EnterAutoArm
  <1>19. CASE OnBleReadyAutoArm
    BY <1>19, <1>p, OtherEventDispatch DEF OnBleReadyAutoArm
  <1>20. CASE OnAutoArmVerdict
    BY <1>20 DEF OnAutoArmVerdict, Restarted
  <1>21. CASE OnFatalError
    BY <1>21, <1>p, OtherEventDispatch DEF OnFatalError
  <1>22. CASE IgnoreEvent
    BY <1>22, IgnoredDispatch
  <1> QED
    BY <1>1, <1>2, <1>3, <1>4, <1>5, <1>6, <1>7, <1>8, <1>9, <1>10, <1>11, <1>12,
       <1>13, <1>14, <1>15, <1>16, <1>17, <1>18, <1>19, <1>20, <1>21, <1>22
    DEF OrchestratorStep

\* Everybody but the alert tasks leaves the alerts alone and posts plain events.
LEMMA BystanderDispatch ==
    ASSUME TypeOK, DispatchInv, SessionInv, NEW T, Adds(queue, queue', T),
           UNCHANGED <<state, alertTs, alertPending, alertTasks>>
    PROVE  DispatchInv'
  <1>1. /\ ResultsNameAlerts'
        /\ \A a : a # NoAlert /\ Untold(queue, a) => Untold(queue', a)
        /\ \A a : a # NoAlert /\ ToldOnce(queue, a) => ToldOnce(queue', a)
    BY ToldAdded DEF TypeOK, DispatchInv, ResultsNameAlerts
  <1>2. state = "DISPATCHING_ALERT" => alertTs # NoAlert
    BY DEF SessionInv, VerdictPending, DispatchInv, PendingIsNamed
  <1> QED BY <1>1, <1>2 DEF DispatchInv, PendingIsNamed, UnheardBefore, OneAnswer

\* An alert task that posts speaks of its own alert only.
LEMMA AlertTaskDispatch ==
    ASSUME "drop" \notin Enabled, TypeOK, DispatchInv, AlertTaskStep
    PROVE  DispatchInv'
  <1>1. PICK t \in alertTasks : AlertPosts(t) \/ AlertEnds(t)
    BY DEF AlertTaskStep
  <1>2. UNCHANGED <<state, alertTs, alertPending>>
    BY <1>1 DEF AlertPosts, AlertEnds
  <1>3. t \in [ts : AlertRefs, phase : {"sending", "posted"}]
    BY DEF TypeOK, PhasesOK, AlertTasks
  <1>4. CASE AlertEnds(t)
    <2>1. queue' = queue /\ t.phase = "posted" /\ alertTasks' = alertTasks \ {t}
      BY <1>4 DEF AlertEnds
    <2>2. \A a : Sends(a) \in alertTasks' <=> Sends(a) \in alertTasks
      BY <2>1 DEF Sends
    <2> QED BY <1>2, <2>1, <2>2
            DEF DispatchInv, ResultsNameAlerts, PendingIsNamed, UnheardBefore, OneAnswer
  <1>5. CASE AlertPosts(t)
    <2>1. PICK e \in AlertResults : queue' = Append(queue, [type |-> e, ts |-> t.ts])
      BY <1>5 DEF AlertPosts, Posts
    <2>2. /\ t = Sends(t.ts)
          /\ alertTasks' = (alertTasks \ {t}) \cup {[t EXCEPT !.phase = "posted"]}
      BY <1>3, <1>5 DEF AlertPosts, Sends
    <2>3. \A a : Sends(a) \in alertTasks' <=> Sends(a) \in alertTasks /\ a # t.ts
      <3>1. \A a : Sends(a).phase = "sending" /\ Sends(a).ts = a
        BY DEF Sends
      <3>2. [t EXCEPT !.phase = "posted"].phase = "posted"
        BY <1>3
      <3> QED BY <2>2, <3>1, <3>2
    <2> DEFINE m == [type |-> e, ts |-> t.ts]
    <2>4. m.ts = t.ts /\ m.type \in AlertResults /\ queue' = Append(queue, m)
      BY <2>1
    <2> HIDE DEF m
    <2>5. ResultsNameAlerts'
      BY <2>4, NamesAppended DEF TypeOK, DispatchInv, ResultsNameAlerts
    <2>6. \A a : /\ Untold(queue, a) /\ t.ts # a => Untold(queue', a)
                 /\ ToldOnce(queue, a) /\ t.ts # a => ToldOnce(queue', a)
                 /\ Untold(queue, a) /\ t.ts = a => ToldOnce(queue', a)
      BY <2>4, ToldAppended DEF TypeOK
    <2>7. Sends(t.ts) \in alertTasks
      BY <2>2
    <2>8. UnheardBefore'
      BY <1>2, <2>3, <2>6, <2>7 DEF DispatchInv, UnheardBefore
    <2>9. OneAnswer'
      BY <1>2, <2>3, <2>6, <2>7 DEF DispatchInv, OneAnswer
    <2> QED BY <1>2, <2>5, <2>8, <2>9 DEF DispatchInv, PendingIsNamed
  <1> QED BY <1>1, <1>4, <1>5

LEMMA OneAnswerCounts == TypeOK /\ DispatchInv => DispatchAnsweredOnce
  <1> SUFFICES ASSUME TypeOK, DispatchInv, state = "DISPATCHING_ALERT"
               PROVE  Cardinality({i \in 1..Len(queue) : queue[i].ts = alertTs})
                        + Cardinality({t \in alertTasks : t.ts = alertTs /\ t.phase = "sending"}) = 1
    BY DEF DispatchAnsweredOnce
  <1> DEFINE Q == {i \in 1..Len(queue) : queue[i].ts = alertTs}
             A == {t \in alertTasks : t.ts = alertTs /\ t.phase = "sending"}
  <1>1. \A t \in alertTasks : t.ts = alertTs /\ t.phase = "sending" <=> t = Sends(alertTs)
    BY DEF TypeOK, PhasesOK, AlertTasks, Sends
  <1>2. CASE Sends(alertTs) \in alertTasks /\ Untold(queue, alertTs)
    <2>1. Q = {} /\ A = {Sends(alertTs)}
      BY <1>1, <1>2 DEF Untold
    <2>2. Cardinality(Q) = 0 /\ Cardinality(A) = 1
      BY <2>1, FS_EmptySet, FS_Singleton
    <2> QED BY <2>2
  <1>3. CASE Sends(alertTs) \notin alertTasks /\ ToldOnce(queue, alertTs)
    <2>1. A = {}
      BY <1>1, <1>3
    <2>2. PICK i \in 1..Len(queue) : queue[i].ts = alertTs
                                     /\ \A j \in 1..Len(queue) : queue[j].ts = alertTs => j = i
      BY <1>3 DEF ToldOnce
    <2>3. Q = {i}
      BY <2>2
    <2>4. Cardinality(Q) = 1 /\ Cardinality(A) = 0
      BY <2>1, <2>3, FS_EmptySet, FS_Singleton
    <2> QED BY <2>4
  <1> QED BY <1>2, <1>3 DEF DispatchInv, OneAnswer

\* While an alert is dispatched, its result is on its way exactly once, also when
\* a loss of WiFi has orphaned the task of an earlier alert.
THEOREM DispatchAnswered == ASSUME "drop" \notin Enabled PROVE Spec => []DispatchAnsweredOnce
  <1>1. Init => DispatchInv
    BY DEF Init, InitWith, DispatchInv, ResultsNameAlerts, PendingIsNamed, UnheardBefore, OneAnswer
  <1>2. TypeOK /\ SessionInv /\ DispatchInv /\ [Next]_vars => DispatchInv'
    <2> SUFFICES ASSUME TypeOK, SessionInv, DispatchInv, [Next]_vars PROVE DispatchInv'
      OBVIOUS
    <2>1. CASE OrchestratorStep
      BY <2>1, OrchestratorDispatch
    <2>2. CASE IdleAutoMute \/ UNCHANGED vars
      <3>1. UNCHANGED <<queue, state, alertTs, alertPending, alertTasks>>
        BY <2>2 DEF IdleAutoMute, SetMute
      <3>2. Adds(queue, queue', {})
        BY <3>1 DEF Adds
      <3> QED BY <3>1, <3>2, BystanderDispatch
    <2>3. CASE VigilanteEnds
      <3>1. /\ state' = "STOPPING_WEBRTC" /\ alertTs' = NoAlert /\ ~alertPending'
            /\ queue' = queue \/ queue' \in SelfPosts(queue, Event("WEBRTC_STOPPED"))
        BY <2>3 DEF VigilanteEnds, EnterStoppingWebrtc, ResetAlertContext
      <3>2. Adds(queue, queue', {"WEBRTC_STOPPED"})
        <4>1. CASE queue' = queue
          BY <4>1 DEF Adds
        <4>2. CASE queue' \in SelfPosts(queue, Event("WEBRTC_STOPPED"))
          BY <4>2, PostsAdd
        <4> QED BY <3>1, <4>1, <4>2
      <3>3. ResultsNameAlerts'
        BY <3>2, ToldAdded DEF TypeOK, DispatchInv, ResultsNameAlerts
      <3> QED BY <3>1, <3>3 DEF DispatchInv, PendingIsNamed, UnheardBefore, OneAnswer
    <2>4. CASE PlainStep
      BY <2>4, PlainAdds, BystanderDispatch
    <2>5. CASE BleTaskStep
      BY <2>5, BleTasksAdd, BystanderDispatch
    <2>6. CASE AlertTaskStep
      BY <2>6, AlertTaskDispatch
    <2>7. CASE WifiConnects \/ WifiDisconnects
      <3>1. /\ UNCHANGED <<state, alertTs, alertPending, alertTasks>>
            /\ Adds(queue, queue', WifiEvents)
        BY <2>7, PostsAdd DEF WifiConnects, WifiDisconnects, WifiEvents
      <3> QED BY <3>1, BystanderDispatch
    <2>8. CASE RestartStep
      BY <2>8, RestartReboots, RestartedDispatch DEF Restarted
    <2> QED BY <2>1, <2>2, <2>3, <2>4, <2>5, <2>6, <2>7, <2>8, StepsSplit
  <1> QED BY <1>1, <1>2, OneAnswerCounts, TypeCorrect, SessionSafe, PTL DEF Spec

-----------------------------------------------------------------------------
(* The BLE stack is down while a session runs.                             *)

Losses    == {"WIFI_DISCONNECTED"}
Completes == {"BLE_RELEASE_COMPLETE"}
Verifying == {"PREPARING_BLE", "VALIDATING_IDENTITY"}
Headless  == {"AUTO_ARM_BLE_SCANNING", "FATAL_ERROR"}
NeedsNimbleDown == {"NET_DISCOVERY_SCAN", "DISPATCHING_ALERT", "IGNITING", "ACTIVE"}

PrepWorks == prepTask \notin {"none", "posted"}
RelWorks  == relTask \notin {"none", "posted"}

\* There is one answer on its way to a state that waits for it, as a task or as
\* an event, and none on its way to any other state.
AnswerTokens ==
    /\ state \notin Verifying \cup Headless =>
         ~PrepWorks /\ validation = "idle" /\ NoneOf(queue, Answers)
    /\ state \in Verifying => AtMostOneOf(queue, Answers)
    /\ state \in Verifying /\ (PrepWorks \/ validation # "idle") => NoneOf(queue, Answers)
    /\ state = "PREPARING_BLE" => validation = "idle"
    /\ state = "VALIDATING_IDENTITY" => ~PrepWorks

ReleaseTokens ==
    /\ state \notin {"RELEASING_BLE", "FATAL_ERROR"} => ~RelWorks /\ NoneOf(queue, Releases)
    /\ state = "RELEASING_BLE" => AtMostOneOf(queue, Releases)
    /\ state = "RELEASING_BLE" /\ RelWorks => NoneOf(queue, Releases)
    /\ state = "RELEASING_BLE" =>
         ble = "off" \/ (relTask # "complete" /\ NoneOf(queue, Completes))

StackDown == state \in NeedsNimbleDown => ble = "off"

NimbleInv ==
    flaps = 0 => NoneOf(queue, Losses) /\ AnswerTokens /\ ReleaseTokens /\ StackDown

\* Nothing is on its way to the orchestrator, once it has taken its event.
NothingComes(q) ==
    /\ ~PrepWorks /\ ~RelWorks /\ validation = "idle"
    /\ NoneOf(q, Answers) /\ NoneOf(q, Releases) /\ NoneOf(q, Losses)

LEMMA NimbleSets ==
    /\ Answers \cap Releases = {} /\ Answers \cap Losses = {} /\ Releases \cap Losses = {}
    /\ Completes \subseteq Releases
    /\ \A q : NoneOf(q, Releases) => NoneOf(q, Completes)
  BY DEF Answers, Releases, Losses, Completes, NoneOf

LEMMA NothingInNothing == \A T : NoneOf(<<>>, T) /\ AtMostOneOf(<<>>, T)
  BY DEF NoneOf, AtMostOneOf

LEMMA RestartedNimble == ASSUME Restarted PROVE NimbleInv'
  <1>1. /\ state' = "WAIT_WIFI" /\ queue' = <<>> /\ prepTask' = "none" /\ relTask' = "none"
        /\ validation' = "idle"
    BY DEF Restarted, Reboot
  <1>2. NoneOf(queue', Losses) /\ NoneOf(queue', Answers) /\ NoneOf(queue', Releases)
    BY <1>1, NothingInNothing
  <1> QED BY <1>1, <1>2 DEF NimbleInv, AnswerTokens, ReleaseTokens, StackDown, PrepWorks,
                            RelWorks, Verifying, Headless, NeedsNimbleDown

\* What is on its way stays so when others post.
LEMMA BystanderNimble ==
    ASSUME TypeOK, NimbleInv, NEW q, QueueOK(q), UNCHANGED <<bleVars, flaps>>,
           queue' = q \/ \E m : m.type \notin BleEvents \cup Losses /\ queue' = Append(q, m),
           \A T : (NoneOf(queue, T) => NoneOf(q, T)) /\ (AtMostOneOf(queue, T) => AtMostOneOf(q, T)),
           \/ state' = state
           \/ state' = "FATAL_ERROR"
           \/ /\ state \notin Verifying \cup Headless \cup {"RELEASING_BLE"}
              /\ state' \notin Verifying \cup Headless \cup {"RELEASING_BLE"}
              /\ state' \in NeedsNimbleDown => state \in NeedsNimbleDown
    PROVE  NimbleInv'
  <1> SUFFICES ASSUME flaps = 0
               PROVE  NoneOf(queue', Losses) /\ AnswerTokens' /\ ReleaseTokens' /\ StackDown'
    BY DEF NimbleInv
  <1>0. NoneOf(queue, Losses) /\ AnswerTokens /\ ReleaseTokens /\ StackDown
    BY DEF NimbleInv
  <1>1. ASSUME NEW T, T \subseteq BleEvents \cup Losses
        PROVE  /\ NoneOf(queue, T) => NoneOf(queue', T)
               /\ AtMostOneOf(queue, T) => AtMostOneOf(queue', T)
    <2>1. CASE queue' = q
      BY <2>1
    <2>2. CASE queue' # q
      <3>1. PICK m : m.type \notin BleEvents \cup Losses /\ queue' = Append(q, m)
        BY <2>2
      <3>2. m.type \notin T
        BY <1>1, <3>1
      <3> QED BY <3>1, <3>2, AppendedTypes
    <2> QED BY <2>1, <2>2
  <1>2. /\ NoneOf(queue, Answers) => NoneOf(queue', Answers)
        /\ NoneOf(queue, Releases) => NoneOf(queue', Releases)
        /\ NoneOf(queue, Losses) => NoneOf(queue', Losses)
        /\ NoneOf(queue, Completes) => NoneOf(queue', Completes)
        /\ AtMostOneOf(queue, Answers) => AtMostOneOf(queue', Answers)
        /\ AtMostOneOf(queue, Releases) => AtMostOneOf(queue', Releases)
    BY <1>1, NimbleSets DEF BleEvents
  <1>3. AnswerTokens'
    BY <1>0, <1>2 DEF AnswerTokens, PrepWorks, Verifying, Headless
  <1>4. ReleaseTokens'
    BY <1>0, <1>2 DEF ReleaseTokens, RelWorks, Headless
  <1>5. StackDown'
    BY <1>0 DEF StackDown, NeedsNimbleDown
  <1> QED BY <1>0, <1>2, <1>3, <1>4, <1>5

LEMMA ScanSilent ==
    ASSUME validation = "idle", NEW q
    PROVE  ScanAborts(q) = {q} /\ ScanAbortsSelf(q) = {q}
  BY DEF ScanAborts, ScanAbortsSelf

LEMMA SleepNimble ==
    ASSUME NEW q, EnterSleep(q), flaps = 0 => NothingComes(q)
    PROVE  NimbleInv'
  <1>1. CASE activeMode = "VIGILANTE"
    BY <1>1, RestartedNimble DEF EnterSleep, Restarted
  <1>2. CASE activeMode # "VIGILANTE"
    <2>1. /\ state' = "SLEEP" /\ validation' = "idle" /\ queue' \in ScanAbortsSelf(q)
          /\ UNCHANGED <<prepTask, relTask, flaps>>
      BY <1>2 DEF EnterSleep
    <2>2. flaps = 0 => queue' = q
      BY <2>1, ScanSilent DEF NothingComes
    <2> QED BY <2>1, <2>2 DEF NimbleInv, NothingComes, AnswerTokens, ReleaseTokens, StackDown,
              PrepWorks, RelWorks, Verifying, Headless, NeedsNimbleDown
  <1> QED BY <1>1, <1>2

\* A start of the prepare task answers by itself or by the event it posts.
LEMMA PreparingNimble ==
    ASSUME NEW q, QueueOK(q), EnterPreparingBle(q), flaps = 0 => NothingComes(q)
    PROVE  NimbleInv'
  <1> SUFFICES ASSUME flaps = 0
               PROVE  NoneOf(queue', Losses) /\ AnswerTokens' /\ ReleaseTokens' /\ StackDown'
    BY DEF NimbleInv, EnterPreparingBle
  <1>1. /\ state' = "PREPARING_BLE" /\ StartBlePrepare(q)
        /\ UNCHANGED <<ble, validation, relTask>>
    BY DEF EnterPreparingBle
  <1>2. CASE queue' = q
    <2>1. NoneOf(queue', Answers) => AtMostOneOf(queue', Answers)
      BY DEF NoneOf, AtMostOneOf
    <2> QED BY <1>1, <1>2, <2>1 DEF NothingComes, AnswerTokens, ReleaseTokens, StackDown,
          RelWorks, Verifying, Headless, NeedsNimbleDown
  <1>3. CASE queue' # q
    <2>1. Adds(q, queue', {"BLE_BUSY"}) /\ prepTask' = prepTask
      BY <1>1, <1>3, PostsAdd DEF StartBlePrepare
    <2>2. NoneOf(queue', Losses) /\ NoneOf(queue', Releases) /\ AtMostOneOf(queue', Answers)
      BY <2>1, AddedTypes DEF NothingComes, Losses, Releases
    <2> QED BY <1>1, <2>1, <2>2 DEF NothingComes, AnswerTokens, ReleaseTokens, StackDown,
          PrepWorks, RelWorks, Verifying, Headless, NeedsNimbleDown
  <1> QED BY <1>2, <1>3

LEMMA ValidatingNimble ==
    ASSUME NEW q, QueueOK(q), EnterValidatingIdentity(q), flaps = 0 => NothingComes(q)
    PROVE  NimbleInv'
  <1> SUFFICES ASSUME flaps = 0
               PROVE  NoneOf(queue', Losses) /\ AnswerTokens' /\ ReleaseTokens' /\ StackDown'
    BY DEF NimbleInv, EnterValidatingIdentity
  <1>1. /\ state' = "VALIDATING_IDENTITY" /\ StartIdentityValidation(q)
        /\ UNCHANGED <<ble, prepTask, relTask>>
    BY DEF EnterValidatingIdentity
  <1>2. CASE queue' = q
    <2>1. NoneOf(queue', Answers) => AtMostOneOf(queue', Answers)
      BY DEF NoneOf, AtMostOneOf
    <2> QED BY <1>1, <1>2, <2>1 DEF NothingComes, AnswerTokens, ReleaseTokens, StackDown,
          PrepWorks, RelWorks, Verifying, Headless, NeedsNimbleDown
  <1>3. CASE queue' # q
    <2>1. Adds(q, queue', {"BLE_BUSY"}) /\ validation' = validation
      BY <1>1, <1>3, PostsAdd DEF StartIdentityValidation
    <2>2. NoneOf(queue', Losses) /\ NoneOf(queue', Releases) /\ AtMostOneOf(queue', Answers)
      BY <2>1, AddedTypes DEF NothingComes, Losses, Releases
    <2> QED BY <1>1, <2>1, <2>2 DEF NothingComes, AnswerTokens, ReleaseTokens, StackDown,
          PrepWorks, RelWorks, Verifying, Headless, NeedsNimbleDown
  <1> QED BY <1>2, <1>3

LEMMA ReleasingNimble ==
    ASSUME NEW q, QueueOK(q), EnterReleasingBle(q), flaps = 0 => NothingComes(q)
    PROVE  NimbleInv'
  <1> SUFFICES ASSUME flaps = 0
               PROVE  NoneOf(queue', Losses) /\ AnswerTokens' /\ ReleaseTokens' /\ StackDown'
    BY DEF NimbleInv, EnterReleasingBle
  <1>1. /\ state' = "RELEASING_BLE" /\ UNCHANGED <<ble, prepTask, validation>>
        /\ \/ relTask' \in {"running", relTask} /\ queue' = q
           \/ relTask' = relTask /\ queue' \in SelfPosts(q, Event("BLE_RELEASE_FAILED"))
    BY DEF EnterReleasingBle
  <1>2. relTask' # "complete" /\ NoneOf(q, Completes)
    BY <1>1, NimbleSets DEF NothingComes, RelWorks
  <1>3. CASE queue' = q
    <2>1. NoneOf(queue', Releases) => AtMostOneOf(queue', Releases)
      BY DEF NoneOf, AtMostOneOf
    <2> QED BY <1>1, <1>2, <1>3, <2>1 DEF NothingComes, AnswerTokens, ReleaseTokens, StackDown,
          PrepWorks, Verifying, Headless, NeedsNimbleDown
  <1>4. CASE queue' # q
    <2>1. Adds(q, queue', {"BLE_RELEASE_FAILED"}) /\ relTask' = relTask
      BY <1>1, <1>4, PostsAdd
    <2>2. /\ NoneOf(queue', Losses) /\ NoneOf(queue', Answers) /\ AtMostOneOf(queue', Releases)
          /\ NoneOf(queue', Completes)
      BY <1>2, <2>1, AddedTypes DEF NothingComes, Losses, Answers, Completes
    <2> QED BY <1>1, <1>2, <2>1, <2>2 DEF NothingComes, AnswerTokens, ReleaseTokens, StackDown,
          PrepWorks, RelWorks, Verifying, Headless, NeedsNimbleDown
  <1> QED BY <1>3, <1>4

\* A state that waits for one answer has taken it: nothing else comes.
LEMMA AnswerTaken ==
    ASSUME TypeOK, NimbleInv, NEW e, Arrives(e), flaps = 0,
           \/ e \in Answers /\ state \in Verifying
           \/ e \in Releases /\ state = "RELEASING_BLE"
           \/ state \notin Verifying \cup Headless \cup {"RELEASING_BLE"}
    PROVE  NothingComes(Tail(queue))
  <1>0. NoneOf(queue, Losses) /\ AnswerTokens /\ ReleaseTokens /\ QueueOK(queue)
    BY DEF NimbleInv, TypeOK
  <1>1. ASSUME NEW T
        PROVE  /\ NoneOf(queue, T) => e \notin T /\ NoneOf(Tail(queue), T)
               /\ AtMostOneOf(queue, T) /\ e \in T => NoneOf(Tail(queue), T)
    BY <1>0, TakenTypes
  <1>2. ~PrepWorks /\ validation = "idle" /\ NoneOf(Tail(queue), Answers)
    <2>1. CASE e \in Answers /\ state \in Verifying
      BY <1>0, <1>1, <2>1 DEF AnswerTokens
    <2>2. CASE state \notin Verifying \cup Headless
      BY <1>0, <1>1, <2>2 DEF AnswerTokens
    <2> QED BY <2>1, <2>2 DEF Verifying, Headless
  <1>3. ~RelWorks /\ NoneOf(Tail(queue), Releases)
    <2>1. CASE e \in Releases /\ state = "RELEASING_BLE"
      BY <1>0, <1>1, <2>1 DEF ReleaseTokens
    <2>2. CASE state \notin {"RELEASING_BLE", "FATAL_ERROR"}
      BY <1>0, <1>1, <2>2 DEF ReleaseTokens
    <2> QED BY <2>1, <2>2 DEF Verifying, Headless
  <1> QED BY <1>0, <1>1, <1>2, <1>3 DEF NothingComes

\* A complete release has left the stack down.
LEMMA ReleasedNimble ==
    ASSUME TypeOK, NimbleInv, OnBleReleaseComplete, ~releaseToSleep
    PROVE  NimbleInv'
  <1>1. /\ state = "RELEASING_BLE" /\ Arrives("BLE_RELEASE_COMPLETE") /\ queue # <<>>
        /\ state' \in {"DISPATCHING_ALERT", "NET_DISCOVERY_SCAN"}
        /\ UNCHANGED <<bleVars, flaps>>
        /\ \/ queue' = Tail(queue)
           \/ queue' \in SelfPosts(Tail(queue), [type |-> "ALERT_DISPATCH_FAILED", ts |-> alertTs])
    BY DEF OnBleReleaseComplete, Arrives, EnterDispatchingAlert, EnterNetDiscoveryScan
  <1> SUFFICES ASSUME flaps = 0
               PROVE  NoneOf(queue', Losses) /\ AnswerTokens' /\ ReleaseTokens' /\ StackDown'
    BY <1>1 DEF NimbleInv
  <1>2. NothingComes(Tail(queue))
    BY <1>1, AnswerTaken DEF Releases
  <1>3. ble = "off"
    <2>1. ~NoneOf(queue, Completes)
      BY <1>1, TakenTypes DEF TypeOK, Completes
    <2> QED BY <1>1, <2>1 DEF NimbleInv, ReleaseTokens
  <1>4. ASSUME NEW T, T \subseteq BleEvents \cup Losses, NoneOf(Tail(queue), T)
        PROVE  NoneOf(queue', T)
    <2> DEFINE m == [type |-> "ALERT_DISPATCH_FAILED", ts |-> alertTs]
    <2>1. QueueOK(Tail(queue)) /\ (queue' = Tail(queue) \/ queue' = Append(Tail(queue), m))
      BY <1>1, Taken DEF TypeOK, SelfPosts
    <2>2. m.type \notin T
      BY <1>4 DEF BleEvents, Answers, Releases, Losses
    <2> QED BY <1>4, <2>1, <2>2, AppendedTypes
  <1>5. NoneOf(queue', Losses) /\ NoneOf(queue', Answers) /\ NoneOf(queue', Releases)
    BY <1>2, <1>4 DEF NothingComes, BleEvents
  <1> QED BY <1>1, <1>2, <1>3, <1>5 DEF NothingComes, AnswerTokens, ReleaseTokens, StackDown,
        PrepWorks, RelWorks, Verifying, Headless, NeedsNimbleDown

\* In AUTO_ARM_BLE_SCANNING answers come and go; the state is left by a restart.
LEMMA HeadlessNimble ==
    ASSUME TypeOK, NimbleInv, OnRamFreed \/ OnBleReadyAutoArm
    PROVE  NimbleInv'
  <1>1. /\ state \in {"TEARING_DOWN_UI_FOR_SCAN", "AUTO_ARM_BLE_SCANNING"}
        /\ state' = "AUTO_ARM_BLE_SCANNING" /\ queue # <<>> /\ UNCHANGED <<relTask, flaps>>
        /\ queue' = Tail(queue) \/ queue' \in SelfPosts(Tail(queue), Event("BLE_BUSY"))
    BY DEF OnRamFreed, OnBleReadyAutoArm, EnterAutoArm, StartBlePrepare,
           StartIdentityValidation, Arrives
  <1> SUFFICES ASSUME flaps = 0
               PROVE  NoneOf(queue', Losses) /\ AnswerTokens' /\ ReleaseTokens' /\ StackDown'
    BY <1>1 DEF NimbleInv
  <1>2. NoneOf(queue, Losses) /\ NoneOf(queue, Releases) /\ ~RelWorks
    BY <1>1 DEF NimbleInv, ReleaseTokens
  <1>3. QueueOK(Tail(queue)) /\ NoneOf(Tail(queue), Losses) /\ NoneOf(Tail(queue), Releases)
    <2>1. \E e : Arrives(e)
      BY DEF OnRamFreed, OnBleReadyAutoArm
    <2> QED BY <1>1, <1>2, <2>1, Taken, TakenTypes DEF TypeOK
  <1>4. Adds(Tail(queue), queue', {"BLE_BUSY"})
    <2>1. CASE queue' = Tail(queue)
      BY <2>1 DEF Adds
    <2>2. CASE queue' \in SelfPosts(Tail(queue), Event("BLE_BUSY"))
      BY <2>2, PostsAdd
    <2> QED BY <1>1, <2>1, <2>2
  <1>5. NoneOf(queue', Losses) /\ NoneOf(queue', Releases)
    BY <1>3, <1>4, AddedTypes DEF Losses, Releases
  <1> QED BY <1>1, <1>2, <1>5 DEF AnswerTokens, ReleaseTokens, StackDown,
        PrepWorks, RelWorks, Verifying, Headless, NeedsNimbleDown

LEMMA SelfPostsNoBle ==
    ASSUME NEW q, NEW r, NEW T, T \cap (BleEvents \cup Losses) = {},
           r = q \/ \E e \in T : r \in SelfPosts(q, Event(e))
    PROVE  r = q \/ \E m : m.type \notin BleEvents \cup Losses /\ r = Append(q, m)
  <1> SUFFICES ASSUME NEW e \in T, r = Append(q, Event(e))
               PROVE  \E m : m.type \notin BleEvents \cup Losses /\ r = Append(q, m)
    BY DEF SelfPosts
  <1>1. Event(e).type \notin BleEvents \cup Losses
    BY DEF Event
  <1> QED BY <1>1

LEMMA OrchestratorNimble ==
    ASSUME TypeOK, NimbleInv, OrchestratorStep
    PROVE  NimbleInv'
  <1>q. queue # <<>> => QueueOK(Tail(queue))
    BY Taken DEF TypeOK
  <1>t. ASSUME NEW e, Arrives(e)
        PROVE  \A T : /\ NoneOf(queue, T) => NoneOf(Tail(queue), T)
                      /\ AtMostOneOf(queue, T) => AtMostOneOf(Tail(queue), T)
    BY <1>t, TakenTypes DEF TypeOK
  <1>w. {"WEBRTC_DISCONNECTED", "WEBRTC_API_ERROR", "WEBRTC_STOPPED"} \cap (BleEvents \cup Losses) = {}
    BY DEF BleEvents, Answers, Releases, Losses
  <1>1. CASE OnWifiDisconnected
    <2>1. Arrives("WIFI_DISCONNECTED") /\ flaps' = flaps
      BY <1>1 DEF OnWifiDisconnected, EnterWaitWifi
    <2>2. ~NoneOf(queue, Losses)
      BY <2>1, TakenTypes DEF Losses, TypeOK
    <2> QED BY <2>1, <2>2 DEF NimbleInv
  <1>2. CASE OnWifiConnected
    <2>1. state = "WAIT_WIFI" /\ Arrives("WIFI_CONNECTED") /\ queue # <<>>
      BY <1>2 DEF OnWifiConnected, Arrives
    <2>2. flaps = 0 => NothingComes(Tail(queue))
      BY <2>1, AnswerTaken DEF Verifying, Headless
    <2>3. EnterPreparingBle(Tail(queue)) \/ EnterSleep(Tail(queue))
      BY <1>2 DEF OnWifiConnected
    <2> QED BY <1>q, <2>1, <2>2, <2>3, PreparingNimble, SleepNimble
  <1>3. CASE OnMotionInSleep
    <2>1. /\ state = "SLEEP" /\ Arrives("MOTION_DETECTED") /\ queue # <<>>
          /\ EnterPreparingBle(Tail(queue))
      BY <1>3 DEF OnMotionInSleep, Arrives
    <2>2. flaps = 0 => NothingComes(Tail(queue))
      BY <2>1, AnswerTaken DEF Verifying, Headless, Answers, Releases
    <2> QED BY <1>q, <2>1, <2>2, PreparingNimble
  <1>4. CASE OnBleReady
    <2>1. /\ state = "PREPARING_BLE" /\ Arrives("BLE_READY") /\ queue # <<>>
          /\ EnterValidatingIdentity(Tail(queue))
      BY <1>4 DEF OnBleReady, Arrives
    <2>2. flaps = 0 => NothingComes(Tail(queue))
      BY <2>1, AnswerTaken DEF Verifying, Headless, Answers, Releases
    <2> QED BY <1>q, <2>1, <2>2, ValidatingNimble
  <1>5. CASE OnBleBusyPreparing
    <2>1. /\ state = "PREPARING_BLE" /\ Arrives("BLE_BUSY") /\ queue # <<>>
          /\ EnterSleep(Tail(queue))
      BY <1>5 DEF OnBleBusyPreparing, Arrives
    <2>2. flaps = 0 => NothingComes(Tail(queue))
      BY <2>1, AnswerTaken DEF Verifying, Headless, Answers, Releases
    <2> QED BY <1>q, <2>1, <2>2, SleepNimble
  <1>6. CASE OnIdentityPresent
    <2>1. /\ state = "VALIDATING_IDENTITY" /\ Arrives("IDENTITY_PRESENT") /\ queue # <<>>
          /\ EnterReleasingBle(Tail(queue))
      BY <1>6 DEF OnIdentityPresent, Arrives
    <2>2. flaps = 0 => NothingComes(Tail(queue))
      BY <2>1, AnswerTaken DEF Verifying, Headless, Answers, Releases
    <2> QED BY <1>q, <2>1, <2>2, ReleasingNimble
  <1>7. CASE OnIdentityRejected
    <2>1. /\ state = "VALIDATING_IDENTITY" /\ Arrives("IDENTITY_REJECTED") /\ queue # <<>>
          /\ EnterReleasingBle(Tail(queue))
      BY <1>7 DEF OnIdentityRejected, Arrives
    <2>2. flaps = 0 => NothingComes(Tail(queue))
      BY <2>1, AnswerTaken DEF Verifying, Headless, Answers, Releases
    <2> QED BY <1>q, <2>1, <2>2, ReleasingNimble
  <1>8. CASE OnBleBusyValidating
    <2>1. /\ state = "VALIDATING_IDENTITY" /\ Arrives("BLE_BUSY") /\ queue # <<>>
          /\ EnterReleasingBle(Tail(queue))
      BY <1>8 DEF OnBleBusyValidating, Arrives
    <2>2. flaps = 0 => NothingComes(Tail(queue))
      BY <2>1, AnswerTaken DEF Verifying, Headless, Answers, Releases
    <2> QED BY <1>q, <2>1, <2>2, ReleasingNimble
  <1>9. CASE OnBleReleaseComplete
    <2>1. CASE releaseToSleep
      <3>1. /\ state = "RELEASING_BLE" /\ Arrives("BLE_RELEASE_COMPLETE")
            /\ EnterSleep(Tail(queue))
        BY <1>9, <2>1 DEF OnBleReleaseComplete
      <3>2. flaps = 0 => NothingComes(Tail(queue))
        BY <3>1, AnswerTaken DEF Releases
      <3> QED BY <3>1, <3>2, SleepNimble
    <2>2. CASE ~releaseToSleep
      BY <1>9, <2>2, ReleasedNimble
    <2> QED BY <2>1, <2>2
  <1>10. CASE OnBleReleaseFailed
    <2>1. /\ state = "RELEASING_BLE" /\ Arrives("BLE_RELEASE_FAILED") /\ queue # <<>>
          /\ EnterSleep(Tail(queue))
      BY <1>10 DEF OnBleReleaseFailed, Arrives
    <2>2. flaps = 0 => NothingComes(Tail(queue))
      BY <2>1, AnswerTaken DEF Verifying, Headless, Answers, Releases
    <2> QED BY <1>q, <2>1, <2>2, SleepNimble
  <1>11. CASE OnNetDiscoveryEnds
    <2>1. /\ queue # <<>> /\ (\E e : Arrives(e)) /\ UNCHANGED <<bleVars, flaps>>
          /\ state = "NET_DISCOVERY_SCAN" /\ state' = "IGNITING"
      BY <1>11 DEF OnNetDiscoveryEnds, Arrives, EnterIgniting
    <2>2. \/ queue' = Tail(queue)
          \/ \E e \in {"WEBRTC_DISCONNECTED", "WEBRTC_API_ERROR", "WEBRTC_STOPPED"} :
               queue' \in SelfPosts(Tail(queue), Event(e))
      BY <1>11 DEF OnNetDiscoveryEnds, EnterIgniting
    <2>3. \/ queue' = Tail(queue)
          \/ \E m : m.type \notin BleEvents \cup Losses /\ queue' = Append(Tail(queue), m)
      BY <1>w, <2>2, SelfPostsNoBle
    <2>4. /\ state \notin Verifying \cup Headless \cup {"RELEASING_BLE"}
          /\ state' \notin Verifying \cup Headless \cup {"RELEASING_BLE"}
          /\ state' \in NeedsNimbleDown => state \in NeedsNimbleDown
      BY <2>1 DEF Verifying, Headless, NeedsNimbleDown
    <2> QED BY <1>q, <1>t, <2>1, <2>3, <2>4, BystanderNimble
  <1>12. CASE OnAlertResult
    <2>1. /\ queue # <<>> /\ (\E e : Arrives(e)) /\ UNCHANGED <<bleVars, flaps>>
          /\ state = "DISPATCHING_ALERT" /\ state' = "IGNITING"
      BY <1>12 DEF OnAlertResult, Arrives, EnterIgniting
    <2>2. \/ queue' = Tail(queue)
          \/ \E e \in {"WEBRTC_DISCONNECTED", "WEBRTC_API_ERROR", "WEBRTC_STOPPED"} :
               queue' \in SelfPosts(Tail(queue), Event(e))
      BY <1>12 DEF OnAlertResult, EnterIgniting
    <2>3. \/ queue' = Tail(queue)
          \/ \E m : m.type \notin BleEvents \cup Losses /\ queue' = Append(Tail(queue), m)
      BY <1>w, <2>2, SelfPostsNoBle
    <2>4. /\ state \notin Verifying \cup Headless \cup {"RELEASING_BLE"}
          /\ state' \notin Verifying \cup Headless \cup {"RELEASING_BLE"}
          /\ state' \in NeedsNimbleDown => state \in NeedsNimbleDown
      BY <2>1 DEF Verifying, Headless, NeedsNimbleDown
    <2> QED BY <1>q, <1>t, <2>1, <2>3, <2>4, BystanderNimble
  <1>13. CASE OnWebrtcConnected
    <2>1. /\ queue # <<>> /\ (\E e : Arrives(e)) /\ UNCHANGED <<bleVars, flaps>>
          /\ state = "IGNITING" /\ state' = "ACTIVE"
      BY <1>13 DEF OnWebrtcConnected, Arrives, EnterActive
    <2>2. queue' = Tail(queue)
      BY <1>13 DEF OnWebrtcConnected, EnterActive
    <2>3. /\ state \notin Verifying \cup Headless \cup {"RELEASING_BLE"}
          /\ state' \notin Verifying \cup Headless \cup {"RELEASING_BLE"}
          /\ state \in NeedsNimbleDown
      BY <2>1 DEF Verifying, Headless, NeedsNimbleDown
    <2> QED BY <1>q, <1>t, <2>1, <2>2, <2>3, BystanderNimble
  <1>14. CASE OnWebrtcDropped
    <2>1. /\ queue # <<>> /\ (\E e : Arrives(e)) /\ UNCHANGED <<bleVars, flaps>>
          /\ state \in {"IGNITING", "ACTIVE"} /\ state' = "STOPPING_WEBRTC"
      BY <1>14 DEF OnWebrtcDropped, Arrives, EnterStoppingWebrtc
    <2>2. \/ queue' = Tail(queue)
          \/ \E e \in {"WEBRTC_DISCONNECTED", "WEBRTC_API_ERROR", "WEBRTC_STOPPED"} :
               queue' \in SelfPosts(Tail(queue), Event(e))
      BY <1>14 DEF OnWebrtcDropped, EnterStoppingWebrtc
    <2>3. \/ queue' = Tail(queue)
          \/ \E m : m.type \notin BleEvents \cup Losses /\ queue' = Append(Tail(queue), m)
      BY <1>w, <2>2, SelfPostsNoBle
    <2>4. /\ state \notin Verifying \cup Headless \cup {"RELEASING_BLE"}
          /\ state' \notin Verifying \cup Headless \cup {"RELEASING_BLE"}
          /\ state' \in NeedsNimbleDown => state \in NeedsNimbleDown
      BY <2>1 DEF Verifying, Headless, NeedsNimbleDown
    <2> QED BY <1>q, <1>t, <2>1, <2>3, <2>4, BystanderNimble
  <1>15. CASE OnMicRequest
    <2>1. /\ queue # <<>> /\ (\E e : Arrives(e)) /\ UNCHANGED <<bleVars, flaps>>
          /\ state' = state
      BY <1>15 DEF OnMicRequest, Arrives, SetMute
    <2>2. queue' = Tail(queue)
      BY <1>15 DEF OnMicRequest, SetMute
    <2> QED BY <1>q, <1>t, <2>1, <2>2, BystanderNimble
  <1>16. CASE OnAutoSleepTimeout
    <2>1. /\ queue # <<>> /\ (\E e : Arrives(e)) /\ UNCHANGED <<bleVars, flaps>>
          /\ state = "ACTIVE" /\ state' = "STOPPING_WEBRTC"
      BY <1>16 DEF OnAutoSleepTimeout, Arrives, EnterStoppingWebrtc
    <2>2. \/ queue' = Tail(queue)
          \/ \E e \in {"WEBRTC_DISCONNECTED", "WEBRTC_API_ERROR", "WEBRTC_STOPPED"} :
               queue' \in SelfPosts(Tail(queue), Event(e))
      BY <1>16 DEF OnAutoSleepTimeout, EnterStoppingWebrtc
    <2>3. \/ queue' = Tail(queue)
          \/ \E m : m.type \notin BleEvents \cup Losses /\ queue' = Append(Tail(queue), m)
      BY <1>w, <2>2, SelfPostsNoBle
    <2>4. /\ state \notin Verifying \cup Headless \cup {"RELEASING_BLE"}
          /\ state' \notin Verifying \cup Headless \cup {"RELEASING_BLE"}
          /\ state' \in NeedsNimbleDown => state \in NeedsNimbleDown
      BY <2>1 DEF Verifying, Headless, NeedsNimbleDown
    <2> QED BY <1>q, <1>t, <2>1, <2>3, <2>4, BystanderNimble
  <1>17. CASE OnWebrtcStopped
    <2>1. state = "STOPPING_WEBRTC" /\ Arrives("WEBRTC_STOPPED") /\ queue # <<>>
      BY <1>17 DEF OnWebrtcStopped, Arrives
    <2>2. CASE teardownUiPending
      <3>1. /\ state' = "TEARING_DOWN_UI_FOR_SCAN" /\ queue' = Tail(queue)
            /\ UNCHANGED <<bleVars, flaps>>
        BY <1>17, <2>2 DEF OnWebrtcStopped, EnterTearingDownUi
      <3>2. /\ state \notin Verifying \cup Headless \cup {"RELEASING_BLE"}
            /\ state' \notin Verifying \cup Headless \cup {"RELEASING_BLE"}
            /\ state' \notin NeedsNimbleDown
        BY <2>1, <3>1 DEF Verifying, Headless, NeedsNimbleDown
      <3> QED BY <1>q, <1>t, <2>1, <3>1, <3>2, BystanderNimble
    <2>3. CASE ~teardownUiPending
      <3>1. EnterSleep(Tail(queue))
        BY <1>17, <2>3 DEF OnWebrtcStopped
      <3>2. flaps = 0 => NothingComes(Tail(queue))
        BY <2>1, AnswerTaken DEF Verifying, Headless
      <3> QED BY <3>1, <3>2, SleepNimble
    <2> QED BY <2>2, <2>3
  <1>18. CASE OnRamFreed
    BY <1>18, HeadlessNimble
  <1>19. CASE OnBleReadyAutoArm
    BY <1>19, HeadlessNimble
  <1>20. CASE OnAutoArmVerdict
    <2>1. Restarted
      BY <1>20 DEF OnAutoArmVerdict, Restarted
    <2> QED BY <2>1, RestartedNimble
  <1>21. CASE OnFatalError
    <2>1. /\ queue # <<>> /\ (\E e : Arrives(e)) /\ UNCHANGED <<bleVars, flaps>>
          /\ state' = "FATAL_ERROR"
      BY <1>21 DEF OnFatalError, Arrives
    <2>2. queue' = Tail(queue)
      BY <1>21 DEF OnFatalError
    <2> QED BY <1>q, <1>t, <2>1, <2>2, BystanderNimble
  <1>22. CASE IgnoreEvent
    <2>1. /\ queue # <<>> /\ (\E e : Arrives(e)) /\ UNCHANGED <<bleVars, flaps>>
          /\ state' = state
      BY <1>22 DEF IgnoreEvent, Arrives
    <2>2. queue' = Tail(queue)
      BY <1>22 DEF IgnoreEvent
    <2> QED BY <1>q, <1>t, <2>1, <2>2, BystanderNimble
  <1> QED
    BY <1>1, <1>2, <1>3, <1>4, <1>5, <1>6, <1>7, <1>8, <1>9, <1>10, <1>11, <1>12,
       <1>13, <1>14, <1>15, <1>16, <1>17, <1>18, <1>19, <1>20, <1>21, <1>22
    DEF OrchestratorStep

LEMMA PrepNimble ==
    ASSUME TypeOK, NimbleInv, PrepTaskStep
    PROVE  NimbleInv'
  <1>1. UNCHANGED <<state, flaps, relTask>>
    BY DEF PrepTaskStep, PrepPreclean, PrepBringUp, PrepCheck, PrepPosts, PrepEnds
  <1> SUFFICES ASSUME flaps = 0
               PROVE  NoneOf(queue', Losses) /\ AnswerTokens' /\ ReleaseTokens' /\ StackDown'
    BY <1>1 DEF NimbleInv
  <1>0. /\ NoneOf(queue, Losses) /\ AnswerTokens /\ ReleaseTokens /\ StackDown
        /\ QueueOK(queue)
    BY DEF NimbleInv, TypeOK
  <1>2. CASE PrepEnds
    <2>1. /\ prepTask = "posted" /\ prepTask' = "none" /\ queue' = queue
          /\ UNCHANGED <<ble, validation>>
      BY <1>2 DEF PrepEnds
    <2> QED BY <1>0, <1>1, <2>1 DEF AnswerTokens, ReleaseTokens, StackDown, PrepWorks, RelWorks
  <1>3. CASE ~PrepEnds
    <2>1. PrepWorks
      BY <1>3 DEF PrepTaskStep, PrepPreclean, PrepBringUp, PrepCheck, PrepPosts, PrepWorks
    <2>2. state \in {"PREPARING_BLE"} \cup Headless
      BY <1>0, <2>1 DEF AnswerTokens, Verifying
    <2>3. Adds(queue, queue', Answers)
      <3>1. CASE queue' = queue
        BY <3>1 DEF Adds
      <3>2. CASE \E e \in Answers : queue' \in Posts(queue, Event(e))
        BY <3>2, PostsAdd
      <3>3. CASE queue' \in ScanAborts(queue)
        BY <3>3, ScanAbortsAdd, AddsMore DEF Answers
      <3>4. \/ queue' = queue \/ queue' \in ScanAborts(queue)
            \/ \E e \in Answers : queue' \in Posts(queue, Event(e))
        BY <1>3 DEF PrepTaskStep, PrepPreclean, PrepBringUp, PrepCheck, PrepPosts, Answers
      <3> QED BY <3>1, <3>2, <3>3, <3>4
    <2>4. NoneOf(queue', Losses) /\ (NoneOf(queue, Releases) => NoneOf(queue', Releases))
      BY <1>0, <2>3, AddedTypes, NimbleSets
    <2>5. ReleaseTokens' /\ StackDown'
      BY <1>0, <1>1, <2>2, <2>4 DEF ReleaseTokens, StackDown, RelWorks, Headless, NeedsNimbleDown
    <2>6. ASSUME state = "PREPARING_BLE" PROVE AnswerTokens'
      <3>1. NoneOf(queue, Answers) /\ validation = "idle"
        BY <1>0, <2>1, <2>6 DEF AnswerTokens, Verifying
      <3>2. AtMostOneOf(queue', Answers) /\ validation' = "idle"
        BY <1>0, <1>3, <2>3, <3>1, AddedTypes
        DEF PrepTaskStep, PrepPreclean, PrepBringUp, PrepCheck, PrepPosts
      <3>3. PrepWorks' => queue' = queue
        BY <1>3, <3>1, ScanSilent
        DEF PrepTaskStep, PrepPreclean, PrepBringUp, PrepCheck, PrepPosts, PrepWorks
      <3> QED BY <1>1, <2>6, <3>1, <3>2, <3>3 DEF AnswerTokens, Verifying, Headless
    <2> QED BY <1>1, <2>2, <2>4, <2>5, <2>6 DEF AnswerTokens, Verifying, Headless
  <1> QED BY <1>2, <1>3

LEMMA RelNimble ==
    ASSUME TypeOK, NimbleInv, RelTaskStep
    PROVE  NimbleInv'
  <1>1. UNCHANGED <<state, flaps, prepTask>>
    BY DEF RelTaskStep, RelReleases, RelPosts, RelEnds
  <1> SUFFICES ASSUME flaps = 0
               PROVE  NoneOf(queue', Losses) /\ AnswerTokens' /\ ReleaseTokens' /\ StackDown'
    BY <1>1 DEF NimbleInv
  <1>0. /\ NoneOf(queue, Losses) /\ AnswerTokens /\ ReleaseTokens /\ StackDown
        /\ QueueOK(queue)
    BY DEF NimbleInv, TypeOK
  <1>2. CASE RelEnds
    <2>1. /\ relTask = "posted" /\ relTask' = "none" /\ queue' = queue
          /\ UNCHANGED <<ble, validation>>
      BY <1>2 DEF RelEnds
    <2> QED BY <1>0, <1>1, <2>1 DEF AnswerTokens, ReleaseTokens, StackDown, PrepWorks, RelWorks
  <1>3. CASE RelReleases
    <2>1. relTask = "running" /\ RelWorks /\ validation' = "idle" /\ queue' \in ScanAborts(queue)
      BY <1>3 DEF RelReleases, RelWorks
    <2>2. NoneOf(queue', Losses)
      BY <1>0, <2>1, ScanAbortsAdd, AddedTypes DEF Losses
    <2>3. state \in {"RELEASING_BLE", "FATAL_ERROR"}
      BY <1>0, <2>1 DEF ReleaseTokens
    <2>4. CASE state = "RELEASING_BLE"
      <3>1. validation = "idle" /\ ~PrepWorks /\ NoneOf(queue, Answers) /\ NoneOf(queue, Releases)
        BY <1>0, <2>1, <2>4 DEF AnswerTokens, ReleaseTokens, Verifying, Headless
      <3>2. queue' = queue
        BY <2>1, <3>1, ScanSilent
      <3>3. (relTask' = "complete" /\ ble' = "off") \/ relTask' = "failed"
        BY <1>3 DEF RelReleases, BleAfterRelease
      <3>4. NoneOf(queue, Completes) /\ AtMostOneOf(queue, Releases)
        BY <1>0, <2>4, <3>1, NimbleSets DEF ReleaseTokens
      <3> QED BY <1>0, <1>1, <2>1, <2>4, <3>1, <3>2, <3>3, <3>4
              DEF AnswerTokens, ReleaseTokens, StackDown, PrepWorks, Verifying, Headless,
                  NeedsNimbleDown
    <2>5. CASE state = "FATAL_ERROR"
      BY <1>1, <2>2, <2>5 DEF AnswerTokens, ReleaseTokens, StackDown, Verifying, Headless,
            NeedsNimbleDown
    <2> QED BY <2>3, <2>4, <2>5
  <1>4. CASE RelPosts
    <2>1. /\ RelWorks /\ relTask' = "posted" /\ UNCHANGED <<ble, validation>>
          /\ \/ relTask = "complete" /\ queue' \in Posts(queue, Event("BLE_RELEASE_COMPLETE"))
             \/ relTask # "complete" /\ queue' \in Posts(queue, Event("BLE_RELEASE_FAILED"))
      BY <1>4 DEF RelPosts, RelWorks
    <2>2. Adds(queue, queue', Releases)
      BY <2>1, PostsAdd DEF Releases
    <2>3. NoneOf(queue', Losses) /\ (NoneOf(queue, Answers) => NoneOf(queue', Answers))
      BY <1>0, <2>2, AddedTypes, NimbleSets
    <2>4. state \in {"RELEASING_BLE", "FATAL_ERROR"}
      BY <1>0, <2>1 DEF ReleaseTokens
    <2>5. CASE state = "RELEASING_BLE"
      <3>1. NoneOf(queue, Releases) /\ NoneOf(queue, Completes)
        BY <1>0, <2>1, <2>5, NimbleSets DEF ReleaseTokens
      <3>2. AtMostOneOf(queue', Releases)
        BY <1>0, <2>2, <3>1, AddedTypes
      <3>3. ble = "off" \/ NoneOf(queue', Completes)
        <4>1. CASE relTask = "complete"
          BY <1>0, <2>5, <4>1 DEF ReleaseTokens
        <4>2. CASE relTask # "complete"
          <5>1. Adds(queue, queue', {"BLE_RELEASE_FAILED"})
            BY <2>1, <4>2, PostsAdd
          <5> QED BY <1>0, <3>1, <5>1, AddedTypes DEF Completes
        <4> QED BY <4>1, <4>2
      <3>4. ReleaseTokens'
        BY <1>1, <2>1, <2>5, <3>2, <3>3 DEF ReleaseTokens, RelWorks
      <3>5. AnswerTokens'
        BY <1>0, <1>1, <2>1, <2>3, <2>5 DEF AnswerTokens, PrepWorks, Verifying, Headless
      <3> QED BY <1>1, <2>3, <2>5, <3>4, <3>5 DEF StackDown, NeedsNimbleDown
    <2>6. CASE state = "FATAL_ERROR"
      BY <1>1, <2>3, <2>6 DEF AnswerTokens, ReleaseTokens, StackDown, Verifying, Headless,
            NeedsNimbleDown
    <2> QED BY <2>4, <2>5, <2>6
  <1> QED BY <1>2, <1>3, <1>4 DEF RelTaskStep

LEMMA ScanNimble ==
    ASSUME TypeOK, NimbleInv, ScanTaskStep
    PROVE  NimbleInv'
  <1>1. UNCHANGED <<state, flaps, prepTask, relTask>> /\ validation # "idle"
    BY DEF ScanTaskStep, ScanStarts, ScanEnds
  <1> SUFFICES ASSUME flaps = 0
               PROVE  NoneOf(queue', Losses) /\ AnswerTokens' /\ ReleaseTokens' /\ StackDown'
    BY <1>1 DEF NimbleInv
  <1>0. /\ NoneOf(queue, Losses) /\ AnswerTokens /\ ReleaseTokens /\ StackDown
        /\ QueueOK(queue)
    BY DEF NimbleInv, TypeOK
  <1>2. state \in {"VALIDATING_IDENTITY"} \cup Headless
    BY <1>0, <1>1 DEF AnswerTokens, Verifying
  <1>3. Adds(queue, queue', Answers)
    <2>1. CASE queue' = queue
      BY <2>1 DEF Adds
    <2>2. CASE \E e \in Answers : queue' \in Posts(queue, Event(e))
      BY <2>2, PostsAdd
    <2> QED BY <2>1, <2>2 DEF ScanTaskStep, ScanStarts, ScanEnds, Answers
  <1>4. NoneOf(queue', Losses) /\ (NoneOf(queue, Releases) => NoneOf(queue', Releases))
    BY <1>0, <1>3, AddedTypes, NimbleSets
  <1>5. ReleaseTokens' /\ StackDown'
    BY <1>0, <1>1, <1>2, <1>4 DEF ReleaseTokens, StackDown, RelWorks, Headless, NeedsNimbleDown
  <1>6. ASSUME state = "VALIDATING_IDENTITY" PROVE AnswerTokens'
    <2>1. NoneOf(queue, Answers) /\ ~PrepWorks
      BY <1>0, <1>1, <1>6 DEF AnswerTokens, Verifying
    <2>2. AtMostOneOf(queue', Answers)
      BY <1>0, <1>3, <2>1, AddedTypes
    <2>3. validation' # "idle" => queue' = queue
      BY DEF ScanTaskStep, ScanStarts, ScanEnds
    <2> QED BY <1>1, <1>6, <2>1, <2>2, <2>3 DEF AnswerTokens, PrepWorks, Verifying, Headless
  <1> QED BY <1>1, <1>2, <1>4, <1>5, <1>6 DEF AnswerTokens, Verifying, Headless

\* As long as WiFi has not been lost, every answer on its way, as a task or as
\* an event, is one that the orchestrator waits for.
LEMMA NimbleSafe == Spec => []NimbleInv
  <1>1. Init => NimbleInv
    <2> SUFFICES ASSUME Init
                 PROVE  NoneOf(queue, Losses) /\ AnswerTokens /\ ReleaseTokens /\ StackDown
      BY DEF NimbleInv
    <2>1. /\ state = "WAIT_WIFI" /\ queue = <<>> /\ prepTask = "none" /\ relTask = "none"
          /\ validation = "idle"
      BY DEF Init, InitWith
    <2> QED BY <2>1, NothingInNothing DEF AnswerTokens, ReleaseTokens, StackDown, PrepWorks,
              RelWorks, Verifying, Headless, NeedsNimbleDown
  <1>2. TypeOK /\ NimbleInv /\ [Next]_vars => NimbleInv'
    <2> SUFFICES ASSUME TypeOK, NimbleInv, [Next]_vars PROVE NimbleInv'
      OBVIOUS
    <2>q. QueueOK(queue)
      BY DEF TypeOK
    <2>1. CASE OrchestratorStep
      BY <2>1, OrchestratorNimble
    <2>2. CASE IdleAutoMute \/ UNCHANGED vars
      <3>1. queue' = queue /\ state' = state /\ UNCHANGED <<bleVars, flaps>>
        BY <2>2 DEF IdleAutoMute, SetMute
      <3> QED BY <2>q, <3>1, BystanderNimble
    <2>3. CASE VigilanteEnds
      <3>1. /\ state = "ACTIVE" /\ state' = "STOPPING_WEBRTC" /\ UNCHANGED <<bleVars, flaps>>
            /\ queue' = queue \/ queue' \in SelfPosts(queue, Event("WEBRTC_STOPPED"))
        BY <2>3 DEF VigilanteEnds, EnterStoppingWebrtc
      <3>2. \/ queue' = queue
            \/ \E m : m.type \notin BleEvents \cup Losses /\ queue' = Append(queue, m)
        BY <3>1 DEF SelfPosts, Event, BleEvents, Answers, Releases, Losses
      <3>3. /\ state \notin Verifying \cup Headless \cup {"RELEASING_BLE"}
            /\ state' \notin Verifying \cup Headless \cup {"RELEASING_BLE"}
            /\ state' \notin NeedsNimbleDown
        BY <3>1 DEF Verifying, Headless, NeedsNimbleDown
      <3> QED BY <2>q, <3>1, <3>2, <3>3, BystanderNimble
    <2>4. CASE PlainStep
      <3>1. /\ Adds(queue, queue', PlainEvents) /\ state' = state /\ UNCHANGED <<bleVars, flaps>>
        BY <2>4, PlainAdds
      <3>2. ASSUME NEW e \in PlainEvents PROVE Event(e).type \notin BleEvents \cup Losses
        BY DEF PlainEvents, WifiEvents, Losses, Event
      <3>3. \/ queue' = queue
            \/ \E m : m.type \notin BleEvents \cup Losses /\ queue' = Append(queue, m)
        BY <3>1, <3>2 DEF Adds
      <3> QED BY <2>q, <3>1, <3>3, BystanderNimble
    <2>5. CASE BleTaskStep
      BY <2>5, PrepNimble, RelNimble, ScanNimble DEF BleTaskStep
    <2>6. CASE AlertTaskStep
      <3>1. /\ state' = state /\ UNCHANGED <<bleVars, flaps>>
            /\ \/ queue' = queue
               \/ \E m : m.type \notin BleEvents \cup Losses /\ queue' = Append(queue, m)
        BY <2>6 DEF AlertTaskStep, AlertPosts, AlertEnds, Posts, BleEvents, Answers, Releases,
              Losses, AlertResults
      <3> QED BY <2>q, <3>1, BystanderNimble
    <2>7. CASE WifiConnects
      <3>1. /\ state' = state /\ UNCHANGED <<bleVars, flaps>>
            /\ \/ queue' = queue
               \/ \E m : m.type \notin BleEvents \cup Losses /\ queue' = Append(queue, m)
        BY <2>7 DEF WifiConnects, Posts, Event, BleEvents, Answers, Releases, Losses
      <3> QED BY <2>q, <3>1, BystanderNimble
    <2>8. CASE WifiDisconnects
      <3>1. flaps \in Nat /\ flaps' = flaps + 1
        BY <2>8, ConstantsAssumption DEF ConstantsAssumption, WifiDisconnects, TypeOK, CountersOK
      <3>2. flaps' # 0
        BY <3>1
      <3> QED BY <3>2 DEF NimbleInv
    <2>9. CASE RestartStep
      BY <2>9, RestartReboots, RestartedNimble DEF Restarted
    <2> QED BY <2>1, <2>2, <2>3, <2>4, <2>5, <2>6, <2>7, <2>8, <2>9, StepsSplit
  <1> QED BY <1>1, <1>2, TypeCorrect, PTL DEF Spec

\* As long as WiFi has not been lost, the NimBLE stack is down while a session
\* opens or runs, whatever fails.
THEOREM NimbleDown == Spec => []NimbleDownWithoutFlaps
  <1>1. NimbleInv => NimbleDownWithoutFlaps
    BY DEF NimbleInv, StackDown, NeedsNimbleDown, NimbleDownWithoutFlaps, NimbleDownInSession
  <1> QED BY <1>1, NimbleSafe, PTL

-----------------------------------------------------------------------------
(* A Vigilante session that closes leaves the device armed.                *)

\* The request for a headless scan is raised by a friendly session alone and
\* does not survive its closing; the reboot timer runs in FATAL_ERROR only.
ClosingInv ==
    /\ rebootTimer => state = "FATAL_ERROR"
    /\ flaps = 0 /\ teardownUiPending =>
         state \in {"STOPPING_WEBRTC", "FATAL_ERROR"} /\ activeMode = "FRIENDLY"

LEMMA RebootCloses == ASSUME NEW m, Reboot(m) PROVE ClosingInv'
  BY DEF Reboot, ClosingInv

\* SLEEP is entered with no such request left, unless WiFi has been lost.
LEMMA SleepCloses ==
    ASSUME ClosingInv, NEW q, EnterSleep(q), state # "FATAL_ERROR",
           flaps = 0 => ~teardownUiPending
    PROVE  ClosingInv'
  <1>1. CASE activeMode = "VIGILANTE"
    BY <1>1, RebootCloses DEF EnterSleep
  <1>2. CASE activeMode # "VIGILANTE"
    BY <1>2 DEF EnterSleep, ClosingInv
  <1> QED BY <1>1, <1>2

LEMMA NoLossTaken == ASSUME TypeOK, NimbleInv, OnWifiDisconnected PROVE flaps # 0
  <1>1. queue # <<>> /\ Head(queue).type \in Losses /\ QueueOK(queue)
    BY DEF OnWifiDisconnected, Arrives, Losses, TypeOK
  <1>2. ~NoneOf(queue, Losses)
    BY <1>1, Taken DEF NoneOf
  <1> QED BY <1>2 DEF NimbleInv

LEMMA OrchestratorCloses ==
    ASSUME TypeOK, NimbleInv, ClosingInv, OrchestratorStep \/ IdleAutoMute \/ VigilanteEnds
    PROVE  ClosingInv'
  <1>1. CASE OnWifiDisconnected
    BY <1>1, NoLossTaken DEF OnWifiDisconnected, EnterWaitWifi, WifiStates, ClosingInv
  <1>2. CASE OnWifiConnected
    BY <1>2, SleepCloses DEF OnWifiConnected, EnterPreparingBle, ClosingInv
  <1>3. CASE OnMotionInSleep
    BY <1>3 DEF OnMotionInSleep, EnterPreparingBle, ClosingInv
  <1>4. CASE OnBleReady
    BY <1>4 DEF OnBleReady, EnterValidatingIdentity, ClosingInv
  <1>5. CASE OnBleBusyPreparing
    BY <1>5, SleepCloses DEF OnBleBusyPreparing, ClosingInv
  <1>6. CASE OnIdentityPresent
    BY <1>6 DEF OnIdentityPresent, EnterReleasingBle, ClosingInv
  <1>7. CASE OnIdentityRejected
    BY <1>7 DEF OnIdentityRejected, EnterReleasingBle, ClosingInv
  <1>8. CASE OnBleBusyValidating
    BY <1>8 DEF OnBleBusyValidating, EnterReleasingBle, ClosingInv
  <1>9. CASE OnBleReleaseComplete
    <2>1. CASE EnterSleep(Tail(queue))
      BY <1>9, <2>1, SleepCloses DEF OnBleReleaseComplete, ClosingInv
    <2>2. CASE ~EnterSleep(Tail(queue))
      <3>1. /\ state' \in {"DISPATCHING_ALERT", "NET_DISCOVERY_SCAN"}
            /\ UNCHANGED <<teardownUiPending, activeMode, rebootTimer, flaps>>
        BY <1>9, <2>2 DEF OnBleReleaseComplete, EnterDispatchingAlert, EnterNetDiscoveryScan
      <3> QED BY <1>9, <3>1 DEF OnBleReleaseComplete, ClosingInv
    <2> QED BY <2>1, <2>2
  <1>10. CASE OnBleReleaseFailed
    BY <1>10, SleepCloses DEF OnBleReleaseFailed, ClosingInv
  <1>11. CASE OnNetDiscoveryEnds
    BY <1>11 DEF OnNetDiscoveryEnds, EnterIgniting, ClosingInv
  <1>12. CASE OnAlertResult
    BY <1>12 DEF OnAlertResult, EnterIgniting, ClosingInv
  <1>13. CASE OnWebrtcConnected
    BY <1>13 DEF OnWebrtcConnected, EnterActive, ClosingInv
  <1>14. CASE OnWebrtcDropped
    BY <1>14 DEF OnWebrtcDropped, EnterStoppingWebrtc, ClosingInv
  <1>15. CASE OnMicRequest
    BY <1>15 DEF OnMicRequest, SetMute, ClosingInv
  <1>16. CASE OnAutoSleepTimeout
    BY <1>16 DEF OnAutoSleepTimeout, EnterStoppingWebrtc, ClosingInv
  <1>17. CASE OnWebrtcStopped
    <2>1. CASE teardownUiPending
      BY <1>17, <2>1 DEF OnWebrtcStopped, EnterTearingDownUi, ClosingInv
    <2>2. CASE ~teardownUiPending
      BY <1>17, <2>2, SleepCloses DEF OnWebrtcStopped
    <2> QED BY <2>1, <2>2
  <1>18. CASE OnRamFreed
    BY <1>18 DEF OnRamFreed, EnterAutoArm, ClosingInv
  <1>19. CASE OnBleReadyAutoArm
    BY <1>19 DEF OnBleReadyAutoArm, ClosingInv
  <1>20. CASE OnAutoArmVerdict
    BY <1>20, RebootCloses DEF OnAutoArmVerdict
  <1>21. CASE OnFatalError
    BY <1>21 DEF OnFatalError, ClosingInv
  <1>22. CASE IgnoreEvent
    BY <1>22 DEF IgnoreEvent, ClosingInv
  <1>23. CASE IdleAutoMute
    BY <1>23 DEF IdleAutoMute, SetMute, ClosingInv
  <1>24. CASE VigilanteEnds
    BY <1>24 DEF VigilanteEnds, EnterStoppingWebrtc, ClosingInv
  <1> QED
    BY <1>1, <1>2, <1>3, <1>4, <1>5, <1>6, <1>7, <1>8, <1>9, <1>10, <1>11, <1>12,
       <1>13, <1>14, <1>15, <1>16, <1>17, <1>18, <1>19, <1>20, <1>21, <1>22, <1>23,
       <1>24
    DEF OrchestratorStep

\* What neither the orchestrator nor a restart does leaves a closing alone.
LEMMA OthersClose ==
    ASSUME TypeOK, ClosingInv,
           \/ PlainStep \/ BleTaskStep \/ AlertTaskStep \/ WifiConnects \/ WifiDisconnects
           \/ UNCHANGED vars
    PROVE  ClosingInv' /\ state' = state
  <1>1. CASE WifiDisconnects
    <2>1. flaps \in Nat /\ flaps' = flaps + 1
      BY <1>1, ConstantsAssumption DEF ConstantsAssumption, WifiDisconnects, TypeOK, CountersOK
    <2>2. flaps' # 0
      BY <2>1
    <2> QED BY <1>1, <2>2 DEF WifiDisconnects, ClosingInv
  <1>2. CASE ~WifiDisconnects
    <2>1. UNCHANGED <<state, activeMode, teardownUiPending, rebootTimer, flaps>>
      <3>1. CASE BleTaskStep \/ UNCHANGED vars
        BY <3>1, BleTasksAdd
      <3>2. CASE StopTaskStep \/ CooldownTaskStep \/ CooldownElapses
        BY <3>2 DEF StopTaskStep, StopCloses, StopPosts, StopEnds, CooldownTaskStep,
              CooldownShows, CooldownChecks, CooldownArms, CooldownElapses
      <3>3. CASE NdTimerFires \/ RamTimerFires \/ IdleTimerFires \/ NdScanEnds \/ MotionSensed
        BY <3>3 DEF NdTimerFires, RamTimerFires, IdleTimerFires, NdScanEnds, MotionSensed
      <3>4. CASE RtcConnects \/ RtcDrops \/ ApiRejects \/ MicRequested \/ KillSwitchWrites
        BY <3>4 DEF RtcConnects, RtcDrops, ApiRejects, MicRequested, KillSwitchWrites
      <3>5. CASE AlertTaskStep \/ WifiConnects
        BY <3>5 DEF AlertTaskStep, AlertPosts, AlertEnds, WifiConnects
      <3> QED BY <1>2, <3>1, <3>2, <3>3, <3>4, <3>5 DEF PlainStep
    <2> QED BY <2>1 DEF ClosingInv
  <1> QED BY <1>1, <1>2

\* How a Vigilante session may stop closing.
ClosedWell ==
    \/ nvsMode' = "CENTINELA" /\ bootMode' = "CENTINELA" /\ state' = "WAIT_WIFI"
    \/ flaps' > 0 \/ state' = "FATAL_ERROR" \/ killing
    \/ MayFail("nvs") \/ "power" \in Enabled

LEMMA ClosesWell ==
    ASSUME TypeOK, NimbleInv, ClosingInv, [Next]_vars, state = "STOPPING_WEBRTC",
           activeMode = "VIGILANTE", state' # "STOPPING_WEBRTC"
    PROVE  ClosedWell
  <1>f. flaps # 0 => flaps > 0
    BY ConstantsAssumption DEF ConstantsAssumption, TypeOK, CountersOK
  <1>1. CASE OnWifiDisconnected
    BY <1>1, <1>f, NoLossTaken DEF OnWifiDisconnected, EnterWaitWifi, ClosedWell
  <1>2. CASE OnFatalError
    BY <1>2 DEF OnFatalError, ClosedWell
  <1>3. CASE OnWebrtcStopped /\ teardownUiPending
    BY <1>3, <1>f DEF OnWebrtcStopped, EnterTearingDownUi, ClosingInv, ClosedWell
  <1>4. CASE OnWebrtcStopped /\ ~teardownUiPending
    <2>1. PICK n \in Written("CENTINELA") : Reboot(n)
      BY <1>4 DEF OnWebrtcStopped, EnterSleep
    <2> QED BY <2>1 DEF Reboot, Written, ModeRead, Attempt, ClosedWell
  <1>5. CASE RestartStep
    BY <1>5 DEF RestartStep, RebootTimerFires, KillSwitchRestarts, PowerCycle, ClosingInv, ClosedWell
  <1>6. OrchestratorStep =>
          OnWifiDisconnected \/ OnFatalError \/ OnWebrtcStopped \/ state' = state
    BY DEF OrchestratorStep, OnWifiConnected, OnMotionInSleep, OnBleReady, OnBleBusyPreparing,
       OnIdentityPresent, OnIdentityRejected, OnBleBusyValidating, OnBleReleaseComplete,
       OnBleReleaseFailed, OnNetDiscoveryEnds, OnAlertResult, OnWebrtcConnected, OnWebrtcDropped,
       OnMicRequest, OnAutoSleepTimeout, OnRamFreed, OnBleReadyAutoArm, OnAutoArmVerdict,
       IgnoreEvent
  <1>7. ~IdleAutoMute /\ ~VigilanteEnds
    BY DEF IdleAutoMute, VigilanteEnds
  <1> QED BY <1>1, <1>2, <1>3, <1>4, <1>5, <1>6, <1>7, StepsSplit, OthersClose

\* A Vigilante session that closes leaves the device armed, as long as WiFi is
\* not lost and the flash and the supply hold.
THEOREM WatchArms == Spec => WatchEndsArmed
  <1>1. Init => ClosingInv
    BY DEF Init, InitWith, ClosingInv
  <1>2. TypeOK /\ NimbleInv /\ ClosingInv /\ [Next]_vars => ClosingInv'
    <2>1. RestartStep => ClosingInv'
      BY RestartReboots, RebootCloses
    <2> QED BY <2>1, StepsSplit, OrchestratorCloses, OthersClose
  <1>3. TypeOK /\ NimbleInv /\ ClosingInv /\ [Next]_vars =>
          [state = "STOPPING_WEBRTC" /\ activeMode = "VIGILANTE" /\ state' # "STOPPING_WEBRTC"
           => \/ nvsMode' = "CENTINELA" /\ bootMode' = "CENTINELA" /\ state' = "WAIT_WIFI"
              \/ flaps' > 0 \/ state' = "FATAL_ERROR" \/ killing
              \/ MayFail("nvs") \/ "power" \in Enabled]_vars
    BY ClosesWell DEF ClosedWell
  <1> QED BY <1>1, <1>2, <1>3, TypeCorrect, NimbleSafe, PTL DEF Spec, WatchEndsArmed
=============================================================================
