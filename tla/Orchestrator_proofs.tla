------------------------ MODULE Orchestrator_proofs ------------------------
(***************************************************************************)
(* Type correctness of the orchestrator for every queue depth, set of      *)
(* alerts and choice of surroundings.                                      *)
(***************************************************************************)
EXTENDS Orchestrator, TLAPS

USE DEF alertVars, modeVars, muteVars, bootVars, sensorVars, bleVars, rtcVars,
        ndVars, timerVars, wifiVars, ownVars, vars, taskFrame

-----------------------------------------------------------------------------
(* The event queue keeps its depth and holds messages only.                *)

\* SMT needs to be told that the two truth values are Boolean.
LEMMA Flag == \A x : x = TRUE \/ x = FALSE => x \in BOOLEAN
  BY Zenon

LEMMA EmptyQueue == QueueOK(<<>>)
  BY ConstantsAssumption DEF ConstantsAssumption, QueueOK

LEMMA PostsKeepQueue ==
    ASSUME NEW q, QueueOK(q), NEW ev \in Messages, NEW r \in Posts(q, ev)
    PROVE  QueueOK(r)
  BY ConstantsAssumption DEF ConstantsAssumption, QueueOK, Posts

LEMMA SelfPostsKeepQueue ==
    ASSUME NEW q, QueueOK(q), NEW ev \in Messages, NEW r \in SelfPosts(q, ev)
    PROVE  QueueOK(r)
  BY ConstantsAssumption DEF ConstantsAssumption, QueueOK, SelfPosts

LEMMA EventIsMessage ==
    ASSUME NEW e \in Events PROVE Event(e) \in Messages
  BY DEF Event, Messages, AlertRefs

\* A post of a plain event, by another task or by the orchestrator itself.
LEMMA EventKeepsQueue ==
    ASSUME NEW q, QueueOK(q), NEW e \in Events,
           NEW r \in Posts(q, Event(e)) \cup SelfPosts(q, Event(e))
    PROVE  QueueOK(r)
  BY EventIsMessage, PostsKeepQueue, SelfPostsKeepQueue

LEMMA ScanAbortsKeepQueue ==
    ASSUME NEW q, QueueOK(q), NEW r \in ScanAborts(q) \cup ScanAbortsSelf(q)
    PROVE  QueueOK(r)
  BY EventKeepsQueue DEF ScanAborts, ScanAbortsSelf, Events

LEMMA TailKeepsQueue ==
    ASSUME NEW e, QueueOK(queue), Arrives(e)
    PROVE  QueueOK(Tail(queue)) /\ Head(queue) \in Messages /\ Head(queue).type = e
  <1>1. queue \in Seq(Messages) /\ Len(queue) <= QueueDepth /\ QueueDepth \in Nat
    BY ConstantsAssumption DEF ConstantsAssumption, QueueOK
  <1>2. queue # <<>> /\ Head(queue).type = e
    BY DEF Arrives
  <1>3. /\ Tail(queue) \in Seq(Messages) /\ Len(Tail(queue)) = Len(queue) - 1
        /\ Head(queue) \in Messages /\ Len(queue) \in Nat
    BY <1>1, <1>2
  <1> QED BY <1>1, <1>2, <1>3 DEF QueueOK

LEMMA AttemptRange ==
    ASSUME NEW S, NEW a \in S, NEW b \in S, NEW f, NEW x \in Attempt(f, a, b)
    PROVE  x \in S
  BY DEF Attempt

LEMMA BleRange ==
    ASSUME ble \in {"off", "host", "ready"}
    PROVE  /\ BleAfterStop \in {"off", "host", "ready"}
           /\ \A ok \in BOOLEAN : BleAfterRelease(ok) \in {"off", "host", "ready"}
  BY DEF BleAfterStop, BleAfterRelease

\* Whatever a write leaves and a read returns is a mode.
LEMMA ModeRange ==
    ASSUME nvsMode \in BootModes, NEW m \in BootModes
    PROVE  Written(m) \subseteq BootModes /\ ModeRead(m) \subseteq BootModes
  BY DEF Written, ModeRead, Attempt, BootModes

-----------------------------------------------------------------------------
(* Type correctness, part by part.                                         *)

LEMMA TypeInit == Init => TypeOK
  <1> SUFFICES ASSUME NEW m \in BootModes, InitWith(m) PROVE TypeOK
    BY DEF Init
  <1>1. QueueOK(queue)
    BY EmptyQueue DEF InitWith
  <1>2. CountersOK
    BY ConstantsAssumption DEF ConstantsAssumption, InitWith, CountersOK
  <1>3. FlagsOK
    BY Flag DEF InitWith, FlagsOK
  <1>4. PhasesOK
    <2>1. nvsMode \in BootModes /\ bootMode \in BootModes
      BY ModeRange DEF InitWith
    <2> QED BY <2>1 DEF InitWith, PhasesOK, States, AlertRefs, SessionModes
  <1> QED BY <1>1, <1>2, <1>3, <1>4 DEF TypeOK

LEMMA TypeReboot == ASSUME TypeOK, NEW m \in BootModes, Reboot(m) PROVE TypeOK'
  <1>1. QueueOK(queue)'
    BY EmptyQueue DEF Reboot
  <1>2. CountersOK'
    BY ConstantsAssumption DEF ConstantsAssumption, Reboot, TypeOK, CountersOK
  <1>3. FlagsOK'
    BY Flag DEF Reboot, FlagsOK
  <1>4. PhasesOK'
    <2>1. nvsMode' \in BootModes /\ bootMode' \in BootModes
      BY ModeRange DEF Reboot, TypeOK, PhasesOK
    <2> QED BY <2>1 DEF Reboot, PhasesOK, States, AlertRefs, SessionModes
  <1> QED BY <1>1, <1>2, <1>3, <1>4 DEF TypeOK

\* Entering SLEEP writes everything, so its handlers follow at once.
LEMMA TypeSleep == ASSUME TypeOK, NEW q, QueueOK(q), EnterSleep(q) PROVE TypeOK'
  <1>1. CASE activeMode = "VIGILANTE"
    <2>1. PICK n \in Written("CENTINELA") : Reboot(n)
      BY <1>1 DEF EnterSleep
    <2>2. n \in BootModes
      BY <2>1, ModeRange DEF TypeOK, PhasesOK, BootModes
    <2> QED BY <2>1, <2>2, TypeReboot
  <1>2. CASE activeMode # "VIGILANTE"
    BY <1>2, Flag, ScanAbortsKeepQueue, AttemptRange, BleRange
    DEF EnterSleep, ResetAlertContext, ResetVigilanteContext, SetVigilanteMute,
          TypeOK, CountersOK, FlagsOK, PhasesOK, States, SessionModes, AlertRefs,
          BootModes
  <1> QED BY <1>1, <1>2

LEMMA TypePrep == TypeOK /\ PrepTaskStep => TypeOK'
  <1> SUFFICES ASSUME TypeOK, PrepTaskStep PROVE TypeOK'
    OBVIOUS
  <1>1. CASE PrepPreclean
    BY <1>1, Flag, ScanAbortsKeepQueue, BleRange
    DEF PrepPreclean, TypeOK, CountersOK, FlagsOK, PhasesOK
  <1>2. CASE PrepBringUp
    BY <1>2, Flag, ScanAbortsKeepQueue, BleRange
    DEF PrepBringUp, TypeOK, CountersOK, FlagsOK, PhasesOK
  <1>3. CASE PrepCheck
    BY <1>3, Flag, ScanAbortsKeepQueue, AttemptRange, BleRange
    DEF PrepCheck, TypeOK, CountersOK, FlagsOK, PhasesOK
  <1>4. CASE PrepPosts
    BY <1>4, Flag, EventKeepsQueue
    DEF PrepPosts, TypeOK, CountersOK, FlagsOK, PhasesOK, Events
  <1>5. CASE PrepEnds
    BY <1>5, Flag
    DEF PrepEnds, TypeOK, CountersOK, FlagsOK, PhasesOK
  <1> QED BY <1>1, <1>2, <1>3, <1>4, <1>5 DEF PrepTaskStep

LEMMA TypeRel == TypeOK /\ RelTaskStep => TypeOK'
  <1> SUFFICES ASSUME TypeOK, RelTaskStep PROVE TypeOK'
    OBVIOUS
  <1>1. CASE RelReleases
    BY <1>1, Flag, ScanAbortsKeepQueue, BleRange
    DEF RelReleases, TypeOK, CountersOK, FlagsOK, PhasesOK
  <1>2. CASE RelPosts
    BY <1>2, Flag, EventKeepsQueue
    DEF RelPosts, TypeOK, CountersOK, FlagsOK, PhasesOK, Events
  <1>3. CASE RelEnds
    BY <1>3, Flag
    DEF RelEnds, TypeOK, CountersOK, FlagsOK, PhasesOK
  <1> QED BY <1>1, <1>2, <1>3 DEF RelTaskStep

LEMMA TypeStop == TypeOK /\ StopTaskStep => TypeOK'
  <1> SUFFICES ASSUME TypeOK, StopTaskStep PROVE TypeOK'
    OBVIOUS
  <1>1. CASE StopCloses
    BY <1>1, Flag
    DEF StopCloses, TypeOK, CountersOK, FlagsOK, PhasesOK
  <1>2. CASE StopPosts
    BY <1>2, Flag, EventKeepsQueue
    DEF StopPosts, TypeOK, CountersOK, FlagsOK, PhasesOK, Events
  <1>3. CASE StopEnds
    BY <1>3, Flag
    DEF StopEnds, TypeOK, CountersOK, FlagsOK, PhasesOK
  <1> QED BY <1>1, <1>2, <1>3 DEF StopTaskStep

LEMMA TypeCooldown == TypeOK /\ (CooldownTaskStep \/ CooldownElapses) => TypeOK'
  <1> SUFFICES ASSUME TypeOK, CooldownTaskStep \/ CooldownElapses PROVE TypeOK'
    OBVIOUS
  <1>1. CASE CooldownShows
    BY <1>1, Flag, ConstantsAssumption
    DEF CooldownShows, TypeOK, CountersOK, FlagsOK, PhasesOK, ConstantsAssumption
  <1>2. CASE CooldownChecks
    BY <1>2, Flag, ConstantsAssumption
    DEF CooldownChecks, TypeOK, CountersOK, FlagsOK, PhasesOK, ConstantsAssumption
  <1>3. CASE CooldownArms
    BY <1>3, Flag, AttemptRange, ConstantsAssumption
    DEF CooldownArms, TypeOK, CountersOK, FlagsOK, PhasesOK, ConstantsAssumption
  <1>4. CASE CooldownElapses
    BY <1>4, Flag, ConstantsAssumption
    DEF CooldownElapses, TypeOK, CountersOK, FlagsOK, PhasesOK, ConstantsAssumption
  <1> QED BY <1>1, <1>2, <1>3, <1>4 DEF CooldownTaskStep

LEMMA TypeScan == TypeOK /\ ScanTaskStep => TypeOK'
  <1> SUFFICES ASSUME TypeOK, ScanTaskStep PROVE TypeOK'
    OBVIOUS
  <1>1. CASE ScanStarts
    BY <1>1, Flag
    DEF ScanStarts, TypeOK, CountersOK, FlagsOK, PhasesOK
  <1>2. CASE ScanEnds
    BY <1>2, Flag, EventKeepsQueue, BleRange
    DEF ScanEnds, TypeOK, CountersOK, FlagsOK, PhasesOK, Events
  <1> QED BY <1>1, <1>2 DEF ScanTaskStep

LEMMA TypeRtc == TypeOK /\ (RtcConnects \/ RtcDrops \/ ApiRejects) => TypeOK'
  <1> SUFFICES ASSUME TypeOK, RtcConnects \/ RtcDrops \/ ApiRejects PROVE TypeOK'
    OBVIOUS
  <1>1. CASE RtcConnects
    BY <1>1, Flag, EventKeepsQueue
    DEF RtcConnects, TypeOK, CountersOK, FlagsOK, PhasesOK, Events
  <1>2. CASE RtcDrops
    BY <1>2, Flag, EventKeepsQueue
    DEF RtcDrops, TypeOK, CountersOK, FlagsOK, PhasesOK, Events
  <1>3. CASE ApiRejects
    BY <1>3, Flag, EventKeepsQueue
    DEF ApiRejects, TypeOK, CountersOK, FlagsOK, PhasesOK, Events
  <1> QED BY <1>1, <1>2, <1>3

LEMMA TypeProducers ==
    ASSUME TypeOK,
           \/ NdTimerFires \/ RamTimerFires \/ IdleTimerFires \/ NdScanEnds
           \/ MotionSensed \/ MicRequested \/ WifiConnects \/ WifiDisconnects \/ KillSwitchWrites
    PROVE  TypeOK'
  <1>1. CASE NdTimerFires
    BY <1>1, Flag, EventKeepsQueue
    DEF NdTimerFires, TypeOK, CountersOK, FlagsOK, PhasesOK, Events
  <1>2. CASE RamTimerFires
    BY <1>2, Flag, EventKeepsQueue
    DEF RamTimerFires, TypeOK, CountersOK, FlagsOK, PhasesOK, Events
  <1>3. CASE IdleTimerFires
    BY <1>3, Flag, EventKeepsQueue
    DEF IdleTimerFires, TypeOK, CountersOK, FlagsOK, PhasesOK, Events
  <1>4. CASE NdScanEnds
    BY <1>4, Flag, EventKeepsQueue, ConstantsAssumption
    DEF NdScanEnds, TypeOK, CountersOK, FlagsOK, PhasesOK, Events,
          ConstantsAssumption
  <1>5. CASE MotionSensed
    BY <1>5, Flag, EventKeepsQueue
    DEF MotionSensed, TypeOK, CountersOK, FlagsOK, PhasesOK, Events
  <1>6. CASE MicRequested
    BY <1>6, Flag, EventKeepsQueue
    DEF MicRequested, TypeOK, CountersOK, FlagsOK, PhasesOK, Events
  <1>7. CASE WifiConnects
    BY <1>7, Flag, EventKeepsQueue
    DEF WifiConnects, TypeOK, CountersOK, FlagsOK, PhasesOK, Events
  <1>8. CASE WifiDisconnects
    BY <1>8, Flag, EventKeepsQueue, ConstantsAssumption
    DEF WifiDisconnects, TypeOK, CountersOK, FlagsOK, PhasesOK, Events,
          ConstantsAssumption
  <1>9. CASE KillSwitchWrites
    BY <1>9, Flag, ConstantsAssumption
    DEF KillSwitchWrites, TypeOK, CountersOK, FlagsOK, PhasesOK,
          ConstantsAssumption, BootModes
  <1> QED BY <1>1, <1>2, <1>3, <1>4, <1>5, <1>6, <1>7, <1>8, <1>9

LEMMA TypeAlert == TypeOK /\ AlertTaskStep => TypeOK'
  <1> SUFFICES ASSUME TypeOK, NEW t \in alertTasks, AlertPosts(t) \/ AlertEnds(t)
               PROVE  TypeOK'
    BY DEF AlertTaskStep
  <1>1. t \in AlertTasks
    BY DEF TypeOK, PhasesOK
  <1>2. CASE AlertPosts(t)
    <2>1. PICK e \in AlertResults : queue' \in Posts(queue, [type |-> e, ts |-> t.ts])
      BY <1>2 DEF AlertPosts
    <2>2. [type |-> e, ts |-> t.ts] \in Messages
      BY <1>1 DEF AlertTasks, AlertResults, Messages, Events
    <2>3. [t EXCEPT !.phase = "posted"] \in AlertTasks
      BY <1>1 DEF AlertTasks
    <2> QED
      BY <1>2, <2>1, <2>2, <2>3, PostsKeepQueue
      DEF AlertPosts, TypeOK, CountersOK, FlagsOK, PhasesOK
  <1>3. CASE AlertEnds(t)
    BY <1>3, Flag DEF AlertEnds, TypeOK, CountersOK, FlagsOK, PhasesOK
  <1> QED BY <1>2, <1>3

LEMMA FreshAlertIsAlert == CanAlert => FreshAlert \in AlertIds
  BY DEF CanAlert, FreshAlert

\* One event taken from the queue, or one idle tick of the orchestrator.
LEMMA TypeOrchestrator ==
    TypeOK /\ (OrchestratorStep \/ IdleAutoMute \/ VigilanteEnds) => TypeOK'
  <1> SUFFICES ASSUME TypeOK, OrchestratorStep \/ IdleAutoMute \/ VigilanteEnds
               PROVE  TypeOK'
    OBVIOUS
  <1>1. CASE OnWifiDisconnected
    <2>1. QueueOK(queue)'
      BY <1>1, TailKeepsQueue, ScanAbortsKeepQueue
      DEF OnWifiDisconnected, EnterWaitWifi, TypeOK
    <2>2. CountersOK' /\ FlagsOK' /\ PhasesOK'
      BY <1>1, Flag, BleRange
      DEF OnWifiDisconnected, EnterWaitWifi, SensorsOff, ResetAlertContext,
            ResetVigilanteContext, TypeOK, CountersOK, FlagsOK, PhasesOK, States,
            SessionModes, AlertRefs, BootModes
    <2> QED BY <2>1, <2>2 DEF TypeOK
  <1>2. CASE OnWifiConnected
    <2>1. QueueOK(Tail(queue))
      BY <1>2, TailKeepsQueue DEF OnWifiConnected, TypeOK
    <2>2. CASE EnterSleep(Tail(queue))
      BY <2>1, <2>2, TypeSleep
    <2>3. CASE EnterPreparingBle(Tail(queue)) /\ UNCHANGED ownVars
      <3>1. QueueOK(queue)'
        BY <2>1, <2>3, EventKeepsQueue DEF EnterPreparingBle, StartBlePrepare, Events
      <3>2. CountersOK' /\ FlagsOK' /\ PhasesOK'
        BY <2>3, Flag
        DEF EnterPreparingBle, SensorsOff, StartBlePrepare, TypeOK, CountersOK, FlagsOK,
            PhasesOK, States
      <3> QED BY <3>1, <3>2 DEF TypeOK
    <2> QED BY <1>2, <2>2, <2>3 DEF OnWifiConnected
  <1>3. CASE OnMotionInSleep
    <2>1. QueueOK(queue)'
      BY <1>3, TailKeepsQueue, EventKeepsQueue
      DEF OnMotionInSleep, EnterPreparingBle, StartBlePrepare, TypeOK, Events
    <2>2. CountersOK' /\ FlagsOK' /\ PhasesOK'
      BY <1>3, Flag, FreshAlertIsAlert
      DEF OnMotionInSleep, EnterPreparingBle, SensorsOff, StartBlePrepare, TypeOK,
            CountersOK, FlagsOK, PhasesOK, States, SessionModes, AlertRefs, BootModes
    <2> QED BY <2>1, <2>2 DEF TypeOK
  <1>4. CASE OnBleReady
    <2>1. QueueOK(queue)'
      BY <1>4, TailKeepsQueue, EventKeepsQueue
      DEF OnBleReady, EnterValidatingIdentity, StartIdentityValidation, TypeOK,
            Events
    <2>2. CountersOK' /\ FlagsOK' /\ PhasesOK'
      BY <1>4, Flag
      DEF OnBleReady, EnterValidatingIdentity, SensorsOff, StartIdentityValidation,
            TypeOK, CountersOK, FlagsOK, PhasesOK, States, SessionModes, AlertRefs,
            BootModes
    <2> QED BY <2>1, <2>2 DEF TypeOK
  <1>5. CASE OnBleBusyPreparing
    BY <1>5, TypeSleep, TailKeepsQueue DEF OnBleBusyPreparing, TypeOK
  <1>6. CASE OnIdentityPresent
    <2>1. QueueOK(queue)'
      BY <1>6, TailKeepsQueue, EventKeepsQueue
      DEF OnIdentityPresent, EnterReleasingBle, TypeOK, Events
    <2>2. CountersOK' /\ FlagsOK' /\ PhasesOK'
      BY <1>6, Flag, ModeRange
      DEF OnIdentityPresent, SetOperationMode, SetVigilanteMute, EnterReleasingBle,
            SensorsOff, TypeOK, CountersOK, FlagsOK, PhasesOK, States, SessionModes,
            AlertRefs, BootModes
    <2> QED BY <2>1, <2>2 DEF TypeOK
  <1>7. CASE OnIdentityRejected
    <2>1. QueueOK(queue)'
      BY <1>7, TailKeepsQueue, EventKeepsQueue
      DEF OnIdentityRejected, EnterReleasingBle, TypeOK, Events
    <2>2. CountersOK' /\ FlagsOK' /\ PhasesOK'
      BY <1>7, Flag, FreshAlertIsAlert
      DEF OnIdentityRejected, SetVigilanteMute, EnterReleasingBle, SensorsOff,
            TypeOK, CountersOK, FlagsOK, PhasesOK, States, SessionModes, AlertRefs,
            BootModes
    <2> QED BY <2>1, <2>2 DEF TypeOK
  <1>8. CASE OnBleBusyValidating
    <2>1. QueueOK(queue)'
      BY <1>8, TailKeepsQueue, EventKeepsQueue
      DEF OnBleBusyValidating, EnterReleasingBle, TypeOK, Events
    <2>2. CountersOK' /\ FlagsOK' /\ PhasesOK'
      BY <1>8, Flag
      DEF OnBleBusyValidating, ResetAlertContext, EnterReleasingBle, SensorsOff,
            TypeOK, CountersOK, FlagsOK, PhasesOK, States, SessionModes, AlertRefs,
            BootModes
    <2> QED BY <2>1, <2>2 DEF TypeOK
  <1>9. CASE OnBleReleaseComplete
    <2>1. QueueOK(Tail(queue))
      BY <1>9, TailKeepsQueue DEF OnBleReleaseComplete, TypeOK
    <2>2. CASE EnterSleep(Tail(queue))
      BY <2>1, <2>2, TypeSleep
    <2>3. CASE /\ EnterDispatchingAlert(Tail(queue))
               /\ UNCHANGED <<alertTs, alertPending, pendingMode, modeVars, releaseToSleep,
                              teardownUiPending, muteVars, bootVars>>
      <3>1. /\ [ts |-> alertTs, phase |-> "sending"] \in AlertTasks
            /\ [type |-> "ALERT_DISPATCH_FAILED", ts |-> alertTs] \in Messages
        BY DEF TypeOK, PhasesOK, AlertTasks, Messages, Events
      <3>2. QueueOK(queue)'
        BY <2>1, <2>3, <3>1, SelfPostsKeepQueue DEF EnterDispatchingAlert
      <3>3. CountersOK' /\ FlagsOK' /\ PhasesOK'
        BY <2>3, <3>1, Flag
        DEF EnterDispatchingAlert, SensorsOff, TypeOK, CountersOK, FlagsOK, PhasesOK, States
      <3> QED BY <3>2, <3>3 DEF TypeOK
    <2>4. CASE /\ ignitionMode' = pendingMode /\ EnterNetDiscoveryScan(Tail(queue))
               /\ UNCHANGED <<alertVars, activeMode, releaseToSleep, teardownUiPending,
                              muteVars, bootVars>>
      <3>1. CountersOK'
        <4>1. /\ ndScans' = ndScans \/ (ndScans < MaxScans /\ ndScans' = ndScans + 1)
              /\ UNCHANGED <<arming, flaps>>
          BY <2>4 DEF EnterNetDiscoveryScan, SensorsOff
        <4>2. MaxScans \in Nat /\ CountersOK
          BY ConstantsAssumption DEF ConstantsAssumption, TypeOK
        <4> QED BY <4>1, <4>2 DEF CountersOK
      <3>2. ndTimer' \in BOOLEAN
        BY <2>4, Flag DEF EnterNetDiscoveryScan, Attempt, TypeOK, FlagsOK
      <3>3. FlagsOK' /\ PhasesOK'
        BY <2>4, <3>2, Flag
        DEF EnterNetDiscoveryScan, SensorsOff, TypeOK, FlagsOK, PhasesOK, States
      <3> QED BY <2>1, <2>4, <3>1, <3>3 DEF EnterNetDiscoveryScan, TypeOK
    <2> QED BY <1>9, <2>2, <2>3, <2>4 DEF OnBleReleaseComplete
  <1>10. CASE OnBleReleaseFailed
    BY <1>10, TypeSleep, TailKeepsQueue DEF OnBleReleaseFailed, TypeOK
  <1>11. CASE OnNetDiscoveryEnds
    <2>1. QueueOK(queue)'
      BY <1>11, TailKeepsQueue, EventKeepsQueue
      DEF OnNetDiscoveryEnds, EnterIgniting, TypeOK, Events
    <2>2. CountersOK' /\ FlagsOK' /\ PhasesOK'
      BY <1>11, Flag
      DEF OnNetDiscoveryEnds, EnterIgniting, SensorsOff, TypeOK, CountersOK,
            FlagsOK, PhasesOK, States, SessionModes, AlertRefs, BootModes
    <2> QED BY <2>1, <2>2 DEF TypeOK
  <1>12. CASE OnAlertResult
    <2>1. QueueOK(queue)'
      BY <1>12, TailKeepsQueue, EventKeepsQueue
      DEF OnAlertResult, EnterIgniting, TypeOK, Events
    <2>2. CountersOK' /\ FlagsOK' /\ PhasesOK'
      BY <1>12, Flag
      DEF OnAlertResult, ResetAlertContext, EnterIgniting, SensorsOff, TypeOK,
            CountersOK, FlagsOK, PhasesOK, States, SessionModes, AlertRefs, BootModes
    <2> QED BY <2>1, <2>2 DEF TypeOK
  <1>13. CASE OnWebrtcConnected
    <2>1. QueueOK(queue)'
      BY <1>13, TailKeepsQueue
      DEF OnWebrtcConnected, EnterActive, TypeOK
    <2>2. CountersOK' /\ FlagsOK' /\ PhasesOK'
      BY <1>13, Flag, AttemptRange
      DEF OnWebrtcConnected, EnterActive, TypeOK, CountersOK, FlagsOK, PhasesOK,
            States, SessionModes, AlertRefs, BootModes
    <2> QED BY <2>1, <2>2 DEF TypeOK
  <1>14. CASE OnWebrtcDropped
    <2>1. QueueOK(queue)'
      BY <1>14, TailKeepsQueue, EventKeepsQueue
      DEF OnWebrtcDropped, EnterStoppingWebrtc, TypeOK, Events
    <2>2. CountersOK' /\ FlagsOK' /\ PhasesOK'
      BY <1>14, Flag
      DEF OnWebrtcDropped, EnterStoppingWebrtc, SensorsOff, SetVigilanteMute,
            TypeOK, CountersOK, FlagsOK, PhasesOK, States, SessionModes, AlertRefs,
            BootModes
    <2> QED BY <2>1, <2>2 DEF TypeOK
  <1>15. CASE OnMicRequest
    <2>1. QueueOK(queue)'
      BY <1>15, TailKeepsQueue
      DEF OnMicRequest, SetMute, TypeOK
    <2>2. CountersOK' /\ FlagsOK' /\ PhasesOK'
      BY <1>15, Flag
      DEF OnMicRequest, SetMute, TypeOK, CountersOK, FlagsOK, PhasesOK, States,
            SessionModes, AlertRefs, BootModes
    <2> QED BY <2>1, <2>2 DEF TypeOK
  <1>16. CASE OnAutoSleepTimeout
    <2>1. QueueOK(queue)'
      BY <1>16, TailKeepsQueue, EventKeepsQueue
      DEF OnAutoSleepTimeout, EnterStoppingWebrtc, TypeOK, Events
    <2>2. CountersOK' /\ FlagsOK' /\ PhasesOK'
      BY <1>16, Flag
      DEF OnAutoSleepTimeout, EnterStoppingWebrtc, SensorsOff, SetVigilanteMute,
            TypeOK, CountersOK, FlagsOK, PhasesOK, States, SessionModes, AlertRefs,
            BootModes
    <2> QED BY <2>1, <2>2 DEF TypeOK
  <1>17. CASE OnWebrtcStopped
    <2>1. QueueOK(Tail(queue))
      BY <1>17, TailKeepsQueue DEF OnWebrtcStopped, TypeOK
    <2>2. CASE EnterSleep(Tail(queue))
      BY <2>1, <2>2, TypeSleep
    <2>3. CASE /\ teardownUiPending' = FALSE /\ EnterTearingDownUi(Tail(queue))
               /\ UNCHANGED <<alertVars, modeVars, releaseToSleep, muteVars, bootVars>>
      BY <2>1, <2>3, Flag, AttemptRange
      DEF EnterTearingDownUi, TypeOK, CountersOK, FlagsOK, PhasesOK, States
    <2> QED BY <1>17, <2>2, <2>3 DEF OnWebrtcStopped
  <1>18. CASE OnRamFreed
    <2>1. QueueOK(queue)'
      BY <1>18, TailKeepsQueue, EventKeepsQueue
      DEF OnRamFreed, EnterAutoArm, StartBlePrepare, TypeOK, Events
    <2>2. CountersOK' /\ FlagsOK' /\ PhasesOK'
      BY <1>18, Flag
      DEF OnRamFreed, EnterAutoArm, StartBlePrepare, TypeOK, CountersOK, FlagsOK,
            PhasesOK, States, SessionModes, AlertRefs, BootModes
    <2> QED BY <2>1, <2>2 DEF TypeOK
  <1>19. CASE OnBleReadyAutoArm
    <2>1. QueueOK(queue)'
      BY <1>19, TailKeepsQueue, EventKeepsQueue
      DEF OnBleReadyAutoArm, StartIdentityValidation, TypeOK, Events
    <2>2. CountersOK' /\ FlagsOK' /\ PhasesOK'
      BY <1>19, Flag
      DEF OnBleReadyAutoArm, StartIdentityValidation, TypeOK, CountersOK, FlagsOK,
            PhasesOK, States, SessionModes, AlertRefs, BootModes
    <2> QED BY <2>1, <2>2 DEF TypeOK
  <1>20. CASE OnAutoArmVerdict
    <2>1. PICK n \in Written("DIRECTO") \cup Written("CENTINELA") \cup {"CENTINELA"} : Reboot(n)
      BY <1>20 DEF OnAutoArmVerdict
    <2>2. n \in BootModes
      BY <2>1, ModeRange DEF TypeOK, PhasesOK, BootModes
    <2> QED BY <2>1, <2>2, TypeReboot
  <1>21. CASE OnFatalError
    <2>1. QueueOK(queue)'
      BY <1>21, TailKeepsQueue
      DEF OnFatalError, TypeOK
    <2>2. CountersOK' /\ FlagsOK' /\ PhasesOK'
      BY <1>21, Flag, AttemptRange
      DEF OnFatalError, TypeOK, CountersOK, FlagsOK, PhasesOK, States,
            SessionModes, AlertRefs, BootModes
    <2> QED BY <2>1, <2>2 DEF TypeOK
  <1>22. CASE IgnoreEvent
    <2>1. QueueOK(queue)'
      BY <1>22, TailKeepsQueue
      DEF IgnoreEvent, TypeOK
    <2>2. CountersOK' /\ FlagsOK' /\ PhasesOK'
      BY <1>22, Flag
      DEF IgnoreEvent, TypeOK, CountersOK, FlagsOK, PhasesOK, States, SessionModes,
            AlertRefs, BootModes
    <2> QED BY <2>1, <2>2 DEF TypeOK
  <1>23. CASE IdleAutoMute
    <2>1. QueueOK(queue)'
      BY <1>23
      DEF IdleAutoMute, SetMute, TypeOK
    <2>2. CountersOK' /\ FlagsOK' /\ PhasesOK'
      BY <1>23, Flag
      DEF IdleAutoMute, SetMute, TypeOK, CountersOK, FlagsOK, PhasesOK, States,
            SessionModes, AlertRefs, BootModes
    <2> QED BY <2>1, <2>2 DEF TypeOK
  <1>24. CASE VigilanteEnds
    <2>1. QueueOK(queue)'
      BY <1>24, EventKeepsQueue
      DEF VigilanteEnds, EnterStoppingWebrtc, TypeOK, Events
    <2>2. CountersOK' /\ FlagsOK' /\ PhasesOK'
      BY <1>24, Flag
      DEF VigilanteEnds, ResetAlertContext, EnterStoppingWebrtc, SensorsOff,
            SetVigilanteMute, TypeOK, CountersOK, FlagsOK, PhasesOK, States,
            SessionModes, AlertRefs, BootModes
    <2> QED BY <2>1, <2>2 DEF TypeOK
  <1> QED
    BY <1>1, <1>2, <1>3, <1>4, <1>5, <1>6, <1>7, <1>8, <1>9, <1>10, <1>11, <1>12,
       <1>13, <1>14, <1>15, <1>16, <1>17, <1>18, <1>19, <1>20, <1>21, <1>22, <1>23,
       <1>24
    DEF OrchestratorStep

THEOREM TypeCorrect == Spec => []TypeOK
  <1>1. Init => TypeOK
    BY TypeInit
  <1>2. TypeOK /\ [Next]_vars => TypeOK'
    <2> SUFFICES ASSUME TypeOK, [Next]_vars PROVE TypeOK'
      OBVIOUS
    <2>1. CASE UNCHANGED vars
      BY <2>1 DEF TypeOK, CountersOK, FlagsOK, PhasesOK
    <2>2. CASE RebootTimerFires \/ KillSwitchRestarts \/ PowerCycle
      BY <2>2, TypeReboot DEF RebootTimerFires, KillSwitchRestarts, PowerCycle, TypeOK, PhasesOK
    <2>3. CASE Next /\ ~(RebootTimerFires \/ KillSwitchRestarts \/ PowerCycle)
      BY <2>3, TypeOrchestrator, TypePrep, TypeRel, TypeStop, TypeAlert, TypeCooldown,
         TypeScan, TypeRtc, TypeProducers
      DEF Next, TimerStep
    <2> QED BY <2>1, <2>2, <2>3
  <1> QED BY <1>1, <1>2, PTL DEF Spec
=============================================================================
