----------------------- MODULE OrchestratorSafety_proofs -----------------------
(***************************************************************************)
(* An armed device is disarmed by its owner alone, and an alert handle     *)
(* never outlives the tasks that could clear it.                           *)
(***************************************************************************)
EXTENDS OrchestratorSession_proofs

USE DEF alertVars, modeVars, muteVars, bootVars, sensorVars, bleVars, rtcVars,
        ndVars, timerVars, wifiVars, ownVars, vars, taskFrame

-----------------------------------------------------------------------------
(* The boot mode.                                                          *)

\* What a step may do to the two copies: keep the one in RAM, boot from the one
\* in flash, or follow the verdict that the owner is near.
BootStep ==
    \/ bootMode' = bootMode /\ nvsMode' \in {nvsMode, "CENTINELA"}
    \/ nvsMode' \in {nvsMode, "CENTINELA"} /\ bootMode' \in ModeRead(nvsMode')
    \/ OwnerRecognised /\ bootMode' = "DIRECTO"

LEMMA RebootReads ==
    ASSUME NEW n \in {nvsMode, "CENTINELA"}, Reboot(n)
    PROVE  BootStep
  BY DEF Reboot, BootStep

LEMMA SleepBoots == ASSUME NEW q, EnterSleep(q) PROVE BootStep
  <1>1. CASE activeMode = "VIGILANTE"
    <2>1. PICK n \in Written("CENTINELA") : Reboot(n)
      BY <1>1 DEF EnterSleep
    <2> QED BY <2>1, RebootReads DEF Written, Attempt
  <1>2. CASE activeMode # "VIGILANTE"
    BY <1>2 DEF EnterSleep, BootStep
  <1> QED BY <1>1, <1>2

\* A headless verdict is written and read back by the restart.
LEMMA VerdictBoots == OnAutoArmVerdict => BootStep
  <1> SUFFICES ASSUME OnAutoArmVerdict PROVE BootStep
    OBVIOUS
  <1>1. CASE \E n \in {nvsMode, "CENTINELA"} : Reboot(n)
    BY <1>1, RebootReads
  <1>2. CASE Arrives("IDENTITY_PRESENT") /\ Reboot("DIRECTO")
    BY <1>2 DEF OnAutoArmVerdict, Arrives, OwnerRecognised, Reboot, ModeRead, Attempt, BootStep
  <1> QED BY <1>1, <1>2 DEF OnAutoArmVerdict, Written, Attempt

LEMMA OrchestratorBoots ==
    OrchestratorStep \/ IdleAutoMute \/ VigilanteEnds => BootStep
  <1> SUFFICES ASSUME OrchestratorStep \/ IdleAutoMute \/ VigilanteEnds PROVE BootStep
    OBVIOUS
  <1>1. CASE OnWifiDisconnected
    BY <1>1 DEF OnWifiDisconnected, EnterWaitWifi, BootStep
  <1>2. CASE OnWifiConnected
    BY <1>2, SleepBoots DEF OnWifiConnected, EnterPreparingBle, BootStep
  <1>3. CASE OnMotionInSleep
    BY <1>3 DEF OnMotionInSleep, EnterPreparingBle, BootStep
  <1>4. CASE OnBleReady
    BY <1>4 DEF OnBleReady, EnterValidatingIdentity, BootStep
  <1>5. CASE OnBleBusyPreparing
    BY <1>5, SleepBoots DEF OnBleBusyPreparing, BootStep
  <1>6. CASE OnIdentityPresent
    BY <1>6 DEF OnIdentityPresent, SetOperationMode, Arrives, OwnerRecognised, BootStep
  <1>7. CASE OnIdentityRejected
    BY <1>7 DEF OnIdentityRejected, EnterReleasingBle, BootStep
  <1>8. CASE OnBleBusyValidating
    BY <1>8 DEF OnBleBusyValidating, EnterReleasingBle, BootStep
  <1>9. CASE OnBleReleaseComplete
    BY <1>9, SleepBoots DEF OnBleReleaseComplete, EnterDispatchingAlert, EnterNetDiscoveryScan, BootStep
  <1>10. CASE OnBleReleaseFailed
    BY <1>10, SleepBoots DEF OnBleReleaseFailed, BootStep
  <1>11. CASE OnNetDiscoveryEnds
    BY <1>11 DEF OnNetDiscoveryEnds, EnterIgniting, BootStep
  <1>12. CASE OnAlertResult
    BY <1>12 DEF OnAlertResult, EnterIgniting, BootStep
  <1>13. CASE OnWebrtcConnected
    BY <1>13 DEF OnWebrtcConnected, EnterActive, BootStep
  <1>14. CASE OnWebrtcDropped
    BY <1>14 DEF OnWebrtcDropped, EnterStoppingWebrtc, BootStep
  <1>15. CASE OnMicRequest
    BY <1>15 DEF OnMicRequest, SetMute, BootStep
  <1>16. CASE OnAutoSleepTimeout
    BY <1>16 DEF OnAutoSleepTimeout, EnterStoppingWebrtc, BootStep
  <1>17. CASE OnWebrtcStopped
    BY <1>17, SleepBoots DEF OnWebrtcStopped, EnterTearingDownUi, BootStep
  <1>18. CASE OnRamFreed
    BY <1>18 DEF OnRamFreed, EnterAutoArm, BootStep
  <1>19. CASE OnBleReadyAutoArm
    BY <1>19 DEF OnBleReadyAutoArm, BootStep
  <1>20. CASE OnAutoArmVerdict
    BY <1>20, VerdictBoots
  <1>21. CASE OnFatalError
    BY <1>21 DEF OnFatalError, BootStep
  <1>22. CASE IgnoreEvent
    BY <1>22 DEF IgnoreEvent, BootStep
  <1>23. CASE IdleAutoMute
    BY <1>23 DEF IdleAutoMute, SetMute, BootStep
  <1>24. CASE VigilanteEnds
    BY <1>24 DEF VigilanteEnds, EnterStoppingWebrtc, BootStep
  <1> QED
    BY <1>1, <1>2, <1>3, <1>4, <1>5, <1>6, <1>7, <1>8, <1>9, <1>10, <1>11, <1>12,
       <1>13, <1>14, <1>15, <1>16, <1>17, <1>18, <1>19, <1>20, <1>21, <1>22, <1>23,
       <1>24
    DEF OrchestratorStep

\* A device that is armed in RAM is armed in flash: a write that fails leaves
\* the device armed and never the other way round.
ArmedInFlash == bootMode = "CENTINELA" => nvsMode = "CENTINELA"

LEMMA EveryStepBoots == [Next]_vars => BootStep
  <1> SUFFICES ASSUME [Next]_vars PROVE BootStep
    OBVIOUS
  <1>1. UNCHANGED vars \/ UNCHANGED sessionVars => BootStep
    BY DEF sessionVars, BootStep
  <1>2. KillSwitchWrites => BootStep
    BY DEF KillSwitchWrites, Written, Attempt, BootStep
  <1> QED
    BY <1>1, <1>2, NextSplits, OthersKeepSession, RestartReboots, RebootReads, OrchestratorBoots

\* An armed device is disarmed by its owner alone: across restarts, power cuts
\* and failing writes, a boot in the direct mode follows his verdict, unless
\* the key, which still holds CENTINELA, cannot be read.
THEOREM OwnerDisarms == Spec => DisarmedByOwner
  <1>1. Init => ArmedInFlash
    BY DEF Init, InitWith, ModeRead, Attempt, ArmedInFlash
  <1>2. ArmedInFlash /\ [Next]_vars => ArmedInFlash'
    BY EveryStepBoots DEF BootStep, ModeRead, Attempt, ArmedInFlash
  <1>3. ArmedInFlash /\ [Next]_vars =>
          [bootMode = "CENTINELA" /\ bootMode' = "DIRECTO"
             => OwnerRecognised \/ (MayFail("nvs") /\ nvsMode' = "CENTINELA")]_vars
    <2> SUFFICES ASSUME ArmedInFlash, [Next]_vars, bootMode = "CENTINELA", bootMode' = "DIRECTO"
                 PROVE  OwnerRecognised \/ (MayFail("nvs") /\ nvsMode' = "CENTINELA")
      OBVIOUS
    <2> QED BY EveryStepBoots DEF BootStep, ModeRead, Attempt, ArmedInFlash
  <1> QED BY <1>1, <1>2, <1>3, PTL DEF Spec, DisarmedByOwner

-----------------------------------------------------------------------------
(* The alert handle.                                                       *)

LEMMA RebootDropsHandle == ASSUME NEW m, Reboot(m) PROVE HandleHasTask'
  BY DEF Reboot, HandleHasTask

LEMMA SleepDropsHandle == ASSUME NEW q, EnterSleep(q) PROVE HandleHasTask'
  BY RebootDropsHandle DEF EnterSleep, ResetAlertContext, HandleHasTask

LEMMA OrchestratorKeepsHandle ==
    HandleHasTask /\ (OrchestratorStep \/ IdleAutoMute \/ VigilanteEnds) => HandleHasTask'
  <1> SUFFICES ASSUME HandleHasTask, OrchestratorStep \/ IdleAutoMute \/ VigilanteEnds
               PROVE  HandleHasTask'
    OBVIOUS
  <1>1. CASE OnWifiDisconnected
    BY <1>1 DEF OnWifiDisconnected, EnterWaitWifi, ResetAlertContext, HandleHasTask
  <1>2. CASE OnWifiConnected
    BY <1>2, SleepDropsHandle DEF OnWifiConnected, EnterPreparingBle, ResetAlertContext, HandleHasTask
  <1>3. CASE OnMotionInSleep
    BY <1>3 DEF OnMotionInSleep, EnterPreparingBle, HandleHasTask
  <1>4. CASE OnBleReady
    BY <1>4 DEF OnBleReady, EnterValidatingIdentity, HandleHasTask
  <1>5. CASE OnBleBusyPreparing
    BY <1>5, SleepDropsHandle DEF OnBleBusyPreparing, ResetAlertContext, HandleHasTask
  <1>6. CASE OnIdentityPresent
    BY <1>6 DEF OnIdentityPresent, EnterReleasingBle, HandleHasTask
  <1>7. CASE OnIdentityRejected
    BY <1>7 DEF OnIdentityRejected, EnterReleasingBle, HandleHasTask
  <1>8. CASE OnBleBusyValidating
    BY <1>8 DEF OnBleBusyValidating, ResetAlertContext, EnterReleasingBle, HandleHasTask
  <1>9. CASE OnBleReleaseComplete
    BY <1>9, SleepDropsHandle DEF OnBleReleaseComplete, EnterDispatchingAlert, EnterNetDiscoveryScan,
          ResetAlertContext, HandleHasTask
  <1>10. CASE OnBleReleaseFailed
    BY <1>10, SleepDropsHandle DEF OnBleReleaseFailed, ResetAlertContext, HandleHasTask
  <1>11. CASE OnNetDiscoveryEnds
    BY <1>11 DEF OnNetDiscoveryEnds, EnterIgniting, HandleHasTask
  <1>12. CASE OnAlertResult
    BY <1>12 DEF OnAlertResult, ResetAlertContext, EnterIgniting, HandleHasTask
  <1>13. CASE OnWebrtcConnected
    BY <1>13 DEF OnWebrtcConnected, EnterActive, HandleHasTask
  <1>14. CASE OnWebrtcDropped
    BY <1>14 DEF OnWebrtcDropped, EnterStoppingWebrtc, HandleHasTask
  <1>15. CASE OnMicRequest
    BY <1>15 DEF OnMicRequest, SetMute, HandleHasTask
  <1>16. CASE OnAutoSleepTimeout
    BY <1>16 DEF OnAutoSleepTimeout, EnterStoppingWebrtc, HandleHasTask
  <1>17. CASE OnWebrtcStopped
    BY <1>17, SleepDropsHandle DEF OnWebrtcStopped, EnterTearingDownUi, ResetAlertContext, HandleHasTask
  <1>18. CASE OnRamFreed
    BY <1>18 DEF OnRamFreed, EnterAutoArm, HandleHasTask
  <1>19. CASE OnBleReadyAutoArm
    BY <1>19 DEF OnBleReadyAutoArm, HandleHasTask
  <1>20. CASE OnAutoArmVerdict
    BY <1>20, RebootDropsHandle DEF OnAutoArmVerdict, HandleHasTask
  <1>21. CASE OnFatalError
    BY <1>21 DEF OnFatalError, HandleHasTask
  <1>22. CASE IgnoreEvent
    BY <1>22 DEF IgnoreEvent, HandleHasTask
  <1>23. CASE IdleAutoMute
    BY <1>23 DEF IdleAutoMute, SetMute, HandleHasTask
  <1>24. CASE VigilanteEnds
    BY <1>24 DEF VigilanteEnds, ResetAlertContext, EnterStoppingWebrtc, HandleHasTask
  <1> QED
    BY <1>1, <1>2, <1>3, <1>4, <1>5, <1>6, <1>7, <1>8, <1>9, <1>10, <1>11, <1>12,
       <1>13, <1>14, <1>15, <1>16, <1>17, <1>18, <1>19, <1>20, <1>21, <1>22, <1>23,
       <1>24
    DEF OrchestratorStep

LEMMA AlertTasksKeepHandle == HandleHasTask /\ AlertTaskStep => HandleHasTask'
  BY DEF HandleHasTask, AlertTaskStep, AlertPosts, AlertEnds

\* Every other step leaves the handle and the tasks alone.
LEMMA OthersKeepHandle ==
    OtherStep \/ KillSwitchWrites => AlertTaskStep \/ UNCHANGED <<alertHandle, alertTasks>>
  <1>1. CASE PrepTaskStep
    BY <1>1 DEF PrepTaskStep, PrepPreclean, PrepBringUp, PrepCheck, PrepPosts, PrepEnds
  <1>2. CASE RelTaskStep
    BY <1>2 DEF RelTaskStep, RelReleases, RelPosts, RelEnds
  <1>3. CASE StopTaskStep
    BY <1>3 DEF StopTaskStep, StopCloses, StopPosts, StopEnds
  <1>4. CASE CooldownTaskStep \/ CooldownElapses
    BY <1>4 DEF CooldownTaskStep, CooldownShows, CooldownChecks, CooldownArms,
          CooldownElapses
  <1>5. CASE ScanTaskStep
    BY <1>5 DEF ScanTaskStep, ScanStarts, ScanEnds
  <1>6. CASE NdTimerFires \/ RamTimerFires \/ IdleTimerFires \/ NdScanEnds \/ MotionSensed
    BY <1>6 DEF NdTimerFires, RamTimerFires, IdleTimerFires, NdScanEnds, MotionSensed
  <1>7. CASE RtcConnects \/ RtcDrops \/ ApiRejects \/ MicRequested
    BY <1>7 DEF RtcConnects, RtcDrops, ApiRejects, MicRequested
  <1>8. CASE WifiConnects \/ WifiDisconnects \/ KillSwitchWrites
    BY <1>8 DEF WifiConnects, WifiDisconnects, KillSwitchWrites
  <1> QED BY <1>1, <1>2, <1>3, <1>4, <1>5, <1>6, <1>7, <1>8 DEF OtherStep

\* A handle that is set has a task alive that will clear it.
THEOREM HandleKept == Spec => []HandleHasTask
  <1>1. Init => HandleHasTask
    BY DEF Init, InitWith, HandleHasTask
  <1>2. HandleHasTask /\ [Next]_vars => HandleHasTask'
    <2> SUFFICES ASSUME HandleHasTask, [Next]_vars PROVE HandleHasTask'
      OBVIOUS
    <2>1. CASE UNCHANGED <<alertHandle, alertTasks>>
      BY <2>1 DEF HandleHasTask
    <2>2. UNCHANGED vars => UNCHANGED <<alertHandle, alertTasks>>
      OBVIOUS
    <2> QED
      BY <2>1, <2>2, NextSplits, OthersKeepHandle, AlertTasksKeepHandle, RestartReboots,
         RebootDropsHandle, OrchestratorKeepsHandle
  <1> QED BY <1>1, <1>2, PTL DEF Spec
=============================================================================
